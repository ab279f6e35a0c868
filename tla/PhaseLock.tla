------------------------------ MODULE PhaseLock ------------------------------
(* What Runtime promises the callers of `mutate` and `query`                 *)
(* (runtime/mod.rs, "Runtime phases", "Scheduling", "Mutation sequencing"):  *)
(* a fair reader-writer lock that counts frames.  Requests are served        *)
(* strictly in the order they were made; any number of `query` calls share   *)
(* the lock, a `mutate` call has it alone; the frame advances exactly when   *)
(* the first mutation after a query phase is served.                         *)
EXTENDS Naturals, Sequences

CONSTANT Calls

VARIABLES
    queue,      \* requests not served yet, oldest first
    abandoned,  \* callers that dropped their future before being served
    held,       \* what each call holds
    mode,       \* the kind served last
    frame       \* number of the current frame

lockVars == <<queue, abandoned, held, mode, frame>>

Kinds == {"Query", "Mutation"}

QueuedCalls == {queue[n].by : n \in DOMAIN queue}

Init ==
    /\ queue = <<>>
    /\ abandoned = {}
    /\ held = [c \in Calls |-> "none"]
    /\ mode = "Query"
    /\ frame = 0

Request(c, kind) ==
    /\ held[c] = "none"
    /\ c \notin QueuedCalls
    /\ queue' = Append(queue, [kind |-> kind, by |-> c])
    /\ UNCHANGED <<abandoned, held, mode, frame>>

(* The request stays in the queue, and is served for its effect on the       *)
(* frame, even though nobody will hold the lock afterwards.                  *)
Abandon(c) ==
    /\ c \in QueuedCalls \ abandoned
    /\ abandoned' = abandoned \cup {c}
    /\ UNCHANGED <<queue, held, mode, frame>>

Serve ==
    /\ queue # <<>>
    /\ LET c    == Head(queue).by
           kind == Head(queue).kind
       IN  /\ IF kind = "Query"
                 THEN \A d \in Calls : held[d] # "Mutation"
                 ELSE \A d \in Calls : held[d] = "none"
           /\ held' = IF c \in abandoned THEN held ELSE [held EXCEPT ![c] = kind]
           /\ abandoned' = abandoned \ {c}
           /\ frame' = IF kind = "Mutation" /\ mode = "Query"
                          THEN frame + 1 ELSE frame
           /\ mode' = kind
    /\ queue' = Tail(queue)

Release(c) ==
    /\ held[c] # "none"
    /\ held' = [held EXCEPT ![c] = "none"]
    /\ UNCHANGED <<queue, abandoned, mode, frame>>

Next ==
    \/ \E c \in Calls, kind \in Kinds : Request(c, kind)
    \/ \E c \in Calls : Abandon(c) \/ Release(c)
    \/ Serve

Spec == Init /\ [][Next]_lockVars

(* Once served is possible for good, the oldest request is served.           *)
FairSpec == Spec /\ WF_lockVars(Serve)
=============================================================================
