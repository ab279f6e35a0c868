----------------------------- MODULE NestedCalls -----------------------------
(* query and mutate called inside a closure passed to query or mutate        *)
(* (runtime/mod.rs:101-105: "attempting to call these functions recursively  *)
(* will likely cause issues").  The outer closure keeps its context until    *)
(* the inner call returns; several inner calls may be joined.                *)
EXTENDS Clock

VARIABLE within     \* the call in whose closure a call was made, if any

nestedVars == <<vars, within>>

Nobody == "nobody"

NestedInit == Init /\ within = [c \in Calls |-> Nobody]

Inside(c) == {d \in Calls : within[d] = c}

AskWithin(c, kind, outer) ==
    /\ Ask(c, kind)
    /\ outer # Nobody => call[outer] = "running" /\ outer # c
    /\ within' = [within EXCEPT ![c] = outer]

(* The closure returns, with every call it made behind it.                   *)
Return(c) ==
    /\ Inside(c) = {}
    /\ Finish(c)
    /\ within' = [within EXCEPT ![c] = Nobody]

(* A call that waits is dropped.  The one around it goes on, as in select!,  *)
(* or is dropped too: then its Return follows.                               *)
Drop(c) ==
    /\ Cancel(c)
    /\ within' = [within EXCEPT ![c] = Nobody]

NestedCaller ==
    \E c \in Calls :
        \/ \E kind \in Kinds, outer \in Calls \cup {Nobody} : AskWithin(c, kind, outer)
        \/ Return(c) \/ Drop(c)

Tasks == ClockTask \/ IndexerTask

NestedNext == NestedCaller \/ (Tasks /\ UNCHANGED within)

NestedSpec == NestedInit /\ [][NestedNext]_nestedVars

(* A task that can run runs; closures return, unless they wait for a call    *)
(* they made.                                                                *)
NestedFairSpec ==
    /\ NestedSpec
    /\ WF_nestedVars(ClockTask /\ UNCHANGED within)
    /\ WF_nestedVars(IndexerTask /\ UNCHANGED within)
    /\ \A c \in Calls : WF_nestedVars(Return(c))

-----------------------------------------------------------------------------
(* The clock has to see every token back before it comes to the n-th pending *)
(* instruction.                                                              *)
NeedsRelease(n) == phase = "Mutation" \/ \E m \in 1 .. n : Pending[m].kind = "Mutation"

(* c waits for a token that is given out only after the closure it was       *)
(* called in has let go of its own.                                          *)
SelfWait(c) ==
    /\ call[c] = "waiting" /\ within[c] # Nobody
    /\ \E n \in DOMAIN Pending : Pending[n].by = c /\ NeedsRelease(n)

(* What "may deadlock" comes to: a nested call is in trouble exactly if a    *)
(* mutation is queued before it, it is one itself, or it is made in one;     *)
(* every call is served, nested or not, unless some call waits for itself.   *)
ServedUnlessSelfWait ==
    \A c \in Calls : call[c] = "waiting" ~>
        call[c] # "waiting" \/ \E d \in Calls : SelfWait(d)

(* A call that waits for itself is never served, nor does anything free it   *)
(* but dropping its own future: no token comes back, no other call that is   *)
(* served, cancelled or ends, and no registration, makes a way out.          *)
SelfWaitLasts ==
    [][\A c \in Calls : SelfWait(c) => SelfWait(c)' \/ Drop(c)]_nestedVars
=============================================================================
