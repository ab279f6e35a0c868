----------------------------- MODULE LifeMeaning -----------------------------
(* What NodeLife promises of values, waits and deaths.  QueryMeaning says    *)
(* what evaluation from nothing gives; a panic is one of the things it may   *)
(* come to.                                                                  *)
EXTENDS NodeLife, QueryMeaning

CONSTANT Panicked   \* what an evaluation that panics comes to

(* NextReads and Result say nothing of a tenant that panicked, and no tenant *)
(* reads a value its callee did not return: for the reference, a tenant that *)
(* panics is done and returns Panicked, and panics if a reply is Panicked.   *)
ASSUME PanicAssumption ==
    \A q \in Queries, in \in Worlds : \A seen \in Path(q, in) :
        LET replies == Replies(NextReads(q, seen), in)
        IN  /\ Panics(q, seen) <=> NextReads(q, seen) = <<>> /\ Result(q, seen) = Panicked
            /\ (\E k \in DOMAIN replies : replies[k] = Panicked) => Panics(q, seen \o replies)

-----------------------------------------------------------------------------
(* A panic spoils nothing that lives: an answer is what evaluation from      *)
(* nothing gives, and never stands for an evaluation that would panic; and   *)
(* every frame in a valid range, never empty, has the cached value, so that  *)
(* none of them is one in which the query would have panicked.               *)
ValuesSurvivePanics ==
    /\ \A c \in Callers : root[c].at = "answered" =>
          root[c].value = Meaning(root[c].query, frame) /\ root[c].value # Panicked
    /\ \A q \in Queries : HasCache(q) =>
          LET range == node[q].cache.from .. node[q].cache.until
          IN  /\ range # {} /\ node[q].cache.value # Panicked
              /\ \A f \in range : Meaning(q, f) = node[q].cache.value

(* The queries q calls directly when evaluated from nothing in frame f.      *)
CallsIn(q, f) ==
    {d \in Queries : \E seen \in Path(q, log[f]) :
                        \E k \in DOMAIN NextReads(q, seen) : NextReads(q, seen)[k] = d}

(* A set of queries and frames that has every query in every frame in which  *)
(* it panics of its own accord, or calls one that is in the set for that     *)
(* frame or an earlier one.                                                  *)
HasAllReasons(S) ==
    \A q \in Queries, f \in 0 .. frame :
        \/ <<q, f>> \in S
        \/ /\ Meaning(q, f) # Panicked
           /\ \A d \in CallsIn(q, f), g \in 0 .. f : <<d, g>> \notin S

(* A panic ends the nodes that call, in that frame or a later one, and no    *)
(* other: a set that has all reasons has every node that ended, so a node    *)
(* that only asks a dead one whether it changed lives on.  Nothing is left   *)
(* of a node that ended, its unserved requests included.                     *)
DeathHasReason ==
    \A q \in dead :
        /\ node[q] = Absent
        /\ owner => \A S \in SUBSET ((Queries \ {q}) \X (0 .. frame)) : ~HasAllReasons(S)

(* lib.rs:450-451: "putting same inputs into computation necessarily         *)
(* produces the same outcome": a call fails only if evaluating the query on  *)
(* the inputs of the frame does.                                             *)
SameInputsSameOutcome ==
    \A c \in Callers :
        root[c].at = "failed" => Meaning(root[c].query, frame) = Panicked

-----------------------------------------------------------------------------
(* The request q or a caller awaits an answer to is still at the node.       *)
Asked(d, kind, by, slot) ==
    \/ node[d].job.kind = kind /\ node[d].job.by = by /\ node[d].job.slot = slot
    \/ LET mail == IF kind = "value" THEN node[d].values ELSE node[d].checks
       IN  \E n \in DOMAIN mail : mail[n].by = by /\ mail[n].slot = slot

(* No wait is in vain: every reply awaited, by a tenant, by a validation or  *)
(* by a caller, is owed by a node that has the request, or that node ended   *)
(* and the wait fails.  Deaths and dropped receivers lose no other request.  *)
EveryWaitHasRequest ==
    /\ \A c \in Callers : root[c].at = "waiting" =>
          root[c].query \in dead \/ Asked(root[c].query, "value", c, 1)
    /\ \A q \in Queries : \A slot \in node[q].awaits :
          LET kind == IF node[q].at = "evaluating" THEN "value" ELSE "check"
              d    == IF kind = "value" THEN Group(q)[slot] ELSE node[q].cache.deps[slot]
          IN  d \in Inputs \cup dead \/ Asked(d, kind, q, slot)

(* Without panics no call fails and no tenant waits for a node that ended,   *)
(* even if the user drops the runtime while calls, or what abandoned calls   *)
(* left behind, are under way: a node that cannot upgrade its Weak any more  *)
(* never owes a value to one that still evaluates.                           *)
DropFailsNobody ==
    /\ \A c \in Callers : root[c].at # "failed" /\ ~(root[c].at = "waiting" /\ root[c].query \in dead)
    /\ \A q \in Queries : Running(q) =>
          \A slot \in node[q].awaits : Group(q)[slot] \notin dead
=============================================================================
