------------------------------ MODULE MCNodeLife ------------------------------
(* Programs with tenants that panic, for TLC, and progress.                  *)
EXTENDS LifeMeaning, MCQueryNodes

NoPanics(q, seen) == FALSE

(* A query guarded by its caller: ping panics when x = 1, top calls it only  *)
(* when x = 0, and joins it with calm.                                       *)
Dies(q, seen) == q = "ping" /\ seen = <<1>>
PreconditionPanics(q, seen) == Dies(q, seen) \/ \E n \in DOMAIN seen : seen[n] = Panicked

PreconditionReads(q, seen) ==
    CASE seen = <<>> -> <<"x">>
      [] seen = <<0>> /\ q = "top" -> <<"calm", "ping">>
      [] OTHER -> <<>>

PreconditionResult(q, seen) == IF PreconditionPanics(q, seen) THEN Panicked ELSE seen[1]

-----------------------------------------------------------------------------
(* A call does not wait for ever for a node that died: it gets its value, or *)
(* fails, or goes.                                                           *)
EveryCallEnds == \A c \in Callers : root[c].at = "waiting" ~> root[c].at # "waiting"

(* runtime/mod.rs:14-15: dropping the runtime "will cause all associated     *)
(* nodes to (eventually) terminate", although nodes keep handles of each     *)
(* other and abandoned calls may have left some at work.                     *)
Dropped == ~owner /\ \A c \in Callers : ~HasContext(c)

AllNodesEnd == Dropped ~> \A q \in Queries : node[q].at = "absent"
=============================================================================
