----------------------------- MODULE MCQueryNodes -----------------------------
(* Programs of queries for TLC, what their queries mean, and progress.       *)
EXTENDS QueryMeaning, TLC

(* A diamond with an early cutoff and a branch.  half(x) = x \div 2;         *)
(* pick = IF half = 0 THEN y ELSE 0, reading y only in the first case;       *)
(* both joins pick and half: both = (pick + 2 * half) % 3.                   *)
DiamondReads(q, seen) ==
    CASE q = "half" /\ seen = <<>> -> <<"x">>
      [] q = "pick" /\ seen = <<>> -> <<"half">>
      [] q = "pick" /\ seen = <<0>> -> <<"y">>
      [] q = "both" /\ seen = <<>> -> <<"pick", "half">>
      [] OTHER -> <<>>

DiamondResult(q, seen) ==
    CASE q = "half" -> seen[1] \div 2
      [] q = "pick" -> IF seen[1] = 0 THEN seen[2] ELSE 0
      [] q = "both" -> (seen[1] + 2 * seen[2]) % 3

(* Two queries of which the input decides who calls whom: each frame the     *)
(* calls form a tree, but the edges of an old frame and of a new one may     *)
(* form a cycle.                                                             *)
SwitchReads(q, seen) ==
    CASE seen = <<>> -> <<"x">>
      [] seen = <<0>> /\ q = "left" -> <<"right">>
      [] seen = <<1>> /\ q = "right" -> <<"left">>
      [] OTHER -> <<>>

SwitchResult(q, seen) == seen[Len(seen)]

-----------------------------------------------------------------------------
(* The reference: evaluation from nothing.                                   *)
RECURSIVE EvalFrom(_, _, _), PathFrom(_, _, _), ReadsFrom(_, _, _)

Evaluated(group, in) ==
    [k \in DOMAIN group |-> IF group[k] \in Inputs THEN in[group[k]]
                                                   ELSE EvalFrom(group[k], <<>>, in)]

EvalFrom(q, seen, in) ==
    LET group == NextReads(q, seen)
    IN  IF group = <<>> THEN Result(q, seen) ELSE EvalFrom(q, seen \o Evaluated(group, in), in)

PathFrom(q, seen, in) ==
    LET group == NextReads(q, seen)
    IN  {seen} \cup IF group = <<>> THEN {} ELSE PathFrom(q, seen \o Evaluated(group, in), in)

ReadsFrom(q, seen, in) ==
    LET group == NextReads(q, seen)
    IN  IF group = <<>> THEN {}
        ELSE UNION {IF group[k] \in Inputs THEN {group[k]} ELSE ReadsFrom(group[k], <<>>, in) :
                       k \in DOMAIN group}
             \cup ReadsFrom(q, seen \o Evaluated(group, in), in)

PathOf(q, in) == PathFrom(q, <<>>, in)

-----------------------------------------------------------------------------
(* No update hangs: a node that works on a request gets done, although nodes *)
(* wait for each other and old edges and new ones may form a cycle.          *)
EveryUpdateEnds ==
    \A q \in Queries :
        node[q].at \in {"checking", "evaluating"} ~> node[q].at \in {"idle", "absent"}

(* runtime/mod.rs:87-88: "QueryContext and InputContext in fact are RAII     *)
(* guards which keep runtime from rolling into next phase": when no context  *)
(* is left and none comes, the requests still under way end and the query    *)
(* phase can end.                                                            *)
NoContext == \A c \in Callers : root[c].at = "idle"

OnlyContextsKeepPhase == NoContext ~> (NoToken \/ ~NoContext)
=============================================================================
