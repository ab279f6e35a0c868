----------------------------- MODULE QueryMeaning -----------------------------
(* What queries mean, and what QueryNodes promises of caches and answers.    *)
(* The reference is evaluation from nothing, which is recursive; it appears  *)
(* here as operators that satisfy its equations, whatever they are, and      *)
(* MCQueryNodes defines them for the programs TLC checks.                    *)
EXTENDS QueryNodes

CONSTANTS
    Path(_, _),         \* Path(q, in): what an evaluation of q on the inputs
                        \* `in` has seen, at each of its stages
    Eval(_, _, _),      \* Eval(q, seen, in): what it comes to from there on,
    ReadsOf(_, _, _)    \* and the inputs it reads, its callees' included

Worlds == [Inputs -> Values]

ValueIn(d, in) == IF d \in Inputs THEN in[d] ELSE Eval(d, <<>>, in)
Behind(d, in)  == IF d \in Inputs THEN {d} ELSE ReadsOf(d, <<>>, in)

Replies(group, in) == [k \in DOMAIN group |-> ValueIn(group[k], in)]

ASSUME MeaningAssumption ==
    \A q \in Queries, in \in Worlds :
        /\ <<>> \in Path(q, in)
        /\ \A seen \in Path(q, in) :
              LET group == NextReads(q, seen)
                  next  == seen \o Replies(group, in)
              IN  /\ group \in Seq(Nodes)
                  /\ group = <<>> =>
                        Eval(q, seen, in) = Result(q, seen) /\ ReadsOf(q, seen, in) = {}
                  /\ group # <<>> =>
                        /\ next \in Path(q, in)
                        /\ Eval(q, seen, in) = Eval(q, next, in)
                        /\ ReadsOf(q, seen, in) =
                              (UNION {Behind(group[k], in) : k \in DOMAIN group})
                              \cup ReadsOf(q, next, in)

Meaning(d, f) == ValueIn(d, log[f])

-----------------------------------------------------------------------------
(* The incremental computation is transparent: whatever was cached, extended *)
(* and skipped before, a caller gets what evaluating the query from nothing  *)
(* on the inputs of its frame gives, and gets no reply meant for a call it   *)
(* abandoned.                                                                *)
AnswersAreFresh ==
    \A c \in Callers :
        root[c].at = "answered" =>
            /\ root[c].query \in Called
            /\ root[c].value = Meaning(root[c].query, frame)

HasCache(q) == node[q].at = "idle" \/ node[q].job.kind # "spawn"

(* A valid range is true: it has a frame, none of them later than the        *)
(* current one, and in every frame of it the query had the cached value,     *)
(* also in frames in which nobody asked.                                     *)
RangeIsTrue ==
    \A q \in Queries : HasCache(q) =>
        LET range == node[q].cache.from .. node[q].cache.until
        IN  /\ range # {} /\ range \subseteq 0 .. frame
            /\ \A f \in range : Meaning(q, f) = node[q].cache.value

(* The input selection is what the shortcut of the first update step rests   *)
(* on: it has exactly the inputs the query, as of the last frame it is known *)
(* valid for, depends on through all its callees, although it was put        *)
(* together from what callees reported in different frames.                  *)
SelectionIsExact ==
    \A q \in Queries : HasCache(q) =>
        node[q].cache.selection = ReadsOf(q, <<>>, log[node[q].cache.until])

(* The edges of q as of the frame its cache is valid for.                    *)
Edges(q) == {node[q].cache.deps[n] : n \in DOMAIN node[q].cache.deps}

Changed(q) ==
    \E d \in Edges(q) : Meaning(d, node[q].cache.until) # Meaning(d, frame)

ChangedMeanwhile(q) ==
    \E d \in Edges(q) : \E f \in node[q].cache.until .. frame :
        Meaning(d, f) # Meaning(d, node[q].cache.until)

(* A node keeps its value without evaluating only if nothing it read directly*)
(* changed: no verdict, shortcut or extension hides a change.                *)
KeptOnlyIfUnchanged ==
    [][\A q \in Queries :
          /\ node[q].at \in {"idle", "checking"}
          /\ node'[q].cache.until # node[q].cache.until
          => ~Changed(q)]_queryVars

(* query.rs:3-4: "Queries are pure functions which can cache their value and *)
(* recalculate only when other queries or inputs it depends on change."      *)
RecalculatesOnlyIfChanged ==
    [][\A q \in Queries :
          node[q].at = "checking" /\ node'[q].at = "evaluating"
            => ChangedMeanwhile(q)]_queryVars
=============================================================================
