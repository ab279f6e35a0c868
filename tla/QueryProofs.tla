------------------------------ MODULE QueryProofs ------------------------------
(* Theorems about QueryNodes, for every program of queries and every number  *)
(* of callers, frames and local instants: an answer is what evaluation from  *)
(* nothing gives, valid ranges are true and selections exact.                *)
(*                                                                           *)
(* Nothing below is an induction over an evaluation.  What a node has        *)
(* gathered so far says something of every world that agrees with it: there, *)
(* too, an evaluation would have come to this point.                         *)
(*                                                                           *)
(* `PICK x : x = e' names the value of e in a state, which the steps below   *)
(* then speak of without opening e; it is the same before and after priming. *)
EXTENDS QueryMeaning, SequenceTheorems, TLAPS

-----------------------------------------------------------------------------
(* Facts about a node d, an input or a query.                                *)

(* It has had the value it has now since frame `since`.                      *)
Steady(d, since) == \A f \in since .. frame : Meaning(d, f) = Meaning(d, frame)

(* Whatever the other inputs are, the inputs behind it as of frame f decide  *)
(* its value and which inputs are behind it.                                 *)
Pinned(d, f) ==
    \A in \in Worlds :
        (\A i \in Behind(d, log[f]) : in[i] = log[f][i]) =>
            ValueIn(d, in) = Meaning(d, f) /\ Behind(d, in) = Behind(d, log[f])

(* What a node says about itself along with its value.                       *)
TrueReport(d, since, selection) ==
    /\ since \in 0 .. frame /\ Steady(d, since)
    /\ selection \subseteq Inputs /\ selection = Behind(d, log[frame])
    /\ Pinned(d, frame)

(* All inputs behind the members of a sequence of edges.                     *)
AllBehind(deps, places, f) == UNION {Behind(deps[k], log[f]) : k \in places}

-----------------------------------------------------------------------------
(* One node.                                                                 *)

(* The edges decide: a world in which they have the values they had in frame *)
(* f leads an evaluation of q to `seen`, which sees nothing but them.        *)
LeadTo(q, deps, f, seen) ==
    \A in \in Worlds :
        (\A k \in DOMAIN deps : ValueIn(deps[k], in) = Meaning(deps[k], f)) =>
            /\ seen \in Path(q, in)
            /\ Eval(q, <<>>, in) = Eval(q, seen, in)
            /\ ReadsOf(q, <<>>, in) =
                  (UNION {Behind(deps[k], in) : k \in DOMAIN deps}) \cup ReadsOf(q, seen, in)

(* They decide the value and the inputs behind q.                            *)
Decide(q, deps, f, value) ==
    \A in \in Worlds :
        (\A k \in DOMAIN deps : ValueIn(deps[k], in) = Meaning(deps[k], f)) =>
            /\ Eval(q, <<>>, in) = value
            /\ ReadsOf(q, <<>>, in) = UNION {Behind(deps[k], in) : k \in DOMAIN deps}

(* The local instant of an input was moved on k times since frame f, and if  *)
(* it was not, the input kept its value.                                     *)
MovedOn(i, old, f) ==
    \E k \in 0 .. frame - f :
        /\ input[i].instant = (old + k) % Instants
        /\ k = 0 => \A g \in f .. frame : log[g][i] = log[f][i]

CacheTrue(q, c) ==
    /\ c.from \in Nat /\ c.until \in Nat /\ c.from <= c.until /\ c.until <= frame
    /\ \A f \in c.from .. c.until : Meaning(q, f) = c.value
    /\ c.deps \in Seq(Nodes)
    /\ Decide(q, c.deps, c.until, c.value)
    /\ \A k \in DOMAIN c.deps : Pinned(c.deps[k], c.until)
    /\ c.selection \subseteq Inputs
    /\ c.selection = AllBehind(c.deps, DOMAIN c.deps, c.until)
    /\ \A i \in Inputs : /\ InstantIn(c.snapshot, i) \in 0 .. Instants - 1
                         /\ MovedOn(i, InstantIn(c.snapshot, i), c.until)

CheckingTrue(n) ==
    LET deps     == n.cache.deps
        verified == (1 .. n.sent) \ n.awaits
    IN  /\ n.sent \in 0 .. Len(deps) /\ n.awaits \subseteq 1 .. n.sent
        /\ n.since \in 0 .. frame
        /\ \A k \in verified : /\ Steady(deps[k], n.since) /\ Pinned(deps[k], frame)
                               /\ Meaning(deps[k], n.cache.until) = Meaning(deps[k], frame)
        /\ n.selection \subseteq Inputs
        /\ n.selection = AllBehind(deps, verified, frame)

EvaluatingTrue(q, n) ==
    LET group == NextReads(q, n.seen)
    IN  /\ n.since \in 0 .. frame
        /\ n.deps \in Seq(Nodes)
        /\ \A k \in DOMAIN n.deps : Steady(n.deps[k], n.since) /\ Pinned(n.deps[k], frame)
        /\ n.selection \subseteq Inputs
        /\ n.selection = AllBehind(n.deps, DOMAIN n.deps, frame)
        /\ LeadTo(q, n.deps, frame, n.seen)
        /\ DOMAIN n.got \subseteq DOMAIN group
        /\ n.awaits \subseteq DOMAIN group \ DOMAIN n.got
        /\ \A k \in DOMAIN n.got :
              /\ n.got[k] = Meaning(group[k], frame)
              /\ \E m \in DOMAIN n.deps : n.deps[m] = group[k]

Requesters   == Queries \cup Callers \cup {Gone}
ValueRequest == [by : Requesters, slot : Nat]
CheckRequest == [by : Requesters, slot : Nat, past : Nat]
Job          == [kind : {"spawn", "value", "check"}, by : Requesters, slot : Nat, past : Nat]

IsCache(c) ==
    c \in [value : {c.value}, from : {c.from}, until : {c.until}, deps : {c.deps},
           selection : {c.selection}, snapshot : {c.snapshot}]

IsNode(n) ==
    /\ n \in [at : {n.at}, cache : {n.cache}, job : {n.job}, values : {n.values},
              checks : {n.checks}, sent : {n.sent}, awaits : {n.awaits}, got : {n.got},
              seen : {n.seen}, deps : {n.deps}, since : {n.since}, selection : {n.selection}]
    /\ n.at \in {"absent", "idle", "checking", "evaluating"}
    /\ IsCache(n.cache)
    /\ n.job \in Job
    /\ n.values \in Seq(ValueRequest)
    /\ n.checks \in Seq(CheckRequest)

NodeTrue(q, n) ==
    /\ IsNode(n)
    /\ n.at = "absent" => n.job.kind = "spawn"
    /\ n.job.kind = "spawn" => n.job.by = Gone
    /\ n.at = "idle" \/ n.job.kind # "spawn" => CacheTrue(q, n.cache)
    /\ n.at = "checking" => n.job.kind # "spawn" /\ CheckingTrue(n)
    /\ n.at = "evaluating" => EvaluatingTrue(q, n)

-----------------------------------------------------------------------------
(* Requests: whose they are, in the state ns of all nodes and rs of callers. *)

OwedValue(ns, rs, d, r) ==
    r.by # Gone =>
        \/ /\ r.by \in Callers /\ r.slot = 1
           /\ rs[r.by].at = "waiting" /\ rs[r.by].query = d
        \/ /\ r.by \in Queries /\ ns[r.by].at = "evaluating"
           /\ r.slot \in ns[r.by].awaits
           /\ NextReads(r.by, ns[r.by].seen)[r.slot] = d

OwedCheck(ns, d, r) ==
    r.by # Gone =>
        /\ r.by \in Queries /\ ns[r.by].at = "checking"
        /\ r.slot \in ns[r.by].awaits
        /\ ns[r.by].cache.deps[r.slot] = d
        /\ r.past = ns[r.by].cache.until

(* What waits at a node or is served there: calls for the value, and checks. *)
CallsAt(n)  == {n.values[k] : k \in DOMAIN n.values} \cup {r \in {n.job} : r.kind = "value"}
ChecksAt(n) == {n.checks[k] : k \in DOMAIN n.checks} \cup {r \in {n.job} : r.kind = "check"}

Owed(ns, rs, d) ==
    /\ \A r \in CallsAt(ns[d]) : OwedValue(ns, rs, d, r)
    /\ \A r \in ChecksAt(ns[d]) : OwedCheck(ns, d, r)

Same(r, s) == r.by # Gone /\ r.by = s.by /\ r.slot = s.slot

(* A request is at its node once.                                            *)
Once(n) ==
    /\ \A k, m \in DOMAIN n.values : Same(n.values[k], n.values[m]) => k = m
    /\ \A k, m \in DOMAIN n.checks : Same(n.checks[k], n.checks[m]) => k = m
    /\ n.job.kind = "value" => \A k \in DOMAIN n.values : ~Same(n.values[k], n.job)
    /\ n.job.kind = "check" => \A k \in DOMAIN n.checks : ~Same(n.checks[k], n.job)

RootTrue(r) ==
    /\ r \in [at : {r.at}, query : {r.query}, value : {r.value}]
    /\ r.at \in {"waiting", "answered"} => r.query \in Called
    /\ r.at = "answered" => r.value = Meaning(r.query, frame)

NodesTrue(ns, rs) ==
    /\ ns = [q \in Queries |-> ns[q]] /\ rs = [c \in Callers |-> rs[c]]
    /\ \A q \in Queries : NodeTrue(q, ns[q]) /\ Owed(ns, rs, q) /\ Once(ns[q])
    /\ \A c \in Callers : RootTrue(rs[c])

WorldTrue ==
    /\ frame \in Frames
    /\ log \in [Frames -> Worlds]
    /\ input \in [Inputs -> [value : Values, since : Nat, instant : 0 .. Instants - 1]]
    /\ \A i \in Inputs :
          /\ input[i].since <= frame
          /\ \A f \in input[i].since .. frame : log[f][i] = input[i].value
          /\ i \notin known => input[i].instant = 0
          /\ InstantIn(snapshot, i) = input[i].instant

QueryInv == WorldTrue /\ NodesTrue(node, root)

-----------------------------------------------------------------------------
(* Frames and worlds.                                                        *)

LEMMA WorldOf == WorldTrue => \A f \in 0 .. frame : f \in Frames /\ log[f] \in Worlds
  BY QueryAssumption DEF WorldTrue, Frames

LEMMA FrameNat == WorldTrue => frame \in Nat
  BY QueryAssumption DEF WorldTrue, Frames

LEMMA QueryNoInput == \A q \in Queries : q \notin Inputs
  BY QueryAssumption

(* What an evaluation does next, in every world it is on its way in.         *)
LEMMA NextOnPath ==
    ASSUME NEW q \in Queries, NEW in \in Worlds, NEW seen \in Path(q, in)
    PROVE  /\ NextReads(q, seen) \in Seq(Nodes)
           /\ NextReads(q, seen) = <<>> =>
                 Eval(q, seen, in) = Result(q, seen) /\ ReadsOf(q, seen, in) = {}
           /\ NextReads(q, seen) # <<>> =>
                 /\ seen \o Replies(NextReads(q, seen), in) \in Path(q, in)
                 /\ Eval(q, seen, in) =
                       Eval(q, seen \o Replies(NextReads(q, seen), in), in)
                 /\ ReadsOf(q, seen, in) =
                       (UNION {Behind(NextReads(q, seen)[k], in) :
                                 k \in DOMAIN NextReads(q, seen)})
                       \cup ReadsOf(q, seen \o Replies(NextReads(q, seen), in), in)
  BY MeaningAssumption

LEMMA LeadStart == ASSUME NEW q \in Queries, NEW f PROVE LeadTo(q, <<>>, f, <<>>)
  BY MeaningAssumption DEF LeadTo

(* Another member of the group that is read has come in.                     *)
LEMMA LeadGrows ==
    ASSUME NEW q \in Queries, NEW deps \in Seq(Nodes), NEW f, NEW seen,
           LeadTo(q, deps, f, seen),
           NEW slot \in DOMAIN NextReads(q, seen), NextReads(q, seen)[slot] \in Nodes
    PROVE  LeadTo(q, Append(deps, NextReads(q, seen)[slot]), f, seen)
<1> DEFINE group == NextReads(q, seen)
           new   == Append(deps, group[slot])
<1>1. /\ \A k \in DOMAIN deps : k \in DOMAIN new /\ new[k] = deps[k]
      /\ \A k \in DOMAIN new : k \in DOMAIN deps \/ new[k] = group[slot]
      /\ \E k \in DOMAIN new : new[k] = group[slot]
  BY AppendProperties
<1> HIDE DEF new
<1> SUFFICES ASSUME NEW in \in Worlds,
                    \A k \in DOMAIN new : ValueIn(new[k], in) = Meaning(new[k], f)
             PROVE  /\ seen \in Path(q, in)
                    /\ Eval(q, <<>>, in) = Eval(q, seen, in)
                    /\ ReadsOf(q, <<>>, in) =
                          (UNION {Behind(new[k], in) : k \in DOMAIN new}) \cup ReadsOf(q, seen, in)
  BY DEF LeadTo, new
<1>2. \A k \in DOMAIN deps : ValueIn(deps[k], in) = Meaning(deps[k], f)
  BY <1>1
<1>3. /\ seen \in Path(q, in)
      /\ Eval(q, <<>>, in) = Eval(q, seen, in)
      /\ ReadsOf(q, <<>>, in) =
            (UNION {Behind(deps[k], in) : k \in DOMAIN deps}) \cup ReadsOf(q, seen, in)
  BY <1>2 DEF LeadTo
<1>4. Behind(group[slot], in) \subseteq ReadsOf(q, seen, in)
  <2>1. group # <<>>
    OBVIOUS
  <2> QED
    BY <1>3, <2>1, NextOnPath
<1>5. UNION {Behind(new[k], in) : k \in DOMAIN new}
         = (UNION {Behind(deps[k], in) : k \in DOMAIN deps}) \cup Behind(group[slot], in)
  BY <1>1
<1> QED
  BY <1>3, <1>4, <1>5

(* The group is complete.                                                    *)
LEMMA LeadGoesOn ==
    ASSUME NEW q \in Queries, NEW deps, NEW f, NEW seen, LeadTo(q, deps, f, seen),
           NEW slot \in DOMAIN NextReads(q, seen), NEW got,
           got = [k \in DOMAIN NextReads(q, seen) |-> Meaning(NextReads(q, seen)[k], f)],
           \A k \in DOMAIN NextReads(q, seen) :
               \E m \in DOMAIN deps : deps[m] = NextReads(q, seen)[k]
    PROVE  LeadTo(q, deps, f, seen \o got)
<1> DEFINE group == NextReads(q, seen)
<1> SUFFICES ASSUME NEW in \in Worlds,
                    \A k \in DOMAIN deps : ValueIn(deps[k], in) = Meaning(deps[k], f)
             PROVE  /\ seen \o got \in Path(q, in)
                    /\ Eval(q, <<>>, in) = Eval(q, seen \o got, in)
                    /\ ReadsOf(q, <<>>, in) =
                          (UNION {Behind(deps[k], in) : k \in DOMAIN deps})
                          \cup ReadsOf(q, seen \o got, in)
  BY DEF LeadTo
<1>1. /\ seen \in Path(q, in)
      /\ Eval(q, <<>>, in) = Eval(q, seen, in)
      /\ ReadsOf(q, <<>>, in) =
            (UNION {Behind(deps[k], in) : k \in DOMAIN deps}) \cup ReadsOf(q, seen, in)
  BY DEF LeadTo
<1>2. got = Replies(group, in)
  <2>1. \A k \in DOMAIN group : ValueIn(group[k], in) = Meaning(group[k], f)
    OBVIOUS
  <2> QED
    BY <2>1 DEF Replies
<1>3. group # <<>>
  OBVIOUS
<1>4. /\ seen \o got \in Path(q, in)
      /\ Eval(q, seen, in) = Eval(q, seen \o got, in)
      /\ ReadsOf(q, seen, in) = (UNION {Behind(group[k], in) : k \in DOMAIN group})
                                \cup ReadsOf(q, seen \o got, in)
  BY <1>1, <1>2, <1>3, NextOnPath
<1>5. UNION {Behind(group[k], in) : k \in DOMAIN group}
         \subseteq UNION {Behind(deps[k], in) : k \in DOMAIN deps}
  OBVIOUS
<1> QED
  BY <1>1, <1>4, <1>5

LEMMA LeadEnds ==
    ASSUME NEW q \in Queries, NEW deps, NEW f, NEW seen, LeadTo(q, deps, f, seen),
           NextReads(q, seen) = <<>>
    PROVE  Decide(q, deps, f, Result(q, seen))
  BY NextOnPath DEF LeadTo, Decide

(* A node whose inputs are the same in frame g.                              *)
LEMMA PinnedMoves ==
    ASSUME NEW d, NEW f, NEW g, log[g] \in Worlds, Pinned(d, f),
           \A i \in Behind(d, log[f]) : log[g][i] = log[f][i]
    PROVE  /\ Meaning(d, g) = Meaning(d, f) /\ Behind(d, log[g]) = Behind(d, log[f])
           /\ Pinned(d, g)
  BY DEF Pinned, Meaning

LEMMA InputPinned == ASSUME NEW i \in Inputs, NEW f PROVE Pinned(i, f) /\ Behind(i, log[f]) = {i}
  BY DEF Pinned, Behind, ValueIn, Meaning

(* A cache pins its node.                                                    *)
LEMMA CachePins ==
    ASSUME WorldTrue, NEW q \in Queries, NEW c, CacheTrue(q, c)
    PROVE  /\ Pinned(q, c.until) /\ Meaning(q, c.until) = c.value
           /\ c.selection = ReadsOf(q, <<>>, log[c.until])
           /\ c.selection = Behind(q, log[c.until])
<1> DEFINE deps == c.deps
           now  == log[c.until]
<1>1. c.until \in 0 .. frame /\ now \in Worlds
  BY WorldOf, FrameNat DEF CacheTrue
<1>2. Decide(q, deps, c.until, c.value) /\ \A k \in DOMAIN deps : Pinned(deps[k], c.until)
  BY DEF CacheTrue
<1>3. c.selection = UNION {Behind(deps[k], now) : k \in DOMAIN deps}
  BY DEF CacheTrue, AllBehind
<1>4. ASSUME NEW in \in Worlds, \A i \in c.selection : in[i] = now[i]
      PROVE  Eval(q, <<>>, in) = c.value /\ ReadsOf(q, <<>>, in) = c.selection
  <2>1. ASSUME NEW k \in DOMAIN deps
        PROVE  ValueIn(deps[k], in) = Meaning(deps[k], c.until)
               /\ Behind(deps[k], in) = Behind(deps[k], now)
    <3>1. \A i \in Behind(deps[k], now) : in[i] = now[i]
      BY <1>3, <1>4
    <3> QED
      BY <1>2, <1>4, <3>1 DEF Pinned
  <2>2. UNION {Behind(deps[k], in) : k \in DOMAIN deps} = c.selection
    BY <1>3, <2>1
  <2> QED
    BY <1>2, <2>1, <2>2 DEF Decide
<1>5. Eval(q, <<>>, now) = c.value /\ ReadsOf(q, <<>>, now) = c.selection
  BY <1>1, <1>4
<1> QED
  BY <1>4, <1>5, QueryNoInput DEF Pinned, Meaning, ValueIn, Behind

(* The cache of a node that is up to date is its report.                     *)
LEMMA CacheReports ==
    ASSUME WorldTrue, NEW q \in Queries, NEW c, CacheTrue(q, c), c.until = frame
    PROVE  TrueReport(q, c.from, c.selection) /\ Meaning(q, frame) = c.value
<1>1. /\ Pinned(q, frame) /\ Meaning(q, frame) = c.value
      /\ c.selection = Behind(q, log[frame])
  BY CachePins
<1>2. /\ c.from \in 0 .. frame /\ c.selection \subseteq Inputs
      /\ \A f \in c.from .. frame : Meaning(q, f) = c.value
  BY DEF CacheTrue
<1> QED
  BY <1>1, <1>2 DEF TrueReport, Steady

LEMMA InputReports ==
    ASSUME WorldTrue, NEW i \in Inputs
    PROVE  TrueReport(i, input[i].since, {i}) /\ Meaning(i, frame) = input[i].value
<1>1. /\ input[i].since \in 0 .. frame
      /\ \A f \in input[i].since .. frame : log[f][i] = input[i].value
  BY FrameNat DEF WorldTrue
<1>2. frame \in input[i].since .. frame
  BY <1>1, FrameNat
<1> QED
  BY <1>1, <1>2, InputPinned DEF TrueReport, Steady, Meaning, ValueIn

-----------------------------------------------------------------------------
(* The updates of a cache.                                                   *)

LEMMA SameCache ==
    ASSUME NEW a, NEW b, IsCache(a), IsCache(b),
           a.value = b.value, a.from = b.from, a.until = b.until, a.deps = b.deps,
           a.selection = b.selection, a.snapshot = b.snapshot
    PROVE  a = b
  BY DEF IsCache

(* Fewer moves than a local instant has values do not bring it back.         *)
LEMMA NoTurn ==
    ASSUME NEW a \in 0 .. Instants - 1, NEW k \in Nat, k < Instants,
           (a + k) % Instants = a
    PROVE  k = 0
<1>1. Instants \in Nat \ {0}
  BY QueryAssumption
<1>2. CASE a + k < Instants
  <2>1. (a + k) % Instants = a + k
    BY <1>1, <1>2
  <2> QED
    BY <2>1
<1>3. CASE a + k >= Instants
  <2>1. (a + k) % Instants = a + k - Instants
    BY <1>1, <1>3
  <2> QED
    BY <1>1, <2>1
<1> QED
  BY <1>1, <1>2, <1>3

LEMMA FreshSnapshot ==
    ASSUME WorldTrue, NEW i \in Inputs
    PROVE  /\ InstantIn(snapshot, i) \in 0 .. Instants - 1
           /\ MovedOn(i, InstantIn(snapshot, i), frame)
<1>1. input[i].instant \in 0 .. Instants - 1 /\ InstantIn(snapshot, i) = input[i].instant
  BY DEF WorldTrue
<1>2. \A a \in 0 .. Instants - 1 : (a + 0) % Instants = a
  BY QueryAssumption
<1>3. 0 \in 0 .. frame - frame
  BY FrameNat
<1>4. \A g \in frame .. frame : g = frame
  BY FrameNat
<1> QED
  BY <1>1, <1>2, <1>3, <1>4 DEF MovedOn

(* The first step of the update: nothing behind it moved,                    *)
LEMMA BehindUnmoved ==
    ASSUME WorldTrue, NEW q \in Queries, NEW c, CacheTrue(q, c), InputsUnchanged(c)
    PROVE  \A i \in c.selection : \A g \in c.until .. frame : log[g][i] = log[c.until][i]
<1> SUFFICES ASSUME NEW i \in c.selection
             PROVE  \A g \in c.until .. frame : log[g][i] = log[c.until][i]
  OBVIOUS
<1>1. /\ i \in Inputs /\ InstantIn(c.snapshot, i) \in 0 .. Instants - 1
      /\ MovedOn(i, InstantIn(c.snapshot, i), c.until)
  BY DEF CacheTrue
<1>2. /\ frame - c.until < Instants
      /\ InstantIn(c.snapshot, i) = InstantIn(snapshot, i)
      /\ InstantIn(snapshot, i) = input[i].instant
  BY <1>1 DEF InputsUnchanged, WorldTrue
<1>3. PICK k \in 0 .. frame - c.until :
          /\ input[i].instant = (InstantIn(c.snapshot, i) + k) % Instants
          /\ k = 0 => \A g \in c.until .. frame : log[g][i] = log[c.until][i]
  BY <1>1 DEF MovedOn
<1>4. k \in Nat /\ k < Instants
  BY <1>2, FrameNat, QueryAssumption DEF CacheTrue
<1>5. k = 0
  BY <1>1, <1>2, <1>3, <1>4, NoTurn
<1> QED
  BY <1>3, <1>5

(* so that every edge is what it was,                                        *)
LEMMA EdgesUnmoved ==
    ASSUME WorldTrue, NEW q \in Queries, NEW c, CacheTrue(q, c), InputsUnchanged(c),
           NEW k \in DOMAIN c.deps
    PROVE  /\ Meaning(c.deps[k], frame) = Meaning(c.deps[k], c.until)
           /\ Behind(c.deps[k], log[frame]) = Behind(c.deps[k], log[c.until])
           /\ Pinned(c.deps[k], frame)
<1>1. c.until \in Nat /\ c.until <= frame /\ frame \in Nat
  BY FrameNat DEF CacheTrue
<1>2. frame \in c.until .. frame /\ log[frame] \in Worlds
  BY <1>1, WorldOf
<1>3. \A i \in Behind(c.deps[k], log[c.until]) : log[frame][i] = log[c.until][i]
  <2>1. c.selection = AllBehind(c.deps, DOMAIN c.deps, c.until)
    BY DEF CacheTrue
  <2>2. Behind(c.deps[k], log[c.until]) \subseteq c.selection
    BY <2>1 DEF AllBehind
  <2> QED
    BY <1>2, <2>2, BehindUnmoved
<1>4. Pinned(c.deps[k], c.until)
  BY DEF CacheTrue
<1> QED
  BY <1>2, <1>3, <1>4, PinnedMoves

(* and the value with them.                                                  *)
LEMMA ShortcutTrue ==
    ASSUME WorldTrue, NEW q \in Queries, NEW c, IsCache(c), CacheTrue(q, c),
           InputsUnchanged(c)
    PROVE  CacheTrue(q, [c EXCEPT !.until = frame, !.snapshot = snapshot])
<1> DEFINE new  == [c EXCEPT !.until = frame, !.snapshot = snapshot]
           deps == c.deps
<1>1. /\ new.from = c.from /\ new.until = frame /\ new.deps = deps /\ new.value = c.value
      /\ new.selection = c.selection /\ new.snapshot = snapshot
  BY DEF IsCache
<1> HIDE DEF new
<1>2. /\ c.from \in Nat /\ c.until \in Nat /\ c.from <= c.until /\ c.until <= frame
      /\ frame \in Nat
  BY FrameNat DEF CacheTrue
<1>3. \A i \in c.selection : \A g \in c.until .. frame : log[g][i] = log[c.until][i]
  BY BehindUnmoved
<1>4. \A f \in c.until .. frame : log[f] \in Worlds
  BY <1>2, WorldOf
<1>5. c.selection = UNION {Behind(deps[k], log[c.until]) : k \in DOMAIN deps}
  BY DEF CacheTrue, AllBehind
<1>6. ASSUME NEW f \in c.until .. frame PROVE Meaning(q, f) = c.value
  BY <1>3, <1>4, CachePins, PinnedMoves
<1>7. \A k \in DOMAIN deps :
          /\ Meaning(deps[k], frame) = Meaning(deps[k], c.until)
          /\ Behind(deps[k], log[frame]) = Behind(deps[k], log[c.until])
          /\ Pinned(deps[k], frame)
  BY EdgesUnmoved
<1>8. \A f \in c.from .. frame : Meaning(q, f) = c.value
  <2>1. \A f \in c.from .. c.until : Meaning(q, f) = c.value
    BY DEF CacheTrue
  <2>2. \A f \in c.from .. frame : f \in c.from .. c.until \/ f \in c.until .. frame
    BY <1>2
  <2> QED
    BY <1>6, <2>1, <2>2
<1>9. Decide(q, deps, frame, c.value)
  <2>1. Decide(q, deps, c.until, c.value)
    BY DEF CacheTrue
  <2> QED
    BY <1>7, <2>1 DEF Decide
<1>10. c.selection = AllBehind(deps, DOMAIN deps, frame)
  BY <1>5, <1>7 DEF AllBehind
<1>11. c.deps \in Seq(Nodes) /\ c.selection \subseteq Inputs
  BY DEF CacheTrue
<1> QED
  BY <1>1, <1>2, <1>7, <1>8, <1>9, <1>10, <1>11, FreshSnapshot DEF CacheTrue, new

(* A cache put together anew, from edges that decide the value.              *)
LEMMA UpdatedCache ==
    ASSUME WorldTrue, NEW q \in Queries, NEW deps \in Seq(Nodes), NEW since \in 0 .. frame,
           \A k \in DOMAIN deps : Steady(deps[k], since) /\ Pinned(deps[k], frame),
           NEW selection \in SUBSET Inputs, selection = AllBehind(deps, DOMAIN deps, frame),
           NEW value, Decide(q, deps, frame, value),
           NEW old, NEW from,
           \/ from = since
           \/ CacheTrue(q, old) /\ old.value = value /\ from = ExtendedFrom(since, old)
    PROVE  CacheTrue(q, [value |-> value, from |-> from, until |-> frame, deps |-> deps,
                         selection |-> selection, snapshot |-> snapshot])
<1> DEFINE new == [value |-> value, from |-> from, until |-> frame, deps |-> deps,
                   selection |-> selection, snapshot |-> snapshot]
<1>1. /\ new.from = from /\ new.until = frame /\ new.deps = deps /\ new.value = value
      /\ new.selection = selection /\ new.snapshot = snapshot
  OBVIOUS
<1> HIDE DEF new
<1>2. frame \in Nat
  BY FrameNat
<1>3. ASSUME NEW f \in since .. frame PROVE Meaning(q, f) = value
  <2>1. f \in 0 .. frame /\ log[f] \in Worlds
    BY <1>2, WorldOf
  <2>2. \A k \in DOMAIN deps : ValueIn(deps[k], log[f]) = Meaning(deps[k], frame)
    BY DEF Steady, Meaning
  <2>3. Eval(q, <<>>, log[f]) = value
    BY <2>1, <2>2 DEF Decide
  <2> QED
    BY <2>3, QueryNoInput DEF Meaning, ValueIn
<1>4. /\ from \in Nat /\ from <= frame
      /\ \A f \in from .. frame : Meaning(q, f) = value
  <2>1. CASE from = since
    BY <1>2, <1>3, <2>1
  <2>2. CASE CacheTrue(q, old) /\ old.value = value /\ from = ExtendedFrom(since, old)
    <3>1. /\ old.from \in Nat /\ old.until \in Nat /\ old.from <= old.until
          /\ old.until <= frame
          /\ \A f \in old.from .. old.until : Meaning(q, f) = value
      BY <2>2 DEF CacheTrue
    <3>2. /\ from \in Nat /\ from <= frame
          /\ \A f \in from .. frame : f \in old.from .. old.until \/ f \in since .. frame
      BY <1>2, <2>2, <3>1 DEF ExtendedFrom, Sooner
    <3> QED
      BY <1>3, <3>1, <3>2
  <2> QED
    BY <2>1, <2>2
<1> QED
  BY <1>1, <1>2, <1>4, FreshSnapshot DEF CacheTrue, new

(* The second step: all edges were verified.                                 *)
LEMMA CheckedCache ==
    ASSUME WorldTrue, NEW q \in Queries, NEW n, NodeTrue(q, n), n.at = "checking",
           n.sent = Len(n.cache.deps), n.awaits = {}
    PROVE  CacheTrue(q, [n.cache EXCEPT !.from = ExtendedFrom(n.since, n.cache),
                                        !.until = frame, !.selection = n.selection,
                                        !.snapshot = snapshot])
<1> DEFINE c == n.cache
           deps == n.cache.deps
<1>1. IsCache(c) /\ CacheTrue(q, c) /\ CheckingTrue(n)
  BY DEF NodeTrue, IsNode
<1>2. /\ deps \in Seq(Nodes) /\ n.since \in 0 .. frame /\ n.selection \in SUBSET Inputs
      /\ Decide(q, deps, c.until, c.value)
  BY <1>1 DEF CacheTrue, CheckingTrue
<1>3. (1 .. n.sent) \ n.awaits = DOMAIN deps
  BY <1>2
<1>4. /\ \A k \in DOMAIN deps :
            /\ Steady(deps[k], n.since) /\ Pinned(deps[k], frame)
            /\ Meaning(deps[k], c.until) = Meaning(deps[k], frame)
      /\ n.selection = AllBehind(deps, DOMAIN deps, frame)
  BY <1>1, <1>3 DEF CheckingTrue
<1>5. Decide(q, deps, frame, c.value)
  BY <1>2, <1>4 DEF Decide
<1>6. CacheTrue(q, [value |-> c.value, from |-> ExtendedFrom(n.since, c), until |-> frame,
                    deps |-> deps, selection |-> n.selection, snapshot |-> snapshot])
  BY <1>1, <1>2, <1>4, <1>5, UpdatedCache
<1>7. ASSUME NEW from
      PROVE  [c EXCEPT !.from = from, !.until = frame,
                       !.selection = n.selection, !.snapshot = snapshot]
                = [value |-> c.value, from |-> from, until |-> frame,
                   deps |-> deps, selection |-> n.selection, snapshot |-> snapshot]
  <2>1. IsCache(c)
    BY <1>1
  <2> DEFINE a == [c EXCEPT !.from = from, !.until = frame,
                            !.selection = n.selection, !.snapshot = snapshot]
             b == [value |-> c.value, from |-> from, until |-> frame,
                   deps |-> deps, selection |-> n.selection, snapshot |-> snapshot]
  <2>2. /\ IsCache(a) /\ a.value = c.value /\ a.from = from /\ a.until = frame
        /\ a.deps = c.deps /\ a.selection = n.selection /\ a.snapshot = snapshot
    BY <2>1 DEF IsCache
  <2>3. /\ IsCache(b) /\ b.value = c.value /\ b.from = from /\ b.until = frame
        /\ b.deps = c.deps /\ b.selection = n.selection /\ b.snapshot = snapshot
    BY DEF IsCache
  <2> HIDE DEF a, b
  <2>4. a = b
    BY <2>2, <2>3, SameCache
  <2> QED
    BY <2>4 DEF a, b
<1> QED
  BY <1>6, <1>7

(* An evaluation that ends knows the group it would read next: none.         *)
LEMMA EvaluationOnPath ==
    ASSUME WorldTrue, NEW q \in Queries, NEW n, EvaluatingTrue(q, n)
    PROVE  n.seen \in Path(q, log[frame]) /\ NextReads(q, n.seen) \in Seq(Nodes)
<1>1. log[frame] \in Worlds
  BY WorldOf, FrameNat
<1>2. LeadTo(q, n.deps, frame, n.seen)
  BY DEF EvaluatingTrue
<1>3. n.seen \in Path(q, log[frame])
  BY <1>1, <1>2 DEF LeadTo, Meaning
<1> QED
  BY <1>1, <1>3, NextOnPath

(* The third step: the tenant returned.                                      *)
LEMMA EvaluatedCache ==
    ASSUME WorldTrue, NEW q \in Queries, NEW n, NodeTrue(q, n), n.at = "evaluating",
           NextReads(q, n.seen) = <<>>, NEW value, value = Result(q, n.seen),
           NEW from, from = IF n.job.kind # "spawn" /\ value = n.cache.value
                               THEN ExtendedFrom(n.since, n.cache) ELSE n.since
    PROVE  CacheTrue(q, [value |-> value, from |-> from, until |-> frame, deps |-> n.deps,
                         selection |-> n.selection, snapshot |-> snapshot])
<1>1. /\ EvaluatingTrue(q, n) /\ IsCache(n.cache)
      /\ n.job.kind # "spawn" => CacheTrue(q, n.cache)
  BY DEF NodeTrue, IsNode
<1>2. /\ n.deps \in Seq(Nodes) /\ n.since \in 0 .. frame /\ n.selection \in SUBSET Inputs
      /\ \A k \in DOMAIN n.deps : Steady(n.deps[k], n.since) /\ Pinned(n.deps[k], frame)
      /\ n.selection = AllBehind(n.deps, DOMAIN n.deps, frame)
      /\ LeadTo(q, n.deps, frame, n.seen)
  BY <1>1 DEF EvaluatingTrue
<1>3. Decide(q, n.deps, frame, value)
  BY <1>2, LeadEnds
<1> QED
  BY <1>1, <1>2, <1>3, UpdatedCache

-----------------------------------------------------------------------------
(* What a node gathers, reply by reply.                                      *)

LEMMA StillSteady ==
    ASSUME WorldTrue, NEW d, NEW a \in 0 .. frame, NEW b \in 0 .. frame, Steady(d, a)
    PROVE  /\ Later(a, b) \in 0 .. frame /\ Steady(d, Later(a, b)) /\ Steady(d, Later(b, a))
           /\ Later(b, a) \in 0 .. frame
  BY FrameNat DEF Steady, Later

LEMMA AppendEdge ==
    ASSUME NEW deps \in Seq(Nodes), NEW d \in Nodes
    PROVE  /\ Append(deps, d) \in Seq(Nodes)
           /\ \A k \in DOMAIN deps : k \in DOMAIN Append(deps, d) /\ Append(deps, d)[k] = deps[k]
           /\ \A k \in DOMAIN Append(deps, d) : k \in DOMAIN deps \/ Append(deps, d)[k] = d
           /\ \E k \in DOMAIN Append(deps, d) : Append(deps, d)[k] = d
  BY AppendProperties

(* add_edge, for the state of one node.                                      *)
GotWith(n, slot, value) ==
    [k \in DOMAIN n.got \cup {slot} |-> IF k = slot THEN value ELSE n.got[k]]

Taken(q, n, slot, from, value, since, selection) ==
    LET got  == GotWith(n, slot, value)
        done == DOMAIN got = DOMAIN NextReads(q, n.seen)
    IN  [n EXCEPT !.awaits = @ \ {slot},
                  !.got = IF done THEN <<>> ELSE got,
                  !.seen = IF done THEN @ \o got ELSE @,
                  !.deps = Append(@, from),
                  !.since = Later(@, since), !.selection = @ \cup selection]

LEMMA TakeValueIs ==
    ASSUME NEW ns, NEW q, NEW slot, NEW from, NEW value, NEW since, NEW selection
    PROVE  TakeValue(ns, q, slot, from, value, since, selection)
              = [ns EXCEPT ![q] = Taken(q, ns[q], slot, from, value, since, selection)]
  BY DEF TakeValue, Taken, GotWith

(* The state m of a node after n, once the value of d came in.               *)
TookIn(q, n, m, slot, d, since, selection) ==
    LET got == GotWith(n, slot, Meaning(d, frame))
    IN  /\ m.awaits = n.awaits \ {slot}
        /\ DOMAIN got = DOMAIN NextReads(q, n.seen) => m.got = <<>> /\ m.seen = n.seen \o got
        /\ DOMAIN got # DOMAIN NextReads(q, n.seen) => m.got = got /\ m.seen = n.seen
        /\ m.deps = Append(n.deps, d) /\ m.since = Later(n.since, since)
        /\ m.selection = n.selection \cup selection

LEMMA Gathers ==
    ASSUME WorldTrue, NEW q \in Queries, NEW n, EvaluatingTrue(q, n),
           NEW slot \in DOMAIN NextReads(q, n.seen) \ DOMAIN n.got,
           NEW d, d = NextReads(q, n.seen)[slot],
           NEW since, NEW selection, TrueReport(d, since, selection),
           NEW m, TookIn(q, n, m, slot, d, since, selection)
    PROVE  EvaluatingTrue(q, m)
<1> DEFINE group == NextReads(q, n.seen)
<1>1. PICK got : got = GotWith(n, slot, Meaning(d, frame))
  OBVIOUS
<1>2. /\ m.awaits = n.awaits \ {slot}
      /\ DOMAIN got = DOMAIN group => m.got = <<>> /\ m.seen = n.seen \o got
      /\ DOMAIN got # DOMAIN group => m.got = got /\ m.seen = n.seen
      /\ m.deps = Append(n.deps, d) /\ m.since = Later(n.since, since)
      /\ m.selection = n.selection \cup selection
  BY <1>1 DEF TookIn
<1>3. group \in Seq(Nodes) /\ d \in Nodes
  BY EvaluationOnPath
<1>4. /\ n.since \in 0 .. frame /\ n.deps \in Seq(Nodes)
      /\ \A k \in DOMAIN n.deps : Steady(n.deps[k], n.since) /\ Pinned(n.deps[k], frame)
      /\ n.selection \subseteq Inputs
      /\ n.selection = AllBehind(n.deps, DOMAIN n.deps, frame)
      /\ LeadTo(q, n.deps, frame, n.seen)
      /\ DOMAIN n.got \subseteq DOMAIN group
      /\ n.awaits \subseteq DOMAIN group \ DOMAIN n.got
      /\ \A k \in DOMAIN n.got :
            /\ n.got[k] = Meaning(group[k], frame)
            /\ \E j \in DOMAIN n.deps : n.deps[j] = group[k]
  BY DEF EvaluatingTrue
<1>5. /\ since \in 0 .. frame /\ Steady(d, since) /\ Pinned(d, frame)
      /\ selection \subseteq Inputs /\ selection = Behind(d, log[frame])
  BY DEF TrueReport
<1>6. /\ m.deps \in Seq(Nodes)
      /\ \A k \in DOMAIN n.deps : k \in DOMAIN m.deps /\ m.deps[k] = n.deps[k]
      /\ \A k \in DOMAIN m.deps : k \in DOMAIN n.deps \/ m.deps[k] = d
      /\ \E k \in DOMAIN m.deps : m.deps[k] = d
  <2>1. n.deps \in Seq(Nodes) /\ d \in Nodes /\ m.deps = Append(n.deps, d)
    BY <1>2, <1>3, <1>4
  <2> QED
    BY ONLY <2>1, AppendEdge
<1>7. m.since \in 0 .. frame
  BY <1>2, <1>4, <1>5 DEF Later
<1>8. ASSUME NEW k \in DOMAIN m.deps
      PROVE  Steady(m.deps[k], m.since) /\ Pinned(m.deps[k], frame)
  <2>1. CASE k \in DOMAIN n.deps
    <3>1. Steady(n.deps[k], n.since) /\ Pinned(n.deps[k], frame) /\ m.deps[k] = n.deps[k]
      BY <1>4, <1>6, <2>1
    <3>2. n.since \in 0 .. frame /\ since \in 0 .. frame
      BY <1>4, <1>5
    <3>3. Steady(n.deps[k], Later(n.since, since))
      BY <3>1, <3>2, StillSteady
    <3> QED
      BY <1>2, <3>1, <3>3
  <2>2. CASE m.deps[k] = d
    <3>1. n.since \in 0 .. frame /\ since \in 0 .. frame
      BY <1>4, <1>5
    <3>2. Steady(d, Later(n.since, since))
      BY <1>5, <3>1, StillSteady
    <3> QED
      BY <1>2, <1>5, <2>2, <3>2
  <2> QED
    BY <1>6, <2>1, <2>2
<1>9. m.selection \subseteq Inputs /\ m.selection = AllBehind(m.deps, DOMAIN m.deps, frame)
  BY <1>2, <1>4, <1>5, <1>6 DEF AllBehind
<1>10. /\ DOMAIN got = DOMAIN n.got \cup {slot}
       /\ \A k \in DOMAIN got : /\ got[k] = Meaning(group[k], frame)
                                /\ \E j \in DOMAIN m.deps : m.deps[j] = group[k]
  BY <1>1, <1>4, <1>6 DEF GotWith
<1>11. LeadTo(q, m.deps, frame, n.seen)
  BY <1>2, <1>3, <1>4, LeadGrows
<1>12. CASE DOMAIN got = DOMAIN group
  <2>1. got = [k \in DOMAIN group |-> Meaning(group[k], frame)]
    BY <1>1, <1>10, <1>12 DEF GotWith
  <2>2. \A k \in DOMAIN group : \E j \in DOMAIN m.deps : m.deps[j] = group[k]
    BY <1>10, <1>12
  <2>3. LeadTo(q, m.deps, frame, n.seen \o got)
    BY <1>11, <2>1, <2>2, LeadGoesOn
  <2>4. m.awaits = {} /\ m.got = <<>> /\ m.seen = n.seen \o got
    BY <1>2, <1>4, <1>10, <1>12
  <2>5. LeadTo(q, m.deps, frame, m.seen) /\ DOMAIN m.got = {}
    BY <2>3, <2>4
  <2> QED
    BY <1>6, <1>7, <1>8, <1>9, <2>4, <2>5 DEF EvaluatingTrue
<1>13. CASE DOMAIN got # DOMAIN group
  <2>1. m.got = got /\ m.seen = n.seen
    BY <1>2, <1>13
  <2>2. DOMAIN m.got \subseteq DOMAIN group /\ m.awaits \subseteq DOMAIN group \ DOMAIN m.got
    BY <1>2, <1>4, <1>10, <2>1
  <2>3. \A k \in DOMAIN m.got : /\ m.got[k] = Meaning(group[k], frame)
                                /\ \E j \in DOMAIN m.deps : m.deps[j] = group[k]
    BY <1>10, <2>1
  <2> QED
    BY <1>6, <1>7, <1>8, <1>9, <1>11, <2>1, <2>2, <2>3 DEF EvaluatingTrue
<1> QED
  BY <1>12, <1>13

(* What a reply does not touch.  A node that still awaits members of its     *)
(* group has seen nothing new.                                               *)
AfterReply(n, m, slot) ==
    /\ m.at = n.at /\ m.cache = n.cache /\ m.job = n.job
    /\ m.values = n.values /\ m.checks = n.checks
    /\ m.awaits = n.awaits \ {slot}
    /\ \A k \in m.awaits : m.seen = n.seen

LEMMA TakenTrue ==
    ASSUME WorldTrue, NEW q \in Queries, NEW n, NodeTrue(q, n), n.at = "evaluating",
           NEW slot \in DOMAIN NextReads(q, n.seen) \ DOMAIN n.got,
           NEW d, d = NextReads(q, n.seen)[slot],
           NEW value, value = Meaning(d, frame),
           NEW since, NEW selection, TrueReport(d, since, selection),
           NEW m, m = Taken(q, n, slot, d, value, since, selection)
    PROVE  NodeTrue(q, m) /\ AfterReply(n, m, slot)
<1> PICK got : got = GotWith(n, slot, value)
  OBVIOUS
<1> PICK newGot, newSeen :
        IF DOMAIN got = DOMAIN NextReads(q, n.seen)
           THEN newGot = <<>> /\ newSeen = n.seen \o got
           ELSE newGot = got /\ newSeen = n.seen
  OBVIOUS
<1>1. m = [n EXCEPT !.awaits = @ \ {slot}, !.got = newGot, !.seen = newSeen,
                    !.deps = Append(@, d), !.since = Later(@, since),
                    !.selection = @ \cup selection]
  BY DEF Taken
<1>2. EvaluatingTrue(q, n) /\ IsNode(n)
  BY DEF NodeTrue
<1>3. /\ m.at = n.at /\ m.cache = n.cache /\ m.job = n.job
      /\ m.values = n.values /\ m.checks = n.checks
      /\ m.awaits = n.awaits \ {slot} /\ m.got = newGot /\ m.seen = newSeen
      /\ m.deps = Append(n.deps, d) /\ m.since = Later(n.since, since)
      /\ m.selection = n.selection \cup selection
      /\ IsNode(m)
  BY <1>1, <1>2, ZenonT(40) DEF IsNode
<1>4. got = GotWith(n, slot, Meaning(d, frame))
  OBVIOUS
<1>5. TookIn(q, n, m, slot, d, since, selection)
  BY <1>3, <1>4 DEF TookIn
<1>6. EvaluatingTrue(q, m)
  BY <1>2, <1>5, Gathers
<1>7. AfterReply(n, m, slot)
  <2>1. n.awaits \subseteq DOMAIN NextReads(q, n.seen) \ DOMAIN n.got
    BY <1>2 DEF EvaluatingTrue
  <2>2. DOMAIN got = DOMAIN n.got \cup {slot}
    BY DEF GotWith
  <2> QED
    BY <1>3, <2>1, <2>2 DEF AfterReply
<1> QED
  BY <1>3, <1>6, <1>7 DEF NodeTrue

(* A Valid verdict, for the state of one node.                               *)
Verified(n, slot, since, selection) ==
    [n EXCEPT !.awaits = @ \ {slot}, !.since = Later(@, since),
              !.selection = @ \cup selection]

LEMMA VerifiedTrue ==
    ASSUME WorldTrue, NEW q \in Queries, NEW n, NodeTrue(q, n), n.at = "checking",
           NEW slot \in n.awaits, NEW d, d = n.cache.deps[slot],
           NEW since, NEW selection, TrueReport(d, since, selection),
           Meaning(d, n.cache.until) = Meaning(d, frame),
           NEW m, m = Verified(n, slot, since, selection)
    PROVE  NodeTrue(q, m) /\ AfterReply(n, m, slot)
<1> DEFINE deps == n.cache.deps
           old  == (1 .. n.sent) \ n.awaits
           new  == (1 .. n.sent) \ (n.awaits \ {slot})
<1>1. /\ m.at = n.at /\ m.cache = n.cache /\ m.job = n.job
      /\ m.values = n.values /\ m.checks = n.checks /\ m.sent = n.sent
      /\ m.awaits = n.awaits \ {slot} /\ m.since = Later(n.since, since)
      /\ m.selection = n.selection \cup selection /\ m.seen = n.seen
      /\ IsNode(n) => IsNode(m)
  <2>1. IsNode(n)
    BY DEF NodeTrue
  <2> QED
    BY <2>1 DEF Verified, IsNode
<1>2. CheckingTrue(n) /\ IsNode(n)
  BY DEF NodeTrue
<1>3. /\ n.sent \in 0 .. Len(deps) /\ n.awaits \subseteq 1 .. n.sent /\ n.since \in 0 .. frame
      /\ \A k \in old : /\ Steady(deps[k], n.since) /\ Pinned(deps[k], frame)
                        /\ Meaning(deps[k], n.cache.until) = Meaning(deps[k], frame)
      /\ n.selection \subseteq Inputs /\ n.selection = AllBehind(deps, old, frame)
  BY <1>2 DEF CheckingTrue
<1>4. /\ since \in 0 .. frame /\ Steady(d, since) /\ Pinned(d, frame)
      /\ selection \subseteq Inputs /\ selection = Behind(d, log[frame])
  BY DEF TrueReport
<1>5. new = old \cup {slot}
  BY <1>3
<1>6. m.since \in 0 .. frame
  BY <1>1, <1>3, <1>4 DEF Later
<1>7. ASSUME NEW k \in new
      PROVE  /\ Steady(deps[k], m.since) /\ Pinned(deps[k], frame)
             /\ Meaning(deps[k], n.cache.until) = Meaning(deps[k], frame)
  <2>1. n.since \in 0 .. frame /\ since \in 0 .. frame /\ m.since = Later(n.since, since)
    BY <1>1, <1>3, <1>4
  <2>2. CASE k \in old
    <3>1. Steady(deps[k], n.since)
      BY <1>3, <2>2
    <3>2. Steady(deps[k], Later(n.since, since))
      BY <2>1, <3>1, StillSteady
    <3> QED
      BY <1>3, <2>1, <2>2, <3>2
  <2>3. CASE k = slot
    <3>1. Steady(d, Later(n.since, since))
      BY <1>4, <2>1, StillSteady
    <3> QED
      BY <1>4, <2>1, <2>3, <3>1
  <2> QED
    BY <1>5, <2>2, <2>3
<1>8. m.selection = AllBehind(deps, new, frame)
  <2>1. m.selection = n.selection \cup selection /\ deps[slot] = d
    BY <1>1, <1>3
  <2>2. AllBehind(deps, old \cup {slot}, frame)
           = AllBehind(deps, old, frame) \cup Behind(deps[slot], log[frame])
    BY DEF AllBehind
  <2> QED
    BY <1>3, <1>4, <1>5, <2>1, <2>2
<1>9. CheckingTrue(m)
  BY <1>1, <1>3, <1>4, <1>6, <1>7, <1>8, ZenonT(40) DEF CheckingTrue
<1> QED
  BY <1>1, <1>2, <1>9 DEF NodeTrue, AfterReply

-----------------------------------------------------------------------------
(* The nodes together: one of them changes.                                  *)

NoRequest(ns, by, slot) ==
    \A d \in Queries : \A r \in CallsAt(ns[d]) \cup ChecksAt(ns[d]) :
        ~(r.by = by /\ r.slot = slot)

(* Everything about two states of a node but its mail and the job it does.   *)
SameWork(n, m) ==
    /\ m.at = n.at /\ m.cache = n.cache /\ m.sent = n.sent /\ m.awaits = n.awaits
    /\ m.got = n.got /\ m.seen = n.seen /\ m.deps = n.deps /\ m.since = n.since
    /\ m.selection = n.selection

LEMMA SameWorkTrue ==
    ASSUME NEW q \in Queries, NEW n, NodeTrue(q, n), NEW m, IsNode(m), SameWork(n, m),
           m.job.kind = n.job.kind \/ n.at = "idle",
           m.job.kind = "spawn" => m.job.by = Gone
    PROVE  NodeTrue(q, m)
<1>1. n.at = "checking" => CheckingTrue(m)
  BY DEF NodeTrue, SameWork, CheckingTrue
<1>2. n.at = "evaluating" => EvaluatingTrue(q, m)
  BY DEF NodeTrue, SameWork, EvaluatingTrue
<1> QED
  BY <1>1, <1>2 DEF NodeTrue, SameWork

(* Whose reply q awaits for a slot, if anybody's.                            *)
LEMMA RequestIsOwed ==
    ASSUME NEW q \in Queries, NEW ns, NEW rs, NEW d, NEW r, r.by = q,
           OwedValue(ns, rs, d, r) \/ OwedCheck(ns, d, r)
    PROVE  /\ r.slot \in ns[q].awaits
           /\ \/ ns[q].at = "evaluating" /\ NextReads(q, ns[q].seen)[r.slot] = d
              \/ ns[q].at = "checking" /\ ns[q].cache.deps[r.slot] = d
<1>1. r.by # Gone /\ r.by \notin Callers
  BY QueryAssumption DEF Gone
<1> QED
  BY <1>1 DEF OwedValue, OwedCheck

LEMMA Unasked ==
    ASSUME NEW ns, NEW rs, NodesTrue(ns, rs), NEW q \in Queries, NEW slot,
           \/ slot \notin ns[q].awaits
           \/ ns[q].at \notin {"evaluating", "checking"}
           \/ ns[q].at = "evaluating" /\ NextReads(q, ns[q].seen)[slot] \in Inputs
           \/ ns[q].at = "checking" /\ ns[q].cache.deps[slot] \in Inputs
    PROVE  NoRequest(ns, q, slot)
<1> SUFFICES ASSUME NEW d \in Queries, NEW r \in CallsAt(ns[d]) \cup ChecksAt(ns[d]),
                    r.by = q, r.slot = slot
             PROVE  FALSE
  BY DEF NoRequest
<1>1. OwedValue(ns, rs, d, r) \/ OwedCheck(ns, d, r)
  BY DEF NodesTrue, Owed
<1>2. /\ slot \in ns[q].awaits
      /\ \/ ns[q].at = "evaluating" /\ NextReads(q, ns[q].seen)[slot] = d
         \/ ns[q].at = "checking" /\ ns[q].cache.deps[slot] = d
  BY <1>1, RequestIsOwed
<1> QED
  BY <1>2, QueryNoInput

(* The requests q made for slot are still awaited when it goes from n to m.  *)
Keeps(n, m, slot) ==
    slot \in m.awaits /\ m.at = n.at /\ m.seen = n.seen /\ m.cache = n.cache

LEMMA OneNode ==
    ASSUME NEW ns, NEW rs, NodesTrue(ns, rs), NEW q \in Queries, NEW m, NodeTrue(q, m),
           Once(m), NEW ms, ms = [ns EXCEPT ![q] = m],
           \A r \in CallsAt(m) : OwedValue(ns, rs, q, r),
           \A r \in ChecksAt(m) : OwedCheck(ns, q, r),
           \A slot \in ns[q].awaits : NoRequest(ms, q, slot) \/ Keeps(ns[q], m, slot)
    PROVE  NodesTrue(ms, rs)
<1>1. /\ ms = [p \in Queries |-> ms[p]] /\ ms[q] = m
      /\ \A p \in Queries \ {q} : ms[p] = ns[p]
  BY DEF NodesTrue
<1>2. ASSUME NEW d \in Queries, NEW r \in CallsAt(ms[d]) PROVE OwedValue(ms, rs, d, r)
  <2>1. OwedValue(ns, rs, d, r)
    BY <1>1, <1>2 DEF NodesTrue, Owed
  <2>2. CASE r.by = q
    <3>1. r.slot \in ns[q].awaits
      BY <2>1, <2>2, RequestIsOwed
    <3>2. ~NoRequest(ms, q, r.slot)
      BY <1>2, <2>2 DEF NoRequest
    <3>3. Keeps(ns[q], ms[q], r.slot)
      BY <1>1, <3>1, <3>2
    <3> QED
      BY <2>1, <2>2, <3>3 DEF OwedValue, Keeps
  <2>3. CASE r.by # q
    BY <1>1, <2>1, <2>3 DEF OwedValue
  <2> QED
    BY <2>2, <2>3
<1>3. ASSUME NEW d \in Queries, NEW r \in ChecksAt(ms[d]) PROVE OwedCheck(ms, d, r)
  <2>1. OwedCheck(ns, d, r)
    BY <1>1, <1>3 DEF NodesTrue, Owed
  <2>2. CASE r.by = q
    <3>1. r.slot \in ns[q].awaits
      BY <2>1, <2>2, RequestIsOwed
    <3>2. ~NoRequest(ms, q, r.slot)
      BY <1>3, <2>2 DEF NoRequest
    <3>3. Keeps(ns[q], ms[q], r.slot)
      BY <1>1, <3>1, <3>2
    <3> QED
      BY <2>1, <2>2, <3>3 DEF OwedCheck, Keeps
  <2>3. CASE r.by # q
    BY <1>1, <2>1, <2>3 DEF OwedCheck
  <2> QED
    BY <2>2, <2>3
<1>4. \A d \in Queries : NodeTrue(d, ms[d]) /\ Once(ms[d])
  BY <1>1 DEF NodesTrue
<1> QED
  BY <1>1, <1>2, <1>3, <1>4 DEF NodesTrue, Owed

(* Its mail and job stay.                                                    *)
LEMMA OneNodeWorks ==
    ASSUME NEW ns, NEW rs, NodesTrue(ns, rs), NEW q \in Queries, NEW m, NodeTrue(q, m),
           m.job = ns[q].job, m.values = ns[q].values, m.checks = ns[q].checks,
           \A slot \in ns[q].awaits : NoRequest(ns, q, slot) \/ Keeps(ns[q], m, slot)
    PROVE  /\ NodesTrue([ns EXCEPT ![q] = m], rs)
           /\ \A by, slot : NoRequest(ns, by, slot) => NoRequest([ns EXCEPT ![q] = m], by, slot)
<1> PICK ms : ms = [ns EXCEPT ![q] = m]
  OBVIOUS
<1>1. /\ ms[q] = m /\ \A p \in Queries \ {q} : ms[p] = ns[p]
  BY DEF NodesTrue
<1>2. CallsAt(m) = CallsAt(ns[q]) /\ ChecksAt(m) = ChecksAt(ns[q]) /\ (Once(ns[q]) => Once(m))
  BY DEF CallsAt, ChecksAt, Once
<1>3. \A by, slot : NoRequest(ns, by, slot) => NoRequest(ms, by, slot)
  BY <1>1, <1>2 DEF NoRequest
<1>4. /\ Once(m) /\ \A r \in CallsAt(m) : OwedValue(ns, rs, q, r)
      /\ \A r \in ChecksAt(m) : OwedCheck(ns, q, r)
  BY <1>2 DEF NodesTrue, Owed
<1>5. \A slot \in ns[q].awaits : NoRequest(ms, q, slot) \/ Keeps(ns[q], m, slot)
  BY <1>3
<1>6. NodesTrue(ms, rs)
  BY <1>4, <1>5, OneNode
<1> QED
  BY <1>3, <1>6
(* A closure starts to wait, is answered, or returns.                        *)
LEMMA OneRoot ==
    ASSUME NEW ns, NEW rs, NodesTrue(ns, rs), NEW c \in Callers, NEW r, RootTrue(r),
           rs[c].at # "waiting" \/ NoRequest(ns, c, 1)
    PROVE  NodesTrue(ns, [rs EXCEPT ![c] = r])
<1> PICK qs : qs = [rs EXCEPT ![c] = r]
  OBVIOUS
<1>1. /\ qs = [a \in Callers |-> qs[a]] /\ qs[c] = r
      /\ \A a \in Callers \ {c} : qs[a] = rs[a]
  BY DEF NodesTrue
<1>2. ASSUME NEW d \in Queries, NEW s \in CallsAt(ns[d]) PROVE OwedValue(ns, qs, d, s)
  <2>1. OwedValue(ns, rs, d, s)
    BY DEF NodesTrue, Owed
  <2>2. CASE s.by = c
    <3>1. s.by # Gone /\ s.by \notin Queries
      BY <2>2, QueryAssumption DEF Gone
    <3>2. s.slot = 1 /\ rs[c].at = "waiting"
      BY <2>1, <2>2, <3>1 DEF OwedValue
    <3>3. ~NoRequest(ns, c, 1)
      BY <2>2, <3>2 DEF NoRequest
    <3> QED
      BY <3>2, <3>3
  <2>3. CASE s.by # c
    BY <1>1, <2>1, <2>3 DEF OwedValue
  <2> QED
    BY <2>2, <2>3
<1>3. \A d \in Queries : \A s \in ChecksAt(ns[d]) : OwedCheck(ns, d, s)
  BY DEF NodesTrue, Owed
<1>4. \A a \in Callers : RootTrue(qs[a])
  BY <1>1 DEF NodesTrue
<1> QED
  BY <1>1, <1>2, <1>3, <1>4 DEF NodesTrue, Owed

-----------------------------------------------------------------------------
(* Requests are sent.                                                        *)

LEMMA MoreMail ==
    ASSUME NEW T, NEW mail \in Seq(T), NEW r \in T, NEW new, new = Append(mail, r)
    PROVE  /\ new \in Seq(T)
           /\ \A k \in DOMAIN mail : k \in DOMAIN new /\ new[k] = mail[k]
           /\ \A k \in DOMAIN new : k \in DOMAIN mail \/ (k = Len(mail) + 1 /\ new[k] = r)
           /\ Len(mail) + 1 \in DOMAIN new /\ new[Len(mail) + 1] = r
  BY AppendProperties

LEMMA CallSent ==
    ASSUME NEW ns, NEW rs, NodesTrue(ns, rs), NEW d \in Queries,
           NEW r \in ValueRequest, OwedValue(ns, rs, d, r),
           r.by = Gone \/ NoRequest(ns, r.by, r.slot)
    PROVE  NodesTrue([ns EXCEPT ![d] = [ns[d] EXCEPT !.values = Append(@, r)]], rs)
<1> PICK n, m : n = ns[d] /\ m = [n EXCEPT !.values = Append(@, r)]
  OBVIOUS
<1> PICK ms : ms = [ns EXCEPT ![d] = m]
  OBVIOUS
<1>1. NodeTrue(d, n) /\ IsNode(n) /\ Once(n) /\ n.values \in Seq(ValueRequest)
  BY DEF NodesTrue, NodeTrue, IsNode
<1>2. /\ m.job = n.job /\ m.checks = n.checks /\ m.values = Append(n.values, r)
      /\ SameWork(n, m)
  BY <1>1 DEF IsNode, SameWork
<1>3. /\ m.values \in Seq(ValueRequest)
      /\ \A k \in DOMAIN m.values : \/ k \in DOMAIN n.values /\ m.values[k] = n.values[k]
                                    \/ k = Len(n.values) + 1 /\ m.values[k] = r
  BY <1>1, <1>2, MoreMail
<1>4. IsNode(m)
  BY <1>1, <1>3 DEF IsNode
<1>5. NodeTrue(d, m)
  <2>1. m.job.kind = n.job.kind /\ (m.job.kind = "spawn" => m.job.by = Gone)
    BY <1>1, <1>2 DEF NodeTrue
  <2> QED
    BY <1>1, <1>2, <1>4, <2>1, SameWorkTrue
<1>6. CallsAt(m) \subseteq CallsAt(n) \cup {r} /\ ChecksAt(m) = ChecksAt(n)
  BY <1>2, <1>3 DEF CallsAt, ChecksAt
<1>7. /\ \A s \in CallsAt(m) : OwedValue(ns, rs, d, s)
      /\ \A s \in ChecksAt(m) : OwedCheck(ns, d, s)
  BY <1>6 DEF NodesTrue, Owed
<1>8. Once(m)
  <2>1. \A s \in CallsAt(n) : ~Same(s, r) /\ ~Same(r, s)
    BY DEF NoRequest, Same
  <2>2. \A k \in DOMAIN n.values : n.values[k] \in CallsAt(n)
    BY DEF CallsAt
  <2>3. n.job.kind = "value" => n.job \in CallsAt(n)
    BY DEF CallsAt
  <2>4. \A j, k \in DOMAIN m.values : Same(m.values[j], m.values[k]) => j = k
    BY <1>1, <1>3, <2>1, <2>2 DEF Once
  <2>5. m.job.kind = "value" => \A k \in DOMAIN m.values : ~Same(m.values[k], m.job)
    BY <1>1, <1>2, <1>3, <2>1, <2>3 DEF Once
  <2> QED
    BY <1>1, <1>2, <2>4, <2>5 DEF Once
<1>9. \A slot \in ns[d].awaits : Keeps(ns[d], m, slot)
  BY <1>2 DEF Keeps, SameWork
<1>10. NodesTrue(ms, rs)
  BY <1>5, <1>7, <1>8, <1>9, OneNode
<1> QED
  BY <1>10

LEMMA CheckSent ==
    ASSUME NEW ns, NEW rs, NodesTrue(ns, rs), NEW d \in Queries,
           NEW r \in CheckRequest, OwedCheck(ns, d, r),
           r.by = Gone \/ NoRequest(ns, r.by, r.slot)
    PROVE  NodesTrue([ns EXCEPT ![d] = [ns[d] EXCEPT !.checks = Append(@, r)]], rs)
<1> PICK n, m : n = ns[d] /\ m = [n EXCEPT !.checks = Append(@, r)]
  OBVIOUS
<1> PICK ms : ms = [ns EXCEPT ![d] = m]
  OBVIOUS
<1>1. NodeTrue(d, n) /\ IsNode(n) /\ Once(n) /\ n.checks \in Seq(CheckRequest)
  BY DEF NodesTrue, NodeTrue, IsNode
<1>2. /\ m.job = n.job /\ m.values = n.values /\ m.checks = Append(n.checks, r)
      /\ SameWork(n, m)
  BY <1>1 DEF IsNode, SameWork
<1>3. /\ m.checks \in Seq(CheckRequest)
      /\ \A k \in DOMAIN m.checks : \/ k \in DOMAIN n.checks /\ m.checks[k] = n.checks[k]
                                    \/ k = Len(n.checks) + 1 /\ m.checks[k] = r
  BY <1>1, <1>2, MoreMail
<1>4. IsNode(m)
  BY <1>1, <1>3 DEF IsNode
<1>5. NodeTrue(d, m)
  <2>1. m.job.kind = n.job.kind /\ (m.job.kind = "spawn" => m.job.by = Gone)
    BY <1>1, <1>2 DEF NodeTrue
  <2> QED
    BY <1>1, <1>2, <1>4, <2>1, SameWorkTrue
<1>6. CallsAt(m) = CallsAt(n) /\ ChecksAt(m) \subseteq ChecksAt(n) \cup {r}
  BY <1>2, <1>3 DEF CallsAt, ChecksAt
<1>7. /\ \A s \in CallsAt(m) : OwedValue(ns, rs, d, s)
      /\ \A s \in ChecksAt(m) : OwedCheck(ns, d, s)
  BY <1>6 DEF NodesTrue, Owed
<1>8. Once(m)
  <2>1. \A s \in ChecksAt(n) : ~Same(s, r) /\ ~Same(r, s)
    BY DEF NoRequest, Same
  <2>2. \A k \in DOMAIN n.checks : n.checks[k] \in ChecksAt(n)
    BY DEF ChecksAt
  <2>3. n.job.kind = "check" => n.job \in ChecksAt(n)
    BY DEF ChecksAt
  <2>4. \A j, k \in DOMAIN m.checks : Same(m.checks[j], m.checks[k]) => j = k
    BY <1>1, <1>3, <2>1, <2>2 DEF Once
  <2>5. m.job.kind = "check" => \A k \in DOMAIN m.checks : ~Same(m.checks[k], m.job)
    BY <1>1, <1>2, <1>3, <2>1, <2>3 DEF Once
  <2> QED
    BY <1>1, <1>2, <2>4, <2>5 DEF Once
<1>9. \A slot \in ns[d].awaits : Keeps(ns[d], m, slot)
  BY <1>2 DEF Keeps, SameWork
<1>10. NodesTrue(ms, rs)
  BY <1>5, <1>7, <1>8, <1>9, OneNode
<1> QED
  BY <1>10

(* What a node that starts a step of its update has gathered.                *)
LEMMA BlankIs ==
    ASSUME NEW n, IsNode(n), NEW at \in {"absent", "idle", "checking", "evaluating"},
           NEW m, m = Blank(n, at)
    PROVE  /\ IsNode(m)
           /\ m.at = at /\ m.cache = n.cache /\ m.job = n.job
           /\ m.values = n.values /\ m.checks = n.checks
           /\ m.sent = 0 /\ m.awaits = {} /\ m.got = <<>> /\ m.seen = <<>>
           /\ m.deps = <<>> /\ m.since = 0 /\ m.selection = {}
  BY DEF Blank, IsNode

LEMMA EvaluationStarts ==
    ASSUME WorldTrue, NEW q \in Queries, NEW m,
           m.awaits = {}, m.got = <<>>, m.seen = <<>>, m.deps = <<>>, m.since = 0,
           m.selection = {}
    PROVE  EvaluatingTrue(q, m)
<1>1. LeadTo(q, <<>>, frame, <<>>)
  BY LeadStart
<1>2. DOMAIN m.deps = {} /\ DOMAIN m.got = {} /\ m.deps \in Seq(Nodes)
  OBVIOUS
<1>3. AllBehind(m.deps, DOMAIN m.deps, frame) = {}
  BY <1>2 DEF AllBehind
<1> QED
  BY <1>1, <1>2, <1>3, FrameNat DEF EvaluatingTrue

LEMMA CheckingStarts ==
    ASSUME WorldTrue, NEW q \in Queries, NEW m, CacheTrue(q, m.cache),
           m.sent = 0, m.awaits = {}, m.since = 0, m.selection = {}
    PROVE  CheckingTrue(m)
<1>1. (1 .. m.sent) \ m.awaits = {}
  OBVIOUS
<1>2. 0 \in 0 .. Len(m.cache.deps)
  BY DEF CacheTrue
<1> QED
  BY <1>1, <1>2, FrameNat DEF CheckingTrue, AllBehind

(* The executor spawns an absent node.                                       *)
LEMMA Spawned ==
    ASSUME WorldTrue, NEW ns, NEW rs, NodesTrue(ns, rs), NEW q \in Queries,
           ns[q].at = "absent",
           NEW m, m = Blank([ns[q] EXCEPT !.job = NoJob], "evaluating")
    PROVE  /\ NodesTrue([ns EXCEPT ![q] = m], rs)
           /\ \A by, slot : NoRequest(ns, by, slot) => NoRequest([ns EXCEPT ![q] = m], by, slot)
<1> PICK n : n = ns[q]
  OBVIOUS
<1> PICK k : k = [n EXCEPT !.job = NoJob]
  OBVIOUS
<1>1. /\ IsNode(n) /\ NodeTrue(q, n) /\ Once(n)
      /\ n.job.kind = "spawn" /\ n.job.by = Gone
  BY DEF NodesTrue, NodeTrue
<1>2. NoJob \in Job /\ NoJob.kind = "spawn" /\ NoJob.by = Gone
  BY DEF NoJob, Job, Requesters
<1>3. IsNode(k) /\ k.job = NoJob /\ k.values = n.values /\ k.checks = n.checks
  BY <1>1, <1>2 DEF IsNode
<1>4. /\ IsNode(m) /\ m.at = "evaluating" /\ m.job = NoJob
      /\ m.values = n.values /\ m.checks = n.checks
      /\ m.awaits = {} /\ m.got = <<>> /\ m.seen = <<>>
      /\ m.deps = <<>> /\ m.since = 0 /\ m.selection = {}
  <2>1. m = Blank(k, "evaluating")
    OBVIOUS
  <2> HIDE DEF NoJob
  <2> QED
    BY ONLY <1>3, <2>1, BlankIs
<1>5. EvaluatingTrue(q, m)
  BY <1>4, EvaluationStarts
<1>6. NodeTrue(q, m)
  BY <1>2, <1>4, <1>5 DEF NodeTrue
<1>7. /\ CallsAt(m) = CallsAt(n) /\ ChecksAt(m) = ChecksAt(n) /\ Once(m)
  BY <1>1, <1>2, <1>4 DEF CallsAt, ChecksAt, Once
<1>8. /\ \A r \in CallsAt(m) : OwedValue(ns, rs, q, r)
      /\ \A r \in ChecksAt(m) : OwedCheck(ns, q, r)
  BY <1>7 DEF NodesTrue, Owed
<1> PICK ms : ms = [ns EXCEPT ![q] = m]
  OBVIOUS
<1>9. ms[q] = m /\ \A p \in Queries \ {q} : ms[p] = ns[p]
  BY DEF NodesTrue
<1>10. \A by, slot : NoRequest(ns, by, slot) => NoRequest(ms, by, slot)
  BY <1>7, <1>9 DEF NoRequest
<1>11. \A slot : NoRequest(ms, q, slot)
  BY <1>10, Unasked
<1>12. NodesTrue(ms, rs)
  BY <1>6, <1>7, <1>8, <1>11, OneNode
<1> QED
  BY <1>10, <1>12

LEMMA ValueRequestSent ==
    ASSUME WorldTrue, NEW ns, NEW rs, NodesTrue(ns, rs), NEW d \in Queries,
           NEW by \in Requesters, NEW slot \in Nat,
           OwedValue(ns, rs, d, [by |-> by, slot |-> slot]),
           NoRequest(ns, by, slot)
    PROVE  NodesTrue(SendValueRequest(ns, d, by, slot), rs)
<1> PICK r : r = [by |-> by, slot |-> slot]
  OBVIOUS
<1>1. r \in ValueRequest /\ r.by = by /\ r.slot = slot
  BY DEF ValueRequest
<1>2. CASE ns[d].at # "absent"
  <2>1. SendValueRequest(ns, d, by, slot)
           = [ns EXCEPT ![d] = [ns[d] EXCEPT !.values = Append(@, r)]]
    BY <1>2 DEF SendValueRequest
  <2> QED
    BY <1>1, <2>1, CallSent
<1>3. CASE ns[d].at = "absent"
  <2> PICK m : m = Blank([ns[d] EXCEPT !.job = NoJob], "evaluating")
    OBVIOUS
  <2> PICK ms : ms = [ns EXCEPT ![d] = m]
    OBVIOUS
  <2>1. NodesTrue(ms, rs) /\ NoRequest(ms, by, slot)
    BY <1>3, Spawned
  <2>2. ms[d] = m /\ \A p \in Queries \ {d} : ms[p] = ns[p]
    BY DEF NodesTrue
  <2>3. OwedValue(ms, rs, d, r)
    BY <1>1, <1>3, <2>2 DEF OwedValue
  <2>4. NodesTrue([ms EXCEPT ![d] = [ms[d] EXCEPT !.values = Append(@, r)]], rs)
    BY <1>1, <2>1, <2>3, CallSent
  <2>5. SendValueRequest(ns, d, by, slot)
           = [ns EXCEPT ![d] = [m EXCEPT !.values = Append(@, r)]]
    BY <1>3 DEF SendValueRequest
  <2>6. [ms EXCEPT ![d] = [ms[d] EXCEPT !.values = Append(@, r)]]
           = [ns EXCEPT ![d] = [m EXCEPT !.values = Append(@, r)]]
    BY <2>2
  <2> QED
    BY <2>4, <2>5, <2>6
<1> QED
  BY <1>2, <1>3
-----------------------------------------------------------------------------
(* Requests are served.                                                      *)

LEMMA LessMail ==
    ASSUME NEW T, NEW mail \in Seq(T), mail # <<>>, NEW new, new = Tail(mail)
    PROVE  /\ Head(mail) \in T /\ 1 \in DOMAIN mail /\ Head(mail) = mail[1]
           /\ new \in Seq(T)
           /\ \A k \in DOMAIN new : k \in Nat \ {0} /\ k + 1 \in DOMAIN mail /\ new[k] = mail[k + 1]
  OBVIOUS

CallJob(request) ==
    [NoJob EXCEPT !.kind = "value", !.by = request.by, !.slot = request.slot]

ServingCall(n) == [n EXCEPT !.values = Tail(@), !.job = CallJob(Head(n.values))]

LEMMA CallServed ==
    ASSUME NEW ns, NEW rs, NodesTrue(ns, rs), NEW q \in Queries,
           ns[q].at = "idle", ns[q].values # <<>>
    PROVE  /\ NodesTrue([ns EXCEPT ![q] = ServingCall(ns[q])], rs)
           /\ ServingCall(ns[q]).at = "idle" /\ ServingCall(ns[q]).job.kind = "value"
<1> PICK m, job : m = ServingCall(ns[q]) /\ job = CallJob(Head(ns[q].values))
  OBVIOUS
<1> PICK n, r, mail : n = ns[q] /\ r = Head(n.values) /\ mail = Tail(n.values)
  OBVIOUS
<1> PICK ms : ms = [ns EXCEPT ![q] = m]
  OBVIOUS
<1>1. NodeTrue(q, n) /\ IsNode(n) /\ Once(n) /\ n.values \in Seq(ValueRequest) /\ n.at = "idle"
  BY DEF NodesTrue, NodeTrue, IsNode
<1>2. /\ r \in ValueRequest /\ r = n.values[1] /\ 1 \in DOMAIN n.values
      /\ mail \in Seq(ValueRequest)
      /\ \A k \in DOMAIN mail : /\ k \in Nat \ {0} /\ k + 1 \in DOMAIN n.values
                                /\ mail[k] = n.values[k + 1]
  BY <1>1, LessMail
<1>3. job \in Job /\ job.kind = "value" /\ job.by = r.by /\ job.slot = r.slot
  BY <1>2 DEF CallJob, NoJob, Job, ValueRequest
<1>4. /\ m.values = mail /\ m.job = job /\ m.checks = n.checks /\ SameWork(n, m) /\ IsNode(m)
  <2>1. m = [n EXCEPT !.values = mail, !.job = job]
    BY DEF ServingCall
  <2>2. IsNode(n) /\ mail \in Seq(ValueRequest) /\ job \in Job
    BY <1>1, <1>2, <1>3
  <2>3. m.values = mail /\ m.job = job /\ m.checks = n.checks /\ SameWork(n, m)
    BY ONLY <2>1, <2>2 DEF IsNode, SameWork
  <2>4. IsNode(m)
    BY ONLY <2>1, <2>2 DEF IsNode
  <2> QED
    BY <2>3, <2>4
<1>5. NodeTrue(q, m)
  BY <1>1, <1>3, <1>4, SameWorkTrue
<1>6. n.values[1] \in CallsAt(n) /\ \A k \in DOMAIN mail : mail[k] \in CallsAt(n)
  BY <1>2 DEF CallsAt
<1>7. \A s \in CallsAt(m) : OwedValue(ns, rs, q, s)
  <2>1. OwedValue(ns, rs, q, r) /\ \A k \in DOMAIN mail : OwedValue(ns, rs, q, mail[k])
    BY <1>2, <1>6 DEF NodesTrue, Owed
  <2>2. OwedValue(ns, rs, q, job)
    BY <1>3, <2>1 DEF OwedValue
  <2> QED
    BY <1>4, <2>1, <2>2 DEF CallsAt
<1>8. \A s \in ChecksAt(m) : OwedCheck(ns, q, s)
  <2>1. {s \in {m.job} : s.kind = "check"} = {}
    BY <1>3, <1>4
  <2>2. ChecksAt(m) = {n.checks[k] : k \in DOMAIN n.checks}
    BY <1>4, <2>1 DEF ChecksAt
  <2>3. ChecksAt(m) \subseteq ChecksAt(n)
    BY <2>2 DEF ChecksAt
  <2> QED
    BY <2>3 DEF NodesTrue, Owed
<1>9. Once(m)
  <2>1. ASSUME NEW j \in DOMAIN mail, NEW k \in DOMAIN mail, Same(mail[j], mail[k])
        PROVE  j = k
    <3>1. /\ j \in Nat /\ k \in Nat /\ j + 1 \in DOMAIN n.values /\ k + 1 \in DOMAIN n.values
          /\ Same(n.values[j + 1], n.values[k + 1])
      BY <1>2, <2>1
    <3>2. j + 1 = k + 1
      BY <1>1, <3>1 DEF Once
    <3> QED
      BY <3>1, <3>2
  <2>2. \A k \in DOMAIN mail : ~Same(mail[k], r)
    BY <1>1, <1>2 DEF Once
  <2>3. \A k \in DOMAIN mail : ~Same(mail[k], job)
    BY <1>3, <2>2 DEF Same
  <2> QED
    BY <1>1, <1>3, <1>4, <2>1, <2>3 DEF Once
<1>10. \A slot \in ns[q].awaits : Keeps(ns[q], m, slot)
  BY <1>4 DEF Keeps, SameWork
<1>11. NodesTrue(ms, rs)
  BY <1>5, <1>7, <1>8, <1>9, <1>10, OneNode
<1> QED
  BY <1>1, <1>3, <1>4, <1>11 DEF SameWork

CheckJob(request) ==
    [NoJob EXCEPT !.kind = "check", !.by = request.by, !.slot = request.slot, !.past = request.past]

ServingCheck(n) == [n EXCEPT !.checks = Tail(@), !.job = CheckJob(Head(n.checks))]

LEMMA CheckServed ==
    ASSUME NEW ns, NEW rs, NodesTrue(ns, rs), NEW q \in Queries,
           ns[q].at = "idle", ns[q].checks # <<>>
    PROVE  /\ NodesTrue([ns EXCEPT ![q] = ServingCheck(ns[q])], rs)
           /\ ServingCheck(ns[q]).at = "idle" /\ ServingCheck(ns[q]).job.kind = "check"
<1> PICK m, job : m = ServingCheck(ns[q]) /\ job = CheckJob(Head(ns[q].checks))
  OBVIOUS
<1> PICK n, r, mail : n = ns[q] /\ r = Head(n.checks) /\ mail = Tail(n.checks)
  OBVIOUS
<1> PICK ms : ms = [ns EXCEPT ![q] = m]
  OBVIOUS
<1>1. NodeTrue(q, n) /\ IsNode(n) /\ Once(n) /\ n.checks \in Seq(CheckRequest) /\ n.at = "idle"
  BY DEF NodesTrue, NodeTrue, IsNode
<1>2. /\ r \in CheckRequest /\ r = n.checks[1] /\ 1 \in DOMAIN n.checks
      /\ mail \in Seq(CheckRequest)
      /\ \A k \in DOMAIN mail : /\ k \in Nat \ {0} /\ k + 1 \in DOMAIN n.checks
                                /\ mail[k] = n.checks[k + 1]
  BY <1>1, LessMail
<1>3. job \in Job /\ job.kind = "check" /\ job.by = r.by /\ job.slot = r.slot /\ job.past = r.past
  BY <1>2 DEF CheckJob, NoJob, Job, CheckRequest
<1>4. /\ m.checks = mail /\ m.job = job /\ m.values = n.values /\ SameWork(n, m) /\ IsNode(m)
  <2>1. m = [n EXCEPT !.checks = mail, !.job = job]
    BY DEF ServingCheck
  <2>2. IsNode(n) /\ mail \in Seq(CheckRequest) /\ job \in Job
    BY <1>1, <1>2, <1>3
  <2>3. m.checks = mail /\ m.job = job /\ m.values = n.values /\ SameWork(n, m)
    BY ONLY <2>1, <2>2 DEF IsNode, SameWork
  <2>4. IsNode(m)
    BY ONLY <2>1, <2>2 DEF IsNode
  <2> QED
    BY <2>3, <2>4
<1>5. NodeTrue(q, m)
  BY <1>1, <1>3, <1>4, SameWorkTrue
<1>6. n.checks[1] \in ChecksAt(n) /\ \A k \in DOMAIN mail : mail[k] \in ChecksAt(n)
  BY <1>2 DEF ChecksAt
<1>7. \A s \in ChecksAt(m) : OwedCheck(ns, q, s)
  <2>1. OwedCheck(ns, q, r) /\ \A k \in DOMAIN mail : OwedCheck(ns, q, mail[k])
    BY <1>2, <1>6 DEF NodesTrue, Owed
  <2>2. OwedCheck(ns, q, job)
    BY <1>3, <2>1 DEF OwedCheck
  <2> QED
    BY <1>4, <2>1, <2>2 DEF ChecksAt
<1>8. \A s \in CallsAt(m) : OwedValue(ns, rs, q, s)
  <2>1. {s \in {m.job} : s.kind = "value"} = {}
    BY <1>3, <1>4
  <2>2. CallsAt(m) = {n.values[k] : k \in DOMAIN n.values}
    BY <1>4, <2>1 DEF CallsAt
  <2>3. CallsAt(m) \subseteq CallsAt(n)
    BY <2>2 DEF CallsAt
  <2> QED
    BY <2>3 DEF NodesTrue, Owed
<1>9. Once(m)
  <2>1. ASSUME NEW j \in DOMAIN mail, NEW k \in DOMAIN mail, Same(mail[j], mail[k])
        PROVE  j = k
    <3>1. /\ j \in Nat /\ k \in Nat /\ j + 1 \in DOMAIN n.checks /\ k + 1 \in DOMAIN n.checks
          /\ Same(n.checks[j + 1], n.checks[k + 1])
      BY <1>2, <2>1
    <3>2. j + 1 = k + 1
      BY <1>1, <3>1 DEF Once
    <3> QED
      BY <3>1, <3>2
  <2>2. \A k \in DOMAIN mail : ~Same(mail[k], r)
    BY <1>1, <1>2 DEF Once
  <2>3. \A k \in DOMAIN mail : ~Same(mail[k], job)
    BY <1>3, <2>2 DEF Same
  <2> QED
    BY <1>1, <1>3, <1>4, <2>1, <2>3 DEF Once
<1>10. \A slot \in ns[q].awaits : Keeps(ns[q], m, slot)
  BY <1>4 DEF Keeps, SameWork
<1>11. NodesTrue(ms, rs)
  BY <1>5, <1>7, <1>8, <1>9, <1>10, OneNode
<1> QED
  BY <1>1, <1>3, <1>4, <1>11 DEF SameWork

(* The update ends; its reply is still to be given.                          *)
LEMMA Ended ==
    ASSUME NEW ns, NEW rs, NodesTrue(ns, rs), NEW q \in Queries,
           ns[q].at = "idle" \/ ns[q].awaits = {},
           NEW new, IsCache(new), CacheTrue(q, new),
           NEW m, m = [Blank(ns[q], "idle") EXCEPT !.cache = new, !.job = NoJob],
           NEW ms, ms = [ns EXCEPT ![q] = m]
    PROVE  /\ NodesTrue(ms, rs)
           /\ \A p \in Queries \ {q} : ms[p] = ns[p]
           /\ ns[q].job.kind = "value" => OwedValue(ms, rs, q, ns[q].job)
           /\ ns[q].job.kind = "check" => OwedCheck(ms, q, ns[q].job)
           /\ ns[q].job.by # Gone => /\ ns[q].job.by # q
                                     /\ NoRequest(ms, ns[q].job.by, ns[q].job.slot)
<1> PICK n, job, b : n = ns[q] /\ job = n.job /\ b = Blank(n, "idle")
  OBVIOUS
<1>1. IsNode(n) /\ Once(n) /\ job \in Job
  BY DEF NodesTrue, NodeTrue, IsNode
<1>2. IsNode(b) /\ b.at = "idle" /\ b.values = n.values /\ b.checks = n.checks
  BY <1>1, BlankIs
<1>3. NoJob \in Job /\ NoJob.kind = "spawn" /\ NoJob.by = Gone
  BY DEF NoJob, Job, Requesters
<1>4. /\ IsNode(m) /\ m.at = "idle" /\ m.cache = new /\ m.job = NoJob
      /\ m.values = n.values /\ m.checks = n.checks
  BY <1>2, <1>3 DEF IsNode
<1>5. NodeTrue(q, m)
  BY <1>3, <1>4 DEF NodeTrue
<1>6. /\ CallsAt(m) = {n.values[k] : k \in DOMAIN n.values}
      /\ ChecksAt(m) = {n.checks[k] : k \in DOMAIN n.checks}
  BY <1>3, <1>4 DEF CallsAt, ChecksAt
<1>7. /\ \A s \in CallsAt(m) : s \in CallsAt(n) /\ OwedValue(ns, rs, q, s)
      /\ \A s \in ChecksAt(m) : s \in ChecksAt(n) /\ OwedCheck(ns, q, s)
  BY <1>6, ZenonT(40) DEF NodesTrue, Owed, CallsAt, ChecksAt
<1>8. Once(m)
  BY <1>1, <1>3, <1>4 DEF Once
<1>9. ms[q] = m /\ \A p \in Queries \ {q} : ms[p] = ns[p]
  BY DEF NodesTrue
<1>10. \A slot : NoRequest(ns, q, slot)
  BY Unasked
<1>11. \A slot : NoRequest(ms, q, slot)
  BY <1>7, <1>9, <1>10 DEF NoRequest
<1>12. NodesTrue(ms, rs)
  BY <1>5, <1>7, <1>8, <1>11, OneNode
<1>13. /\ job.kind = "value" => job \in CallsAt(n)
       /\ job.kind = "check" => job \in ChecksAt(n)
       /\ job.kind = "spawn" => job.by = Gone
       /\ job.kind \in {"spawn", "value", "check"}
  BY <1>1 DEF CallsAt, ChecksAt, NodesTrue, NodeTrue, Job
<1>14. /\ job.kind = "value" => OwedValue(ns, rs, q, job)
       /\ job.kind = "check" => OwedCheck(ns, q, job)
  BY <1>13 DEF NodesTrue, Owed
<1>15. job.by # Gone => job.by # q
  BY <1>10, <1>13 DEF NoRequest
<1>16. job.kind = "value" => OwedValue(ms, rs, q, job)
  BY <1>9, <1>14, <1>15 DEF OwedValue
<1>17. job.kind = "check" => OwedCheck(ms, q, job)
  BY <1>9, <1>14, <1>15 DEF OwedCheck
<1>18. ASSUME job.by # Gone PROVE NoRequest(ms, job.by, job.slot)
  <2> SUFFICES ASSUME NEW d \in Queries, NEW s \in CallsAt(ms[d]) \cup ChecksAt(ms[d]),
                      s.by = job.by, s.slot = job.slot
               PROVE  FALSE
    BY DEF NoRequest
  <2>1. CASE d = q
    <3>1. CASE job.kind = "value"
      <4>1. s \notin CallsAt(m)
        BY <1>1, <1>6, <1>18, <3>1 DEF Once, Same
      <4>2. OwedCheck(ns, q, s)
        BY <1>7, <1>9, <2>1, <4>1
      <4> QED
        BY <1>14, <1>18, <3>1, <4>2, QueryAssumption DEF OwedValue, OwedCheck
    <3>2. CASE job.kind = "check"
      <4>1. s \notin ChecksAt(m)
        BY <1>1, <1>6, <1>18, <3>2 DEF Once, Same
      <4>2. OwedValue(ns, rs, q, s)
        BY <1>7, <1>9, <2>1, <4>1
      <4> QED
        BY <1>14, <1>18, <3>2, <4>2, QueryAssumption DEF OwedValue, OwedCheck
    <3> QED
      BY <1>13, <1>18, <3>1, <3>2
  <2>2. CASE d # q
    <3>1. OwedValue(ns, rs, d, s) \/ OwedCheck(ns, d, s)
      BY <1>9, <2>2 DEF NodesTrue, Owed
    <3>2. OwedValue(ns, rs, q, job) \/ OwedCheck(ns, q, job)
      BY <1>13, <1>14, <1>18
    <3> QED
      BY <1>18, <2>2, <3>1, <3>2, QueryAssumption DEF OwedValue, OwedCheck
  <2> QED
    BY <2>1, <2>2
<1> QED
  BY <1>9, <1>12, <1>15, <1>16, <1>17, <1>18
-----------------------------------------------------------------------------
(* Replies come in.                                                          *)

LEMMA ValueTaken ==
    ASSUME WorldTrue, NEW ns, NEW rs, NodesTrue(ns, rs), NEW p \in Queries,
           ns[p].at = "evaluating",
           NEW slot \in DOMAIN NextReads(p, ns[p].seen) \ DOMAIN ns[p].got,
           NEW d, d = NextReads(p, ns[p].seen)[slot], NoRequest(ns, p, slot),
           NEW value, value = Meaning(d, frame),
           NEW since, NEW selection, TrueReport(d, since, selection)
    PROVE  NodesTrue(TakeValue(ns, p, slot, d, value, since, selection), rs)
<1> PICK n, m : n = ns[p] /\ m = Taken(p, n, slot, d, value, since, selection)
  OBVIOUS
<1>1. NodeTrue(p, n)
  BY DEF NodesTrue
<1>2. NodeTrue(p, m) /\ AfterReply(n, m, slot)
  BY <1>1, TakenTrue
<1>3. \A k \in n.awaits : NoRequest(ns, p, k) \/ Keeps(n, m, k)
  BY <1>2 DEF Keeps, AfterReply
<1>4. m.job = n.job /\ m.values = n.values /\ m.checks = n.checks
  BY <1>2 DEF AfterReply
<1>5. NodesTrue([ns EXCEPT ![p] = m], rs)
  BY <1>2, <1>3, <1>4, OneNodeWorks
<1> QED
  BY <1>5, TakeValueIs

LEMMA ValidTaken ==
    ASSUME WorldTrue, NEW ns, NEW rs, NodesTrue(ns, rs), NEW p \in Queries,
           ns[p].at = "checking", NEW slot \in ns[p].awaits,
           NEW d, d = ns[p].cache.deps[slot], NoRequest(ns, p, slot),
           NEW verdict, verdict.valid,
           TrueReport(d, verdict.since, verdict.selection),
           Meaning(d, ns[p].cache.until) = Meaning(d, frame)
    PROVE  NodesTrue(TakeVerdict(ns, p, slot, verdict), rs)
<1> PICK n, m : n = ns[p] /\ m = Verified(n, slot, verdict.since, verdict.selection)
  OBVIOUS
<1>1. NodeTrue(p, n)
  BY DEF NodesTrue
<1>2. NodeTrue(p, m) /\ AfterReply(n, m, slot)
  BY <1>1, VerifiedTrue
<1>3. \A k \in n.awaits : NoRequest(ns, p, k) \/ Keeps(n, m, k)
  BY <1>2 DEF Keeps, AfterReply
<1>6. m.job = n.job /\ m.values = n.values /\ m.checks = n.checks
  BY <1>2 DEF AfterReply
<1>4. NodesTrue([ns EXCEPT ![p] = m], rs)
  BY <1>2, <1>3, <1>6, OneNodeWorks
<1>5. TakeVerdict(ns, p, slot, verdict) = [ns EXCEPT ![p] = m]
  <2>1. /\ ns = [q \in Queries |-> ns[q]]
        /\ TakeVerdict(ns, p, slot, verdict)
              = [ns EXCEPT ![p].awaits = @ \ {slot},
                           ![p].since = Later(@, verdict.since),
                           ![p].selection = @ \cup verdict.selection]
    BY DEF TakeVerdict, NodesTrue
  <2> QED
    BY <2>1 DEF Verified
<1> QED
  BY <1>4, <1>5

(* Forget, for the state of one node.                                        *)
CutOff(mail, who) ==
    [k \in DOMAIN mail |-> IF mail[k].by = who THEN [mail[k] EXCEPT !.by = Gone] ELSE mail[k]]

Deaf(n, who) ==
    [n EXCEPT !.job.by = IF @ = who THEN Gone ELSE @,
              !.values = CutOff(@, who), !.checks = CutOff(@, who)]

(* What a mailbox became: nobody is left whom `who` would hear from.         *)
Silenced(mail, new, who) ==
    /\ DOMAIN new = DOMAIN mail
    /\ \A k \in DOMAIN mail : new[k].by = Gone \/ (mail[k].by # who /\ new[k] = mail[k])

LEMMA ForgetIs ==
    ASSUME NEW ns, NEW who
    PROVE  Forget(ns, who) = [q \in Queries |-> Deaf(ns[q], who)]
  BY DEF Forget, Deaf, CutOff

LEMMA HeardValues ==
    ASSUME NEW who, NEW mail \in Seq(ValueRequest), NEW new, new = CutOff(mail, who)
    PROVE  new \in Seq(ValueRequest) /\ Silenced(mail, new, who)
<1>1. ASSUME NEW k \in DOMAIN mail
      PROVE  /\ new[k] \in ValueRequest
             /\ new[k].by = Gone \/ (mail[k].by # who /\ new[k] = mail[k])
  <2>1. mail[k] \in ValueRequest /\ Gone \in Requesters
    BY DEF Requesters
  <2>2. new[k] = IF mail[k].by = who THEN [mail[k] EXCEPT !.by = Gone] ELSE mail[k]
    BY DEF CutOff
  <2> QED
    BY <2>1, <2>2 DEF ValueRequest
<1>2. new = [k \in 1 .. Len(mail) |-> new[k]]
  BY DEF CutOff
<1>3. DOMAIN new = DOMAIN mail /\ Len(mail) \in Nat /\ DOMAIN mail = 1 .. Len(mail)
  BY <1>2
<1>4. \A k \in 1 .. Len(mail) : new[k] \in ValueRequest
  BY <1>1, <1>3
<1>5. new \in Seq(ValueRequest)
  BY <1>2, <1>3, <1>4
<1> QED
  BY <1>1, <1>3, <1>5 DEF Silenced

LEMMA HeardChecks ==
    ASSUME NEW who, NEW mail \in Seq(CheckRequest), NEW new, new = CutOff(mail, who)
    PROVE  new \in Seq(CheckRequest) /\ Silenced(mail, new, who)
<1>1. ASSUME NEW k \in DOMAIN mail
      PROVE  /\ new[k] \in CheckRequest
             /\ new[k].by = Gone \/ (mail[k].by # who /\ new[k] = mail[k])
  <2>1. mail[k] \in CheckRequest /\ Gone \in Requesters
    BY DEF Requesters
  <2>2. new[k] = IF mail[k].by = who THEN [mail[k] EXCEPT !.by = Gone] ELSE mail[k]
    BY DEF CutOff
  <2> QED
    BY <2>1, <2>2 DEF CheckRequest
<1>2. new = [k \in 1 .. Len(mail) |-> new[k]]
  BY DEF CutOff
<1>3. DOMAIN new = DOMAIN mail /\ Len(mail) \in Nat /\ DOMAIN mail = 1 .. Len(mail)
  BY <1>2
<1>4. \A k \in 1 .. Len(mail) : new[k] \in CheckRequest
  BY <1>1, <1>3
<1>5. new \in Seq(CheckRequest)
  BY <1>2, <1>3, <1>4
<1> QED
  BY <1>1, <1>3, <1>5 DEF Silenced

LEMMA DeafMail ==
    ASSUME NEW p, p # Gone, NEW n, NEW f,
           Silenced(n.values, f.values, p), Silenced(n.checks, f.checks, p),
           f.job.kind = n.job.kind,
           f.job.by = Gone \/ (n.job.by # p /\ f.job = n.job)
    PROVE  /\ Once(n) => Once(f)
           /\ \A r \in CallsAt(f) : r.by = Gone \/ (r.by # p /\ r \in CallsAt(n))
           /\ \A r \in ChecksAt(f) : r.by = Gone \/ (r.by # p /\ r \in ChecksAt(n))
<1>1. Once(n) => Once(f)
  BY DEF Silenced, Once, Same
<1>2. \A r \in CallsAt(f) : r.by = Gone \/ (r.by # p /\ r \in CallsAt(n))
  BY DEF Silenced, CallsAt
<1>3. \A r \in ChecksAt(f) : r.by = Gone \/ (r.by # p /\ r \in ChecksAt(n))
  BY DEF Silenced, ChecksAt
<1> QED
  BY <1>1, <1>2, <1>3

(* The state of the nodes before somebody's replies are given up, which may  *)
(* itself be in another state then.                                          *)
AllButOne(ns, ms, who) ==
    /\ ms = [q \in Queries |-> ms[q]]
    /\ \A q \in Queries :
          /\ NodeTrue(q, ms[q]) /\ Once(ms[q])
          /\ CallsAt(ms[q]) \subseteq CallsAt(ns[q])
          /\ ChecksAt(ms[q]) \subseteq ChecksAt(ns[q])
    /\ \A q \in Queries \ {who} : SameWork(ns[q], ms[q])

(* What a node keeps when somebody's replies are given up.                   *)
LEMMA DeafTrue ==
    ASSUME NEW who, who # Gone, NEW q \in Queries, NEW n, NodeTrue(q, n), Once(n),
           NEW f, f = Deaf(n, who)
    PROVE  /\ NodeTrue(q, f) /\ Once(f) /\ SameWork(n, f)
           /\ \A r \in CallsAt(f) : r.by = Gone \/ (r.by # who /\ r \in CallsAt(n))
           /\ \A r \in ChecksAt(f) : r.by = Gone \/ (r.by # who /\ r \in ChecksAt(n))
<1>1. IsNode(n)
  BY DEF NodeTrue
<1> PICK values, checks : values = CutOff(n.values, who) /\ checks = CutOff(n.checks, who)
  OBVIOUS
<1> PICK by : by = IF n.job.by = who THEN Gone ELSE n.job.by
  OBVIOUS
<1> PICK job : job = [n.job EXCEPT !.by = by]
  OBVIOUS
<1>2. f = [n EXCEPT !.job = job, !.values = values, !.checks = checks]
  <2>1. Deaf(n, who) = [n EXCEPT !.job = [@ EXCEPT !.by = IF n.job.by = who THEN Gone ELSE n.job.by],
                                 !.values = CutOff(n.values, who), !.checks = CutOff(n.checks, who)]
    BY DEF Deaf
  <2> QED
    BY <2>1
<1>3. n.job \in Job /\ n.values \in Seq(ValueRequest) /\ n.checks \in Seq(CheckRequest)
  BY <1>1 DEF IsNode
<1>4. values \in Seq(ValueRequest) /\ Silenced(n.values, values, who)
  BY <1>3, HeardValues
<1>5. checks \in Seq(CheckRequest) /\ Silenced(n.checks, checks, who)
  BY <1>3, HeardChecks
<1>6. by \in Requesters
  BY <1>3 DEF Job, Requesters
<1>7. f.values = values /\ f.checks = checks /\ f.job = job /\ SameWork(n, f)
  BY <1>1, <1>2 DEF IsNode, SameWork
<1>8. /\ job \in Job /\ job.kind = n.job.kind /\ job.by = by /\ job.slot = n.job.slot
      /\ n.job.by # who => job = n.job
  BY <1>3, <1>6 DEF Job
<1>9. IsNode(f)
  BY <1>1, <1>2, <1>4, <1>5, <1>7, <1>8 DEF IsNode
<1>10. NodeTrue(q, f)
  <2>1. f.job.kind = n.job.kind /\ (f.job.kind = "spawn" => f.job.by = Gone)
    BY <1>7, <1>8 DEF NodeTrue
  <2> QED
    BY <1>7, <1>9, <2>1, SameWorkTrue
<1>11. /\ Once(f)
       /\ \A r \in CallsAt(f) : r.by = Gone \/ (r.by # who /\ r \in CallsAt(n))
       /\ \A r \in ChecksAt(f) : r.by = Gone \/ (r.by # who /\ r \in ChecksAt(n))
  <2>1. Silenced(n.values, f.values, who)
    BY <1>4, <1>7
  <2>2. Silenced(n.checks, f.checks, who)
    BY <1>5, <1>7
  <2>3. f.job.kind = n.job.kind /\ (f.job.by = Gone \/ (n.job.by # who /\ f.job = n.job))
    BY <1>7, <1>8
  <2>4. who # Gone /\ Once(n)
    OBVIOUS
  <2> QED
    BY ONLY <2>1, <2>2, <2>3, <2>4, DeafMail
<1> QED
  BY <1>7, <1>10, <1>11

(* Requests are owed to those that wait as before.                           *)
LEMMA StillOwedValue ==
    ASSUME NEW ns, NEW fs, NEW rs, NEW qs, NEW d, NEW r, OwedValue(ns, rs, d, r),
           r.by \in Queries => SameWork(ns[r.by], fs[r.by]),
           r.by \in Callers => qs[r.by] = rs[r.by]
    PROVE  OwedValue(fs, qs, d, r)
  BY DEF OwedValue, SameWork

LEMMA StillOwedCheck ==
    ASSUME NEW ns, NEW fs, NEW d, NEW r, OwedCheck(ns, d, r),
           r.by \in Queries => SameWork(ns[r.by], fs[r.by])
    PROVE  OwedCheck(fs, d, r)
  BY DEF OwedCheck, SameWork

(* The replies to a node or a caller are given up.                           *)
LEMMA GivenUp ==
    ASSUME NEW ns, NEW rs, NodesTrue(ns, rs), NEW who, who # Gone,
           NEW ms, AllButOne(ns, ms, who),
           NEW qs, qs = [c \in Callers |-> qs[c]],
           \A c \in Callers : RootTrue(qs[c]) /\ (c # who => qs[c] = rs[c]),
           NEW fs, fs = Forget(ms, who)
    PROVE  NodesTrue(fs, qs)
<1>1. fs = [q \in Queries |-> fs[q]] /\ \A q \in Queries : fs[q] = Deaf(ms[q], who)
  <2>1. fs = [q \in Queries |-> Deaf(ms[q], who)]
    BY ForgetIs
  <2> QED
    BY <2>1
<1>2. ASSUME NEW q \in Queries
      PROVE  /\ NodeTrue(q, fs[q]) /\ Once(fs[q]) /\ SameWork(ms[q], fs[q])
             /\ \A r \in CallsAt(fs[q]) : r.by = Gone \/ (r.by # who /\ r \in CallsAt(ns[q]))
             /\ \A r \in ChecksAt(fs[q]) : r.by = Gone \/ (r.by # who /\ r \in ChecksAt(ns[q]))
  <2>1. /\ NodeTrue(q, ms[q]) /\ Once(ms[q]) /\ fs[q] = Deaf(ms[q], who)
        /\ CallsAt(ms[q]) \subseteq CallsAt(ns[q]) /\ ChecksAt(ms[q]) \subseteq ChecksAt(ns[q])
    BY <1>1 DEF AllButOne
  <2>2. /\ NodeTrue(q, fs[q]) /\ Once(fs[q]) /\ SameWork(ms[q], fs[q])
        /\ \A r \in CallsAt(fs[q]) : r.by = Gone \/ (r.by # who /\ r \in CallsAt(ms[q]))
        /\ \A r \in ChecksAt(fs[q]) : r.by = Gone \/ (r.by # who /\ r \in ChecksAt(ms[q]))
    BY <2>1, DeafTrue
  <2> QED
    BY <2>1, <2>2
<1>3. ASSUME NEW q \in Queries, q # who PROVE SameWork(ns[q], fs[q])
  <2>1. SameWork(ns[q], ms[q]) /\ SameWork(ms[q], fs[q])
    BY <1>2, <1>3 DEF AllButOne
  <2> QED
    BY <2>1 DEF SameWork
<1>4. ASSUME NEW d \in Queries, NEW r \in CallsAt(fs[d]) PROVE OwedValue(fs, qs, d, r)
  <2>1. CASE r.by = Gone
    BY <2>1 DEF OwedValue
  <2>2. CASE r.by # who /\ r \in CallsAt(ns[d])
    <3>1. OwedValue(ns, rs, d, r)
      BY <2>2 DEF NodesTrue, Owed
    <3> QED
      BY <1>3, <2>2, <3>1, StillOwedValue
  <2> QED
    BY <1>2, <2>1, <2>2
<1>5. ASSUME NEW d \in Queries, NEW r \in ChecksAt(fs[d]) PROVE OwedCheck(fs, d, r)
  <2>1. CASE r.by = Gone
    BY <2>1 DEF OwedCheck
  <2>2. CASE r.by # who /\ r \in ChecksAt(ns[d])
    <3>1. OwedCheck(ns, d, r)
      BY <2>2 DEF NodesTrue, Owed
    <3> QED
      BY <1>3, <2>2, <3>1, StillOwedCheck
  <2> QED
    BY <1>2, <2>1, <2>2
<1> QED
  BY <1>1, <1>2, <1>4, <1>5 DEF NodesTrue, Owed

(* The replies of p's validation are given up, it evaluates.                 *)
LEMMA Forgotten ==
    ASSUME WorldTrue, NEW ns, NEW rs, NodesTrue(ns, rs), NEW p \in Queries,
           NEW ms, ms = [ns EXCEPT ![p] = Blank(@, "evaluating")],
           NEW fs, fs = Forget(ms, p)
    PROVE  NodesTrue(fs, rs)
<1> PICK b : b = Blank(ns[p], "evaluating")
  OBVIOUS
<1>1. NodeTrue(p, ns[p]) /\ IsNode(ns[p]) /\ Once(ns[p])
  BY DEF NodesTrue, NodeTrue
<1>2. /\ IsNode(b) /\ b.at = "evaluating" /\ b.cache = ns[p].cache /\ b.job = ns[p].job
      /\ b.values = ns[p].values /\ b.checks = ns[p].checks
      /\ b.awaits = {} /\ b.got = <<>> /\ b.seen = <<>>
      /\ b.deps = <<>> /\ b.since = 0 /\ b.selection = {}
  BY <1>1, BlankIs
<1>3. EvaluatingTrue(p, b)
  BY <1>2, EvaluationStarts
<1>4. NodeTrue(p, b)
  BY <1>1, <1>2, <1>3 DEF NodeTrue
<1>5. ms = [q \in Queries |-> ms[q]] /\ ms[p] = b /\ \A q \in Queries \ {p} : ms[q] = ns[q]
  BY DEF NodesTrue
<1>6. Once(b) /\ CallsAt(b) = CallsAt(ns[p]) /\ ChecksAt(b) = ChecksAt(ns[p])
  BY <1>1, <1>2 DEF Once, CallsAt, ChecksAt
<1>7. AllButOne(ns, ms, p)
  <2>1. \A q \in Queries : NodeTrue(q, ns[q]) /\ Once(ns[q])
    BY DEF NodesTrue
  <2>2. \A q \in Queries \ {p} : SameWork(ns[q], ms[q])
    BY <1>5 DEF SameWork
  <2> QED
    BY <1>4, <1>5, <1>6, <2>1, <2>2 DEF AllButOne
<1>8. p # Gone /\ rs = [c \in Callers |-> rs[c]] /\ \A c \in Callers : RootTrue(rs[c])
  BY QueryAssumption DEF Gone, NodesTrue
<1> QED
  BY <1>7, <1>8, GivenUp

LEMMA InvalidTaken ==
    ASSUME WorldTrue, NEW ns, NEW rs, NodesTrue(ns, rs), NEW p \in Queries, NEW slot,
           NEW verdict, ~verdict.valid
    PROVE  NodesTrue(TakeVerdict(ns, p, slot, verdict), rs)
<1> PICK ms : ms = [ns EXCEPT ![p] = Blank(@, "evaluating")]
  OBVIOUS
<1>1. TakeVerdict(ns, p, slot, verdict) = Forget(ms, p)
  BY DEF TakeVerdict
<1> QED
  BY <1>1, Forgotten
-----------------------------------------------------------------------------
(* An update of q ends, its reply is given.                                  *)

LEMMA Completed ==
    ASSUME WorldTrue, NEW ns, NodesTrue(ns, root), NEW q \in Queries,
           ns[q].at = "idle" \/ ns[q].awaits = {},
           NEW new, IsCache(new), CacheTrue(q, new), new.until = frame,
           Complete(ns, q, new)
    PROVE  NodesTrue(node', root')
<1> PICK n, job, m : /\ n = ns[q] /\ job = n.job
                     /\ m = [Blank(ns[q], "idle") EXCEPT !.cache = new, !.job = NoJob]
  OBVIOUS
<1> PICK ms : ms = [ns EXCEPT ![q] = m]
  OBVIOUS
<1> PICK verdict : verdict = Verdict(n.cache, new, job.past)
  OBVIOUS
<1>1. /\ NodesTrue(ms, root)
      /\ job.kind = "value" => OwedValue(ms, root, q, job)
      /\ job.kind = "check" => OwedCheck(ms, q, job)
      /\ job.by # Gone => job.by # q /\ NoRequest(ms, job.by, job.slot)
  BY Ended, ZenonT(40)
<1>2. /\ node' = IF job.by \notin Queries THEN ms
                 ELSE IF job.kind = "value"
                    THEN TakeValue(ms, job.by, job.slot, q, new.value, new.from, new.selection)
                    ELSE TakeVerdict(ms, job.by, job.slot, verdict)
      /\ root' = IF job.by \notin Callers THEN root ELSE
                    [root EXCEPT ![job.by].at = "answered", ![job.by].value = new.value]
  BY DEF Complete
<1>3. TrueReport(q, new.from, new.selection) /\ Meaning(q, frame) = new.value
  BY CacheReports
<1>4. /\ job \in Job /\ (job.kind = "spawn" => job.by = Gone)
      /\ job.kind # "spawn" => CacheTrue(q, n.cache)
  BY DEF NodesTrue, NodeTrue, IsNode
<1>5. CASE job.by = Gone
  <2>1. node' = ms /\ root' = root
    BY <1>2, <1>5, QueryAssumption DEF Gone
  <2> QED
    BY <1>1, <2>1
<1>6. CASE job.by \in Callers
  <2> PICK c : c = job.by
    OBVIOUS
  <2> PICK r : r = [root[c] EXCEPT !.at = "answered", !.value = new.value]
    OBVIOUS
  <2>1. c \in Callers /\ c \notin Queries /\ c # Gone
    BY <1>6, QueryAssumption DEF Gone
  <2>2. job.kind = "value"
    BY <1>1, <1>4, <2>1 DEF OwedCheck, Job
  <2>3. job.slot = 1 /\ root[c].at = "waiting" /\ root[c].query = q
    BY <1>1, <2>1, <2>2 DEF OwedValue
  <2>4. RootTrue(root[c]) /\ root = [a \in Callers |-> root[a]]
    BY <2>1 DEF NodesTrue
  <2>5. RootTrue(r)
    BY <1>3, <2>3, <2>4 DEF RootTrue
  <2>6. NoRequest(ms, c, 1)
    BY <1>1, <2>1, <2>3
  <2>7. NodesTrue(ms, [root EXCEPT ![c] = r])
    BY <1>1, <2>1, <2>5, <2>6, OneRoot
  <2>8. node' = ms /\ root' = [root EXCEPT ![c] = r]
    BY <1>2, <2>1, <2>4
  <2> QED
    BY <2>7, <2>8
<1>7. CASE job.by \in Queries
  <2> PICK p, slot : p = job.by /\ slot = job.slot
    OBVIOUS
  <2>1. p \in Queries /\ p \notin Callers /\ p # Gone /\ root' = root
    BY <1>2, <1>7, QueryAssumption DEF Gone
  <2>2. NodeTrue(p, ms[p]) /\ NoRequest(ms, p, slot)
    BY <1>1, <2>1 DEF NodesTrue
  <2>3. CASE job.kind = "value"
    <3>1. /\ ms[p].at = "evaluating" /\ slot \in ms[p].awaits
          /\ NextReads(p, ms[p].seen)[slot] = q
      BY <1>1, <2>1, <2>3 DEF OwedValue
    <3>2. slot \in DOMAIN NextReads(p, ms[p].seen) \ DOMAIN ms[p].got
      BY <2>2, <3>1 DEF NodeTrue, EvaluatingTrue
    <3>3. NodesTrue(TakeValue(ms, p, slot, q, new.value, new.from, new.selection), root)
      BY <1>1, <1>3, <2>1, <2>2, <3>1, <3>2, ValueTaken, ZenonT(40)
    <3> QED
      BY <1>2, <2>1, <2>3, <3>3
  <2>4. CASE job.kind = "check"
    <3>1. /\ ms[p].at = "checking" /\ slot \in ms[p].awaits
          /\ ms[p].cache.deps[slot] = q /\ job.past = ms[p].cache.until
      BY <1>1, <2>1, <2>4 DEF OwedCheck
    <3>2. NodesTrue(TakeVerdict(ms, p, slot, verdict), root)
      <4>1. CASE ~verdict.valid
        BY <1>1, <2>1, <4>1, InvalidTaken
      <4>2. CASE verdict.valid
        <5>1. verdict.since = new.from /\ verdict.selection = new.selection
          BY DEF Verdict
        <5>2. \/ Contains(new, job.past)
              \/ Contains(n.cache, job.past) /\ n.cache.value = new.value
          BY <4>2 DEF Verdict
        <5>3. job.past \in Nat
          BY <1>4 DEF Job
        <5>4. CacheTrue(q, n.cache)
          BY <1>4, <2>4
        <5>5. \A c : CacheTrue(q, c) /\ Contains(c, job.past) => Meaning(q, job.past) = c.value
          BY <5>3 DEF CacheTrue, Contains
        <5>6. Meaning(q, job.past) = new.value
          BY <5>2, <5>4, <5>5
        <5>7. Meaning(q, ms[p].cache.until) = Meaning(q, frame)
          BY <1>3, <3>1, <5>6
        <5>8. TrueReport(q, verdict.since, verdict.selection)
          BY <1>3, <5>1
        <5> QED
          BY ONLY WorldTrue, <1>1, <2>1, <2>2, <3>1, <4>2, <5>7, <5>8, ValidTaken
      <4> QED
        BY <4>1, <4>2
    <3>3. node' = TakeVerdict(ms, p, slot, verdict)
      BY <1>2, <1>7, <2>4
    <3> QED
      BY <2>1, <3>2, <3>3
  <2> QED
    BY <1>4, <2>1, <2>3, <2>4 DEF Job
<1> QED
  BY <1>4, <1>5, <1>6, <1>7 DEF Job, Requesters

LEMMA Refreshed ==
    ASSUME WorldTrue, NEW ns, NodesTrue(ns, root), NEW q \in Queries,
           ns[q].at = "idle", ns[q].job.kind # "spawn", Refresh(ns, q)
    PROVE  NodesTrue(node', root')
<1> PICK n, c : n = ns[q] /\ c = n.cache
  OBVIOUS
<1>1. NodeTrue(q, n) /\ IsNode(n) /\ IsCache(c) /\ CacheTrue(q, c)
  BY DEF NodesTrue, NodeTrue, IsNode
<1>2. CASE c.until = frame
  <2>1. Complete(ns, q, c)
    BY <1>2 DEF Refresh
  <2> QED
    BY <1>1, <1>2, <2>1, Completed
<1>3. CASE c.until # frame /\ InputsUnchanged(c)
  <2> PICK new : new = [c EXCEPT !.until = frame, !.snapshot = snapshot]
    OBVIOUS
  <2>1. Complete(ns, q, new)
    BY <1>3 DEF Refresh
  <2>2. IsCache(new) /\ new.until = frame
    BY <1>1 DEF IsCache
  <2>3. CacheTrue(q, new)
    BY <1>1, <1>3, ShortcutTrue
  <2> QED
    BY <2>1, <2>2, <2>3, Completed
<1>4. CASE c.until # frame /\ ~InputsUnchanged(c)
  <2> PICK m : m = Blank(n, "checking")
    OBVIOUS
  <2>1. node' = [ns EXCEPT ![q] = m] /\ root' = root
    BY <1>4 DEF Refresh
  <2>2. /\ IsNode(m) /\ m.at = "checking" /\ m.cache = c /\ m.job = n.job
        /\ m.values = n.values /\ m.checks = n.checks
        /\ m.sent = 0 /\ m.awaits = {} /\ m.since = 0 /\ m.selection = {}
    BY <1>1, BlankIs
  <2>3. CheckingTrue(m)
    BY <1>1, <2>2, CheckingStarts
  <2>4. NodeTrue(q, m)
    BY <1>1, <2>2, <2>3 DEF NodeTrue
  <2>5. \A slot : NoRequest(ns, q, slot)
    BY Unasked
  <2>6. NodesTrue([ns EXCEPT ![q] = m], root)
    BY <2>2, <2>4, <2>5, OneNodeWorks
  <2> QED
    BY <2>1, <2>6
<1> QED
  BY <1>2, <1>3, <1>4
-----------------------------------------------------------------------------
(* The steps of a frame.                                                     *)

LEMMA StepServeValue ==
    ASSUME QueryInv, NEW q \in Queries, ServeValue(q)
    PROVE  NodesTrue(node', root')
<1> PICK m : m = ServingCall(node[q])
  OBVIOUS
<1> PICK ns : ns = [node EXCEPT ![q] = m]
  OBVIOUS
<1>1. WorldTrue /\ NodesTrue(node, root) /\ node[q].at = "idle" /\ node[q].values # <<>>
  BY DEF QueryInv, ServeValue
<1>2. Refresh([node EXCEPT ![q].values = Tail(@), ![q].job = CallJob(Head(node[q].values))], q)
  BY DEF ServeValue, CallJob
<1>3. [node EXCEPT ![q].values = Tail(@), ![q].job = CallJob(Head(node[q].values))] = ns
  <2>1. node = [p \in Queries |-> node[p]]
    BY <1>1 DEF NodesTrue
  <2> QED
    BY <2>1 DEF ServingCall
<1>4. NodesTrue(ns, root) /\ m.at = "idle" /\ m.job.kind = "value"
  BY <1>1, CallServed
<1>5. ns[q] = m
  BY <1>1 DEF NodesTrue
<1>6. Refresh(ns, q)
  BY <1>2, <1>3
<1> QED
  BY <1>1, <1>4, <1>5, <1>6, Refreshed

LEMMA StepServeCheck ==
    ASSUME QueryInv, NEW q \in Queries, ServeCheck(q)
    PROVE  NodesTrue(node', root')
<1> PICK m : m = ServingCheck(node[q])
  OBVIOUS
<1> PICK ns : ns = [node EXCEPT ![q] = m]
  OBVIOUS
<1>1. WorldTrue /\ NodesTrue(node, root) /\ node[q].at = "idle" /\ node[q].checks # <<>>
  BY DEF QueryInv, ServeCheck
<1>2. Refresh([node EXCEPT ![q].checks = Tail(@), ![q].job = CheckJob(Head(node[q].checks))], q)
  BY DEF ServeCheck, CheckJob
<1>3. [node EXCEPT ![q].checks = Tail(@), ![q].job = CheckJob(Head(node[q].checks))] = ns
  <2>1. node = [p \in Queries |-> node[p]]
    BY <1>1 DEF NodesTrue
  <2> QED
    BY <2>1 DEF ServingCheck
<1>4. NodesTrue(ns, root) /\ m.at = "idle" /\ m.job.kind = "check"
  BY <1>1, CheckServed
<1>5. ns[q] = m
  BY <1>1 DEF NodesTrue
<1>6. Refresh(ns, q)
  BY <1>2, <1>3
<1> QED
  BY <1>1, <1>4, <1>5, <1>6, Refreshed

LEMMA StepSendCheck ==
    ASSUME QueryInv, NEW q \in Queries, SendCheck(q)
    PROVE  NodesTrue(node', root')
<1> PICK n, slot, dep : n = node[q] /\ slot = n.sent + 1 /\ dep = n.cache.deps[slot]
  OBVIOUS
<1> PICK m : m = [n EXCEPT !.sent = slot, !.awaits = @ \cup {slot}]
  OBVIOUS
<1> PICK ms : ms = [node EXCEPT ![q] = m]
  OBVIOUS
<1>1. /\ NodesTrue(node, root) /\ NodeTrue(q, n) /\ IsNode(n)
      /\ n.at = "checking" /\ n.sent < Len(n.cache.deps) /\ root' = root
  BY DEF QueryInv, SendCheck, NodesTrue, NodeTrue
<1>2. /\ CacheTrue(q, n.cache) /\ CheckingTrue(n) /\ n.cache.deps \in Seq(Nodes)
      /\ n.cache.until \in Nat
  BY <1>1 DEF NodeTrue, CacheTrue
<1>3. /\ IsNode(m) /\ m.at = n.at /\ m.cache = n.cache /\ m.job = n.job
      /\ m.values = n.values /\ m.checks = n.checks /\ m.sent = slot
      /\ m.awaits = n.awaits \cup {slot} /\ m.since = n.since /\ m.seen = n.seen
      /\ m.selection = n.selection
  BY <1>1 DEF IsNode
<1>4. /\ n.sent \in Nat /\ slot \in Nat /\ slot \in 0 .. Len(n.cache.deps)
      /\ n.awaits \subseteq 1 .. n.sent /\ slot \notin n.awaits
      /\ (1 .. slot) \ m.awaits = (1 .. n.sent) \ n.awaits
      /\ m.awaits \subseteq 1 .. slot
  <2>1. /\ Len(n.cache.deps) \in Nat /\ n.sent \in 0 .. Len(n.cache.deps)
        /\ n.awaits \subseteq 1 .. n.sent
    BY <1>2 DEF CheckingTrue
  <2>2. /\ n.sent \in Nat /\ slot \in Nat /\ slot \in 0 .. Len(n.cache.deps)
        /\ slot \notin 1 .. n.sent /\ 1 .. slot = (1 .. n.sent) \cup {slot}
    BY <1>1, <2>1
  <2> QED
    BY <1>3, <2>1, <2>2
<1>5. CheckingTrue(m)
  BY <1>2, <1>3, <1>4 DEF CheckingTrue
<1>6. NodeTrue(q, m)
  BY <1>1, <1>3, <1>5 DEF NodeTrue
<1>7. \A k \in node[q].awaits : Keeps(node[q], m, k)
  BY <1>3 DEF Keeps
<1>8. NoRequest(node, q, slot)
  BY <1>1, <1>4, Unasked
<1>9. NodesTrue(ms, root) /\ NoRequest(ms, q, slot)
  BY <1>1, <1>3, <1>6, <1>7, <1>8, OneNodeWorks
<1>10. node = [p \in Queries |-> node[p]] /\ ms[q] = m
  BY <1>1 DEF NodesTrue
<1>11. [node EXCEPT ![q].sent = slot, ![q].awaits = @ \cup {slot}] = ms
  BY <1>10
<1>12. CASE dep \in Inputs
  <2>1. node' = ms
    BY <1>11, <1>12 DEF SendCheck
  <2> QED
    BY <1>1, <1>9, <2>1
<1>13. CASE dep \notin Inputs
  <2> PICK r : r = [by |-> q, slot |-> slot, past |-> n.cache.until]
    OBVIOUS
  <2>1. dep \in Queries
    <3>1. slot \in DOMAIN n.cache.deps
      BY <1>2, <1>4
    <3> QED
      BY <1>2, <1>13, <3>1 DEF Nodes
  <2>2. r \in CheckRequest /\ r.by = q /\ r.slot = slot /\ r.past = n.cache.until
    BY <1>2, <1>4 DEF CheckRequest, Requesters
  <2>3. OwedCheck(ms, dep, r)
    BY <1>1, <1>3, <1>10, <2>2 DEF OwedCheck
  <2>4. NodesTrue([ms EXCEPT ![dep] = [ms[dep] EXCEPT !.checks = Append(@, r)]], root)
    <3>1. NodesTrue(ms, root) /\ NoRequest(ms, r.by, r.slot)
      BY <1>9, <2>2
    <3> QED
      BY ONLY <3>1, <2>1, <2>2, <2>3, CheckSent
  <2>5. node' = [ms EXCEPT ![dep].checks = Append(@, r)]
    BY <1>11, <1>13 DEF SendCheck
  <2>6. [ms EXCEPT ![dep].checks = Append(@, r)]
           = [ms EXCEPT ![dep] = [ms[dep] EXCEPT !.checks = Append(@, r)]]
    OBVIOUS
  <2> QED
    BY <1>1, <2>4, <2>5, <2>6
<1> QED
  BY <1>12, <1>13

LEMMA StepInputVerdict ==
    ASSUME QueryInv, NEW q \in Queries, InputVerdict(q)
    PROVE  NodesTrue(node', root')
<1>1. WorldTrue /\ NodesTrue(node, root) /\ node[q].at = "checking" /\ root' = root
  BY DEF QueryInv, InputVerdict
<1>2. PICK slot \in node[q].awaits :
          /\ node[q].cache.deps[slot] \in Inputs
          /\ node' = TakeVerdict(node, q, slot,
                [valid |-> input[node[q].cache.deps[slot]].since <= node[q].cache.until,
                 since |-> input[node[q].cache.deps[slot]].since,
                 selection |-> {node[q].cache.deps[slot]}])
  BY DEF InputVerdict
<1> PICK i, verdict :
        /\ i = node[q].cache.deps[slot]
        /\ verdict = [valid |-> input[i].since <= node[q].cache.until,
                      since |-> input[i].since, selection |-> {i}]
  OBVIOUS
<1>3. i \in Inputs /\ node' = TakeVerdict(node, q, slot, verdict)
  BY <1>2
<1>4. NoRequest(node, q, slot)
  BY <1>1, <1>3, Unasked
<1>5. CASE ~verdict.valid
  BY <1>1, <1>3, <1>5, InvalidTaken
<1>6. CASE verdict.valid
  <2>1. /\ TrueReport(i, input[i].since, {i}) /\ Meaning(i, frame) = input[i].value
    BY <1>1, <1>3, InputReports
  <2>2. verdict.since = input[i].since /\ verdict.selection = {i}
    OBVIOUS
  <2>3. input[i].since <= node[q].cache.until
    BY <1>6
  <2>4. node[q].cache.until \in Nat /\ node[q].cache.until <= frame
    BY <1>1 DEF NodesTrue, NodeTrue, CacheTrue
  <2>5. Meaning(i, node[q].cache.until) = Meaning(i, frame)
    <3>1. input[i].since \in 0 .. frame
      BY <2>1 DEF TrueReport
    <3>2. frame \in Nat
      BY <1>1, FrameNat
    <3>3. node[q].cache.until \in input[i].since .. frame
      BY <2>3, <2>4, <3>1, <3>2
    <3> QED
      BY <2>1, <3>3 DEF TrueReport, Steady
  <2> QED
    <3>1. TrueReport(i, verdict.since, verdict.selection)
      BY <2>1, <2>2
    <3>2. q \in Queries /\ slot \in node[q].awaits /\ i = node[q].cache.deps[slot]
      OBVIOUS
    <3> QED
      BY ONLY <1>1, <1>3, <1>4, <1>6, <2>5, <3>1, <3>2, ValidTaken
<1> QED
  BY <1>5, <1>6

LEMMA StepFinishCheck ==
    ASSUME QueryInv, NEW q \in Queries, FinishCheck(q)
    PROVE  NodesTrue(node', root')
<1> PICK n, c : n = node[q] /\ c = n.cache
  OBVIOUS
<1> PICK new : new = [c EXCEPT !.from = ExtendedFrom(n.since, c), !.until = frame,
                               !.selection = n.selection, !.snapshot = snapshot]
  OBVIOUS
<1>1. WorldTrue /\ NodesTrue(node, root) /\ NodeTrue(q, n) /\ IsNode(n) /\ IsCache(c)
  BY DEF QueryInv, NodesTrue, NodeTrue, IsNode
<1>2. /\ n.at = "checking" /\ n.sent = Len(c.deps) /\ n.awaits = {}
      /\ Complete(node, q, new)
  BY DEF FinishCheck
<1>3. IsCache(new) /\ new.until = frame
  BY <1>1 DEF IsCache
<1>4. CacheTrue(q, new)
  BY <1>1, <1>2, CheckedCache
<1> QED
  BY <1>1, <1>2, <1>3, <1>4, Completed

LEMMA StepReadInput ==
    ASSUME QueryInv, NEW q \in Queries, ReadInput(q)
    PROVE  NodesTrue(node', root')
<1>1. WorldTrue /\ NodesTrue(node, root) /\ root' = root
  BY DEF QueryInv, ReadInput
<1>2. PICK slot \in Wanted(q) :
          /\ NextReads(q, node[q].seen)[slot] \in Inputs
          /\ node' = TakeValue(node, q, slot, NextReads(q, node[q].seen)[slot],
                               input[NextReads(q, node[q].seen)[slot]].value,
                               input[NextReads(q, node[q].seen)[slot]].since,
                               {NextReads(q, node[q].seen)[slot]})
  BY DEF ReadInput
<1> PICK i : i = NextReads(q, node[q].seen)[slot]
  OBVIOUS
<1> PICK value, since, selection :
        value = input[i].value /\ since = input[i].since /\ selection = {i}
  OBVIOUS
<1>3. i \in Inputs /\ node' = TakeValue(node, q, slot, i, value, since, selection)
  BY <1>2
<1>4. /\ node[q].at = "evaluating" /\ slot \notin node[q].awaits
      /\ slot \in DOMAIN NextReads(q, node[q].seen) \ DOMAIN node[q].got
  BY DEF Wanted
<1>5. NoRequest(node, q, slot)
  BY <1>1, <1>4, Unasked
<1>6. TrueReport(i, since, selection) /\ value = Meaning(i, frame)
  BY <1>1, <1>3, InputReports
<1> QED
  BY <1>1, <1>3, <1>4, <1>5, <1>6, ValueTaken

LEMMA StepCallQuery ==
    ASSUME QueryInv, NEW q \in Queries, CallQuery(q)
    PROVE  NodesTrue(node', root')
<1>1. WorldTrue /\ NodesTrue(node, root) /\ root' = root
  BY DEF QueryInv, CallQuery
<1>2. PICK slot \in Wanted(q) :
          /\ NextReads(q, node[q].seen)[slot] \in Queries
          /\ node' = SendValueRequest([node EXCEPT ![q].awaits = @ \cup {slot}],
                                      NextReads(q, node[q].seen)[slot], q, slot)
  BY DEF CallQuery
<1> PICK n, d : n = node[q] /\ d = NextReads(q, n.seen)[slot]
  OBVIOUS
<1> PICK m : m = [n EXCEPT !.awaits = @ \cup {slot}]
  OBVIOUS
<1> PICK ms : ms = [node EXCEPT ![q] = m]
  OBVIOUS
<1>3. /\ n.at = "evaluating" /\ slot \notin n.awaits
      /\ slot \in DOMAIN NextReads(q, n.seen) \ DOMAIN n.got
  BY DEF Wanted
<1>4. NodeTrue(q, n) /\ IsNode(n) /\ EvaluatingTrue(q, n)
  BY <1>1, <1>3 DEF NodesTrue, NodeTrue
<1>5. /\ IsNode(m) /\ m.at = n.at /\ m.cache = n.cache /\ m.job = n.job
      /\ m.values = n.values /\ m.checks = n.checks /\ m.got = n.got
      /\ m.awaits = n.awaits \cup {slot} /\ m.since = n.since /\ m.seen = n.seen
      /\ m.deps = n.deps /\ m.selection = n.selection
  BY <1>4 DEF IsNode
<1>6. EvaluatingTrue(q, m)
  BY <1>3, <1>4, <1>5 DEF EvaluatingTrue
<1>7. NodeTrue(q, m)
  BY <1>3, <1>4, <1>5, <1>6 DEF NodeTrue
<1>8. \A k \in node[q].awaits : Keeps(node[q], m, k)
  BY <1>5 DEF Keeps
<1>9. NoRequest(node, q, slot)
  BY <1>1, <1>3, Unasked
<1>10. NodesTrue(ms, root) /\ NoRequest(ms, q, slot)
  BY <1>1, <1>5, <1>7, <1>8, <1>9, OneNodeWorks
<1>11. ms[q] = m
  BY <1>1 DEF NodesTrue
<1>12. OwedValue(ms, root, d, [by |-> q, slot |-> slot])
  <2>1. /\ ms[q].at = "evaluating" /\ slot \in ms[q].awaits
        /\ NextReads(q, ms[q].seen)[slot] = d
    BY <1>3, <1>5, <1>11
  <2> QED
    BY <2>1 DEF OwedValue
<1>13. q \in Requesters /\ slot \in Nat
  <2>1. NextReads(q, n.seen) \in Seq(Nodes)
    BY <1>1, <1>4, EvaluationOnPath
  <2> QED
    BY <1>3, <2>1 DEF Requesters
<1>14. NodesTrue(SendValueRequest(ms, d, q, slot), root)
  BY <1>1, <1>2, <1>10, <1>12, <1>13, ValueRequestSent
<1>15. [node EXCEPT ![q].awaits = @ \cup {slot}] = ms
  OBVIOUS
<1> QED
  BY <1>1, <1>2, <1>14, <1>15

LEMMA StepFinishEvaluation ==
    ASSUME QueryInv, NEW q \in Queries, FinishEvaluation(q)
    PROVE  NodesTrue(node', root')
<1> PICK n : n = node[q]
  OBVIOUS
<1> PICK value : value = Result(q, n.seen)
  OBVIOUS
<1> PICK from : from = IF n.job.kind # "spawn" /\ value = n.cache.value
                          THEN ExtendedFrom(n.since, n.cache) ELSE n.since
  OBVIOUS
<1> PICK new : new = [value |-> value, from |-> from, until |-> frame, deps |-> n.deps,
                      selection |-> n.selection, snapshot |-> snapshot]
  OBVIOUS
<1>1. WorldTrue /\ NodesTrue(node, root) /\ NodeTrue(q, n)
  BY DEF QueryInv, NodesTrue
<1>2. n.at = "evaluating" /\ NextReads(q, n.seen) = <<>> /\ Complete(node, q, new)
  BY DEF FinishEvaluation
<1>3. n.awaits = {}
  <2>1. n.awaits \subseteq DOMAIN NextReads(q, n.seen)
    BY <1>1, <1>2 DEF NodeTrue, EvaluatingTrue
  <2> QED
    BY <1>2, <2>1
<1>4. IsCache(new) /\ new.until = frame
  BY DEF IsCache
<1>5. CacheTrue(q, new)
  BY <1>1, <1>2, EvaluatedCache
<1> QED
  BY <1>1, <1>2, <1>3, <1>4, <1>5, Completed

LEMMA StepAsk ==
    ASSUME QueryInv, NEW c \in Callers, NEW q \in Called, Ask(c, q)
    PROVE  NodesTrue(node', root')
<1> PICK r : r = [root[c] EXCEPT !.at = "waiting", !.query = q]
  OBVIOUS
<1> PICK rs : rs = [root EXCEPT ![c] = r]
  OBVIOUS
<1>1. WorldTrue /\ NodesTrue(node, root) /\ RootTrue(root[c])
  BY DEF QueryInv, NodesTrue
<1>2. root[c].at = "idle" /\ root' = rs /\ node' = SendValueRequest(node, q, c, 1)
  BY DEF Ask
<1>3. q \in Queries
  BY QueryAssumption
<1>4. RootTrue(r) /\ r.at = "waiting" /\ r.query = q
  BY <1>1 DEF RootTrue
<1>5. NodesTrue(node, rs)
  BY <1>1, <1>2, <1>4, OneRoot
<1>6. OwedValue(node, rs, q, [by |-> c, slot |-> 1])
  BY <1>1, <1>4 DEF OwedValue, NodesTrue
<1>7. NoRequest(node, c, 1)
  <2> SUFFICES ASSUME NEW d \in Queries, NEW s \in CallsAt(node[d]) \cup ChecksAt(node[d]),
                      s.by = c, s.slot = 1
               PROVE  FALSE
    BY DEF NoRequest
  <2>1. OwedValue(node, root, d, s) \/ OwedCheck(node, d, s)
    BY <1>1 DEF NodesTrue, Owed
  <2>2. c # Gone /\ c \notin Queries
    BY QueryAssumption DEF Gone
  <2> QED
    BY <1>2, <2>1, <2>2 DEF OwedValue, OwedCheck
<1>8. c \in Requesters /\ 1 \in Nat
  BY DEF Requesters
<1>9. NodesTrue(SendValueRequest(node, q, c, 1), rs)
  BY <1>1, <1>3, <1>5, <1>6, <1>7, <1>8, ValueRequestSent
<1> QED
  BY <1>2, <1>9

LEMMA StepLeave ==
    ASSUME QueryInv, NEW c \in Callers, Leave(c)
    PROVE  NodesTrue(node', root')
<1>1. /\ NodesTrue(node, root) /\ root[c].at = "answered"
      /\ root' = [root EXCEPT ![c] = NotAsking] /\ node' = node
  BY DEF QueryInv, Leave
<1>2. RootTrue(NotAsking)
  BY DEF NotAsking, RootTrue
<1>3. NodesTrue(node, [root EXCEPT ![c] = NotAsking])
  BY <1>1, <1>2, OneRoot
<1> QED
  BY <1>1, <1>3

-----------------------------------------------------------------------------
(* Within a frame nothing that is said of the nodes is said of anything else *)
(* that changes.                                                             *)

LEMMA WorldFixed ==
    ASSUME NEW ns, NEW rs, NodesTrue(ns, rs), UNCHANGED <<frame, input, log>>
    PROVE  NodesTrue(ns, rs)'
<1>1. frame' = frame /\ input' = input /\ log' = log
  OBVIOUS
<1>2. ASSUME NEW q, NEW n PROVE CacheTrue(q, n)' <=> CacheTrue(q, n)
  BY <1>1 DEF CacheTrue, Decide, Pinned, MovedOn, AllBehind, Meaning
<1>3. ASSUME NEW n PROVE CheckingTrue(n)' <=> CheckingTrue(n)
  BY <1>1 DEF CheckingTrue, Pinned, Steady, Meaning, AllBehind
<1>4. ASSUME NEW q, NEW n PROVE EvaluatingTrue(q, n)' <=> EvaluatingTrue(q, n)
  BY <1>1 DEF EvaluatingTrue, LeadTo, Steady, Pinned, AllBehind, Meaning
<1>5. ASSUME NEW q, NEW n PROVE NodeTrue(q, n)' <=> NodeTrue(q, n)
  BY <1>2, <1>3, <1>4 DEF NodeTrue
<1>6. ASSUME NEW r PROVE RootTrue(r)' <=> RootTrue(r)
  BY <1>1 DEF RootTrue, Meaning
<1>7. ASSUME NEW q PROVE (Owed(ns, rs, q) /\ Once(ns[q]))' <=> Owed(ns, rs, q) /\ Once(ns[q])
  BY DEF Owed, OwedValue, OwedCheck, Once
<1> QED
  BY <1>5, <1>6, <1>7 DEF NodesTrue

LEMMA NodesMoveOn ==
    ASSUME NodesTrue(node', root'), UNCHANGED <<frame, input, log>>
    PROVE  NodesTrue(node, root)'
<1> PICK ns, rs : ns = node' /\ rs = root'
  OBVIOUS
<1>1. NodesTrue(ns, rs)'
  BY WorldFixed
<1> QED
  BY <1>1 DEF NodesTrue

LEMMA WorldMovesOn ==
    ASSUME WorldTrue, UNCHANGED world, known \subseteq known'
    PROVE  WorldTrue'
<1>1. frame' = frame /\ input' = input /\ log' = log /\ snapshot' = snapshot
  BY DEF world
<1> QED
  BY <1>1 DEF WorldTrue, InstantIn, Frames

LEMMA StepNode ==
    ASSUME QueryInv, NEW q \in Queries, NodeStep(q)
    PROVE  NodesTrue(node', root') /\ UNCHANGED world /\ known \subseteq known'
<1>1. CASE ServeValue(q)
  BY <1>1, StepServeValue DEF ServeValue
<1>2. CASE ServeCheck(q)
  BY <1>2, StepServeCheck DEF ServeCheck
<1>3. CASE SendCheck(q)
  BY <1>3, StepSendCheck DEF SendCheck
<1>4. CASE InputVerdict(q)
  BY <1>4, StepInputVerdict DEF InputVerdict
<1>5. CASE FinishCheck(q)
  BY <1>5, StepFinishCheck DEF FinishCheck
<1>6. CASE ReadInput(q)
  BY <1>6, StepReadInput DEF ReadInput
<1>7. CASE CallQuery(q)
  BY <1>7, StepCallQuery DEF CallQuery
<1>8. CASE FinishEvaluation(q)
  BY <1>8, StepFinishEvaluation DEF FinishEvaluation
<1> QED
  BY <1>1, <1>2, <1>3, <1>4, <1>5, <1>6, <1>7, <1>8 DEF NodeStep

-----------------------------------------------------------------------------
(* The next frame.                                                           *)

LEMMA ModNext ==
    ASSUME NEW a \in Nat, NEW m \in Nat \ {0}
    PROVE  ((a % m) + 1) % m = (a + 1) % m
<1> PICK d, r : d = a \div m /\ r = a % m
  OBVIOUS
<1>1. d \in Nat /\ r \in 0 .. m - 1 /\ a = m * d + r
  OBVIOUS
<1>2. CASE r + 1 < m
  <2>1. a + 1 = m * d + (r + 1) /\ r + 1 \in 0 .. m - 1
    BY <1>1, <1>2
  <2>2. \A s \in 0 .. m - 1 : (m * d + s) % m = s
    BY <1>1
  <2>3. (r + 1) % m = r + 1
    BY <2>1
  <2> QED
    BY <2>1, <2>2, <2>3
<1>3. CASE r + 1 = m
  <2>1. a + 1 = m * d + m
    BY <1>1, <1>3
  <2>2. m * d + m = m * (d + 1)
    BY <1>1
  <2>3. (m * (d + 1) + 0) % m = 0
    BY <1>1
  <2>4. (r + 1) % m = 0
    BY <1>3
  <2> QED
    BY <2>1, <2>2, <2>3, <2>4
<1> QED
  BY <1>1, <1>2, <1>3

(* What NextFrame does to the frames and the inputs.                         *)
NewWorld ==
    /\ frame \in Nat /\ frame' = frame + 1 /\ frame' \in Frames
    /\ \A f \in 0 .. frame : log'[f] = log[f]
    /\ log'[frame + 1] = [i \in Inputs |-> input'[i].value]
    /\ \A i \in Inputs :
          \/ input'[i] = input[i]
          \/ /\ i \in known'
             /\ input'[i] = [value |-> input'[i].value, since |-> frame + 1,
                             instant |-> NextInstant(input[i].instant)]
             /\ input'[i].value \in Values
    /\ snapshot' = [i \in known' |-> input'[i].instant]
    /\ known \subseteq known'

LEMMA FrameMakesWorld ==
    ASSUME WorldTrue, NextFrame
    PROVE  /\ NewWorld
           /\ input' = [i \in Inputs |-> input'[i]]
           /\ log' = [log EXCEPT ![frame + 1] = [i \in Inputs |-> input'[i].value]]
<1>1. /\ frame \in Nat /\ frame < MaxFrame /\ MaxFrame \in Nat /\ frame' = frame + 1
      /\ frame' \in Frames /\ log \in [Frames -> Worlds]
      /\ \A f \in 0 .. frame : f \in Frames /\ f # frame + 1
  BY FrameNat, QueryAssumption DEF NextFrame, WorldTrue, Frames
<1>2. log' = [log EXCEPT ![frame + 1] = [i \in Inputs |-> input'[i].value]]
  BY <1>1 DEF NextFrame
<1>3. PICK written \in SUBSET Inputs :
         \E new \in [written -> Values] :
            /\ input' = [i \in Inputs |->
                   IF i \in written /\ new[i] # input[i].value
                      THEN [value |-> new[i], since |-> frame + 1,
                            instant |-> NextInstant(input[i].instant)]
                      ELSE input[i]]
            /\ known' = known \cup written
  BY DEF NextFrame
<1> PICK new \in [written -> Values] :
          /\ input' = [i \in Inputs |->
                 IF i \in written /\ new[i] # input[i].value
                    THEN [value |-> new[i], since |-> frame + 1,
                          instant |-> NextInstant(input[i].instant)]
                    ELSE input[i]]
          /\ known' = known \cup written
  BY <1>3
<1>4. snapshot' = [i \in known' |-> input'[i].instant]
  BY DEF NextFrame
<1>5. input' = [i \in Inputs |-> input'[i]]
  OBVIOUS
<1>6. ASSUME NEW i \in Inputs
      PROVE  \/ input'[i] = input[i]
             \/ /\ i \in known'
                /\ input'[i] = [value |-> input'[i].value, since |-> frame + 1,
                                instant |-> NextInstant(input[i].instant)]
                /\ input'[i].value \in Values
  <2>1. CASE i \in written /\ new[i] # input[i].value
    <3>1. input'[i] = [value |-> new[i], since |-> frame + 1,
                       instant |-> NextInstant(input[i].instant)]
      BY <2>1
    <3> QED
      BY <2>1, <3>1
  <2>2. CASE ~(i \in written /\ new[i] # input[i].value)
    BY <2>2
  <2> QED
    BY <2>1, <2>2
<1>7. /\ \A f \in 0 .. frame : log'[f] = log[f]
      /\ log'[frame + 1] = [i \in Inputs |-> input'[i].value]
  BY <1>1, <1>2
<1>8. known \subseteq known'
  OBVIOUS
<1> QED
  BY <1>1, <1>2, <1>4, <1>5, <1>6, <1>7, <1>8 DEF NewWorld

LEMMA NewInput ==
    ASSUME WorldTrue, NewWorld, NEW i \in Inputs
    PROVE  /\ input'[i] \in [value : Values, since : Nat, instant : 0 .. Instants - 1]
           /\ input'[i].since <= frame + 1
           /\ \A f \in input'[i].since .. frame + 1 : log'[f][i] = input'[i].value
           /\ i \notin known' => input'[i].instant = 0
           /\ InstantIn(snapshot', i) = input'[i].instant
<1>1. /\ input[i] \in [value : Values, since : Nat, instant : 0 .. Instants - 1]
      /\ input[i].since <= frame
      /\ \A f \in input[i].since .. frame : log[f][i] = input[i].value
      /\ i \notin known => input[i].instant = 0
  BY DEF WorldTrue
<1>2. /\ frame \in Nat /\ log'[frame + 1][i] = input'[i].value
      /\ \A f \in 0 .. frame : log'[f] = log[f]
  BY DEF NewWorld
<1>3. \A t \in 0 .. Instants - 1 : NextInstant(t) \in 0 .. Instants - 1
  BY QueryAssumption DEF NextInstant
<1>4. /\ input'[i] \in [value : Values, since : Nat, instant : 0 .. Instants - 1]
      /\ input'[i].since <= frame + 1
      /\ i \notin known' => input'[i].instant = 0
      /\ input'[i] = input[i] \/ input'[i].since = frame + 1
  <2>1. CASE input'[i] = input[i]
    <3>1. known \subseteq known'
      BY DEF NewWorld
    <3> QED
      BY ONLY <1>1, <1>2, <2>1, <3>1
  <2>2. CASE /\ i \in known'
             /\ input'[i] = [value |-> input'[i].value, since |-> frame + 1,
                             instant |-> NextInstant(input[i].instant)]
             /\ input'[i].value \in Values
    <3>1. NextInstant(input[i].instant) \in 0 .. Instants - 1
      BY <1>1, <1>3
    <3> QED
      BY <1>2, <2>2, <3>1
  <2> QED
    BY <2>1, <2>2 DEF NewWorld
<1>5. \A f \in input'[i].since .. frame + 1 : log'[f][i] = input'[i].value
  BY <1>1, <1>2, <1>4
<1>6. InstantIn(snapshot', i) = input'[i].instant
  BY <1>4 DEF NewWorld, InstantIn
<1> QED
  BY <1>4, <1>5, <1>6

LEMMA WorldGrows ==
    ASSUME WorldTrue, NextFrame
    PROVE  WorldTrue'
<1>1. /\ NewWorld /\ input' = [i \in Inputs |-> input'[i]]
      /\ log' = [log EXCEPT ![frame + 1] = [i \in Inputs |-> input'[i].value]]
  BY FrameMakesWorld
<1>2. frame' \in Frames /\ frame' = frame + 1
  BY <1>1 DEF NewWorld
<1>3. input' \in [Inputs -> [value : Values, since : Nat, instant : 0 .. Instants - 1]]
  BY <1>1, NewInput
<1>4. [i \in Inputs |-> input'[i].value] \in Worlds
  BY <1>1, NewInput DEF Worlds
<1>5. log' \in [Frames -> Worlds]
  BY <1>1, <1>4 DEF WorldTrue
<1> QED
  BY <1>1, <1>2, <1>3, <1>5, NewInput DEF WorldTrue, InstantIn
LEMMA InputMovesOn ==
    ASSUME WorldTrue, NewWorld, NEW i \in Inputs, NEW old \in Nat, NEW f \in 0 .. frame,
           MovedOn(i, old, f)
    PROVE  MovedOn(i, old, f)'
<1>1. /\ frame \in Nat /\ frame' = frame + 1 /\ f \in Nat
      /\ \A g \in 0 .. frame : log'[g] = log[g]
      /\ log'[frame + 1][i] = input'[i].value
      /\ log[frame][i] = input[i].value
  BY FrameNat DEF NewWorld, WorldTrue
<1>2. PICK k \in 0 .. frame - f :
          /\ input[i].instant = (old + k) % Instants
          /\ k = 0 => \A g \in f .. frame : log[g][i] = log[f][i]
  BY DEF MovedOn
<1> SUFFICES \E m \in 0 .. frame + 1 - f :
                 /\ input'[i].instant = (old + m) % Instants
                 /\ m = 0 => \A g \in f .. frame + 1 : log'[g][i] = log'[f][i]
  BY <1>1 DEF MovedOn
<1>3. CASE input'[i] = input[i]
  <2>1. ASSUME k = 0, NEW g \in f .. frame + 1
        PROVE  log'[g][i] = log'[f][i]
    <3>1. log[frame][i] = log[f][i] /\ log'[f] = log[f]
      BY <1>1, <1>2, <2>1
    <3>2. CASE g = frame + 1
      BY <1>1, <1>3, <3>1, <3>2
    <3>3. CASE g \in f .. frame
      BY <1>1, <1>2, <2>1, <3>1, <3>3
    <3> QED
      BY <1>1, <3>2, <3>3
  <2>2. k \in 0 .. frame + 1 - f
    BY <1>1
  <2> QED
    BY <1>2, <1>3, <2>1, <2>2
<1>4. CASE input'[i].instant = NextInstant(input[i].instant)
  <2>1. input'[i].instant = (((old + k) % Instants) + 1) % Instants
    BY <1>2, <1>4 DEF NextInstant
  <2>2. (((old + k) % Instants) + 1) % Instants = ((old + k) + 1) % Instants
    <3>1. old + k \in Nat
      BY <1>1
    <3> QED
      BY <3>1, ModNext, QueryAssumption
  <2>3. (old + k) + 1 = old + (k + 1)
    BY <1>1
  <2>4. k + 1 \in 0 .. frame + 1 - f /\ k + 1 # 0
    BY <1>1
  <2> QED
    BY <2>1, <2>2, <2>3, <2>4
<1>5. input'[i] = input[i] \/ input'[i].instant = NextInstant(input[i].instant)
  <2>1. ASSUME input'[i] = [value |-> input'[i].value, since |-> frame + 1,
                            instant |-> NextInstant(input[i].instant)]
        PROVE  input'[i].instant = NextInstant(input[i].instant)
    BY <2>1
  <2> QED
    BY <2>1 DEF NewWorld
<1> QED
  BY <1>3, <1>4, <1>5

(* A cache stays as true as it was of the frames it knows.                   *)
LEMMA CacheAges ==
    ASSUME WorldTrue, NewWorld, NEW q, NEW c, CacheTrue(q, c)
    PROVE  CacheTrue(q, c)'
<1>1. /\ frame \in Nat /\ frame' = frame + 1
      /\ \A f \in 0 .. frame : log'[f] = log[f]
  BY DEF NewWorld
<1>2. /\ c.from \in Nat /\ c.until \in Nat /\ c.from <= c.until /\ c.until <= frame
      /\ c.until \in 0 .. frame
  BY <1>1 DEF CacheTrue
<1>3. log'[c.until] = log[c.until] /\ \A f \in c.from .. c.until : log'[f] = log[f]
  BY <1>1, <1>2
<1>4. \A f \in c.from .. c.until : Meaning(q, f)' = c.value
  BY <1>3 DEF CacheTrue, Meaning
<1>5. \A d : /\ Meaning(d, c.until)' = Meaning(d, c.until)
             /\ Pinned(d, c.until)' = Pinned(d, c.until)
  BY <1>3 DEF Meaning, Pinned
<1>6. Decide(q, c.deps, c.until, c.value)'
  BY <1>5 DEF CacheTrue, Decide
<1>7. \A k \in DOMAIN c.deps : Pinned(c.deps[k], c.until)'
  BY <1>5 DEF CacheTrue
<1>8. c.selection = AllBehind(c.deps, DOMAIN c.deps, c.until)'
  BY <1>3 DEF CacheTrue, AllBehind
<1>9. ASSUME NEW i \in Inputs
      PROVE  /\ InstantIn(c.snapshot, i) \in 0 .. Instants - 1
             /\ MovedOn(i, InstantIn(c.snapshot, i), c.until)'
  <2> PICK old : old = InstantIn(c.snapshot, i)
    OBVIOUS
  <2>1. old \in 0 .. Instants - 1 /\ MovedOn(i, old, c.until)
    BY DEF CacheTrue
  <2>2. MovedOn(i, old, c.until)'
    BY <1>2, <2>1, InputMovesOn
  <2> QED
    BY <2>1, <2>2
<1>10. c.deps \in Seq(Nodes) /\ c.selection \subseteq Inputs
  BY DEF CacheTrue
<1>11. c.until <= frame'
  BY <1>1, <1>2
<1> QED
  BY <1>2, <1>4, <1>6, <1>7, <1>8, <1>9, <1>10, <1>11 DEF CacheTrue

LEMMA StepNextFrame ==
    ASSUME QueryInv, NextFrame
    PROVE  NodesTrue(node, root)'
<1>1. WorldTrue /\ NodesTrue(node, root) /\ NewWorld
  BY FrameMakesWorld DEF QueryInv
<1>2. node' = node /\ root' = root
  BY DEF NextFrame
<1>3. ASSUME NEW q \in Queries, NEW n, n = node[q]
      PROVE  /\ n.at \in {"absent", "idle"} /\ n.values = <<>> /\ n.checks = <<>>
             /\ NodeTrue(q, n)'
  <2>1. /\ n.at \in {"absent", "idle"} /\ n.values = <<>> /\ n.checks = <<>>
    BY <1>3 DEF NextFrame, NoToken, Quiet
  <2>2. NodeTrue(q, n)
    BY <1>1, <1>3 DEF NodesTrue
  <2>3. CacheTrue(q, n.cache) => CacheTrue(q, n.cache)'
    BY <1>1, CacheAges
  <2> QED
    BY <2>1, <2>2, <2>3 DEF NodeTrue
<1>4. \A c \in Callers : root[c].at = "idle" /\ RootTrue(root[c])
  BY <1>1 DEF NextFrame, NoToken, NodesTrue
<1>5. ASSUME NEW q \in Queries
      PROVE  Owed(node, root, q)' /\ Once(node[q])'
  <2>1. /\ node[q].values = <<>> /\ node[q].checks = <<>>
        /\ Owed(node, root, q) /\ Once(node[q])
    BY <1>1, <1>3 DEF NodesTrue
  <2> QED
    BY <1>2, <2>1 DEF Owed, OwedValue, OwedCheck, Once, CallsAt, ChecksAt, Same
<1>6. \A c \in Callers : RootTrue(root[c])'
  BY <1>2, <1>4 DEF RootTrue
<1>7. \A q \in Queries : NodeTrue(q, node[q])'
  BY <1>2, <1>3
<1> QED
  BY <1>1, <1>2, <1>5, <1>6, <1>7 DEF NodesTrue

-----------------------------------------------------------------------------
(* The invariant.                                                            *)

LEMMA QueryInvStarts == QueryInit => QueryInv
<1> SUFFICES ASSUME QueryInit PROVE QueryInv
  OBVIOUS
<1>1. WorldTrue
  <2>1. /\ frame = 0 /\ snapshot = <<>> /\ log = [f \in Frames |-> [i \in Inputs |-> InitialValue]]
        /\ input = [i \in Inputs |-> [value |-> InitialValue, since |-> 0, instant |-> 0]]
    BY DEF QueryInit
  <2>2. InitialValue \in Values /\ 0 \in Frames /\ 0 \in 0 .. Instants - 1
    BY QueryAssumption DEF Frames
  <2>3. log \in [Frames -> Worlds]
    BY <2>1, <2>2 DEF Worlds
  <2>4. input \in [Inputs -> [value : Values, since : Nat, instant : 0 .. Instants - 1]]
    BY <2>1, <2>2
  <2> QED
    BY <2>1, <2>2, <2>3, <2>4 DEF WorldTrue, InstantIn
<1>2. \A q : NodeTrue(q, Absent)
  BY DEF Absent, NodeTrue, IsNode, IsCache, NoCache, NoJob, Job, Requesters
<1>3. Once(Absent) /\ CallsAt(Absent) = {} /\ ChecksAt(Absent) = {}
  BY DEF Absent, Once, CallsAt, ChecksAt, NoJob
<1>4. RootTrue(NotAsking)
  BY DEF NotAsking, RootTrue
<1>5. node = [q \in Queries |-> Absent] /\ root = [c \in Callers |-> NotAsking]
  BY DEF QueryInit
<1>6. NodesTrue(node, root)
  BY <1>2, <1>3, <1>4, <1>5 DEF NodesTrue, Owed
<1> QED
  BY <1>1, <1>6 DEF QueryInv

LEMMA QueryInvKept == QueryInv /\ [QueryNext]_queryVars => QueryInv'
<1> SUFFICES ASSUME QueryInv, [QueryNext]_queryVars PROVE QueryInv'
  OBVIOUS
<1>1. WorldTrue /\ NodesTrue(node, root)
  BY DEF QueryInv
<1>2. ASSUME NodesTrue(node', root'), UNCHANGED world, known \subseteq known'
      PROVE  QueryInv'
  BY <1>1, <1>2, NodesMoveOn, WorldMovesOn DEF QueryInv, world
<1>3. CASE \E q \in Queries : NodeStep(q)
  BY <1>2, <1>3, StepNode
<1>4. CASE \E c \in Callers : \E q \in Called : Ask(c, q)
  BY <1>2, <1>4, StepAsk DEF Ask
<1>5. CASE \E c \in Callers : Leave(c)
  BY <1>2, <1>5, StepLeave DEF Leave
<1>6. CASE NextFrame
  BY <1>1, <1>6, WorldGrows, StepNextFrame DEF QueryInv
<1>7. CASE UNCHANGED queryVars
  BY <1>1, <1>2, <1>7 DEF queryVars, world
<1> QED
  BY <1>3, <1>4, <1>5, <1>6, <1>7 DEF QueryNext

LEMMA QueryInvHolds == QuerySpec => []QueryInv
  BY QueryInvStarts, QueryInvKept, PTL DEF QuerySpec

-----------------------------------------------------------------------------
(* Whatever was cached, extended and skipped before, a caller gets what      *)
(* evaluating the query from nothing on the inputs of its frame gives.       *)
THEOREM AnswersFresh == QuerySpec => []AnswersAreFresh
<1>1. QueryInv => AnswersAreFresh
  BY DEF QueryInv, NodesTrue, RootTrue, AnswersAreFresh
<1> QED
  BY <1>1, QueryInvHolds, PTL

LEMMA CachesTrue ==
    ASSUME QueryInv, NEW q \in Queries, HasCache(q)
    PROVE  WorldTrue /\ CacheTrue(q, node[q].cache)
  BY DEF QueryInv, NodesTrue, NodeTrue, HasCache

(* In every frame of a valid range, which is never empty and never reaches   *)
(* into the future, the query had the cached value, also in frames in which  *)
(* nobody asked for it.                                                      *)
THEOREM RangesTrue == QuerySpec => []RangeIsTrue
<1>1. ASSUME QueryInv PROVE RangeIsTrue
  <2> SUFFICES ASSUME NEW q \in Queries, HasCache(q)
               PROVE  LET range == node[q].cache.from .. node[q].cache.until
                      IN  /\ range # {} /\ range \subseteq 0 .. frame
                          /\ \A f \in range : Meaning(q, f) = node[q].cache.value
    BY DEF RangeIsTrue
  <2>1. WorldTrue /\ CacheTrue(q, node[q].cache)
    BY <1>1, CachesTrue
  <2>2. frame \in Nat
    BY <2>1, FrameNat
  <2> PICK c : c = node[q].cache
    OBVIOUS
  <2>3. /\ c.from \in Nat /\ c.until \in Nat /\ c.from <= c.until /\ c.until <= frame
        /\ \A f \in c.from .. c.until : Meaning(q, f) = c.value
    BY <2>1 DEF CacheTrue
  <2>4. c.from \in c.from .. c.until /\ c.from .. c.until \subseteq 0 .. frame
    BY <2>2, <2>3
  <2> QED
    BY <2>3, <2>4
<1> QED
  BY <1>1, QueryInvHolds, PTL

(* An input selection has exactly the inputs an evaluation from nothing      *)
(* would read in the last frame the cache is known valid for, although it    *)
(* was put together from reports of different frames.                        *)
THEOREM SelectionsExact == QuerySpec => []SelectionIsExact
<1>1. ASSUME QueryInv PROVE SelectionIsExact
  BY <1>1, CachesTrue, CachePins DEF SelectionIsExact
<1> QED
  BY <1>1, QueryInvHolds, PTL

-----------------------------------------------------------------------------
(* Which steps touch a cache.                                                *)

Cached(ns) == DOMAIN ns = Queries /\ \A q \in Queries : "cache" \in DOMAIN ns[q]

KeepCaches(ns, ms) == Cached(ms) /\ \A q \in Queries : ms[q].cache = ns[q].cache

LEMMA NodesCached == ASSUME NEW ns, NEW rs, NodesTrue(ns, rs) PROVE Cached(ns)
<1>1. \A q \in Queries : "cache" \in DOMAIN ns[q]
  BY DEF NodesTrue, NodeTrue, IsNode
<1> QED
  BY <1>1 DEF NodesTrue, Cached

LEMMA BlankCached ==
    ASSUME NEW n, NEW at, "cache" \in DOMAIN n
    PROVE  "cache" \in DOMAIN Blank(n, at) /\ Blank(n, at).cache = n.cache
  BY DEF Blank

LEMMA OneKeeps ==
    ASSUME NEW ns, Cached(ns), NEW q \in Queries, NEW m, "cache" \in DOMAIN m,
           m.cache = ns[q].cache
    PROVE  KeepCaches(ns, [ns EXCEPT ![q] = m])
  BY DEF Cached, KeepCaches

LEMMA ForgetKeeps ==
    ASSUME NEW ns, Cached(ns), NEW who
    PROVE  KeepCaches(ns, Forget(ns, who))
  BY DEF Cached, KeepCaches, Forget

LEMMA TakeValueKeeps ==
    ASSUME NEW ns, Cached(ns), NEW q \in Queries,
           NEW slot, NEW from, NEW value, NEW since, NEW selection
    PROVE  KeepCaches(ns, TakeValue(ns, q, slot, from, value, since, selection))
<1> PICK m : m = Taken(q, ns[q], slot, from, value, since, selection)
  OBVIOUS
<1>1. "cache" \in DOMAIN m /\ m.cache = ns[q].cache
  BY DEF Cached, Taken
<1> QED
  BY <1>1, OneKeeps, TakeValueIs

LEMMA TakeVerdictKeeps ==
    ASSUME NEW ns, Cached(ns), NEW q \in Queries, NEW slot, NEW verdict
    PROVE  KeepCaches(ns, TakeVerdict(ns, q, slot, verdict))
<1>1. CASE verdict.valid
  BY <1>1 DEF Cached, KeepCaches, TakeVerdict
<1>2. CASE ~verdict.valid
  <2> PICK ms : ms = [ns EXCEPT ![q] = Blank(@, "evaluating")]
    OBVIOUS
  <2>1. KeepCaches(ns, ms)
    BY OneKeeps, BlankCached DEF Cached
  <2>2. Cached(ms)
    BY <2>1 DEF KeepCaches
  <2>3. KeepCaches(ms, Forget(ms, q))
    BY <2>2, ForgetKeeps
  <2> QED
    BY <1>2, <2>1, <2>3 DEF KeepCaches, TakeVerdict
<1> QED
  BY <1>1, <1>2

LEMMA SendKeeps ==
    ASSUME NEW ns, Cached(ns), NEW q \in Queries, NEW by, NEW slot
    PROVE  KeepCaches(ns, SendValueRequest(ns, q, by, slot))
<1> PICK found : found = IF ns[q].at = "absent"
                            THEN Blank([ns[q] EXCEPT !.job = NoJob], "evaluating") ELSE ns[q]
  OBVIOUS
<1>1. "cache" \in DOMAIN found /\ found.cache = ns[q].cache
  BY BlankCached DEF Cached
<1> PICK m : m = [found EXCEPT !.values = Append(@, [by |-> by, slot |-> slot])]
  OBVIOUS
<1>2. "cache" \in DOMAIN m /\ m.cache = ns[q].cache
  BY <1>1
<1>3. KeepCaches(ns, [ns EXCEPT ![q] = m])
  BY <1>2, OneKeeps
<1>4. SendValueRequest(ns, q, by, slot) = [ns EXCEPT ![q] = m]
  BY DEF SendValueRequest
<1> QED
  BY <1>3, <1>4

LEMMA CompleteKeeps ==
    ASSUME NEW ns, Cached(ns), NEW q \in Queries, NEW new, Complete(ns, q, new)
    PROVE  /\ node'[q].cache = new
           /\ \A p \in Queries \ {q} : node'[p].cache = ns[p].cache
<1> PICK m, job : /\ m = [Blank(ns[q], "idle") EXCEPT !.cache = new, !.job = NoJob]
                  /\ job = ns[q].job
  OBVIOUS
<1> PICK ms : ms = [ns EXCEPT ![q] = m]
  OBVIOUS
<1>1. "cache" \in DOMAIN m /\ m.cache = new
  BY BlankCached DEF Cached
<1>2. Cached(ms) /\ ms[q].cache = new /\ \A p \in Queries \ {q} : ms[p] = ns[p]
  BY <1>1 DEF Cached
<1>3. node' = IF job.by \notin Queries THEN ms
              ELSE IF job.kind = "value"
                 THEN TakeValue(ms, job.by, job.slot, q, new.value, new.from, new.selection)
                 ELSE TakeVerdict(ms, job.by, job.slot, Verdict(ns[q].cache, new, job.past))
  BY DEF Complete
<1>4. KeepCaches(ms, node')
  <2>1. KeepCaches(ms, ms)
    BY <1>2 DEF KeepCaches
  <2> QED
    BY <1>2, <1>3, <2>1, TakeValueKeeps, TakeVerdictKeeps
<1> QED
  BY <1>2, <1>4 DEF KeepCaches
(* What a cache that is extended without an evaluation rests on.             *)
EdgesKept(c) == \A k \in DOMAIN c.deps : Meaning(c.deps[k], c.until) = Meaning(c.deps[k], frame)

Kept(q) ==
    node[q].at \in {"idle", "checking"} /\ node'[q].cache.until # node[q].cache.until
        => EdgesKept(node[q].cache)

LEMMA KeepsKept ==
    ASSUME NEW ns, KeepCaches(node, ns), KeepCaches(ns, node'), NEW q \in Queries
    PROVE  Kept(q)
  BY DEF KeepCaches, Kept

LEMMA RefreshKept ==
    ASSUME WorldTrue, NEW ns, KeepCaches(node, ns), NEW p \in Queries,
           CacheTrue(p, node[p].cache), IsCache(node[p].cache), Refresh(ns, p),
           NEW q \in Queries
    PROVE  Kept(q)
<1> PICK c : c = ns[p].cache
  OBVIOUS
<1>1. Cached(ns) /\ c = node[p].cache /\ CacheTrue(p, c) /\ IsCache(c)
      /\ ns[q].cache = node[q].cache
  BY DEF KeepCaches
<1>2. CASE c.until = frame
  <2>1. Complete(ns, p, c)
    BY <1>2 DEF Refresh
  <2>2. node'[p].cache = c /\ \A r \in Queries \ {p} : node'[r].cache = ns[r].cache
    BY <1>1, <2>1, CompleteKeeps
  <2> QED
    BY <1>1, <2>2 DEF Kept
<1>3. CASE c.until # frame /\ InputsUnchanged(c)
  <2>1. Complete(ns, p, [c EXCEPT !.until = frame, !.snapshot = snapshot])
    BY <1>3 DEF Refresh
  <2>2. \A r \in Queries \ {p} : node'[r].cache = ns[r].cache
    BY <1>1, <2>1, CompleteKeeps
  <2>3. EdgesKept(c)
    BY <1>1, <1>3, EdgesUnmoved DEF EdgesKept
  <2> QED
    BY <1>1, <2>2, <2>3 DEF Kept
<1>4. CASE c.until # frame /\ ~InputsUnchanged(c)
  <2>1. node' = [ns EXCEPT ![p] = Blank(ns[p], "checking")]
    BY <1>4 DEF Refresh
  <2>2. KeepCaches(ns, [ns EXCEPT ![p] = Blank(ns[p], "checking")])
    BY <1>1, BlankCached, OneKeeps DEF Cached
  <2> QED
    BY <2>1, <2>2, KeepsKept
<1> QED
  BY <1>2, <1>3, <1>4

LEMMA ServeKept ==
    ASSUME QueryInv, NEW p \in Queries, ServeValue(p) \/ ServeCheck(p), NEW q \in Queries
    PROVE  Kept(q)
<1>1. WorldTrue /\ Cached(node) /\ NodeTrue(p, node[p])
  BY NodesCached DEF QueryInv, NodesTrue
<1>2. node[p].at = "idle"
  BY DEF ServeValue, ServeCheck
<1>3. CacheTrue(p, node[p].cache) /\ IsCache(node[p].cache)
  BY <1>1, <1>2 DEF NodeTrue, IsNode
<1>4. CASE ServeValue(p)
  <2> PICK m : m = ServingCall(node[p])
    OBVIOUS
  <2>1. "cache" \in DOMAIN m /\ m.cache = node[p].cache
    BY <1>1 DEF ServingCall, Cached
  <2>2. KeepCaches(node, [node EXCEPT ![p] = m])
    BY <1>1, <2>1, OneKeeps
  <2>3. Refresh([node EXCEPT ![p] = m], p)
    BY <1>4 DEF ServeValue, ServingCall, CallJob
  <2> QED
    BY <1>1, <1>3, <2>2, <2>3, RefreshKept
<1>5. CASE ServeCheck(p)
  <2> PICK m : m = ServingCheck(node[p])
    OBVIOUS
  <2>1. "cache" \in DOMAIN m /\ m.cache = node[p].cache
    BY <1>1 DEF ServingCheck, Cached
  <2>2. KeepCaches(node, [node EXCEPT ![p] = m])
    BY <1>1, <2>1, OneKeeps
  <2>3. Refresh([node EXCEPT ![p] = m], p)
    BY <1>5 DEF ServeCheck, ServingCheck, CheckJob
  <2> QED
    BY <1>1, <1>3, <2>2, <2>3, RefreshKept
<1> QED
  BY <1>4, <1>5
LEMMA SameCachesKept ==
    ASSUME KeepCaches(node, node'), NEW q \in Queries
    PROVE  Kept(q)
  BY DEF KeepCaches, Kept

LEMMA SendCheckKept ==
    ASSUME QueryInv, NEW p \in Queries, SendCheck(p), NEW q \in Queries
    PROVE  Kept(q)
<1>1. Cached(node)
  BY NodesCached DEF QueryInv
<1> PICK sent : sent = [node EXCEPT ![p].sent = node[p].sent + 1,
                                    ![p].awaits = @ \cup {node[p].sent + 1}]
  OBVIOUS
<1>2. PICK d, r : node' = sent \/ node' = [sent EXCEPT ![d].checks = Append(@, r)]
  BY DEF SendCheck
<1>3. KeepCaches(node, sent)
  BY <1>1 DEF KeepCaches, Cached
<1>4. KeepCaches(sent, [sent EXCEPT ![d].checks = Append(@, r)])
  BY <1>3 DEF KeepCaches, Cached
<1> QED
  BY <1>2, <1>3, <1>4, SameCachesKept DEF KeepCaches

LEMMA FinishCheckKept ==
    ASSUME QueryInv, NEW p \in Queries, FinishCheck(p), NEW q \in Queries
    PROVE  Kept(q)
<1> PICK n, c : n = node[p] /\ c = n.cache
  OBVIOUS
<1>1. Cached(node) /\ NodeTrue(p, n)
  BY NodesCached DEF QueryInv, NodesTrue
<1>2. n.at = "checking" /\ n.sent = Len(c.deps) /\ n.awaits = {}
  BY DEF FinishCheck
<1>3. PICK new : Complete(node, p, new)
  BY DEF FinishCheck
<1>4. \A r \in Queries \ {p} : node'[r].cache = node[r].cache
  BY <1>1, <1>3, CompleteKeeps
<1>5. EdgesKept(c)
  <2>1. CheckingTrue(n) /\ CacheTrue(p, c)
    BY <1>1, <1>2 DEF NodeTrue
  <2>2. DOMAIN c.deps = 1 .. Len(c.deps)
    BY <2>1 DEF CacheTrue
  <2> QED
    BY <1>2, <2>1, <2>2 DEF CheckingTrue, EdgesKept
<1> QED
  BY <1>4, <1>5 DEF Kept

LEMMA FinishEvaluationKept ==
    ASSUME QueryInv, NEW p \in Queries, FinishEvaluation(p), NEW q \in Queries
    PROVE  Kept(q)
<1>1. Cached(node)
  BY NodesCached DEF QueryInv
<1>2. node[p].at = "evaluating"
  BY DEF FinishEvaluation
<1>3. PICK new : Complete(node, p, new)
  BY DEF FinishEvaluation
<1>4. \A r \in Queries \ {p} : node'[r].cache = node[r].cache
  BY <1>1, <1>3, CompleteKeeps
<1> QED
  BY <1>2, <1>4 DEF Kept

LEMMA CallQueryKept ==
    ASSUME QueryInv, NEW p \in Queries, CallQuery(p), NEW q \in Queries
    PROVE  Kept(q)
<1>1. Cached(node)
  BY NodesCached DEF QueryInv
<1>2. PICK slot, d : /\ d \in Queries
                     /\ node' = SendValueRequest([node EXCEPT ![p].awaits = @ \cup {slot}], d, p, slot)
  BY DEF CallQuery
<1> PICK ns : ns = [node EXCEPT ![p].awaits = @ \cup {slot}]
  OBVIOUS
<1>3. KeepCaches(node, ns) /\ Cached(ns)
  BY <1>1 DEF KeepCaches, Cached
<1>4. KeepCaches(ns, node')
  BY <1>2, <1>3, SendKeeps
<1> QED
  BY <1>3, <1>4, KeepsKept

LEMMA NodeStepKept ==
    ASSUME QueryInv, NEW p \in Queries, NodeStep(p), NEW q \in Queries
    PROVE  Kept(q)
<1>1. Cached(node)
  BY NodesCached DEF QueryInv
<1>2. CASE InputVerdict(p)
  <2>1. PICK slot, verdict : node' = TakeVerdict(node, p, slot, verdict)
    BY <1>2 DEF InputVerdict
  <2> QED
    BY <1>1, <2>1, TakeVerdictKeeps, SameCachesKept
<1>3. CASE ReadInput(p)
  <2>1. PICK slot, from, value, since, selection :
            node' = TakeValue(node, p, slot, from, value, since, selection)
    BY <1>3 DEF ReadInput
  <2> QED
    BY <1>1, <2>1, TakeValueKeeps, SameCachesKept
<1> QED
  BY <1>2, <1>3, ServeKept, SendCheckKept, FinishCheckKept, CallQueryKept, FinishEvaluationKept
     DEF NodeStep

(* A node keeps its value without evaluating only if nothing it read directly*)
(* changed since its cache was last valid: no verdict, shortcut or extension *)
(* hides a change.                                                           *)
THEOREM KeptIfUnchanged == QuerySpec => KeptOnlyIfUnchanged
<1>1. ASSUME QueryInv, [QueryNext]_queryVars, NEW q \in Queries
      PROVE  Kept(q)
  <2>1. Cached(node)
    BY <1>1, NodesCached DEF QueryInv
  <2>2. CASE \E p \in Queries : NodeStep(p)
    BY <1>1, <2>2, NodeStepKept
  <2>3. CASE \E c \in Callers : \E d \in Called : Ask(c, d)
    <3>1. PICK d, c : d \in Called /\ node' = SendValueRequest(node, d, c, 1)
      BY <2>3 DEF Ask
    <3> QED
      BY <2>1, <3>1, SendKeeps, SameCachesKept, QueryAssumption
  <2>4. CASE node' = node
    BY <2>4 DEF Kept
  <2> QED
    BY <1>1, <2>2, <2>3, <2>4 DEF QueryNext, Leave, NextFrame, queryVars
<1>2. ASSUME QueryInv, NEW q \in Queries, Kept(q)
      PROVE  /\ node[q].at \in {"idle", "checking"}
             /\ node'[q].cache.until # node[q].cache.until
             => ~Changed(q)
  BY <1>2 DEF Kept, EdgesKept, Changed, Edges
<1>3. QueryInv /\ [QueryNext]_queryVars =>
          [\A q \in Queries :
              /\ node[q].at \in {"idle", "checking"}
              /\ node'[q].cache.until # node[q].cache.until
              => ~Changed(q)]_queryVars
  BY <1>1, <1>2
<1> QED
  BY <1>3, QueryInvHolds, PTL DEF QuerySpec, KeptOnlyIfUnchanged
=============================================================================
