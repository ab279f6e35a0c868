------------------------------ MODULE LifeProofs ------------------------------
(* Theorems about NodeLife, for every program of queries, whatever panics    *)
(* and whenever the runtime is dropped: values stay right, no wait is in     *)
(* vain, deaths have reasons, and without panics nobody fails.               *)
EXTENDS LifeMeaning, QueryProofs

LEMMA CallersDiffer ==
    /\ \A q \in Queries : q # Gone /\ q \notin Callers /\ q \notin Inputs
    /\ \A c \in Callers : c # Gone /\ c \notin Queries
  BY QueryAssumption DEF Gone

-----------------------------------------------------------------------------
(* The steps that NodeLife adds keep what QueryProofs says of the nodes.     *)

LEMMA AbsentTrue ==
    /\ \A q : NodeTrue(q, Absent)
    /\ Once(Absent) /\ CallsAt(Absent) = {} /\ ChecksAt(Absent) = {}
<1>1. \A q : NodeTrue(q, Absent)
  BY DEF Absent, NodeTrue, IsNode, IsCache, NoCache, NoJob, Job, Requesters
<1>2. Once(Absent) /\ CallsAt(Absent) = {} /\ ChecksAt(Absent) = {}
  BY DEF Absent, Once, CallsAt, ChecksAt, NoJob
<1> QED
  BY <1>1, <1>2

LEMMA DeadTrue ==
    ASSUME NEW ns, NEW rs, NodesTrue(ns, rs), NEW q \in Queries
    PROVE  NodesTrue(Forget([ns EXCEPT ![q] = Absent], q), rs)
<1> PICK ms : ms = [ns EXCEPT ![q] = Absent]
  OBVIOUS
<1>1. ms = [p \in Queries |-> ms[p]] /\ ms[q] = Absent /\ \A p \in Queries \ {q} : ms[p] = ns[p]
  BY DEF NodesTrue
<1>2. \A p \in Queries : NodeTrue(p, ns[p]) /\ Once(ns[p])
  BY DEF NodesTrue
<1>3. \A p \in Queries \ {q} : SameWork(ns[p], ms[p])
  BY <1>1 DEF SameWork
<1>4. AllButOne(ns, ms, q)
  <2>1. ASSUME NEW p \in Queries
        PROVE  /\ NodeTrue(p, ms[p]) /\ Once(ms[p])
               /\ CallsAt(ms[p]) \subseteq CallsAt(ns[p])
               /\ ChecksAt(ms[p]) \subseteq ChecksAt(ns[p])
    <3>1. CASE p = q
      BY <1>1, <3>1, AbsentTrue
    <3>2. CASE p # q
      BY <1>1, <1>2, <3>2
    <3> QED
      BY <3>1, <3>2
  <2> QED
    BY <1>1, <1>3, <2>1 DEF AllButOne
<1>5. q # Gone /\ rs = [c \in Callers |-> rs[c]] /\ \A c \in Callers : RootTrue(rs[c])
  BY CallersDiffer DEF NodesTrue
<1> QED
  BY <1>4, <1>5, GivenUp

LEMMA AbandonTrue ==
    ASSUME NEW ns, NEW rs, NodesTrue(ns, rs), NEW c \in Callers
    PROVE  NodesTrue(Forget(ns, c), [rs EXCEPT ![c] = NotAsking])
<1> PICK qs : qs = [rs EXCEPT ![c] = NotAsking]
  OBVIOUS
<1>1. /\ qs = [a \in Callers |-> qs[a]]
      /\ \A a \in Callers : RootTrue(qs[a]) /\ (a # c => qs[a] = rs[a])
  <2>1. RootTrue(NotAsking)
    BY DEF NotAsking, RootTrue
  <2> QED
    BY <2>1 DEF NodesTrue
<1>2. AllButOne(ns, ns, c)
  <2>1. \A p \in Queries : SameWork(ns[p], ns[p])
    BY DEF SameWork
  <2> QED
    BY <2>1 DEF AllButOne, NodesTrue
<1> QED
  BY <1>1, <1>2, CallersDiffer, GivenUp

LEMMA FailedTrue ==
    ASSUME NEW ns, NEW rs, NodesTrue(ns, rs), NEW c \in Callers, NEW q,
           rs[c].at # "waiting" \/ NoRequest(ns, c, 1)
    PROVE  NodesTrue(ns, [rs EXCEPT ![c] = [NotAsking EXCEPT !.at = "failed", !.query = q]])
<1>1. RootTrue([NotAsking EXCEPT !.at = "failed", !.query = q])
  BY DEF NotAsking, RootTrue
<1> QED
  BY <1>1, OneRoot

(* Nobody has a request of a caller whose query is at a node without any.    *)
LEMMA CallerUnasked ==
    ASSUME NEW ns, NEW rs, NodesTrue(ns, rs), NEW c \in Callers,
           rs[c].at = "waiting" => rs[c].query \in Queries /\ ns[rs[c].query] = Absent
    PROVE  NoRequest(ns, c, 1)
<1> SUFFICES ASSUME NEW d \in Queries, NEW r \in CallsAt(ns[d]) \cup ChecksAt(ns[d]),
                    r.by = c, r.slot = 1
             PROVE  FALSE
  BY DEF NoRequest
<1>1. OwedValue(ns, rs, d, r) \/ OwedCheck(ns, d, r)
  BY DEF NodesTrue, Owed
<1>2. rs[c].at = "waiting" /\ rs[c].query = d
  BY <1>1, CallersDiffer DEF OwedValue, OwedCheck
<1> QED
  BY <1>2, AbsentTrue
-----------------------------------------------------------------------------
(* Waits and requests.                                                       *)

HasCall(n, by, slot)  == \E r \in CallsAt(n) : r.by = by /\ r.slot = slot
HasCheck(n, by, slot) == \E r \in ChecksAt(n) : r.by = by /\ r.slot = slot

(* by awaits the value of d, or its verdict, for a slot.                     *)
AwaitsValue(ns, rs, d, by, slot) ==
    \/ by \in Callers /\ slot = 1 /\ rs[by].at = "waiting" /\ rs[by].query = d
    \/ /\ by \in Queries /\ ns[by].at = "evaluating"
       /\ slot \in ns[by].awaits /\ NextReads(by, ns[by].seen)[slot] = d

AwaitsVerdict(ns, d, by, slot) ==
    /\ by \in Queries /\ ns[by].at = "checking"
    /\ slot \in ns[by].awaits /\ ns[by].cache.deps[slot] = d

(* Every wait for a node outside D has its request there, but those in X.    *)
MetBut(ns, rs, D, X) ==
    \A d \in Queries \ D : \A by, slot :
        \/ <<by, slot>> \in X
        \/ /\ AwaitsValue(ns, rs, d, by, slot) => HasCall(ns[d], by, slot)
           /\ AwaitsVerdict(ns, d, by, slot) => HasCheck(ns[d], by, slot)

WaitOf(by, slot) == {<<by, slot>>}

(* A cached value is one that an evaluation returned; a node at rest awaits  *)
(* nothing, and serves nothing.                                              *)
NodeSound(n) ==
    /\ n.at = "idle" \/ n.job.kind # "spawn" => n.cache.value # Panicked
    /\ n.at \in {"absent", "idle"} => n.awaits = {}
    /\ n.at = "idle" => n.job.kind = "spawn"

(* The nodes of D ended, those of E are not there, and all is as it should   *)
(* be but at node q, and but for the waits in X.                             *)
LifeBut(ns, rs, D, E, q, X) ==
    /\ D \subseteq Queries /\ E \subseteq Queries
    /\ \A p \in D : ns[p] = Absent
    /\ \A p \in E : ns[p].at = "absent"
    /\ \A p \in Queries \ {q} : NodeSound(ns[p])
    /\ \A c \in Callers : rs[c].at = "answered" => rs[c].value # Panicked
    /\ MetBut(ns, rs, D, X)

LifeTrue(ns, rs, D, E) ==
    /\ \A q \in Queries : NodeSound(ns[q])
    /\ \A q : LifeBut(ns, rs, D, E, q, {})

(* What of its requests a node keeps as it goes from n to m, but those in X; *)
(* and that it awaits nothing new.                                           *)
KeepsMail(n, m, X) ==
    \A by, slot :
        \/ <<by, slot>> \in X
        \/ /\ HasCall(n, by, slot) => HasCall(m, by, slot)
           /\ HasCheck(n, by, slot) => HasCheck(m, by, slot)

AwaitsNoMore(p, n, m, X) ==
    m.at \in {"evaluating", "checking"} =>
        \A slot \in m.awaits :
            \/ <<p, slot>> \in X
            \/ slot \in n.awaits /\ m.at = n.at /\ m.seen = n.seen /\ m.cache = n.cache

LEMMA OneMet ==
    ASSUME NEW ns, NEW rs, NEW D, NEW X, MetBut(ns, rs, D, X),
           NEW p \in Queries, NEW m, NEW ms, ms[p] = m,
           \A d \in Queries \ {p} : ms[d] = ns[d],
           NEW Y, X = {} \/ X = Y, KeepsMail(ns[p], m, Y), AwaitsNoMore(p, ns[p], m, Y)
    PROVE  MetBut(ms, rs, D, Y)
<1> SUFFICES ASSUME NEW d \in Queries \ D, NEW by, NEW slot, <<by, slot>> \notin Y
             PROVE  /\ AwaitsValue(ms, rs, d, by, slot) => HasCall(ms[d], by, slot)
                    /\ AwaitsVerdict(ms, d, by, slot) => HasCheck(ms[d], by, slot)
  BY DEF MetBut
<1>1. /\ AwaitsValue(ns, rs, d, by, slot) => HasCall(ns[d], by, slot)
      /\ AwaitsVerdict(ns, d, by, slot) => HasCheck(ns[d], by, slot)
  BY DEF MetBut
<1>2. /\ HasCall(ns[d], by, slot) => HasCall(ms[d], by, slot)
      /\ HasCheck(ns[d], by, slot) => HasCheck(ms[d], by, slot)
  <2>1. CASE d = p
    BY <2>1 DEF KeepsMail
  <2>2. CASE d # p
    BY <2>2
  <2> QED
    BY <2>1, <2>2
<1>3. AwaitsValue(ms, rs, d, by, slot) => AwaitsValue(ns, rs, d, by, slot)
  BY DEF AwaitsValue, AwaitsNoMore
<1>4. AwaitsVerdict(ms, d, by, slot) => AwaitsVerdict(ns, d, by, slot)
  BY DEF AwaitsVerdict, AwaitsNoMore
<1> QED
  BY <1>1, <1>2, <1>3, <1>4

(* One node changes.                                                         *)
LEMMA OneLives ==
    ASSUME NEW ns, ns = [p \in Queries |-> ns[p]], NEW rs, NEW D, NEW E, NEW q, NEW X,
           LifeBut(ns, rs, D, E, q, X),
           NEW p \in Queries \ D, NEW m, p = q \/ NodeSound(m), p \in E => m.at = "absent",
           NEW Y, X = {} \/ X = Y, KeepsMail(ns[p], m, Y), AwaitsNoMore(p, ns[p], m, Y),
           NEW ms, ms = [ns EXCEPT ![p] = m]
    PROVE  LifeBut(ms, rs, D, E, q, Y)
<1>1. ms[p] = m /\ \A d \in Queries \ {p} : ms[d] = ns[d]
  OBVIOUS
<1>2. MetBut(ms, rs, D, Y)
  BY <1>1, OneMet DEF LifeBut
<1>3. \A d : d # p => ms[d] = ns[d]
  OBVIOUS
<1> QED
  BY <1>1, <1>2, <1>3 DEF LifeBut

(* A caller changes.                                                         *)
LEMMA OneCallerLives ==
    ASSUME NEW ns, NEW rs, NEW os, NodesTrue(os, rs), NEW D, NEW E, NEW q, NEW X,
           LifeBut(ns, rs, D, E, q, X),
           NEW c \in Callers, NEW r, r.at = "answered" => r.value # Panicked,
           NEW Y, X = {} \/ X = Y, r.at = "waiting" => <<c, 1>> \in Y,
           NEW qs, qs = [rs EXCEPT ![c] = r]
    PROVE  LifeBut(ns, qs, D, E, q, Y)
<1>1. qs[c] = r /\ \A a \in Callers \ {c} : qs[a] = rs[a]
  BY DEF NodesTrue
<1>2. MetBut(ns, qs, D, Y)
  <2> SUFFICES ASSUME NEW d \in Queries \ D, NEW by, NEW slot, <<by, slot>> \notin Y
               PROVE  /\ AwaitsValue(ns, qs, d, by, slot) => HasCall(ns[d], by, slot)
                      /\ AwaitsVerdict(ns, d, by, slot) => HasCheck(ns[d], by, slot)
    BY DEF MetBut
  <2>1. /\ AwaitsValue(ns, rs, d, by, slot) => HasCall(ns[d], by, slot)
        /\ AwaitsVerdict(ns, d, by, slot) => HasCheck(ns[d], by, slot)
    BY DEF LifeBut, MetBut
  <2>2. AwaitsValue(ns, qs, d, by, slot) => AwaitsValue(ns, rs, d, by, slot)
    BY <1>1 DEF AwaitsValue
  <2> QED
    BY <2>1, <2>2
<1> QED
  BY <1>1, <1>2 DEF LifeBut

(* The exception is none any more: nobody awaits it, or the request is there.*)
LEMMA Discharged ==
    ASSUME NEW ns, NEW rs, NEW D, NEW E, NEW q, NEW by, NEW slot,
           LifeBut(ns, rs, D, E, q, WaitOf(by, slot)),
           \A d \in Queries \ D : /\ AwaitsValue(ns, rs, d, by, slot) => HasCall(ns[d], by, slot)
                                  /\ AwaitsVerdict(ns, d, by, slot) => HasCheck(ns[d], by, slot)
    PROVE  LifeBut(ns, rs, D, E, q, {})
<1>1. \A a, s : <<a, s>> \in WaitOf(by, slot) => a = by /\ s = slot
  BY DEF WaitOf
<1>2. MetBut(ns, rs, D, {})
  <2> SUFFICES ASSUME NEW d \in Queries \ D, NEW a, NEW s
               PROVE  /\ AwaitsValue(ns, rs, d, a, s) => HasCall(ns[d], a, s)
                      /\ AwaitsVerdict(ns, d, a, s) => HasCheck(ns[d], a, s)
    BY DEF MetBut
  <2>1. CASE <<a, s>> \notin WaitOf(by, slot)
    BY <2>1 DEF LifeBut, MetBut
  <2>2. CASE <<a, s>> \in WaitOf(by, slot)
    BY <1>1, <2>2
  <2> QED
    BY <2>1, <2>2
<1> QED
  BY <1>2 DEF LifeBut

(* All is as it should be at q, too.                                         *)
LEMMA AllLive ==
    ASSUME NEW ns, NEW rs, NEW D, NEW E, NEW q, LifeBut(ns, rs, D, E, q, {}),
           q \in Queries => NodeSound(ns[q])
    PROVE  LifeTrue(ns, rs, D, E)
  BY DEF LifeBut, LifeTrue

-----------------------------------------------------------------------------
(* Replies come in, and replies are given up.                                *)

LEMMA LivesNotDead ==
    ASSUME NEW ns, NEW rs, NEW D, NEW E, NEW q, NEW X, LifeBut(ns, rs, D, E, q, X),
           NEW p, ns[p].at # "absent"
    PROVE  p \notin D /\ p \notin E
<1>1. Absent.at = "absent"
  BY DEF Absent
<1> QED
  BY <1>1 DEF LifeBut

LEMMA TakenKeeps ==
    ASSUME NEW p, NEW n, NodeTrue(p, n), n.at = "evaluating", NEW slot, NEW d, NEW value,
           NEW since, NEW selection, NEW m, m = Taken(p, n, slot, d, value, since, selection)
    PROVE  AfterReply(n, m, slot)
<1> PICK got : got = GotWith(n, slot, value)
  OBVIOUS
<1> PICK newGot, newSeen :
        IF DOMAIN got = DOMAIN NextReads(p, n.seen)
           THEN newGot = <<>> /\ newSeen = n.seen \o got
           ELSE newGot = got /\ newSeen = n.seen
  OBVIOUS
<1>1. m = [n EXCEPT !.awaits = @ \ {slot}, !.got = newGot, !.seen = newSeen,
                    !.deps = Append(@, d), !.since = Later(@, since),
                    !.selection = @ \cup selection]
  BY DEF Taken
<1>2. IsNode(n) /\ n.awaits \subseteq DOMAIN NextReads(p, n.seen) \ DOMAIN n.got
  BY DEF NodeTrue, EvaluatingTrue
<1>3. /\ m.at = n.at /\ m.cache = n.cache /\ m.job = n.job
      /\ m.values = n.values /\ m.checks = n.checks
      /\ m.awaits = n.awaits \ {slot} /\ m.seen = newSeen
  BY <1>1, <1>2 DEF IsNode
<1>4. DOMAIN got = DOMAIN n.got \cup {slot}
  BY DEF GotWith
<1> QED
  BY <1>2, <1>3, <1>4 DEF AfterReply

LEMMA VerifiedKeeps ==
    ASSUME NEW n, IsNode(n), NEW slot, NEW since, NEW selection,
           NEW m, m = Verified(n, slot, since, selection)
    PROVE  AfterReply(n, m, slot)
  BY DEF Verified, AfterReply, IsNode

(* A reply came in; if it was the exception, it is none any more.            *)
LEMMA ReplyLives ==
    ASSUME NEW ns, ns = [p \in Queries |-> ns[p]], NEW rs, NEW D, NEW E, NEW q, NEW X,
           LifeBut(ns, rs, D, E, q, X),
           NEW p \in Queries, NodeSound(ns[p]), ns[p].at \in {"evaluating", "checking"},
           NEW slot, NEW m, AfterReply(ns[p], m, slot), X = {} \/ X = WaitOf(p, slot),
           NEW ms, ms = [ns EXCEPT ![p] = m]
    PROVE  LifeBut(ms, rs, D, E, q, {})
<1>1. p \in Queries \ D /\ p \notin E
  BY LivesNotDead
<1>2. NodeSound(m)
  BY DEF AfterReply, NodeSound
<1>3. KeepsMail(ns[p], m, WaitOf(p, slot))
  BY DEF AfterReply, KeepsMail, HasCall, HasCheck, CallsAt, ChecksAt
<1>4. AwaitsNoMore(p, ns[p], m, WaitOf(p, slot))
  BY DEF AfterReply, AwaitsNoMore, WaitOf
<1>5. LifeBut(ms, rs, D, E, q, WaitOf(p, slot))
  BY <1>1, <1>2, <1>3, <1>4, OneLives
<1>6. ms[p] = m /\ slot \notin m.awaits
  BY DEF AfterReply
<1>7. \A d : ~AwaitsValue(ms, rs, d, p, slot) /\ ~AwaitsVerdict(ms, d, p, slot)
  BY <1>6, CallersDiffer DEF AwaitsValue, AwaitsVerdict
<1> QED
  BY <1>5, <1>7, Discharged

(* What a node that gives up hearing from others keeps.                      *)
LEMMA DeafAbsent == ASSUME NEW who PROVE Deaf(Absent, who) = Absent
<1>1. CutOff(<<>>, who) = <<>>
  BY DEF CutOff
<1>2. Absent.values = <<>> /\ Absent.checks = <<>> /\ Absent.job = NoJob /\ NoJob.by = Gone
  BY DEF Absent, NoJob
<1>3. [NoJob EXCEPT !.by = Gone] = NoJob
  BY DEF NoJob
<1>4. Deaf(Absent, who) = [Absent EXCEPT !.job = [@ EXCEPT !.by = Gone],
                                          !.values = <<>>, !.checks = <<>>]
  BY <1>1, <1>2 DEF Deaf
<1>5. Deaf(Absent, who) = [Absent EXCEPT !.job = NoJob, !.values = <<>>, !.checks = <<>>]
  BY <1>2, <1>3, <1>4
<1> QED
  BY <1>5, ZenonT(40) DEF Absent

LEMMA DeafKeeps ==
    ASSUME NEW who, NEW n, IsNode(n), NEW f, f = Deaf(n, who)
    PROVE  /\ SameWork(n, f) /\ f.job.kind = n.job.kind
           /\ \A by, slot : by # who =>
                 /\ HasCall(n, by, slot) => HasCall(f, by, slot)
                 /\ HasCheck(n, by, slot) => HasCheck(f, by, slot)
<1> PICK values, checks : values = CutOff(n.values, who) /\ checks = CutOff(n.checks, who)
  OBVIOUS
<1> PICK by : by = IF n.job.by = who THEN Gone ELSE n.job.by
  OBVIOUS
<1> PICK job : job = [n.job EXCEPT !.by = by]
  OBVIOUS
<1>1. f = [n EXCEPT !.job = job, !.values = values, !.checks = checks]
  <2>1. Deaf(n, who) = [n EXCEPT !.job = [@ EXCEPT !.by = IF n.job.by = who THEN Gone ELSE n.job.by],
                                 !.values = CutOff(n.values, who), !.checks = CutOff(n.checks, who)]
    BY DEF Deaf
  <2> QED
    BY <2>1
<1>2. f.job = job /\ f.values = values /\ f.checks = checks /\ SameWork(n, f)
  BY <1>1 DEF IsNode, SameWork
<1>3. job.kind = n.job.kind /\ (n.job.by # who => job = n.job)
  BY DEF IsNode, Job
<1>4. /\ DOMAIN values = DOMAIN n.values /\ DOMAIN checks = DOMAIN n.checks
      /\ \A k \in DOMAIN n.values : n.values[k].by # who => values[k] = n.values[k]
      /\ \A k \in DOMAIN n.checks : n.checks[k].by # who => checks[k] = n.checks[k]
  BY DEF CutOff
<1>5. \A r \in CallsAt(n) : r.by # who => r \in CallsAt(f)
  BY <1>2, <1>3, <1>4 DEF CallsAt
<1>6. \A r \in ChecksAt(n) : r.by # who => r \in ChecksAt(f)
  BY <1>2, <1>3, <1>4 DEF ChecksAt
<1> QED
  BY <1>2, <1>3, <1>5, <1>6 DEF HasCall, HasCheck

(* Nobody awaits anything under the name of `who`.                           *)
AwaitsNothing(ns, rs, who) ==
    \A d, slot : ~AwaitsValue(ns, rs, d, who, slot) /\ ~AwaitsVerdict(ns, d, who, slot)

LEMMA ForgetLives ==
    ASSUME NEW ns, \A p \in Queries : IsNode(ns[p]),
           NEW rs, NEW D, NEW E, NEW q, NEW X,
           LifeBut(ns, rs, D, E, q, X),
           NEW who, AwaitsNothing(ns, rs, who), NEW fs, fs = Forget(ns, who)
    PROVE  LifeBut(fs, rs, D, E, q, X) /\ \A p \in Queries : SameWork(ns[p], fs[p])
<1>1. \A p \in Queries : fs[p] = Deaf(ns[p], who)
  BY ForgetIs
<1>2. ASSUME NEW p \in Queries
      PROVE  /\ SameWork(ns[p], fs[p]) /\ fs[p].job.kind = ns[p].job.kind
             /\ \A by, slot : by # who =>
                   /\ HasCall(ns[p], by, slot) => HasCall(fs[p], by, slot)
                   /\ HasCheck(ns[p], by, slot) => HasCheck(fs[p], by, slot)
  BY <1>1, DeafKeeps
<1>3. \A p \in D : fs[p] = Absent
  BY <1>1, DeafAbsent DEF LifeBut
<1>4. \A p \in E : fs[p].at = "absent"
  BY <1>2 DEF LifeBut, SameWork
<1>5. \A p \in Queries \ {q} : NodeSound(fs[p])
  BY <1>2 DEF LifeBut, SameWork, NodeSound
<1>6. MetBut(fs, rs, D, X)
  <2> SUFFICES ASSUME NEW d \in Queries \ D, NEW by, NEW slot, <<by, slot>> \notin X
               PROVE  /\ AwaitsValue(fs, rs, d, by, slot) => HasCall(fs[d], by, slot)
                      /\ AwaitsVerdict(fs, d, by, slot) => HasCheck(fs[d], by, slot)
    BY DEF MetBut
  <2>1. /\ AwaitsValue(fs, rs, d, by, slot) => AwaitsValue(ns, rs, d, by, slot)
        /\ AwaitsVerdict(fs, d, by, slot) => AwaitsVerdict(ns, d, by, slot)
    BY <1>2 DEF AwaitsValue, AwaitsVerdict, SameWork
  <2>2. CASE by = who
    BY <2>1, <2>2 DEF AwaitsNothing
  <2>3. CASE by # who
    <3>1. /\ AwaitsValue(ns, rs, d, by, slot) => HasCall(ns[d], by, slot)
          /\ AwaitsVerdict(ns, d, by, slot) => HasCheck(ns[d], by, slot)
      BY DEF LifeBut, MetBut
    <3> QED
      BY <1>2, <2>1, <2>3, <3>1
  <2> QED
    BY <2>2, <2>3
<1> QED
  BY <1>2, <1>3, <1>4, <1>5, <1>6 DEF LifeBut

(* An evaluation starts afresh.                                              *)
LEMMA InvalidLives ==
    ASSUME NEW ns, NEW rs, NodesTrue(ns, rs),
           NEW D, NEW E, NEW q, NEW X,
           LifeBut(ns, rs, D, E, q, X),
           NEW p \in Queries, NodeSound(ns[p]), ns[p].at = "checking",
           NEW slot, X = {} \/ X = WaitOf(p, slot),
           NEW ms, ms = [ns EXCEPT ![p] = Blank(@, "evaluating")],
           NEW fs, fs = Forget(ms, p)
    PROVE  LifeBut(fs, rs, D, E, q, {})
<1> PICK b : b = Blank(ns[p], "evaluating")
  OBVIOUS
<1>1. /\ ns = [d \in Queries |-> ns[d]] /\ ms = [ns EXCEPT ![p] = b]
      /\ \A d \in Queries : IsNode(ns[d])
  BY DEF NodesTrue, NodeTrue
<1>2. /\ IsNode(b) /\ b.at = "evaluating" /\ b.cache = ns[p].cache /\ b.job = ns[p].job
      /\ b.values = ns[p].values /\ b.checks = ns[p].checks /\ b.awaits = {}
  BY <1>1, BlankIs
<1>3. p \in Queries \ D /\ p \notin E
  BY LivesNotDead
<1>4. NodeSound(b)
  BY <1>2 DEF NodeSound
<1>5. KeepsMail(ns[p], b, WaitOf(p, slot))
  BY <1>2 DEF KeepsMail, HasCall, HasCheck, CallsAt, ChecksAt
<1>6. AwaitsNoMore(p, ns[p], b, WaitOf(p, slot))
  BY <1>2 DEF AwaitsNoMore
<1>7. LifeBut(ms, rs, D, E, q, WaitOf(p, slot))
  BY <1>1, <1>3, <1>4, <1>5, <1>6, OneLives
<1>8. ms[p] = b /\ \A d \in Queries : IsNode(ms[d])
  BY <1>1, <1>2
<1>9. AwaitsNothing(ms, rs, p)
  BY <1>2, <1>8, CallersDiffer DEF AwaitsNothing, AwaitsValue, AwaitsVerdict
<1>10. LifeBut(ms, rs, D, E, q, {})
  BY <1>7, <1>9, Discharged DEF AwaitsNothing
<1> QED
  BY <1>8, <1>9, <1>10, ForgetLives

LEMMA VerdictLives ==
    ASSUME NEW ns, NEW rs, NodesTrue(ns, rs),
           NEW D, NEW E, NEW q, NEW X,
           LifeBut(ns, rs, D, E, q, X),
           NEW p \in Queries, NodeSound(ns[p]), ns[p].at = "checking",
           NEW slot, X = {} \/ X = WaitOf(p, slot), NEW verdict
    PROVE  LifeBut(TakeVerdict(ns, p, slot, verdict), rs, D, E, q, {})
<1>1. CASE ~verdict.valid
  <2> PICK ms : ms = [ns EXCEPT ![p] = Blank(@, "evaluating")]
    OBVIOUS
  <2>1. TakeVerdict(ns, p, slot, verdict) = Forget(ms, p)
    BY <1>1 DEF TakeVerdict
  <2> QED
    BY <2>1, InvalidLives
<1>2. CASE verdict.valid
  <2> PICK m : m = Verified(ns[p], slot, verdict.since, verdict.selection)
    OBVIOUS
  <2>1. ns = [d \in Queries |-> ns[d]] /\ IsNode(ns[p])
    BY DEF NodesTrue, NodeTrue
  <2>2. AfterReply(ns[p], m, slot)
    BY <2>1, VerifiedKeeps
  <2>3. TakeVerdict(ns, p, slot, verdict) = [ns EXCEPT ![p] = m]
    <3>1. TakeVerdict(ns, p, slot, verdict)
             = [ns EXCEPT ![p].awaits = @ \ {slot},
                          ![p].since = Later(@, verdict.since),
                          ![p].selection = @ \cup verdict.selection]
      BY <1>2 DEF TakeVerdict
    <3> QED
      BY <2>1, <3>1 DEF Verified
  <2>4. LifeBut([ns EXCEPT ![p] = m], rs, D, E, q, {})
    BY <2>1, <2>2, ReplyLives
  <2> QED
    BY <2>3, <2>4
<1> QED
  BY <1>1, <1>2

LEMMA ValueLives ==
    ASSUME NEW ns, NEW rs, NodesTrue(ns, rs),
           NEW D, NEW E, NEW q, NEW X,
           LifeBut(ns, rs, D, E, q, X),
           NEW p \in Queries, NodeSound(ns[p]), ns[p].at = "evaluating",
           NEW slot, X = {} \/ X = WaitOf(p, slot), NEW d, NEW value, NEW since, NEW selection
    PROVE  LifeBut(TakeValue(ns, p, slot, d, value, since, selection), rs, D, E, q, {})
<1> PICK m : m = Taken(p, ns[p], slot, d, value, since, selection)
  OBVIOUS
<1>1. ns = [c \in Queries |-> ns[c]] /\ NodeTrue(p, ns[p])
  BY DEF NodesTrue
<1>2. AfterReply(ns[p], m, slot)
  BY <1>1, TakenKeeps
<1>3. LifeBut([ns EXCEPT ![p] = m], rs, D, E, q, {})
  BY <1>1, <1>2, ReplyLives
<1> QED
  BY <1>3, TakeValueIs

-----------------------------------------------------------------------------
(* Requests are sent.  Nobody has the name "gone", so what is as it should   *)
(* be but at that node is so everywhere.                                     *)

LEMMA NoExceptions ==
    /\ \A ns, rs, D, E : LifeTrue(ns, rs, D, E) <=> LifeBut(ns, rs, D, E, Gone, {})
    /\ \A ns, rs, D, E, q, X : LifeBut(ns, rs, D, E, Gone, X) => LifeBut(ns, rs, D, E, q, X)
<1>1. \A ns, rs, D, E, X :
          LifeBut(ns, rs, D, E, Gone, X) => \A p \in Queries : NodeSound(ns[p])
  BY CallersDiffer DEF LifeBut
<1>2. ASSUME NEW ns, NEW rs, NEW D, NEW E, NEW q, NEW X, LifeBut(ns, rs, D, E, Gone, X)
      PROVE  LifeBut(ns, rs, D, E, q, X)
  BY <1>1, <1>2 DEF LifeBut
<1>3. ASSUME NEW ns, NEW rs, NEW D, NEW E, LifeTrue(ns, rs, D, E)
      PROVE  LifeBut(ns, rs, D, E, Gone, {})
  BY <1>3 DEF LifeTrue
<1>4. ASSUME NEW ns, NEW rs, NEW D, NEW E, LifeBut(ns, rs, D, E, Gone, {})
      PROVE  LifeTrue(ns, rs, D, E)
  BY <1>1, <1>2, <1>4 DEF LifeTrue
<1> QED
  BY <1>2, <1>3, <1>4

(* What by awaits for the slot, if anything, is the value of d.              *)
AwaitsValueOf(ns, rs, d, by, slot) ==
    \A e \in Queries : /\ AwaitsValue(ns, rs, e, by, slot) => e = d
                       /\ ~AwaitsVerdict(ns, e, by, slot)

AwaitsVerdictOf(ns, rs, d, by, slot) ==
    \A e \in Queries : /\ AwaitsVerdict(ns, e, by, slot) => e = d
                       /\ ~AwaitsValue(ns, rs, e, by, slot)

LEMMA SentValueLives ==
    ASSUME NEW ns, ns = [p \in Queries |-> ns[p]], NEW rs, NEW D, NEW by, NEW slot,
           LifeBut(ns, rs, D, {}, Gone, WaitOf(by, slot)),
           NEW d \in Queries \ D, NodeTrue(d, ns[d]),
           AwaitsValueOf(ns, rs, d, by, slot)
    PROVE  LifeBut(SendValueRequest(ns, d, by, slot), rs, D, {}, Gone, {})
<1> PICK r : r = [by |-> by, slot |-> slot]
  OBVIOUS
<1> PICK n, k : n = ns[d] /\ k = [n EXCEPT !.job = NoJob]
  OBVIOUS
<1> PICK found : found = IF n.at = "absent" THEN Blank(k, "evaluating") ELSE n
  OBVIOUS
<1> PICK m : m = [found EXCEPT !.values = Append(@, r)]
  OBVIOUS
<1> PICK ms : ms = [ns EXCEPT ![d] = m]
  OBVIOUS
<1>1. SendValueRequest(ns, d, by, slot) = ms
  BY DEF SendValueRequest
<1>2. /\ IsNode(n) /\ NodeSound(n) /\ n.values \in Seq(ValueRequest)
      /\ n.at = "absent" => n.job.kind = "spawn"
  BY CallersDiffer DEF NodeTrue, IsNode, LifeBut
<1>3. /\ IsNode(found) /\ found.values = n.values /\ found.checks = n.checks
      /\ CallsAt(found) = CallsAt(n) /\ ChecksAt(found) = ChecksAt(n)
      /\ NodeSound(found) /\ AwaitsNoMore(d, n, found, {})
  <2>1. CASE n.at # "absent"
    BY <1>2, <2>1 DEF AwaitsNoMore
  <2>2. CASE n.at = "absent"
    <3>1. NoJob \in Job /\ NoJob.kind = "spawn"
      BY DEF NoJob, Job, Requesters
    <3>2. IsNode(k) /\ k.job = NoJob /\ k.values = n.values /\ k.checks = n.checks
      BY <1>2, <3>1 DEF IsNode
    <3>3. found = Blank(k, "evaluating")
      BY <2>2
    <3>4. /\ IsNode(found) /\ found.at = "evaluating" /\ found.job = NoJob
          /\ found.values = n.values /\ found.checks = n.checks /\ found.awaits = {}
      <4> HIDE DEF NoJob
      <4> QED
        BY ONLY <3>2, <3>3, BlankIs
    <3> QED
      BY <1>2, <2>2, <3>1, <3>4, SMTT(30) DEF CallsAt, ChecksAt, NodeSound, AwaitsNoMore
  <2> QED
    BY <2>1, <2>2
<1>4. /\ m.at = found.at /\ m.cache = found.cache /\ m.job = found.job
      /\ m.checks = found.checks /\ m.values = Append(n.values, r)
      /\ m.awaits = found.awaits /\ m.seen = found.seen
  BY <1>3 DEF IsNode
<1>5. /\ \A j \in DOMAIN n.values : j \in DOMAIN m.values /\ m.values[j] = n.values[j]
      /\ \E j \in DOMAIN m.values : m.values[j] = r
  <2>1. n.values \in Seq(ValueRequest) /\ m.values = Append(n.values, r)
    BY <1>2, <1>4
  <2> QED
    BY ONLY <2>1, AppendProperties
<1>6. CallsAt(found) \cup {r} \subseteq CallsAt(m) /\ ChecksAt(m) = ChecksAt(found)
  <2>1. \A j \in DOMAIN n.values : n.values[j] \in CallsAt(m)
    BY <1>5 DEF CallsAt
  <2>2. r \in CallsAt(m)
    BY <1>5 DEF CallsAt
  <2>3. CallsAt(found) = {n.values[j] : j \in DOMAIN n.values} \cup {x \in {m.job} : x.kind = "value"}
    <3>1. found.values = n.values /\ found.job = m.job
      BY <1>3, <1>4
    <3> QED
      BY <3>1 DEF CallsAt
  <2>4. {x \in {m.job} : x.kind = "value"} \subseteq CallsAt(m)
    BY DEF CallsAt
  <2>5. ChecksAt(m) = ChecksAt(found)
    BY <1>4, SMTT(30) DEF ChecksAt
  <2> QED
    BY ONLY <2>1, <2>2, <2>3, <2>4, <2>5
<1>7. KeepsMail(n, m, WaitOf(by, slot))
  BY <1>3, <1>6 DEF KeepsMail, HasCall, HasCheck
<1>8. AwaitsNoMore(d, n, m, {}) /\ NodeSound(m)
  BY <1>3, <1>4 DEF AwaitsNoMore, NodeSound
<1>9. AwaitsNoMore(d, n, m, WaitOf(by, slot))
  BY <1>8 DEF AwaitsNoMore
<1>10. LifeBut(ms, rs, D, {}, Gone, WaitOf(by, slot))
  BY <1>7, <1>8, <1>9, OneLives
<1>11. ms[d] = m /\ \A p \in Queries \ {d} : ms[p] = ns[p]
  OBVIOUS
<1>12. ASSUME NEW e \in Queries
       PROVE  /\ AwaitsValue(ms, rs, e, by, slot) => AwaitsValue(ns, rs, e, by, slot)
              /\ AwaitsVerdict(ms, e, by, slot) => AwaitsVerdict(ns, e, by, slot)
  BY <1>8, <1>11 DEF AwaitsValue, AwaitsVerdict, AwaitsNoMore
<1>13. HasCall(ms[d], by, slot)
  BY <1>6, <1>11 DEF HasCall
<1>14. LifeBut(ms, rs, D, {}, Gone, {})
  <2>1. \A e \in Queries \ D : /\ AwaitsValue(ms, rs, e, by, slot) => HasCall(ms[e], by, slot)
                               /\ AwaitsVerdict(ms, e, by, slot) => HasCheck(ms[e], by, slot)
    BY <1>12, <1>13 DEF AwaitsValueOf
  <2> QED
    BY <1>10, <2>1, Discharged
<1> QED
  BY <1>1, <1>14

LEMMA SentCheckLives ==
    ASSUME NEW ns, ns = [p \in Queries |-> ns[p]], NEW rs, NEW D, NEW E, NEW r,
           LifeBut(ns, rs, D, E, Gone, WaitOf(r.by, r.slot)),
           NEW d \in Queries \ D, IsNode(ns[d]), r \in CheckRequest,
           AwaitsVerdictOf(ns, rs, d, r.by, r.slot),
           NEW ms, ms = [ns EXCEPT ![d] = [ns[d] EXCEPT !.checks = Append(@, r)]]
    PROVE  LifeBut(ms, rs, D, E, Gone, {})
<1> PICK by, slot : by = r.by /\ slot = r.slot
  OBVIOUS
<1> PICK n, m : n = ns[d] /\ m = [n EXCEPT !.checks = Append(@, r)]
  OBVIOUS
<1>1. n.checks \in Seq(CheckRequest) /\ NodeSound(n) /\ (d \in E => n.at = "absent")
  BY CallersDiffer DEF IsNode, LifeBut
<1>2. /\ m.at = n.at /\ m.cache = n.cache /\ m.job = n.job
      /\ m.values = n.values /\ m.checks = Append(n.checks, r)
      /\ m.awaits = n.awaits /\ m.seen = n.seen
  BY DEF IsNode
<1>3. /\ \A j \in DOMAIN n.checks : j \in DOMAIN m.checks /\ m.checks[j] = n.checks[j]
      /\ \E j \in DOMAIN m.checks : m.checks[j] = r
  BY <1>1, <1>2, AppendProperties
<1>4. ChecksAt(n) \cup {r} \subseteq ChecksAt(m) /\ CallsAt(m) = CallsAt(n)
  BY <1>2, <1>3 DEF CallsAt, ChecksAt
<1>5. KeepsMail(n, m, WaitOf(by, slot))
  BY <1>4 DEF KeepsMail, HasCall, HasCheck
<1>6. AwaitsNoMore(d, n, m, WaitOf(by, slot)) /\ NodeSound(m)
  BY <1>1, <1>2 DEF AwaitsNoMore, NodeSound
<1>7. LifeBut(ms, rs, D, E, Gone, WaitOf(by, slot))
  BY <1>1, <1>2, <1>5, <1>6, OneLives
<1>8. ms[d] = m /\ \A p \in Queries \ {d} : ms[p] = ns[p]
  OBVIOUS
<1>9. ASSUME NEW e \in Queries
      PROVE  /\ AwaitsValue(ms, rs, e, by, slot) => AwaitsValue(ns, rs, e, by, slot)
             /\ AwaitsVerdict(ms, e, by, slot) => AwaitsVerdict(ns, e, by, slot)
  BY <1>2, <1>8, SMTT(30) DEF AwaitsValue, AwaitsVerdict
<1>10. HasCheck(ms[d], by, slot)
  BY <1>4, <1>8 DEF HasCheck
<1>11. \A e \in Queries \ D : /\ AwaitsValue(ms, rs, e, by, slot) => HasCall(ms[e], by, slot)
                              /\ AwaitsVerdict(ms, e, by, slot) => HasCheck(ms[e], by, slot)
  BY <1>9, <1>10 DEF AwaitsVerdictOf
<1> QED
  BY <1>7, <1>11, Discharged

-----------------------------------------------------------------------------
(* Requests are served.                                                      *)

LEMMA CallServingLives ==
    ASSUME NEW ns, ns = [p \in Queries |-> ns[p]], NEW rs, NEW D, NEW E,
           LifeTrue(ns, rs, D, E), NEW q \in Queries, IsNode(ns[q]),
           ns[q].at = "idle", ns[q].values # <<>>
    PROVE  /\ LifeBut([ns EXCEPT ![q] = ServingCall(ns[q])], rs, D, E, q, {})
           /\ ServingCall(ns[q]).cache.value # Panicked
<1> PICK n, m, r, mail : /\ n = ns[q] /\ m = ServingCall(n)
                         /\ r = Head(n.values) /\ mail = Tail(n.values)
  OBVIOUS
<1> PICK job : job = CallJob(r)
  OBVIOUS
<1>1. n.values \in Seq(ValueRequest) /\ NodeSound(n) /\ n.at = "idle"
  BY DEF IsNode, LifeTrue
<1>2. job.kind = "value" /\ job.by = r.by /\ job.slot = r.slot
  BY DEF CallJob, NoJob
<1>3. /\ m.at = n.at /\ m.cache = n.cache /\ m.job = job
      /\ m.values = mail /\ m.checks = n.checks
  BY DEF ServingCall, IsNode
<1>4. \A k \in DOMAIN n.values : n.values[k] = r \/ \E j \in DOMAIN mail : mail[j] = n.values[k]
  <2>1. \A k \in DOMAIN n.values : k = 1 \/ (k - 1 \in DOMAIN mail /\ mail[k - 1] = n.values[k])
    BY <1>1
  <2>2. r = n.values[1]
    BY <1>1
  <2> QED
    BY <2>1, <2>2
<1>5. CallsAt(n) = {n.values[k] : k \in DOMAIN n.values} /\ ChecksAt(n) \subseteq ChecksAt(m)
  <2>1. n.job.kind = "spawn"
    BY <1>1 DEF NodeSound
  <2> QED
    BY <1>3, <2>1 DEF CallsAt, ChecksAt
<1>6. job \in CallsAt(m) /\ \A j \in DOMAIN mail : mail[j] \in CallsAt(m)
  BY <1>2, <1>3 DEF CallsAt
<1>7. KeepsMail(n, m, {})
  BY <1>2, <1>4, <1>5, <1>6 DEF KeepsMail, HasCall, HasCheck
<1>8. AwaitsNoMore(q, n, m, {})
  BY <1>1, <1>3 DEF AwaitsNoMore
<1>9. LifeBut(ns, rs, D, E, q, {})
  BY DEF LifeTrue
<1>10. q \in Queries \ D /\ q \notin E
  BY <1>9, LivesNotDead
<1> PICK ms : ms = [ns EXCEPT ![q] = m]
  OBVIOUS
<1>11. LifeBut(ms, rs, D, E, q, {})
  <2>1. KeepsMail(ns[q], m, {}) /\ AwaitsNoMore(q, ns[q], m, {})
    BY <1>7, <1>8
  <2>2. ns = [p \in Queries |-> ns[p]] /\ ms = [ns EXCEPT ![q] = m]
    OBVIOUS
  <2> QED
    BY ONLY <1>9, <1>10, <2>1, <2>2, OneLives
<1> QED
  BY <1>1, <1>3, <1>11 DEF NodeSound

LEMMA CheckServingLives ==
    ASSUME NEW ns, ns = [p \in Queries |-> ns[p]], NEW rs, NEW D, NEW E,
           LifeTrue(ns, rs, D, E), NEW q \in Queries, IsNode(ns[q]),
           ns[q].at = "idle", ns[q].checks # <<>>
    PROVE  /\ LifeBut([ns EXCEPT ![q] = ServingCheck(ns[q])], rs, D, E, q, {})
           /\ ServingCheck(ns[q]).cache.value # Panicked
<1> PICK n, m, r, mail : /\ n = ns[q] /\ m = ServingCheck(n)
                         /\ r = Head(n.checks) /\ mail = Tail(n.checks)
  OBVIOUS
<1> PICK job : job = CheckJob(r)
  OBVIOUS
<1>1. n.checks \in Seq(CheckRequest) /\ NodeSound(n) /\ n.at = "idle"
  BY DEF IsNode, LifeTrue
<1>2. job.kind = "check" /\ job.by = r.by /\ job.slot = r.slot
  BY DEF CheckJob, NoJob
<1>3. /\ m.at = n.at /\ m.cache = n.cache /\ m.job = job
      /\ m.checks = mail /\ m.values = n.values
  BY DEF ServingCheck, IsNode
<1>4. \A k \in DOMAIN n.checks : n.checks[k] = r \/ \E j \in DOMAIN mail : mail[j] = n.checks[k]
  <2>1. \A k \in DOMAIN n.checks : k = 1 \/ (k - 1 \in DOMAIN mail /\ mail[k - 1] = n.checks[k])
    BY <1>1
  <2>2. r = n.checks[1]
    BY <1>1
  <2> QED
    BY <2>1, <2>2
<1>5. ChecksAt(n) = {n.checks[k] : k \in DOMAIN n.checks} /\ CallsAt(n) \subseteq CallsAt(m)
  <2>1. n.job.kind = "spawn"
    BY <1>1 DEF NodeSound
  <2> QED
    BY <1>3, <2>1 DEF CallsAt, ChecksAt
<1>6. job \in ChecksAt(m) /\ \A j \in DOMAIN mail : mail[j] \in ChecksAt(m)
  BY <1>2, <1>3 DEF ChecksAt
<1>7. KeepsMail(n, m, {})
  BY <1>2, <1>4, <1>5, <1>6 DEF KeepsMail, HasCall, HasCheck
<1>8. AwaitsNoMore(q, n, m, {})
  BY <1>1, <1>3 DEF AwaitsNoMore
<1>9. LifeBut(ns, rs, D, E, q, {})
  BY DEF LifeTrue
<1>10. q \in Queries \ D /\ q \notin E
  BY <1>9, LivesNotDead
<1> PICK ms : ms = [ns EXCEPT ![q] = m]
  OBVIOUS
<1>11. LifeBut(ms, rs, D, E, q, {})
  <2>1. KeepsMail(ns[q], m, {}) /\ AwaitsNoMore(q, ns[q], m, {})
    BY <1>7, <1>8
  <2>2. ns = [p \in Queries |-> ns[p]] /\ ms = [ns EXCEPT ![q] = m]
    OBVIOUS
  <2> QED
    BY ONLY <1>9, <1>10, <2>1, <2>2, OneLives
<1> QED
  BY <1>1, <1>3, <1>11 DEF NodeSound

-----------------------------------------------------------------------------
(* An update ends, its reply is given.                                       *)

(* Callers only ever get answers they wait for.                              *)
RootsMove(rs, qs) ==
    \A c \in Callers :
        qs[c].at = rs[c].at \/ (rs[c].at = "waiting" /\ qs[c].at = "answered")

(* The update of a node ends.                                                *)
Rested(n, new) == [Blank(n, "idle") EXCEPT !.cache = new, !.job = NoJob]

LEMMA EndLives ==
    ASSUME NEW ns, NEW rs, NodesTrue(ns, rs), NEW D, NEW E, NEW q \in Queries,
           LifeBut(ns, rs, D, E, q, {}), ns[q].at # "absent",
           NEW new, IsCache(new), new.value # Panicked,
           NEW m, m = Rested(ns[q], new),
           NEW ms, ms = [ns EXCEPT ![q] = m]
    PROVE  /\ LifeBut(ms, rs, D, E, q, WaitOf(ns[q].job.by, ns[q].job.slot))
           /\ ms[q] = m /\ NodeSound(m)
<1> PICK n, job, b : n = ns[q] /\ job = n.job /\ b = Blank(n, "idle")
  OBVIOUS
<1>1. ns = [p \in Queries |-> ns[p]] /\ IsNode(n)
  BY DEF NodesTrue, NodeTrue
<1>2. IsNode(b) /\ b.at = "idle" /\ b.values = n.values /\ b.checks = n.checks /\ b.awaits = {}
  BY <1>1, BlankIs
<1>3. NoJob.kind = "spawn"
  BY DEF NoJob
<1>4. /\ m.at = "idle" /\ m.cache = new /\ m.job = NoJob /\ m.awaits = {}
      /\ m.values = n.values /\ m.checks = n.checks
  BY <1>2 DEF IsNode, Rested
<1>5. NodeSound(m)
  BY <1>3, <1>4 DEF NodeSound
<1> PICK X : X = WaitOf(job.by, job.slot)
  OBVIOUS
<1>6. \A r \in CallsAt(n) : r \in CallsAt(m) \/ r = job
  BY <1>4 DEF CallsAt
<1>7. \A r \in ChecksAt(n) : r \in ChecksAt(m) \/ r = job
  BY <1>4 DEF ChecksAt
<1>8. KeepsMail(n, m, X)
  BY <1>6, <1>7 DEF KeepsMail, HasCall, HasCheck, WaitOf
<1>9. AwaitsNoMore(q, n, m, X)
  BY <1>4 DEF AwaitsNoMore
<1>10. q \in Queries \ D /\ q \notin E
  BY LivesNotDead
<1>11. LifeBut(ms, rs, D, E, q, X)
  BY <1>1, <1>8, <1>9, <1>10, OneLives
<1> QED
  BY <1>1, <1>5, <1>11

(* A verdict changes nothing of the work of another node.                    *)
LEMMA VerdictSpares ==
    ASSUME NEW ns, NEW rs, NodesTrue(ns, rs), NEW p \in Queries, NEW q \in Queries, p # q,
           NodeSound(ns[q]), NEW slot, NEW verdict
    PROVE  NodeSound(TakeVerdict(ns, p, slot, verdict)[q])
<1>1. CASE ~verdict.valid
  <2> PICK b : b = Blank(ns[p], "evaluating")
    OBVIOUS
  <2> PICK ms : ms = [ns EXCEPT ![p] = b]
    OBVIOUS
  <2>1. TakeVerdict(ns, p, slot, verdict)[q] = Deaf(ms[q], p) /\ ms[q] = ns[q]
    BY <1>1, ForgetIs DEF TakeVerdict, NodesTrue
  <2>2. IsNode(ns[q])
    BY DEF NodesTrue, NodeTrue
  <2>3. SameWork(ns[q], Deaf(ns[q], p)) /\ Deaf(ns[q], p).job.kind = ns[q].job.kind
    BY <2>2, DeafKeeps
  <2> QED
    BY <2>1, <2>3 DEF NodeSound, SameWork
<1>2. CASE verdict.valid
  BY <1>2 DEF TakeVerdict, NodesTrue
<1> QED
  BY <1>1, <1>2

LEMMA CompleteLives ==
    ASSUME WorldTrue, NEW ns, NodesTrue(ns, root), NEW q \in Queries,
           ns[q].at = "idle" \/ ns[q].awaits = {}, ns[q].at # "absent",
           NEW D, NEW E,
           LifeBut(ns, root, D, E, q, {}),
           NEW new, IsCache(new), CacheTrue(q, new), new.value # Panicked,
           Complete(ns, q, new)
    PROVE  LifeTrue(node', root', D, E) /\ RootsMove(root, root')
<1> PICK n, job, m : /\ n = ns[q] /\ job = n.job
                     /\ m = Rested(ns[q], new)
  OBVIOUS
<1> PICK ms : ms = [ns EXCEPT ![q] = m]
  OBVIOUS
<1> PICK verdict : verdict = Verdict(n.cache, new, job.past)
  OBVIOUS
<1>1. /\ NodesTrue(ms, root)
      /\ job.kind = "value" => OwedValue(ms, root, q, job)
      /\ job.kind = "check" => OwedCheck(ms, q, job)
      /\ job.by # Gone => job.by # q /\ NoRequest(ms, job.by, job.slot)
  BY Ended, ZenonT(40) DEF Rested
<1> PICK ks, qs : ks = node' /\ qs = root'
  OBVIOUS
<1>2. /\ ks = IF job.by \notin Queries THEN ms
              ELSE IF job.kind = "value"
                 THEN TakeValue(ms, job.by, job.slot, q, new.value, new.from, new.selection)
                 ELSE TakeVerdict(ms, job.by, job.slot, verdict)
      /\ qs = IF job.by \notin Callers THEN root ELSE
                 [root EXCEPT ![job.by].at = "answered", ![job.by].value = new.value]
  BY DEF Complete, Rested
<1>3. LifeBut(ms, root, D, E, q, WaitOf(job.by, job.slot)) /\ ms[q] = m /\ NodeSound(m)
  <2>1. /\ IsCache(new) /\ new.value # Panicked /\ ns[q].at # "absent"
        /\ m = Rested(ns[q], new)
        /\ ms = [ns EXCEPT ![q] = m] /\ job = ns[q].job
    OBVIOUS
  <2>2. NodesTrue(ns, root) /\ q \in Queries /\ LifeBut(ns, root, D, E, q, {})
    OBVIOUS
  <2>3. LifeBut(ms, root, D, E, q, WaitOf(job.by, job.slot))
    BY ONLY <2>1, <2>2, EndLives
  <2>4. NodeSound(m)
    BY ONLY <2>1, <2>2, EndLives
  <2>5. ms[q] = m
    BY <2>1, <2>2 DEF NodesTrue
  <2> QED
    BY <2>3, <2>4, <2>5
<1> HIDE DEF NoJob
<1>13. NodeSound(ms[q])
  BY <1>3
<1>4. job \in Job /\ (job.kind = "spawn" => job.by = Gone)
  BY DEF NodesTrue, NodeTrue, IsNode
<1>5. root = [a \in Callers |-> root[a]]
  BY DEF NodesTrue
<1>6. qs = root => RootsMove(root, qs)
  BY DEF RootsMove
<1>7. CASE job.by = Gone
  <2>1. ks = ms /\ qs = root
    BY <1>2, <1>7, CallersDiffer
  <2>2. \A d : ~AwaitsValue(ms, root, d, job.by, job.slot) /\ ~AwaitsVerdict(ms, d, job.by, job.slot)
    BY <1>7, CallersDiffer DEF AwaitsValue, AwaitsVerdict
  <2>3. LifeBut(ms, root, D, E, q, {})
    BY <1>3, <2>2, Discharged
  <2>4. LifeTrue(ms, root, D, E)
    BY <1>13, <2>3, AllLive
  <2> QED
    BY <1>6, <2>1, <2>4
<1>8. CASE job.by \in Callers
  <2> PICK c, slot : c = job.by /\ slot = job.slot
    OBVIOUS
  <2> PICK r : r = [root[c] EXCEPT !.at = "answered", !.value = new.value]
    OBVIOUS
  <2>1. c \in Callers /\ c \notin Queries /\ c # Gone
    BY <1>8, CallersDiffer
  <2>2. job.kind = "value"
    BY <1>1, <1>4, <2>1 DEF OwedCheck, Job
  <2>3. root[c].at = "waiting"
    BY <1>1, <2>1, <2>2 DEF OwedValue
  <2>4. r.at = "answered" /\ r.value = new.value
    BY <2>1 DEF NodesTrue, RootTrue
  <2>10. ks = ms /\ qs = [root EXCEPT ![c] = r]
    BY <1>2, <1>5, <2>1
  <2>5. LifeBut(ms, qs, D, E, q, WaitOf(c, slot))
    <3>1. /\ NodesTrue(ms, root) /\ c \in Callers
          /\ LifeBut(ms, root, D, E, q, WaitOf(c, slot))
          /\ r.at = "answered" => r.value # Panicked
          /\ r.at = "waiting" => <<c, 1>> \in WaitOf(c, slot)
      BY <1>1, <1>3, <2>1, <2>4
    <3>2. qs = [root EXCEPT ![c] = r]
      BY <2>10
    <3> QED
      BY ONLY <3>1, <3>2, OneCallerLives
  <2>6. qs[c] = r /\ \A a \in Callers \ {c} : qs[a] = root[a]
    BY <1>5, <2>1, <2>10
  <2>7. \A d : ~AwaitsValue(ms, qs, d, c, slot) /\ ~AwaitsVerdict(ms, d, c, slot)
    BY <2>1, <2>4, <2>6 DEF AwaitsValue, AwaitsVerdict
  <2>8. LifeBut(ms, qs, D, E, q, {})
    BY <2>5, <2>7, Discharged
  <2>9. LifeTrue(ms, qs, D, E)
    BY <1>13, <2>8, AllLive
  <2>11. RootsMove(root, qs)
    BY <2>1, <2>3, <2>4, <2>6, ZenonT(40) DEF RootsMove
  <2> QED
    BY <2>9, <2>10, <2>11
<1>9. CASE job.by \in Queries
  <2> PICK p, slot : p = job.by /\ slot = job.slot
    OBVIOUS
  <2>1. p \in Queries /\ p \notin Callers /\ p # Gone /\ p # q /\ qs = root
    BY <1>1, <1>2, <1>9, CallersDiffer
  <2>2. NodeSound(ms[p]) /\ LifeBut(ms, root, D, E, q, WaitOf(p, slot))
    BY <1>3, <2>1 DEF LifeBut
  <2>4. CASE job.kind = "value"
    <3>1. ms[p].at = "evaluating"
      BY <1>1, <2>1, <2>4 DEF OwedValue
    <3>2. ks = TakeValue(ms, p, slot, q, new.value, new.from, new.selection)
      BY <1>2, <2>1, <2>4
    <3>3. LifeBut(ks, root, D, E, q, {})
      <4>1. NodesTrue(ms, root) /\ p \in Queries
        BY <1>1, <2>1
      <4> QED
        BY ONLY <2>2, <3>1, <3>2, <4>1, ValueLives
    <3>4. ks[q] = ms[q]
      BY <1>1, <2>1, <3>2, TakeValueIs DEF NodesTrue
    <3>5. LifeTrue(ks, root, D, E)
      BY <1>13, <3>3, <3>4, AllLive
    <3> QED
      BY <1>6, <2>1, <3>5
  <2>5. CASE job.kind = "check"
    <3>1. ms[p].at = "checking"
      BY <1>1, <2>1, <2>5 DEF OwedCheck
    <3>2. ks = TakeVerdict(ms, p, slot, verdict)
      BY <1>2, <2>1, <2>5
    <3>3. LifeBut(ks, root, D, E, q, {})
      <4>1. NodesTrue(ms, root) /\ p \in Queries
        BY <1>1, <2>1
      <4> QED
        BY ONLY <2>2, <3>1, <3>2, <4>1, VerdictLives
    <3>4. NodeSound(ks[q])
      <4>1. NodesTrue(ms, root) /\ p \in Queries /\ q \in Queries /\ p # q
        BY <1>1, <2>1
      <4> QED
        BY ONLY <1>13, <3>2, <4>1, VerdictSpares
    <3>5. LifeTrue(ks, root, D, E)
      BY <3>3, <3>4, AllLive
    <3> QED
      BY <1>6, <2>1, <3>5
  <2> QED
    BY <1>4, <2>1, <2>4, <2>5 DEF Job
<1> QED
  BY <1>4, <1>7, <1>8, <1>9 DEF Job, Requesters

LEMMA RefreshLives ==
    ASSUME WorldTrue, NEW ns, NodesTrue(ns, root), NEW q \in Queries,
           ns[q].at = "idle", ns[q].job.kind # "spawn", ns[q].cache.value # Panicked,
           NEW D, NEW E, LifeBut(ns, root, D, E, q, {}), Refresh(ns, q)
    PROVE  LifeTrue(node', root', D, E) /\ RootsMove(root, root')
<1> PICK n, c : n = ns[q] /\ c = n.cache
  OBVIOUS
<1>1. NodeTrue(q, n) /\ IsNode(n) /\ IsCache(c) /\ CacheTrue(q, c)
  BY DEF NodesTrue, NodeTrue, IsNode
<1>2. CASE c.until = frame
  <2>1. Complete(ns, q, c)
    BY <1>2 DEF Refresh
  <2> QED
    BY <1>1, <2>1, CompleteLives
<1>3. CASE c.until # frame /\ InputsUnchanged(c)
  <2> PICK new : new = [c EXCEPT !.until = frame, !.snapshot = snapshot]
    OBVIOUS
  <2>1. Complete(ns, q, new)
    BY <1>3 DEF Refresh
  <2>2. IsCache(new) /\ new.until = frame /\ new.value # Panicked
    BY <1>1 DEF IsCache
  <2>3. CacheTrue(q, new)
    BY <1>1, <1>3, ShortcutTrue
  <2> QED
    BY <2>1, <2>2, <2>3, CompleteLives
<1>4. CASE c.until # frame /\ ~InputsUnchanged(c)
  <2> PICK m : m = Blank(n, "checking")
    OBVIOUS
  <2> PICK ks, qs : ks = node' /\ qs = root'
    OBVIOUS
  <2>1. ks = [ns EXCEPT ![q] = m] /\ qs = root
    BY <1>4 DEF Refresh
  <2>2. /\ IsNode(m) /\ m.at = "checking" /\ m.cache = c /\ m.job = n.job
        /\ m.values = n.values /\ m.checks = n.checks /\ m.awaits = {}
    BY <1>1, BlankIs
  <2>3. NodeSound(m) /\ KeepsMail(n, m, {}) /\ AwaitsNoMore(q, n, m, {})
    BY <2>2 DEF NodeSound, KeepsMail, HasCall, HasCheck, CallsAt, ChecksAt, AwaitsNoMore
  <2>4. ns = [p \in Queries |-> ns[p]] /\ q \in Queries \ D /\ q \notin E
    BY LivesNotDead DEF NodesTrue
  <2>5. LifeBut(ks, root, D, E, q, {})
    BY <2>1, <2>3, <2>4, OneLives
  <2>6. ks[q] = m
    BY <2>1, <2>4
  <2>7. LifeTrue(ks, root, D, E)
    BY <2>3, <2>5, <2>6, AllLive
  <2>8. RootsMove(root, root)
    BY DEF RootsMove
  <2> QED
    BY <2>1, <2>7, <2>8
<1> QED
  BY <1>2, <1>3, <1>4

-----------------------------------------------------------------------------
(* The steps of nodes that live.  D is the nodes that ended, E some nodes    *)
(* that are not there.                                                       *)

LifeNow(D, E) == QueryInv /\ LifeTrue(node, root, D, E)

LifeNext1(D, E) == LifeTrue(node', root', D, E) /\ RootsMove(root, root')

LEMMA Now ==
    ASSUME NEW D, NEW E, LifeNow(D, E)
    PROVE  /\ WorldTrue /\ NodesTrue(node, root) /\ node = [p \in Queries |-> node[p]]
           /\ \A q \in Queries : NodeTrue(q, node[q]) /\ IsNode(node[q]) /\ NodeSound(node[q])
           /\ LifeTrue(node, root, D, E) /\ LifeBut(node, root, D, E, Gone, {})
           /\ \A q : LifeBut(node, root, D, E, q, {})
  BY NoExceptions DEF LifeNow, QueryInv, NodesTrue, NodeTrue, LifeTrue

LEMMA ServeValueLives ==
    ASSUME NEW D, NEW E, LifeNow(D, E), NEW q \in Queries, ServeValue(q)
    PROVE  LifeNext1(D, E)
<1> PICK m : m = ServingCall(node[q])
  OBVIOUS
<1> PICK ns : ns = [node EXCEPT ![q] = m]
  OBVIOUS
<1>1. /\ WorldTrue /\ NodesTrue(node, root) /\ node = [p \in Queries |-> node[p]]
      /\ LifeTrue(node, root, D, E) /\ IsNode(node[q])
      /\ node[q].at = "idle" /\ node[q].values # <<>>
  BY Now DEF ServeValue
<1>2. Refresh([node EXCEPT ![q].values = Tail(@), ![q].job = CallJob(Head(node[q].values))], q)
  BY DEF ServeValue, CallJob
<1>3. [node EXCEPT ![q].values = Tail(@), ![q].job = CallJob(Head(node[q].values))] = ns
  BY <1>1 DEF ServingCall
<1>4. NodesTrue(ns, root) /\ m.at = "idle" /\ m.job.kind = "value"
  BY <1>1, CallServed
<1>5. LifeBut(ns, root, D, E, q, {}) /\ m.cache.value # Panicked
  BY <1>1, CallServingLives
<1>6. ns[q] = m /\ Refresh(ns, q)
  BY <1>1, <1>2, <1>3
<1> QED
  BY <1>1, <1>4, <1>5, <1>6, RefreshLives DEF LifeNext1

LEMMA ServeCheckLives ==
    ASSUME NEW D, NEW E, LifeNow(D, E), NEW q \in Queries, ServeCheck(q)
    PROVE  LifeNext1(D, E)
<1> PICK m : m = ServingCheck(node[q])
  OBVIOUS
<1> PICK ns : ns = [node EXCEPT ![q] = m]
  OBVIOUS
<1>1. /\ WorldTrue /\ NodesTrue(node, root) /\ node = [p \in Queries |-> node[p]]
      /\ LifeTrue(node, root, D, E) /\ IsNode(node[q])
      /\ node[q].at = "idle" /\ node[q].checks # <<>>
  BY Now DEF ServeCheck
<1>2. Refresh([node EXCEPT ![q].checks = Tail(@), ![q].job = CheckJob(Head(node[q].checks))], q)
  BY DEF ServeCheck, CheckJob
<1>3. [node EXCEPT ![q].checks = Tail(@), ![q].job = CheckJob(Head(node[q].checks))] = ns
  BY <1>1 DEF ServingCheck
<1>4. NodesTrue(ns, root) /\ m.at = "idle" /\ m.job.kind = "check"
  BY <1>1, CheckServed
<1>5. LifeBut(ns, root, D, E, q, {}) /\ m.cache.value # Panicked
  BY <1>1, CheckServingLives
<1>6. ns[q] = m /\ Refresh(ns, q)
  BY <1>1, <1>2, <1>3
<1> QED
  BY <1>1, <1>4, <1>5, <1>6, RefreshLives DEF LifeNext1

LEMMA FinishCheckLives ==
    ASSUME NEW D, NEW E, LifeNow(D, E), NEW q \in Queries, FinishCheck(q)
    PROVE  LifeNext1(D, E)
<1> PICK n, c : n = node[q] /\ c = n.cache
  OBVIOUS
<1> PICK new : new = [c EXCEPT !.from = ExtendedFrom(n.since, c), !.until = frame,
                               !.selection = n.selection, !.snapshot = snapshot]
  OBVIOUS
<1>1. /\ WorldTrue /\ NodesTrue(node, root) /\ NodeTrue(q, n) /\ NodeSound(n)
      /\ LifeBut(node, root, D, E, q, {})
  BY Now
<1>2. /\ n.at = "checking" /\ n.sent = Len(c.deps) /\ n.awaits = {}
      /\ Complete(node, q, new)
  BY DEF FinishCheck
<1>3. IsCache(c) /\ n.job.kind # "spawn"
  BY <1>1, <1>2 DEF NodeTrue, IsNode
<1>4. IsCache(new) /\ new.value # Panicked
  BY <1>1, <1>3 DEF IsCache, NodeSound
<1>5. CacheTrue(q, new)
  BY <1>1, <1>2, CheckedCache
<1> QED
  BY <1>1, <1>2, <1>4, <1>5, CompleteLives DEF LifeNext1

LEMMA FinishEvaluationLives ==
    ASSUME NEW D, NEW E, LifeNow(D, E), NEW q \in Queries, FinishEvaluation(q),
           ~Panics(q, node[q].seen)
    PROVE  LifeNext1(D, E)
<1> PICK n : n = node[q]
  OBVIOUS
<1> PICK value : value = Result(q, n.seen)
  OBVIOUS
<1> PICK from : from = IF n.job.kind # "spawn" /\ value = n.cache.value
                          THEN ExtendedFrom(n.since, n.cache) ELSE n.since
  OBVIOUS
<1> PICK new : new = [value |-> value, from |-> from, until |-> frame, deps |-> n.deps,
                      selection |-> n.selection, snapshot |-> snapshot]
  OBVIOUS
<1>1. /\ WorldTrue /\ NodesTrue(node, root) /\ NodeTrue(q, n)
      /\ LifeBut(node, root, D, E, q, {})
  BY Now
<1>2. n.at = "evaluating" /\ NextReads(q, n.seen) = <<>> /\ Complete(node, q, new)
  BY DEF FinishEvaluation
<1>3. EvaluatingTrue(q, n)
  BY <1>1, <1>2 DEF NodeTrue
<1>4. n.awaits = {}
  <2>1. n.awaits \subseteq DOMAIN NextReads(q, n.seen)
    BY <1>3 DEF EvaluatingTrue
  <2> QED
    BY <1>2, <2>1
<1>5. value # Panicked
  <2>1. log[frame] \in Worlds
    BY <1>1, WorldOf, FrameNat
  <2>2. n.seen \in Path(q, log[frame])
    BY <2>1, <1>3 DEF EvaluatingTrue, LeadTo, Meaning
  <2> QED
    BY <1>2, <2>1, <2>2, PanicAssumption
<1>6. IsCache(new)
  BY DEF IsCache
<1>7. CacheTrue(q, new)
  BY <1>1, <1>2, EvaluatedCache
<1>8. new.value # Panicked
  BY <1>5
<1> QED
  BY <1>1, <1>2, <1>4, <1>6, <1>7, <1>8, CompleteLives DEF LifeNext1

LEMMA SameRoots ==
    ASSUME NEW D, NEW E, root' = root, NEW ks, ks = node', LifeBut(ks, root, D, E, Gone, {})
    PROVE  LifeNext1(D, E)
<1>1. LifeTrue(ks, root, D, E)
  BY NoExceptions
<1>2. RootsMove(root, root)
  BY DEF RootsMove
<1> QED
  BY <1>1, <1>2 DEF LifeNext1

LEMMA ReadInputLives ==
    ASSUME NEW D, NEW E, LifeNow(D, E), NEW q \in Queries, ReadInput(q)
    PROVE  LifeNext1(D, E)
<1> PICK ks : ks = node'
  OBVIOUS
<1>1. PICK slot \in Wanted(q) :
          LET i == NextReads(q, node[q].seen)[slot]
          IN  ks = TakeValue(node, q, slot, i, input[i].value, input[i].since, {i})
  BY DEF ReadInput
<1> PICK d, value, since, selection :
        ks = TakeValue(node, q, slot, d, value, since, selection)
  BY <1>1
<1>2. node[q].at = "evaluating"
  BY DEF Wanted
<1>3. /\ NodesTrue(node, root) /\ q \in Queries /\ NodeSound(node[q])
      /\ LifeBut(node, root, D, E, Gone, {})
  BY Now
<1>4. LifeBut(ks, root, D, E, Gone, {})
  BY <1>2, <1>3, ValueLives
<1> QED
  BY <1>4, SameRoots DEF ReadInput

LEMMA VerdictComesIn ==
    ASSUME NEW D, NEW E, LifeNow(D, E), NEW q \in Queries, node[q].at = "checking",
           NEW slot, NEW verdict, node' = TakeVerdict(node, q, slot, verdict), root' = root
    PROVE  LifeNext1(D, E)
<1> PICK ks : ks = node'
  OBVIOUS
<1>1. /\ NodesTrue(node, root) /\ q \in Queries /\ NodeSound(node[q])
      /\ LifeBut(node, root, D, E, Gone, {})
  BY Now
<1>2. LifeBut(ks, root, D, E, Gone, {})
  BY <1>1, VerdictLives
<1> QED
  BY <1>2, SameRoots

LEMMA InputVerdictLives ==
    ASSUME NEW D, NEW E, LifeNow(D, E), NEW q \in Queries, InputVerdict(q)
    PROVE  LifeNext1(D, E)
<1>1. PICK slot, verdict : node' = TakeVerdict(node, q, slot, verdict)
  BY DEF InputVerdict
<1>2. node[q].at = "checking" /\ root' = root
  BY DEF InputVerdict
<1> QED
  BY <1>1, <1>2, VerdictComesIn

LEMMA SendCheckLives ==
    ASSUME NEW D, NEW E, LifeNow(D, E), NEW q \in Queries, SendCheck(q),
           node[q].cache.deps[node[q].sent + 1] \notin D
    PROVE  LifeNext1(D, E)
<1> PICK n, slot, dep : n = node[q] /\ slot = n.sent + 1 /\ dep = n.cache.deps[slot]
  OBVIOUS
<1> PICK m : m = [n EXCEPT !.sent = slot, !.awaits = @ \cup {slot}]
  OBVIOUS
<1> PICK ms : ms = [node EXCEPT ![q] = m]
  OBVIOUS
<1> PICK ks : ks = node'
  OBVIOUS
<1>1. /\ NodeTrue(q, n) /\ IsNode(n) /\ NodeSound(n) /\ node = [p \in Queries |-> node[p]]
      /\ \A p \in Queries : IsNode(node[p])
      /\ LifeBut(node, root, D, E, Gone, {})
  BY Now
<1>2. n.at = "checking" /\ n.sent < Len(n.cache.deps) /\ root' = root /\ dep \notin D
  BY DEF SendCheck
<1>3. /\ n.cache.deps \in Seq(Nodes) /\ n.sent \in Nat /\ n.cache.until \in Nat
  BY <1>1, <1>2 DEF NodeTrue, CacheTrue, CheckingTrue
<1>4. /\ m.at = n.at /\ m.cache = n.cache /\ m.job = n.job
      /\ m.values = n.values /\ m.checks = n.checks
      /\ m.awaits = n.awaits \cup {slot} /\ m.seen = n.seen
  BY <1>1 DEF IsNode
<1> PICK Y : Y = WaitOf(q, slot)
  OBVIOUS
<1>5. NodeSound(m) /\ KeepsMail(n, m, Y) /\ AwaitsNoMore(q, n, m, Y)
  <2>1. NodeSound(m) /\ KeepsMail(n, m, Y)
    BY <1>1, <1>2, <1>4 DEF NodeSound, KeepsMail, HasCall, HasCheck, CallsAt, ChecksAt
  <2>2. AwaitsNoMore(q, n, m, Y)
    BY <1>4 DEF AwaitsNoMore, WaitOf
  <2> QED
    BY <2>1, <2>2
<1>6. q \in Queries \ D /\ q \notin E
  BY <1>1, <1>2, LivesNotDead
<1>7. LifeBut(ms, root, D, E, Gone, Y)
  BY <1>1, <1>5, <1>6, OneLives
<1>8. ms[q] = m /\ ms = [p \in Queries |-> ms[p]] /\ \A p \in Queries : IsNode(ms[p])
  <2>1. IsNode(m)
    BY <1>1 DEF IsNode
  <2> QED
    BY <1>1, <2>1
<1>9. [node EXCEPT ![q].sent = slot, ![q].awaits = @ \cup {slot}] = ms
  BY <1>1
<1>10. AwaitsVerdictOf(ms, root, dep, q, slot)
  BY <1>2, <1>4, <1>8, CallersDiffer DEF AwaitsVerdictOf, AwaitsValue, AwaitsVerdict
<1>11. CASE dep \in Inputs
  <2>1. ks = ms
    BY <1>9, <1>11 DEF SendCheck
  <2>2. \A d \in Queries \ D : ~AwaitsValue(ms, root, d, q, slot) /\ ~AwaitsVerdict(ms, d, q, slot)
    BY <1>10, <1>11, QueryNoInput DEF AwaitsVerdictOf
  <2>3. LifeBut(ms, root, D, E, Gone, {})
    BY <1>7, <2>2, Discharged
  <2> QED
    BY <1>2, <2>1, <2>3, SameRoots
<1>12. CASE dep \notin Inputs
  <2> PICK r : r = [by |-> q, slot |-> slot, past |-> n.cache.until]
    OBVIOUS
  <2>1. dep \in Queries \ D
    <3>1. slot \in DOMAIN n.cache.deps
      BY <1>2, <1>3
    <3> QED
      BY <1>2, <1>3, <1>12, <3>1 DEF Nodes
  <2>2. r \in CheckRequest /\ r.by = q /\ r.slot = slot
    BY <1>3 DEF CheckRequest, Requesters
  <2>3. ks = [ms EXCEPT ![dep] = [ms[dep] EXCEPT !.checks = Append(@, r)]]
    <3>1. ks = [ms EXCEPT ![dep].checks = Append(@, r)]
      BY <1>9, <1>12 DEF SendCheck
    <3> QED
      BY <3>1
  <2>4. LifeBut(ms, root, D, E, Gone, WaitOf(r.by, r.slot)) /\ AwaitsVerdictOf(ms, root, dep, r.by, r.slot)
    BY <1>7, <1>10, <2>2
  <2>5. LifeBut(ks, root, D, E, Gone, {})
    <3>1. IsNode(ms[dep])
      BY <1>8, <2>1
    <3> QED
      BY ONLY <1>8, <2>1, <2>2, <2>3, <2>4, <3>1, SentCheckLives
  <2> QED
    BY <1>2, <2>5, SameRoots
<1> QED
  BY <1>11, <1>12

LEMMA CallQueryLives ==
    ASSUME NEW D, LifeNow(D, {}), NEW q \in Queries, CallQuery(q),
           \A k \in node'[q].awaits : NextReads(q, node[q].seen)[k] \notin D
    PROVE  LifeNext1(D, {})
<1> PICK ks : ks = node'
  OBVIOUS
<1>1. PICK slot \in Wanted(q) :
          /\ NextReads(q, node[q].seen)[slot] \in Queries
          /\ ks = SendValueRequest([node EXCEPT ![q].awaits = @ \cup {slot}],
                                   NextReads(q, node[q].seen)[slot], q, slot)
  BY DEF CallQuery
<1> PICK n, d : n = node[q] /\ d = NextReads(q, n.seen)[slot]
  OBVIOUS
<1> PICK m : m = [n EXCEPT !.awaits = @ \cup {slot}]
  OBVIOUS
<1> PICK ms : ms = [node EXCEPT ![q] = m]
  OBVIOUS
<1>2. /\ NodeTrue(q, n) /\ IsNode(n) /\ NodeSound(n) /\ node = [p \in Queries |-> node[p]]
      /\ \A p \in Queries : NodeTrue(p, node[p])
      /\ LifeBut(node, root, D, {}, Gone, {})
  BY Now
<1>3. n.at = "evaluating"
  BY DEF Wanted
<1>4. /\ IsNode(m) /\ m.at = n.at /\ m.cache = n.cache /\ m.job = n.job
      /\ m.values = n.values /\ m.checks = n.checks
      /\ m.awaits = n.awaits \cup {slot} /\ m.seen = n.seen
  BY <1>2 DEF IsNode
<1> PICK Y : Y = WaitOf(q, slot)
  OBVIOUS
<1>5. NodeSound(m) /\ KeepsMail(n, m, Y) /\ AwaitsNoMore(q, n, m, Y)
  <2>1. NodeSound(m) /\ KeepsMail(n, m, Y)
    BY <1>2, <1>3, <1>4 DEF NodeSound, KeepsMail, HasCall, HasCheck, CallsAt, ChecksAt
  <2>2. AwaitsNoMore(q, n, m, Y)
    BY <1>4 DEF AwaitsNoMore, WaitOf
  <2> QED
    BY <2>1, <2>2
<1>6. q \in Queries \ D
  BY <1>2, <1>3, LivesNotDead
<1>7. LifeBut(ms, root, D, {}, Gone, Y)
  BY <1>2, <1>5, <1>6, OneLives
<1>8. ms[q] = m /\ ms = [p \in Queries |-> ms[p]] /\ \A p \in Queries \ {q} : ms[p] = node[p]
  BY <1>2
<1>9. [node EXCEPT ![q].awaits = @ \cup {slot}] = ms
  BY <1>2
<1>10. ks = SendValueRequest(ms, d, q, slot) /\ d \in Queries
  BY <1>1, <1>9
<1>11. AwaitsValueOf(ms, root, d, q, slot)
  BY <1>3, <1>4, <1>8, CallersDiffer DEF AwaitsValueOf, AwaitsValue, AwaitsVerdict
<1>12. slot \in ks[q].awaits
  <2>1. CASE d = q
    <3>1. ks = [ms EXCEPT ![q] = [m EXCEPT !.values = Append(@, [by |-> q, slot |-> slot])]]
      BY <1>3, <1>4, <1>8, <1>10, <2>1 DEF SendValueRequest
    <3> PICK k : k = [m EXCEPT !.values = Append(@, [by |-> q, slot |-> slot])]
      OBVIOUS
    <3>2. k.awaits = m.awaits
      BY <1>4 DEF IsNode
    <3>3. ks[q] = k
      BY <1>8, <3>1
    <3> QED
      BY <1>4, <3>2, <3>3
  <2>2. CASE d # q
    <3>1. ks[q] = ms[q]
      BY <1>8, <1>10, <2>2 DEF SendValueRequest
    <3> QED
      BY <1>4, <1>8, <3>1
  <2> QED
    BY <2>1, <2>2
<1>13. d \in Queries \ D
  BY <1>10, <1>12
<1>14. NodeTrue(d, ms[d])
  <2>1. NodesTrue(node, root) /\ WorldTrue
    BY Now
  <2>2. EvaluatingTrue(q, n) /\ slot \in DOMAIN NextReads(q, n.seen) \ DOMAIN n.got
    BY <1>2, <1>3 DEF NodeTrue, Wanted
  <2>3. m.got = n.got /\ m.deps = n.deps /\ m.since = n.since /\ m.selection = n.selection
    BY <1>2 DEF IsNode
  <2>4. EvaluatingTrue(q, m)
    BY <1>4, <2>2, <2>3 DEF EvaluatingTrue
  <2>5. NodeTrue(q, m)
    BY <1>2, <1>3, <1>4, <2>4 DEF NodeTrue
  <2> QED
    BY <1>2, <1>8, <1>10, <2>5
<1>15. LifeBut(ks, root, D, {}, Gone, {})
  <2>1. LifeBut(ms, root, D, {}, Gone, WaitOf(q, slot))
    BY <1>7
  <2> QED
    BY ONLY <1>8, <1>10, <1>11, <1>13, <1>14, <2>1, SentValueLives
<1> QED
  BY <1>15, SameRoots DEF CallQuery

-----------------------------------------------------------------------------
(* The steps of callers, and the end of a node.                              *)

LEMMA AskLives ==
    ASSUME NEW D, LifeNow(D, {}), NEW c \in Callers, NEW q \in Called, Ask(c, q), q \notin D
    PROVE  LifeTrue(node', root', D, {})
<1> PICK r : r = [root[c] EXCEPT !.at = "waiting", !.query = q]
  OBVIOUS
<1> PICK rs : rs = [root EXCEPT ![c] = r]
  OBVIOUS
<1> PICK ks, qs, Y : ks = node' /\ qs = root' /\ Y = WaitOf(c, 1)
  OBVIOUS
<1>1. /\ NodesTrue(node, root) /\ node = [p \in Queries |-> node[p]]
      /\ \A p \in Queries : NodeTrue(p, node[p])
      /\ LifeBut(node, root, D, {}, Gone, {})
  BY Now
<1>2. qs = rs /\ ks = SendValueRequest(node, q, c, 1)
  BY DEF Ask
<1>3. q \in Queries \ D
  BY QueryAssumption
<1>4. RootTrue(root[c]) /\ root = [a \in Callers |-> root[a]]
  BY <1>1 DEF NodesTrue
<1>5. r.at = "waiting" /\ r.query = q
  BY <1>4 DEF RootTrue
<1>6. LifeBut(node, rs, D, {}, Gone, Y)
  <2>1. (r.at = "answered" => r.value # Panicked) /\ <<c, 1>> \in Y
    BY <1>5 DEF WaitOf
  <2> QED
    BY <1>1, <2>1, OneCallerLives
<1>7. rs[c] = r
  BY <1>4
<1>8. AwaitsValueOf(node, rs, q, c, 1)
  BY <1>5, <1>7, CallersDiffer DEF AwaitsValueOf, AwaitsValue, AwaitsVerdict
<1>9. LifeBut(ks, rs, D, {}, Gone, {})
  <2>1. LifeBut(node, rs, D, {}, Gone, WaitOf(c, 1)) /\ NodeTrue(q, node[q])
    BY <1>1, <1>3, <1>6
  <2> QED
    BY ONLY <1>1, <1>2, <1>3, <1>8, <2>1, SentValueLives
<1> QED
  BY <1>2, <1>9, NoExceptions

(* A caller fails or goes, nothing changes at the nodes.                     *)
LEMMA GoneLives ==
    ASSUME NEW D, LifeNow(D, {}), NEW c \in Callers, NEW r, r.at \notin {"waiting", "answered"},
           NEW qs, qs = [root EXCEPT ![c] = r]
    PROVE  LifeBut(node, qs, D, {}, Gone, {})
<1>1. NodesTrue(node, root) /\ LifeBut(node, root, D, {}, Gone, {})
  BY Now
<1>2. /\ r.at = "answered" => r.value # Panicked
      /\ r.at = "waiting" => <<c, 1>> \in {}
  OBVIOUS
<1> QED
  BY <1>1, <1>2, OneCallerLives

LEMMA FailLives ==
    ASSUME NEW D, LifeNow(D, {}), NEW c \in Callers, NEW q, Fails(c, q), node' = node
    PROVE  LifeTrue(node', root', D, {})
<1> PICK r : r = [NotAsking EXCEPT !.at = "failed", !.query = q]
  OBVIOUS
<1> PICK qs : qs = root'
  OBVIOUS
<1>1. qs = [root EXCEPT ![c] = r] /\ r.at = "failed"
  BY DEF Fails, NotAsking
<1>2. LifeBut(node, qs, D, {}, Gone, {})
  BY <1>1, GoneLives
<1> QED
  BY <1>2, NoExceptions

LEMMA LeaveLives ==
    ASSUME NEW D, LifeNow(D, {}), NEW c \in Callers,
           root' = [root EXCEPT ![c] = NotAsking], node' = node
    PROVE  LifeTrue(node', root', D, {})
<1> PICK r, qs : r = NotAsking /\ qs = root'
  OBVIOUS
<1>1. qs = [root EXCEPT ![c] = r] /\ r.at = "idle"
  BY DEF NotAsking
<1>2. LifeBut(node, qs, D, {}, Gone, {})
  BY <1>1, GoneLives
<1> QED
  BY <1>2, NoExceptions

LEMMA AbandonLives ==
    ASSUME NEW D, LifeNow(D, {}), NEW c \in Callers,
           root' = [root EXCEPT ![c] = NotAsking], node' = Forget(node, c)
    PROVE  LifeTrue(node', root', D, {})
<1> PICK r, qs, ks : r = NotAsking /\ qs = root' /\ ks = node'
  OBVIOUS
<1>1. qs = [root EXCEPT ![c] = r] /\ r.at = "idle"
  BY DEF NotAsking
<1>2. LifeBut(node, qs, D, {}, Gone, {})
  BY <1>1, GoneLives
<1>3. \A p \in Queries : IsNode(node[p])
  BY Now
<1>4. qs[c] = r
  BY <1>1, Now DEF NodesTrue
<1>5. AwaitsNothing(node, qs, c)
  BY <1>1, <1>4, CallersDiffer DEF AwaitsNothing, AwaitsValue, AwaitsVerdict
<1>6. LifeBut(ks, qs, D, {}, Gone, {})
  BY <1>2, <1>3, <1>5, ForgetLives
<1> QED
  BY <1>6, NoExceptions

LEMMA DieLives ==
    ASSUME NEW D, LifeNow(D, {}), NEW q \in Queries, NEW C, C = D \cup {q},
           node' = Forget([node EXCEPT ![q] = Absent], q), root' = root
    PROVE  LifeTrue(node', root', C, {})
<1> PICK ms, ks : ms = [node EXCEPT ![q] = Absent] /\ ks = node'
  OBVIOUS
<1>1. /\ node = [p \in Queries |-> node[p]] /\ \A p \in Queries : IsNode(node[p])
      /\ LifeBut(node, root, D, {}, Gone, {})
  BY Now
<1>2. ms[q] = Absent /\ \A p \in Queries \ {q} : ms[p] = node[p]
  BY <1>1
<1>3. /\ Absent.at = "absent" /\ Absent.awaits = {} /\ NodeSound(Absent)
  BY DEF Absent, NoJob, NodeSound
<1>4. \A p \in Queries : IsNode(ms[p])
  BY <1>1, <1>2, AbsentTrue DEF NodeTrue
<1>5. MetBut(ms, root, C, {})
  <2> SUFFICES ASSUME NEW d \in Queries \ C, NEW by, NEW slot
               PROVE  /\ AwaitsValue(ms, root, d, by, slot) => HasCall(ms[d], by, slot)
                      /\ AwaitsVerdict(ms, d, by, slot) => HasCheck(ms[d], by, slot)
    BY DEF MetBut
  <2>1. d \in Queries \ D /\ ms[d] = node[d]
    BY <1>2
  <2>2. /\ AwaitsValue(node, root, d, by, slot) => HasCall(node[d], by, slot)
        /\ AwaitsVerdict(node, d, by, slot) => HasCheck(node[d], by, slot)
    BY <1>1, <2>1 DEF LifeBut, MetBut
  <2>3. /\ AwaitsValue(ms, root, d, by, slot) => AwaitsValue(node, root, d, by, slot)
        /\ AwaitsVerdict(ms, d, by, slot) => AwaitsVerdict(node, d, by, slot)
    BY <1>2, <1>3 DEF AwaitsValue, AwaitsVerdict
  <2> QED
    BY <2>1, <2>2, <2>3
<1>6. LifeBut(ms, root, C, {}, Gone, {})
  <2>1. C \subseteq Queries /\ {} \subseteq Queries
    BY <1>1 DEF LifeBut
  <2>2. \A p \in C : ms[p] = Absent
    BY <1>1, <1>2 DEF LifeBut
  <2>3. \A p \in Queries \ {Gone} : NodeSound(ms[p])
    BY <1>1, <1>2, <1>3 DEF LifeBut
  <2>4. \A c \in Callers : root[c].at = "answered" => root[c].value # Panicked
    BY <1>1 DEF LifeBut
  <2> QED
    BY <1>5, <2>1, <2>2, <2>3, <2>4 DEF LifeBut
<1>7. AwaitsNothing(ms, root, q)
  BY <1>2, <1>3, CallersDiffer DEF AwaitsNothing, AwaitsValue, AwaitsVerdict
<1>8. LifeBut(ks, root, C, {}, Gone, {})
  BY <1>4, <1>6, <1>7, ForgetLives
<1> QED
  BY <1>8, NoExceptions
-----------------------------------------------------------------------------
(* Reasons of deaths.                                                        *)

DeathCaused(q) == \A S \in SUBSET ((Queries \ {q}) \X (0 .. frame)) : ~HasAllReasons(S)

LEMMA CauseStays ==
    ASSUME NEW q, DeathCaused(q), frame' = frame, log' = log
    PROVE  DeathCaused(q)'
  BY DEF DeathCaused, HasAllReasons, Meaning, CallsIn

(* Reasons in past frames are the same in the next one.                      *)
LEMMA CauseAges ==
    ASSUME WorldTrue, NewWorld, NEW q, DeathCaused(q)
    PROVE  DeathCaused(q)'
<1> SUFFICES ASSUME NEW S \in SUBSET ((Queries \ {q}) \X (0 .. frame')), HasAllReasons(S)'
             PROVE  FALSE
  BY DEF DeathCaused
<1> PICK T : T = {x \in S : x[2] \in 0 .. frame}
  OBVIOUS
<1>1. frame \in Nat /\ frame' = frame + 1 /\ \A f \in 0 .. frame : log'[f] = log[f]
  BY DEF NewWorld
<1>2. T \in SUBSET ((Queries \ {q}) \X (0 .. frame))
  OBVIOUS
<1>3. ASSUME NEW p \in Queries, NEW f \in 0 .. frame
      PROVE  \/ <<p, f>> \in T
             \/ /\ Meaning(p, f) # Panicked
                /\ \A d \in CallsIn(p, f), g \in 0 .. f : <<d, g>> \notin T
  <2>1. f \in 0 .. frame' /\ log'[f] = log[f]
    BY <1>1
  <2>2. \/ <<p, f>> \in S
        \/ /\ Meaning(p, f)' # Panicked
           /\ \A d \in CallsIn(p, f)', g \in 0 .. f : <<d, g>> \notin S
    BY <2>1 DEF HasAllReasons
  <2>3. Meaning(p, f)' = Meaning(p, f) /\ CallsIn(p, f)' = CallsIn(p, f)
    BY <2>1 DEF Meaning, CallsIn
  <2>4. (<<p, f>> \in S => <<p, f>> \in T) /\ T \subseteq S
    OBVIOUS
  <2> QED
    BY <2>2, <2>3, <2>4
<1>4. HasAllReasons(T)
  BY <1>3 DEF HasAllReasons
<1> QED
  BY <1>2, <1>4 DEF DeathCaused

(* A tenant that panics: evaluating its query from nothing panics.           *)
LEMMA PanicMeans ==
    ASSUME WorldTrue, NEW q \in Queries, NEW n, EvaluatingTrue(q, n), Panics(q, n.seen)
    PROVE  Meaning(q, frame) = Panicked
<1>1. log[frame] \in Worlds /\ q \notin Inputs
  BY WorldOf, FrameNat, QueryNoInput
<1>2. n.seen \in Path(q, log[frame])
  BY EvaluationOnPath
<1>3. NextReads(q, n.seen) = <<>> /\ Result(q, n.seen) = Panicked
  BY <1>1, <1>2, PanicAssumption
<1>4. Eval(q, n.seen, log[frame]) = Panicked
  BY <1>1, <1>2, <1>3, MeaningAssumption
<1>5. LeadTo(q, n.deps, frame, n.seen)
  BY DEF EvaluatingTrue
<1>6. Eval(q, <<>>, log[frame]) = Eval(q, n.seen, log[frame])
  BY <1>1, <1>5 DEF LeadTo, Meaning
<1> QED
  BY <1>1, <1>4, <1>6 DEF Meaning, ValueIn

LEMMA PanicCauses ==
    ASSUME WorldTrue, NEW q \in Queries, NEW n, EvaluatingTrue(q, n), Panics(q, n.seen)
    PROVE  DeathCaused(q)
<1> SUFFICES ASSUME NEW S \in SUBSET ((Queries \ {q}) \X (0 .. frame)), HasAllReasons(S)
             PROVE  FALSE
  BY DEF DeathCaused
<1>1. frame \in 0 .. frame /\ Meaning(q, frame) = Panicked
  BY FrameNat, PanicMeans
<1>2. <<q, frame>> \in S
  BY <1>1 DEF HasAllReasons
<1> QED
  BY <1>2

LEMMA RefusalCauses ==
    ASSUME WorldTrue, NEW q \in Queries, NEW n, EvaluatingTrue(q, n),
           NEW slot \in DOMAIN NextReads(q, n.seen), NEW d \in Queries,
           d = NextReads(q, n.seen)[slot], DeathCaused(d)
    PROVE  DeathCaused(q)
<1> SUFFICES ASSUME NEW S \in SUBSET ((Queries \ {q}) \X (0 .. frame)), HasAllReasons(S)
             PROVE  FALSE
  BY DEF DeathCaused
<1>1. frame \in 0 .. frame /\ <<q, frame>> \notin S
  BY FrameNat
<1>2. n.seen \in Path(q, log[frame])
  BY EvaluationOnPath
<1>3. d \in CallsIn(q, frame)
  BY <1>2 DEF CallsIn
<1>4. \A g \in 0 .. frame : <<d, g>> \notin S
  BY <1>1, <1>3 DEF HasAllReasons
<1>5. S \in SUBSET ((Queries \ {d}) \X (0 .. frame))
  BY <1>4
<1> QED
  BY <1>5 DEF DeathCaused
-----------------------------------------------------------------------------
(* The invariant.  Unless the runtime was dropped, every node that ended has *)
(* its reason.                                                               *)

LifeInv ==
    /\ QueryInv
    /\ LifeTrue(node, root, dead, {})
    /\ owner => \A q \in dead : DeathCaused(q)

(* The frame goes on, and so does what is true of all nodes.                 *)
SameFrame == NodesTrue(node', root') /\ UNCHANGED world /\ known \subseteq known'

LEMMA LifeMovesOn ==
    ASSUME LifeTrue(node', root', dead', {})
    PROVE  LifeTrue(node, root, dead, {})'
<1> PICK ns, rs, C : ns = node' /\ rs = root' /\ C = dead'
  OBVIOUS
<1>1. LifeTrue(ns, rs, C, {})
  OBVIOUS
<1>2. LifeTrue(ns, rs, C, {})'
  BY <1>1 DEF LifeTrue, LifeBut, MetBut, NodeSound, AwaitsValue, AwaitsVerdict,
     HasCall, HasCheck, CallsAt, ChecksAt
<1> QED
  BY <1>2 DEF LifeTrue

LEMMA FrameMovesOn ==
    ASSUME QueryInv, SameFrame
    PROVE  QueryInv' /\ frame' = frame /\ log' = log
  BY NodesMoveOn, WorldMovesOn DEF QueryInv, SameFrame, world

(* A step in which nothing ends.                                             *)
LEMMA NothingEnds ==
    ASSUME LifeInv, SameFrame, LifeTrue(node', root', dead, {}), dead' = dead, owner' = owner
    PROVE  LifeInv'
<1>1. QueryInv' /\ frame' = frame /\ log' = log
  BY FrameMovesOn DEF LifeInv
<1>2. LifeTrue(node, root, dead, {})'
  BY LifeMovesOn
<1>3. ASSUME owner', NEW q \in dead' PROVE DeathCaused(q)'
  BY <1>1, <1>3, CauseStays DEF LifeInv
<1> QED
  BY <1>1, <1>2, <1>3 DEF LifeInv

LEMMA UpdatingLives ==
    ASSUME NEW E, LifeNow(dead, E), NEW q \in Queries, Updating(q)
    PROVE  LifeNext1(dead, E) /\ SameFrame
<1>1. SameFrame
  BY StepNode DEF LifeNow, Updating, NodeStep, SameFrame
<1>2. LifeNext1(dead, E)
  BY ServeValueLives, ServeCheckLives, SendCheckLives, InputVerdictLives, FinishCheckLives
     DEF Updating
<1> QED
  BY <1>1, <1>2

LEMMA EvaluatingLives ==
    ASSUME LifeNow(dead, {}), NEW q \in Queries, Evaluating(q)
    PROVE  LifeNext1(dead, {}) /\ SameFrame
<1>1. SameFrame
  BY StepNode DEF LifeNow, Evaluating, NodeStep, SameFrame
<1>2. LifeNext1(dead, {})
  BY ReadInputLives, CallQueryLives, FinishEvaluationLives DEF Evaluating, Group
<1> QED
  BY <1>1, <1>2

LEMMA CheckDeadLives ==
    ASSUME NEW E, LifeNow(dead, E), NEW q \in Queries, CheckDead(q)
    PROVE  LifeNext1(dead, E) /\ SameFrame
<1>1. /\ node[q].at = "checking" /\ root' = root
      /\ UNCHANGED world /\ known' = known
  BY DEF CheckDead
<1>2. PICK slot : node' = TakeVerdict(node, q, slot, [valid |-> FALSE])
  BY DEF CheckDead
<1> PICK verdict : verdict = [valid |-> FALSE]
  OBVIOUS
<1>3. node' = TakeVerdict(node, q, slot, verdict) /\ ~verdict.valid
  BY <1>2
<1>4. LifeNext1(dead, E)
  BY <1>1, <1>3, VerdictComesIn
<1>5. WorldTrue /\ NodesTrue(node, root)
  BY DEF LifeNow, QueryInv
<1>6. NodesTrue(TakeVerdict(node, q, slot, verdict), root)
  BY <1>3, <1>5, InvalidTaken
<1> QED
  BY <1>1, <1>3, <1>4, <1>6 DEF SameFrame

(* A node ends: for a reason, or because the runtime did.                    *)
LEMMA DieKeeps ==
    ASSUME LifeInv, NEW q \in Queries, Die(q), owner => DeathCaused(q)
    PROVE  LifeInv'
<1>1. /\ node' = Forget([node EXCEPT ![q] = Absent], q) /\ root' = root
      /\ UNCHANGED world /\ known' = known /\ dead' = dead \cup {q} /\ owner' = owner
  BY DEF Die
<1>2. NodesTrue(node, root) /\ LifeNow(dead, {})
  BY DEF LifeInv, QueryInv, LifeNow
<1>3. NodesTrue(Forget([node EXCEPT ![q] = Absent], q), root)
  BY <1>2, DeadTrue
<1>4. SameFrame
  BY <1>1, <1>3 DEF SameFrame
<1>5. QueryInv' /\ frame' = frame /\ log' = log
  BY <1>4, FrameMovesOn DEF LifeInv
<1>6. LifeTrue(node', root', dead', {})
  BY <1>1, <1>2, DieLives
<1>7. ASSUME owner', NEW p \in dead' PROVE DeathCaused(p)'
  <2>1. DeathCaused(p)
    BY <1>1, <1>7 DEF LifeInv
  <2> QED
    BY <1>5, <2>1, CauseStays
<1> QED
  BY <1>5, <1>6, <1>7, LifeMovesOn DEF LifeInv

LEMMA PanicKeeps ==
    ASSUME LifeInv, NEW q \in Queries, Panic(q)
    PROVE  LifeInv'
<1>1. WorldTrue /\ EvaluatingTrue(q, node[q])
  BY DEF LifeInv, QueryInv, NodesTrue, NodeTrue, Panic, Running
<1>2. DeathCaused(q)
  BY <1>1, PanicCauses DEF Panic
<1> QED
  BY <1>2, DieKeeps DEF Panic

LEMMA RefusedKeeps ==
    ASSUME LifeInv, NEW q \in Queries, Refused(q)
    PROVE  LifeInv'
<1>1. node[q].at = "evaluating" /\ Die(q)
  BY DEF Refused, Running
<1>2. WorldTrue /\ EvaluatingTrue(q, node[q])
  BY <1>1 DEF LifeInv, QueryInv, NodesTrue, NodeTrue
<1>3. PICK slot \in Wanted(q) \cup node[q].awaits : Group(q)[slot] \in dead
  BY DEF Refused
<1>4. slot \in DOMAIN NextReads(q, node[q].seen)
  BY <1>2, <1>3 DEF Wanted, EvaluatingTrue
<1>5. PICK d \in dead : d = NextReads(q, node[q].seen)[slot]
  BY <1>3 DEF Group
<1>6. d \in Queries
  BY DEF LifeInv, LifeTrue, LifeBut
<1>7. owner => DeathCaused(d)
  BY DEF LifeInv
<1>8. owner => DeathCaused(q)
  BY <1>2, <1>4, <1>5, <1>6, <1>7, RefusalCauses
<1> QED
  BY <1>1, <1>8, DieKeeps

LEMMA StepLife ==
    ASSUME LifeInv, NEW q \in Queries, LifeStep(q)
    PROVE  LifeInv'
<1>1. LifeNow(dead, {})
  BY DEF LifeInv, LifeNow
<1>2. CASE (Updating(q) \/ Evaluating(q)) /\ KeepHolding /\ UNCHANGED <<owner, dead>>
  BY <1>1, <1>2, UpdatingLives, EvaluatingLives, NothingEnds DEF LifeNext1
<1>3. CASE Panic(q)
  BY <1>3, PanicKeeps
<1>4. CASE Refused(q)
  BY <1>4, RefusedKeeps
<1>5. CASE CheckDead(q)
  <2>1. dead' = dead /\ owner' = owner
    BY <1>5 DEF CheckDead
  <2> QED
    BY <1>1, <1>5, <2>1, CheckDeadLives, NothingEnds DEF LifeNext1
<1>6. CASE Upgrade(q)
  <2>1. /\ frame' = frame /\ input' = input /\ snapshot' = snapshot /\ log' = log
        /\ known' = known /\ node' = node /\ root' = root /\ owner' = owner /\ dead' = dead
    BY <1>6 DEF Upgrade, queryVars
  <2>2. SameFrame
    BY <1>1, <2>1 DEF SameFrame, LifeNow, QueryInv, world
  <2>3. LifeTrue(node', root', dead, {})
    BY <1>1, <2>1 DEF LifeNow
  <2> QED
    BY <2>1, <2>2, <2>3, NothingEnds
<1>7. CASE FailToUpgrade(q) \/ Ends(q)
  BY <1>7, DieKeeps DEF FailToUpgrade, Ends, RuntimeAlive
<1> QED
  BY <1>2, <1>3, <1>4, <1>5, <1>6, <1>7 DEF LifeStep

LEMMA LifeAskKeeps ==
    ASSUME LifeInv, NEW c \in Callers, NEW q \in Called, LifeAsk(c, q)
    PROVE  LifeInv'
<1>1. LifeNow(dead, {}) /\ NodesTrue(node, root) /\ q \in Queries
  BY QueryAssumption DEF LifeInv, LifeNow, QueryInv
<1>2. owner' = owner /\ dead' = dead
  BY DEF LifeAsk
<1>3. CASE q \in dead
  <2>1. /\ root[c].at = "idle" /\ Fails(c, q)
        /\ UNCHANGED world /\ known' = known /\ node' = node
    BY <1>3 DEF LifeAsk
  <2>2. NodesTrue(node', root')
    BY <1>1, <2>1, FailedTrue DEF Fails
  <2>3. SameFrame
    BY <2>1, <2>2 DEF SameFrame
  <2>4. LifeTrue(node', root', dead, {})
    BY <1>1, <2>1, FailLives
  <2> QED
    BY <1>2, <2>3, <2>4, NothingEnds
<1>4. CASE q \notin dead
  <2>1. Ask(c, q)
    BY <1>4 DEF LifeAsk
  <2>2. UNCHANGED world /\ known' = known
    BY <2>1 DEF Ask
  <2>3. SameFrame
    BY <2>1, <2>2, StepAsk DEF SameFrame, LifeInv
  <2>4. LifeTrue(node', root', dead, {})
    BY <1>1, <1>4, <2>1, AskLives
  <2> QED
    BY <1>2, <2>3, <2>4, NothingEnds
<1> QED
  BY <1>3, <1>4

LEMMA LostAnswerKeeps ==
    ASSUME LifeInv, NEW c \in Callers, LostAnswer(c)
    PROVE  LifeInv'
<1>1. LifeNow(dead, {}) /\ NodesTrue(node, root)
  BY DEF LifeInv, LifeNow, QueryInv
<1> PICK q : q = root[c].query
  OBVIOUS
<1>2. /\ root[c].at = "waiting" /\ q \in dead /\ Fails(c, q)
      /\ UNCHANGED world /\ known' = known /\ node' = node
      /\ owner' = owner /\ dead' = dead
  BY DEF LostAnswer
<1>3. q \in Queries /\ node[q] = Absent
  BY <1>2 DEF LifeInv, LifeTrue, LifeBut
<1>4. NoRequest(node, c, 1)
  BY <1>1, <1>3, CallerUnasked
<1>5. NodesTrue(node', root')
  BY <1>1, <1>2, <1>4, FailedTrue DEF Fails
<1>6. SameFrame
  BY <1>2, <1>5 DEF SameFrame
<1>7. LifeTrue(node', root', dead, {})
  BY <1>1, <1>2, FailLives
<1> QED
  BY <1>2, <1>6, <1>7, NothingEnds

LEMMA GoesKeeps ==
    ASSUME LifeInv, NEW c \in Callers, Abandon(c) \/ Leave(c) \/ Recover(c),
           UNCHANGED <<owner, dead, holding>>
    PROVE  LifeInv'
<1>1. LifeNow(dead, {}) /\ NodesTrue(node, root)
  BY DEF LifeInv, LifeNow, QueryInv
<1>2. owner' = owner /\ dead' = dead
  OBVIOUS
<1>3. root' = [root EXCEPT ![c] = NotAsking] /\ UNCHANGED world /\ known' = known
  BY DEF Abandon, Leave, Recover
<1>4. CASE Abandon(c)
  <2>1. node' = Forget(node, c)
    BY <1>4 DEF Abandon
  <2>2. SameFrame
    BY <1>1, <1>3, <2>1, AbandonTrue DEF SameFrame
  <2>3. LifeTrue(node', root', dead, {})
    BY <1>1, <1>3, <2>1, AbandonLives
  <2> QED
    BY <1>2, <2>2, <2>3, NothingEnds
<1>5. CASE Leave(c) \/ Recover(c)
  <2>1. node' = node /\ root[c].at # "waiting"
    BY <1>5 DEF Leave, Recover
  <2>2. RootTrue(NotAsking)
    BY DEF NotAsking, RootTrue
  <2>3. NodesTrue(node', root')
    BY <1>1, <1>3, <2>1, <2>2, OneRoot
  <2>4. SameFrame
    BY <1>3, <2>3 DEF SameFrame
  <2>5. LifeTrue(node', root', dead, {})
    BY <1>1, <1>3, <2>1, LeaveLives
  <2> QED
    BY <1>2, <2>4, <2>5, NothingEnds
<1> QED
  BY <1>4, <1>5

LEMMA LifeInvStarts == LifeInit => LifeInv
<1> SUFFICES ASSUME LifeInit PROVE LifeInv
  OBVIOUS
<1>1. QueryInv /\ dead = {}
  BY QueryInvStarts DEF LifeInit
<1>2. node = [q \in Queries |-> Absent] /\ root = [c \in Callers |-> NotAsking]
  BY DEF LifeInit, QueryInit
<1>3. NodeSound(Absent)
  BY DEF NodeSound, Absent, NoJob
<1>4. \A q \in Queries : node[q] = Absent /\ node[q].at = "absent"
  BY <1>2 DEF Absent
<1>5. \A c \in Callers : root[c].at = "idle"
  BY <1>2 DEF NotAsking
<1>6. MetBut(node, root, {}, {})
  BY <1>4, <1>5 DEF MetBut, AwaitsValue, AwaitsVerdict
<1>7. LifeTrue(node, root, {}, {})
  BY <1>3, <1>4, <1>5, <1>6 DEF LifeTrue, LifeBut
<1> QED
  BY <1>1, <1>7 DEF LifeInv

LEMMA LifeInvKept == LifeInv /\ [LifeNext]_lifeVars => LifeInv'
<1> SUFFICES ASSUME LifeInv, [LifeNext]_lifeVars PROVE LifeInv'
  OBVIOUS
<1>1. ASSUME NEW q \in Queries, LifeStep(q) PROVE LifeInv'
  BY <1>1, StepLife
<1>2. ASSUME NEW c \in Callers, CallerStep(c) PROVE LifeInv'
  BY <1>2, LifeAskKeeps, LostAnswerKeeps, GoesKeeps DEF CallerStep
<1>3. CASE NextFrame /\ owner /\ UNCHANGED <<owner, dead, holding>>
  <2>1. QueryInv /\ WorldTrue /\ LifeTrue(node, root, dead, {})
    BY DEF LifeInv, QueryInv
  <2>2. QueryInv'
    BY <1>3, <2>1, WorldGrows, StepNextFrame DEF QueryInv
  <2>3. node' = node /\ root' = root /\ dead' = dead
    BY <1>3 DEF NextFrame
  <2>4. LifeTrue(node, root, dead, {})'
    BY <2>1, <2>3, LifeMovesOn
  <2>5. NewWorld
    BY <1>3, <2>1, FrameMakesWorld
  <2>6. ASSUME NEW q \in dead' PROVE DeathCaused(q)'
    BY <1>3, <2>1, <2>3, <2>5, <2>6, CauseAges DEF LifeInv
  <2> QED
    BY <2>2, <2>4, <2>6 DEF LifeInv
<1>4. CASE DropOwner \/ UNCHANGED lifeVars
  <2>1. /\ frame' = frame /\ input' = input /\ snapshot' = snapshot /\ log' = log
        /\ known' = known /\ node' = node /\ root' = root /\ dead' = dead
    BY <1>4 DEF DropOwner, lifeVars, queryVars
  <2>2. SameFrame
    BY <2>1 DEF SameFrame, LifeInv, QueryInv, world
  <2>3. LifeTrue(node', root', dead', {})
    BY <2>1 DEF LifeInv
  <2>4. owner' => owner
    BY <1>4 DEF DropOwner, lifeVars
  <2>5. ASSUME owner', NEW q \in dead' PROVE DeathCaused(q)'
    BY <2>1, <2>4, <2>5, CauseStays DEF LifeInv
  <2> QED
    BY <2>2, <2>3, <2>5, FrameMovesOn, LifeMovesOn DEF LifeInv
<1> QED
  BY <1>1, <1>2, <1>3, <1>4 DEF LifeNext

LEMMA LifeInvHolds == LifeSpec => []LifeInv
  BY LifeInvStarts, LifeInvKept, PTL DEF LifeSpec

-----------------------------------------------------------------------------
(* What panics and the drop of the runtime leave intact.                     *)

(* A caller gets what evaluating its query from nothing gives, also when     *)
(* nodes end and calls are abandoned meanwhile.                              *)
THEOREM AnswersStayFresh == LifeSpec => []AnswersAreFresh
<1>1. LifeInv => AnswersAreFresh
  BY DEF LifeInv, QueryInv, NodesTrue, RootTrue, AnswersAreFresh
<1> QED
  BY <1>1, LifeInvHolds, PTL

(* No answer, and no cached value in any frame of its range, stands for an   *)
(* evaluation that panics.                                                   *)
THEOREM ValuesSurvive == LifeSpec => []ValuesSurvivePanics
<1>1. ASSUME LifeInv PROVE ValuesSurvivePanics
  <2>1. QueryInv /\ WorldTrue /\ LifeTrue(node, root, dead, {})
    BY <1>1 DEF LifeInv, QueryInv
  <2>2. ASSUME NEW c \in Callers, root[c].at = "answered"
        PROVE  root[c].value = Meaning(root[c].query, frame) /\ root[c].value # Panicked
    BY <2>1, <2>2 DEF QueryInv, NodesTrue, RootTrue, LifeTrue, LifeBut
  <2>3. ASSUME NEW q \in Queries, HasCache(q),
               NEW range, range = node[q].cache.from .. node[q].cache.until
        PROVE  /\ range # {} /\ node[q].cache.value # Panicked
               /\ \A f \in range : Meaning(q, f) = node[q].cache.value
    <3> PICK c : c = node[q].cache
      OBVIOUS
    <3>1. CacheTrue(q, c)
      BY <2>1, <2>3, CachesTrue
    <3>2. c.value # Panicked
      BY <2>1, <2>3 DEF LifeTrue, NodeSound, HasCache
    <3>3. /\ c.from \in Nat /\ c.until \in Nat /\ c.from <= c.until
          /\ \A f \in c.from .. c.until : Meaning(q, f) = c.value
      BY <3>1 DEF CacheTrue
    <3>4. c.from \in c.from .. c.until
      BY <3>3
    <3> QED
      BY <2>3, <3>2, <3>3, <3>4
  <2> QED
    BY <2>2, <2>3 DEF ValuesSurvivePanics
<1> QED
  BY <1>1, LifeInvHolds, PTL

(* A node ends because its own evaluation would panic, or that of a query it *)
(* calls in the same frame would, or ended that node in an earlier one; and  *)
(* nothing is left of it.                                                    *)
THEOREM DeathsHaveReasons == LifeSpec => []DeathHasReason
<1>1. LifeInv => DeathHasReason
  BY DEF LifeInv, LifeTrue, LifeBut, DeathCaused, DeathHasReason
<1> QED
  BY <1>1, LifeInvHolds, PTL

LEMMA HasCallAsked ==
    ASSUME NEW d, NEW by, NEW slot
    PROVE  /\ HasCall(node[d], by, slot) => Asked(d, "value", by, slot)
           /\ HasCheck(node[d], by, slot) => Asked(d, "check", by, slot)
  BY DEF HasCall, HasCheck, CallsAt, ChecksAt, Asked

(* Every reply awaited is owed by a node that has the request, or by one     *)
(* that ended.                                                               *)
THEOREM EveryWaitIsOwed == LifeSpec => []EveryWaitHasRequest
<1>1. ASSUME LifeInv PROVE EveryWaitHasRequest
  <2>1. /\ \A q \in Queries : NodeTrue(q, node[q]) /\ NodeSound(node[q])
        /\ MetBut(node, root, dead, {})
        /\ \A c \in Callers : RootTrue(root[c])
    BY <1>1 DEF LifeInv, QueryInv, NodesTrue, LifeTrue, LifeBut
  <2>2. ASSUME NEW c \in Callers, root[c].at = "waiting"
        PROVE  root[c].query \in dead \/ Asked(root[c].query, "value", c, 1)
    <3> PICK d : d = root[c].query
      OBVIOUS
    <3>1. d \in Queries
      BY <2>1, <2>2, QueryAssumption DEF RootTrue
    <3>2. AwaitsValue(node, root, d, c, 1)
      BY <2>2 DEF AwaitsValue
    <3>3. d \notin dead => HasCall(node[d], c, 1)
      BY <2>1, <3>1, <3>2 DEF MetBut
    <3> QED
      BY <3>3, HasCallAsked
  <2>3. ASSUME NEW q \in Queries, NEW slot \in node[q].awaits, node[q].at = "evaluating",
               NEW d, d = Group(q)[slot]
        PROVE  d \in Inputs \cup dead \/ Asked(d, "value", q, slot)
    <3>1. EvaluatingTrue(q, node[q])
      BY <2>1, <2>3 DEF NodeTrue
    <3>2. slot \in DOMAIN Group(q) /\ Group(q) \in Seq(Nodes)
      BY <1>1, <3>1, EvaluationOnPath DEF LifeInv, QueryInv, EvaluatingTrue, Group
    <3>3. d \in Inputs \cup Queries
      BY <2>3, <3>2 DEF Nodes
    <3>4. AwaitsValue(node, root, d, q, slot)
      BY <2>3 DEF AwaitsValue, Group
    <3>5. d \in Queries \ dead => HasCall(node[d], q, slot)
      BY <2>1, <3>4 DEF MetBut
    <3> QED
      BY <3>3, <3>5, HasCallAsked
  <2>4. ASSUME NEW q \in Queries, NEW slot \in node[q].awaits, node[q].at # "evaluating",
               NEW d, d = node[q].cache.deps[slot]
        PROVE  d \in Inputs \cup dead \/ Asked(d, "check", q, slot)
    <3>1. node[q].at = "checking"
      BY <2>1, <2>4 DEF NodeSound, NodeTrue, IsNode
    <3> PICK n : n = node[q]
      OBVIOUS
    <3>2. n.job.kind # "spawn" /\ CheckingTrue(n)
      BY <2>1, <3>1 DEF NodeTrue
    <3>3. CacheTrue(q, n.cache)
      BY <2>1, <3>2 DEF NodeTrue
    <3>4. n.sent \in 0 .. Len(n.cache.deps) /\ slot \in 1 .. n.sent
      BY <2>4, <3>2 DEF CheckingTrue
    <3>5. n.cache.deps \in Seq(Nodes)
      BY <3>3 DEF CacheTrue
    <3>6. n.cache.deps[slot] \in Nodes
      BY <3>4, <3>5
    <3>7. d \in Inputs \cup Queries
      BY <2>4, <3>6 DEF Nodes
    <3>8. AwaitsVerdict(node, d, q, slot)
      BY <2>4, <3>1 DEF AwaitsVerdict
    <3>9. d \in Queries \ dead => HasCheck(node[d], q, slot)
      BY <2>1, <3>8 DEF MetBut
    <3> QED
      BY <3>7, <3>9, HasCallAsked
  <2>5. ASSUME NEW q \in Queries, NEW slot \in node[q].awaits
        PROVE  LET kind == IF node[q].at = "evaluating" THEN "value" ELSE "check"
                   d    == IF kind = "value" THEN Group(q)[slot] ELSE node[q].cache.deps[slot]
               IN  d \in Inputs \cup dead \/ Asked(d, kind, q, slot)
    <3>1. CASE node[q].at = "evaluating"
      BY <2>3, <3>1
    <3>2. CASE node[q].at # "evaluating"
      BY <2>4, <3>2
    <3> QED
      BY <3>1, <3>2
  <2> QED
    BY <2>2, <2>5 DEF EveryWaitHasRequest
<1> QED
  BY <1>1, LifeInvHolds, PTL

-----------------------------------------------------------------------------
(* The drop of the runtime, if no evaluation panics.                         *)

NothingPanics == \A q \in Queries, in \in Worlds : Eval(q, <<>>, in) # Panicked

(* The first node that ends finds the runtime gone, and nobody brings it     *)
(* back: nodes that do not evaluate have no Arc, and none starts to.         *)
DropInv ==
    /\ NothingPanics
    /\ dead # {} => ~RuntimeAlive
    /\ \A c \in Callers : root[c].at # "failed"

(* The nodes that were not started yet.                                      *)
AbsentOnes == {p \in Queries : node[p].at = "absent"}

LEMMA NoneStarts ==
    ASSUME LifeInv
    PROVE  LifeNow(dead, {}) /\ LifeNow(dead, AbsentOnes)
  BY DEF LifeInv, LifeNow, LifeTrue, LifeBut, AbsentOnes

LEMMA NoneFails ==
    ASSUME DropInv, RootsMove(root, root')
    PROVE  \A c \in Callers : root'[c].at # "failed"
  BY DEF DropInv, RootsMove

LEMMA StaysDown ==
    ASSUME ~RuntimeAlive, LifeNext1(dead, AbsentOnes), KeepHolding, owner' = owner
    PROVE  ~RuntimeAlive'
<1>1. ~owner /\ holding = {} /\ \A c \in Callers : ~HasContext(c)
  BY DEF RuntimeAlive
<1>2. \A p \in AbsentOnes : node'[p].at = "absent"
  BY DEF LifeNext1, LifeTrue, LifeBut
<1>3. holding' = {}
  BY <1>1, <1>2 DEF KeepHolding, AbsentOnes
<1>4. \A c \in Callers : root'[c].at \notin {"waiting", "answered"}
  BY <1>1 DEF LifeNext1, RootsMove, HasContext
<1> QED
  BY <1>1, <1>3, <1>4 DEF RuntimeAlive, HasContext

(* A node that lives does a step.                                            *)
LEMMA LivingDrop ==
    ASSUME DropInv, LifeNext1(dead, AbsentOnes), KeepHolding, owner' = owner, dead' = dead
    PROVE  DropInv'
<1>1. \A c \in Callers : root'[c].at # "failed"
  BY NoneFails DEF LifeNext1
<1>2. dead' # {} => ~RuntimeAlive'
  BY StaysDown DEF DropInv
<1> QED
  BY <1>1, <1>2 DEF DropInv, NothingPanics

(* Nothing ended, and nothing ends.                                          *)
LEMMA NobodyDied ==
    ASSUME DropInv, dead = {}, dead' = dead, \A c \in Callers : root'[c].at # "failed"
    PROVE  DropInv'
  BY DEF DropInv, NothingPanics

(* A node ends as the runtime is gone.                                       *)
LEMMA LastOnes ==
    ASSUME DropInv, ~RuntimeAlive, NEW q \in Queries, Die(q)
    PROVE  DropInv'
<1>1. holding = {} /\ holding' = holding \ {q} /\ owner' = owner /\ root' = root
  BY DEF RuntimeAlive, Die
<1>2. ~RuntimeAlive'
  BY <1>1 DEF RuntimeAlive, HasContext
<1> QED
  BY <1>1, <1>2 DEF DropInv, NothingPanics

LEMMA AliveNoneDead ==
    ASSUME DropInv
    PROVE  /\ RuntimeAlive => dead = {}
           /\ owner => RuntimeAlive
           /\ \A q \in Queries : Running(q) => RuntimeAlive
           /\ \A c \in Callers : HasContext(c) => RuntimeAlive
  BY DEF DropInv, RuntimeAlive, Running

LEMMA DropStep ==
    ASSUME LifeInv, DropInv, NEW q \in Queries, LifeStep(q)
    PROVE  DropInv'
<1>1. LifeNow(dead, {}) /\ LifeNow(dead, AbsentOnes)
  BY NoneStarts
<1>2. CASE Updating(q) /\ KeepHolding /\ UNCHANGED <<owner, dead>>
  BY <1>1, <1>2, UpdatingLives, LivingDrop
<1>3. CASE Evaluating(q) /\ KeepHolding /\ UNCHANGED <<owner, dead>>
  <2>1. dead = {}
    BY <1>3, AliveNoneDead DEF Evaluating
  <2>2. RootsMove(root, root')
    BY <1>1, <1>3, EvaluatingLives DEF LifeNext1
  <2> QED
    BY <1>3, <2>1, <2>2, NoneFails, NobodyDied
<1>4. CASE Panic(q)
  <2>1. WorldTrue /\ EvaluatingTrue(q, node[q]) /\ Panics(q, node[q].seen)
    BY <1>4 DEF LifeInv, QueryInv, NodesTrue, NodeTrue, Panic, Running
  <2>2. Meaning(q, frame) = Panicked /\ log[frame] \in Worlds /\ q \notin Inputs
    BY <2>1, PanicMeans, WorldOf, FrameNat, QueryNoInput
  <2> QED
    BY <2>2 DEF DropInv, NothingPanics, Meaning, ValueIn
<1>5. CASE Refused(q)
  BY <1>5, AliveNoneDead DEF Refused
<1>6. CASE CheckDead(q)
  <2>1. KeepHolding /\ owner' = owner /\ dead' = dead
    BY <1>6 DEF CheckDead
  <2>2. LifeNext1(dead, AbsentOnes)
    BY <1>1, <1>6, CheckDeadLives
  <2> QED
    BY <2>1, <2>2, LivingDrop
<1>7. CASE Upgrade(q)
  <2>1. RuntimeAlive /\ dead' = dead /\ root' = root
    BY <1>7 DEF Upgrade, queryVars
  <2> QED
    BY <2>1, AliveNoneDead, NobodyDied DEF DropInv
<1>8. CASE FailToUpgrade(q) \/ Ends(q)
  BY <1>8, LastOnes DEF FailToUpgrade, Ends
<1> QED
  BY <1>2, <1>3, <1>4, <1>5, <1>6, <1>7, <1>8 DEF LifeStep

LEMMA DropCaller ==
    ASSUME LifeInv, DropInv, NEW c \in Callers, CallerStep(c)
    PROVE  DropInv'
<1>1. root = [a \in Callers |-> root[a]]
  BY DEF LifeInv, QueryInv, NodesTrue
<1>2. CASE \E q \in Called : LifeAsk(c, q)
  <2>1. PICK q \in Called : LifeAsk(c, q)
    BY <1>2
  <2>2. dead = {} /\ dead' = dead
    BY <2>1, AliveNoneDead DEF LifeAsk
  <2>3. Ask(c, q)
    BY <2>1, <2>2 DEF LifeAsk
  <2>4. root' = [root EXCEPT ![c] = [@ EXCEPT !.at = "waiting", !.query = q]]
    BY <2>3 DEF Ask
  <2>5. RootTrue(root[c])
    BY DEF LifeInv, QueryInv, NodesTrue
  <2>6. \A a \in Callers : root'[a].at \in {root[a].at, "waiting"}
    BY <1>1, <2>4, <2>5 DEF RootTrue
  <2> QED
    BY <2>2, <2>6, NobodyDied DEF DropInv
<1>3. CASE LostAnswer(c)
  BY <1>3, AliveNoneDead DEF LostAnswer, HasContext
<1>4. CASE (Abandon(c) \/ Leave(c) \/ Recover(c)) /\ UNCHANGED <<owner, dead, holding>>
  <2>1. HasContext(c) \/ root[c].at = "failed"
    BY <1>4 DEF Abandon, Leave, Recover, HasContext
  <2>2. dead = {} /\ dead' = dead
    BY <1>4, <2>1, AliveNoneDead DEF DropInv
  <2>3. root' = [root EXCEPT ![c] = NotAsking]
    BY <1>4 DEF Abandon, Leave, Recover
  <2>4. \A a \in Callers : root'[a].at \in {root[a].at, "idle"}
    BY <1>1, <2>3 DEF NotAsking
  <2> QED
    BY <2>2, <2>4, NobodyDied DEF DropInv
<1> QED
  BY <1>2, <1>3, <1>4 DEF CallerStep

LEMMA DropKept == LifeInv /\ DropInv /\ [LifeNext]_lifeVars => DropInv'
<1> SUFFICES ASSUME LifeInv, DropInv, [LifeNext]_lifeVars PROVE DropInv'
  OBVIOUS
<1>1. CASE \E q \in Queries : LifeStep(q)
  BY <1>1, DropStep
<1>2. CASE \E c \in Callers : CallerStep(c)
  BY <1>2, DropCaller
<1>3. CASE NextFrame /\ owner /\ UNCHANGED <<owner, dead, holding>>
  <2>1. dead = {} /\ dead' = dead /\ root' = root
    BY <1>3, AliveNoneDead DEF NextFrame
  <2> QED
    BY <2>1, NobodyDied DEF DropInv
<1>4. CASE DropOwner
  <2>1. dead = {} /\ dead' = dead /\ root' = root
    BY <1>4, AliveNoneDead DEF DropOwner, queryVars
  <2> QED
    BY <2>1, NobodyDied DEF DropInv
<1>5. CASE UNCHANGED lifeVars
  <2>1. owner' = owner /\ holding' = holding /\ root' = root /\ dead' = dead
    BY <1>5 DEF lifeVars, queryVars
  <2> QED
    BY <2>1 DEF DropInv, NothingPanics, RuntimeAlive, HasContext
<1> QED
  BY <1>1, <1>2, <1>3, <1>4, <1>5 DEF LifeNext

(* If no evaluation panics on any inputs, no call fails, and no tenant waits *)
(* for a node that ended, whenever the user drops the runtime.               *)
THEOREM DropIsHarmless == NothingPanics /\ LifeSpec => []DropFailsNobody
<1>1. NothingPanics /\ LifeInit => LifeInv /\ DropInv
  <2>1. LifeInit => dead = {} /\ root = [c \in Callers |-> NotAsking]
    BY DEF LifeInit, QueryInit
  <2> QED
    BY <2>1, LifeInvStarts DEF DropInv, NotAsking
<1>2. ASSUME LifeInv, DropInv PROVE DropFailsNobody
  <2>1. ASSUME NEW c \in Callers
        PROVE  root[c].at # "failed" /\ ~(root[c].at = "waiting" /\ root[c].query \in dead)
    BY <1>2, <2>1, AliveNoneDead DEF DropInv, HasContext
  <2>2. ASSUME NEW q \in Queries, Running(q), NEW slot \in node[q].awaits
        PROVE  Group(q)[slot] \notin dead
    BY <1>2, <2>2, AliveNoneDead
  <2> QED
    BY <2>1, <2>2 DEF DropFailsNobody
<1> QED
  BY <1>1, <1>2, LifeInvKept, DropKept, PTL DEF LifeSpec
=============================================================================
