----------------------------- MODULE NestedProofs -----------------------------
(* Theorems about NestedCalls, for any number of calls made within calls.    *)
EXTENDS NestedCalls, ClockProofs

(* A call made in a closure is over before the closure is.                   *)
InsideRunning ==
    /\ within \in [Calls -> Calls \cup {Nobody}]
    /\ \A c \in Calls : within[c] # Nobody => call[within[c]] = "running"

NestedInv == Safety /\ InsideRunning

LEMMA NestedStepIsClock == [NestedNext]_nestedVars => [Next]_vars
<1> SUFFICES ASSUME [NestedNext]_nestedVars PROVE [Next]_vars
  OBVIOUS
<1>1. CASE NestedCaller
  BY <1>1 DEF NestedCaller, AskWithin, Return, Drop, Next, Caller
<1>2. CASE Tasks
  BY <1>2 DEF Tasks, Next
<1>3. CASE UNCHANGED nestedVars
  BY <1>3 DEF nestedVars
<1> QED
  BY <1>1, <1>2, <1>3 DEF NestedNext

(* The clock sees nothing of the nesting: with calls in the closures of      *)
(* calls it is still the clock, and all theorems about it hold.              *)
THEOREM NestedIsClock == NestedSpec => Spec
<1>1. NestedInit => Init
  BY DEF NestedInit
<1> QED
  BY <1>1, NestedStepIsClock, PTL DEF NestedSpec, Spec

-----------------------------------------------------------------------------
(* What the clock does to a call: it serves one that waits, or takes leave   *)
(* of one that was dropped.                                                  *)
ServesOne(x) ==
    /\ Awaits(x)
    /\ \E v \in {"running", "idle"} : call' = [call EXCEPT ![x] = v]

LEMMA TasksServe ==
    ASSUME Safety, Tasks
    PROVE  UNCHANGED call \/ \E x \in Calls : ServesOne(x)
<1> USE DEF Safety
<1>1. ASSUME NEW x \in Calls, Awaits(x), NEW kind, NEW f, NEW s, Grant(x, kind, f, s)
      PROVE  \E y \in Calls : ServesOne(y)
  BY <1>1 DEF Grant, ServesOne
<1>2. CASE JoinQueryPhase
  <2>1. Head(instructions).by \in Calls /\ Awaits(Head(instructions).by)
    BY <1>2, HeadRequest DEF JoinQueryPhase
  <2> QED
    BY <1>1, <1>2, <2>1 DEF JoinQueryPhase
<1>3. CASE NextMutation \/ StartMutation \/ StartQuery
  <2>1. instr.by \in Calls /\ Awaits(instr.by)
    BY <1>3, Requesters DEF NextMutation, StartMutation, UpdateHandles, StartQuery, OneRequest
  <2> QED
    BY <1>1, <1>3, <2>1 DEF NextMutation, StartMutation, StartQuery
<1>4. CASE TakeInstr \/ AskIndexer \/ AskInstants
  BY <1>4 DEF TakeInstr, AskIndexer, AskInstants, callVars
<1>5. CASE IndexerTask
  BY <1>5 DEF IndexerTask, ServeRegistration, NoRegistration, ServeAcquire, PollAgain, callVars
<1> QED
  BY <1>2, <1>3, <1>4, <1>5 DEF Tasks, ClockTask

LEMMA NestedStep == NestedInv /\ [NestedNext]_nestedVars => NestedInv'
<1> SUFFICES ASSUME NestedInv, [NestedNext]_nestedVars PROVE NestedInv'
  OBVIOUS
<1>1. Safety'
  BY NestedStepIsClock, NextSafety DEF NestedInv
<1>2. /\ within \in [Calls -> Calls \cup {Nobody}]
      /\ \A c \in Calls : within[c] # Nobody => call[within[c]] = "running"
      /\ call \in [Calls -> {"idle", "waiting", "cancelled", "running"}]
  BY DEF NestedInv, InsideRunning, Safety, TypeOK
<1>3. ASSUME NEW c \in Calls, NEW kind, NEW outer \in Calls \cup {Nobody},
             AskWithin(c, kind, outer)
      PROVE  InsideRunning'
  <2>1. /\ call[c] = "idle" /\ call' = [call EXCEPT ![c] = "waiting"]
        /\ within' = [within EXCEPT ![c] = outer]
        /\ outer # Nobody => call[outer] = "running"
    BY <1>3 DEF AskWithin, Ask
  <2> QED
    BY <1>2, <2>1 DEF InsideRunning
<1>4. ASSUME NEW c \in Calls, Return(c)
      PROVE  InsideRunning'
  <2>1. /\ call' = [call EXCEPT ![c] = "idle"] /\ within' = [within EXCEPT ![c] = Nobody]
        /\ \A d \in Calls : within[d] # c
    BY <1>4 DEF Return, Finish, Inside
  <2> QED
    BY <1>2, <2>1 DEF InsideRunning
<1>5. ASSUME NEW c \in Calls, Drop(c)
      PROVE  InsideRunning'
  <2>1. /\ call[c] = "waiting" /\ call' = [call EXCEPT ![c] = "cancelled"]
        /\ within' = [within EXCEPT ![c] = Nobody]
    BY <1>5 DEF Drop, Cancel
  <2> QED
    BY <1>2, <2>1 DEF InsideRunning
<1>6. ASSUME call' = call, within' = within
      PROVE  InsideRunning'
  BY <1>2, <1>6 DEF InsideRunning
<1>7. ASSUME Tasks, UNCHANGED within
      PROVE  InsideRunning'
  <2>1. ASSUME NEW x \in Calls, ServesOne(x)
        PROVE  InsideRunning'
    <3>1. /\ call[x] \in {"waiting", "cancelled"} /\ within' = within
          /\ \E v \in {"running", "idle"} : call' = [call EXCEPT ![x] = v]
      BY <1>7, <2>1 DEF ServesOne, Awaits
    <3> QED
      BY <1>2, <3>1 DEF InsideRunning
  <2>2. within' = within
    BY <1>7
  <2> QED
    BY <1>6, <1>7, <2>1, <2>2, TasksServe DEF NestedInv
<1>8. ASSUME UNCHANGED nestedVars
      PROVE  InsideRunning'
  BY <1>6, <1>8 DEF nestedVars, vars, callVars
<1>9. InsideRunning'
  BY <1>3, <1>4, <1>5, <1>7, <1>8 DEF NestedNext, NestedCaller
<1> QED
  BY <1>1, <1>9 DEF NestedInv

LEMMA NestedHolds == NestedSpec => []NestedInv
<1>1. NestedInit => NestedInv
  BY InitSafety DEF NestedInit, NestedInv, InsideRunning
<1> QED
  BY <1>1, NestedStep, PTL DEF NestedSpec

-----------------------------------------------------------------------------
(* Waiting for oneself.                                                      *)

(* The instruction of c, the n-th, is one that needs all tokens back.        *)
Stuck(c, n) == n \in DOMAIN Pending /\ Pending[n].by = c /\ NeedsRelease(n)

(* Nothing gets past the token of the closure around c.                      *)
LEMMA NoRelease ==
    ASSUME NestedInv, NEW c \in Calls, within[c] # Nobody
    PROVE  Live # {} /\ ~AllReleased /\ clockAt \in {"recv", "release"}
<1>1. within[c] \in Calls /\ call[within[c]] = "running"
  BY DEF NestedInv, InsideRunning
<1>2. Live # {}
  BY <1>1 DEF Live, Holds
<1> QED
  BY <1>2, ReleasedMeansQuiet DEF NestedInv, Safety, QuietChange, TypeOK

(* A queued instruction keeps what is queued before it.                      *)
LEMMA StuckStays ==
    ASSUME TypeOK, NEW c, NEW n, Stuck(c, n), phase' = phase,
           UNCHANGED Pending \/ \E r \in Instrs : Pending' = Append(Pending, r)
    PROVE  Stuck(c, n)'
<1>1. Pending \in Seq(Instrs)
  BY PendingType
<1>2. DOMAIN Pending = 1 .. Len(Pending) /\ Len(Pending) \in Nat /\ n \in 1 .. Len(Pending)
  BY <1>1 DEF Stuck
<1>3. \A m \in 1 .. n : m \in DOMAIN Pending
  BY <1>2
<1>4. \A m \in DOMAIN Pending : m \in DOMAIN Pending' /\ Pending'[m] = Pending[m]
  <2>1. CASE UNCHANGED Pending
    BY <2>1
  <2>2. ASSUME NEW r \in Instrs, Pending' = Append(Pending, r)
        PROVE  \A m \in DOMAIN Pending : m \in DOMAIN Pending' /\ Pending'[m] = Pending[m]
    <3>1. /\ DOMAIN Pending' = 1 .. Len(Pending) + 1
          /\ \A m \in DOMAIN Pending : Pending'[m] = Pending[m]
      BY <1>1, <2>2, AppendElements
    <3> QED
      BY <1>2, <3>1
  <2> QED
    BY <2>1, <2>2
<1> QED
  BY <1>2, <1>3, <1>4 DEF Stuck, NeedsRelease

LEMMA SelfWaitStep ==
    ASSUME NestedInv, [NestedNext]_nestedVars, NEW c \in Calls, SelfWait(c)
    PROVE  SelfWait(c)' \/ Drop(c)
<1>1. /\ call[c] = "waiting" /\ within[c] # Nobody
      /\ Live # {} /\ ~AllReleased /\ clockAt \in {"recv", "release"}
  BY NoRelease DEF SelfWait
<1>2. PICK n : Stuck(c, n)
  BY DEF SelfWait, Stuck
<1>3. /\ TypeOK /\ Safety
      /\ within \in [Calls -> Calls \cup {Nobody}]
      /\ call \in [Calls -> {"idle", "waiting", "cancelled", "running"}]
      /\ \A d \in Calls : within[d] # Nobody => call[within[d]] = "running"
  BY DEF NestedInv, InsideRunning, Safety, TypeOK
<1>4. ASSUME call'[c] = "waiting", within'[c] = within[c], NEW m, Stuck(c, m)'
      PROVE  SelfWait(c)'
  BY <1>1, <1>4 DEF SelfWait, Stuck
<1>5. ASSUME call'[c] = "waiting", within'[c] = within[c], phase' = phase,
             UNCHANGED Pending \/ \E r \in Instrs : Pending' = Append(Pending, r)
      PROVE  SelfWait(c)'
  BY <1>2, <1>3, <1>4, <1>5, StuckStays
<1>6. ASSUME NEW d \in Calls, NEW kind \in Kinds, NEW outer, AskWithin(d, kind, outer)
      PROVE  SelfWait(c)'
  <2>1. /\ d # c /\ call'[c] = "waiting" /\ within'[c] = within[c]
        /\ phase' = phase /\ clockAt' = clockAt /\ instr' = instr
        /\ instructions' = Append(instructions, InstrOf(kind, d))
    BY <1>1, <1>3, <1>6 DEF AskWithin, Ask, clockVars
  <2>2. InstrOf(kind, d) \in Instrs
    BY DEF InstrOf, Instrs
  <2>3. Pending' = Append(Pending, InstrOf(kind, d))
    BY <1>3, <1>6, AskRequests DEF AskWithin
  <2> QED
    BY <1>5, <2>1, <2>2, <2>3
<1>7. ASSUME NEW d \in Calls, Return(d) \/ Drop(d), d # c
      PROVE  SelfWait(c)'
  <2>1. /\ call'[c] = "waiting" /\ within'[c] = within[c] /\ phase' = phase
        /\ UNCHANGED <<instructions, clockAt, instr>>
    BY <1>1, <1>3, <1>7 DEF Return, Finish, Drop, Cancel, clockVars
  <2>2. UNCHANGED Pending
    BY <2>1 DEF Pending
  <2> QED
    BY <1>5, <2>1, <2>2
<1>8. ~Return(c)
  BY <1>1 DEF Return, Finish
<1>9. CASE UNCHANGED within /\ JoinQueryPhase
  <2>1. /\ clockAt = "recv" /\ clockAt' = "recv" /\ instructions # <<>>
        /\ instructions' = Tail(instructions)
        /\ Head(instructions).kind = "Query" /\ phase = "Query" /\ phase' = "Query"
        /\ Grant(Head(instructions).by, "Query", current, snapshot)
    BY <1>9 DEF JoinQueryPhase, clockVars
  <2>2. /\ DOMAIN instructions = 1 .. Len(instructions) /\ Len(instructions) \in Nat
        /\ Head(instructions) = instructions[1]
        /\ DOMAIN Tail(instructions) = 1 .. Len(instructions) - 1
        /\ \A k \in 1 .. Len(instructions) - 1 : Tail(instructions)[k] = instructions[k + 1]
    BY <1>3, <2>1, HeadTailProperties DEF TypeOK
  <2>3. /\ n \in 1 .. Len(instructions) /\ instructions[n].by = c
        /\ \E m \in 1 .. n : instructions[m].kind = "Mutation"
    BY <1>2, <2>1, <2>2 DEF Stuck, NeedsRelease, Pending
  <2>4. PICK m \in 1 .. n : instructions[m].kind = "Mutation"
    BY <2>3
  <2>5. m - 1 \in 1 .. n - 1 /\ n - 1 \in 1 .. Len(instructions) - 1
    <3>1. m # 1
      BY <2>1, <2>2, <2>4
    <3> QED
      BY <2>2, <2>3, <2>4, <3>1
  <2>6. /\ Tail(instructions)[n - 1] = instructions[n]
        /\ Tail(instructions)[m - 1] = instructions[m]
    <3>1. /\ m - 1 \in 1 .. Len(instructions) - 1
          /\ (n - 1) + 1 = n /\ (m - 1) + 1 = m
      BY <2>2, <2>3, <2>4, <2>5
    <3> QED
      BY <2>2, <2>5, <3>1
  <2>7. Stuck(c, n - 1)'
    BY <2>1, <2>2, <2>3, <2>4, <2>5, <2>6 DEF Stuck, NeedsRelease, Pending
  <2>8. Head(instructions).by # c
    <3>1. n - 1 \in DOMAIN Tail(instructions)
      BY <2>2, <2>5
    <3>2. Tail(instructions)[n - 1].by # Head(instructions).by
      BY <1>3, <2>1, <3>1, HeadRequest DEF Safety
    <3> QED
      BY <2>3, <2>6, <3>2
  <2>9. call'[c] = "waiting"
    BY <1>1, <1>3, <2>1, <2>8 DEF Grant
  <2> QED
    BY <1>4, <1>9, <2>7, <2>9
<1>10. CASE UNCHANGED within /\ TakeInstr
  <2>1. /\ clockAt = "recv" /\ clockAt' = "release" /\ instructions # <<>>
        /\ instr' = Head(instructions) /\ instructions' = Tail(instructions)
        /\ call' = call /\ phase' = phase
    BY <1>10 DEF TakeInstr, callVars
  <2>2. UNCHANGED Pending
    BY <1>3, <2>1, HeadConsTail DEF Pending, TypeOK
  <2> QED
    BY <1>1, <1>5, <1>10, <2>1, <2>2
<1>11. CASE UNCHANGED within /\ (NextMutation \/ AskIndexer)
  BY <1>1, <1>11 DEF NextMutation, AskIndexer
<1>12. CASE UNCHANGED within /\ (StartMutation \/ AskInstants \/ StartQuery)
  BY <1>1, <1>12 DEF StartMutation, AskInstants, UpdateHandles, StartQuery
<1>13. CASE UNCHANGED within /\ IndexerTask
  <2>1. UNCHANGED <<call, phase, instructions, clockAt, instr>>
    BY <1>13 DEF IndexerTask, ServeRegistration, NoRegistration, ServeAcquire, PollAgain,
                 callVars, clockVars
  <2>2. UNCHANGED Pending
    BY <2>1 DEF Pending
  <2> QED
    BY <1>1, <1>5, <1>13, <2>1, <2>2
<1>14. CASE UNCHANGED nestedVars
  <2>1. UNCHANGED <<call, within, phase, instructions, clockAt, instr>>
    BY <1>14 DEF nestedVars, vars, callVars, clockVars
  <2>2. UNCHANGED Pending
    BY <2>1 DEF Pending
  <2> QED
    BY <1>1, <1>5, <2>1, <2>2
<1> QED
  BY <1>6, <1>7, <1>8, <1>9, <1>10, <1>11, <1>12, <1>13, <1>14
     DEF NestedNext, NestedCaller, Tasks, ClockTask

(* The theorem: see SelfWaitLasts.                                           *)
THEOREM SelfWaitersStay == NestedSpec => SelfWaitLasts
<1>1. NestedInv /\ [NestedNext]_nestedVars =>
        [\A c \in Calls : SelfWait(c) => SelfWait(c)' \/ Drop(c)]_nestedVars
  BY SelfWaitStep
<1> QED
  BY <1>1, NestedHolds, PTL DEF NestedSpec, SelfWaitLasts
=============================================================================
