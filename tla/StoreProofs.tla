----------------------------- MODULE StoreProofs -----------------------------
(* Theorems about InputStore and Shutdown, for every number of calls,        *)
(* inputs, values, local instants, frames and requests.  A behaviour of      *)
(* either is one of the clock, so that the theorems of ClockProofs hold of   *)
(* it; what is added here is about the mailboxes and the caches, and about   *)
(* who keeps whom alive.                                                     *)
EXTENDS Shutdown, ClockProofs, FunctionTheorems

SetRequest   == [by : Calls, value : Values]
ValueRequest == [by : Calls]
CheckRequest == [by : Calls, past : Nat]
Change       == [value : Values, since : Nat] \cup {NoChange}
Entry        == [value : Values, since : Nat, next : Change, instant : Instant]
LogEntry     == [stored : [Inputs -> Values] \cup {<<>>}, snapshot : Seq(Instant)]

NewEntry == [value |-> InitialValue, since |-> 0, next |-> NoChange, instant |-> 0]

(* Every variable of the nodes holds a value of its type.                    *)
StoreTypeOK ==
    /\ spawned \subseteq Inputs
    /\ cache \in [Inputs -> Entry]
    /\ setMail \in [Inputs -> Seq(SetRequest)]
    /\ getMail \in [Inputs -> Seq(ValueRequest)]
    /\ checkMail \in [Inputs -> Seq(CheckRequest)]
    /\ firstRead \in [Inputs -> Nat \cup {NoFrame}]
    /\ stored \in [Inputs -> Values]
    /\ log \in [Frames -> LogEntry]

(* The requests a call has in the mailboxes of one kind, by their places.    *)
Places(mail) == UNION {{i} \X DOMAIN mail[i] : i \in Inputs}
RequestsOf(mail, c) == {p \in Places(mail) : mail[p[1]][p[2]].by = c}

(* Every clone of a token is in a request at a node, and every request there *)
(* has one.                                                                  *)
ClonesAreRequests ==
    \A c \in Calls :
        /\ IsFiniteSet(RequestsOf(setMail, c))
        /\ IsFiniteSet(RequestsOf(getMail, c))
        /\ IsFiniteSet(RequestsOf(checkMail, c))
        /\ clones[c] = Cardinality(RequestsOf(setMail, c))
                       + Cardinality(RequestsOf(getMail, c))
                       + Cardinality(RequestsOf(checkMail, c))

(* Requests are of the current phase.                                        *)
MailInPhase ==
    \A i \in Inputs :
        /\ setMail[i] # <<>> => phase = "Mutation"
        /\ getMail[i] # <<>> \/ checkMail[i] # <<>> => phase = "Query"

(* An input is on its way through the indexer once, from its spawn until it  *)
(* has the index of its place; all that time the request that spawned it     *)
(* waits at the node.                                                        *)
RegisteredOnce ==
    /\ \A n \in DOMAIN registrations :
          registrations[n] \in spawned /\ assigned[registrations[n]] = NoIndex
    /\ \A m, n \in DOMAIN registrations : registrations[m] = registrations[n] => m = n
    /\ \A i \in Inputs : assigned[i] # NoIndex => i \in spawned
    /\ \A i \in spawned : assigned[i] = NoIndex => setMail[i] # <<>> \/ getMail[i] # <<>>
    /\ \A n \in DOMAIN Known : assigned[Known[n]] + 1 = n

(* The response the clock awaits empties the indexer's queue, and nothing    *)
(* comes after it.                                                           *)
QueueTaken == clockAt \in {"handles", "snapshot"} /\ ~acquireAsked => queue = <<>>

(* The value an input will have when everything on its way has been served.  *)
Latest(i) ==
    IF setMail[i] # <<>> THEN setMail[i][Len(setMail[i])].value
    ELSE IF cache[i].next # NoChange THEN cache[i].next.value
    ELSE cache[i].value

CacheCorrect ==
    \A i \in Inputs :
        /\ Latest(i) = stored[i]
        /\ phase = "Query" => cache[i].next = NoChange
        /\ cache[i].next # NoChange => cache[i].next.since = current
        /\ assigned[i] = NoIndex => cache[i] = NewEntry

(* An input that has answered the clock has taken in its change.             *)
AnswersCorrect ==
    clockAt = "snapshot" =>
        /\ DOMAIN answers = DOMAIN handles
        /\ \A n \in DOMAIN handles : answers[n] # NoAnswer =>
              cache[handles[n]].next = NoChange /\ answers[n] = cache[handles[n]].instant

StoreInv ==
    /\ ClonesAreRequests
    /\ MailInPhase
    /\ RegisteredOnce
    /\ QueueTaken
    /\ CacheCorrect
    /\ AnswersCorrect

-----------------------------------------------------------------------------
(* Types, and the clock underneath.                                          *)

LEMMA ModuloInstant == \A x \in Nat : x % Instants \in Instant
  BY ClockAssumption DEF Instant

LEMMA ActualizedType == \A e \in Entry : Actualized(e) \in Entry
<1> SUFFICES ASSUME NEW e \in Entry PROVE Actualized(e) \in Entry
  OBVIOUS
<1>1. /\ e.value \in Values /\ e.since \in Nat /\ e.next \in Change
      /\ e.instant \in Instant /\ NoChange \in Change
  BY DEF Entry, Change
<1>2. CASE e.next # NoChange /\ e.next.value # e.value
  <2>1. (e.instant + 1) % Instants \in Instant
    BY <1>1, ModuloInstant DEF Instant
  <2>2. e.next.value \in Values /\ e.next.since \in Nat
    BY <1>1, <1>2 DEF Change
  <2>3. Actualized(e) = [value |-> e.next.value, since |-> e.next.since,
                         next |-> NoChange, instant |-> (e.instant + 1) % Instants]
    BY <1>2 DEF Actualized
  <2> QED
    BY <1>1, <2>1, <2>2, <2>3 DEF Entry
<1>3. CASE ~(e.next # NoChange /\ e.next.value # e.value)
  <2>1. Actualized(e) = [e EXCEPT !.next = NoChange]
    BY <1>3 DEF Actualized
  <2> QED
    BY <1>1, <2>1 DEF Entry
<1> QED
  BY <1>2, <1>3

LEMMA SendType ==
    ASSUME NEW S, NEW mail \in [Inputs -> Seq(S)], NEW i \in Inputs, NEW r \in S
    PROVE  Send(mail, i, r) \in [Inputs -> Seq(S)]
<1>1. Append(mail[i], r) \in Seq(S)
  BY AppendProperties
<1> QED
  BY <1>1 DEF Send

(* The request sent is the last in the mailbox it was sent to.               *)
LEMMA SentLast ==
    ASSUME NEW S, NEW mail \in [Inputs -> Seq(S)], NEW i \in Inputs, NEW r \in S
    PROVE  /\ Send(mail, i, r)[i] # <<>>
           /\ Send(mail, i, r)[i][Len(Send(mail, i, r)[i])] = r
           /\ \A j \in Inputs \ {i} : Send(mail, i, r)[j] = mail[j]
<1>1. /\ Append(mail[i], r) # <<>> /\ Len(Append(mail[i], r)) = Len(mail[i]) + 1
      /\ Append(mail[i], r)[Len(mail[i]) + 1] = r
  BY AppendProperties
<1>2. Send(mail, i, r)[i] = Append(mail[i], r)
  BY DEF Send
<1> QED
  BY <1>1, <1>2 DEF Send

LEMMA ReceiveType ==
    ASSUME NEW S, NEW mail \in [Inputs -> Seq(S)], NEW i \in Inputs, mail[i] # <<>>
    PROVE  Head(mail[i]) \in S /\ Receive(mail, i) \in [Inputs -> Seq(S)]
<1>1. Head(mail[i]) \in S /\ Tail(mail[i]) \in Seq(S)
  BY HeadTailProperties
<1> QED
  BY <1>1 DEF Receive

LEMMA StoreInitType == StoreInit => Init /\ StoreTypeOK
<1> SUFFICES ASSUME StoreInit PROVE Init /\ StoreTypeOK
  OBVIOUS
<1>1. Init /\ spawned = {}
  BY DEF StoreInit
<1>2. NewEntry \in Entry /\ cache = [i \in Inputs |-> NewEntry]
  BY ClockAssumption, StoreAssumption
     DEF StoreInit, NewEntry, Entry, Change, NoChange, Instant
<1>3. /\ setMail \in [Inputs -> Seq(SetRequest)]
      /\ getMail \in [Inputs -> Seq(ValueRequest)]
      /\ checkMail \in [Inputs -> Seq(CheckRequest)]
  BY EmptySeq DEF StoreInit
<1>4. firstRead \in [Inputs -> Nat \cup {NoFrame}] /\ stored \in [Inputs -> Values]
  BY StoreAssumption DEF StoreInit
<1>5. log \in [Frames -> LogEntry]
  <2>1. snapshot = <<>> /\ <<>> \in Seq(Instant)
    BY <1>1, EmptySeq DEF Init
  <2>2. [stored |-> stored, snapshot |-> snapshot] \in LogEntry /\ NoEntry \in LogEntry
    BY <1>4, <2>1 DEF LogEntry, NoEntry
  <2> QED
    BY <2>2 DEF StoreInit
<1> QED
  BY <1>1, <1>2, <1>3, <1>4, <1>5 DEF StoreTypeOK

(* What callers do at the nodes.                                             *)
LEMMA RequestType ==
    ASSUME TypeOK, StoreTypeOK, NEW c \in Calls, NEW i \in Inputs, Request(c, i)
    PROVE  Clone(c) /\ StoreTypeOK'
<1> USE DEF StoreTypeOK, history
<1>1. CASE \E v \in Values : Set(c, i, v)
  <2>1. PICK v \in Values : Set(c, i, v)
    BY <1>1
  <2>2. [by |-> c, value |-> v] \in SetRequest
    BY DEF SetRequest
  <2>3. setMail' \in [Inputs -> Seq(SetRequest)]
    BY <2>1, <2>2, SendType DEF Set
  <2> QED
    BY <2>1, <2>3 DEF Set
<1>2. CASE Get(c, i)
  <2>1. [by |-> c] \in ValueRequest
    BY DEF ValueRequest
  <2>2. getMail' \in [Inputs -> Seq(ValueRequest)]
    BY <1>2, <2>1, SendType DEF Get
  <2> QED
    BY <1>2, <2>2 DEF Get
<1>3. CASE \E past \in Frames : Check(c, i, past)
  <2>1. PICK past \in Frames : Check(c, i, past)
    BY <1>3
  <2>2. [by |-> c, past |-> past] \in CheckRequest
    BY ClockAssumption DEF CheckRequest, Frames
  <2>3. checkMail' \in [Inputs -> Seq(CheckRequest)]
    BY <2>1, <2>2, SendType DEF Check
  <2> QED
    BY <2>1, <2>3 DEF Check
<1> QED
  BY <1>1, <1>2, <1>3 DEF Request

(* What a node does: it gives a clone back, registers, or answers the clock. *)
LEMMA NodeTaskType ==
    ASSUME TypeOK, StoreTypeOK, NEW i \in Inputs, NodeTask(i)
    PROVE  Caller \/ AnyInput
<1> USE DEF StoreTypeOK
<1>1. CASE RegisterNode(i)
  BY <1>1 DEF RegisterNode, AnyInput
<1>2. CASE ServeSet(i)
  <2>1. Head(setMail[i]) \in SetRequest /\ DropClone(Head(setMail[i]).by)
    BY <1>2, ReceiveType DEF ServeSet
  <2> QED
    BY <2>1 DEF SetRequest, Caller
<1>3. CASE ServeCheck(i)
  <2>1. Head(checkMail[i]) \in CheckRequest /\ DropClone(Head(checkMail[i]).by)
    BY <1>3, ReceiveType DEF ServeCheck
  <2> QED
    BY <2>1 DEF CheckRequest, Caller
<1>4. CASE ServeGet(i)
  <2>1. Head(getMail[i]) \in ValueRequest /\ DropClone(Head(getMail[i]).by)
    BY <1>4, ReceiveType DEF ServeGet
  <2> QED
    BY <2>1 DEF ValueRequest, Caller
<1>5. CASE ServeClock(i)
  <2>1. cache'[i].instant \in Instant
    BY <1>5, ActualizedType DEF ServeClock, Entry
  <2> QED
    BY <1>5, <2>1 DEF ServeClock, AnyInput
<1> QED
  BY <1>1, <1>2, <1>3, <1>4, <1>5 DEF NodeTask

LEMMA TokenFrame == TypeOK => \A c \in Calls : token[c].frame \in Nat
<1>1. \A t \in Tokens : t.frame \in Nat
  BY DEF Tokens, NoToken
<1> QED
  BY <1>1 DEF TypeOK

LEMMA NodeTaskStoreType ==
    ASSUME TypeOK, StoreTypeOK, NEW i \in Inputs, NodeTask(i)
    PROVE  StoreTypeOK'
<1> USE DEF StoreTypeOK, history
<1>1. CASE RegisterNode(i)
  BY <1>1 DEF RegisterNode, nodeVars
<1>2. CASE ServeSet(i)
  <2> DEFINE r == Head(setMail[i])
  <2>1. r \in SetRequest /\ setMail' \in [Inputs -> Seq(SetRequest)]
    BY <1>2, ReceiveType DEF ServeSet
  <2>2. r.by \in Calls /\ r.value \in Values /\ clones[r.by] > 0
    BY <1>2, <2>1 DEF ServeSet, DropClone, SetRequest
  <2>3. token[r.by].frame \in Nat
    BY <2>2, TokenFrame
  <2>4. [value |-> r.value, since |-> token[r.by].frame] \in Change
    BY <2>2, <2>3 DEF Change
  <2>5. cache' = [cache EXCEPT ![i].next = [value |-> r.value, since |-> token[r.by].frame]]
    BY <1>2 DEF ServeSet
  <2> HIDE DEF r
  <2>6. cache' \in [Inputs -> Entry]
    BY <2>4, <2>5 DEF Entry
  <2> QED
    BY <1>2, <2>1, <2>6 DEF ServeSet
<1>3. CASE ServeCheck(i)
  BY <1>3, ReceiveType DEF ServeCheck
<1>4. CASE ServeGet(i)
  <2>1. getMail' \in [Inputs -> Seq(ValueRequest)]
    BY <1>4, ReceiveType DEF ServeGet
  <2>2. firstRead' \in [Inputs -> Nat \cup {NoFrame}]
    BY <1>4 DEF ServeGet, TypeOK
  <2> QED
    BY <1>4, <2>1, <2>2 DEF ServeGet
<1>5. CASE ServeClock(i)
  BY <1>5, ActualizedType DEF ServeClock
<1> QED
  BY <1>1, <1>2, <1>3, <1>4, <1>5 DEF NodeTask

LEMMA StoreClockTaskType ==
    ASSUME TypeOK, TypeOK', StoreTypeOK, StoreClockTask
    PROVE  ClockTask /\ StoreTypeOK'
<1> USE DEF StoreTypeOK, nodeVars, history
<1>1. CASE OtherClockStep
  BY <1>1 DEF OtherClockStep, ClockTask
<1>2. CASE LogStartQuery
  <2>1. [stored |-> stored, snapshot |-> snapshot'] \in LogEntry
    BY DEF TypeOK, LogEntry
  <2>2. log' \in [Frames -> LogEntry]
    BY <1>2, <2>1 DEF LogStartQuery
  <2> QED
    BY <1>2, <2>2 DEF LogStartQuery, ClockTask
<1> QED
  BY <1>1, <1>2 DEF StoreClockTask

LEMMA StoreStepType ==
    ASSUME TypeOK, StoreTypeOK, [StoreNext]_storeVars
    PROVE  [Next]_vars /\ TypeOK' /\ StoreTypeOK'
<1>1. [Next]_vars
  <2>1. CASE \E c \in Calls : CallStep(c)
    BY <2>1 DEF CallStep, Next, Caller
  <2>2. CASE \E c \in Calls, i \in Inputs : Request(c, i)
    BY <2>2, RequestType DEF Next, Caller
  <2>3. CASE \E i \in Inputs : NodeTask(i)
    BY <2>3, NodeTaskType DEF Next
  <2>4. CASE StoreClockTask
    BY <2>4 DEF StoreClockTask, LogStartQuery, OtherClockStep, ClockTask, Next
  <2>5. CASE StoreIndexerTask \/ UNCHANGED storeVars
    BY <2>5 DEF StoreIndexerTask, Next, storeVars
  <2> QED
    BY <2>1, <2>2, <2>3, <2>4, <2>5 DEF StoreNext
<1>2. TypeOK'
  BY <1>1, TypeStep
<1>3. StoreTypeOK'
  <2>1. CASE UNCHANGED <<nodeVars, history>>
    BY <2>1 DEF StoreTypeOK, nodeVars, history
  <2>2. CASE \E c \in Calls, i \in Inputs : Request(c, i)
    BY <2>2, RequestType
  <2>3. CASE \E i \in Inputs : NodeTask(i)
    BY <2>3, NodeTaskStoreType
  <2>4. CASE StoreClockTask
    BY <1>2, <2>4, StoreClockTaskType
  <2> QED
    BY <2>1, <2>2, <2>3, <2>4 DEF StoreNext, CallStep, StoreIndexerTask, storeVars
<1> QED
  BY <1>1, <1>2, <1>3

(* The nodes add to the clock what it leaves open, and nothing it would not  *)
(* allow: a request is a clone of a token, an answer is a local instant.     *)
THEOREM StoreIsClock == StoreSpec => Spec
<1>1. StoreInit => Init /\ TypeOK /\ StoreTypeOK
  BY StoreInitType, InitType
<1>2. TypeOK /\ StoreTypeOK /\ [StoreNext]_storeVars
         => [Next]_vars /\ TypeOK' /\ StoreTypeOK'
  BY StoreStepType
<1> QED
  BY <1>1, <1>2, PTL DEF StoreSpec, Spec

-----------------------------------------------------------------------------
(* Counting the requests of a call.                                          *)

LEMMA RequestsAt ==
    ASSUME NEW mail, NEW c, NEW p
    PROVE  p \in RequestsOf(mail, c) <=>
              \E j, n : /\ j \in Inputs /\ n \in DOMAIN mail[j]
                        /\ p = <<j, n>> /\ mail[j][n].by = c
  BY DEF RequestsOf, Places

LEMMA SendCounts ==
    ASSUME NEW S, NEW mail \in [Inputs -> Seq(S)], NEW i \in Inputs, NEW r \in S,
           NEW c, IsFiniteSet(RequestsOf(mail, c))
    PROVE  /\ IsFiniteSet(RequestsOf(Send(mail, i, r), c))
           /\ Cardinality(RequestsOf(Send(mail, i, r), c)) =
                 Cardinality(RequestsOf(mail, c)) + (IF r.by = c THEN 1 ELSE 0)
<1> DEFINE new == Send(mail, i, r)
           p   == <<i, Len(mail[i]) + 1>>
<1>1. new[i] = Append(mail[i], r) /\ \A j \in Inputs \ {i} : new[j] = mail[j]
  BY DEF Send
<1>2. /\ DOMAIN mail[i] = 1 .. Len(mail[i]) /\ Len(mail[i]) \in Nat
      /\ DOMAIN new[i] = 1 .. Len(mail[i]) + 1
      /\ \A n \in DOMAIN mail[i] : new[i][n] = mail[i][n]
      /\ new[i][Len(mail[i]) + 1] = r
  BY <1>1, AppendElements
<1>3. p \notin RequestsOf(mail, c)
  BY <1>2, RequestsAt
<1> HIDE DEF new
<1>4. RequestsOf(new, c) = IF r.by = c THEN RequestsOf(mail, c) \cup {p}
                                       ELSE RequestsOf(mail, c)
  <2>1. ASSUME NEW q
        PROVE  q \in RequestsOf(new, c) <=>
                 q \in RequestsOf(mail, c) \/ (r.by = c /\ q = p)
    <3>1. ASSUME q \in RequestsOf(new, c)
          PROVE  q \in RequestsOf(mail, c) \/ (r.by = c /\ q = p)
      <4>1. PICK j, n : j \in Inputs /\ n \in DOMAIN new[j] /\ q = <<j, n>> /\ new[j][n].by = c
        BY <3>1, RequestsAt
      <4>2. CASE j = i /\ n = Len(mail[i]) + 1
        BY <1>2, <4>1, <4>2
      <4>3. CASE ~(j = i /\ n = Len(mail[i]) + 1)
        <5>1. CASE j = i
          <6>1. n \in DOMAIN mail[i] /\ mail[i][n].by = c
            BY <1>2, <4>1, <4>3, <5>1
          <6> QED
            BY <4>1, <5>1, <6>1, RequestsAt
        <5>2. CASE j # i
          BY <1>1, <4>1, <5>2, RequestsAt
        <5> QED
          BY <5>1, <5>2
      <4> QED
        BY <4>2, <4>3
    <3>2. ASSUME q \in RequestsOf(mail, c) PROVE q \in RequestsOf(new, c)
      <4>1. PICK j, n : j \in Inputs /\ n \in DOMAIN mail[j] /\ q = <<j, n>> /\ mail[j][n].by = c
        BY <3>2, RequestsAt
      <4>2. CASE j = i
        <5>1. n \in DOMAIN new[i] /\ new[i][n] = mail[i][n]
          BY <1>2, <4>1, <4>2
        <5> QED
          BY <4>1, <4>2, <5>1, RequestsAt
      <4>3. CASE j # i
        BY <1>1, <4>1, <4>3, RequestsAt
      <4> QED
        BY <4>2, <4>3
    <3>3. ASSUME r.by = c, q = p PROVE q \in RequestsOf(new, c)
      <4>1. Len(mail[i]) + 1 \in DOMAIN new[i]
        BY <1>2
      <4> QED
        BY <1>2, <3>3, <4>1, RequestsAt
    <3> QED
      BY <3>1, <3>2, <3>3
  <2> QED
    BY <2>1
<1>5. CASE r.by = c
  BY <1>3, <1>4, <1>5, FS_AddElement DEF new
<1>6. CASE r.by # c
  <2>1. Cardinality(RequestsOf(mail, c)) \in Nat
    BY FS_CardinalityType
  <2> QED
    BY <1>4, <1>6, <2>1 DEF new
<1> QED
  BY <1>5, <1>6

(* Serving the oldest request moves the others one place up.                 *)
LEMMA ReceiveCounts ==
    ASSUME NEW S, NEW mail \in [Inputs -> Seq(S)], NEW i \in Inputs, mail[i] # <<>>,
           NEW c, IsFiniteSet(RequestsOf(mail, c))
    PROVE  /\ IsFiniteSet(RequestsOf(Receive(mail, i), c))
           /\ Cardinality(RequestsOf(mail, c)) =
                 Cardinality(RequestsOf(Receive(mail, i), c))
                 + (IF Head(mail[i]).by = c THEN 1 ELSE 0)
<1> DEFINE new  == Receive(mail, i)
           old  == RequestsOf(mail, c) \ {<<i, 1>>}
           Move == [q \in RequestsOf(new, c) |->
                       IF q[1] = i THEN <<i, q[2] + 1>> ELSE q]
<1>1. new[i] = Tail(mail[i]) /\ \A j \in Inputs \ {i} : new[j] = mail[j]
  BY DEF Receive
<1>2. /\ DOMAIN mail[i] = 1 .. Len(mail[i]) /\ Len(mail[i]) \in Nat \ {0}
      /\ Head(mail[i]) = mail[i][1]
      /\ DOMAIN new[i] = 1 .. Len(mail[i]) - 1
      /\ \A n \in 1 .. Len(mail[i]) - 1 : new[i][n] = mail[i][n + 1]
  <2>1. mail[i] \in Seq(S)
    OBVIOUS
  <2>2. DOMAIN mail[i] = 1 .. Len(mail[i]) /\ Len(mail[i]) \in Nat \ {0} /\ Head(mail[i]) = mail[i][1]
    BY <2>1, EmptySeq
  <2>3. Tail(mail[i]) \in Seq(S) /\ Len(Tail(mail[i])) = Len(mail[i]) - 1
        /\ \A n \in 1 .. Len(Tail(mail[i])) : Tail(mail[i])[n] = mail[i][n + 1]
    BY <2>1, HeadTailProperties
  <2> QED
    BY <1>1, <2>2, <2>3
<1> HIDE DEF new
<1>3. IsFiniteSet(old) /\ Cardinality(RequestsOf(mail, c)) =
          Cardinality(old) + (IF Head(mail[i]).by = c THEN 1 ELSE 0)
  <2>1. <<i, 1>> \in RequestsOf(mail, c) <=> Head(mail[i]).by = c
    BY <1>2, RequestsAt
  <2>2. Cardinality(RequestsOf(mail, c)) \in Nat
    BY FS_CardinalityType
  <2>3. /\ IsFiniteSet(old)
        /\ Cardinality(old) = IF <<i, 1>> \in RequestsOf(mail, c)
                                 THEN Cardinality(RequestsOf(mail, c)) - 1
                                 ELSE Cardinality(RequestsOf(mail, c))
    BY FS_RemoveElement
  <2> HIDE DEF old
  <2> QED
    BY <2>1, <2>2, <2>3
<1>4. \A q \in RequestsOf(new, c) : Move[q] \in old
  <2> SUFFICES ASSUME NEW q \in RequestsOf(new, c) PROVE Move[q] \in old
    OBVIOUS
  <2>1. PICK j, n : j \in Inputs /\ n \in DOMAIN new[j] /\ q = <<j, n>> /\ new[j][n].by = c
    BY RequestsAt
  <2>2. CASE j = i
    <3>1. n \in 1 .. Len(mail[i]) - 1 /\ n + 1 \in DOMAIN mail[i] /\ mail[i][n + 1].by = c
      BY <1>2, <2>1, <2>2
    <3>2. <<i, n + 1>> \in RequestsOf(mail, c)
      BY <3>1, RequestsAt
    <3>3. Move[q] = <<i, n + 1>> /\ <<i, n + 1>> # <<i, 1>>
      BY <2>1, <2>2, <3>1
    <3> QED
      BY <3>2, <3>3
  <2>3. CASE j # i
    <3>1. n \in DOMAIN mail[j] /\ mail[j][n].by = c
      BY <1>1, <2>1, <2>3
    <3>2. q \in RequestsOf(mail, c) /\ q # <<i, 1>> /\ Move[q] = q
      BY <2>1, <2>3, <3>1, RequestsAt
    <3> QED
      BY <3>2
  <2> QED
    BY <2>2, <2>3
<1>5. \A p \in old : \E q \in RequestsOf(new, c) : Move[q] = p
  <2> SUFFICES ASSUME NEW p \in old PROVE \E q \in RequestsOf(new, c) : Move[q] = p
    OBVIOUS
  <2>1. PICK j, n : j \in Inputs /\ n \in DOMAIN mail[j] /\ p = <<j, n>> /\ mail[j][n].by = c
    BY RequestsAt
  <2>2. CASE j = i
    <3>1. n # 1 /\ n - 1 \in DOMAIN new[i] /\ new[i][n - 1] = mail[i][n]
      BY <1>2, <2>1, <2>2
    <3>2. <<i, n - 1>> \in RequestsOf(new, c)
      BY <2>1, <2>2, <3>1, RequestsAt
    <3>3. Move[<<i, n - 1>>] = <<i, n>>
      BY <1>2, <2>1, <2>2, <3>2
    <3> QED
      BY <2>1, <2>2, <3>2, <3>3
  <2>3. CASE j # i
    <3>1. p \in RequestsOf(new, c)
      BY <1>1, <2>1, <2>3, RequestsAt
    <3>2. Move[p] = p
      BY <2>1, <2>3, <3>1
    <3> QED
      BY <3>1, <3>2
  <2> QED
    BY <2>2, <2>3
<1>6. \A p, q \in RequestsOf(new, c) : Move[p] = Move[q] => p = q
  <2> SUFFICES ASSUME NEW p \in RequestsOf(new, c), NEW q \in RequestsOf(new, c),
                      Move[p] = Move[q]
               PROVE  p = q
    OBVIOUS
  <2>1. PICK j, m : j \in Inputs /\ m \in DOMAIN new[j] /\ p = <<j, m>>
    BY RequestsAt
  <2>2. PICK k, n : k \in Inputs /\ n \in DOMAIN new[k] /\ q = <<k, n>>
    BY RequestsAt
  <2>3. CASE j = i /\ k = i
    BY <1>2, <2>1, <2>2, <2>3
  <2>4. CASE ~(j = i /\ k = i)
    BY <2>1, <2>2, <2>4
  <2> QED
    BY <2>3, <2>4
<1>7. Move \in Bijection(RequestsOf(new, c), old)
  <2>1. Move \in [RequestsOf(new, c) -> old]
    BY <1>4
  <2> HIDE DEF Move, old
  <2> QED
    BY <1>5, <1>6, <2>1 DEF Bijection, Injection, Surjection, IsInjective
<1> HIDE DEF Move, old
<1>8. ExistsBijection(old, RequestsOf(new, c))
  BY <1>7, Fun_BijInverse DEF ExistsBijection
<1>9. IsFiniteSet(RequestsOf(new, c)) /\ Cardinality(RequestsOf(new, c)) = Cardinality(old)
  BY <1>3, <1>8, FS_Bijection
<1> QED
  BY <1>3, <1>9 DEF new

-----------------------------------------------------------------------------
(* What is known of the clock and of the store before a step.                *)
ClockInv == Safety /\ IndexIsPlace /\ NoHandleLost /\ RealChange
Standing == ClockInv /\ StoreTypeOK /\ StoreInv

LEMMA ClockInvHolds == Spec => []ClockInv
<1>1. Safety /\ (IndexIsPlace /\ NoHandleLost) /\ (NoOneForgotten /\ RealChange) => ClockInv
  BY DEF ClockInv
<1> QED
  BY <1>1, SafetyHolds, IndicesArePlaces, NobodyIsForgotten, PTL

LEMMA OldestCounts ==
    ASSUME NEW S, NEW mail \in [Inputs -> Seq(S)], NEW i \in Inputs, mail[i] # <<>>,
           IsFiniteSet(RequestsOf(mail, Head(mail[i]).by))
    PROVE  Cardinality(RequestsOf(mail, Head(mail[i]).by)) > 0
<1>1. /\ IsFiniteSet(RequestsOf(Receive(mail, i), Head(mail[i]).by))
      /\ Cardinality(RequestsOf(mail, Head(mail[i]).by)) =
            Cardinality(RequestsOf(Receive(mail, i), Head(mail[i]).by)) + 1
  BY ReceiveCounts
<1>2. Cardinality(RequestsOf(Receive(mail, i), Head(mail[i]).by)) \in Nat
  BY <1>1, FS_CardinalityType
<1> QED
  BY <1>1, <1>2

LEMMA RequestBy ==
    /\ \A r \in SetRequest : r.by \in Calls /\ r.value \in Values
    /\ \A r \in ValueRequest : r.by \in Calls
    /\ \A r \in CheckRequest : r.by \in Calls /\ r.past \in Nat
  BY DEF SetRequest, ValueRequest, CheckRequest

LEMMA CountsAreNat ==
    ASSUME ClonesAreRequests, NEW c \in Calls
    PROVE  /\ Cardinality(RequestsOf(setMail, c)) \in Nat
           /\ Cardinality(RequestsOf(getMail, c)) \in Nat
           /\ Cardinality(RequestsOf(checkMail, c)) \in Nat
  BY FS_CardinalityType DEF ClonesAreRequests

(* A request in a mailbox keeps its token alive.                             *)
LEMMA MailIsLive ==
    ASSUME StoreTypeOK, ClonesAreRequests, NEW i \in Inputs
    PROVE  /\ setMail[i] # <<>> =>
                 Head(setMail[i]) \in SetRequest /\ Head(setMail[i]).by \in Live
           /\ getMail[i] # <<>> =>
                 Head(getMail[i]) \in ValueRequest /\ Head(getMail[i]).by \in Live
           /\ checkMail[i] # <<>> =>
                 Head(checkMail[i]) \in CheckRequest /\ Head(checkMail[i]).by \in Live
<1> USE DEF StoreTypeOK
<1>1. ASSUME setMail[i] # <<>>
      PROVE  Head(setMail[i]) \in SetRequest /\ Head(setMail[i]).by \in Live
  <2> DEFINE c == Head(setMail[i]).by
  <2>1. Head(setMail[i]) \in SetRequest
    BY <1>1, ReceiveType
  <2>2. c \in Calls
    BY <2>1, RequestBy
  <2>3. IsFiniteSet(RequestsOf(setMail, c))
    BY <2>2 DEF ClonesAreRequests
  <2>4. Cardinality(RequestsOf(setMail, c)) > 0
    BY <1>1, <2>3, OldestCounts
  <2> HIDE DEF c
  <2>5. clones[c] > 0
    BY <2>2, <2>4, CountsAreNat DEF ClonesAreRequests
  <2>6. c \in Live
    BY <2>2, <2>5 DEF Live, Holds
  <2> QED
    BY <2>1, <2>6 DEF c
<1>2. ASSUME getMail[i] # <<>>
      PROVE  Head(getMail[i]) \in ValueRequest /\ Head(getMail[i]).by \in Live
  <2> DEFINE c == Head(getMail[i]).by
  <2>1. Head(getMail[i]) \in ValueRequest
    BY <1>2, ReceiveType
  <2>2. c \in Calls
    BY <2>1, RequestBy
  <2>3. IsFiniteSet(RequestsOf(getMail, c))
    BY <2>2 DEF ClonesAreRequests
  <2>4. Cardinality(RequestsOf(getMail, c)) > 0
    BY <1>2, <2>3, OldestCounts
  <2> HIDE DEF c
  <2>5. clones[c] > 0
    BY <2>2, <2>4, CountsAreNat DEF ClonesAreRequests
  <2>6. c \in Live
    BY <2>2, <2>5 DEF Live, Holds
  <2> QED
    BY <2>1, <2>6 DEF c
<1>3. ASSUME checkMail[i] # <<>>
      PROVE  Head(checkMail[i]) \in CheckRequest /\ Head(checkMail[i]).by \in Live
  <2> DEFINE c == Head(checkMail[i]).by
  <2>1. Head(checkMail[i]) \in CheckRequest
    BY <1>3, ReceiveType
  <2>2. c \in Calls
    BY <2>1, RequestBy
  <2>3. IsFiniteSet(RequestsOf(checkMail, c))
    BY <2>2 DEF ClonesAreRequests
  <2>4. Cardinality(RequestsOf(checkMail, c)) > 0
    BY <1>3, <2>3, OldestCounts
  <2> HIDE DEF c
  <2>5. clones[c] > 0
    BY <2>2, <2>4, CountsAreNat DEF ClonesAreRequests
  <2>6. c \in Live
    BY <2>2, <2>5 DEF Live, Holds
  <2> QED
    BY <2>1, <2>6 DEF c
<1> QED
  BY <1>1, <1>2, <1>3

(* When no token is out the mailboxes are empty, every input ever used has   *)
(* its index, and none is on its way to the indexer.                         *)
LEMMA QuietStore ==
    ASSUME StoreTypeOK, ClonesAreRequests, RegisteredOnce, Live = {}
    PROVE  /\ \A i \in Inputs :
                 setMail[i] = <<>> /\ getMail[i] = <<>> /\ checkMail[i] = <<>>
           /\ \A i \in spawned : assigned[i] # NoIndex
           /\ DOMAIN registrations = {}
<1>1. \A i \in Inputs : setMail[i] = <<>> /\ getMail[i] = <<>> /\ checkMail[i] = <<>>
  BY MailIsLive
<1>2. \A i \in spawned : assigned[i] # NoIndex
  BY <1>1 DEF RegisteredOnce, StoreTypeOK
<1>3. \A n \in DOMAIN registrations : FALSE
  BY <1>2 DEF RegisteredOnce
<1> QED
  BY <1>1, <1>2, <1>3

LEMMA LiveToken ==
    ASSUME Safety, NEW c \in Live
    PROVE  token[c].kind = phase /\ token[c].frame = current
  BY DEF Safety, PhaseExclusion, TokensFresh

(* While the clock awaits the indexer or the inputs.                         *)
LEMMA ChangeIsQuiet ==
    ASSUME Standing, clockAt \in {"handles", "snapshot"}
    PROVE  /\ Live = {}
           /\ \A i \in Inputs :
                 setMail[i] = <<>> /\ getMail[i] = <<>> /\ checkMail[i] = <<>>
           /\ \A i \in spawned : assigned[i] # NoIndex
           /\ registrations = <<>>
<1>1. Live = {}
  BY DEF Standing, ClockInv, Safety, QuietChange
<1>2. DOMAIN registrations = {}
  BY <1>1, QuietStore DEF Standing, StoreInv
<1>3. registrations = <<>>
  BY <1>2, EmptySeq DEF Standing, ClockInv, Safety, TypeOK
<1> QED
  BY <1>1, <1>3, QuietStore DEF Standing, StoreInv

-----------------------------------------------------------------------------
(* Clones and requests come and go together.                                 *)

LEMMA SetSent ==
    ASSUME TypeOK, StoreTypeOK, ClonesAreRequests, NEW i \in Inputs, NEW r \in SetRequest,
           clones' = [clones EXCEPT ![r.by] = @ + 1], setMail' = Send(setMail, i, r),
           UNCHANGED <<getMail, checkMail>>
    PROVE  ClonesAreRequests'
<1> SUFFICES ASSUME NEW c \in Calls
             PROVE  /\ IsFiniteSet(RequestsOf(setMail', c))
                    /\ IsFiniteSet(RequestsOf(getMail', c))
                    /\ IsFiniteSet(RequestsOf(checkMail', c))
                    /\ clones'[c] = Cardinality(RequestsOf(setMail', c))
                                    + Cardinality(RequestsOf(getMail', c))
                                    + Cardinality(RequestsOf(checkMail', c))
  BY DEF ClonesAreRequests
<1>1. clones'[c] = clones[c] + (IF r.by = c THEN 1 ELSE 0)
  BY DEF TypeOK
<1>2. /\ IsFiniteSet(RequestsOf(setMail', c))
      /\ Cardinality(RequestsOf(setMail', c)) =
            Cardinality(RequestsOf(setMail, c)) + (IF r.by = c THEN 1 ELSE 0)
  <2>1. setMail \in [Inputs -> Seq(SetRequest)] /\ IsFiniteSet(RequestsOf(setMail, c))
    BY DEF StoreTypeOK, ClonesAreRequests
  <2>2. /\ IsFiniteSet(RequestsOf(Send(setMail, i, r), c))
        /\ Cardinality(RequestsOf(Send(setMail, i, r), c)) =
              Cardinality(RequestsOf(setMail, c)) + (IF r.by = c THEN 1 ELSE 0)
    BY <2>1, SendCounts
  <2> QED
    BY <2>2
<1> QED
  BY <1>1, <1>2, CountsAreNat DEF ClonesAreRequests

LEMMA SetServed ==
    ASSUME TypeOK, StoreTypeOK, ClonesAreRequests, NEW i \in Inputs, setMail[i] # <<>>,
           clones' = [clones EXCEPT ![Head(setMail[i]).by] = @ - 1],
           setMail' = Receive(setMail, i), UNCHANGED <<getMail, checkMail>>
    PROVE  ClonesAreRequests'
<1> SUFFICES ASSUME NEW c \in Calls
             PROVE  /\ IsFiniteSet(RequestsOf(setMail', c))
                    /\ IsFiniteSet(RequestsOf(getMail', c))
                    /\ IsFiniteSet(RequestsOf(checkMail', c))
                    /\ clones'[c] = Cardinality(RequestsOf(setMail', c))
                                    + Cardinality(RequestsOf(getMail', c))
                                    + Cardinality(RequestsOf(checkMail', c))
  BY DEF ClonesAreRequests
<1>1. clones'[c] = clones[c] - (IF Head(setMail[i]).by = c THEN 1 ELSE 0)
  BY DEF TypeOK
<1>2. /\ IsFiniteSet(RequestsOf(setMail', c))
      /\ Cardinality(RequestsOf(setMail, c)) =
            Cardinality(RequestsOf(setMail', c)) + (IF Head(setMail[i]).by = c THEN 1 ELSE 0)
  BY ReceiveCounts, ZenonT(40) DEF StoreTypeOK, ClonesAreRequests
<1>3. Cardinality(RequestsOf(setMail', c)) \in Nat
  BY <1>2, FS_CardinalityType
<1> QED
  BY <1>1, <1>2, <1>3, CountsAreNat DEF ClonesAreRequests

LEMMA GetSent ==
    ASSUME TypeOK, StoreTypeOK, ClonesAreRequests, NEW i \in Inputs, NEW r \in ValueRequest,
           clones' = [clones EXCEPT ![r.by] = @ + 1], getMail' = Send(getMail, i, r),
           UNCHANGED <<setMail, checkMail>>
    PROVE  ClonesAreRequests'
<1> SUFFICES ASSUME NEW c \in Calls
             PROVE  /\ IsFiniteSet(RequestsOf(setMail', c))
                    /\ IsFiniteSet(RequestsOf(getMail', c))
                    /\ IsFiniteSet(RequestsOf(checkMail', c))
                    /\ clones'[c] = Cardinality(RequestsOf(setMail', c))
                                    + Cardinality(RequestsOf(getMail', c))
                                    + Cardinality(RequestsOf(checkMail', c))
  BY DEF ClonesAreRequests
<1>1. clones'[c] = clones[c] + (IF r.by = c THEN 1 ELSE 0)
  BY DEF TypeOK
<1>2. /\ IsFiniteSet(RequestsOf(getMail', c))
      /\ Cardinality(RequestsOf(getMail', c)) =
            Cardinality(RequestsOf(getMail, c)) + (IF r.by = c THEN 1 ELSE 0)
  <2>1. getMail \in [Inputs -> Seq(ValueRequest)] /\ IsFiniteSet(RequestsOf(getMail, c))
    BY DEF StoreTypeOK, ClonesAreRequests
  <2>2. /\ IsFiniteSet(RequestsOf(Send(getMail, i, r), c))
        /\ Cardinality(RequestsOf(Send(getMail, i, r), c)) =
              Cardinality(RequestsOf(getMail, c)) + (IF r.by = c THEN 1 ELSE 0)
    BY <2>1, SendCounts
  <2> QED
    BY <2>2
<1> QED
  BY <1>1, <1>2, CountsAreNat DEF ClonesAreRequests

LEMMA GetServed ==
    ASSUME TypeOK, StoreTypeOK, ClonesAreRequests, NEW i \in Inputs, getMail[i] # <<>>,
           clones' = [clones EXCEPT ![Head(getMail[i]).by] = @ - 1],
           getMail' = Receive(getMail, i), UNCHANGED <<setMail, checkMail>>
    PROVE  ClonesAreRequests'
<1> SUFFICES ASSUME NEW c \in Calls
             PROVE  /\ IsFiniteSet(RequestsOf(setMail', c))
                    /\ IsFiniteSet(RequestsOf(getMail', c))
                    /\ IsFiniteSet(RequestsOf(checkMail', c))
                    /\ clones'[c] = Cardinality(RequestsOf(setMail', c))
                                    + Cardinality(RequestsOf(getMail', c))
                                    + Cardinality(RequestsOf(checkMail', c))
  BY DEF ClonesAreRequests
<1>1. clones'[c] = clones[c] - (IF Head(getMail[i]).by = c THEN 1 ELSE 0)
  BY DEF TypeOK
<1>2. /\ IsFiniteSet(RequestsOf(getMail', c))
      /\ Cardinality(RequestsOf(getMail, c)) =
            Cardinality(RequestsOf(getMail', c)) + (IF Head(getMail[i]).by = c THEN 1 ELSE 0)
  BY ReceiveCounts, ZenonT(40) DEF StoreTypeOK, ClonesAreRequests
<1>3. Cardinality(RequestsOf(getMail', c)) \in Nat
  BY <1>2, FS_CardinalityType
<1> QED
  BY <1>1, <1>2, <1>3, CountsAreNat DEF ClonesAreRequests

LEMMA CheckSent ==
    ASSUME TypeOK, StoreTypeOK, ClonesAreRequests, NEW i \in Inputs, NEW r \in CheckRequest,
           clones' = [clones EXCEPT ![r.by] = @ + 1], checkMail' = Send(checkMail, i, r),
           UNCHANGED <<setMail, getMail>>
    PROVE  ClonesAreRequests'
<1> SUFFICES ASSUME NEW c \in Calls
             PROVE  /\ IsFiniteSet(RequestsOf(setMail', c))
                    /\ IsFiniteSet(RequestsOf(getMail', c))
                    /\ IsFiniteSet(RequestsOf(checkMail', c))
                    /\ clones'[c] = Cardinality(RequestsOf(setMail', c))
                                    + Cardinality(RequestsOf(getMail', c))
                                    + Cardinality(RequestsOf(checkMail', c))
  BY DEF ClonesAreRequests
<1>1. clones'[c] = clones[c] + (IF r.by = c THEN 1 ELSE 0)
  BY DEF TypeOK
<1>2. /\ IsFiniteSet(RequestsOf(checkMail', c))
      /\ Cardinality(RequestsOf(checkMail', c)) =
            Cardinality(RequestsOf(checkMail, c)) + (IF r.by = c THEN 1 ELSE 0)
  <2>1. checkMail \in [Inputs -> Seq(CheckRequest)] /\ IsFiniteSet(RequestsOf(checkMail, c))
    BY DEF StoreTypeOK, ClonesAreRequests
  <2>2. /\ IsFiniteSet(RequestsOf(Send(checkMail, i, r), c))
        /\ Cardinality(RequestsOf(Send(checkMail, i, r), c)) =
              Cardinality(RequestsOf(checkMail, c)) + (IF r.by = c THEN 1 ELSE 0)
    BY <2>1, SendCounts
  <2> QED
    BY <2>2
<1> QED
  BY <1>1, <1>2, CountsAreNat DEF ClonesAreRequests

LEMMA CheckServed ==
    ASSUME TypeOK, StoreTypeOK, ClonesAreRequests, NEW i \in Inputs, checkMail[i] # <<>>,
           clones' = [clones EXCEPT ![Head(checkMail[i]).by] = @ - 1],
           checkMail' = Receive(checkMail, i), UNCHANGED <<setMail, getMail>>
    PROVE  ClonesAreRequests'
<1> SUFFICES ASSUME NEW c \in Calls
             PROVE  /\ IsFiniteSet(RequestsOf(setMail', c))
                    /\ IsFiniteSet(RequestsOf(getMail', c))
                    /\ IsFiniteSet(RequestsOf(checkMail', c))
                    /\ clones'[c] = Cardinality(RequestsOf(setMail', c))
                                    + Cardinality(RequestsOf(getMail', c))
                                    + Cardinality(RequestsOf(checkMail', c))
  BY DEF ClonesAreRequests
<1>1. clones'[c] = clones[c] - (IF Head(checkMail[i]).by = c THEN 1 ELSE 0)
  BY DEF TypeOK
<1>2. /\ IsFiniteSet(RequestsOf(checkMail', c))
      /\ Cardinality(RequestsOf(checkMail, c)) =
            Cardinality(RequestsOf(checkMail', c)) + (IF Head(checkMail[i]).by = c THEN 1 ELSE 0)
  BY ReceiveCounts DEF StoreTypeOK, ClonesAreRequests
<1>3. Cardinality(RequestsOf(checkMail', c)) \in Nat
  BY <1>2, FS_CardinalityType
<1> QED
  BY <1>1, <1>2, <1>3, CountsAreNat DEF ClonesAreRequests

LEMMA ClonesStep ==
    ASSUME Standing, [StoreNext]_storeVars PROVE ClonesAreRequests'
<1> USE DEF Standing, ClockInv, Safety, StoreInv, nodeVars, history
<1>1. CASE UNCHANGED <<clones, setMail, getMail, checkMail>>
  BY <1>1 DEF ClonesAreRequests
<1>2. ASSUME NEW c \in Calls, CallStep(c)
      PROVE  UNCHANGED <<clones, setMail, getMail, checkMail>>
  BY <1>2 DEF CallStep, Ask, Cancel, Finish
<1>3. ASSUME NEW c \in Calls, NEW i \in Inputs, Request(c, i)
      PROVE  ClonesAreRequests'
  <2>1. ASSUME NEW v \in Values, Set(c, i, v) PROVE ClonesAreRequests'
    <3>1. [by |-> c, value |-> v] \in SetRequest /\ [by |-> c, value |-> v].by = c
      BY DEF SetRequest
    <3> QED
      BY <2>1, <3>1, SetSent DEF Set, Clone
  <2>2. CASE Get(c, i)
    <3>1. [by |-> c] \in ValueRequest /\ [by |-> c].by = c
      BY DEF ValueRequest
    <3> QED
      BY <2>2, <3>1, GetSent DEF Get, Clone
  <2>3. ASSUME NEW past \in Frames, Check(c, i, past) PROVE ClonesAreRequests'
    <3>1. [by |-> c, past |-> past] \in CheckRequest /\ [by |-> c, past |-> past].by = c
      BY ClockAssumption DEF CheckRequest, Frames
    <3> QED
      BY <2>3, <3>1, CheckSent DEF Check, Clone
  <2> QED
    BY <1>3, <2>1, <2>2, <2>3 DEF Request
<1>4. ASSUME NEW i \in Inputs, NodeTask(i) PROVE ClonesAreRequests'
  <2>1. CASE ServeSet(i)
    BY <2>1, SetServed DEF ServeSet, DropClone
  <2>2. CASE ServeCheck(i)
    BY <2>2, CheckServed DEF ServeCheck, DropClone
  <2>3. CASE ServeGet(i)
    BY <2>3, GetServed DEF ServeGet, DropClone
  <2>4. CASE RegisterNode(i) \/ ServeClock(i)
    BY <1>1, <2>4 DEF RegisterNode, Register, ServeClock, Answer, callVars
  <2> QED
    BY <1>4, <2>1, <2>2, <2>3, <2>4 DEF NodeTask
<1>5. CASE StoreClockTask
  BY <1>1, <1>5 DEF StoreClockTask, LogStartQuery, OtherClockStep, JoinQueryPhase, TakeInstr,
       NextMutation, AskIndexer, StartMutation, AskInstants, StartQuery, Grant, callVars
<1>6. CASE StoreIndexerTask \/ UNCHANGED storeVars
  BY <1>1, <1>6 DEF StoreIndexerTask, IndexerTask, ServeRegistration, NoRegistration,
       ServeAcquire, PollAgain, callVars, storeVars, vars
<1> QED
  BY <1>1, <1>2, <1>3, <1>4, <1>5, <1>6 DEF StoreNext

-----------------------------------------------------------------------------
(* Mailboxes, phases and the indexer.                                        *)

(* Only the two changes of phase touch what a token shows.                   *)
LEMMA StillWorld ==
    ASSUME [StoreNext]_storeVars, ~(OtherClockStep /\ StartMutation), ~LogStartQuery
    PROVE  UNCHANGED <<phase, current, snapshot>>
<1>1. CASE \E c \in Calls : CallStep(c)
  BY <1>1 DEF CallStep, Ask, Cancel, Finish, clockVars
<1>2. CASE \E c \in Calls, i \in Inputs : Request(c, i)
  BY <1>2, ZenonT(40) DEF Request, Set, Get, Check, Clone, clockVars
<1>3. CASE \E i \in Inputs : NodeTask(i)
  BY <1>3 DEF NodeTask, RegisterNode, Register, ServeSet, ServeCheck, ServeGet, DropClone,
       ServeClock, Answer, clockVars
<1>4. CASE OtherClockStep
  BY <1>4 DEF OtherClockStep, JoinQueryPhase, TakeInstr, NextMutation, AskIndexer,
       AskInstants, clockVars
<1>5. CASE StoreIndexerTask \/ UNCHANGED storeVars
  BY <1>5 DEF StoreIndexerTask, IndexerTask, ServeRegistration, NoRegistration,
       ServeAcquire, PollAgain, clockVars, storeVars, vars
<1> QED
  BY <1>1, <1>2, <1>3, <1>4, <1>5 DEF StoreNext, StoreClockTask

LEMMA HoldsToken ==
    ASSUME Safety, NEW c \in Calls, Clone(c) PROVE token[c].kind = phase
<1>1. c \in Live
  BY DEF Clone, Live
<1> QED
  BY <1>1, LiveToken

LEMMA PhaseStep ==
    ASSUME Standing, [StoreNext]_storeVars PROVE MailInPhase'
<1> USE DEF Standing, ClockInv, StoreInv, nodeVars, history
<1>1. CASE (OtherClockStep /\ StartMutation) \/ LogStartQuery
  <2>1. clockAt \in {"handles", "snapshot"} /\ UNCHANGED <<setMail, getMail, checkMail>>
    BY <1>1 DEF OtherClockStep, StartMutation, UpdateHandles, LogStartQuery, StartQuery
  <2>2. \A i \in Inputs : setMail[i] = <<>> /\ getMail[i] = <<>> /\ checkMail[i] = <<>>
    BY <2>1, ChangeIsQuiet
  <2> QED
    BY <2>1, <2>2 DEF MailInPhase
<1>2. CASE ~(OtherClockStep /\ StartMutation) /\ ~LogStartQuery
  <2>0. phase' = phase
    BY <1>2, StillWorld
  <2>1. CASE UNCHANGED <<setMail, getMail, checkMail>>
    BY <2>0, <2>1 DEF MailInPhase
  <2>2. ASSUME NEW c \in Calls, NEW i \in Inputs, Request(c, i) PROVE MailInPhase'
    <3>1. CASE \E v \in Values : Set(c, i, v)
      <4>1. phase = "Mutation"
        BY <3>1, HoldsToken DEF Set
      <4> QED
        BY <2>0, <3>1, <4>1 DEF Set, MailInPhase
    <3>2. CASE Get(c, i)
      <4>1. phase = "Query"
        BY <3>2, HoldsToken DEF Get
      <4> QED
        BY <2>0, <3>2, <4>1 DEF Get, MailInPhase
    <3>3. CASE \E past \in Frames : Check(c, i, past)
      <4>1. phase = "Query"
        BY <3>3, HoldsToken DEF Check
      <4> QED
        BY <2>0, <3>3, <4>1 DEF Check, MailInPhase
    <3> QED
      BY <2>2, <3>1, <3>2, <3>3 DEF Request
  <2>3. ASSUME NEW i \in Inputs, NodeTask(i) PROVE MailInPhase'
    <3>1. CASE ServeSet(i)
      <4>1. \A j \in Inputs : setMail'[j] # <<>> => setMail[j] # <<>>
        BY <3>1 DEF ServeSet, Receive, StoreTypeOK
      <4> QED
        BY <2>0, <3>1, <4>1 DEF ServeSet, MailInPhase
    <3>2. CASE ServeCheck(i)
      <4>1. \A j \in Inputs : checkMail'[j] # <<>> => checkMail[j] # <<>>
        BY <3>2 DEF ServeCheck, Receive, StoreTypeOK
      <4> QED
        BY <2>0, <3>2, <4>1 DEF ServeCheck, MailInPhase
    <3>3. CASE ServeGet(i)
      <4>1. \A j \in Inputs : getMail'[j] # <<>> => getMail[j] # <<>>
        BY <3>3 DEF ServeGet, Receive, StoreTypeOK
      <4> QED
        BY <2>0, <3>3, <4>1 DEF ServeGet, MailInPhase
    <3>4. CASE RegisterNode(i) \/ ServeClock(i)
      BY <2>1, <3>4 DEF RegisterNode, ServeClock
    <3> QED
      BY <2>3, <3>1, <3>2, <3>3, <3>4 DEF NodeTask
  <2>4. CASE (\E c \in Calls : CallStep(c)) \/ StoreClockTask \/ StoreIndexerTask
             \/ UNCHANGED storeVars
    BY <1>2, <2>1, <2>4 DEF CallStep, StoreClockTask, LogStartQuery, OtherClockStep,
         StoreIndexerTask, storeVars
  <2> QED
    BY <2>2, <2>3, <2>4 DEF StoreNext
<1> QED
  BY <1>1, <1>2

LEMMA QueueStep ==
    ASSUME Standing, [Next]_vars PROVE QueueTaken'
<1> USE DEF Standing, StoreInv, QueueTaken, clockVars, acquireVars, indexerVars
<1>1. CASE ServeRegistration
  <2>1. registrations # <<>> /\ UNCHANGED clockAt
    BY <1>1 DEF ServeRegistration
  <2>2. clockAt \notin {"handles", "snapshot"}
    BY <2>1, ChangeIsQuiet
  <2> QED
    BY <2>1, <2>2
<1>2. CASE ServeAcquire
  BY <1>2 DEF ServeAcquire
<1>3. CASE NoRegistration \/ PollAgain \/ Caller \/ AnyInput \/ UNCHANGED vars
  BY <1>3 DEF NoRegistration, PollAgain, Caller, Ask, Cancel, Finish, Clone, DropClone,
       AnyInput, Register, Answer, vars
<1>4. CASE ClockTask
  BY <1>4 DEF ClockTask, JoinQueryPhase, TakeInstr, NextMutation, AskIndexer, StartMutation,
       AskInstants, StartQuery, UpdateHandles, AwaitNextInstr
<1> QED
  BY <1>1, <1>2, <1>3, <1>4 DEF Next, IndexerTask

(* An index is given to an input that has none, so that no place is taken    *)
(* twice.                                                                    *)
LEMMA PlacesStep ==
    ASSUME Standing, [Next]_vars
    PROVE  \A n \in DOMAIN Known' : assigned'[Known'[n]] + 1 = n
<1> USE DEF Standing, ClockInv, Safety
<1>1. CASE ~ServeRegistration
  BY <1>1, KnownStays DEF StoreInv, RegisteredOnce
<1>2. CASE ServeRegistration
  <2> DEFINE i == Head(registrations)
  <2>1. /\ i \in Inputs /\ Known' = Append(Known, i)
        /\ assigned' = [assigned EXCEPT ![i] = index]
        /\ index = Len(Known) /\ Known \in Seq(Inputs)
    BY <1>2, KnownGrows, KnownType DEF NoHandleLost
  <2>2. assigned[i] = NoIndex
    <3>1. 1 \in DOMAIN registrations /\ i = registrations[1]
      BY <1>2, EmptySeq DEF ServeRegistration, TypeOK
    <3> QED
      BY <3>1 DEF StoreInv, RegisteredOnce
  <2> HIDE DEF i
  <2>3. /\ DOMAIN Known' = 1 .. Len(Known) + 1 /\ DOMAIN Known = 1 .. Len(Known)
        /\ Len(Known) \in Nat /\ Known'[Len(Known) + 1] = i
        /\ \A n \in DOMAIN Known : Known'[n] = Known[n]
    BY <2>1, AppendElements
  <2> SUFFICES ASSUME NEW n \in DOMAIN Known' PROVE assigned'[Known'[n]] + 1 = n
    OBVIOUS
  <2>4. CASE n = Len(Known) + 1
    BY <2>1, <2>3, <2>4 DEF TypeOK
  <2>5. CASE n \in DOMAIN Known
    <3>1. assigned[Known[n]] + 1 = n /\ Known[n] \in Inputs
      BY <2>1, <2>5, SeqElements DEF StoreInv, RegisteredOnce
    <3>2. Known[n] # i
      BY <2>2, <2>3, <2>5, <3>1 DEF NoIndex
    <3> QED
      BY <2>1, <2>3, <2>5, <3>1, <3>2 DEF TypeOK
  <2> QED
    BY <2>3, <2>4, <2>5
<1> QED
  BY <1>1, <1>2

LEMMA RegisteredStep ==
    ASSUME Standing, [Next]_vars, [StoreNext]_storeVars PROVE RegisteredOnce'
<1> USE DEF Standing, ClockInv, Safety, StoreInv, nodeVars, history
<1>0. \A n \in DOMAIN Known' : assigned'[Known'[n]] + 1 = n
  BY PlacesStep
<1>1. ASSUME UNCHANGED <<registrations, assigned>>, spawned \subseteq spawned',
             \A i \in spawned :
                assigned[i] = NoIndex /\ (setMail[i] # <<>> \/ getMail[i] # <<>>)
                   => setMail'[i] # <<>> \/ getMail'[i] # <<>>,
             \A i \in spawned' \ spawned : setMail'[i] # <<>> \/ getMail'[i] # <<>>
      PROVE  RegisteredOnce'
  BY <1>0, <1>1 DEF RegisteredOnce
<1>2. CASE UNCHANGED <<registrations, assigned, spawned, setMail, getMail>>
  BY <1>1, <1>2
<1>3. ASSUME NEW c \in Calls, NEW i \in Inputs, Request(c, i) PROVE RegisteredOnce'
  <2>1. UNCHANGED <<registrations, assigned>>
    BY <1>3 DEF Request, Set, Get, Check, Clone, indexerVars
  <2>2. ASSUME NEW v \in Values, Set(c, i, v) PROVE RegisteredOnce'
    <3>1. setMail'[i] # <<>> /\ \A j \in Inputs \ {i} : setMail'[j] = setMail[j]
      <4>1. [by |-> c, value |-> v] \in SetRequest
        BY DEF SetRequest
      <4>2. /\ setMail' = Send(setMail, i, [by |-> c, value |-> v])
            /\ setMail \in [Inputs -> Seq(SetRequest)]
        BY <2>2 DEF Set, StoreTypeOK
      <4> QED
        BY <4>1, <4>2, SentLast
    <3> QED
      BY <1>1, <2>1, <2>2, <3>1 DEF Set, StoreTypeOK
  <2>3. CASE Get(c, i)
    <3>1. getMail'[i] # <<>> /\ \A j \in Inputs \ {i} : getMail'[j] = getMail[j]
      <4>1. [by |-> c] \in ValueRequest
        BY DEF ValueRequest
      <4>2. getMail' = Send(getMail, i, [by |-> c]) /\ getMail \in [Inputs -> Seq(ValueRequest)]
        BY <2>3 DEF Get, StoreTypeOK
      <4> QED
        BY <4>1, <4>2, SentLast
    <3> QED
      BY <1>1, <2>1, <2>3, <3>1 DEF Get, StoreTypeOK
  <2>4. CASE \E past \in Frames : Check(c, i, past)
    BY <1>2, <2>1, <2>4 DEF Check
  <2> QED
    BY <1>3, <2>2, <2>3, <2>4 DEF Request
<1>4. ASSUME NEW i \in Inputs, RegisterNode(i) PROVE RegisteredOnce'
  <2>1. /\ i \in spawned /\ assigned[i] = NoIndex
        /\ \A n \in DOMAIN registrations : registrations[n] # i
        /\ registrations' = Append(registrations, i)
        /\ UNCHANGED <<assigned, spawned, setMail, getMail>>
    BY <1>4 DEF RegisterNode, Register
  <2>2. /\ DOMAIN registrations' = 1 .. Len(registrations) + 1
        /\ DOMAIN registrations = 1 .. Len(registrations) /\ Len(registrations) \in Nat
        /\ \A n \in DOMAIN registrations : registrations'[n] = registrations[n]
        /\ registrations'[Len(registrations) + 1] = i
    BY <2>1, AppendElements DEF TypeOK
  <2>3. \A n \in DOMAIN registrations' :
           n \in DOMAIN registrations \/ n = Len(registrations) + 1
    BY <2>2
  <2>4. \A m, n \in DOMAIN registrations' : registrations'[m] = registrations'[n] => m = n
    BY <2>1, <2>2, <2>3 DEF RegisteredOnce
  <2>5. \A n \in DOMAIN registrations' :
           registrations'[n] \in spawned /\ assigned[registrations'[n]] = NoIndex
    BY <2>1, <2>2, <2>3 DEF RegisteredOnce
  <2> QED
    BY <1>0, <2>1, <2>4, <2>5 DEF RegisteredOnce
<1>5. ASSUME NEW i \in Inputs, Serving(i), UNCHANGED <<registrations, assigned, spawned>>,
             \A j \in Inputs \ {i} : setMail'[j] = setMail[j] /\ getMail'[j] = getMail[j]
      PROVE  RegisteredOnce'
  BY <1>1, <1>5 DEF Serving, StoreTypeOK
<1>6. ASSUME NEW i \in Inputs, NodeTask(i) PROVE RegisteredOnce'
  <2>1. CASE ServeSet(i) \/ ServeGet(i) \/ ServeCheck(i) \/ ServeClock(i)
    <3>1. Serving(i) /\ UNCHANGED <<registrations, assigned, spawned>>
      BY <2>1 DEF ServeSet, ServeGet, ServeCheck, ServeClock, DropClone, Answer, indexerVars
    <3>2. \A j \in Inputs \ {i} : setMail'[j] = setMail[j] /\ getMail'[j] = getMail[j]
      BY <2>1 DEF ServeSet, ServeGet, ServeCheck, ServeClock, Receive, StoreTypeOK
    <3> QED
      BY <1>5, <3>1, <3>2
  <2> QED
    BY <1>4, <1>6, <2>1 DEF NodeTask
<1>7. CASE ServeRegistration /\ UNCHANGED nodeVars
  <2> DEFINE i == Head(registrations)
             rest == Tail(registrations)
  <2>1. /\ i \in Inputs /\ registrations' = rest
        /\ assigned' = [assigned EXCEPT ![i] = index] /\ index \in Nat
        /\ UNCHANGED <<spawned, setMail, getMail>>
    BY <1>7, KnownGrows DEF ServeRegistration, TypeOK
  <2>2. /\ i = registrations[1] /\ 1 \in DOMAIN registrations
        /\ \A n \in DOMAIN rest : /\ n + 1 \in DOMAIN registrations /\ n \in Nat \ {0}
                                  /\ rest[n] = registrations[n + 1]
    <3>1. /\ registrations \in Seq(Inputs) /\ registrations # <<>>
          /\ Len(registrations) \in Nat \ {0} /\ DOMAIN registrations = 1 .. Len(registrations)
      BY <1>7, EmptySeq DEF ServeRegistration, TypeOK
    <3>2. /\ rest \in Seq(Inputs) /\ Len(rest) = Len(registrations) - 1
          /\ \A n \in 1 .. Len(rest) : rest[n] = registrations[n + 1]
      BY <3>1, HeadTailProperties
    <3> QED
      BY <3>1, <3>2
  <2> HIDE DEF i, rest
  <2>3. \A n \in DOMAIN rest :
           /\ rest[n] \in spawned /\ assigned[rest[n]] = NoIndex
           /\ rest[n] # i
    BY <2>2 DEF RegisteredOnce
  <2>4. \A m, n \in DOMAIN rest : rest[m] = rest[n] => m = n
    BY <2>2 DEF RegisteredOnce
  <2>5. \A n \in DOMAIN rest : rest[n] \in spawned /\ assigned'[rest[n]] = NoIndex
    BY <2>1, <2>3 DEF StoreTypeOK, TypeOK
  <2>6. \A j \in Inputs : assigned'[j] # NoIndex => j \in spawned
    BY <2>1, <2>2 DEF RegisteredOnce, TypeOK
  <2>7. \A j \in spawned : assigned'[j] = NoIndex => assigned[j] = NoIndex
    BY <2>1 DEF StoreTypeOK, TypeOK, NoIndex
  <2> QED
    BY <1>0, <2>1, <2>4, <2>5, <2>6, <2>7 DEF RegisteredOnce
<1>8. CASE (\E c \in Calls : CallStep(c)) \/ StoreClockTask \/ UNCHANGED storeVars
  BY <1>2, <1>8 DEF CallStep, Ask, Cancel, Finish, StoreClockTask, LogStartQuery,
       OtherClockStep, JoinQueryPhase, TakeInstr, NextMutation, AskIndexer, StartMutation,
       AskInstants, StartQuery, UpdateHandles, indexerVars, storeVars, vars
<1>9. CASE StoreIndexerTask
  BY <1>2, <1>7, <1>9 DEF StoreIndexerTask, IndexerTask, NoRegistration, ServeAcquire,
       PollAgain
<1> QED
  BY <1>3, <1>6, <1>8, <1>9 DEF StoreNext

-----------------------------------------------------------------------------
(* Caches.                                                                   *)

LEMMA ReceivedLast ==
    ASSUME NEW S, NEW mail \in [Inputs -> Seq(S)], NEW i \in Inputs, mail[i] # <<>>
    PROVE  /\ Receive(mail, i)[i] # <<>> =>
                 Receive(mail, i)[i][Len(Receive(mail, i)[i])] = mail[i][Len(mail[i])]
           /\ Receive(mail, i)[i] = <<>> => mail[i][Len(mail[i])] = Head(mail[i])
           /\ \A j \in Inputs \ {i} : Receive(mail, i)[j] = mail[j]
<1> DEFINE s == mail[i]
           t == Tail(s)
<1>1. Receive(mail, i)[i] = t /\ \A j \in Inputs \ {i} : Receive(mail, i)[j] = mail[j]
  BY DEF Receive
<1>2. s \in Seq(S) /\ s # <<>> /\ Head(s) = s[1] /\ Len(s) \in Nat \ {0}
  BY EmptySeq
<1>3. t \in Seq(S) /\ Len(t) = Len(s) - 1 /\ \A n \in 1 .. Len(t) : t[n] = s[n + 1]
  BY <1>2, HeadTailProperties
<1> HIDE DEF s, t
<1>4. t # <<>> => t[Len(t)] = s[Len(s)]
  <2> SUFFICES ASSUME t # <<>> PROVE t[Len(t)] = s[Len(s)]
    OBVIOUS
  <2>1. Len(t) \in 1 .. Len(t)
    BY <1>3, EmptySeq
  <2> QED
    BY <1>2, <1>3, <2>1
<1>5. t = <<>> => s[Len(s)] = Head(s)
  <2> SUFFICES ASSUME t = <<>> PROVE s[Len(s)] = Head(s)
    OBVIOUS
  <2>1. Len(s) = 1
    <3>1. Len(t) = 0
      OBVIOUS
    <3> QED
      BY <1>2, <1>3, <3>1
  <2> QED
    BY <1>2, <2>1
<1> QED
  BY <1>1, <1>4, <1>5 DEF s

(* Everything CacheCorrect says of one input.                                *)
Correct(i) ==
    /\ Latest(i) = stored[i]
    /\ phase = "Query" => cache[i].next = NoChange
    /\ cache[i].next # NoChange => cache[i].next.since = current
    /\ assigned[i] = NoIndex => cache[i] = NewEntry

LEMMA CorrectStays ==
    ASSUME NEW i \in Inputs, Correct(i), cache'[i] = cache[i], setMail'[i] = setMail[i],
           stored'[i] = stored[i], UNCHANGED <<phase, current>>,
           assigned'[i] = NoIndex => assigned[i] = NoIndex
    PROVE  Correct(i)'
  BY DEF Correct, Latest

(* A change is queued in the frame its token shows, and taken in as what it  *)
(* says.                                                                     *)
LEMMA ServeSetCorrect ==
    ASSUME Standing, [StoreNext]_storeVars, NEW i \in Inputs, ServeSet(i),
           NEW j \in Inputs, Correct(j)
    PROVE  Correct(j)'
<1> USE DEF Standing, ClockInv, Safety, StoreInv, StoreTypeOK, history
<1> DEFINE r == Head(setMail[i])
           change == [value |-> r.value, since |-> token[r.by].frame]
<1>1. /\ Serving(i) /\ setMail[i] # <<>> /\ setMail' = Receive(setMail, i)
      /\ cache' = [cache EXCEPT ![i].next = change]
      /\ UNCHANGED <<stored, phase, current, assigned>>
  BY DEF ServeSet, DropClone, clockVars, indexerVars
<1>2. r.by \in Live /\ phase = "Mutation"
  BY <1>1, MailIsLive DEF MailInPhase
<1>3. token[r.by].frame = current /\ current \in Nat
  BY <1>2, LiveToken DEF TypeOK
<1>4. change.since = current /\ change.value = r.value /\ change # NoChange
  BY <1>3 DEF NoChange, NoFrame
<1> HIDE DEF change
<1>5. CASE j # i
  BY <1>1, <1>5, CorrectStays, ReceivedLast
<1>6. CASE j = i
  <2>1. cache'[i].next = change /\ cache'[i].value = cache[i].value
    BY <1>1 DEF Entry
  <2>2. setMail[i][Len(setMail[i])].value = stored[i]
    BY <1>1, <1>6 DEF Correct, Latest
  <2>3. Latest(i)' = stored'[i]
    <3>1. CASE setMail'[i] # <<>>
      <4>1. setMail'[i][Len(setMail'[i])] = setMail[i][Len(setMail[i])]
        BY <1>1, <3>1, ReceivedLast
      <4> QED
        BY <1>1, <2>2, <3>1, <4>1 DEF Latest
    <3>2. CASE setMail'[i] = <<>>
      <4>1. setMail[i][Len(setMail[i])] = r
        BY <1>1, <3>2, ReceivedLast
      <4> HIDE DEF r
      <4> QED
        BY <1>1, <1>4, <2>1, <2>2, <3>2, <4>1 DEF Latest
    <3> QED
      BY <3>1, <3>2
  <2> QED
    BY <1>1, <1>2, <1>4, <1>6, <2>1, <2>3 DEF Correct, Serving
<1> QED
  BY <1>5, <1>6

LEMMA ActualizedIs ==
    ASSUME NEW e \in Entry
    PROVE  /\ Actualized(e).next = NoChange
           /\ Actualized(e).value = IF e.next # NoChange THEN e.next.value ELSE e.value
  BY DEF Actualized, Entry

LEMMA ServeClockCorrect ==
    ASSUME Standing, [StoreNext]_storeVars, NEW i \in Inputs, ServeClock(i),
           NEW j \in Inputs, Correct(j)
    PROVE  Correct(j)'
<1> USE DEF Standing, ClockInv, Safety, StoreInv, StoreTypeOK
<1>1. /\ Serving(i) /\ clockAt = "snapshot"
      /\ cache' = [cache EXCEPT ![i] = Actualized(@)]
      /\ UNCHANGED <<setMail, stored, phase, current, assigned>>
  BY DEF ServeClock, Answer, indexerVars, history
<1>2. CASE j # i
  <2>1. cache'[j] = cache[j]
    BY <1>1, <1>2
  <2> QED
    BY <1>1, <2>1, CorrectStays
<1>3. CASE j = i
  <2>1. cache'[i] = Actualized(cache[i]) /\ cache[i] \in Entry
    BY <1>1
  <2>2. setMail[i] = <<>>
    BY <1>1, ChangeIsQuiet
  <2>3. Latest(i)' = stored'[i]
    BY <1>1, <1>3, <2>1, <2>2, ActualizedIs DEF Latest, Correct
  <2> QED
    BY <1>1, <1>3, <2>1, <2>3, ActualizedIs DEF Correct, Serving
<1> QED
  BY <1>2, <1>3

(* A query phase begins when every input that may have a change has been     *)
(* asked and has taken it in; a mutation phase when none has a change.       *)
LEMMA StartCorrect ==
    ASSUME Standing, NEW j \in Inputs, Correct(j),
           LogStartQuery \/ (OtherClockStep /\ StartMutation)
    PROVE  Correct(j)' /\ cache[j].next = NoChange
<1> USE DEF Standing, ClockInv, Safety, StoreInv, StoreTypeOK
<1>1. CASE LogStartQuery
  <2>1. /\ clockAt = "snapshot" /\ phase' = "Query" /\ current' = current
        /\ \A n \in DOMAIN answers : answers[n] # NoAnswer
        /\ UNCHANGED <<cache, setMail, stored, assigned, spawned>>
    BY <1>1 DEF LogStartQuery, StartQuery, nodeVars, indexerVars
  <2>2. cache[j].next = NoChange
    <3>1. CASE j \in spawned
      <4>1. ~acquireAsked /\ acquired = <<>> /\ queue = <<>>
        BY <2>1 DEF NoHandleLost, QueueTaken, TypeOK
      <4>2. Known = handles
        BY <4>1, ConcatEmptySeq DEF Known, TypeOK
      <4>3. assigned[j] + 1 \in DOMAIN handles /\ handles[assigned[j] + 1] = j
        BY <2>1, <3>1, <4>2, ChangeIsQuiet DEF IndexIsPlace
      <4> QED
        BY <2>1, <4>3 DEF AnswersCorrect
    <3>2. CASE j \notin spawned
      BY <3>2 DEF RegisteredOnce, Correct, NewEntry
    <3> QED
      BY <3>1, <3>2
  <2> QED
    BY <2>1, <2>2 DEF Correct, Latest
<1>2. CASE OtherClockStep /\ StartMutation
  <2>1. /\ clockAt = "handles" /\ instr.kind = "Mutation" /\ phase' = "Mutation"
        /\ UNCHANGED <<cache, setMail, stored, assigned>>
    BY <1>2 DEF OtherClockStep, StartMutation, UpdateHandles, nodeVars, history, indexerVars
  <2>2. phase = "Query"
    BY <2>1 DEF RealChange, TypeOK, Kinds
  <2> QED
    BY <2>1, <2>2 DEF Correct, Latest
<1> QED
  BY <1>1, <1>2

LEMMA CacheStep ==
    ASSUME Standing, [Next]_vars, [StoreNext]_storeVars PROVE CacheCorrect'
<1> USE DEF Standing, ClockInv, Safety, StoreInv, StoreTypeOK, nodeVars, history
<1> SUFFICES ASSUME NEW j \in Inputs PROVE Correct(j)'
  BY DEF CacheCorrect, Correct
<1>1. Correct(j)
  BY DEF CacheCorrect, Correct
<1>2. CASE LogStartQuery \/ (OtherClockStep /\ StartMutation)
  BY <1>1, <1>2, StartCorrect
<1>3. CASE ~LogStartQuery /\ ~(OtherClockStep /\ StartMutation)
  <2>1. UNCHANGED <<phase, current>>
    BY <1>3, StillWorld
  <2>2. assigned'[j] = NoIndex => assigned[j] = NoIndex
    <3>1. CASE ServeRegistration
      <4>1. /\ assigned' = [assigned EXCEPT ![Head(registrations)] = index]
            /\ index \in Nat /\ assigned \in [Inputs -> Nat \cup {NoIndex}]
        BY <3>1, KnownGrows DEF TypeOK
      <4> QED
        BY <4>1 DEF NoIndex
    <3>2. CASE ~ServeRegistration
      BY <3>2, KnownStays
    <3> QED
      BY <3>1, <3>2
  <2>3. CASE UNCHANGED <<cache, setMail, stored>>
    BY <1>1, <2>1, <2>2, <2>3, CorrectStays
  <2>4. ASSUME NEW c \in Calls, NEW i \in Inputs, NEW v \in Values, Set(c, i, v)
        PROVE  Correct(j)'
    <3> DEFINE r == [by |-> c, value |-> v]
    <3>1. /\ setMail' = Send(setMail, i, r) /\ stored' = [stored EXCEPT ![i] = v]
          /\ cache' = cache /\ r.value = v
      BY <2>4 DEF Set
    <3>2. r \in SetRequest /\ setMail \in [Inputs -> Seq(SetRequest)]
      BY DEF SetRequest
    <3> HIDE DEF r
    <3>3. /\ setMail'[i] # <<>> /\ setMail'[i][Len(setMail'[i])] = r
          /\ \A k \in Inputs \ {i} : setMail'[k] = setMail[k]
      <4>1. /\ Send(setMail, i, r)[i] # <<>>
            /\ Send(setMail, i, r)[i][Len(Send(setMail, i, r)[i])] = r
            /\ \A k \in Inputs \ {i} : Send(setMail, i, r)[k] = setMail[k]
        BY ONLY <3>2, SentLast, i \in Inputs
      <4> QED
        BY ONLY <3>1, <4>1
    <3>4. CASE j = i
      <4>1. Latest(i)' = v
        BY <3>1, <3>3 DEF Latest
      <4> QED
        BY <1>1, <2>1, <2>2, <3>1, <3>4, <4>1 DEF Correct
    <3>5. CASE j # i
      BY <1>1, <2>1, <2>2, <3>1, <3>3, <3>5, CorrectStays
    <3> QED
      BY <3>4, <3>5
  <2>5. ASSUME NEW i \in Inputs, NodeTask(i) PROVE Correct(j)'
    <3>1. CASE ServeSet(i)
      BY <1>1, <3>1, ServeSetCorrect
    <3>2. CASE ServeClock(i)
      BY <1>1, <3>2, ServeClockCorrect
    <3>3. CASE RegisterNode(i) \/ ServeCheck(i) \/ ServeGet(i)
      BY <2>3, <3>3 DEF RegisterNode, ServeCheck, ServeGet
    <3> QED
      BY <2>5, <3>1, <3>2, <3>3 DEF NodeTask
  <2>6. ASSUME NEW c \in Calls, NEW i \in Inputs, Request(c, i) PROVE Correct(j)'
    BY <2>3, <2>4, <2>6 DEF Request, Get, Check
  <2>7. CASE (\E c \in Calls : CallStep(c)) \/ StoreClockTask \/ StoreIndexerTask
             \/ UNCHANGED storeVars
    BY <1>3, <2>3, <2>7 DEF CallStep, StoreClockTask, OtherClockStep, StoreIndexerTask,
         storeVars
  <2> QED
    BY <2>5, <2>6, <2>7 DEF StoreNext
<1> QED
  BY <1>2, <1>3

-----------------------------------------------------------------------------
(* The answers of one snapshot.                                              *)

(* The n-th handle of the clock is the input that was told index n - 1.      *)
LEMMA HandleIsPlace ==
    ASSUME TypeOK, RegisteredOnce, NEW n \in DOMAIN handles
    PROVE  assigned[handles[n]] + 1 = n
<1>1. n \in DOMAIN Known /\ Known[n] = handles[n]
  BY DEF TypeOK, Known
<1> QED
  BY <1>1 DEF RegisteredOnce

LEMMA AnswersStep ==
    ASSUME Standing, [StoreNext]_storeVars PROVE AnswersCorrect'
<1> USE DEF Standing, ClockInv, Safety, StoreInv, nodeVars, history
<1>1. CASE UNCHANGED <<clockAt, handles, answers, cache>>
  BY <1>1 DEF AnswersCorrect
<1>2. CASE clockAt' # "snapshot"
  BY <1>2 DEF AnswersCorrect
<1>3. CASE OtherClockStep
  <2>1. CASE AskInstants
    <3>1. answers' = [n \in DOMAIN handles' |-> NoAnswer]
      BY <2>1 DEF AskInstants
    <3> QED
      BY <3>1 DEF AnswersCorrect
  <2>2. CASE ~AskInstants
    <3>1. clockAt' # "snapshot" \/ UNCHANGED <<clockAt, handles, answers, cache>>
      BY <1>3, <2>2 DEF OtherClockStep, JoinQueryPhase, TakeInstr, NextMutation, AskIndexer,
           StartMutation, AwaitNextInstr, clockVars
    <3> QED
      BY <1>1, <1>2, <3>1
  <2> QED
    BY <2>1, <2>2
<1>4. ASSUME NEW i \in Inputs, NodeTask(i) PROVE AnswersCorrect'
  <2>1. CASE ServeSet(i)
    <3>1. clockAt # "snapshot" /\ clockAt' = clockAt
      BY <2>1, ChangeIsQuiet DEF ServeSet, DropClone, clockVars
    <3> QED
      BY <3>1 DEF AnswersCorrect
  <2>2. CASE ServeClock(i)
    <3>1. PICK n \in DOMAIN answers : handles[n] = i /\ Answer(n, cache'[i].instant)
      BY <2>2 DEF ServeClock
    <3>2. /\ clockAt = "snapshot" /\ handles' = handles
          /\ answers' = [answers EXCEPT ![n] = cache'[i].instant]
          /\ cache' = [cache EXCEPT ![i] = Actualized(@)]
      BY <2>2, <3>1 DEF Answer, ServeClock
    <3>3. DOMAIN answers = DOMAIN handles /\ DOMAIN answers' = DOMAIN answers
      BY <3>2 DEF AnswersCorrect
    <3>4. cache[i] \in Entry /\ cache'[i] = Actualized(cache[i])
      BY <3>2 DEF StoreTypeOK
    <3>5. cache'[i].next = NoChange
      BY <3>4, ActualizedIs
    <3>6. ASSUME NEW m \in DOMAIN handles, answers'[m] # NoAnswer
          PROVE  cache'[handles[m]].next = NoChange
                 /\ answers'[m] = cache'[handles[m]].instant
      <4>1. CASE m = n
        BY <3>1, <3>2, <3>3, <3>5, <4>1
      <4>2. CASE m # n
        <5>1. handles[m] # i /\ handles[m] \in Inputs
          BY <3>1, <3>3, <4>2, HandleIsPlace DEF TypeOK
        <5>2. answers'[m] = answers[m] /\ cache'[handles[m]] = cache[handles[m]]
          BY <3>2, <4>2, <5>1 DEF TypeOK, StoreTypeOK
        <5> QED
          BY <3>2, <3>6, <5>2 DEF AnswersCorrect
      <4> QED
        BY <4>1, <4>2
    <3> QED
      BY <3>2, <3>3, <3>6 DEF AnswersCorrect
  <2>3. CASE RegisterNode(i) \/ ServeCheck(i) \/ ServeGet(i)
    BY <1>1, <2>3 DEF RegisterNode, ServeCheck, ServeGet, Register, DropClone, clockVars
  <2> QED
    BY <1>4, <2>1, <2>2, <2>3 DEF NodeTask
<1>5. ASSUME NEW c \in Calls, CallStep(c) PROVE AnswersCorrect'
  BY <1>1, <1>5 DEF CallStep, Ask, Cancel, Finish, clockVars
<1>6. ASSUME NEW c \in Calls, NEW i \in Inputs, Request(c, i) PROVE AnswersCorrect'
  BY <1>1, <1>6 DEF Request, Set, Get, Check, Clone, clockVars
<1>7. CASE LogStartQuery
  BY <1>2, <1>7 DEF LogStartQuery, StartQuery, AwaitNextInstr
<1>8. CASE StoreIndexerTask
  BY <1>1, <1>8 DEF StoreIndexerTask, IndexerTask, ServeRegistration, NoRegistration,
       ServeAcquire, PollAgain, clockVars
<1>9. CASE UNCHANGED storeVars
  BY <1>1, <1>9 DEF storeVars, vars, clockVars
<1> QED
  BY <1>3, <1>4, <1>5, <1>6, <1>7, <1>8, <1>9 DEF StoreNext, StoreClockTask

-----------------------------------------------------------------------------
(* The invariant, and what it says of readers and of the snapshot.           *)

LEMMA StoreInitInv == StoreInit => StoreInv
<1> SUFFICES ASSUME StoreInit PROVE StoreInv
  OBVIOUS
<1>1. Init /\ StoreTypeOK
  BY StoreInitType
<1>2. \A i \in Inputs : setMail[i] = <<>> /\ getMail[i] = <<>> /\ checkMail[i] = <<>>
  BY DEF StoreInit
<1>3. ClonesAreRequests
  <2>1. \A c : /\ RequestsOf(setMail, c) = {} /\ RequestsOf(getMail, c) = {}
               /\ RequestsOf(checkMail, c) = {}
    BY <1>2, RequestsAt
  <2>2. \A c \in Calls : clones[c] = 0
    BY <1>1 DEF Init
  <2> QED
    BY <2>1, <2>2, FS_EmptySet DEF ClonesAreRequests
<1>4. MailInPhase
  BY <1>2 DEF MailInPhase
<1>5. RegisteredOnce
  <2>1. /\ registrations = <<>> /\ spawned = {} /\ Known = <<>>
        /\ assigned = [i \in Inputs |-> NoIndex]
    BY <1>1 DEF StoreInit, Init, Known
  <2> QED
    BY <2>1 DEF RegisteredOnce
<1>6. QueueTaken /\ AnswersCorrect
  BY <1>1 DEF Init, QueueTaken, AnswersCorrect
<1>7. CacheCorrect
  BY <1>2 DEF StoreInit, CacheCorrect, Latest, NewEntry
<1> QED
  BY <1>3, <1>4, <1>5, <1>6, <1>7 DEF StoreInv

LEMMA StandingStep ==
    ASSUME Standing, ClockInv', [StoreNext]_storeVars PROVE Standing'
<1>1. [Next]_vars /\ StoreTypeOK'
  BY StoreStepType DEF Standing, ClockInv, Safety
<1> QED
  BY <1>1, ClonesStep, PhaseStep, RegisteredStep, QueueStep, CacheStep, AnswersStep
     DEF Standing, StoreInv

(* The mailboxes, the caches and the registration of the inputs are what     *)
(* StoreInv says they are, together with all that is proved of the clock.    *)
LEMMA StandingHolds == StoreSpec => []Standing
<1>1. StoreInit /\ ClockInv => Standing
  BY StoreInitType, StoreInitInv DEF Standing
<1>2. Standing /\ ClockInv' /\ [StoreNext]_storeVars => Standing'
  BY StandingStep
<1>3. StoreSpec => []ClockInv
  BY StoreIsClock, ClockInvHolds, PTL
<1> QED
  BY <1>1, <1>2, <1>3, PTL DEF StoreSpec

(* A node that is about to answer a reader or a validation holds the value   *)
(* last set, by whichever call, and has no change queued: the debug_assert   *)
(* of both branches of the node's select! never fires.                       *)
THEOREM ReadersSeeLastWrite == StoreSpec => []ReadsLastWrite
<1>1. Standing => ReadsLastWrite
  <2> SUFFICES ASSUME Standing, NEW i \in Inputs, Serving(i),
                      getMail[i] # <<>> \/ checkMail[i] # <<>>
               PROVE  cache[i].value = stored[i] /\ cache[i].next = NoChange
    BY DEF ReadsLastWrite
  <2>1. phase = "Query" /\ setMail[i] = <<>>
    BY DEF Standing, StoreInv, MailInPhase
  <2> QED
    BY <2>1 DEF Standing, StoreInv, CacheCorrect, Latest
<1> QED
  BY <1>1, StandingHolds, PTL

(* When the clock collects a snapshot no set request is on its way, and it   *)
(* asks every input that was ever used: create_snapshot misses none.         *)
THEOREM SnapshotsAreComplete == StoreSpec => []SnapshotComplete
<1>1. Standing => SnapshotComplete
  <2> SUFFICES ASSUME Standing, clockAt = "snapshot", NEW i \in spawned
               PROVE  setMail[i] = <<>> /\ \E n \in DOMAIN handles : handles[n] = i
    BY DEF SnapshotComplete
  <2> USE DEF Standing, ClockInv, Safety, StoreInv, TypeOK
  <2>1. i \in Inputs /\ setMail[i] = <<>> /\ assigned[i] # NoIndex
    BY ChangeIsQuiet DEF StoreTypeOK
  <2>2. ~acquireAsked /\ acquired = <<>> /\ queue = <<>>
    BY DEF NoHandleLost, QueueTaken
  <2>3. Known = handles
    BY <2>2, ConcatEmptySeq DEF Known
  <2> QED
    BY <2>1, <2>3 DEF IndexIsPlace
<1> QED
  BY <1>1, StandingHolds, PTL

-----------------------------------------------------------------------------
(* The past: what a node remembers of the frames that have gone by, in its   *)
(* since frame and its local instant, tells the truth about them.            *)

MutationsIn(q) == {n \in DOMAIN q : q[n].kind = "Mutation"}

(* The bound on frames is kept: MaxFrame counts the mutations on their way.  *)
FramesBounded ==
    /\ IsFiniteSet(MutationsIn(Pending))
    /\ current + Cardinality(MutationsIn(Pending)) <= MaxFrame
    /\ phase = "Mutation" => current > 0

(* The last frame whose query phase has begun.                               *)
LastFrame == IF phase = "Query" THEN current ELSE current - 1

(* The log has exactly the frames whose query phase has begun.               *)
LogComplete ==
    /\ \A f \in 0 .. LastFrame :
          log[f].stored \in [Inputs -> Values] /\ Len(log[f].snapshot) <= Len(handles)
    /\ \A f \in Frames : f > LastFrame => log[f] = NoEntry
    /\ phase = "Query" => log[current].stored = stored

(* The value of i in frame f, the one being mutated included.                *)
ValueAt(f, i) == IF f <= LastFrame THEN StoredAt(f, i) ELSE stored[i]

Answered(i) ==
    clockAt = "snapshot" /\ \E n \in DOMAIN handles : handles[n] = i /\ answers[n] # NoAnswer

(* The last frame the cache of i knows of.                                   *)
KnownTo(i) == IF Answered(i) THEN current ELSE LastFrame

(* since is the first frame of the longest run of frames with this value.    *)
SinceExact(i) ==
    /\ cache[i].since \in 0 .. KnownTo(i)
    /\ \A f \in cache[i].since .. KnownTo(i) : ValueAt(f, i) = cache[i].value
    /\ cache[i].since > 0 => ValueAt(cache[i].since - 1, i) # cache[i].value

(* The local instant of i in the snapshot of frame f; an input that has no   *)
(* index yet was in no snapshot.                                             *)
InstantOf(f, i) == IF assigned[i] = NoIndex THEN 0 ELSE InstantAt(f, assigned[i] + 1)

Rotated(x, k) == IF x + k < Instants THEN x + k ELSE x + k - Instants

(* The local instant has moved on by one exactly if the value has changed.   *)
InstantExact(i) ==
    cache[i].instant =
        IF Answered(i) /\ cache[i].value # StoredAt(LastFrame, i)
           THEN Rotated(InstantOf(LastFrame, i), 1)
           ELSE InstantOf(LastFrame, i)

(* Between two frames less than a turn apart the instant moved on by fewer   *)
(* steps than a turn, and by none only if the value stayed.                  *)
MovedOn(f, g, i) ==
    \E k \in 0 .. g - f :
        /\ InstantOf(g, i) = Rotated(InstantOf(f, i), k)
        /\ k = 0 => \A h \in f .. g : StoredAt(h, i) = StoredAt(f, i)

TurnsExact(i) ==
    \A f, g \in 0 .. LastFrame : f <= g /\ g - f < Instants => MovedOn(f, g, i)

HistoryInv ==
    /\ FramesBounded
    /\ LogComplete
    /\ \A i \in Inputs : SinceExact(i) /\ InstantExact(i) /\ TurnsExact(i)

-----------------------------------------------------------------------------
(* The bound on frames.                                                      *)

LEMMA AskedCounts ==
    ASSUME NEW q \in Seq(Instrs), NEW r \in Instrs, IsFiniteSet(MutationsIn(q))
    PROVE  /\ IsFiniteSet(MutationsIn(Append(q, r)))
           /\ Cardinality(MutationsIn(Append(q, r))) =
                 Cardinality(MutationsIn(q)) + (IF r.kind = "Mutation" THEN 1 ELSE 0)
<1>1. /\ DOMAIN Append(q, r) = 1 .. Len(q) + 1 /\ DOMAIN q = 1 .. Len(q) /\ Len(q) \in Nat
      /\ \A n \in DOMAIN q : Append(q, r)[n] = q[n]
      /\ Append(q, r)[Len(q) + 1] = r
  BY AppendElements
<1>2. CASE r.kind = "Mutation"
  <2>1. MutationsIn(Append(q, r)) = MutationsIn(q) \cup {Len(q) + 1}
    BY <1>1, <1>2 DEF MutationsIn
  <2>2. Len(q) + 1 \notin MutationsIn(q)
    BY <1>1 DEF MutationsIn
  <2> QED
    BY <1>2, <2>1, <2>2, FS_AddElement
<1>3. CASE r.kind # "Mutation"
  <2>1. MutationsIn(Append(q, r)) = MutationsIn(q)
    BY <1>1, <1>3 DEF MutationsIn
  <2>2. Cardinality(MutationsIn(q)) \in Nat
    BY FS_CardinalityType
  <2> QED
    BY <1>3, <2>1, <2>2
<1> QED
  BY <1>2, <1>3

LEMMA ServedCounts ==
    ASSUME NEW q \in Seq(Instrs), q # <<>>, IsFiniteSet(MutationsIn(q))
    PROVE  /\ IsFiniteSet(MutationsIn(Tail(q)))
           /\ Cardinality(MutationsIn(q)) =
                 Cardinality(MutationsIn(Tail(q)))
                 + (IF Head(q).kind = "Mutation" THEN 1 ELSE 0)
<1> DEFINE new  == MutationsIn(Tail(q))
           old  == MutationsIn(q) \ {1}
           Move == [n \in new |-> n + 1]
<1>1. /\ DOMAIN q = 1 .. Len(q) /\ Len(q) \in Nat \ {0} /\ Head(q) = q[1]
      /\ DOMAIN Tail(q) = 1 .. Len(q) - 1
      /\ \A n \in 1 .. Len(q) - 1 : Tail(q)[n] = q[n + 1]
  <2>1. Len(q) \in Nat \ {0} /\ DOMAIN q = 1 .. Len(q) /\ Head(q) = q[1]
    BY EmptySeq
  <2>2. Tail(q) \in Seq(Instrs) /\ Len(Tail(q)) = Len(q) - 1
        /\ \A n \in 1 .. Len(Tail(q)) : Tail(q)[n] = q[n + 1]
    BY HeadTailProperties
  <2> QED
    BY <2>1, <2>2
<1>2. /\ IsFiniteSet(old)
      /\ Cardinality(MutationsIn(q)) =
            Cardinality(old) + (IF Head(q).kind = "Mutation" THEN 1 ELSE 0)
  <2>1. 1 \in MutationsIn(q) <=> Head(q).kind = "Mutation"
    BY <1>1 DEF MutationsIn
  <2>2. Cardinality(MutationsIn(q)) \in Nat
    BY FS_CardinalityType
  <2>3. /\ IsFiniteSet(old)
        /\ Cardinality(old) = IF 1 \in MutationsIn(q)
                                 THEN Cardinality(MutationsIn(q)) - 1
                                 ELSE Cardinality(MutationsIn(q))
    BY FS_RemoveElement
  <2> HIDE DEF old
  <2> QED
    BY <2>1, <2>2, <2>3
<1>3. Move \in [new -> old]
  <2> SUFFICES ASSUME NEW n \in new PROVE n + 1 \in old
    OBVIOUS
  <2>1. n \in 1 .. Len(q) - 1 /\ Tail(q)[n].kind = "Mutation"
    BY <1>1 DEF MutationsIn
  <2> QED
    BY <1>1, <2>1 DEF MutationsIn
<1>4. \A p \in old : \E n \in new : Move[n] = p
  <2> SUFFICES ASSUME NEW p \in old PROVE \E n \in new : Move[n] = p
    OBVIOUS
  <2>1. p \in 2 .. Len(q) /\ q[p].kind = "Mutation"
    BY <1>1 DEF MutationsIn
  <2>2. p - 1 \in new
    BY <1>1, <2>1 DEF MutationsIn
  <2>3. Move[p - 1] = p
    BY <2>1, <2>2
  <2> QED
    BY <2>2, <2>3
<1>5. \A m, n \in new : Move[m] = Move[n] => m = n
  <2>1. new \subseteq Nat
    BY <1>1 DEF MutationsIn
  <2> HIDE DEF new
  <2> QED
    BY <2>1
<1>6. Move \in Bijection(new, old)
  <2> HIDE DEF Move, old, new
  <2> QED
    BY <1>3, <1>4, <1>5 DEF Bijection, Injection, Surjection, IsInjective
<1>7. ExistsBijection(old, new)
  <2> HIDE DEF Move, old, new
  <2> QED
    BY <1>6, Fun_BijInverse DEF ExistsBijection
<1>8. IsFiniteSet(new) /\ Cardinality(new) = Cardinality(old)
  <2> HIDE DEF Move, old, new
  <2> QED
    BY <1>2, <1>7, FS_Bijection
<1> QED
  BY <1>2, <1>8

(* The lock's queue and frame are those of the clock: what is served from    *)
(* the queue and moves the frame on was counted when it was asked for.       *)
LEMMA FramesStep ==
    ASSUME Safety, NoOneForgotten, RealChange, FramesBounded, [Next]_vars
    PROVE  FramesBounded'
<1> USE DEF Safety
<1>1. /\ Pending \in Seq(Instrs) /\ current \in Nat
      /\ Cardinality(MutationsIn(Pending)) \in Nat
  BY PendingType, FS_CardinalityType DEF TypeOK, FramesBounded
<1>2. CASE UNCHANGED <<Pending, phase, current>>
  BY <1>2 DEF FramesBounded
<1>3. ASSUME NEW c \in Calls, NEW kind \in Kinds, Ask(c, kind) PROVE FramesBounded'
  <2>1. Pending' = Append(Pending, InstrOf(kind, c)) /\ UNCHANGED <<phase, current>>
    BY <1>3, AskRequests DEF Ask, clockVars
  <2>2. InstrOf(kind, c) \in Instrs /\ InstrOf(kind, c).kind = kind
    BY DEF InstrOf, Instrs
  <2>3. /\ IsFiniteSet(MutationsIn(Pending'))
        /\ Cardinality(MutationsIn(Pending')) =
              Cardinality(MutationsIn(Pending)) + (IF kind = "Mutation" THEN 1 ELSE 0)
    BY <1>1, <2>1, <2>2, AskedCounts DEF FramesBounded
  <2>4. kind = "Mutation" => current + Cardinality(MutationsIn(Pending)) < MaxFrame
    BY <1>3 DEF Ask, FrameBudget, MutationsIn
  <2> QED
    BY <1>1, <2>1, <2>3, <2>4, ClockAssumption DEF FramesBounded
<1>4. CASE Lock!Serve
  <2>1. /\ Pending # <<>> /\ Pending' = Tail(Pending) /\ phase' = Head(Pending).kind
        /\ current' = IF Head(Pending).kind = "Mutation" /\ phase = "Query"
                         THEN current + 1 ELSE current
    BY <1>4 DEF Lock!Serve
  <2>2. /\ IsFiniteSet(MutationsIn(Pending'))
        /\ Cardinality(MutationsIn(Pending)) =
              Cardinality(MutationsIn(Pending'))
              + (IF Head(Pending).kind = "Mutation" THEN 1 ELSE 0)
    BY <1>1, <2>1, ServedCounts DEF FramesBounded
  <2>3. Cardinality(MutationsIn(Pending')) \in Nat
    BY <2>2, FS_CardinalityType
  <2>4. phase \in {"Query", "Mutation"}
    BY DEF TypeOK, Kinds
  <2> QED
    BY <1>1, <2>1, <2>2, <2>3, <2>4, ClockAssumption DEF FramesBounded
<1>5. CASE UNCHANGED Lock!lockVars
  BY <1>2, <1>5 DEF Lock!lockVars
<1>6. CASE ClockTask
  BY <1>4, <1>5, <1>6, ClockTaskServes
<1>7. ASSUME NEW c \in Calls, Cancel(c) \/ Finish(c) \/ Clone(c) \/ DropClone(c)
      PROVE  FramesBounded'
  <2>1. UNCHANGED <<instructions, clockAt, instr, phase, current>>
    BY <1>7 DEF Cancel, Finish, Clone, DropClone, clockVars
  <2> QED
    BY <1>2, <2>1 DEF Pending
<1>8. CASE AnyInput \/ IndexerTask \/ UNCHANGED vars
  <2>1. UNCHANGED <<instructions, clockAt, instr, phase, current>>
    BY <1>8 DEF AnyInput, Register, Answer, IndexerTask, ServeRegistration,
       NoRegistration, ServeAcquire, PollAgain, vars, clockVars, callVars
  <2> QED
    BY <1>2, <2>1 DEF Pending
<1> QED
  BY <1>3, <1>6, <1>7, <1>8 DEF Next, Caller

-----------------------------------------------------------------------------
(* The log.                                                                  *)

LEMMA SameLength ==
    ASSUME NEW S, NEW T, NEW s \in Seq(S), NEW t \in Seq(T), DOMAIN s = DOMAIN t
    PROVE  Len(s) = Len(t)
<1>1. /\ DOMAIN s = 1 .. Len(s) /\ DOMAIN t = 1 .. Len(t)
      /\ Len(s) \in Nat /\ Len(t) \in Nat
  OBVIOUS
<1>2. \A m, n \in Nat : 1 .. m = 1 .. n => m <= n
  <2> SUFFICES ASSUME NEW m \in Nat, NEW n \in Nat, 1 .. m = 1 .. n, m > n PROVE FALSE
    OBVIOUS
  <2>1. m \in 1 .. m /\ m \notin 1 .. n
    OBVIOUS
  <2> QED
    BY <2>1
<1>3. \A m, n \in Nat : 1 .. m = 1 .. n => m = n
  BY ONLY <1>2
<1> QED
  BY ONLY <1>1, <1>3, DOMAIN s = DOMAIN t

(* A query phase begins: the frame that was being mutated is the last one.   *)
LEMMA QueryBegins ==
    ASSUME Standing, FramesBounded, LogStartQuery
    PROVE  /\ phase = "Mutation" /\ phase' = "Query"
           /\ current \in Frames /\ current > 0
           /\ LastFrame = current - 1 /\ LastFrame' = current
           /\ clockAt = "snapshot" /\ clockAt' = "recv"
           /\ log' = [log EXCEPT ![current] = [stored |-> stored, snapshot |-> answers]]
           /\ DOMAIN answers = DOMAIN handles /\ Len(answers) = Len(handles)
           /\ \A n \in DOMAIN answers : answers[n] # NoAnswer
           /\ UNCHANGED <<cache, stored, setMail, spawned, assigned, handles, current>>
<1> USE DEF Standing, ClockInv, Safety, StoreInv
<1>1. /\ clockAt = "snapshot" /\ clockAt' = "recv" /\ phase' = "Query"
      /\ log' = [log EXCEPT ![current] = [stored |-> stored, snapshot |-> answers]]
      /\ \A n \in DOMAIN answers : answers[n] # NoAnswer
      /\ UNCHANGED <<cache, stored, setMail, spawned, assigned, handles, current>>
  BY DEF LogStartQuery, StartQuery, AwaitNextInstr, nodeVars, indexerVars
<1>2. phase = "Mutation"
  BY <1>1 DEF RealChange, TypeOK, Kinds
<1>3. current \in Nat /\ current > 0 /\ current <= MaxFrame
  <2>1. Cardinality(MutationsIn(Pending)) \in Nat
    BY FS_CardinalityType DEF FramesBounded
  <2> QED
    BY <1>2, <2>1, ClockAssumption DEF FramesBounded, TypeOK
<1>4. DOMAIN answers = DOMAIN handles
  BY <1>1 DEF AnswersCorrect
<1>5. Len(answers) = Len(handles)
  <2>1. answers \in Seq(Instant \cup {NoAnswer}) /\ handles \in Seq(Inputs)
    BY DEF TypeOK
  <2> QED
    BY ONLY <1>4, <2>1, SameLength
<1> QED
  BY <1>1, <1>2, <1>3, <1>4, <1>5, ClockAssumption DEF Frames, LastFrame

(* No other step touches the frames that have passed.                        *)
LEMMA PastStays ==
    ASSUME Standing, FramesBounded, [StoreNext]_storeVars, ~LogStartQuery
    PROVE  /\ LastFrame' = LastFrame /\ LastFrame \in Nat /\ log' = log
           /\ Len(handles') >= Len(handles) /\ Len(handles) \in Nat
           /\ stored' # stored => phase = "Mutation" /\ clockAt # "snapshot"
<1> USE DEF Standing, ClockInv, Safety, StoreInv, nodeVars, history
<1>1. LastFrame \in Nat /\ Len(handles) \in Nat
  BY DEF LastFrame, FramesBounded, TypeOK, Kinds
<1>2. LastFrame' = LastFrame
  <2>1. CASE OtherClockStep /\ StartMutation
    <3>1. phase = "Query" /\ phase' = "Mutation" /\ current' = current + 1
      BY <2>1 DEF StartMutation, UpdateHandles, RealChange, TypeOK, Kinds
    <3> QED
      BY <3>1 DEF LastFrame, TypeOK
  <2>2. CASE ~(OtherClockStep /\ StartMutation)
    BY <2>2, StillWorld DEF LastFrame
  <2> QED
    BY <2>1, <2>2
<1>3. CASE OtherClockStep
  <2>1. UNCHANGED <<log, stored>>
    BY <1>3 DEF OtherClockStep
  <2>2. Len(handles') >= Len(handles)
    <3>1. CASE AskInstants \/ StartMutation
      <4>1. handles' = handles \o acquired /\ acquired \in Seq(Inputs) /\ handles \in Seq(Inputs)
        BY <3>1 DEF AskInstants, StartMutation, UpdateHandles, TypeOK
      <4>2. Len(handles') = Len(handles) + Len(acquired) /\ Len(acquired) \in Nat
        BY <4>1, ConcatProperties
      <4> QED
        BY <1>1, <4>2
    <3>2. CASE ~(AskInstants \/ StartMutation)
      BY <1>1, <1>3, <3>2 DEF OtherClockStep, JoinQueryPhase, TakeInstr, NextMutation,
         AskIndexer, clockVars
    <3> QED
      BY <3>1, <3>2
  <2> QED
    BY <1>1, <1>2, <2>1, <2>2
<1>4. CASE UNCHANGED <<log, stored, handles>>
  BY <1>1, <1>2, <1>4
<1>5. ASSUME NEW c \in Calls, NEW i \in Inputs, NEW v \in Values, Set(c, i, v)
      PROVE  UNCHANGED <<log, handles>> /\ phase = "Mutation" /\ clockAt # "snapshot"
  <2>1. UNCHANGED <<log, handles>> /\ Clone(c) /\ token[c].kind = "Mutation"
    BY <1>5 DEF Set, Clone, clockVars
  <2>2. phase = "Mutation" /\ c \in Live
    BY <2>1, HoldsToken DEF Clone, Live
  <2> QED
    BY <2>1, <2>2, ChangeIsQuiet
<1>6. ASSUME NEW c \in Calls, NEW i \in Inputs, Request(c, i)
      PROVE  (\E v \in Values : Set(c, i, v)) \/ UNCHANGED <<log, stored, handles>>
  BY <1>6 DEF Request, Get, Check, Clone, clockVars
<1>7. ASSUME NEW i \in Inputs, NodeTask(i) PROVE UNCHANGED <<log, stored, handles>>
  BY <1>7 DEF NodeTask, RegisterNode, ServeSet, ServeGet, ServeCheck, ServeClock, Register,
     DropClone, Answer, clockVars
<1>8. CASE (\E c \in Calls : CallStep(c)) \/ StoreIndexerTask \/ UNCHANGED storeVars
  BY <1>4, <1>8 DEF CallStep, Ask, Cancel, Finish, StoreIndexerTask, IndexerTask,
     ServeRegistration, NoRegistration, ServeAcquire, PollAgain, storeVars, vars, clockVars
<1> QED
  BY <1>1, <1>2, <1>3, <1>4, <1>5, <1>6, <1>7, <1>8 DEF StoreNext, StoreClockTask

LEMMA LogStep ==
    ASSUME Standing, FramesBounded, LogComplete, [StoreNext]_storeVars
    PROVE  LogComplete'
<1> USE DEF Standing, ClockInv, Safety, StoreInv
<1>1. CASE ~LogStartQuery
  <2>1. /\ LastFrame' = LastFrame /\ LastFrame \in Nat /\ log' = log
        /\ Len(handles') >= Len(handles) /\ Len(handles) \in Nat
        /\ stored' # stored => phase = "Mutation" /\ clockAt # "snapshot"
    BY <1>1, PastStays
  <2>2. ASSUME NEW f \in 0 .. LastFrame'
        PROVE  log'[f].stored \in [Inputs -> Values] /\ Len(log'[f].snapshot) <= Len(handles')
    <3>1. f \in 0 .. LastFrame /\ f \in Frames
      <4>1. LastFrame <= MaxFrame
        <5>1. Cardinality(MutationsIn(Pending)) \in Nat
          BY FS_CardinalityType DEF FramesBounded
        <5> QED
          BY <5>1, ClockAssumption DEF FramesBounded, LastFrame, TypeOK
      <4> QED
        BY <2>1, <4>1, ClockAssumption DEF Frames
    <3>2. log[f].stored \in [Inputs -> Values] /\ Len(log[f].snapshot) <= Len(handles)
      BY <3>1 DEF LogComplete
    <3>3. Len(log[f].snapshot) \in Nat
      BY <3>1 DEF StoreTypeOK, LogEntry
    <3> QED
      BY <2>1, <3>2, <3>3
  <2>3. ASSUME phase' = "Query" PROVE log'[current'].stored = stored'
    <3>1. phase = "Query" /\ current' = current
      <4>1. CASE OtherClockStep /\ StartMutation
        BY <2>3, <4>1 DEF StartMutation
      <4>2. CASE ~(OtherClockStep /\ StartMutation)
        BY <1>1, <2>3, <4>2, StillWorld
      <4> QED
        BY <4>1, <4>2
    <3> QED
      BY <2>1, <3>1 DEF LogComplete
  <2> QED
    BY <2>1, <2>2, <2>3 DEF LogComplete
<1>2. CASE LogStartQuery
  <2> DEFINE entry == [stored |-> stored, snapshot |-> answers]
  <2>1. /\ phase' = "Query" /\ current \in Frames /\ current > 0
        /\ LastFrame = current - 1 /\ LastFrame' = current
        /\ log' = [log EXCEPT ![current] = entry] /\ Len(answers) = Len(handles)
        /\ UNCHANGED <<stored, handles, current>>
    BY <1>2, QueryBegins
  <2>2. log \in [Frames -> LogEntry] /\ stored \in [Inputs -> Values] /\ current \in Nat
        /\ Len(handles) \in Nat
    BY DEF StoreTypeOK, TypeOK
  <2>3. entry.stored = stored /\ entry.snapshot = answers
    OBVIOUS
  <2> HIDE DEF entry
  <2>4. log'[current] = entry /\ \A f \in Frames : f # current => log'[f] = log[f]
    BY <2>1, <2>2
  <2>5. \A f \in 0 .. current :
           log'[f].stored \in [Inputs -> Values] /\ Len(log'[f].snapshot) <= Len(handles)
    <3> SUFFICES ASSUME NEW f \in 0 .. current
                 PROVE  log'[f].stored \in [Inputs -> Values]
                        /\ Len(log'[f].snapshot) <= Len(handles)
      OBVIOUS
    <3>1. CASE f = current
      BY <2>1, <2>2, <2>3, <2>4, <3>1
    <3>2. CASE f # current
      <4>1. f \in 0 .. LastFrame /\ f \in Frames
        BY <2>1, <2>2, <3>2, ClockAssumption DEF Frames
      <4> QED
        BY <2>4, <3>2, <4>1 DEF LogComplete
    <3> QED
      BY <3>1, <3>2
  <2>6. \A f \in Frames : f > current => log'[f] = NoEntry
    BY <2>1, <2>2, <2>4, ClockAssumption DEF LogComplete, Frames
  <2> QED
    BY <2>1, <2>3, <2>4, <2>5, <2>6 DEF LogComplete
<1> QED
  BY <1>1, <1>2

-----------------------------------------------------------------------------
(* What a step leaves alone.                                                 *)

LEMMA PastFrames ==
    ASSUME TypeOK, FramesBounded
    PROVE  LastFrame \in Nat /\ 0 .. LastFrame \subseteq Frames /\ current \in Nat
           /\ (phase = "Mutation" => LastFrame = current - 1)
           /\ (phase = "Query" => LastFrame = current)
<1>1. Cardinality(MutationsIn(Pending)) \in Nat
  BY FS_CardinalityType DEF FramesBounded
<1>2. phase \in {"Query", "Mutation"}
  BY DEF TypeOK, Kinds
<1>3. LastFrame \in Nat /\ LastFrame <= MaxFrame
  BY <1>1, <1>2, ClockAssumption DEF FramesBounded, LastFrame, TypeOK
<1> QED
  BY <1>2, <1>3, ClockAssumption DEF Frames, LastFrame, TypeOK

LEMMA InstantType ==
    ASSUME TypeOK, StoreTypeOK, FramesBounded, NEW i \in Inputs, NEW f \in 0 .. LastFrame
    PROVE  InstantOf(f, i) \in Instant
<1>1. f \in Frames
  BY PastFrames
<1>2. log[f].snapshot \in Seq(Instant)
  BY <1>1 DEF StoreTypeOK, LogEntry
<1>3. 0 \in Instant
  BY ClockAssumption DEF Instant
<1> QED
  BY <1>2, <1>3 DEF InstantOf, InstantAt

(* An input that gets its index now is in no snapshot of the past.           *)
LEMMA InstantStays ==
    ASSUME Standing, FramesBounded, LogComplete, [StoreNext]_storeVars, ~LogStartQuery,
           NEW i \in Inputs, NEW f \in 0 .. LastFrame
    PROVE  InstantOf(f, i)' = InstantOf(f, i)
<1> USE DEF Standing, ClockInv, Safety, StoreInv
<1>1. log' = log /\ f \in Frames
  BY PastStays, PastFrames
<1>2. [Next]_vars
  BY StoreStepType
<1>3. CASE ~ServeRegistration
  <2>1. assigned' = assigned
    BY <1>2, <1>3, KnownStays
  <2> QED
    BY <1>1, <2>1 DEF InstantOf, InstantAt
<1>4. CASE ServeRegistration
  <2>1. assigned' = [assigned EXCEPT ![Head(registrations)] = index]
    BY <1>4, KnownGrows
  <2>2. assigned \in [Inputs -> Nat \cup {NoIndex}]
    BY DEF TypeOK
  <2>3. CASE i = Head(registrations)
    <3>1. assigned'[i] = index
      BY <2>1, <2>2, <2>3
    <3>2. assigned[i] = NoIndex
      <4>1. registrations # <<>> /\ registrations \in Seq(Inputs)
        BY <1>4 DEF ServeRegistration, TypeOK
      <4>2. 1 \in DOMAIN registrations /\ registrations[1] = i
        BY <2>3, <4>1, EmptySeq
      <4> QED
        BY <4>2 DEF RegisteredOnce
    <3>3. index \in Nat /\ index >= Len(handles) /\ Len(handles) \in Nat
      <4>1. index = Len(Known) /\ handles \in Seq(Inputs) /\ acquired \in Seq(Inputs)
            /\ queue \in Seq(Inputs)
        BY DEF NoHandleLost, TypeOK
      <4>2. /\ Len(handles \o acquired) = Len(handles) + Len(acquired)
            /\ handles \o acquired \in Seq(Inputs)
        BY <4>1, ConcatProperties
      <4>3. Len(Known) = Len(handles \o acquired) + Len(queue)
        BY <4>1, <4>2, ConcatProperties DEF Known
      <4>4. Len(handles) \in Nat /\ Len(acquired) \in Nat /\ Len(queue) \in Nat
        BY <4>1, LenProperties
      <4> QED
        BY <4>1, <4>2, <4>3, <4>4
    <3>4. Len(log[f].snapshot) <= Len(handles) /\ log[f].snapshot \in Seq(Instant)
      BY <1>1 DEF LogComplete, StoreTypeOK, LogEntry
    <3>5. index + 1 \notin DOMAIN log[f].snapshot
      BY <3>3, <3>4
    <3> QED
      BY <1>1, <3>1, <3>2, <3>3, <3>5 DEF InstantOf, InstantAt
  <2>4. CASE i # Head(registrations)
    <3>1. assigned'[i] = assigned[i]
      BY <2>1, <2>2, <2>4
    <3> QED
      BY <1>1, <3>1 DEF InstantOf, InstantAt
  <2> QED
    BY <2>3, <2>4
<1> QED
  BY <1>3, <1>4

(* Only the node of j changes what j holds, when it answers the clock.       *)
LEMMA MemoryStays ==
    ASSUME Standing, [StoreNext]_storeVars, ~LogStartQuery, NEW j \in Inputs,
           ~ServeClock(j)
    PROVE  /\ Answered(j)' <=> Answered(j)
           /\ cache'[j].value = cache[j].value
           /\ cache'[j].since = cache[j].since
           /\ cache'[j].instant = cache[j].instant
<1> USE DEF Standing, ClockInv, Safety, StoreInv, nodeVars, history
<1>1. CASE UNCHANGED <<clockAt, handles, answers, cache>>
  BY <1>1 DEF Answered
<1>2. CASE OtherClockStep
  <2>1. cache' = cache
    BY <1>2 DEF OtherClockStep
  <2>2. CASE AskInstants
    <3>1. answers' = [n \in DOMAIN handles' |-> NoAnswer] /\ clockAt = "handles"
      BY <2>2 DEF AskInstants, UpdateHandles
    <3>2. ~Answered(j) /\ ~Answered(j)'
      BY <3>1 DEF Answered
    <3> QED
      BY <2>1, <3>2
  <2>3. CASE ~AskInstants
    <3>1. (clockAt # "snapshot" /\ clockAt' # "snapshot")
          \/ UNCHANGED <<clockAt, handles, answers>>
      BY <1>2, <2>3 DEF OtherClockStep, JoinQueryPhase, TakeInstr, NextMutation, AskIndexer,
           StartMutation, UpdateHandles, AwaitNextInstr, clockVars
    <3> QED
      BY <2>1, <3>1 DEF Answered
  <2> QED
    BY <2>2, <2>3
<1>3. ASSUME NEW i \in Inputs, ServeSet(i)
      PROVE  /\ UNCHANGED <<clockAt, handles, answers>>
             /\ cache'[j].value = cache[j].value
             /\ cache'[j].since = cache[j].since
             /\ cache'[j].instant = cache[j].instant
  <2> DEFINE change == [value |-> Head(setMail[i]).value,
                        since |-> token[Head(setMail[i]).by].frame]
  <2>1. /\ UNCHANGED <<clockAt, handles, answers>>
        /\ cache' = [cache EXCEPT ![i].next = change]
    BY <1>3 DEF ServeSet, DropClone, clockVars
  <2>2. cache \in [Inputs -> Entry]
    BY DEF StoreTypeOK
  <2> HIDE DEF change
  <2> QED
    BY <2>1, <2>2 DEF Entry
<1>4. ASSUME NEW i \in Inputs, ServeClock(i)
      PROVE  (Answered(j)' <=> Answered(j)) /\ cache'[j] = cache[j]
  <2>1. i # j
    BY <1>4
  <2>2. PICK n \in DOMAIN answers : handles[n] = i /\ Answer(n, cache'[i].instant)
    BY <1>4 DEF ServeClock
  <2>3. /\ clockAt = "snapshot" /\ clockAt' = clockAt /\ handles' = handles
        /\ answers' = [answers EXCEPT ![n] = cache'[i].instant]
        /\ cache' = [cache EXCEPT ![i] = Actualized(@)]
    BY <1>4, <2>2 DEF Answer, ServeClock
  <2>4. \A m \in DOMAIN handles : handles[m] = j => answers'[m] = answers[m]
    BY <2>1, <2>2, <2>3
  <2>5. cache'[j] = cache[j]
    BY <2>1, <2>3 DEF StoreTypeOK
  <2> QED
    BY <2>3, <2>4, <2>5 DEF Answered
<1>5. ASSUME NEW i \in Inputs, RegisterNode(i) \/ ServeCheck(i) \/ ServeGet(i)
      PROVE  UNCHANGED <<clockAt, handles, answers, cache>>
  BY <1>5 DEF RegisterNode, ServeCheck, ServeGet, Register, DropClone, clockVars
<1>6. ASSUME NEW i \in Inputs, NodeTask(i)
      PROVE  /\ Answered(j)' <=> Answered(j)
             /\ cache'[j].value = cache[j].value
             /\ cache'[j].since = cache[j].since
             /\ cache'[j].instant = cache[j].instant
  <2>1. CASE ServeSet(i)
    BY <1>3, <2>1 DEF Answered
  <2>2. CASE ServeClock(i)
    BY <1>4, <2>2
  <2> QED
    BY <1>1, <1>5, <1>6, <2>1, <2>2 DEF NodeTask
<1>7. CASE (\E c \in Calls : CallStep(c)) \/ (\E c \in Calls, i \in Inputs : Request(c, i))
  <2>1. UNCHANGED <<clockAt, handles, answers, cache>>
    BY <1>7 DEF CallStep, Ask, Cancel, Finish, Request, Set, Get, Check, Clone, clockVars
  <2> QED
    BY <1>1, <2>1
<1>8. CASE StoreIndexerTask \/ UNCHANGED storeVars
  BY <1>1, <1>8 DEF StoreIndexerTask, IndexerTask, ServeRegistration, NoRegistration,
       ServeAcquire, PollAgain, storeVars, vars, clockVars
<1>9. \/ \E c \in Calls : CallStep(c)
      \/ \E c \in Calls, i \in Inputs : Request(c, i)
      \/ \E i \in Inputs : NodeTask(i)
      \/ OtherClockStep
      \/ StoreIndexerTask
      \/ UNCHANGED storeVars
  BY DEF StoreNext, StoreClockTask
<1> QED
  BY <1>2, <1>6, <1>7, <1>8, <1>9

-----------------------------------------------------------------------------
(* Steps other than the beginning of a query phase.                          *)

LEMMA TurnsStay ==
    ASSUME Standing, FramesBounded, LogComplete, [StoreNext]_storeVars, ~LogStartQuery,
           NEW i \in Inputs, TurnsExact(i)
    PROVE  TurnsExact(i)'
<1>1. LastFrame' = LastFrame /\ log' = log
  BY PastStays
<1>2. \A f \in 0 .. LastFrame : InstantOf(f, i)' = InstantOf(f, i)
  BY InstantStays
<1>3. \A f, h : StoredAt(f, i)' = StoredAt(f, i)
  BY <1>1 DEF StoredAt
<1>4. ASSUME NEW f \in 0 .. LastFrame, NEW g \in 0 .. LastFrame, MovedOn(f, g, i)
      PROVE  MovedOn(f, g, i)'
  BY <1>2, <1>3, <1>4 DEF MovedOn
<1> QED
  BY <1>1, <1>4 DEF TurnsExact

LEMMA MemoryKept ==
    ASSUME Standing, FramesBounded, LogComplete, [StoreNext]_storeVars, ~LogStartQuery,
           NEW i \in Inputs, ~ServeClock(i), SinceExact(i), InstantExact(i)
    PROVE  SinceExact(i)' /\ InstantExact(i)'
<1>0. PICK since, value : since = cache[i].since /\ value = cache[i].value
  OBVIOUS
<1>1. /\ LastFrame' = LastFrame /\ LastFrame \in Nat /\ log' = log
      /\ stored' # stored => phase = "Mutation" /\ clockAt # "snapshot"
  BY PastStays
<1>2. /\ Answered(i)' <=> Answered(i)
      /\ cache'[i].value = value /\ cache'[i].since = since
      /\ cache'[i].instant = cache[i].instant
  BY <1>0, MemoryStays
<1>3. InstantOf(LastFrame, i)' = InstantOf(LastFrame, i)
  <2>1. LastFrame \in 0 .. LastFrame
    BY <1>1
  <2>2. \A f \in 0 .. LastFrame : InstantOf(f, i)' = InstantOf(f, i)
    BY InstantStays
  <2> QED
    BY <1>1, <2>1, <2>2 DEF InstantOf, InstantAt
<1>4. \A f : StoredAt(f, i)' = StoredAt(f, i)
  BY <1>1 DEF StoredAt
<1>5. Answered(i) => stored' = stored /\ current' = current
  <2>1. Answered(i) => clockAt = "snapshot"
    BY DEF Answered
  <2>2. clockAt = "snapshot" => ~(OtherClockStep /\ StartMutation)
    BY DEF StartMutation, UpdateHandles
  <2> QED
    BY <1>1, <2>1, <2>2, StillWorld
<1>6. KnownTo(i)' = KnownTo(i)
  BY <1>1, <1>2, <1>5 DEF KnownTo
<1>7. \A f \in 0 .. KnownTo(i) : ValueAt(f, i)' = ValueAt(f, i)
  <2>1. CASE Answered(i)
    BY <1>1, <1>4, <1>5, <2>1 DEF ValueAt
  <2>2. CASE ~Answered(i)
    BY <1>1, <1>4, <2>2 DEF ValueAt, KnownTo
  <2> QED
    BY <2>1, <2>2
<1>8. KnownTo(i) \in Nat
  BY <1>1 DEF KnownTo, Standing, ClockInv, Safety, TypeOK
<1>9. since \in 0 .. KnownTo(i)
  BY <1>0 DEF SinceExact
<1>10. SinceExact(i)'
  <2>1. \A f \in since .. KnownTo(i) : ValueAt(f, i)' = value
    BY <1>0, <1>7, <1>8, <1>9 DEF SinceExact
  <2>2. since > 0 => ValueAt(since - 1, i)' # value
    BY <1>0, <1>7, <1>8, <1>9 DEF SinceExact
  <2> QED
    BY <1>2, <1>6, <1>9, <2>1, <2>2 DEF SinceExact
<1>11. InstantExact(i)'
  BY <1>0, <1>1, <1>2, <1>3, <1>4 DEF InstantExact
<1> QED
  BY <1>10, <1>11

LEMMA RotatedModulo == \A x \in Instant : (x + 1) % Instants = Rotated(x, 1)
<1> SUFFICES ASSUME NEW x \in Instant PROVE (x + 1) % Instants = Rotated(x, 1)
  OBVIOUS
<1>1. x \in Nat /\ x < Instants /\ Instants \in Nat \ {0}
  BY ClockAssumption DEF Instant
<1>2. CASE x + 1 < Instants
  BY <1>1, <1>2 DEF Rotated
<1>3. CASE x + 1 = Instants
  BY <1>1, <1>3 DEF Rotated
<1> QED
  BY <1>1, <1>2, <1>3

(* The node answers the clock: it takes in the frame being mutated.          *)
LEMMA TakesIn ==
    ASSUME Standing, FramesBounded, [StoreNext]_storeVars, NEW i \in Inputs, ServeClock(i)
    PROVE  /\ phase = "Mutation" /\ ~Answered(i) /\ Answered(i)'
           /\ UNCHANGED <<phase, current, stored, log, assigned>>
           /\ cache'[i] = Actualized(cache[i]) /\ cache'[i].value = stored[i]
           /\ cache[i].next # NoChange => cache[i].next.since = current
<1> USE DEF Standing, ClockInv, Safety, StoreInv
<1>1. PICK n \in DOMAIN answers : handles[n] = i /\ Answer(n, cache'[i].instant)
  BY DEF ServeClock
<1>2. /\ clockAt = "snapshot" /\ clockAt' = "snapshot" /\ handles' = handles
      /\ answers[n] = NoAnswer /\ answers' = [answers EXCEPT ![n] = cache'[i].instant]
      /\ cache' = [cache EXCEPT ![i] = Actualized(@)] /\ Serving(i)
      /\ UNCHANGED <<phase, current, stored, log, assigned, setMail>>
  BY <1>1 DEF Answer, ServeClock, indexerVars, history
<1>3. phase = "Mutation"
  BY <1>2 DEF RealChange, TypeOK, Kinds
<1>4. n \in DOMAIN handles /\ DOMAIN answers' = DOMAIN handles
  BY <1>2 DEF AnswersCorrect
<1>5. ~Answered(i)
  <2> SUFFICES ASSUME NEW m \in DOMAIN handles, handles[m] = i PROVE answers[m] = NoAnswer
    BY DEF Answered
  <2>1. m = n
    BY <1>1, <1>4, HandleIsPlace
  <2> QED
    BY <1>2, <2>1
<1>6. cache'[i] = Actualized(cache[i]) /\ cache[i] \in Entry
  BY <1>2 DEF StoreTypeOK
<1>7. Answered(i)'
  <2>1. cache'[i].instant \in Instant
    BY <1>6, ActualizedType DEF Entry
  <2>2. cache'[i].instant # NoAnswer
    BY <2>1 DEF Instant, NoAnswer
  <2> QED
    BY <1>1, <1>2, <1>4, <2>2 DEF Answered
<1>8. cache'[i].value = stored[i]
  <2>1. setMail[i] = <<>>
    BY <1>2, ChangeIsQuiet
  <2> QED
    BY <1>6, <2>1, ActualizedIs DEF CacheCorrect, Latest
<1>9. cache[i].next # NoChange => cache[i].next.since = current
  BY DEF CacheCorrect
<1> QED
  BY <1>2, <1>3, <1>5, <1>6, <1>7, <1>8, <1>9

LEMMA MemoryMade ==
    ASSUME Standing, FramesBounded, LogComplete, [StoreNext]_storeVars,
           NEW i \in Inputs, ServeClock(i), SinceExact(i), InstantExact(i)
    PROVE  SinceExact(i)' /\ InstantExact(i)'
<1> DEFINE old == cache[i]
           new == cache'[i]
<1>1. /\ phase = "Mutation" /\ ~Answered(i) /\ Answered(i)'
      /\ UNCHANGED <<phase, current, stored, log, assigned>>
      /\ new = Actualized(old) /\ new.value = stored[i]
      /\ old.next # NoChange => old.next.since = current
  BY TakesIn
<1>2. /\ LastFrame = current - 1 /\ LastFrame \in Nat /\ current \in Nat
      /\ LastFrame' = LastFrame
  BY <1>1, PastFrames DEF Standing, ClockInv, Safety, LastFrame
<1>3. KnownTo(i) = LastFrame /\ KnownTo(i)' = current
  BY <1>1 DEF KnownTo
<1>4. old \in Entry
  BY DEF Standing, StoreTypeOK
<1> HIDE DEF old, new
<1>5. /\ old.since \in 0 .. LastFrame /\ old.instant \in Instant
      /\ \A f \in old.since .. LastFrame : StoredAt(f, i) = old.value
      /\ old.since > 0 => StoredAt(old.since - 1, i) # old.value
      /\ old.instant = InstantOf(LastFrame, i)
  BY <1>1, <1>2, <1>3, <1>4 DEF SinceExact, InstantExact, ValueAt, Entry, old
<1>6. \A f : ValueAt(f, i)' = IF f <= LastFrame THEN StoredAt(f, i) ELSE stored[i]
  BY <1>1, <1>2 DEF ValueAt, StoredAt
<1>7. StoredAt(LastFrame, i) = old.value
  BY <1>2, <1>5
<1>8. InstantOf(LastFrame, i)' = InstantOf(LastFrame, i)
  BY <1>1, <1>2 DEF InstantOf, InstantAt
<1>9. StoredAt(LastFrame, i)' = StoredAt(LastFrame, i)
  BY <1>1, <1>2 DEF StoredAt
<1>10. CASE old.next # NoChange /\ old.next.value # old.value
  <2>1. /\ new.since = current /\ new.value # old.value
        /\ new.instant = (old.instant + 1) % Instants
    BY <1>1, <1>10 DEF Actualized
  <2>2. SinceExact(i)'
    <3>1. new.since \in 0 .. current
      BY <1>2, <2>1
    <3>2. \A f \in new.since .. current : ValueAt(f, i)' = new.value
      BY <1>1, <1>2, <1>6, <2>1
    <3>3. PICK f : f = new.since - 1
      OBVIOUS
    <3>4. ValueAt(f, i)' # new.value
      BY <1>2, <1>6, <1>7, <2>1, <3>3
    <3> QED
      BY <1>3, <3>1, <3>2, <3>3, <3>4 DEF SinceExact, new
  <2>3. InstantExact(i)'
    BY <1>1, <1>2, <1>5, <1>7, <1>8, <1>9, <2>1, RotatedModulo DEF InstantExact, new
  <2> QED
    BY <2>2, <2>3
<1>11. CASE ~(old.next # NoChange /\ old.next.value # old.value)
  <2>1. new.since = old.since /\ new.value = old.value /\ new.instant = old.instant
    BY <1>1, <1>4, <1>11 DEF Actualized, Entry
  <2>2. SinceExact(i)'
    <3>1. new.since \in 0 .. current
      BY <1>2, <1>5, <2>1
    <3>2. \A f \in new.since .. current : ValueAt(f, i)' = new.value
      BY <1>1, <1>2, <1>5, <1>6, <2>1
    <3>3. PICK f : f = new.since - 1
      OBVIOUS
    <3>4. new.since > 0 => ValueAt(f, i)' # new.value
      BY <1>2, <1>5, <1>6, <2>1, <3>3
    <3> QED
      BY <1>3, <3>1, <3>2, <3>3, <3>4 DEF SinceExact, new
  <2>3. InstantExact(i)'
    BY <1>1, <1>5, <1>7, <1>8, <1>9, <2>1 DEF InstantExact, new
  <2> QED
    BY <2>2, <2>3
<1> QED
  BY <1>10, <1>11

-----------------------------------------------------------------------------
(* A query phase begins: its frame joins those of the past.                  *)

(* While the clock collects a snapshot an index is the place of its handle.  *)
LEMMA PlaceOfHandle ==
    ASSUME Standing, clockAt = "snapshot", NEW i \in Inputs, assigned[i] # NoIndex
    PROVE  assigned[i] + 1 \in DOMAIN handles /\ handles[assigned[i] + 1] = i
<1> USE DEF Standing, ClockInv, Safety, StoreInv
<1>1. ~acquireAsked /\ acquired = <<>> /\ queue = <<>>
  BY DEF NoHandleLost, QueueTaken
<1>2. Known = handles
  BY <1>1, ConcatEmptySeq DEF Known, TypeOK
<1> QED
  BY <1>2 DEF IndexIsPlace

(* What the new frame records of an input is what its node holds.            *)
LEMMA FrameRecorded ==
    ASSUME Standing, FramesBounded, LogStartQuery, NEW i \in Inputs
    PROVE  /\ stored[i] = cache[i].value
           /\ \A f : StoredAt(f, i)' = IF f = current THEN stored[i] ELSE log'[f].stored[i]
           /\ InstantOf(current, i)' = cache[i].instant
           /\ \A f \in 0 .. LastFrame : /\ StoredAt(f, i)' = StoredAt(f, i)
                                        /\ InstantOf(f, i)' = InstantOf(f, i)
           /\ ~Answered(i) => assigned[i] = NoIndex
           /\ ~Answered(i)'
<1> USE DEF Standing, ClockInv, Safety, StoreInv
<1> DEFINE entry == [stored |-> stored, snapshot |-> answers]
<1>1. /\ clockAt = "snapshot" /\ clockAt' = "recv" /\ current \in Frames
      /\ LastFrame = current - 1
      /\ log' = [log EXCEPT ![current] = entry]
      /\ DOMAIN answers = DOMAIN handles
      /\ \A n \in DOMAIN answers : answers[n] # NoAnswer
      /\ UNCHANGED <<cache, stored, assigned, handles, current>>
  BY QueryBegins
<1>2. entry.stored = stored /\ entry.snapshot = answers
  OBVIOUS
<1> HIDE DEF entry
<1>3. log \in [Frames -> LogEntry] /\ current \in Nat
  BY DEF StoreTypeOK, TypeOK
<1>4. log'[current] = entry /\ \A f \in 0 .. LastFrame : log'[f] = log[f]
  BY <1>1, <1>3, PastFrames
<1>5. stored[i] = cache[i].value
  <2>1. setMail[i] = <<>>
    BY <1>1, ChangeIsQuiet
  <2>2. Correct(i)
    BY DEF CacheCorrect, Correct
  <2>3. cache[i].next = NoChange
    BY <2>2, StartCorrect
  <2> QED
    BY <2>1, <2>2, <2>3 DEF Correct, Latest
<1>6. PICK n : n = current
  OBVIOUS
<1>7. StoredAt(n, i)' = stored[i]
  BY <1>2, <1>4, <1>6 DEF StoredAt
<1>8. \A f : StoredAt(f, i)' = IF f = current THEN stored[i] ELSE log'[f].stored[i]
  BY <1>6, <1>7 DEF StoredAt
<1>9. \A f \in 0 .. LastFrame : /\ StoredAt(f, i)' = StoredAt(f, i)
                                /\ InstantOf(f, i)' = InstantOf(f, i)
  BY <1>1, <1>4 DEF StoredAt, InstantOf, InstantAt
<1>10. InstantOf(current, i)' = cache[i].instant
  <2>1. CASE assigned[i] = NoIndex
    <3>1. cache[i].instant = 0
      BY <2>1 DEF CacheCorrect, NewEntry
    <3> QED
      BY <1>1, <2>1, <3>1 DEF InstantOf
  <2>2. CASE assigned[i] # NoIndex
    <3>1. assigned[i] + 1 \in DOMAIN handles /\ handles[assigned[i] + 1] = i
      BY <1>1, <2>2, PlaceOfHandle
    <3>2. answers[assigned[i] + 1] = cache[i].instant
      BY <1>1, <3>1 DEF AnswersCorrect
    <3> QED
      BY <1>1, <1>2, <1>4, <2>2, <3>1, <3>2 DEF InstantOf, InstantAt
  <2> QED
    BY <2>1, <2>2
<1>11. ~Answered(i) => assigned[i] = NoIndex
  BY <1>1, PlaceOfHandle DEF Answered
<1>12. ~Answered(i)'
  BY <1>1 DEF Answered
<1> QED
  BY <1>5, <1>8, <1>9, <1>10, <1>11, <1>12

LEMMA SinceRecorded ==
    ASSUME Standing, FramesBounded, LogStartQuery, NEW i \in Inputs, SinceExact(i)
    PROVE  SinceExact(i)'
<1>1. /\ current > 0 /\ LastFrame = current - 1 /\ LastFrame' = current
      /\ UNCHANGED <<cache, current>> /\ current \in Nat
  BY QueryBegins DEF Standing, ClockInv, Safety, TypeOK
<1>2. /\ stored[i] = cache[i].value /\ ~Answered(i)'
      /\ \A f : StoredAt(f, i)' = IF f = current THEN stored[i] ELSE log'[f].stored[i]
      /\ \A f \in 0 .. LastFrame : StoredAt(f, i)' = StoredAt(f, i)
  BY FrameRecorded
<1>3. PICK since, value : since = cache[i].since /\ value = cache[i].value
  OBVIOUS
<1>4. KnownTo(i)' = current /\ KnownTo(i) \in {current - 1, current}
  BY <1>1, <1>2 DEF KnownTo
<1>5. /\ since \in 0 .. current
      /\ \A f \in since .. LastFrame : StoredAt(f, i) = value
      /\ since > 0 => StoredAt(since - 1, i) # value
  BY <1>1, <1>3, <1>4 DEF SinceExact, ValueAt
<1>6. \A f \in 0 .. current : ValueAt(f, i)' = StoredAt(f, i)'
  BY <1>1 DEF ValueAt
<1>7. \A f \in since .. current : ValueAt(f, i)' = value
  <2> SUFFICES ASSUME NEW f \in since .. current PROVE StoredAt(f, i)' = value
    BY <1>1, <1>5, <1>6
  <2>1. CASE f = current
    BY <1>2, <1>3, <2>1
  <2>2. CASE f # current
    <3>1. f \in 0 .. LastFrame /\ f \in since .. LastFrame
      BY <1>1, <1>5, <2>2
    <3> QED
      BY <1>2, <1>5, <3>1
  <2> QED
    BY <2>1, <2>2
<1>8. since > 0 => ValueAt(since - 1, i)' # value
  BY <1>1, <1>2, <1>5, <1>6
<1> QED
  BY <1>1, <1>3, <1>4, <1>5, <1>7, <1>8 DEF SinceExact

LEMMA InstantRecorded ==
    ASSUME Standing, FramesBounded, LogStartQuery, NEW i \in Inputs
    PROVE  InstantExact(i)'
<1>1. LastFrame' = current /\ UNCHANGED <<cache, current>>
  BY QueryBegins
<1>2. InstantOf(current, i)' = cache[i].instant /\ ~Answered(i)'
  BY FrameRecorded
<1>3. InstantOf(LastFrame, i)' = cache[i].instant
  BY <1>1, <1>2 DEF InstantOf, InstantAt
<1> QED
  BY <1>1, <1>2, <1>3 DEF InstantExact

LEMMA RotatedOnce ==
    ASSUME NEW x \in Instant, NEW k \in Nat, k + 1 < Instants
    PROVE  Rotated(Rotated(x, k), 1) = Rotated(x, k + 1)
<1>1. x \in Nat /\ x < Instants /\ Instants \in Nat \ {0}
  BY ClockAssumption DEF Instant
<1> QED
  BY <1>1 DEF Rotated

(* From the frame before, the instant moves on by one if the value changes.  *)
LEMMA TurnsRecorded ==
    ASSUME Standing, FramesBounded, LogComplete, LogStartQuery, NEW i \in Inputs,
           SinceExact(i), InstantExact(i), TurnsExact(i)
    PROVE  TurnsExact(i)'
<1> USE DEF Standing, ClockInv, Safety
<1>1. /\ current > 0 /\ LastFrame = current - 1 /\ LastFrame' = current
      /\ UNCHANGED <<cache, current>> /\ current \in Nat
  BY QueryBegins DEF TypeOK
<1>2. PICK n : n = current
  OBVIOUS
<1>3. /\ stored[i] = cache[i].value
      /\ StoredAt(n, i)' = stored[i] /\ InstantOf(n, i)' = cache[i].instant
      /\ \A f \in 0 .. n - 1 : /\ StoredAt(f, i)' = StoredAt(f, i)
                               /\ InstantOf(f, i)' = InstantOf(f, i)
  BY <1>1, <1>2, FrameRecorded DEF InstantOf, InstantAt
<1>4. \A f \in 0 .. n - 1 : InstantOf(f, i) \in Instant
  BY <1>1, <1>2, InstantType
<1>5. \/ /\ InstantOf(n, i)' = Rotated(InstantOf(n - 1, i), 1)
      \/ /\ InstantOf(n, i)' = InstantOf(n - 1, i)
         /\ stored[i] = StoredAt(n - 1, i)
  <2>1. CASE Answered(i)
    BY <1>1, <1>2, <1>3, <2>1 DEF InstantExact
  <2>2. CASE ~Answered(i)
    <3>1. KnownTo(i) = n - 1 /\ cache[i].since \in 0 .. n - 1
      BY <1>1, <1>2, <2>2 DEF KnownTo, SinceExact
    <3>2. StoredAt(n - 1, i) = cache[i].value
      BY <1>1, <1>2, <3>1 DEF SinceExact, ValueAt
    <3> QED
      BY <1>1, <1>2, <1>3, <2>2, <3>2 DEF InstantExact
  <2> QED
    BY <2>1, <2>2
<1>6. ASSUME NEW f \in 0 .. n - 1, NEW g \in 0 .. n - 1, f <= g, g - f < Instants
      PROVE  MovedOn(f, g, i)'
  <2>1. MovedOn(f, g, i)
    BY <1>1, <1>2, <1>6 DEF TurnsExact
  <2>2. \A h \in f .. g : StoredAt(h, i)' = StoredAt(h, i)
    BY <1>1, <1>2, <1>3
  <2> QED
    BY <1>3, <2>1, <2>2 DEF MovedOn
<1>7. ASSUME NEW f \in 0 .. n - 1, n - f < Instants PROVE MovedOn(f, n, i)'
  <2>1. n - 1 \in 0 .. n - 1 /\ f <= n - 1 /\ (n - 1) - f < Instants /\ Instants \in Nat
    BY <1>1, <1>2, <1>7, ClockAssumption
  <2>2. PICK k \in 0 .. (n - 1) - f :
           /\ InstantOf(n - 1, i) = Rotated(InstantOf(f, i), k)
           /\ k = 0 => \A h \in f .. n - 1 : StoredAt(h, i) = StoredAt(f, i)
    BY <1>1, <1>2, <2>1 DEF TurnsExact, MovedOn
  <2>3. CASE InstantOf(n, i)' = Rotated(InstantOf(n - 1, i), 1)
    <3>1. k \in Nat /\ k + 1 \in 0 .. n - f /\ k + 1 # 0 /\ k + 1 < Instants
      BY <1>1, <1>2, <1>7, <2>1, <2>2
    <3>2. InstantOf(n, i)' = Rotated(InstantOf(f, i), k + 1)
      BY <1>4, <2>2, <2>3, <3>1, RotatedOnce
    <3>3. InstantOf(n, i)' = Rotated(InstantOf(f, i)', k + 1)
      BY <1>3, <3>2
    <3> QED
      BY <3>1, <3>3 DEF MovedOn, Rotated
  <2>4. CASE /\ InstantOf(n, i)' = InstantOf(n - 1, i)
             /\ stored[i] = StoredAt(n - 1, i)
    <3>1. InstantOf(n, i)' = Rotated(InstantOf(f, i)', k) /\ k \in 0 .. n - f
      BY <1>1, <1>2, <1>3, <2>2, <2>4
    <3>2. k = 0 => \A h \in f .. n : StoredAt(h, i)' = StoredAt(f, i)'
      <4> SUFFICES ASSUME k = 0, NEW h \in f .. n PROVE StoredAt(h, i)' = StoredAt(f, i)
        BY <1>3
      <4>1. \A m \in f .. n - 1 : StoredAt(m, i) = StoredAt(f, i)
        BY <2>2
      <4>2. CASE h = n
        <5>1. n - 1 \in f .. n - 1
          BY <1>1, <1>2, <2>1
        <5> QED
          BY <1>3, <2>4, <4>1, <4>2, <5>1
      <4>3. CASE h # n
        <5>1. h \in f .. n - 1 /\ h \in 0 .. n - 1
          BY <1>1, <1>2, <4>3
        <5> QED
          BY <1>3, <4>1, <5>1
      <4> QED
        BY <4>2, <4>3
    <3> QED
      BY <3>1, <3>2 DEF MovedOn, Rotated
  <2> QED
    BY <1>5, <2>3, <2>4
<1>8. MovedOn(n, n, i)'
  <2>1. InstantOf(n, i)' = Rotated(InstantOf(n, i)', 0)
    <3>1. cache[i].instant \in Instant
      BY DEF StoreTypeOK, Entry
    <3> QED
      BY <1>3, <3>1, ClockAssumption DEF Rotated, Instant
  <2>2. 0 \in 0 .. n - n /\ \A h \in n .. n : h = n
    BY <1>1, <1>2
  <2> QED
    BY <2>1, <2>2 DEF MovedOn, Rotated
<1> SUFFICES ASSUME NEW f \in 0 .. n, NEW g \in 0 .. n, f <= g, g - f < Instants
             PROVE  MovedOn(f, g, i)'
  BY <1>1, <1>2 DEF TurnsExact
<1>9. CASE g = n /\ f = n
  BY <1>8, <1>9
<1>10. CASE g = n /\ f # n
  BY <1>1, <1>2, <1>7, <1>10
<1>11. CASE g # n
  BY <1>1, <1>2, <1>6, <1>11
<1> QED
  BY <1>9, <1>10, <1>11

-----------------------------------------------------------------------------
(* The invariant, and what it says of verdicts and snapshots.                *)

LEMMA HistoryInit == StoreInit => HistoryInv
<1> SUFFICES ASSUME StoreInit PROVE HistoryInv
  OBVIOUS
<1>1. Init /\ StoreTypeOK
  BY StoreInitType
<1>2. /\ current = 0 /\ phase = "Query" /\ clockAt = "recv" /\ Pending = <<>>
      /\ handles = <<>> /\ snapshot = <<>> /\ assigned = [i \in Inputs |-> NoIndex]
  BY <1>1 DEF Init, Pending
<1>3. FramesBounded
  <2>1. MutationsIn(Pending) = {}
    BY <1>2 DEF MutationsIn
  <2>2. IsFiniteSet(MutationsIn(Pending)) /\ Cardinality(MutationsIn(Pending)) = 0
    BY <2>1, FS_EmptySet
  <2> QED
    BY <1>2, <2>2, ClockAssumption DEF FramesBounded
<1>4. LastFrame = 0 /\ 0 \in Frames
  BY <1>2, ClockAssumption DEF LastFrame, Frames
<1>5. /\ stored = [i \in Inputs |-> InitialValue]
      /\ cache = [i \in Inputs |-> NewEntry]
      /\ log = [f \in Frames |-> IF f = 0 THEN [stored |-> stored, snapshot |-> snapshot]
                                          ELSE NoEntry]
  BY DEF StoreInit, NewEntry
<1>6. log[0].stored = stored /\ log[0].snapshot = <<>>
      /\ \A f \in Frames : f > 0 => log[f] = NoEntry
  BY <1>2, <1>4, <1>5 DEF Frames
<1>7. LogComplete
  BY <1>1, <1>2, <1>4, <1>6 DEF LogComplete, StoreTypeOK
<1>8. ASSUME NEW i \in Inputs PROVE SinceExact(i) /\ InstantExact(i) /\ TurnsExact(i)
  <2>1. ~Answered(i) /\ KnownTo(i) = 0
    BY <1>2, <1>4 DEF Answered, KnownTo
  <2>2. /\ cache[i].since = 0 /\ cache[i].value = InitialValue /\ cache[i].instant = 0
        /\ StoredAt(0, i) = InitialValue
    BY <1>5, <1>6 DEF NewEntry, StoredAt
  <2>3. InstantOf(0, i) = 0
    BY <1>2 DEF InstantOf
  <2>4. SinceExact(i)
    BY <1>4, <2>1, <2>2 DEF SinceExact, ValueAt
  <2>5. InstantExact(i)
    BY <1>4, <2>1, <2>2, <2>3 DEF InstantExact
  <2>6. TurnsExact(i)
    <3>1. MovedOn(0, 0, i)
      <4>1. InstantOf(0, i) = Rotated(InstantOf(0, i), 0)
        BY <2>3, ClockAssumption DEF Rotated
      <4>2. 0 \in 0 .. 0 - 0 /\ \A h \in 0 .. 0 : h = 0
        OBVIOUS
      <4> QED
        BY <4>1, <4>2 DEF MovedOn
    <3>2. \A f \in 0 .. LastFrame : f = 0
      BY <1>4
    <3> QED
      BY <3>1, <3>2 DEF TurnsExact
  <2> QED
    BY <2>4, <2>5, <2>6
<1> QED
  BY <1>3, <1>7, <1>8 DEF HistoryInv

LEMMA HistoryStep ==
    ASSUME Standing, NoOneForgotten, HistoryInv, [StoreNext]_storeVars
    PROVE  HistoryInv'
<1> USE DEF HistoryInv
<1>1. FramesBounded'
  <2>1. [Next]_vars
    BY StoreStepType DEF Standing, ClockInv, Safety
  <2> QED
    BY <2>1, FramesStep DEF Standing, ClockInv
<1>2. LogComplete'
  BY LogStep
<1>3. ASSUME NEW i \in Inputs PROVE SinceExact(i)' /\ InstantExact(i)' /\ TurnsExact(i)'
  <2>1. CASE LogStartQuery
    BY <2>1, SinceRecorded, InstantRecorded, TurnsRecorded
  <2>2. CASE ~LogStartQuery /\ ServeClock(i)
    BY <2>2, MemoryMade, TurnsStay
  <2>3. CASE ~LogStartQuery /\ ~ServeClock(i)
    BY <2>3, MemoryKept, TurnsStay
  <2> QED
    BY <2>1, <2>2, <2>3
<1> QED
  BY <1>1, <1>2, <1>3

(* What the nodes remember of the past is true, in every state.              *)
LEMMA HistoryHolds == StoreSpec => [](Standing /\ HistoryInv)
<1>1. Standing /\ NoOneForgotten /\ HistoryInv /\ [StoreNext]_storeVars => HistoryInv'
  BY HistoryStep
<1>2. StoreSpec => [](NoOneForgotten /\ RealChange)
  BY StoreIsClock, NobodyIsForgotten, PTL
<1> QED
  BY <1>1, <1>2, HistoryInit, StandingHolds, PTL DEF StoreSpec

(* A validation request is answered Valid if and only if the input has kept  *)
(* its value in every frame since the one asked about: no change is missed,  *)
(* and no query runs again for an input that was set to what it was.         *)
THEOREM VerdictsAreExact == StoreSpec => []VerdictIsExact
<1>1. Standing /\ HistoryInv => VerdictIsExact
  <2> SUFFICES ASSUME Standing, HistoryInv, NEW i \in Inputs, NEW past \in 0 .. current - 1,
                      checkMail[i] # <<>>
               PROVE  Verdict(i, past) = "Valid" <=>
                         \A f \in past .. current : StoredAt(f, i) = StoredAt(past, i)
    BY DEF VerdictIsExact
  <2>1. phase = "Query"
    BY DEF Standing, StoreInv, MailInPhase
  <2>2. LastFrame = current /\ current \in Nat
    BY <2>1, PastFrames DEF HistoryInv, Standing, ClockInv, Safety
  <2>3. KnownTo(i) = current
    BY <2>2 DEF KnownTo
  <2>4. /\ cache[i].since \in 0 .. current
        /\ \A f \in cache[i].since .. current : StoredAt(f, i) = cache[i].value
        /\ cache[i].since > 0 => StoredAt(cache[i].since - 1, i) # cache[i].value
    BY <2>2, <2>3 DEF HistoryInv, SinceExact, ValueAt
  <2>5. CASE cache[i].since <= past
    <3>1. Verdict(i, past) = "Valid"
      BY <2>2, <2>4, <2>5 DEF Verdict
    <3>2. past .. current \subseteq cache[i].since .. current /\ past \in past .. current
      BY <2>2, <2>4, <2>5
    <3> QED
      BY <2>4, <3>1, <3>2
  <2>6. CASE past < cache[i].since
    <3>1. Verdict(i, past) = "Invalid"
      BY <2>6 DEF Verdict
    <3>2. /\ cache[i].since - 1 \in past .. current /\ cache[i].since \in past .. current
          /\ cache[i].since > 0
      BY <2>2, <2>4, <2>6
    <3>3. StoredAt(cache[i].since, i) = cache[i].value
      BY <2>2, <2>4
    <3> QED
      BY <2>4, <3>1, <3>2, <3>3
  <2> QED
    BY <2>2, <2>4, <2>5, <2>6
<1> QED
  BY <1>1, HistoryHolds, PTL

(* Two snapshots less than a turn of the local instant apart that agree on   *)
(* an input prove that it kept its value, although the instant wraps around: *)
(* InputDeps::status may answer without asking the node.                     *)
THEOREM SnapshotsTellChange == StoreSpec => []SnapshotTellsChange
<1>1. Standing /\ HistoryInv => SnapshotTellsChange
  <2> SUFFICES ASSUME Standing, HistoryInv, NEW f \in Frames, NEW g \in Frames,
                      NEW i \in Inputs, f < g, log[f] # NoEntry, log[g] # NoEntry,
                      Serving(i), InputStatus(f, g, assigned[i] + 1) = "Unchanged"
               PROVE  \A h \in f .. g : StoredAt(h, i) = StoredAt(f, i)
    BY DEF SnapshotTellsChange
  <2> USE DEF HistoryInv, Standing, ClockInv, Safety
  <2>1. f \in 0 .. LastFrame /\ g \in 0 .. LastFrame
    BY PastFrames, ClockAssumption DEF LogComplete, Frames
  <2>2. ~(g - f >= Instants) /\ InstantAt(f, assigned[i] + 1) = InstantAt(g, assigned[i] + 1)
    BY DEF InputStatus
  <2>3. g - f < Instants /\ InstantOf(f, i) = InstantOf(g, i)
    BY <2>1, <2>2, ClockAssumption DEF InstantOf, Serving
  <2>4. PICK k \in 0 .. g - f :
           /\ InstantOf(g, i) = Rotated(InstantOf(f, i), k)
           /\ k = 0 => \A h \in f .. g : StoredAt(h, i) = StoredAt(f, i)
    BY <2>1, <2>3 DEF TurnsExact, MovedOn
  <2>5. InstantOf(f, i) \in Instant
    BY <2>1, InstantType
  <2>6. k = 0
    <3>1. k \in Nat /\ k < Instants /\ Instants \in Nat
      BY <2>1, <2>3, <2>4, ClockAssumption
    <3>2. \A x \in Instant : Rotated(x, k) = x => k = 0
      BY <3>1 DEF Rotated, Instant
    <3> QED
      BY <2>3, <2>4, <2>5, <3>2
  <2> QED
    BY <2>4, <2>6
<1> QED
  BY <1>1, HistoryHolds, PTL

-----------------------------------------------------------------------------
(* The shutdown.  A behaviour of Shutdown is one of the clock, but not of    *)
(* InputStore: an evaluation clones a token without a request to an input.   *)
(* So the types of the store carry over, its counts of requests do not, and  *)
(* nothing below needs them.                                                 *)

(* Every variable of Shutdown's own holds a value of its type.               *)
LifeTypeOK ==
    /\ owner \in BOOLEAN
    /\ evaluating \subseteq Calls
    /\ registering \subseteq Inputs
    /\ readers \subseteq Inputs
    /\ clockEnded \in BOOLEAN
    /\ indexerEnded \in BOOLEAN
    /\ ended \subseteq Inputs

ShutTypeOK == TypeOK /\ StoreTypeOK /\ LifeTypeOK

Occurs(i, s) == \E n \in DOMAIN s : s[n] = i

(* The runtime that a call waits for is the user's.                          *)
WaitersHoldOwner == \A c \in Calls : call[c] = "waiting" => owner

(* The clock ends after the runtime, with nothing left to do, and the        *)
(* indexer after the clock.                                                  *)
EndsInOrder ==
    /\ clockEnded => ~RuntimeAlive /\ clockAt = "recv" /\ instructions = <<>>
    /\ indexerEnded => clockEnded

(* An input ends after the runtime, when it is beyond the reach of whoever   *)
(* could send to it: nothing is in its mailboxes, no query node has it among *)
(* its inputs, and its handle is on no way that a living task still goes.    *)
EndedUnreachable ==
    \A i \in ended :
        /\ ~RuntimeAlive /\ i \notin readers
        /\ setMail[i] = <<>> /\ getMail[i] = <<>> /\ checkMail[i] = <<>>
        /\ ~clockEnded => ~Occurs(i, handles) /\ ~Occurs(i, acquired)
        /\ ~indexerEnded => ~Occurs(i, registrations) /\ ~Occurs(i, queue)

ShutInv == ShutTypeOK /\ WaitersHoldOwner /\ EndsInOrder /\ EndedUnreachable

-----------------------------------------------------------------------------
(* Types, and the clock underneath.                                          *)

(* The calls of a token by evaluations: what InputStore does not have.       *)
Evaluation ==
    \E c \in Calls : (Clone(c) \/ DropClone(c)) /\ UNCHANGED <<nodeVars, history>>

(* What a step of Shutdown does to the variables of the store.               *)
LEMMA ShutStoreStep ==
    ASSUME [ShutNext]_shutVars PROVE [StoreNext]_storeVars \/ Evaluation
<1>1. CASE \E c \in Calls : AskRuntime(c) \/ StartEvaluation(c) \/ EndEvaluation(c)
  <2>1. PICK c \in Calls : AskRuntime(c) \/ StartEvaluation(c) \/ EndEvaluation(c)
    BY <1>1
  <2>2. CASE AskRuntime(c)
    BY <2>2 DEF AskRuntime, CallStep, StoreNext
  <2>3. CASE StartEvaluation(c) \/ EndEvaluation(c)
    BY <2>3 DEF StartEvaluation, EndEvaluation, Evaluation
  <2> QED
    BY <2>1, <2>2, <2>3
<1>2. ASSUME NEW c \in Calls, NEW i \in Inputs,
             \/ \E v \in Values : SetInput(c, i, v)
             \/ GetInput(c, i)
             \/ \E past \in Frames : CheckInput(c, i, past)
      PROVE  StoreNext
  <2>1. Request(c, i)
    BY <1>2 DEF SetInput, GetInput, CheckInput, Request
  <2> QED
    BY <2>1 DEF StoreNext
<1>3. ASSUME NEW i \in Inputs, InputStep(i) PROVE StoreNext
  <2>1. NodeTask(i)
    BY <1>3 DEF InputStep, NodeTask
  <2> QED
    BY <2>1 DEF StoreNext
<1>4. ASSUME NEW i \in Inputs, ForgetInput(i) \/ IndexArrives(i) \/ EndInput(i)
      PROVE  UNCHANGED storeVars
  BY <1>4 DEF ForgetInput, IndexArrives, EndInput
<1>5. CASE ClockStep \/ IndexerStep
  BY <1>5 DEF ClockStep, IndexerStep, StoreNext
<1>6. CASE DropOwner \/ EndClock \/ EndIndexer \/ UNCHANGED shutVars
  BY <1>6 DEF DropOwner, EndClock, EndIndexer, shutVars
<1> QED
  BY <1>1, <1>2, <1>3, <1>4, <1>5, <1>6 DEF ShutNext

LEMMA ShutClockStep ==
    ASSUME TypeOK, StoreTypeOK, [ShutNext]_shutVars
    PROVE  [Next]_vars /\ TypeOK' /\ StoreTypeOK'
<1>1. CASE [StoreNext]_storeVars
  BY <1>1, StoreStepType
<1>2. CASE Evaluation
  <2>1. Caller
    BY <1>2 DEF Evaluation, Caller
  <2>2. [Next]_vars
    BY <2>1 DEF Next
  <2>3. TypeOK'
    BY <2>2, TypeStep
  <2>4. StoreTypeOK'
    BY <1>2 DEF Evaluation, nodeVars, history, StoreTypeOK
  <2> QED
    BY <2>2, <2>3, <2>4
<1> QED
  BY <1>1, <1>2, ShutStoreStep

(* A behaviour of Shutdown is one of the clock, whatever has ended: what is  *)
(* proved of Clock holds of it.                                              *)
THEOREM ShutdownIsClock == ShutSpec => Spec
<1>1. ShutInit => Init /\ TypeOK /\ StoreTypeOK
  BY StoreInitType, InitType DEF ShutInit
<1>2. TypeOK /\ StoreTypeOK /\ [ShutNext]_shutVars
         => [Next]_vars /\ TypeOK' /\ StoreTypeOK'
  BY ShutClockStep
<1> QED
  BY <1>1, <1>2, PTL DEF ShutSpec, Spec

LEMMA LifeTypeStep ==
    ASSUME StoreTypeOK, StoreTypeOK', LifeTypeOK, [ShutNext]_shutVars PROVE LifeTypeOK'
<1> USE DEF LifeTypeOK, lifeVars
<1>1. spawned' \subseteq Inputs
  BY DEF StoreTypeOK
<1>2. ASSUME NEW c \in Calls, AskRuntime(c) \/ StartEvaluation(c) \/ EndEvaluation(c)
      PROVE  LifeTypeOK'
  BY <1>2 DEF AskRuntime, StartEvaluation, EndEvaluation
<1>3. ASSUME NEW c \in Calls, NEW i \in Inputs, NEW v \in Values, SetInput(c, i, v)
      PROVE  LifeTypeOK'
  BY <1>1, <1>3 DEF SetInput, Spawned
<1>4. ASSUME NEW c \in Calls, NEW i \in Inputs, GetInput(c, i) PROVE LifeTypeOK'
  BY <1>1, <1>4 DEF GetInput, Spawned
<1>5. ASSUME NEW c \in Calls, NEW i \in Inputs, NEW past \in Frames, CheckInput(c, i, past)
      PROVE  LifeTypeOK'
  BY <1>5 DEF CheckInput
<1>6. ASSUME NEW i \in Inputs,
             ForgetInput(i) \/ IndexArrives(i) \/ InputStep(i) \/ EndInput(i)
      PROVE  LifeTypeOK'
  BY <1>6 DEF ForgetInput, IndexArrives, InputStep, EndInput
<1>7. CASE ClockStep \/ IndexerStep
  BY <1>7 DEF ClockStep, IndexerStep
<1>8. CASE DropOwner \/ EndClock \/ EndIndexer \/ UNCHANGED shutVars
  BY <1>8 DEF DropOwner, EndClock, EndIndexer, shutVars
<1> QED
  BY <1>2, <1>3, <1>4, <1>5, <1>6, <1>7, <1>8 DEF ShutNext

-----------------------------------------------------------------------------
(* Once nobody holds the runtime, nobody will.                               *)

(* A token comes to a call that waits.                                       *)
LEMMA GrantWaiting ==
    ASSUME TypeOK, NEW d \in Calls, NEW kind, NEW frame, NEW snap,
           Grant(d, kind, frame, snap), NEW c \in Calls
    PROVE  /\ call'[c] = "running" => call[c] \in {"waiting", "running"}
           /\ call'[c] = "waiting" => call[c] = "waiting"
  BY DEF TypeOK, Grant

(* The calls after a step of the clock or of another task.                   *)
LEMMA ClockTaskCalls ==
    ASSUME TypeOK, ClockTask, NEW c \in Calls
    PROVE  /\ call'[c] = "running" => call[c] \in {"waiting", "running"}
           /\ call'[c] = "waiting" => call[c] = "waiting"
<1>1. CASE JoinQueryPhase
  <2>1. Head(instructions).by \in Calls
    BY <1>1, HeadTailProperties, InstrBy DEF JoinQueryPhase, TypeOK
  <2> QED
    BY <1>1, <2>1, GrantWaiting DEF JoinQueryPhase
<1>2. CASE TakeInstr \/ AskIndexer \/ AskInstants
  BY <1>2 DEF TakeInstr, AskIndexer, AskInstants, callVars
<1>3. CASE NextMutation \/ StartMutation \/ StartQuery
  <2>1. clockAt # "recv"
    BY <1>3 DEF NextMutation, StartMutation, UpdateHandles, StartQuery
  <2>2. instr.by \in Calls
    BY <2>1, InstrBy DEF TypeOK
  <2>3. CASE NextMutation
    BY <2>2, <2>3, GrantWaiting DEF NextMutation
  <2>4. CASE StartMutation
    BY <2>2, <2>4, GrantWaiting DEF StartMutation
  <2>5. CASE StartQuery
    BY <2>2, <2>5, GrantWaiting DEF StartQuery
  <2> QED
    BY <1>3, <2>3, <2>4, <2>5
<1> QED
  BY <1>1, <1>2, <1>3 DEF ClockTask

LEMMA CallsStep ==
    ASSUME TypeOK, StoreTypeOK, [ShutNext]_shutVars, NEW c \in Calls
    PROVE  /\ call'[c] = "running" => call[c] \in {"waiting", "running"}
           /\ call'[c] = "waiting" => call[c] = "waiting" \/ owner
<1> USE DEF TypeOK
<1>1. ASSUME NEW d \in Calls, AskRuntime(d)
      PROVE  /\ call'[c] = "running" => call[c] \in {"waiting", "running"}
             /\ call'[c] = "waiting" => call[c] = "waiting" \/ owner
  BY <1>1 DEF AskRuntime, Ask, Cancel, Finish
<1>2. ASSUME NEW d \in Calls, StartEvaluation(d) \/ EndEvaluation(d) PROVE UNCHANGED call
  BY <1>2 DEF StartEvaluation, EndEvaluation, Clone, DropClone
<1>3. ASSUME NEW d \in Calls, NEW i \in Inputs,
             \/ \E v \in Values : SetInput(d, i, v)
             \/ GetInput(d, i)
             \/ \E past \in Frames : CheckInput(d, i, past)
      PROVE  UNCHANGED call
  BY <1>3 DEF SetInput, GetInput, CheckInput, Set, Get, Check, Clone
<1>4. ASSUME NEW i \in Inputs, InputStep(i) PROVE UNCHANGED call
  BY <1>4 DEF InputStep, RegisterNode, Register, ServeSet, ServeCheck, ServeGet, ServeClock,
              DropClone, Answer, callVars
<1>5. ASSUME NEW i \in Inputs, ForgetInput(i) \/ IndexArrives(i) \/ EndInput(i)
      PROVE  UNCHANGED call
  BY <1>5 DEF ForgetInput, IndexArrives, EndInput, storeVars, vars, callVars
<1>6. CASE ClockStep
  <2>1. ClockTask
    BY <1>6 DEF ClockStep, StoreClockTask, LogStartQuery, OtherClockStep, ClockTask
  <2> QED
    BY <2>1, ClockTaskCalls
<1>7. CASE IndexerStep
  BY <1>7 DEF IndexerStep, StoreIndexerTask, IndexerTask, ServeRegistration, NoRegistration,
              ServeAcquire, PollAgain, callVars
<1>8. CASE DropOwner \/ EndClock \/ EndIndexer \/ UNCHANGED shutVars
  BY <1>8 DEF DropOwner, EndClock, EndIndexer, shutVars, storeVars, vars, callVars
<1> QED
  BY <1>1, <1>2, <1>3, <1>4, <1>5, <1>6, <1>7, <1>8 DEF ShutNext

LEMMA OwnerStep ==
    ASSUME ShutTypeOK, WaitersHoldOwner, [ShutNext]_shutVars
    PROVE  (owner' => owner) /\ WaitersHoldOwner'
<1> USE DEF ShutTypeOK, LifeTypeOK, lifeVars
<1>1. CASE DropOwner
  BY <1>1 DEF DropOwner, WaitersHoldOwner, storeVars, vars, callVars
<1>2. CASE ~DropOwner
  <2>1. UNCHANGED owner
    BY <1>2 DEF ShutNext, AskRuntime, StartEvaluation, EndEvaluation, SetInput, GetInput,
                CheckInput, ForgetInput, IndexArrives, InputStep, EndInput, ClockStep,
                IndexerStep, EndClock, EndIndexer, shutVars
  <2>2. ASSUME NEW c \in Calls, call'[c] = "waiting" PROVE owner
    BY <2>2, CallsStep DEF WaitersHoldOwner
  <2> QED
    BY <2>1, <2>2 DEF WaitersHoldOwner
<1> QED
  BY <1>1, <1>2

LEMMA DeadStaysDead ==
    ASSUME ShutTypeOK, WaitersHoldOwner, ~RuntimeAlive, [ShutNext]_shutVars
    PROVE  /\ ~RuntimeAlive'
           /\ readers' \subseteq readers
           /\ \A i \in Inputs : setMail'[i] # <<>> => setMail[i] # <<>>
           /\ \A i \in Inputs : getMail'[i] # <<>> => getMail[i] # <<>>
           /\ \A i \in Inputs : checkMail'[i] # <<>> => checkMail[i] # <<>> \/ i \in readers
           /\ instructions = <<>> => instructions' = <<>>
<1>1. ~owner /\ evaluating = {} /\ registering = {} /\ \A c \in Calls : call[c] # "running"
  BY DEF RuntimeAlive
<1>2. \A c \in Calls : call'[c] # "running"
  BY <1>1, CallsStep DEF ShutTypeOK, WaitersHoldOwner
<1>3. ~owner'
  BY <1>1, OwnerStep
<1>4. \A c \in Calls : ~StartEvaluation(c)
  BY DEF StartEvaluation
<1>5. \A c \in Calls, i \in Inputs : ~GetInput(c, i) /\ \A v \in Values : ~SetInput(c, i, v)
  BY <1>1 DEF GetInput, SetInput, Set
<1>6. evaluating' = {} /\ registering' = {} /\ readers' \subseteq readers
  BY <1>1, <1>4, <1>5 DEF ShutNext, AskRuntime, EndEvaluation, CheckInput, ForgetInput,
     IndexArrives, InputStep, EndInput, ClockStep, IndexerStep, DropOwner, EndClock,
     EndIndexer, shutVars, lifeVars
<1>7. \A i \in Inputs : /\ setMail'[i] # <<>> => setMail[i] # <<>>
                        /\ getMail'[i] # <<>> => getMail[i] # <<>>
                        /\ checkMail'[i] # <<>> => checkMail[i] # <<>> \/ i \in readers
  <2> USE DEF ShutTypeOK, StoreTypeOK, nodeVars
  <2>1. CASE UNCHANGED <<setMail, getMail, checkMail>>
    BY <2>1
  <2>2. ASSUME NEW c \in Calls, AskRuntime(c) \/ EndEvaluation(c)
        PROVE  UNCHANGED <<setMail, getMail, checkMail>>
    BY <2>2 DEF AskRuntime, EndEvaluation
  <2>3. ASSUME NEW c \in Calls, NEW i \in Inputs, NEW past \in Frames, CheckInput(c, i, past)
        PROVE  /\ i \in readers /\ UNCHANGED <<setMail, getMail>>
               /\ \A j \in Inputs \ {i} : checkMail'[j] = checkMail[j]
    BY <2>3 DEF CheckInput, Check, Send
  <2>4. ASSUME NEW i \in Inputs, ForgetInput(i) \/ IndexArrives(i) \/ EndInput(i)
        PROVE  UNCHANGED <<setMail, getMail, checkMail>>
    BY <2>4 DEF ForgetInput, IndexArrives, EndInput, storeVars
  <2>5. ASSUME NEW i \in Inputs, InputStep(i)
        PROVE  /\ setMail'[i] # setMail[i] => setMail[i] # <<>>
               /\ getMail'[i] # getMail[i] => getMail[i] # <<>>
               /\ checkMail'[i] # checkMail[i] => checkMail[i] # <<>>
               /\ \A j \in Inputs \ {i} : /\ setMail'[j] = setMail[j]
                                         /\ getMail'[j] = getMail[j]
                                         /\ checkMail'[j] = checkMail[j]
    BY <2>5 DEF InputStep, RegisterNode, ServeSet, ServeCheck, ServeGet, ServeClock, Receive
  <2>6. CASE ClockStep \/ IndexerStep
    BY <2>6 DEF ClockStep, IndexerStep, StoreClockTask, LogStartQuery, OtherClockStep,
                StoreIndexerTask
  <2>7. CASE DropOwner \/ EndClock \/ EndIndexer \/ UNCHANGED shutVars
    BY <2>7 DEF DropOwner, EndClock, EndIndexer, shutVars, storeVars
  <2> QED
    BY <1>4, <1>5, <2>1, <2>2, <2>3, <2>4, <2>5, <2>6, <2>7 DEF ShutNext
<1>8. instructions = <<>> => instructions' = <<>>
  <2> SUFFICES ASSUME instructions = <<>> PROVE instructions' = <<>>
    OBVIOUS
  <2> USE DEF storeVars, vars
  <2>1. ASSUME NEW c \in Calls, AskRuntime(c) \/ EndEvaluation(c) PROVE UNCHANGED instructions
    BY <1>1, <2>1 DEF AskRuntime, Cancel, Finish, EndEvaluation, DropClone
  <2>2. ASSUME NEW c \in Calls, NEW i \in Inputs, NEW past \in Frames, CheckInput(c, i, past)
        PROVE  UNCHANGED instructions
    BY <2>2 DEF CheckInput, Check, Clone
  <2>3. ASSUME NEW i \in Inputs, ForgetInput(i) \/ IndexArrives(i) \/ EndInput(i)
        PROVE  UNCHANGED instructions
    BY <2>3 DEF ForgetInput, IndexArrives, EndInput
  <2>4. ASSUME NEW i \in Inputs, InputStep(i) PROVE UNCHANGED instructions
    BY <2>4 DEF InputStep, RegisterNode, Register, ServeSet, ServeCheck, ServeGet, ServeClock,
                DropClone, Answer
  <2>5. CASE ClockStep
    BY <2>5 DEF ClockStep, StoreClockTask, LogStartQuery, OtherClockStep, JoinQueryPhase,
                TakeInstr, NextMutation, AskIndexer, StartMutation, AskInstants, StartQuery
  <2>6. CASE IndexerStep
    BY <2>6 DEF IndexerStep, StoreIndexerTask, IndexerTask, ServeRegistration, NoRegistration,
                ServeAcquire, PollAgain
  <2>7. CASE DropOwner \/ EndClock \/ EndIndexer \/ UNCHANGED shutVars
    BY <2>7 DEF DropOwner, EndClock, EndIndexer, shutVars
  <2> QED
    BY <1>4, <1>5, <2>1, <2>2, <2>3, <2>4, <2>5, <2>6, <2>7 DEF ShutNext
<1> QED
  BY <1>2, <1>3, <1>6, <1>7, <1>8 DEF RuntimeAlive

-----------------------------------------------------------------------------
(* The ends.                                                                 *)

(* A clock that has ended takes no step, and nobody gives it work.           *)
LEMMA EndsStep == ASSUME ShutInv, [ShutNext]_shutVars PROVE EndsInOrder'
<1> USE DEF ShutInv, ShutTypeOK, EndsInOrder
<1>1. CASE EndClock
  <2>1. ~RuntimeAlive' /\ UNCHANGED <<clockAt, instructions>>
    BY <1>1, DeadStaysDead DEF EndClock, storeVars, vars, clockVars
  <2>2. clockAt = "recv" /\ instructions = <<>> /\ clockEnded'
    BY <1>1 DEF EndClock
  <2> QED
    BY <2>1, <2>2
<1>2. CASE ~EndClock
  <2>1. UNCHANGED clockEnded
    BY <1>2 DEF ShutNext, AskRuntime, StartEvaluation, EndEvaluation, SetInput, GetInput,
       CheckInput, ForgetInput, IndexArrives, InputStep, EndInput, ClockStep, IndexerStep,
       DropOwner, EndIndexer, shutVars, lifeVars
  <2>2. (indexerEnded => clockEnded) => (indexerEnded' => clockEnded)
    BY <1>2 DEF ShutNext, AskRuntime, StartEvaluation, EndEvaluation, SetInput, GetInput,
       CheckInput, ForgetInput, IndexArrives, InputStep, EndInput, ClockStep, IndexerStep,
       DropOwner, EndIndexer, shutVars, lifeVars
  <2>3. ASSUME clockEnded PROVE UNCHANGED clockAt
    <3>1. ~ClockStep
      BY <2>3 DEF ClockStep
    <3> USE DEF storeVars, vars, clockVars
    <3>2. ASSUME NEW c \in Calls, AskRuntime(c) \/ StartEvaluation(c) \/ EndEvaluation(c)
          PROVE  UNCHANGED clockAt
      BY <3>2 DEF AskRuntime, Ask, Cancel, Finish, StartEvaluation, EndEvaluation, Clone,
                  DropClone
    <3>3. ASSUME NEW c \in Calls, NEW i \in Inputs,
                 \/ \E v \in Values : SetInput(c, i, v)
                 \/ GetInput(c, i)
                 \/ \E past \in Frames : CheckInput(c, i, past)
          PROVE  UNCHANGED clockAt
      BY <3>3 DEF SetInput, GetInput, CheckInput, Set, Get, Check, Clone
    <3>4. ASSUME NEW i \in Inputs, InputStep(i) PROVE UNCHANGED clockAt
      BY <3>4 DEF InputStep, RegisterNode, Register, ServeSet, ServeCheck, ServeGet,
                  ServeClock, DropClone, Answer
    <3>5. ASSUME NEW i \in Inputs, ForgetInput(i) \/ IndexArrives(i) \/ EndInput(i)
          PROVE  UNCHANGED clockAt
      BY <3>5 DEF ForgetInput, IndexArrives, EndInput
    <3>6. CASE IndexerStep
      BY <3>6 DEF IndexerStep, StoreIndexerTask, IndexerTask, ServeRegistration,
                  NoRegistration, ServeAcquire, PollAgain
    <3>7. CASE DropOwner \/ EndClock \/ EndIndexer \/ UNCHANGED shutVars
      BY <3>7 DEF DropOwner, EndClock, EndIndexer, shutVars
    <3> QED
      BY <3>1, <3>2, <3>3, <3>4, <3>5, <3>6, <3>7 DEF ShutNext
  <2>4. clockEnded => ~RuntimeAlive' /\ instructions' = <<>>
    BY DeadStaysDead
  <2> QED
    BY <2>1, <2>2, <2>3, <2>4
<1> QED
  BY <1>1, <1>2

LEMMA ConcatOccurs ==
    ASSUME NEW S, NEW s \in Seq(S), NEW t \in Seq(S), NEW i, Occurs(i, s \o t)
    PROVE  Occurs(i, s) \/ Occurs(i, t)
<1>1. PICK n \in DOMAIN (s \o t) : (s \o t)[n] = i
  BY DEF Occurs
<1>2. n \in 1 .. Len(s) + Len(t) /\ Len(s) \in Nat /\ Len(t) \in Nat
  BY <1>1, ConcatProperties
<1>3. CASE n <= Len(s)
  BY <1>1, <1>2, <1>3, ConcatProperties DEF Occurs
<1>4. CASE n > Len(s)
  <2>1. n - Len(s) \in 1 .. Len(t) /\ t[n - Len(s)] = i
    BY <1>1, <1>2, <1>4, ConcatProperties
  <2> QED
    BY <2>1 DEF Occurs
<1> QED
  BY <1>2, <1>3, <1>4

LEMMA AppendOccurs ==
    ASSUME NEW S, NEW s \in Seq(S), NEW e \in S, NEW i, Occurs(i, Append(s, e))
    PROVE  Occurs(i, s) \/ i = e
  BY AppendProperties DEF Occurs

LEMMA TailOccurs ==
    ASSUME NEW S, NEW s \in Seq(S), s # <<>>, NEW i
    PROVE  Occurs(i, Tail(s)) \/ i = Head(s) => Occurs(i, s)
<1>1. Len(s) \in Nat \ {0} /\ DOMAIN s = 1 .. Len(s) /\ Head(s) = s[1]
  OBVIOUS
<1>2. /\ DOMAIN Tail(s) = 1 .. Len(s) - 1
      /\ \A n \in 1 .. Len(s) - 1 : Tail(s)[n] = s[n + 1] /\ n + 1 \in 1 .. Len(s)
  BY <1>1, HeadTailProperties
<1> QED
  BY <1>1, <1>2 DEF Occurs

(* Where a handle can get to in one step.                                    *)
LEMMA HandlesStep ==
    ASSUME ShutTypeOK, [ShutNext]_shutVars, NEW i \in Inputs, i \in ended
    PROVE  /\ ~clockEnded /\ Occurs(i, handles') =>
                  Occurs(i, handles) \/ Occurs(i, acquired)
           /\ ~clockEnded /\ Occurs(i, acquired') =>
                  Occurs(i, acquired) \/ (~indexerEnded /\ Occurs(i, queue))
           /\ ~indexerEnded /\ Occurs(i, registrations') => Occurs(i, registrations)
           /\ ~indexerEnded /\ Occurs(i, queue') =>
                  Occurs(i, registrations) \/ Occurs(i, queue)
<1> USE DEF ShutTypeOK, TypeOK, storeVars, vars, clockVars, acquireVars, indexerVars
<1>1. CASE UNCHANGED <<handles, acquired, registrations, queue>>
  BY <1>1
<1>2. ~Occurs(i, <<>>)
  BY DEF Occurs
<1>3. ASSUME UpdateHandles
      PROVE  /\ Occurs(i, handles') => Occurs(i, handles) \/ Occurs(i, acquired)
             /\ ~Occurs(i, acquired')
             /\ UNCHANGED <<registrations, queue>>
  <2>1. handles' = handles \o acquired /\ acquired' = <<>> /\ UNCHANGED <<registrations, queue>>
    BY <1>3 DEF UpdateHandles
  <2> QED
    BY <1>2, <2>1, ConcatOccurs
<1>4. CASE ClockStep
  BY <1>1, <1>3, <1>4 DEF ClockStep, StoreClockTask, LogStartQuery, OtherClockStep,
     JoinQueryPhase, TakeInstr, NextMutation, AskIndexer, StartMutation, AskInstants, StartQuery
<1>5. CASE IndexerStep
  <2>1. ~indexerEnded /\ IndexerTask
    BY <1>5 DEF IndexerStep, StoreIndexerTask
  <2>2. CASE ServeRegistration
    <3>1. /\ registrations # <<>> /\ registrations' = Tail(registrations)
          /\ queue' = Append(queue, Head(registrations)) /\ UNCHANGED <<handles, acquired>>
      BY <2>2 DEF ServeRegistration
    <3>2. Head(registrations) \in Inputs
      BY <3>1
    <3>3. Occurs(i, registrations') \/ i = Head(registrations) => Occurs(i, registrations)
      BY <3>1, TailOccurs
    <3>4. Occurs(i, queue') => Occurs(i, queue) \/ i = Head(registrations)
      BY <3>1, <3>2, AppendOccurs
    <3> QED
      BY <3>1, <3>3, <3>4
  <2>3. CASE ServeAcquire
    BY <1>2, <2>1, <2>3 DEF ServeAcquire
  <2>4. CASE NoRegistration \/ PollAgain
    BY <1>1, <2>4 DEF NoRegistration, PollAgain
  <2> QED
    BY <2>1, <2>2, <2>3, <2>4 DEF IndexerTask
<1>6. ASSUME NEW j \in Inputs, InputStep(j), RegisterNode(j) PROVE i # j
  BY <1>6 DEF InputStep
<1>7. ASSUME NEW j \in Inputs, InputStep(j), RegisterNode(j)
      PROVE  /\ UNCHANGED <<handles, acquired, queue>>
             /\ Occurs(i, registrations') => Occurs(i, registrations)
  <2>1. registrations' = Append(registrations, j) /\ UNCHANGED <<handles, acquired, queue>>
    BY <1>7 DEF RegisterNode, Register
  <2> QED
    BY <1>6, <1>7, <2>1, AppendOccurs
<1>8. ASSUME NEW j \in Inputs, InputStep(j), ~RegisterNode(j)
      PROVE  UNCHANGED <<handles, acquired, registrations, queue>>
  BY <1>8 DEF InputStep, ServeSet, ServeCheck, ServeGet, ServeClock, DropClone, Answer
<1>9. ASSUME NEW c \in Calls, AskRuntime(c) \/ StartEvaluation(c) \/ EndEvaluation(c)
      PROVE  UNCHANGED <<handles, acquired, registrations, queue>>
  BY <1>9 DEF AskRuntime, Ask, Cancel, Finish, StartEvaluation, EndEvaluation, Clone, DropClone
<1>10. ASSUME NEW c \in Calls, NEW j \in Inputs,
             \/ \E v \in Values : SetInput(c, j, v)
             \/ GetInput(c, j)
             \/ \E past \in Frames : CheckInput(c, j, past)
       PROVE UNCHANGED <<handles, acquired, registrations, queue>>
  BY <1>10 DEF SetInput, GetInput, CheckInput, Set, Get, Check, Clone
<1>11. ASSUME NEW j \in Inputs, ForgetInput(j) \/ IndexArrives(j) \/ EndInput(j)
       PROVE  UNCHANGED <<handles, acquired, registrations, queue>>
  BY <1>11 DEF ForgetInput, IndexArrives, EndInput
<1>12. CASE DropOwner \/ EndClock \/ EndIndexer \/ UNCHANGED shutVars
  BY <1>1, <1>12 DEF DropOwner, EndClock, EndIndexer, shutVars
<1> QED
  BY <1>1, <1>4, <1>5, <1>7, <1>8, <1>9, <1>10, <1>11, <1>12 DEF ShutNext

(* An input that has ended stays unreachable.                                *)
LEMMA UnreachableStays ==
    ASSUME ShutInv, [ShutNext]_shutVars, NEW i \in ended
    PROVE  /\ ~RuntimeAlive' /\ i \notin readers'
           /\ setMail'[i] = <<>> /\ getMail'[i] = <<>> /\ checkMail'[i] = <<>>
           /\ ~clockEnded' => ~Occurs(i, handles') /\ ~Occurs(i, acquired')
           /\ ~indexerEnded' => ~Occurs(i, registrations') /\ ~Occurs(i, queue')
<1> USE DEF ShutInv
<1>1. i \in Inputs
  BY DEF ShutTypeOK, LifeTypeOK
<1>2. /\ ~RuntimeAlive /\ i \notin readers
      /\ setMail[i] = <<>> /\ getMail[i] = <<>> /\ checkMail[i] = <<>>
      /\ ~clockEnded => ~Occurs(i, handles) /\ ~Occurs(i, acquired)
      /\ ~indexerEnded => ~Occurs(i, registrations) /\ ~Occurs(i, queue)
  BY DEF EndedUnreachable
<1>3. /\ ~RuntimeAlive' /\ i \notin readers'
      /\ setMail'[i] = <<>> /\ getMail'[i] = <<>> /\ checkMail'[i] = <<>>
  BY <1>1, <1>2, DeadStaysDead
<1>4. (clockEnded => clockEnded') /\ (indexerEnded => indexerEnded')
  BY DEF ShutNext, AskRuntime, StartEvaluation, EndEvaluation, SetInput, GetInput, CheckInput,
     ForgetInput, IndexArrives, InputStep, EndInput, ClockStep, IndexerStep, DropOwner,
     EndClock, EndIndexer, shutVars, lifeVars
<1> QED
  BY <1>1, <1>2, <1>3, <1>4, HandlesStep

LEMMA UnreachableStep ==
    ASSUME ShutInv, [ShutNext]_shutVars PROVE EndedUnreachable'
<1> SUFFICES ASSUME NEW i \in ended'
             PROVE  /\ ~RuntimeAlive' /\ i \notin readers'
                    /\ setMail'[i] = <<>> /\ getMail'[i] = <<>> /\ checkMail'[i] = <<>>
                    /\ ~clockEnded' => ~Occurs(i, handles') /\ ~Occurs(i, acquired')
                    /\ ~indexerEnded' => ~Occurs(i, registrations') /\ ~Occurs(i, queue')
  BY DEF EndedUnreachable, Occurs
<1>1. CASE i \in ended
  BY <1>1, UnreachableStays
<1>2. CASE i \notin ended
  <2>1. PICK j \in Inputs : EndInput(j)
    BY <1>2 DEF ShutNext, AskRuntime, StartEvaluation, EndEvaluation, SetInput, GetInput,
       CheckInput, ForgetInput, IndexArrives, InputStep, ClockStep, IndexerStep, DropOwner,
       EndClock, EndIndexer, shutVars, lifeVars
  <2>2. i = j
    BY <1>2, <2>1 DEF EndInput
  <2>3. /\ ~RuntimeAlive /\ i \notin readers
        /\ setMail[i] = <<>> /\ getMail[i] = <<>> /\ checkMail[i] = <<>>
        /\ UNCHANGED <<storeVars, readers, clockEnded, indexerEnded>>
    BY <2>1, <2>2 DEF EndInput
  <2>4. /\ ~clockEnded => ~Occurs(i, handles) /\ ~Occurs(i, acquired)
        /\ ~indexerEnded => ~Occurs(i, registrations) /\ ~Occurs(i, queue)
    BY <2>1, <2>2 DEF EndInput, InstantWanted, Occurs
  <2>5. UNCHANGED <<setMail, getMail, checkMail, handles, acquired, registrations, queue>>
    BY <2>3 DEF storeVars, vars, nodeVars, clockVars, acquireVars, indexerVars
  <2>6. ~RuntimeAlive'
    BY <2>3, DeadStaysDead DEF ShutInv
  <2> QED
    BY <2>3, <2>4, <2>5, <2>6
<1> QED
  BY <1>1, <1>2

LEMMA ShutInvHolds == ShutSpec => []ShutInv
<1>1. ASSUME ShutInit PROVE ShutInv
  <2>1. StoreInit /\ TypeOK /\ StoreTypeOK
    BY <1>1, StoreInitType, InitType DEF ShutInit
  <2>2. \A c \in Calls : call[c] = "idle"
    BY <2>1 DEF StoreInit, Init
  <2> QED
    BY <1>1, <2>1, <2>2 DEF ShutInit, ShutInv, ShutTypeOK, LifeTypeOK, WaitersHoldOwner,
       EndsInOrder, EndedUnreachable
<1>2. ASSUME ShutInv, [ShutNext]_shutVars PROVE ShutInv'
  <2>1. ShutTypeOK /\ WaitersHoldOwner
    BY <1>2 DEF ShutInv
  <2>2. TypeOK' /\ StoreTypeOK'
    BY <1>2, <2>1, ShutClockStep DEF ShutTypeOK
  <2>3. LifeTypeOK'
    BY <1>2, <2>1, <2>2, LifeTypeStep DEF ShutTypeOK
  <2>4. WaitersHoldOwner'
    BY <1>2, <2>1, OwnerStep
  <2> QED
    BY <1>2, <2>2, <2>3, <2>4, EndsStep, UnreachableStep DEF ShutInv, ShutTypeOK
<1> QED
  BY <1>1, <1>2, PTL DEF ShutSpec

(* The clock awaits one answer for each handle it has.                       *)
AnswerPerHandle == clockAt = "snapshot" => DOMAIN answers = DOMAIN handles

LEMMA AnswersOfHandles == Spec => []AnswerPerHandle
<1> USE DEF AnswerPerHandle
<1>1. Init => AnswerPerHandle
  BY DEF Init
<1>2. ASSUME AnswerPerHandle, [Next]_vars PROVE AnswerPerHandle'
  <2> USE DEF clockVars
  <2>1. CASE Caller
    BY <1>2, <2>1 DEF Caller, Ask, Cancel, Finish, Clone, DropClone
  <2>2. CASE AnyInput
    BY <1>2, <2>2 DEF AnyInput, Register, Answer
  <2>3. CASE ClockTask
    BY <1>2, <2>3 DEF ClockTask, JoinQueryPhase, TakeInstr, NextMutation, AskIndexer,
       StartMutation, AskInstants, StartQuery, AwaitNextInstr
  <2>4. CASE IndexerTask
    BY <1>2, <2>4 DEF IndexerTask, ServeRegistration, NoRegistration, ServeAcquire, PollAgain
  <2>5. CASE UNCHANGED vars
    BY <1>2, <2>5 DEF vars
  <2> QED
    BY <1>2, <2>1, <2>2, <2>3, <2>4, <2>5 DEF Next
<1> QED
  BY <1>1, <1>2, PTL DEF Spec

(* Shutdown!NobodyWaitsForTheDead: no caller waits for a clock that has      *)
(* ended, neither the clock nor a new input for an indexer that has, the     *)
(* clock for no input that has, and no request lies at one, so that none of  *)
(* the `expect`s of runtime/mod.rs:213, 225 and of clock.rs can fail.        *)
THEOREM WaitsAreForTheLiving == ShutSpec => []NobodyWaitsForTheDead
<1>1. ASSUME ShutInv, AnswerPerHandle PROVE NobodyWaitsForTheDead
  <2> USE <1>1 DEF ShutInv, EndsInOrder
  <2>1. ASSUME NEW c \in Calls, call[c] = "waiting" PROVE ~clockEnded
    BY <2>1 DEF WaitersHoldOwner, RuntimeAlive
  <2>2. clockAt = "handles" \/ registering # {} => ~indexerEnded
    BY DEF RuntimeAlive
  <2>3. ASSUME clockAt = "snapshot", NEW n \in DOMAIN answers, answers[n] = NoAnswer
        PROVE  handles[n] \notin ended
    <3>1. ~clockEnded
      BY <2>3
    <3>2. Occurs(handles[n], handles)
      BY <2>3 DEF Occurs, AnswerPerHandle
    <3> QED
      BY <3>1, <3>2 DEF EndedUnreachable
  <2>4. \A i \in ended : setMail[i] = <<>> /\ getMail[i] = <<>> /\ checkMail[i] = <<>>
    BY DEF EndedUnreachable
  <2> QED
    BY <2>1, <2>2, <2>3, <2>4 DEF NobodyWaitsForTheDead
<1> QED
  BY <1>1, ShutInvHolds, ShutdownIsClock, AnswersOfHandles, PTL
=============================================================================
