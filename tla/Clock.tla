-------------------------------- MODULE Clock --------------------------------
(* The clock task and the indexer task of runtime/clock.rs, with the calls   *)
(* of Runtime::query and Runtime::mutate that drive them.                    *)
(*                                                                           *)
(* The clock serves phase instructions one at a time.  Between its await     *)
(* points nothing else observes it, so each stretch of code from one await   *)
(* to the next is one action; the await it stands at is clockAt.  A token    *)
(* holds an Arc of a semaphore permit: the permit goes back when the last    *)
(* clone (the call's context, or a request sent to a node) is dropped.       *)
(* What an input answers to the clock is left open here; InputStore binds it.*)
EXTENDS Integers, Sequences, FiniteSets

CONSTANTS
    Calls,          \* invocations of query / mutate alive at the same time
    Inputs,         \* input nodes
    Instants,       \* number of values of a LocalInstant (2^8 in the code)
    FirstPermits,   \* permits the semaphore starts with (10 in the code)
    MorePermits,    \* permits added when it is empty (10 in the code)
    MaxFrame,       \* bound: frames explored
    MaxClones       \* bound: requests alive at once under one token

ASSUME ClockAssumption ==
    /\ IsFiniteSet(Calls)
    /\ Instants \in Nat \ {0}
    /\ FirstPermits \in Nat \ {0}
    /\ MorePermits \in Nat \ {0}
    /\ MaxFrame \in Nat
    /\ MaxClones \in Nat

VARIABLES
    call,           \* progress of each invocation
    clones,         \* clones of its token, besides the one in its context
    token,          \* the token it was given
    instructions,   \* channel of ClockInstr
    clockAt,        \* the await the clock task stands at
    instr,          \* the instruction it is serving
    phase,          \* ClockState::phase
    snapshot,       \* the payload of ClockPhase::Query
    current,        \* ClockState::current
    handles,        \* ClockState::input_handles
    answers,        \* replies to create_snapshot, in the order of handles
    total,          \* ClockGuard::total_count
    available,      \* permits in the semaphore
    registrations,  \* channel of RegisterInputRequest
    acquireAsked,   \* an AcquireInputsRequest is in its channel
    acquired,       \* the AcquireInputsResponse on its way to the clock
    indexerAt,      \* the branch of select! the indexer polls next
    queue,          \* handles registered since the last acquire
    index,          \* next index the indexer hands out
    assigned        \* index an input was told, NoIndex before that

callVars    == <<call, clones, token>>
guardVars   == <<total, available>>
clockVars   == <<clockAt, instr, phase, snapshot, current, handles, answers>>
acquireVars == <<acquireAsked, acquired>>
indexerVars == <<registrations, indexerAt, queue, index, assigned>>
vars == <<callVars, instructions, clockVars, guardVars, acquireVars, indexerVars>>

Kinds    == {"Query", "Mutation"}
Instant  == 0 .. Instants - 1
NoIndex  == -1
NoInstr  == [kind |-> "none", by |-> "none"]
NoToken  == [kind |-> "none", frame |-> 0, snapshot |-> <<>>]
NoAnswer == -1

InstrOf(kind, c) == [kind |-> kind, by |-> c]

Holds(c) == call[c] = "running" \/ clones[c] > 0
Live == {c \in Calls : Holds(c)}

(* Instructions the clock has not answered yet, oldest first.                *)
Pending == IF clockAt = "recv" THEN instructions ELSE <<instr>> \o instructions

-----------------------------------------------------------------------------
Init ==
    /\ call = [c \in Calls |-> "idle"]
    /\ clones = [c \in Calls |-> 0]
    /\ token = [c \in Calls |-> NoToken]
    /\ instructions = <<>>
    /\ clockAt = "recv"
    /\ instr = NoInstr
    /\ phase = "Query"
    /\ snapshot = <<>>
    /\ current = 0
    /\ handles = <<>>
    /\ answers = <<>>
    /\ total = FirstPermits
    /\ available = FirstPermits
    /\ registrations = <<>>
    /\ acquireAsked = FALSE
    /\ acquired = <<>>
    /\ indexerAt = "register"
    /\ queue = <<>>
    /\ index = 0
    /\ assigned = [i \in Inputs |-> NoIndex]

-----------------------------------------------------------------------------
(* Callers.                                                                  *)

(* Bound: mutations asked for, served or not, stay within MaxFrame frames.   *)
FrameBudget ==
    current + Cardinality({n \in DOMAIN Pending : Pending[n].kind = "Mutation"})
        < MaxFrame

Ask(c, kind) ==
    /\ call[c] = "idle"
    /\ clones[c] = 0
    /\ kind = "Mutation" => FrameBudget
    /\ call' = [call EXCEPT ![c] = "waiting"]
    /\ instructions' = Append(instructions, InstrOf(kind, c))
    /\ UNCHANGED <<clones, token, clockVars, guardVars, acquireVars, indexerVars>>

(* The future of query / mutate is dropped while it awaits its token: the    *)
(* instruction stays in the channel, its callback is gone.                   *)
Cancel(c) ==
    /\ call[c] = "waiting"
    /\ call' = [call EXCEPT ![c] = "cancelled"]
    /\ UNCHANGED <<clones, token, instructions, clockVars, guardVars,
                   acquireVars, indexerVars>>

(* Mutant: every clone is a permit of its own accord, no Arc around it.      *)
GivesBackEach(c) ==
    /\ token' = IF call'[c] = "running" \/ clones'[c] > 0
                   THEN token ELSE [token EXCEPT ![c] = NoToken]
    /\ available' = available + 1

(* Mutant: the permit is the context's, requests to nodes do not share it.   *)
GivesBackContext(c) ==
    IF call[c] = "running"
       THEN available' = available + 1 /\ UNCHANGED token
       ELSE UNCHANGED <<token, available>>

(* One reference to the permit of c goes away, the last one gives it back.   *)
GivesBack(c) ==
    IF call'[c] = "running" \/ clones'[c] > 0
       THEN UNCHANGED <<token, available>>
       ELSE /\ token' = [token EXCEPT ![c] = NoToken]
            /\ available' = available + 1

(* The closure passed to query / mutate ends, or its future is dropped: its  *)
(* context goes.                                                             *)
Finish(c) ==
    /\ call[c] = "running"
    /\ call' = [call EXCEPT ![c] = "idle"]
    /\ UNCHANGED clones
    /\ GivesBack(c)
    /\ UNCHANGED <<instructions, clockVars, total, acquireVars, indexerVars>>

(* A request that carries a clone of the token is sent to a node, by the     *)
(* call itself or by a node serving an earlier request of it.                *)
Clone(c) ==
    /\ Holds(c)
    /\ clones[c] < MaxClones
    /\ clones' = [clones EXCEPT ![c] = @ + 1]
    /\ UNCHANGED <<call, token, instructions, clockVars, guardVars,
                   acquireVars, indexerVars>>

(* A node is done with such a request.                                       *)
DropClone(c) ==
    /\ clones[c] > 0
    /\ clones' = [clones EXCEPT ![c] = @ - 1]
    /\ UNCHANGED call
    /\ GivesBack(c)
    /\ UNCHANGED <<instructions, clockVars, total, acquireVars, indexerVars>>

-----------------------------------------------------------------------------
(* The clock task.                                                           *)

(* Mutant: the pool does not grow.                                           *)
AddedNever == 0

(* ClockGuard::acquire: permits are added when none is left.                 *)
Added == IF available = 0 THEN MorePermits ELSE 0

(* Mutant: the token of a cancelled call is kept, and its permit with it.    *)
GrantLeaky(c, kind, frame, snap) ==
    /\ total' = total + Added
    /\ available' = available + Added - 1
    /\ IF call[c] = "waiting"
          THEN /\ call' = [call EXCEPT ![c] = "running"]
               /\ token' = [token EXCEPT ![c] =
                               [kind |-> kind, frame |-> frame, snapshot |-> snap]]
          ELSE call' = [call EXCEPT ![c] = "idle"] /\ UNCHANGED token
    /\ UNCHANGED clones

(* The token is built and sent.  When the caller is gone `send` hands it     *)
(* back and it is dropped on the spot, permit included.                      *)
Grant(c, kind, frame, snap) ==
    /\ total' = total + Added
    /\ IF call[c] = "waiting"
          THEN /\ available' = available + Added - 1
               /\ call' = [call EXCEPT ![c] = "running"]
               /\ token' = [token EXCEPT ![c] =
                               [kind |-> kind, frame |-> frame, snapshot |-> snap]]
          ELSE /\ available' = available + Added
               /\ call' = [call EXCEPT ![c] = "idle"]
               /\ UNCHANGED token
    /\ UNCHANGED clones

AwaitNextInstr == clockAt' = "recv" /\ instr' = NoInstr

(* Mutant: a query joins a running query phase even while an earlier         *)
(* instruction waits for that phase to end.                                  *)
JoinOvertaking ==
    /\ clockAt \in {"recv", "release"}
    /\ instructions # <<>>
    /\ Head(instructions).kind = "Query"
    /\ phase = "Query"
    /\ instructions' = Tail(instructions)
    /\ Grant(Head(instructions).by, "Query", current, snapshot)
    /\ UNCHANGED <<clockVars, acquireVars, indexerVars>>

(* Mutant: a query is given the last snapshot, whatever phase it is.         *)
JoinAnyPhase ==
    /\ clockAt = "recv"
    /\ instructions # <<>>
    /\ Head(instructions).kind = "Query"
    /\ instructions' = Tail(instructions)
    /\ Grant(Head(instructions).by, "Query", current, snapshot)
    /\ UNCHANGED <<clockVars, acquireVars, indexerVars>>

(* force_query in query phase reaches no await: the caller joins the phase.  *)
JoinQueryPhase ==
    /\ clockAt = "recv"
    /\ instructions # <<>>
    /\ Head(instructions).kind = "Query"
    /\ phase = "Query"
    /\ instructions' = Tail(instructions)
    /\ Grant(Head(instructions).by, "Query", current, snapshot)
    /\ UNCHANGED <<clockVars, acquireVars, indexerVars>>

(* Mutant: the frame advances when the instruction is read.                  *)
TakeInstrEarlyFrame ==
    /\ clockAt = "recv"
    /\ instructions # <<>>
    /\ ~(Head(instructions).kind = "Query" /\ phase = "Query")
    /\ instr' = Head(instructions)
    /\ instructions' = Tail(instructions)
    /\ clockAt' = "release"
    /\ current' = IF phase = "Query" THEN current + 1 ELSE current
    /\ UNCHANGED <<callVars, phase, snapshot, handles, answers,
                   guardVars, acquireVars, indexerVars>>

(* Mutant: every instruction awaits release_all.                             *)
TakeInstrAlways ==
    /\ clockAt = "recv"
    /\ instructions # <<>>
    /\ instr' = Head(instructions)
    /\ instructions' = Tail(instructions)
    /\ clockAt' = "release"
    /\ UNCHANGED <<callVars, phase, snapshot, current, handles, answers,
                   guardVars, acquireVars, indexerVars>>

(* Every other instruction first awaits release_all.                         *)
TakeInstr ==
    /\ clockAt = "recv"
    /\ instructions # <<>>
    /\ ~(Head(instructions).kind = "Query" /\ phase = "Query")
    /\ instr' = Head(instructions)
    /\ instructions' = Tail(instructions)
    /\ clockAt' = "release"
    /\ UNCHANGED <<callVars, phase, snapshot, current, handles, answers,
                   guardVars, acquireVars, indexerVars>>

(* Mutant: only the permits the pool started with are awaited.               *)
FirstReleased == available >= FirstPermits

(* release_all: every permit of the pool is back.                            *)
AllReleased == available = total

(* force_mutation in mutation phase: wait for the previous call to end, keep *)
(* the frame.                                                                *)
NextMutation ==
    /\ clockAt = "release"
    /\ AllReleased
    /\ phase = "Mutation"
    /\ instr.kind = "Mutation"
    /\ Grant(instr.by, "Mutation", current, <<>>)
    /\ AwaitNextInstr
    /\ UNCHANGED <<instructions, phase, snapshot, current, handles, answers,
                   acquireVars, indexerVars>>

(* A change of phase asks the indexer for new handles once all is released.  *)
AskIndexer ==
    /\ clockAt = "release"
    /\ AllReleased
    /\ phase # instr.kind
    /\ acquireAsked' = TRUE
    /\ clockAt' = "handles"
    /\ UNCHANGED <<callVars, instructions, instr, phase, snapshot, current,
                   handles, answers, guardVars, acquired, indexerVars>>

(* Mutant: the new handles replace the old ones.                             *)
ReplaceHandles ==
    /\ clockAt = "handles"
    /\ ~acquireAsked
    /\ handles' = acquired
    /\ acquired' = <<>>
    /\ UNCHANGED <<acquireAsked, indexerVars>>

(* update_handles: the indexer's response is there, its handles are appended.*)
UpdateHandles ==
    /\ clockAt = "handles"
    /\ ~acquireAsked
    /\ handles' = handles \o acquired
    /\ acquired' = <<>>
    /\ UNCHANGED <<acquireAsked, indexerVars>>

(* The rest of force_mutation from query phase.                              *)
StartMutation ==
    /\ instr.kind = "Mutation"
    /\ UpdateHandles
    /\ phase' = "Mutation"
    /\ snapshot' = <<>>
    /\ current' = current + 1
    /\ Grant(instr.by, "Mutation", current', <<>>)
    /\ AwaitNextInstr
    /\ UNCHANGED <<instructions, answers>>

(* create_snapshot asks every input it knows of at once.                     *)
AskInstants ==
    /\ instr.kind = "Query"
    /\ UpdateHandles
    /\ answers' = [n \in DOMAIN handles' |-> NoAnswer]
    /\ clockAt' = "snapshot"
    /\ UNCHANGED <<callVars, instructions, instr, phase, snapshot, current, guardVars>>

(* The n-th input answers with its local instant, or is found dead, which    *)
(* counts as the initial instant.                                            *)
Answer(n, instant) ==
    /\ clockAt = "snapshot"
    /\ answers[n] = NoAnswer
    /\ answers' = [answers EXCEPT ![n] = instant]
    /\ UNCHANGED <<callVars, instructions, clockAt, instr, phase, snapshot,
                   current, handles, guardVars, acquireVars, indexerVars>>

(* All answers are in: the rest of force_query from mutation phase.          *)
StartQuery ==
    /\ clockAt = "snapshot"
    /\ \A n \in DOMAIN answers : answers[n] # NoAnswer
    /\ phase' = "Query"
    /\ snapshot' = answers
    /\ answers' = <<>>
    /\ Grant(instr.by, "Query", current, snapshot')
    /\ AwaitNextInstr
    /\ UNCHANGED <<instructions, current, handles, acquireVars, indexerVars>>

ClockTask ==
    \/ JoinQueryPhase \/ TakeInstr \/ NextMutation \/ AskIndexer
    \/ StartMutation \/ AskInstants \/ StartQuery

-----------------------------------------------------------------------------
(* The indexer task.  Its select! is biased towards registrations, but the   *)
(* two channels are polled one after the other, not at once: a registration  *)
(* that arrives in between is overtaken by the acquire request.              *)

(* An input node sends its handle before it does anything else.              *)
Register(i) ==
    /\ assigned[i] = NoIndex
    /\ \A n \in DOMAIN registrations : registrations[n] # i
    /\ registrations' = Append(registrations, i)
    /\ UNCHANGED <<callVars, instructions, clockVars, guardVars, acquireVars,
                   indexerAt, queue, index, assigned>>

(* Mutant: the clock itself serves registrations, between instructions.      *)
ServeRegistrationByClock ==
    /\ clockAt = "recv"
    /\ indexerAt = "register"
    /\ registrations # <<>>
    /\ registrations' = Tail(registrations)
    /\ queue' = Append(queue, Head(registrations))
    /\ assigned' = [assigned EXCEPT ![Head(registrations)] = index]
    /\ index' = index + 1
    /\ UNCHANGED <<callVars, instructions, clockVars, guardVars, acquireVars, indexerAt>>

ServeRegistration ==
    /\ indexerAt = "register"
    /\ registrations # <<>>
    /\ registrations' = Tail(registrations)
    /\ queue' = Append(queue, Head(registrations))
    /\ assigned' = [assigned EXCEPT ![Head(registrations)] = index]
    /\ index' = index + 1
    /\ UNCHANGED <<callVars, instructions, clockVars, guardVars, acquireVars, indexerAt>>

NoRegistration ==
    /\ indexerAt = "register"
    /\ registrations = <<>>
    /\ indexerAt' = "acquire"
    /\ UNCHANGED <<callVars, instructions, clockVars, guardVars, acquireVars,
                   registrations, queue, index, assigned>>

(* Mutant: the queue is copied, not taken.                                   *)
ServeAcquireCopy ==
    /\ indexerAt = "acquire"
    /\ acquireAsked
    /\ acquired' = queue
    /\ acquireAsked' = FALSE
    /\ indexerAt' = "register"
    /\ UNCHANGED <<callVars, instructions, clockVars, guardVars, registrations,
                   queue, index, assigned>>

ServeAcquire ==
    /\ indexerAt = "acquire"
    /\ acquireAsked
    /\ acquired' = queue
    /\ acquireAsked' = FALSE
    /\ queue' = <<>>
    /\ indexerAt' = "register"
    /\ UNCHANGED <<callVars, instructions, clockVars, guardVars, registrations,
                   index, assigned>>

(* Woken by a registration while asleep: select! polls from the top again.   *)
PollAgain ==
    /\ indexerAt = "acquire"
    /\ ~acquireAsked
    /\ registrations # <<>>
    /\ indexerAt' = "register"
    /\ UNCHANGED <<callVars, instructions, clockVars, guardVars, acquireVars,
                   registrations, queue, index, assigned>>

IndexerTask ==
    ServeRegistration \/ NoRegistration \/ ServeAcquire \/ PollAgain

-----------------------------------------------------------------------------
Caller ==
    \E c \in Calls :
        \/ \E kind \in Kinds : Ask(c, kind)
        \/ Cancel(c) \/ Finish(c) \/ Clone(c) \/ DropClone(c)

AnyInput ==
    \/ \E i \in Inputs : Register(i)
    \/ \E n \in DOMAIN answers, instant \in Instant : Answer(n, instant)

Next == Caller \/ AnyInput \/ ClockTask \/ IndexerTask

Spec == Init /\ [][Next]_vars

-----------------------------------------------------------------------------
Tokens == [kind : Kinds, frame : Nat, snapshot : Seq(Instant)] \cup {NoToken}
Instrs == [kind : Kinds, by : Calls]

(* Every variable holds a value of its type.                                 *)
TypeOK ==
    /\ call \in [Calls -> {"idle", "waiting", "cancelled", "running"}]
    /\ clones \in [Calls -> Nat]
    /\ token \in [Calls -> Tokens]
    /\ instructions \in Seq(Instrs)
    /\ clockAt \in {"recv", "release", "handles", "snapshot"}
    /\ instr \in IF clockAt = "recv" THEN {NoInstr} ELSE Instrs
    /\ phase \in Kinds
    /\ snapshot \in Seq(Instant)
    /\ current \in Nat
    /\ handles \in Seq(Inputs)
    /\ answers \in Seq(Instant \cup {NoAnswer})
    /\ total \in Nat
    /\ available \in Nat
    /\ registrations \in Seq(Inputs)
    /\ acquireAsked \in BOOLEAN
    /\ acquired \in Seq(Inputs)
    /\ indexerAt \in {"register", "acquire"}
    /\ queue \in Seq(Inputs)
    /\ index \in Nat
    /\ assigned \in [Inputs -> Nat \cup {NoIndex}]

(* ClockGuard counts right: the permits in the semaphore and the live tokens *)
(* make total_count, through growth, cancelled calls and clones, so that     *)
(* release_all waits for exactly the tokens that exist and try_acquire_owned *)
(* never panics.                                                             *)
PermitBalance == available + Cardinality(Live) = total

(* Mutation calls are atomic and exclude queries: every live token, requests *)
(* still queued under it included, is of the current phase, and a live       *)
(* mutation token is the only live token.                                    *)
PhaseExclusion ==
    \A c \in Live :
        /\ token[c].kind = phase
        /\ token[c].kind = "Mutation" => Live = {c}

(* A token is never stale: whoever holds a clone of it sees in it the        *)
(* clock's own frame and snapshot of the inputs.                             *)
TokensFresh ==
    \A c \in Live : token[c].frame = current /\ token[c].snapshot = snapshot

(* Handles in the order of their indices, wherever they are on the way from  *)
(* the indexer to the clock.                                                 *)
Known == handles \o acquired \o queue

(* The index an input was told is the place its instant will have in every   *)
(* later snapshot.                                                           *)
IndexIsPlace ==
    \A i \in Inputs : assigned[i] # NoIndex =>
        assigned[i] + 1 \in DOMAIN Known /\ Known[assigned[i] + 1] = i

(* Every handle the indexer took is on its way or at the clock, once: the    *)
(* response to an acquire request is read before the next one is asked for.  *)
NoHandleLost ==
    /\ index = Len(Known)
    /\ acquireAsked => clockAt = "handles" /\ acquired = <<>>
    /\ clockAt # "handles" => acquired = <<>>

Awaits(c) == call[c] \in {"waiting", "cancelled"} /\ clones[c] = 0

(* An invocation is served once: it has at most one instruction on its way,  *)
(* in the channel or in the hands of the clock, and no token while it has.   *)
OneRequest ==
    /\ \A n \in DOMAIN instructions : Awaits(instructions[n].by)
    /\ \A m, n \in DOMAIN instructions :
          instructions[m].by = instructions[n].by => m = n
    /\ clockAt # "recv" =>
          /\ Awaits(instr.by)
          /\ \A n \in DOMAIN instructions : instructions[n].by # instr.by

(* While the clock changes phase, awaiting the indexer or the inputs, no     *)
(* token is out; a mutation phase has no snapshot left to show.              *)
QuietChange ==
    /\ clockAt \in {"handles", "snapshot"} => Live = {}
    /\ phase = "Mutation" => snapshot = <<>>

(* Nobody is forgotten: a caller that waits has its instruction on its way,  *)
(* however often calls before it are cancelled or join a running phase.      *)
NoOneForgotten ==
    \A c \in Calls : call[c] \in {"waiting", "cancelled"} =>
        \E n \in DOMAIN Pending : Pending[n].by = c

(* A query never waits for queries, and what the clock does between the      *)
(* release of all permits and the next token is a change to the other phase. *)
RealChange ==
    /\ clockAt = "release" => instr.kind = "Mutation" \/ phase = "Mutation"
    /\ clockAt \in {"handles", "snapshot"} => instr.kind # phase
    /\ clockAt = "snapshot" => instr.kind = "Query"

(* The inductive invariant of ClockProofs.                                   *)
Safety ==
    TypeOK /\ PermitBalance /\ PhaseExclusion /\ TokensFresh
    /\ OneRequest /\ QuietChange

(* The world stands still under a token: as long as one clone of one token   *)
(* is alive, no step of any task changes the phase, the frame or the         *)
(* snapshot.                                                                 *)
StillUnderToken ==
    [][Live # {} => UNCHANGED <<phase, current, snapshot>>]_vars

Abandoned == {c \in Calls : call[c] = "cancelled"}
Held == [c \in Calls |-> IF Holds(c) THEN token[c].kind ELSE "none"]

(* The runtime is a fair reader-writer lock ("Scheduling", "Mutation         *)
(* sequencing"): see PhaseLock.                                              *)
Lock == INSTANCE PhaseLock WITH
            queue     <- Pending,
            abandoned <- Abandoned,
            held      <- Held,
            mode      <- phase,
            frame     <- current

LockSpec == Lock!Spec
LockFairSpec == Lock!FairSpec

(* A call that is not cancelled gets its token, whatever the other calls do, *)
(* as long as contexts end.                                                  *)
EveryCallServed ==
    \A c \in Calls : call[c] = "waiting" ~> call[c] \in {"running", "cancelled"}
=============================================================================
