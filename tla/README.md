# Salvia in TLA+

Salvia (`src/salvia`) is an incremental computation runtime: *inputs* are set in
*mutation phases*, *queries* are memoized async functions that read inputs and
other queries in *query phases*, and a query is recomputed only when something
it read changed.  Every bound input and query is a tokio task (a *node*); two
more tasks, the *clock* and the *indexer*, order the phases.  What is hard in
it is concurrency: requests that outlive the call that made them, tasks that
wait for each other, caches that are checked against frames other nodes never
saw, and an 8-bit counter that wraps around.

This directory holds the models of that machinery, of the `#[query]` macro that
makes functions into nodes, and of the two example programs; the TLC
configurations that check them; and TLAPS proofs about the clock, calls within
calls, the inputs around it, the shutdown, the query nodes, their panics and
ends, the node managers, dependency information and the macro.

## 1. Inventory

| Part | Source | State | Operations | Talks to |
|---|---|---|---|---|
| Runtime phases | `runtime/mod.rs` | channels to clock and indexer, node managers | `query`, `mutate` (each asks for a token and runs a closure under it), cancellation by dropping the future | clock (instruction channel, one-shot callback) |
| Clock task and guard | `runtime/clock.rs` | phase, snapshot, current frame, input handles, semaphore with `total_count` | serve an instruction: `force_query`, `force_mutation`; `acquire`, `release_all`; collect a snapshot | callers, indexer (acquire request), input nodes (clock requests) |
| Indexer task | `runtime/clock.rs` | queue of new handles, next index | serve a registration, serve an acquire request | input nodes, clock |
| Input nodes | `node/input.rs` | value, queued change, `valid_since`, local instant; four mailboxes | register, set, validate, get, answer the clock (which actualizes) | callers and query nodes (requests with a token clone), clock, indexer |
| Query nodes | `node/query.rs`, `node/mod.rs` | cached value, valid range, edges, input selection, snapshot; two mailboxes | spawn with first evaluation, serve a value or validation request, the three-step update | other query nodes, input nodes; callers |
| Time | `time.rs` | - | global instants and frames, wrapping local instants, range arithmetic | - |
| Input selection, dependency information | `node/mod.rs` | bit vector, frame | insert, union, emptiness; comparison of snapshots under it | query nodes |
| Node managers | `node/mod.rs`, `runtime/mod.rs` | map of managers, map of nodes, a `RwLock` each | find or spawn, by double-checked insertion | callers, tenants |
| Runtime shutdown | all of them | `Arc`s, `Weak`s, open channels | drop of the runtime, end of each task | all tasks |
| `#[query]` | `salvia_macro/src/query` | none | check and sort the signature, generate the function | query nodes (key and tenant) |
| Tournament | `examples/tournament.rs` | results, roster (inputs) | `score`, `is_disqualified`, `winner` | - |
| Symbolic derivative | `examples/symbolic_derivative.rs` | a formula (input) | parse, simplify, derive, evaluate, fold constants | - |
| Input derive, tracing, macro support | `salvia_macro/src/input.rs`, `tracing.rs`, `macro_support.rs` | none | code generation, logging | - |

What makes each part correct:

* *Phases*: mutations exclude queries and one another; the lock is fair; a frame
  begins exactly with the first mutation after a query phase; nothing changes
  under a token, nor under a request that still carries a clone of it.
* *Clock and guard*: permits and live tokens balance through pool growth,
  cancelled calls and clones, or `release_all` waits for ever or not at all.
* *Indexer*: the index an input is told is its place in every later snapshot,
  however its registration races a phase change; registration never waits for
  a clock that waits for the registering node.
* *Inputs*: readers see the last write; verdicts on validation requests are
  exact; equal local instants prove that nothing changed, in spite of wrap-around.
* *Queries*: a caller gets what evaluating the query from nothing would give;
  valid ranges are true of frames in which nobody asked; the selection is
  what the query depends on; nodes do not wait for each other in a cycle.
* *Failing nodes*: a panic ends those who call, nobody else; no wait is in vain.
* *Dependency information*: vectors of different lengths are joined without
  losing or making up a bit.
* *Managers*: one node per key, for ever, whoever looks for it at the same time.
* *Shutdown*: every task ends, and none as long as somebody needs its answer.
* *`#[query]`*: what it accepts is what it supports; the body sees the arguments
  of the call although the node runs the tenant of an earlier one.
* *Examples*: the order of hash tables does not show in memoized answers; the
  derivative is the derivative; the parser gives operators their precedence.

`PROJECT.json` lists the hazards line by line, with the properties that cover
each.  One has none: the underflow of `pow - 1` in the derivative example, whose
outcome is the example's own.

## 2. Modules

    PhaseLock        what Runtime promises: a fair reader-writer lock with frames
    Clock            clock task + indexer task + calls        (implements PhaseLock)
    NestedCalls      EXTENDS Clock: calls within the closures of calls
    InputStore       EXTENDS Clock: input nodes around the clock
    Shutdown         EXTENDS InputStore: the drop of the runtime, ends of tasks
    QueryNodes       query nodes at message level; clock and inputs by what
                     Clock and InputStore show of them
    QueryMeaning     EXTENDS QueryNodes: what queries mean, and what is promised
    NodeLife         EXTENDS QueryNodes: panics, the drop of the runtime
    LifeMeaning      EXTENDS NodeLife, QueryMeaning: what is promised among
                     panics and drops
    DepInfo          bit vectors and frames behind QueryNodes' selections
    Registry         what the node managers promise: one node per key
    NodeManager      two levels of maps under fair locks      (implements Registry)
    QueryMacro       #[query] and the function it generates
    Tournament       the tournament example
    Symbolic         the queries of the symbolic derivative example
    FormulaParser    its parser
    ClockProofs      TLAPS: Clock's invariants; Clock implements PhaseLock
    NestedProofs     TLAPS: NestedCalls is Clock; who waits for himself
    StoreProofs      TLAPS: InputStore and Shutdown are Clock; readers, snapshots,
                     verdicts, local instants; nobody waits for the dead
    QueryProofs      TLAPS: the incremental computation is transparent
    LifeProofs       TLAPS: it stays so among panics and drops; who dies, who waits
    NodeManagerProofs  TLAPS: NodeManager implements Registry
    DepInfoProofs    TLAPS: all of DepInfo
    MacroProofs      TLAPS: all of QueryMacro
    MC<module>       instances for TLC, with reference definitions
    MCSequential     one instance over QueryMacro and the examples

### PhaseLock

The abstract specification, from the "Runtime phases", "Scheduling" and
"Mutation sequencing" paragraphs and what `clock` does with them: a queue of
requests, who holds what, the mode and the frame.  A request whose future was
dropped stays in the queue and is served for its effect on the mode and frame.

### Clock

One action per stretch of code between two awaits, because nothing else sees
the state of a task in between.  `clockAt` names the await: `recv` (next
instruction), `release` (`release_all`), `handles` (response of the indexer),
`snapshot` (replies of the inputs).

| Action | Code |
|---|---|
| `Ask`, `Cancel`, `Finish` | `query` / `mutate` send their instruction; their future is dropped; the closure ends and its context goes |
| `Clone`, `DropClone` | a request to a node carries a clone of the token's `Arc<Permit>`; the node is done with it |
| `JoinQueryPhase` | `force_query` in query phase: no await is reached |
| `TakeInstr`, `NextMutation` | every other instruction awaits `release_all`; `force_mutation` in mutation phase then goes on in the same frame |
| `AskIndexer`, `StartMutation` | query to mutation phase: acquire handles, next frame |
| `AskIndexer`, `AskInstants`, `Answer`, `StartQuery` | mutation to query phase: acquire handles, ask all inputs, snapshot |
| `Register`, `ServeRegistration`, `NoRegistration`, `ServeAcquire`, `PollAgain` | the indexer and its biased `select!` |

`Grant` is the end of the `clock` loop body: `acquire` (with growth of the
pool), build the token, send it; if the caller is gone the token comes back from
`send` and is dropped on the spot.  `GivesBack` is the drop of one `Arc`: the
permit returns with the last one.  A biased `select!` polls its branches one
after the other; a message that arrives in between is overtaken, so the indexer
has an explicit polling position (`indexerAt`).

`Calls` are the invocations alive at the same time; a slot is used again once
its call is over and its last clone is gone.  What an input answers to the clock
is any instant here; `InputStore` binds it to the cache.

### InputStore

Extends `Clock`; every action that uses a token or a clock channel is the
conjunction of a `Clock` action and of what happens at the node: `Set`, `Get`
and `Check` (a query node's validation request) are `Clone` plus a mailbox;
`ServeSet`, `ServeGet`, `ServeCheck` are `DropClone` plus the handler;
`ServeClock` is `Answer` plus `Cache::actualize`; `RegisterNode` is `Register`.
So every behaviour of `InputStore` is one of `Clock`, with `answers` that mean
something.  `firstRead`, `stored` and `log` are history: they say what the nodes
should know.  The order in which a node polls its four mailboxes is left open,
which allows more than the code does.

### QueryNodes

The update routine at message level.  `node[q]` is a task with its `Cache`, its
two mailboxes, the request it serves (`job`) and what it gathers.  `ServeValue`
and `ServeCheck` take a request and run step 1 (`Refresh`: same frame, or no
input in the selection changed); `SendCheck`, `InputVerdict` and the replies in
`Complete` are step 2 (`UpstreamDeps::status`, a `try_fold` over a
`FuturesUnordered`); `ReadInput`, `CallQuery` and `FinishEvaluation` are step 3,
the tenant.  `Forget` is the drop of reply receivers: the requests themselves
stay in the mailboxes and are served for nobody.

Clock and inputs appear by what the other modules show of them: input values
stand still while a token is alive (`StillUnderToken`, `ReadsLastWrite`), so
`NextFrame` is enabled only when no context and no request exists, and takes the
next frame in one step; the reply of an input node touches nothing but its
requester.  The tenant is a parameter: `NextReads(q, seen)` is the group of nodes
it reads next, joined with `join!` if there are several, and `Result(q, seen)`
its value.  The calls of a group are sent in order and answered in any.

A remark on `runtime/mod.rs:133` ("recursively asks upstream nodes to update and
awaits until they finish"): the code stops at the first Invalid reply.  That is
not only faster.  Edges of an old frame and calls of a new one can form a cycle
of nodes, and a node that waited for all replies would wait for itself; the
mutant `TakeVerdictJoin` is that deadlock.

`QueryMeaning` says what a query means: `Eval`, `ReadsOf` and `Path` are any
operators that satisfy the equations of evaluating a query from nothing
(`MeaningAssumption`), so that the properties can be stated, and proved, without
recursion; `MCQueryNodes` defines them recursively for the programs TLC checks,
and TLC evaluates the assumption for them.

### NodeLife

Adds to `QueryNodes` what ends a node.  `Panic` is a tenant that panics
(`Panics(q, seen)`); `Refused` a tenant whose call meets a dead node, at `send`
or when its callback is dropped, and which panics at the `unwrap` for it;
`CheckDead` the same for a validation, where an error counts as Invalid.
`Upgrade` and `FailToUpgrade` are `self.rt.upgrade()` after an Invalid verdict,
`Ends` the end of the loop when both channels are closed.  `holding` are the
evaluations that have an `Arc<Runtime>`, `owner` the user's; the runtime lives
as long as one of these or a context does.  The manager keeps the handle of a
dead node, so nothing spawns it again.  `LifeAsk`, `LostAnswer` and `Recover`
are what a caller sees of a dead node; `Abandon` is a caller whose future is
dropped while it waits, which leaves a request nobody waits for (`MaxGone`).

`LifeMeaning` states the properties.  To say that a query would panic, evaluation
from nothing must come to something when it does: `Panicked` is that value, and
`PanicAssumption` says that the reference agrees with `Panics` about it: a tenant that
panics is done with `Panicked`, and one whose callee panics does so too.

### Shutdown

Adds to `InputStore` what keeps its tasks alive.  An input has an
`Arc<Runtime>` from its spawn until it has its index (`registering`,
`IndexArrives`), a query node while it evaluates (`evaluating`), and validation
handles of the inputs it read (`readers`, `ForgetInput`).  `EndClock`,
`EndIndexer` and `EndInput` are `recv` returning `None`: every sender is gone
and the channel is empty.  `DropOwner` is the user's last `Arc`; Rust does not let
it go while a call that borrows it is awaited.

### NestedCalls

Adds to `Clock` in whose closure a call is made (`within`).  A closure that
made a call returns only after it (`Return`).  `SelfWait(c)` says that `c` waits
for a token that is given out only after its own outer closure has ended; such a
wait lasts until `c`'s own future is dropped (`SelfWaitLasts`).

### DepInfo

`ValueDepInfo` and `InputSelection` as bit vectors with their lengths: `AddInput`
and `AddQuery` are the `|=` in `UpstreamEdges` and `UpstreamDeps::status`,
`Restart` a new context or validation round.  `behind` and `latest` are history:
what was put in.  `QueryNodes` takes a selection for a set and the emptiness test
for that of a set; this module shows that it may.  The comparison of snapshots of
different lengths in `InputDeps::status` is in `QueryNodes` (`InstantIn`,
`InputsUnchanged`), where what it must give is a matter of values and frames.

### Registry and NodeManager

`Registry` is a map from keys to nodes with one step that finds or spawns.
`NodeManager` has `Runtime::managers` (the lock `Outer`) and one lock per
manager, with tokio's FIFO queues: `Begin` queues for a read, `ReadHit` and
`ReadMiss` are the lookup under the read guard, `Write` everything from the
write guard over the second lookup and the insertion to the downgrade, because
no await is in between; a lookup that has its manager goes on to that manager's
lock with the guard on `Outer` in hand.  `Send` ends the block with both guards,
`Cancel` is a future dropped while it waits.

### QueryMacro

`CheckItem` are the sanity checks on the item, `FromInputs` is
`Parameters::from_inputs` with the order of its early returns, `Call` what the
generated function does: it builds the key, finds or spawns the node, and the
node runs the tenant of the call that spawned it, which has captured that
call's `self` and takes the other arguments from the key by their places.

### Tournament, Symbolic, FormulaParser

`Tournament` has the inputs and the three queries, over every order in which the
`HashSet` and the `HashMap` may give out their entries.  `Symbolic` has the
queries as functions of the tree they are asked for; `AskDerivative` is not
enabled where `pow - 1` would underflow.  `FormulaParser` has the `nom` parsers
one by one, each taking the first alternative that fits.

## 3. Runs

| Run | Instance | What it shows |
|---|---|---|
| `clock` | 3 calls, 2 inputs, frames 0..2, 1 clone per token, pool of 1 growing by 1; 65k states | phase exclusion, permit balance, fresh tokens, nothing moves under a token, indices are places; **Clock implements PhaseLock** (safety) |
| `nested` | 3 calls, each in the closure of another or not; 19k states | **Clock implements PhaseLock with its fairness**; a call, nested or not, is served unless one waits for itself; nobody else frees one that does |
| `inputs` | 2 calls, 2 inputs of 2 values, 2 local instants, frames 0..2; about 1M states | reads see the last write, snapshots are complete, verdicts are exact, equal instants mean no change |
| `shutdown` | 2 calls, 1 input, 2 clones, frames 0..1; 28k states | every call is served with real input nodes that register while the clock waits for them; whoever waits finds the task alive; clock, indexer and inputs end |
| `query_values` | diamond program, frames 0..3, 2 local instants; 935k states | answers, ranges, selections and kept values agree with evaluation from nothing |
| `node_switch` | two queries that call each other in turn, two callers, abandoned calls, the runtime dropped at any time, frames 0..2; 92k states | values stay right among leftover requests; every update ends, the phase can end once contexts are gone; the drop fails nobody and all nodes end |
| `node_deaths` | a query that panics, joined with one that does not, two callers, frames 0..2; 154k states | who dies and who does not; no wait in vain; values and ranges survive panics; every call ends |
| `dep_info` | 3 holders, 3 inputs, 2 frames | unions and emptiness of bit vectors are exact |
| `managers` | 3 lookups, 2 managers, dropped at any wait; 10k states | **NodeManager implements Registry**; every lookup ends |
| `sequential` | `#[query]` on functions of up to 4 parameters, the tournament with 3 teams, trees of depth 2, texts of 7 tokens; 265k states | each agrees with its reference definition |
| `query_needless` | diamond | *violation*, finding 1 |
| `node_outcome` | the program of `node_deaths`, one caller | *violation*, finding 2 |

### Properties, in words

* `PermitBalance`: permits in the semaphore + live tokens = `total_count`.
* `PhaseExclusion`, `TokensFresh`: a token, or a request still queued under it,
  is of the current phase, frame and snapshot; a mutation token is alone.
* `StillUnderToken`: phase, frame and snapshot do not change while one is alive.
* `IndexIsPlace`: handles reach the clock in index order, each once, through
  indexer queue, response and clock.
* `OneRequest`, `QuietChange`, `NoHandleLost`, `NoOneForgotten`, `RealChange`: the
  rest of the inductive invariants of the proofs (section 5), which no run
  repeats: an invocation has one request on its way and none is forgotten, the
  clock awaits the indexer or the inputs only without tokens and only on the way
  to the other phase.
* `LockSpec`, `LockFairSpec`: the refinement of `PhaseLock`.
* `EveryCallServed`: no starvation, no permit lost with a cancelled call.
* `ReadsLastWrite`, `SnapshotComplete`: the set requests of a mutation phase are
  all applied before the first reader, whoever sent them.
* `VerdictIsExact`, `SnapshotTellsChange`: the two ways a query node learns
  whether an input changed tell the truth.
* `AnswersAreFresh`, `RangeIsTrue`, `SelectionIsExact`, `KeptOnlyIfUnchanged`:
  the incremental computation is transparent.
* `EveryUpdateEnds`, `OnlyContextsKeepPhase`: no cycle of waiting nodes.
* `DeathHasReason`, `EveryWaitHasRequest`, `EveryCallEnds`,
  `ValuesSurvivePanics`: a panic reaches those who call
  and nobody else, each of them is told, and no cache is spoilt.
* `DropFailsNobody`, `AllNodesEnd`, `NobodyWaitsForTheDead`, `AllTasksEnd`: the
  runtime can be dropped at any moment; all tasks end, none too early.
* `ServedUnlessSelfWait`, `SelfWaitLasts`: which nested calls hang, that they alone
  are to blame if another one waits for ever, and that no step of anybody else
  gets one of them out.
* `NothingLost`, `ConstantsOnly`: a selection is the set of inputs behind a
  value, whatever the lengths of the vectors.
* `RegistrySpec`, `EveryLookupEnds`: finding or spawning a node is one atomic
  step, and two levels of locks do not deadlock.
* `AcceptsSupported`, `NodesStandForArguments`: `#[query]`.
* `WinnerIsRight`: the tournament, over every order of its hash tables, with the
  sum of all points and the asserts of `main` (`OrderDoesNotShow`,
  `PointsAddUp`, `MainAsserts`).
* `AnswersAreSlopes`: formulas against polynomials (`ConstIsConstant`,
  `SimplifyKeepsValue`, `DerivativeIsSlope`, `ValuesAreSlopes`).
* `ParserIsUsual`: the parser against the grammar (`ParsesAsUsual`); what it
  refuses wrongly has parentheses around all of it, or doubled ones within
  (`RefusesOnlyParentheses`).

### Bounds, and why they are enough

* Three calls: one that holds, one that waits, one that comes after (overtaking,
  joining); more calls repeat one of these roles.  With inputs, two.
* `FirstPermits = MorePermits = 1` (10 and 10 in the code): the pool is empty at
  every second token, so growth happens with tokens out; the code's numbers
  would need eleven concurrent calls.  The proofs hold for any numbers.
* `MaxFrame`: frame 0 is special (no mutation came before), 1 and 2 are a frame
  with and without a predecessor of its own kind; in `query_values` four frames
  give a cache that skips frames and asks about a frame its callee never saw.
* `Instants = 2` (256 in the code) makes local instants wrap around at distance
  2 within three or four frames.
* `MaxClones`, `MaxWrites`, `MaxGone` bound requests under one token, inputs set
  per frame and abandoned calls at once.
* `node_deaths` has two callers, so that a node can die with the requests of two
  others in its mailbox, and a join, so that one can die while it is owed a reply.
* `shutdown` has one value and one input: what is set does not matter to who
  ends when, and what an input waits for is the clock or the indexer, never
  another input.
* `managers`: three lookups are one that inserts, one that comes second, and one
  that waits behind a writer; two managers give the outer map two keys.
* `dep_info`: vectors of all lengths from 0 to 3; the proofs are for any.
* `sequential`: `MaxParams = 4` has a receiver, two arguments and a context, or
  one too many of each; two calls are enough to share or not share a node.
  Trees of depth two put every operation under every other; seven tokens put
  a sum in parentheses beside a product and a power; `MaxSlips` and `MaxOpen`
  keep texts close to formulas.
* The programs: the diamond joins two calls and has a shared callee, a branch on
  a callee's value, an early cutoff (`half` maps two inputs to one value) and inputs first read
  late, so that old snapshots are shorter than the selection.

Deadlock is checked where the system never stops (`clock`, `inputs`,
`query_values`, `dep_info`, `managers`).  It is off where it does: a call that
waits for itself (`nested`), a runtime that is gone (`shutdown`, `node_switch`, `node_deaths`,
`node_outcome`), an expansion that is rejected or a bound on inputs
(`sequential`).  Liveness properties say what must happen there.

## 4. Fairness

* Weak fairness of the clock, the indexer, each input node and each query node:
  a woken tokio task is polled eventually (`NestedFairSpec`, `ShutFairSpec`,
  `LifeFairSpec`); of each lookup that is granted its lock (`ManagerFairSpec`).
* Weak fairness of `Finish` and `Return`: a closure given to `query` or `mutate`
  ends, unless it waits for a call it made.  Without it the documentation itself
  says that others wait ("`QueryContext` and `InputContext` in fact are RAII
  guards").
* In `ShutFairSpec`, strong fairness of the end of an evaluation and of the last
  drop of a token whose context is gone (`EndEvaluation`, `EndLast`): tenants are
  finite code.  Weak fairness would not do, because the model lets a node under
  a clone send another request, which disables the drop for a while.
* `LifeFairSpec` has weak fairness of a caller's leaving after its answer or its
  panic.  Callers are never forced to ask, and nothing forces or forbids
  cancellation or the drop of the runtime.

## 5. Proofs

`ClockProofs` is checked by TLAPS for every set of calls and inputs, every
number of local instants, permits, frames and clones (`ClockAssumption`: calls
are finitely many, pool sizes are positive).

* `TypeCorrect`: `TypeOK` is inductive by itself.  Its content beyond types is
  `available \in Nat`: after growth there is a permit, so the `unwrap` of
  `try_acquire_owned` in `ClockGuard::acquire` cannot fail.
* `SafetyHolds`: `Safety` is the inductive invariant, with `PermitsBalance`,
  `PhasesExclude` and `TokensStayFresh` as its consequences.  None of the three
  is inductive alone.  That a new phase begins with no token out follows from
  `AllReleased` only through the balance (`ReleasedMeansQuiet`: no permit
  missing means that the set of live tokens is empty), and it must be carried
  across the awaits of the indexer and of the inputs: `QuietChange`.  That a
  grant adds one token and not a second one of the same call needs `OneRequest`:
  a call that awaits holds nothing and has a single instruction on its way.
  `GrantLive` and `ReleaseLive` do the counting of live tokens, `GrantSafety`
  the argument common to the four places where a token is given out.
* `NothingMovesUnderToken`: the action property, from the same invariant.
* `IndicesArePlaces`: `IndexIsPlace` is inductive together with `NoHandleLost`:
  a response of the indexer is read before the next one is asked for, so the
  concatenation of the clock's handles, the response and the indexer's queue
  only ever grows at its end.

Its second part proves the safety part of what the clock is for:

* `ClockIsLock`: `Spec => LockSpec`.  The lock's queue is `Pending` (the
  instruction in the clock's hands, then the channel), its holders are the live
  tokens' calls (`Held`), its abandoned requests the cancelled calls
  (`Abandoned`).  Every action is one step of the lock or none: asking appends
  (`AskRequests`), cancelling abandons, the last drop of a token releases, and
  each of the four places that answer a caller serves the head of the queue.
* `NobodyIsForgotten`: the two facts this needs beyond `Safety`.
  `NoOneForgotten` places an abandoned call in the queue, so that dropping its
  future is a step of the lock and not a loss; `RealChange` says that the clock
  that comes back from the indexer or from the inputs does change the phase, so
  that the mode and frame the lock computes are the ones the clock sets.

`NestedProofs`:

* `NestedIsClock`: `NestedSpec => Spec`; calls made within calls are calls like
  any others to the clock, so all of the above holds of them.
* `SelfWaitersStay`: `SelfWaitLasts`.  With `InsideRunning` (the closure around
  a call is over only after the call) there is a live token, the outer call's, as
  long as the inner one waits.  `ReleasedMeansQuiet` and `QuietChange` then keep the
  clock before `release_all` (`NoRelease`), joins overtake nothing, so the instruction
  keeps its place behind a mutation.  That nobody else hangs is liveness and
  is checked by `nested`.

`NodeManagerProofs` is about any sets of lookups, managers and parameters
(`ManagerAssumption`: the outer lock is not that of a manager).

* `HandlesCorrect`: a handle in the hands of a lookup is the one registered for
  its key.  It is inductive together with the types and with `AtItsLock`: a
  lookup that has passed the outer lock waits at the lock of its own manager.
* `ManagersAreRegistry`: `ManagerSpec => RegistrySpec`.  Only `Write` at a
  manager's lock, when the second look misses, is a step of the registry that
  spawns; a hit serves, and everything at the outer lock is a stutter.
That an insertion waits for the guards is tokio's lock, taken as given; what the
double check adds to it is in the two theorems.

`DepInfoProofs` is about any bounds on indices and frames and any holders:
`SelectionsEndInOne`, `UnionIsExact` and `EmptyMeansConstant` follow from `DepInv`, in which `EndsInOne` and `NothingLost`
carry each other: the union is taken into the longer vector, so its last bit
stays 1, and that bit is what makes the test by length one by content.

`StoreProofs` is about any calls, inputs, values, numbers of local instants,
frames and requests:

* `StoreIsClock`: `StoreSpec => Spec`.  What a node does to the clock's channels
  is what `Clock` lets any input do: it gives back clones it was given, and its
  answers are instants.  All theorems about `Spec` hold of `StoreSpec`.
* `ReadersSeeLastWrite`, `SnapshotsAreComplete` follow from `StoreInv`, whose
  conjuncts carry each other.  `ClonesAreRequests`: every clone of a token is
  counted by exactly one request in a mailbox, so that no token out means empty
  mailboxes.  `MailInPhase`:
  requests are of the current phase.  `RegisteredOnce`: an input is on its way
  through the indexer once, while the request that spawned it waits at the node
  and keeps the phase open.  `QueueTaken`: the indexer's response empties its
  queue and nothing follows it until the phase has changed.  With these,
  `AnswersCorrect` (an input that has answered has taken in its change) makes
  every change be taken in before the query phase, and `CacheCorrect` says of
  each node that what it holds, its queued change and its waiting set requests
  come to the last write.

The past (`HistoryInv`):

* `VerdictsAreExact` rests on `SinceExact`: `valid_since` is the first frame of
  the longest run of frames with this value, in frames the node has heard of.
* `SnapshotsTellChange` rests on `InstantExact` and `TurnsExact`: the local
  instant moved on by one exactly if the value changed, so in fewer frames than
  a turn it moved by fewer steps than a turn, and by none only if the value stayed.
* `FramesBounded` and `LogComplete` say that the log has the frames that began.

The shutdown:

* `ShutdownIsClock`: `ShutSpec => Spec`, by the steps `StoreNext` and
  `Evaluation` (an evaluation clones a token without a request to an input, which
  is why `StoreInv` is not true of `Shutdown` and only its types are carried over).
* `WaitsAreForTheLiving`: `NobodyWaitsForTheDead`, from `ShutInv`.
  `EndedUnreachable` has the work: an input that has ended is in no list of
  handles and in no channel a living task still reads, so none is asked again;
  `EndsInOrder` puts the clock before the indexer; `WaitersHoldOwner` says why a
  waiting caller keeps both alive.  `DOMAIN answers = DOMAIN handles` is proved
  of `Clock` and carried over by `ShutdownIsClock`.

`QueryProofs` is about every program of queries for which `MeaningAssumption`
holds, any callers, inputs, values, frames and any size of the local instant:

* `AnswersFresh`, `RangesTrue`, `SelectionsExact` and `KeptIfUnchanged` are the
  transparency of the incremental computation.  They follow from `QueryInv`.
* There is no induction over evaluations in it.  What a node has gathered says
  something of *every* world that agrees with it: in each assignment of the
  inputs under which the edges so far have the values they have now, an
  evaluation from nothing would have come to this point (`LeadTo`), a finished
  one to this value (`Decide`), and the inputs behind a node decide its value
  and which inputs are behind it (`Pinned`).  So a reply, a verdict or the
  shortcut only has to establish that the new world agrees.
* `CacheTrue` is the cache: a true range, edges that decide, an exact selection,
  and for every input `MovedOn`, which relates its local instant to the
  cached snapshot's; `NoTurn` makes equal instants mean no move (and is where
  `frame - until < Instants` is needed).  `CheckingTrue` and `EvaluatingTrue`
  are what is gathered in steps 2 and 3; that `CheckingTrue` says nothing of edges not yet
  verified is why the first Invalid may cut the others off.
* `Owed` and `Once` are the requests: what waits at a node or is served there is
  awaited by its requester, for this callee, once; what `Forget` cut off is owed to
  nobody (`Gone`).  Without it a leftover reply could be taken for another's.
* `NodesMoveOn` carries this through the steps of a frame, `CacheAges` and
  `StepNextFrame` into the next one.
* `KeptIfUnchanged` adds which steps touch a cache (`KeepCaches`).

`LifeProofs` is about the same programs with `PanicAssumption`, panics of any
tenants, abandoned calls and the drop of the runtime at any moment:

* `AnswersStayFresh` and `ValuesSurvive`: `QueryInv` is kept not only by the steps
  of `QueryNodes` but by what cuts across them: a node that ends and takes its
  mailboxes along (`DeadTrue`), a caller that goes away (`AbandonTrue`), a validation
  that meets a dead node (`FailedTrue`).  `NodeSound` adds that a cached value is never
  `Panicked`: whoever read one has panicked itself.
* `EveryWaitIsOwed`: `Owed` read the other way round.  `MetBut` says of every reply
  awaited, but those just being dealt with, that the request is at its node or
  the node is dead; `LifeTrue` is that with nothing left out.  A step takes a
  request from a mailbox and answers it in one go, so in between one wait is left
  out and then discharged (`Discharged`).
* `DeathsHaveReasons`: who ends either panics by the reference, or called a node
  that had ended.  The property says that no set without the node has all reasons
  (`DeathCaused`); the proof shows it for the two ways to end (`PanicCauses`,
  `RefusalCauses`) and carries it into later frames (`CauseAges`).
* `DropIsHarmless`: `DropInv` under `NothingPanics`.  The first node that ends finds
  the runtime gone, so no context is left and nobody evaluates, and nobody brings
  the runtime back: nodes that are there cannot upgrade their `Weak`, and those
  that were never started stay absent (`AbsentOnes`).  Without `NothingPanics` the property is false, and
  finding 2 is why.

`MacroProofs` is about any headers, any number of parameters in any of the forms
`syn` gives, any values and calls (`MacroAssumption`); `MacroInv` has both:

* `AcceptsExactly`: an expansion goes through exactly if the function is
  supported.  The work is in `ErrorIs`: stopping at the first error, and looking
  for a context only if there was none, comes to the conjunction of all conditions.
* `ArgumentsAreNodes`: nodes are in bijection with the lists of arguments there
  were calls with (`NodesOK`, `NodesOfCalls`), and whichever call's tenant a node runs,
  the body sees the arguments of the call (`KeyIsArgs`, `BodySees`): `self`, captured
  from the first call, is in the key as well.

Proving found two definitions that left a value open: the cases of `InputStatus`
in `InputStore` and of `Complete` in `QueryNodes` overlapped, and TLC takes the
first that holds while a CASE means any.  Both are exclusive now, in the order
of the code's branches.

Only model-checked: everything about liveness (fairness and ENABLED are out of
the prover's reach), `LockFairSpec` and `ServedUnlessSelfWait` among it, and the
examples: `WinnerIsRight`, `AnswersAreSlopes` and `ParserIsUsual` compare functions of
trees, tables and texts with recursive references, and what a recursive
definition computes for every input could not be proved.

## 6. Findings

1. `query_needless`: `node/query.rs:3-4` says that queries recalculate only when
   something they depend on changes.  A caller that extended its range without
   its callee noticing asks about a frame outside the callee's range, gets
   Invalid, and recalculates although nothing it read changed.
2. `node_outcome`: `lib.rs:450-451` says that the same inputs produce the same
   outcome.  Step 2 asks old dependencies the tenant would not call under the
   new inputs; one of them may panic there, and as its handle stays registered
   the query fails from then on, under inputs for which it had a value.

Two remarks without a run.  The cause of finding 2 also keeps the query phase
open without any context (against `runtime/mod.rs:87-88`) if the dependency
recurses without end under the new inputs.  And `runtime/mod.rs:83-84` says that
calls to `mutate` can be executed concurrently within their phase, while
`force_mutation` waits for the running one (`clock.rs:328`), as "Mutation
sequencing" in the same text says; `PhaseLock` has the latter.

## 7. Not modelled, and why

* *Panics in input nodes* (`initial`, `eq` or `clone` of a value): they end the
  input's task for good, and every later call of that input fails, as those of a
  query node do.  The clock goes on: `create_snapshot` takes a dead input for one
  at its initial instant (`clock.rs:275-281`, `Answer`).  What becomes of the
  values that were computed from such an input is not modelled.
* *u64 overflow* of the frame counter and the panics of `time.rs` beyond it; i64
  and u32 overflow in the symbolic example, except for `pow - 1`.
* *Types in generated code* (a typed `self` in a later place among them, which the
  macro lets through), `#[derive(InputAccess)]`, error messages: rustc checks the first, the second has no choice of its own, the third is wording.
* `Display` of the example, tracing, macro support: no state.
* *The composition of query nodes with the clock*: `NextFrame` of `QueryNodes` is
  atomic by what `Clock` and `InputStore` show; the product is out of TLC's reach.

## 8. Plan

Done in this order: `PhaseLock`, `Clock`, `InputStore`, `QueryNodes`,
`ClockProofs`; then `NodeLife` with joined reads, `Registry`, `NodeManager` and its
proofs, `DepInfo` and its proofs, `Shutdown`, `NestedCalls`, `QueryMacro`,
`Tournament`, `Symbolic`, `FormulaParser`; then `StoreProofs`, `QueryMeaning`,
`QueryProofs`; then `LifeMeaning`, `LifeProofs`, `MacroProofs`, `NestedProofs`.  Every
safety property of the runtime and of the macro that a run checks is now also a
theorem.  What is open:

1. The composition of `QueryNodes` with `InputStore` as a refinement: that what
   `QueryNodes` takes for one step of the world is what clock and inputs do.
2. Leads-to proofs of `EveryUpdateEnds` and `EveryLookupEnds`, with a prover that
   has ENABLED.

## 9. Running

    tlc -workers 2 -config MCClock.cfg MCClock.tla
    tlapm ClockProofs.tla
    tlapm NestedProofs.tla
    tlapm StoreProofs.tla
    tlapm QueryProofs.tla
    tlapm LifeProofs.tla
    tlapm NodeManagerProofs.tla
    tlapm DepInfoProofs.tla
    tlapm MacroProofs.tla

The largest configurations (`MCInputStore.cfg`, `MCLifeDeaths.cfg`) take about three
minutes, the others less than two; the proofs of all modules take about twenty
minutes, most of it `StoreProofs`, `QueryProofs` and `LifeProofs`.  Mutants
(operators marked "Mutant" beside the definition they change, listed in
`PROJECT.json`) show for every property a plausible bug that breaks it.
