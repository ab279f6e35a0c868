------------------------------- MODULE Shutdown -------------------------------
(* The drop of the last Arc<Runtime> and the end of the clock, the indexer   *)
(* and the input nodes (NodeLife has the end of query nodes).  A task ends   *)
(* when all its channels are closed and empty, so each end waits for those   *)
(* who hold a sender:                                                        *)
(*   the clock     instructions: the runtime                                 *)
(*   the indexer   registrations: the runtime; acquire requests: the clock   *)
(*   an input      set, value, validation: the managers of the runtime;      *)
(*                 validation: also query nodes that have read it;           *)
(*                 its instant: the indexer's queue, the clock's handles.    *)
(* Who holds an Arc<Runtime>: the user, contexts, query nodes while they     *)
(* evaluate, and an input from its spawn until it has its index.             *)
EXTENDS InputStore

VARIABLES
    owner,          \* the user has an Arc outside of any closure
    evaluating,     \* calls under whose token a query node evaluates
    registering,    \* inputs that still have the Arc they were spawned with
    readers,        \* inputs to which a query node keeps a validation handle
    clockEnded, indexerEnded,
    ended           \* inputs whose task ended

lifeVars == <<owner, evaluating, registering, readers, clockEnded, indexerEnded, ended>>
shutVars == <<storeVars, lifeVars>>

(* Runtime::create spawns the indexer and the clock.                         *)
ShutInit ==
    /\ StoreInit
    /\ owner = TRUE
    /\ evaluating = {}
    /\ registering = {}
    /\ readers = {}
    /\ clockEnded = FALSE
    /\ indexerEnded = FALSE
    /\ ended = {}

RuntimeAlive ==
    owner \/ evaluating # {} \/ registering # {} \/ \E c \in Calls : call[c] = "running"

-----------------------------------------------------------------------------
(* The steps of InputStore among tasks that live.                            *)

(* Runtime::query and mutate borrow the Arc of the user.                     *)
AskRuntime(c) ==
    /\ \/ owner /\ \E kind \in Kinds : Ask(c, kind)
       \/ Cancel(c) \/ Finish(c)
    /\ UNCHANGED <<nodeVars, history, lifeVars>>

(* A call that waits borrows the user's Arc.                                 *)
DropOwner ==
    /\ owner
    /\ \A c \in Calls : call[c] # "waiting"
    /\ owner' = FALSE
    /\ UNCHANGED <<storeVars, evaluating, registering, readers,
                   clockEnded, indexerEnded, ended>>

(* spawn_node hands an Arc to the task of a new input.                       *)
Spawned == registering' = registering \cup (spawned' \ spawned)

SetInput(c, i, v) ==
    /\ Set(c, i, v)
    /\ Spawned
    /\ UNCHANGED <<owner, evaluating, readers, clockEnded, indexerEnded, ended>>

(* By the closure, or by a query node that then keeps a validation handle.   *)
GetInput(c, i) ==
    /\ Get(c, i)
    /\ \/ call[c] = "running" /\ UNCHANGED readers
       \/ c \in evaluating /\ readers' = readers \cup {i}
    /\ Spawned
    /\ UNCHANGED <<owner, evaluating, clockEnded, indexerEnded, ended>>

(* A query node that validates has a token, but no Arc.                      *)
CheckInput(c, i, past) ==
    /\ i \in readers
    /\ Check(c, i, past)
    /\ UNCHANGED lifeVars

(* A query node spawned with an Arc, or one whose upgrade succeeds.          *)
StartEvaluation(c) ==
    /\ token[c].kind = "Query"
    /\ c \notin evaluating
    /\ RuntimeAlive
    /\ Clone(c)
    /\ evaluating' = evaluating \cup {c}
    /\ UNCHANGED <<nodeVars, history, owner, registering, readers,
                   clockEnded, indexerEnded, ended>>

EndEvaluation(c) ==
    /\ c \in evaluating
    /\ DropClone(c)
    /\ evaluating' = evaluating \ {c}
    /\ UNCHANGED <<nodeVars, history, owner, registering, readers,
                   clockEnded, indexerEnded, ended>>

(* A query node no longer depends on i, or has ended.                        *)
ForgetInput(i) ==
    /\ i \in readers
    /\ readers' = readers \ {i}
    /\ UNCHANGED <<storeVars, owner, evaluating, registering,
                   clockEnded, indexerEnded, ended>>

(* Mutant: the Arc lives as long as the node.                                *)
IndexArrivesKeepArc(i) ==
    /\ i \in registering /\ Serving(i)
    /\ UNCHANGED shutVars

(* The block around register_input ends, and `rt` was moved into it.         *)
IndexArrives(i) ==
    /\ i \in registering /\ Serving(i)
    /\ registering' = registering \ {i}
    /\ UNCHANGED <<storeVars, owner, evaluating, readers, clockEnded, indexerEnded, ended>>

InputStep(i) ==
    /\ i \notin ended
    /\ \/ RegisterNode(i)
       \/ i \notin registering /\ (ServeSet(i) \/ ServeCheck(i) \/ ServeGet(i) \/ ServeClock(i))
    /\ UNCHANGED lifeVars

ClockStep   == ~clockEnded /\ StoreClockTask /\ UNCHANGED lifeVars
IndexerStep == ~indexerEnded /\ StoreIndexerTask /\ UNCHANGED lifeVars

-----------------------------------------------------------------------------
(* The ends.                                                                 *)

(* recv returns None once the senders are gone and the channel is empty.     *)
EndClock ==
    /\ ~clockEnded
    /\ clockAt = "recv" /\ instructions = <<>>
    /\ ~RuntimeAlive
    /\ clockEnded' = TRUE
    /\ UNCHANGED <<storeVars, owner, evaluating, registering, readers, indexerEnded, ended>>

(* The `else` of select!: both channels returned None.                       *)
EndIndexer ==
    /\ ~indexerEnded
    /\ ~RuntimeAlive /\ registrations = <<>>
    /\ clockEnded /\ ~acquireAsked
    /\ indexerEnded' = TRUE
    /\ UNCHANGED <<storeVars, owner, evaluating, registering, readers, clockEnded, ended>>

(* Somebody has the sender over which the instant of i is asked for.         *)
InstantWanted(i) ==
    LET Has(s) == \E n \in DOMAIN s : s[n] = i
    IN  \/ ~clockEnded /\ (Has(handles) \/ Has(acquired))
        \/ ~indexerEnded /\ (Has(registrations) \/ Has(queue))

(* Mutant: the end does not wait for validation handles.                     *)
EndInputRead(i) ==
    /\ i \in spawned \ ended
    /\ Serving(i) /\ i \notin registering
    /\ setMail[i] = <<>> /\ getMail[i] = <<>>
    /\ ~RuntimeAlive /\ ~InstantWanted(i)
    /\ ended' = ended \cup {i}
    /\ UNCHANGED <<storeVars, owner, evaluating, registering, readers, clockEnded, indexerEnded>>

EndInput(i) ==
    /\ i \in spawned \ ended
    /\ Serving(i) /\ i \notin registering
    /\ setMail[i] = <<>> /\ getMail[i] = <<>> /\ checkMail[i] = <<>>
    /\ ~RuntimeAlive /\ i \notin readers /\ ~InstantWanted(i)
    /\ ended' = ended \cup {i}
    /\ UNCHANGED <<storeVars, owner, evaluating, registering, readers, clockEnded, indexerEnded>>

-----------------------------------------------------------------------------
ShutNext ==
    \/ \E c \in Calls : AskRuntime(c) \/ StartEvaluation(c) \/ EndEvaluation(c)
    \/ \E c \in Calls, i \in Inputs :
          \/ \E v \in Values : SetInput(c, i, v)
          \/ GetInput(c, i)
          \/ \E past \in Frames : CheckInput(c, i, past)
    \/ \E i \in Inputs : ForgetInput(i) \/ IndexArrives(i) \/ InputStep(i) \/ EndInput(i)
    \/ ClockStep \/ IndexerStep
    \/ DropOwner \/ EndClock \/ EndIndexer

ShutSpec == ShutInit /\ [][ShutNext]_shutVars

(* A tenant's code is finite: under a token whose context is gone evaluations*)
(* and requests do not follow each other for ever.                           *)
EndLast(c) ==
    /\ call[c] # "running" /\ clones[c] = 1
    /\ EndEvaluation(c) \/ \E i \in Inputs : InputStep(i)
    /\ clones'[c] = 0

(* A task that can run runs, and a closure handed to query / mutate returns. *)
(* Query nodes let go of their inputs once the runtime is gone, for they end *)
(* (AllNodesEnd of NodeLife).                                                *)
ShutFairness ==
    /\ WF_shutVars(ClockStep \/ EndClock)
    /\ WF_shutVars(IndexerStep \/ EndIndexer)
    /\ \A i \in Inputs :
          /\ WF_shutVars(IndexArrives(i) \/ InputStep(i) \/ EndInput(i))
          /\ WF_shutVars(~RuntimeAlive /\ ForgetInput(i))
    /\ \A c \in Calls :
          /\ WF_shutVars(Finish(c) /\ AskRuntime(c))
          /\ SF_shutVars(EndEvaluation(c) /\ call[c] # "running")
          /\ SF_shutVars(EndLast(c))

ShutFairSpec == ShutSpec /\ ShutFairness

-----------------------------------------------------------------------------
(* Whoever waits for a task finds it alive, so that none of the `expect`s of *)
(* runtime/mod.rs and clock.rs fails and no executor of an input returns an  *)
(* error: callers wait for the clock, the clock in a change of phase for the *)
(* indexer and for every input it asks, new inputs for the indexer, requests *)
(* for the input they were sent to.                                          *)
NobodyWaitsForTheDead ==
    /\ \A c \in Calls : call[c] = "waiting" => ~clockEnded
    /\ clockAt = "handles" \/ registering # {} => ~indexerEnded
    /\ clockAt = "snapshot" =>
          \A n \in DOMAIN answers : answers[n] = NoAnswer => handles[n] \notin ended
    /\ \A i \in ended : setMail[i] = <<>> /\ getMail[i] = <<>> /\ checkMail[i] = <<>>

AllEnded == clockEnded /\ indexerEnded /\ ended = spawned

(* runtime/mod.rs:235: "When runtime is dropped it will cause all associated *)
(* tasks to terminate": whatever calls and evaluations are under way when    *)
(* the user lets go, each task ends.                                         *)
AllTasksEnd == (~owner) ~> AllEnded
=============================================================================
