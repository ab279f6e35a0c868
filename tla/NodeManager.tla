------------------------------ MODULE NodeManager ------------------------------
(* Finding or spawning a node: Runtime::manager_or_insert_with and           *)
(* HashManager::get_or_insert_with_key, one inside the other.                *)
(*                                                                           *)
(* Both look a key up under the read lock of a tokio RwLock, and if it is    *)
(* missing drop the guard, take the write lock, look again, insert, and      *)
(* downgrade to a read guard.  The read guard of the map of managers is held *)
(* while the lock of one manager is awaited, and both are held until the     *)
(* request is sent.  Between taking the write lock and downgrading there is  *)
(* no await, so nobody ever holds it between two steps.                      *)
(*                                                                           *)
(* A tokio RwLock is fair: who asks while somebody waits, waits behind.      *)
EXTENDS Naturals, Sequences

CONSTANTS
    Lookups,    \* executors that look for their node at the same time
    Managers,   \* types of queries and inputs
    Params,     \* parameters, or inputs of that type
    Outer       \* the lock of Runtime::managers

ASSUME ManagerAssumption == Outer \notin Managers

VARIABLES
    at,         \* what each lookup waits for
    lock,       \* the lock it waits at
    target,     \* manager and parameters it looks for
    got,        \* the node it found
    waiting,    \* queue of each lock
    guards,     \* lookups with a read guard of each lock
    present,    \* managers in the map of Runtime
    nodeOf,     \* node of each manager and parameters
    spawned     \* number of nodes spawned

managerVars == <<at, lock, target, got, waiting, guards, present, nodeOf, spawned>>

Keys  == Managers \X Params
Locks == Managers \cup {Outer}
NoKey == <<>>
None  == 0

ManagerInit ==
    /\ at = [l \in Lookups |-> "idle"]
    /\ lock = [l \in Lookups |-> Outer]
    /\ target = [l \in Lookups |-> NoKey]
    /\ got = [l \in Lookups |-> None]
    /\ waiting = [k \in Locks |-> <<>>]
    /\ guards = [k \in Locks |-> {}]
    /\ present = {}
    /\ nodeOf = [k \in Keys |-> None]
    /\ spawned = 0

-----------------------------------------------------------------------------
(* The lock is granted to the lookup at the head of its queue.               *)
First(l) == waiting[lock[l]] # <<>> /\ Head(waiting[lock[l]]) = l

(* The queues when l leaves the head of its own and goes to the end of k's.  *)
Requeued(l, k) ==
    LET left == [waiting EXCEPT ![lock[l]] = Tail(@)]
    IN  [left EXCEPT ![k] = Append(@, l)]

(* With a guard of the map of managers the lookup goes on to its manager,    *)
(* with a guard of the manager it has its handle.                            *)
Enter(l) ==
    /\ guards' = [guards EXCEPT ![lock[l]] = @ \cup {l}]
    /\ IF lock[l] = Outer
          THEN LET m == target[l][1]
               IN  /\ at' = [at EXCEPT ![l] = "read"]
                   /\ lock' = [lock EXCEPT ![l] = m]
                   /\ waiting' = Requeued(l, m)
                   /\ UNCHANGED got
          ELSE /\ at' = [at EXCEPT ![l] = "found"]
               /\ waiting' = [waiting EXCEPT ![lock[l]] = Tail(@)]
               /\ got' = [got EXCEPT ![l] = nodeOf'[target[l]]]
               /\ UNCHANGED lock

Missing(l) ==
    IF lock[l] = Outer THEN target[l][1] \notin present ELSE nodeOf[target[l]] = None

-----------------------------------------------------------------------------
Begin(l, k) ==
    /\ at[l] = "idle"
    /\ at' = [at EXCEPT ![l] = "read"]
    /\ target' = [target EXCEPT ![l] = k]
    /\ waiting' = [waiting EXCEPT ![Outer] = Append(@, l)]
    /\ UNCHANGED <<lock, got, guards, present, nodeOf, spawned>>

(* The first look succeeds.                                                  *)
ReadHit(l) ==
    /\ at[l] = "read" /\ First(l)
    /\ ~Missing(l)
    /\ UNCHANGED <<target, present, nodeOf, spawned>>
    /\ Enter(l)

(* Mutant: the guard lives on in the scrutinee of `if let` while the write   *)
(* lock is awaited.                                                          *)
ReadMissKeepsGuard(l) ==
    /\ at[l] = "read" /\ First(l)
    /\ Missing(l)
    /\ at' = [at EXCEPT ![l] = "write"]
    /\ waiting' = Requeued(l, lock[l])
    /\ guards' = [guards EXCEPT ![lock[l]] = @ \cup {l}]
    /\ UNCHANGED <<lock, target, got, present, nodeOf, spawned>>

(* It fails: try_map hands the guard back, which is dropped, and the write   *)
(* lock is asked for.                                                        *)
ReadMiss(l) ==
    /\ at[l] = "read" /\ First(l)
    /\ Missing(l)
    /\ at' = [at EXCEPT ![l] = "write"]
    /\ waiting' = Requeued(l, lock[l])
    /\ UNCHANGED <<lock, target, got, guards, present, nodeOf, spawned>>

(* Mutant: the second look is left out, insert replaces what is there.       *)
InsertAgain(l) ==
    IF lock[l] = Outer
       THEN /\ present' = present \cup {target[l][1]}
            /\ nodeOf' = [k \in Keys |-> IF k[1] = target[l][1] THEN None ELSE nodeOf[k]]
            /\ UNCHANGED spawned
       ELSE /\ spawned' = spawned + 1
            /\ nodeOf' = [nodeOf EXCEPT ![target[l]] = spawned + 1]
            /\ UNCHANGED present

(* entry().or_insert_with: the second look, under the write lock.            *)
Insert(l) ==
    IF lock[l] = Outer
       THEN /\ present' = present \cup {target[l][1]}
            /\ UNCHANGED <<nodeOf, spawned>>
       ELSE /\ UNCHANGED present
            /\ IF nodeOf[target[l]] = None
                  THEN /\ spawned' = spawned + 1
                       /\ nodeOf' = [nodeOf EXCEPT ![target[l]] = spawned + 1]
                  ELSE UNCHANGED <<nodeOf, spawned>>

(* The write lock is granted once no guard is left.                          *)
Write(l) ==
    /\ at[l] = "write" /\ First(l)
    /\ guards[lock[l]] = {}
    /\ Insert(l)
    /\ Enter(l)
    /\ UNCHANGED target

(* All that l held or waited for goes.                                       *)
Stop(l) ==
    /\ at' = [at EXCEPT ![l] = "idle"]
    /\ lock' = [lock EXCEPT ![l] = Outer]
    /\ target' = [target EXCEPT ![l] = NoKey]
    /\ got' = [got EXCEPT ![l] = None]
    /\ waiting' = [k \in Locks |-> SelectSeq(waiting[k], LAMBDA w : w # l)]
    /\ guards' = [k \in Locks |-> guards[k] \ {l}]
    /\ UNCHANGED <<present, nodeOf, spawned>>

(* The request is sent and the block with both guards ends.                  *)
Send(l) == at[l] = "found" /\ Stop(l)

(* The executor's future is dropped while it awaits a lock.                  *)
Cancel(l) == at[l] \in {"read", "write"} /\ Stop(l)

LookupStep(l) == ReadHit(l) \/ ReadMiss(l) \/ Write(l) \/ Send(l)

ManagerNext ==
    \E l \in Lookups : (\E k \in Keys : Begin(l, k)) \/ LookupStep(l) \/ Cancel(l)

ManagerSpec == ManagerInit /\ [][ManagerNext]_managerVars

(* A task that is granted its lock is polled.                                *)
ManagerFairSpec == ManagerSpec /\ \A l \in Lookups : WF_managerVars(LookupStep(l))

-----------------------------------------------------------------------------
TablesTyped ==
    /\ at \in [Lookups -> {"idle", "read", "write", "found"}]
    /\ lock \in [Lookups -> Locks]
    /\ target \in [Lookups -> Keys \cup {NoKey}]
    /\ got \in [Lookups -> Nat]
    /\ guards \in [Locks -> SUBSET Lookups]
    /\ present \subseteq Managers
    /\ nodeOf \in [Keys -> Nat]
    /\ spawned \in Nat

(* Who holds a handle looks for something, and the handle is the one         *)
(* registered for it: no insertion by another lookup has replaced it.        *)
HandlesStayValid ==
    \A l \in Lookups :
        /\ at[l] = "idle" <=> target[l] = NoKey
        /\ at[l] = "found" => got[l] = nodeOf[target[l]] /\ got[l] # None
        /\ at[l] # "found" => got[l] = None

(* The node managers are a registry that finds or spawns in one step.        *)
RegistryView == INSTANCE Registry

RegistrySpec == RegistryView!Spec

(* Every lookup comes to its node or is dropped: the guard held on the       *)
(* managers while a manager's lock is awaited, and the guards others hold    *)
(* while they send, never close a circle.                                    *)
EveryLookupEnds == \A l \in Lookups : at[l] # "idle" ~> at[l] = "idle"
=============================================================================
