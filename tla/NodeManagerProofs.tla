-------------------------- MODULE NodeManagerProofs --------------------------
(* Theorems about the node managers, for any number of lookups, managers and *)
(* parameters: they implement the registry, and what is looked at under a    *)
(* read guard does not change.                                               *)
EXTENDS NodeManager, TLAPS

(* What the refinement needs: types, what each handle is, and that a lookup  *)
(* waits at the lock of all managers or at that of its own.                  *)
AtItsLock ==
    \A l \in Lookups :
        lock[l] # Outer => at[l] # "idle" /\ lock[l] = target[l][1]

TableInv == TablesTyped /\ HandlesStayValid /\ AtItsLock

LEMMA InitTables == ManagerInit => TableInv
  BY ManagerAssumption
  DEF ManagerInit, TableInv, TablesTyped, HandlesStayValid, AtItsLock, Locks, Keys, None, NoKey

(* A key is a manager with parameters, and never the key of an idle lookup.  *)
LEMMA KeyShape == \A k \in Keys : k[1] \in Managers /\ k # NoKey
  BY DEF Keys, NoKey

LEMMA StopTables ==
  ASSUME TableInv, NEW l \in Lookups, Stop(l)
  PROVE  TableInv'
  BY DEF TableInv, TablesTyped, HandlesStayValid, AtItsLock, Stop, Locks, None

(* Taking a guard, after the tables have or have not changed: handles held   *)
(* by others are those of keys that had a node before.                       *)
LEMMA EnterTables ==
  ASSUME TableInv, NEW l \in Lookups, at[l] \in {"read", "write"}, Enter(l),
         UNCHANGED target,
         present' \subseteq Managers, spawned' \in Nat, nodeOf' \in [Keys -> Nat],
         \A k \in Keys : nodeOf[k] # None => nodeOf'[k] = nodeOf[k],
         lock[l] # Outer => nodeOf'[target[l]] # None
  PROVE  TableInv'
<1>1. target[l] \in Keys
  BY DEF TableInv, TablesTyped, HandlesStayValid
<1>2. target[l][1] \in Managers
  BY <1>1, KeyShape
<1>3. CASE lock[l] = Outer
  <2>1. /\ at' = [at EXCEPT ![l] = "read"]
        /\ lock' = [lock EXCEPT ![l] = target[l][1]]
        /\ guards' = [guards EXCEPT ![lock[l]] = @ \cup {l}]
        /\ UNCHANGED got
    BY <1>3 DEF Enter
  <2>2. TablesTyped'
    BY <2>1, <1>2, <1>3 DEF TableInv, TablesTyped, Locks
  <2>3. HandlesStayValid'
    <3> SUFFICES ASSUME NEW k \in Lookups
                 PROVE  /\ at'[k] = "idle" <=> target'[k] = NoKey
                        /\ at'[k] = "found" => got'[k] = nodeOf'[target'[k]] /\ got'[k] # None
                        /\ at'[k] # "found" => got'[k] = None
      BY DEF HandlesStayValid
    <3>1. CASE k = l
      BY <3>1, <2>1, <1>1, KeyShape DEF TableInv, TablesTyped, HandlesStayValid
    <3>2. CASE k # l
      <4>1. at'[k] = at[k] /\ got'[k] = got[k] /\ target'[k] = target[k]
        BY <3>2, <2>1 DEF TableInv, TablesTyped
      <4>2. at[k] = "found" => target[k] \in Keys
        BY DEF TableInv, TablesTyped, HandlesStayValid
      <4>3. QED
        BY <4>1, <4>2 DEF TableInv, HandlesStayValid
    <3>3. QED
      BY <3>1, <3>2
  <2>4. AtItsLock'
    BY <2>1 DEF TableInv, TablesTyped, AtItsLock
  <2>5. QED
    BY <2>2, <2>3, <2>4 DEF TableInv
<1>4. CASE lock[l] # Outer
  <2>1. /\ at' = [at EXCEPT ![l] = "found"]
        /\ got' = [got EXCEPT ![l] = nodeOf'[target[l]]]
        /\ guards' = [guards EXCEPT ![lock[l]] = @ \cup {l}]
        /\ UNCHANGED lock
    BY <1>4 DEF Enter
  <2>2. nodeOf'[target[l]] \in Nat
    BY <1>1
  <2>3. TablesTyped'
    BY <2>1, <2>2 DEF TableInv, TablesTyped, Locks
  <2>4. HandlesStayValid'
    <3> SUFFICES ASSUME NEW k \in Lookups
                 PROVE  /\ at'[k] = "idle" <=> target'[k] = NoKey
                        /\ at'[k] = "found" => got'[k] = nodeOf'[target'[k]] /\ got'[k] # None
                        /\ at'[k] # "found" => got'[k] = None
      BY DEF HandlesStayValid
    <3>1. CASE k = l
      BY <3>1, <2>1, <1>1, <1>4, KeyShape DEF TableInv, TablesTyped
    <3>2. CASE k # l
      <4>1. at'[k] = at[k] /\ got'[k] = got[k] /\ target'[k] = target[k]
        BY <3>2, <2>1 DEF TableInv, TablesTyped
      <4>2. at[k] = "found" => target[k] \in Keys
        BY DEF TableInv, TablesTyped, HandlesStayValid
      <4>3. QED
        BY <4>1, <4>2 DEF TableInv, HandlesStayValid
    <3>3. QED
      BY <3>1, <3>2
  <2>5. AtItsLock'
    BY <2>1 DEF TableInv, TablesTyped, AtItsLock
  <2>6. QED
    BY <2>3, <2>4, <2>5 DEF TableInv
<1>5. QED
  BY <1>3, <1>4

(* The second look: an existing node is never replaced.                      *)
LEMMA InsertKeeps ==
  ASSUME TableInv, NEW l \in Lookups, at[l] = "write", Insert(l)
  PROVE  /\ present' \subseteq Managers /\ spawned' \in Nat /\ nodeOf' \in [Keys -> Nat]
         /\ \A k \in Keys : nodeOf[k] # None => nodeOf'[k] = nodeOf[k]
         /\ lock[l] # Outer => nodeOf'[target[l]] # None
<1>1. target[l] \in Keys /\ target[l][1] \in Managers
  BY KeyShape DEF TableInv, TablesTyped, HandlesStayValid
<1>2. CASE lock[l] = Outer
  BY <1>1, <1>2 DEF Insert, TableInv, TablesTyped
<1>3. CASE lock[l] # Outer /\ nodeOf[target[l]] = None
  BY <1>1, <1>3 DEF Insert, TableInv, TablesTyped, None
<1>4. CASE lock[l] # Outer /\ nodeOf[target[l]] # None
  BY <1>1, <1>4 DEF Insert, TableInv, TablesTyped
<1>5. QED
  BY <1>2, <1>3, <1>4

LEMMA StepTables == TableInv /\ [ManagerNext]_managerVars => TableInv'
<1> SUFFICES ASSUME TableInv, [ManagerNext]_managerVars PROVE TableInv'
  OBVIOUS
<1>1. ASSUME NEW l \in Lookups, NEW k \in Keys, Begin(l, k) PROVE TableInv'
  <2>1. /\ at' = [at EXCEPT ![l] = "read"]
        /\ target' = [target EXCEPT ![l] = k]
        /\ at[l] = "idle" /\ k # NoKey
        /\ UNCHANGED <<lock, got, guards, present, nodeOf, spawned>>
    BY <1>1, KeyShape DEF Begin
  <2>2. lock[l] = Outer
    BY <2>1 DEF TableInv, AtItsLock
  <2>3. TablesTyped'
    BY <2>1 DEF TableInv, TablesTyped
  <2>4. HandlesStayValid'
    BY <2>1 DEF TableInv, TablesTyped, HandlesStayValid
  <2>5. AtItsLock'
    BY <2>1, <2>2 DEF TableInv, TablesTyped, AtItsLock
  <2>6. QED
    BY <2>3, <2>4, <2>5 DEF TableInv
<1>2. ASSUME NEW l \in Lookups, ReadHit(l) PROVE TableInv'
  <2>1. lock[l] # Outer => nodeOf[target[l]] # None
    BY <1>2 DEF ReadHit, Missing
  <2>2. UNCHANGED <<target, present, nodeOf, spawned>>
    BY <1>2 DEF ReadHit
  <2>3. QED
    BY <1>2, <2>1, <2>2, EnterTables DEF ReadHit, TableInv, TablesTyped
<1>3. ASSUME NEW l \in Lookups, ReadMiss(l) PROVE TableInv'
  BY <1>3 DEF ReadMiss, TableInv, TablesTyped, HandlesStayValid, AtItsLock
<1>4. ASSUME NEW l \in Lookups, Write(l) PROVE TableInv'
  BY <1>4, InsertKeeps, EnterTables DEF Write
<1>5. ASSUME NEW l \in Lookups, Send(l) \/ Cancel(l) PROVE TableInv'
  BY <1>5, StopTables DEF Send, Cancel
<1>6. CASE UNCHANGED managerVars
  BY <1>6 DEF managerVars, TableInv, TablesTyped, HandlesStayValid, AtItsLock
<1>7. QED
  BY <1>1, <1>2, <1>3, <1>4, <1>5, <1>6 DEF ManagerNext, LookupStep

(* Handles are what they should be: a lookup that found a node holds the one *)
(* registered for its key, whatever others insert meanwhile.                 *)
THEOREM HandlesCorrect == ManagerSpec => []HandlesStayValid
<1>1. TableInv => HandlesStayValid
  BY DEF TableInv
<1>2. QED
  BY InitTables, StepTables, <1>1, PTL DEF ManagerSpec

-----------------------------------------------------------------------------
LEMMA InitRegistry == ManagerInit => RegistryView!Init
  BY DEF ManagerInit, RegistryView!Init, RegistryView!None, None

LEMMA LeaveRegistry ==
  ASSUME TableInv, NEW l \in Lookups, at[l] # "idle", Stop(l)
  PROVE  RegistryView!Leave(l)
  BY DEF Stop, RegistryView!Leave, RegistryView!None, None, TableInv, HandlesStayValid

(* With the guard of its manager a lookup has its node: the moment at which  *)
(* the registry serves it.                                                   *)
LEMMA EnterServes ==
  ASSUME TableInv, NEW l \in Lookups, at[l] \in {"read", "write"}, Enter(l),
         UNCHANGED target, lock[l] # Outer,
         \/ RegistryView!Spawn(target[l])
         \/ nodeOf[target[l]] # None /\ UNCHANGED <<nodeOf, spawned>>
  PROVE  RegistryView!Serve(l)
<1>1. target[l] # NoKey /\ got[l] = None
  BY DEF TableInv, HandlesStayValid
<1>2. got' = [got EXCEPT ![l] = nodeOf'[target[l]]]
  BY DEF Enter
<1>3. QED
  BY <1>1, <1>2 DEF RegistryView!Serve, RegistryView!None, None

LEMMA WriteServes ==
  ASSUME TableInv, NEW l \in Lookups, Write(l)
  PROVE  RegistryView!Serve(l) \/ UNCHANGED RegistryView!registryVars
<1>1. CASE lock[l] = Outer
  BY <1>1 DEF Write, Insert, Enter, RegistryView!registryVars
<1>2. CASE lock[l] # Outer
  <2>1. \/ RegistryView!Spawn(target[l])
        \/ nodeOf[target[l]] # None /\ UNCHANGED <<nodeOf, spawned>>
    BY <1>2 DEF Write, Insert, RegistryView!Spawn, RegistryView!None, None
  <2>2. QED
    BY <1>2, <2>1, EnterServes DEF Write
<1>3. QED
  BY <1>1, <1>2

LEMMA StepRegistry ==
  TableInv /\ [ManagerNext]_managerVars
     => [RegistryView!Next]_RegistryView!registryVars
<1> SUFFICES ASSUME TableInv, [ManagerNext]_managerVars
             PROVE  RegistryView!Next \/ UNCHANGED RegistryView!registryVars
  OBVIOUS
<1>1. ASSUME NEW l \in Lookups, NEW k \in Keys, Begin(l, k)
      PROVE  RegistryView!Ask(l, k)
  BY <1>1 DEF Begin, RegistryView!Ask, TableInv, HandlesStayValid
<1>2. ASSUME NEW l \in Lookups, ReadHit(l)
      PROVE  RegistryView!Serve(l) \/ UNCHANGED RegistryView!registryVars
  <2>1. CASE lock[l] = Outer
    BY <1>2, <2>1 DEF ReadHit, Enter, RegistryView!registryVars
  <2>2. CASE lock[l] # Outer
    BY <1>2, <2>2, EnterServes DEF ReadHit, Missing
  <2>3. QED
    BY <2>1, <2>2
<1>3. ASSUME NEW l \in Lookups, ReadMiss(l)
      PROVE  UNCHANGED RegistryView!registryVars
  BY <1>3 DEF ReadMiss, RegistryView!registryVars
<1>4. ASSUME NEW l \in Lookups, Send(l) \/ Cancel(l)
      PROVE  RegistryView!Leave(l)
  BY <1>4, LeaveRegistry DEF Send, Cancel
<1>5. CASE UNCHANGED managerVars
  BY <1>5 DEF managerVars, RegistryView!registryVars
<1>6. QED
  BY <1>1, <1>2, <1>3, <1>4, <1>5, WriteServes DEF ManagerNext, LookupStep, RegistryView!Next

(* The two lookups under two locks, each with a second look, amount to one   *)
(* atomic find-or-spawn: one node per key, for ever.                         *)
THEOREM ManagersAreRegistry == ManagerSpec => RegistrySpec
  BY InitTables, StepTables, InitRegistry, StepRegistry, PTL
  DEF ManagerSpec, RegistrySpec, RegistryView!Spec
=============================================================================
