------------------------------- MODULE Registry -------------------------------
(* What the node managers promise an executor: to every key belongs one      *)
(* node, spawned when the key is first looked up, and every lookup of the    *)
(* key, then or later, by whichever task, finds that node.                   *)
EXTENDS Naturals

CONSTANTS Lookups, Keys, NoKey

VARIABLES
    target,     \* the key each lookup is for, NoKey when it is idle
    got,        \* the node it found, None before
    nodeOf,     \* the node of each key, None when there is none
    spawned     \* number of nodes spawned

registryVars == <<target, got, nodeOf, spawned>>

None == 0

Init ==
    /\ target = [l \in Lookups |-> NoKey]
    /\ got = [l \in Lookups |-> None]
    /\ nodeOf = [k \in Keys |-> None]
    /\ spawned = 0

Ask(l, k) ==
    /\ target[l] = NoKey
    /\ target' = [target EXCEPT ![l] = k]
    /\ UNCHANGED <<got, nodeOf, spawned>>

Spawn(k) ==
    /\ nodeOf[k] = None
    /\ spawned' = spawned + 1
    /\ nodeOf' = [nodeOf EXCEPT ![k] = spawned + 1]

(* The lookup takes effect at one moment between its start and its end.      *)
Serve(l) ==
    /\ target[l] # NoKey /\ got[l] = None
    /\ \/ Spawn(target[l])
       \/ nodeOf[target[l]] # None /\ UNCHANGED <<nodeOf, spawned>>
    /\ got' = [got EXCEPT ![l] = nodeOf'[target[l]]]
    /\ UNCHANGED target

(* The request is sent and the guards are dropped, or the future is.         *)
Leave(l) ==
    /\ target[l] # NoKey
    /\ target' = [target EXCEPT ![l] = NoKey]
    /\ got' = [got EXCEPT ![l] = None]
    /\ UNCHANGED <<nodeOf, spawned>>

Next ==
    \/ \E l \in Lookups, k \in Keys : Ask(l, k)
    \/ \E l \in Lookups : Serve(l) \/ Leave(l)

Spec == Init /\ [][Next]_registryVars
=============================================================================
