------------------------------- MODULE NodeLife -------------------------------
(* The end of query nodes: a tenant that panics, and the drop of the last    *)
(* Arc<Runtime>.  A task that ends drops its channels and the callbacks of   *)
(* the requests it had; whoever awaits one of these gets an error.  The      *)
(* manager keeps the handle of a node for ever, so a node that ended is not  *)
(* spawned again: requests to it are refused.                                *)
(*                                                                           *)
(* Who keeps the runtime: the user (owner), a context, and a node that       *)
(* evaluates, from the moment it upgrades its Weak (holding); the first      *)
(* evaluation of a node is given an Arc.                                     *)
EXTENDS QueryNodes

CONSTANTS
    Panics(_, _),   \* Panics(q, seen): the tenant panics after these values
    MaxGone         \* bound: value requests nobody waits for any more

ASSUME LifeAssumption == MaxGone \in Nat

VARIABLES
    owner,      \* the user has an Arc<Runtime> outside of any call
    dead,       \* nodes whose task ended
    holding     \* evaluating nodes that have an Arc<Runtime>

lifeVars == <<queryVars, owner, dead, holding>>

LifeInit ==
    /\ QueryInit
    /\ owner = TRUE
    /\ dead = {}
    /\ holding = {}

HasContext(c) == root[c].at \in {"waiting", "answered"}

(* Mutant: an evaluation works with a Weak<Runtime>.                         *)
RuntimeAliveByCallers == owner \/ \E c \in Callers : HasContext(c)

(* Mutant: a cache has an Arc<Runtime> in place of a Weak.                   *)
RuntimeAliveByCaches ==
    \/ owner \/ holding # {}
    \/ \E c \in Callers : HasContext(c)
    \/ \E q \in Queries : node[q].at # "absent"

RuntimeAlive == owner \/ holding # {} \/ \E c \in Callers : HasContext(c)

(* Evaluations that go on keep their Arc, those of new nodes start with one. *)
KeepHolding ==
    holding' = {q \in Queries : /\ node'[q].at = "evaluating"
                                /\ q \in holding \/ node[q].at = "absent"}

-----------------------------------------------------------------------------
(* The end of a task.                                                        *)

(* Mutant: the handle of a dead node is forgotten, the next call spawns anew.*)
DieUnnoticed(q) ==
    /\ node' = Forget([node EXCEPT ![q] = Absent], q)
    /\ holding' = holding \ {q}
    /\ UNCHANGED <<world, known, root, owner, dead>>

Die(q) ==
    /\ node' = Forget([node EXCEPT ![q] = Absent], q)
    /\ dead' = dead \cup {q}
    /\ holding' = holding \ {q}
    /\ UNCHANGED <<world, known, root, owner>>

Running(q) == node[q].at = "evaluating" /\ q \in holding
Group(q)   == NextReads(q, node[q].seen)

Panic(q) == Running(q) /\ Panics(q, node[q].seen) /\ Die(q)

(* send fails, or the callback is dropped: executor returns an error, the    *)
(* unwrap around it panics in the tenant that called.                        *)
Refused(q) ==
    /\ Running(q)
    /\ \E slot \in Wanted(q) \cup node[q].awaits : Group(q)[slot] \in dead
    /\ Die(q)

(* After an Invalid verdict the runtime is needed again.                     *)
Upgrade(q) ==
    /\ node[q].at = "evaluating" /\ q \notin holding
    /\ RuntimeAlive
    /\ holding' = holding \cup {q}
    /\ UNCHANGED <<queryVars, owner, dead>>

(* DroppedRuntimeError leaves the loop of the node.                          *)
FailToUpgrade(q) ==
    /\ node[q].at = "evaluating" /\ q \notin holding
    /\ ~RuntimeAlive
    /\ Die(q)

(* Both channels are closed: the runtime with the managers is gone, and so   *)
(* is every validation handle another node keeps.                            *)
Ends(q) ==
    /\ node[q].at = "idle" /\ Quiet(q)
    /\ ~RuntimeAlive
    /\ \A p \in Queries : \A n \in DOMAIN node[p].cache.deps : node[p].cache.deps[n] # q
    /\ Die(q)

-----------------------------------------------------------------------------
(* The steps of QueryNodes among nodes that live.                            *)

(* Mutant: an error in place of a verdict ends the node that asked.          *)
CheckDeadStrict(q) ==
    /\ node[q].at = "checking"
    /\ \E slot \in DOMAIN node[q].cache.deps :
          /\ node[q].cache.deps[slot] \in dead
          /\ slot \in node[q].awaits \cup {node[q].sent + 1}
    /\ Die(q)

(* A validation request to a dead node fails, at once or when its callback   *)
(* is dropped, which counts as Invalid.                                      *)
CheckDead(q) ==
    /\ node[q].at = "checking"
    /\ \E slot \in DOMAIN node[q].cache.deps :
          /\ node[q].cache.deps[slot] \in dead
          /\ slot \in node[q].awaits \cup {node[q].sent + 1}
          /\ node' = TakeVerdict(node, q, slot, [valid |-> FALSE])
    /\ KeepHolding
    /\ UNCHANGED <<world, known, root, owner, dead>>

Updating(q) ==
    \/ ServeValue(q) \/ ServeCheck(q)
    \/ SendCheck(q) /\ node[q].cache.deps[node[q].sent + 1] \notin dead
    \/ InputVerdict(q) \/ FinishCheck(q)

Evaluating(q) ==
    /\ Running(q) /\ ~Panics(q, node[q].seen)
    /\ \/ ReadInput(q)
       \/ CallQuery(q) /\ \A k \in node'[q].awaits : Group(q)[k] \notin dead
       \/ FinishEvaluation(q)

LifeStep(q) ==
    \/ (Updating(q) \/ Evaluating(q)) /\ KeepHolding /\ UNCHANGED <<owner, dead>>
    \/ Panic(q) \/ Refused(q) \/ CheckDead(q)
    \/ Upgrade(q) \/ FailToUpgrade(q) \/ Ends(q)

-----------------------------------------------------------------------------
(* Callers.                                                                  *)

(* The closure panics at the unwrap, which drops its context.                *)
Fails(c, q) == root' = [root EXCEPT ![c] = [NotAsking EXCEPT !.at = "failed", !.query = q]]

(* Value requests nobody waits for any more.                                 *)
GoneRequests ==
    Cardinality({q \in Queries : node[q].job.kind = "value" /\ node[q].job.by = Gone})
    + Cardinality(UNION {{<<q, n>> : n \in {k \in DOMAIN node[q].values :
                                               node[q].values[k].by = Gone}} : q \in Queries})

(* Its future is dropped while it waits.                                     *)
Abandon(c) ==
    /\ root[c].at = "waiting"
    /\ GoneRequests < MaxGone
    /\ root' = [root EXCEPT ![c] = NotAsking]
    /\ node' = Forget(node, c)
    /\ UNCHANGED <<world, known>>

LifeAsk(c, q) ==
    /\ owner
    /\ IF q \in dead
          THEN root[c].at = "idle" /\ Fails(c, q) /\ UNCHANGED <<world, known, node, holding>>
          ELSE Ask(c, q) /\ KeepHolding
    /\ UNCHANGED <<owner, dead>>

(* Mutant: the mailbox of a node, with the callbacks in it, belongs to the   *)
(* manager and goes only with the runtime.                                   *)
LostAnswerAtDrop(c) ==
    /\ ~owner
    /\ root[c].at = "waiting" /\ root[c].query \in dead
    /\ Fails(c, root[c].query)
    /\ UNCHANGED <<world, known, node, owner, dead, holding>>

(* The node ended without an answer: the callback of the request is dropped. *)
LostAnswer(c) ==
    /\ root[c].at = "waiting" /\ root[c].query \in dead
    /\ Fails(c, root[c].query)
    /\ UNCHANGED <<world, known, node, owner, dead, holding>>

Recover(c) ==
    /\ root[c].at = "failed"
    /\ root' = [root EXCEPT ![c] = NotAsking]
    /\ UNCHANGED <<world, known, node>>

CallerStep(c) ==
    \/ \E q \in Called : LifeAsk(c, q)
    \/ LostAnswer(c)
    \/ (Abandon(c) \/ Leave(c) \/ Recover(c)) /\ UNCHANGED <<owner, dead, holding>>

DropOwner ==
    /\ owner
    /\ owner' = FALSE
    /\ UNCHANGED <<queryVars, dead, holding>>

LifeNext ==
    \/ \E q \in Queries : LifeStep(q)
    \/ \E c \in Callers : CallerStep(c)
    \/ NextFrame /\ owner /\ UNCHANGED <<owner, dead, holding>>
    \/ DropOwner

LifeSpec == LifeInit /\ [][LifeNext]_lifeVars

(* Tasks that can run do, and a caller that has its answer or its panic goes.*)
LifeFairSpec ==
    /\ LifeSpec
    /\ \A q \in Queries : WF_lifeVars(LifeStep(q))
    /\ \A c \in Callers : WF_lifeVars((LostAnswer(c) \/ Leave(c)) /\ CallerStep(c))
=============================================================================
