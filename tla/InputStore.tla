------------------------------ MODULE InputStore ------------------------------
(* The input nodes of node/input.rs around the clock: set and get calls, the *)
(* mailboxes of each node, registration with the indexer, and the answers    *)
(* that make up the snapshot.  Every action that uses a token or a channel   *)
(* of the clock is the conjunction of an action of Clock and of what happens *)
(* at the node.                                                              *)
(*                                                                           *)
(* A node serves its four channels with a biased select!; a request that     *)
(* arrives while the channels are polled is overtaken, and no property below *)
(* depends on the order, so any waiting request may be served.               *)
EXTENDS Clock

CONSTANTS
    Values,         \* values of an input
    InitialValue    \* Input::initial

ASSUME StoreAssumption == InitialValue \in Values

VARIABLES
    spawned,    \* inputs whose node task exists
    cache,      \* the Cache of each node
    setMail,    \* channel of SetValueRequest of each node
    getMail,    \* channel of ValueRequest
    checkMail,  \* channel of ValidationRequest
    firstRead,  \* history: frame in which an input was first read
    stored,     \* history: value last written by a mutate call
    log         \* history: what each frame's query phase started with

nodeVars == <<spawned, cache, setMail, getMail, checkMail>>
history  == <<firstRead, stored, log>>
storeVars == <<vars, nodeVars, history>>

Frames   == 0 .. MaxFrame
NoFrame  == -1
NoChange == [value |-> InitialValue, since |-> NoFrame]
NoEntry  == [stored |-> <<>>, snapshot |-> <<>>]

StoreInit ==
    /\ Init
    /\ spawned = {}
    /\ cache = [i \in Inputs |-> [value |-> InitialValue, since |-> 0,
                                  next |-> NoChange, instant |-> 0]]
    /\ setMail = [i \in Inputs |-> <<>>]
    /\ getMail = [i \in Inputs |-> <<>>]
    /\ checkMail = [i \in Inputs |-> <<>>]
    /\ firstRead = [i \in Inputs |-> NoFrame]
    /\ stored = [i \in Inputs |-> InitialValue]
    /\ log = [f \in Frames |->
                 IF f = 0 THEN [stored |-> stored, snapshot |-> snapshot] ELSE NoEntry]

-----------------------------------------------------------------------------
(* Callers: the executors find or spawn the node and send it a request with  *)
(* a clone of the token.                                                     *)

Send(mail, i, request) == [mail EXCEPT ![i] = Append(@, request)]
Receive(mail, i) == [mail EXCEPT ![i] = Tail(@)]

(* set_executor *)
Set(c, i, v) ==
    /\ call[c] = "running"
    /\ token[c].kind = "Mutation"
    /\ Clone(c)
    /\ spawned' = spawned \cup {i}
    /\ setMail' = Send(setMail, i, [by |-> c, value |-> v])
    /\ stored' = [stored EXCEPT ![i] = v]
    /\ UNCHANGED <<cache, getMail, checkMail, firstRead, log>>

(* get_executor *)
Get(c, i) ==
    /\ token[c].kind = "Query"
    /\ Clone(c)
    /\ spawned' = spawned \cup {i}
    /\ getMail' = Send(getMail, i, [by |-> c])
    /\ UNCHANGED <<cache, setMail, checkMail, history>>

(* A query node that depends on i, last known valid at frame past, asks      *)
(* whether i changed.  It can only depend on i once i was read.              *)
Check(c, i, past) ==
    /\ token[c].kind = "Query"
    /\ firstRead[i] # NoFrame
    /\ past \in firstRead[i] .. current - 1
    /\ Clone(c)
    /\ checkMail' = Send(checkMail, i, [by |-> c, past |-> past])
    /\ UNCHANGED <<spawned, cache, setMail, getMail, history>>

-----------------------------------------------------------------------------
(* The node task.                                                            *)

Serving(i) == assigned[i] # NoIndex

RegisterNode(i) ==
    /\ i \in spawned
    /\ Register(i)
    /\ UNCHANGED <<nodeVars, history>>

(* Mutant: a change that is queued already stays.                            *)
ServeSetKeepFirst(i) ==
    /\ Serving(i)
    /\ setMail[i] # <<>>
    /\ LET request == Head(setMail[i])
       IN  /\ cache' = [cache EXCEPT ![i].next =
                           IF @ # NoChange THEN @ ELSE
                           [value |-> request.value, since |-> token[request.by].frame]]
           /\ DropClone(request.by)
    /\ setMail' = Receive(setMail, i)
    /\ UNCHANGED <<spawned, getMail, checkMail, history>>

(* Cache::set_next: a change queued earlier is discarded.                    *)
ServeSet(i) ==
    /\ Serving(i)
    /\ setMail[i] # <<>>
    /\ LET request == Head(setMail[i])
       IN  /\ cache' = [cache EXCEPT ![i].next =
                           [value |-> request.value, since |-> token[request.by].frame]]
           /\ DropClone(request.by)
    /\ setMail' = Receive(setMail, i)
    /\ UNCHANGED <<spawned, getMail, checkMail, history>>

(* Mutant: a value set in the very frame asked about counts as changed.      *)
VerdictOffByOne(i, past) == IF past <= cache[i].since THEN "Invalid" ELSE "Valid"

(* The reply to a validation request.                                        *)
Verdict(i, past) == IF past < cache[i].since THEN "Invalid" ELSE "Valid"

ServeCheck(i) ==
    /\ Serving(i)
    /\ checkMail[i] # <<>>
    /\ DropClone(Head(checkMail[i]).by)
    /\ checkMail' = Receive(checkMail, i)
    /\ UNCHANGED <<spawned, cache, setMail, getMail, history>>

ServeGet(i) ==
    /\ Serving(i)
    /\ getMail[i] # <<>>
    /\ DropClone(Head(getMail[i]).by)
    /\ getMail' = Receive(getMail, i)
    /\ firstRead' = [firstRead EXCEPT ![i] = IF @ = NoFrame THEN current ELSE @]
    /\ UNCHANGED <<spawned, cache, setMail, checkMail, stored, log>>

(* Cache::actualize: a queued change that differs becomes the value and      *)
(* moves the local instant on (LocalInstant::next wraps around).             *)
Actualized(entry) ==
    IF entry.next # NoChange /\ entry.next.value # entry.value
       THEN [value |-> entry.next.value, since |-> entry.next.since,
             next |-> NoChange, instant |-> (entry.instant + 1) % Instants]
       ELSE [entry EXCEPT !.next = NoChange]

ServeClock(i) ==
    /\ Serving(i)
    /\ cache' = [cache EXCEPT ![i] = Actualized(@)]
    /\ \E n \in DOMAIN answers : handles[n] = i /\ Answer(n, cache'[i].instant)
    /\ UNCHANGED <<spawned, setMail, getMail, checkMail, history>>

NodeTask(i) ==
    RegisterNode(i) \/ ServeSet(i) \/ ServeCheck(i) \/ ServeGet(i) \/ ServeClock(i)

-----------------------------------------------------------------------------
LogStartQuery ==
    /\ StartQuery
    /\ log' = [log EXCEPT ![current] = [stored |-> stored, snapshot |-> snapshot']]
    /\ UNCHANGED <<nodeVars, firstRead, stored>>

OtherClockStep ==
    /\ \/ JoinQueryPhase \/ TakeInstr \/ NextMutation
       \/ AskIndexer \/ StartMutation \/ AskInstants
    /\ UNCHANGED <<nodeVars, history>>

StoreClockTask == LogStartQuery \/ OtherClockStep

StoreIndexerTask == IndexerTask /\ UNCHANGED <<nodeVars, history>>

CallStep(c) ==
    /\ (\E kind \in Kinds : Ask(c, kind)) \/ Cancel(c) \/ Finish(c)
    /\ UNCHANGED <<nodeVars, history>>

Request(c, i) ==
    \/ \E v \in Values : Set(c, i, v)
    \/ Get(c, i)
    \/ \E past \in Frames : Check(c, i, past)

StoreNext ==
    \/ \E c \in Calls : CallStep(c)
    \/ \E c \in Calls, i \in Inputs : Request(c, i)
    \/ \E i \in Inputs : NodeTask(i)
    \/ StoreClockTask
    \/ StoreIndexerTask

StoreSpec == StoreInit /\ [][StoreNext]_storeVars

-----------------------------------------------------------------------------
(* A node that is about to answer a reader or a validation has taken in      *)
(* every change made before the query phase: it holds the value last set,    *)
(* by whichever call, and no change is still queued (the debug_assert of     *)
(* both branches).                                                           *)
ReadsLastWrite ==
    \A i \in Inputs :
        Serving(i) /\ (getMail[i] # <<>> \/ checkMail[i] # <<>>) =>
            cache[i].value = stored[i] /\ cache[i].next = NoChange

(* When the clock starts to collect a snapshot no set request is still on    *)
(* its way, and every input that was ever used is among those it asks.       *)
SnapshotComplete ==
    clockAt = "snapshot" =>
        \A i \in spawned :
            setMail[i] = <<>> /\ \E n \in DOMAIN handles : handles[n] = i

StoredAt(f, i) == log[f].stored[i]

(* The verdict on a validation request is exact: Valid if and only if the    *)
(* input has kept its value in every frame since the one asked about.        *)
VerdictIsExact ==
    \A i \in Inputs, past \in 0 .. current - 1 :
        checkMail[i] # <<>> /\ Serving(i) /\ past >= firstRead[i] =>
            (Verdict(i, past) = "Valid" <=>
                \A f \in past .. current : StoredAt(f, i) = StoredAt(past, i))

(* InputDeps::status for one input: what the snapshots of frames f and g     *)
(* tell about it.  An index beyond a snapshot stands for an input that was   *)
(* not registered yet; too many frames apart they tell nothing.              *)
InstantAt(f, place) ==
    IF place \in DOMAIN log[f].snapshot THEN log[f].snapshot[place] ELSE 0

InputStatusLateWrap(f, g, place) ==
    IF g - f > Instants THEN "Unknown"
    ELSE IF InstantAt(f, place) = InstantAt(g, place) THEN "Unchanged" ELSE "Changed"

InputStatus(f, g, place) ==
    IF g - f >= Instants THEN "Unknown"
    ELSE IF InstantAt(f, place) = InstantAt(g, place) THEN "Unchanged" ELSE "Changed"

(* Two snapshots that agree on an input prove that it did not change in      *)
(* between, although the local instant has few values and wraps around.      *)
SnapshotTellsChange ==
    \A f, g \in Frames : \A i \in Inputs :
        /\ f < g /\ log[f] # NoEntry /\ log[g] # NoEntry
        /\ Serving(i)
        /\ InputStatus(f, g, assigned[i] + 1) = "Unchanged"
        => \A h \in f .. g : StoredAt(h, i) = StoredAt(f, i)
=============================================================================
