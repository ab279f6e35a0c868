------------------------------ MODULE QueryNodes ------------------------------
(* The query nodes of node/query.rs: one task per bound query, which keeps   *)
(* the cached value, brings it up to date when a request asks for it, and    *)
(* meanwhile sends requests to the nodes upstream.  All nodes of a frame run *)
(* concurrently; a node awaits replies while its own requests wait in others'*)
(* mailboxes.                                                                *)
(*                                                                           *)
(* The clock and the inputs appear by what Clock and InputStore show of      *)
(* them: input values are frozen while any request or context is alive, and  *)
(* a frame starts (NextFrame) only when none is.  A tenant, the user's async *)
(* function, is a pure function that reads nodes in groups, the members of a *)
(* group concurrently (join!): NextReads(q, seen) is the group it reads after *)
(* the values seen so far, the empty one when it is done, and                *)
(* Result(q, seen) what it returns then.                                     *)
EXTENDS Integers, Sequences, FiniteSets

CONSTANTS
    Callers,            \* contexts of Runtime::query alive at the same time
    Inputs, Queries,    \* the nodes
    Called,             \* the queries the callers call
    Values, InitialValue,
    NextReads(_, _), Result(_, _),
    Instants,           \* LocalInstant::MAX_FRAMES
    MaxFrame,           \* bound: frames explored
    MaxWrites           \* bound: inputs set per frame

ASSUME QueryAssumption ==
    /\ Callers \cap Queries = {} /\ Inputs \cap Queries = {}
    /\ "gone" \notin Callers \cup Queries
    /\ Called \subseteq Queries
    /\ InitialValue \in Values
    /\ Instants \in Nat \ {0}
    /\ MaxFrame \in Nat /\ MaxWrites \in Nat

VARIABLES
    frame,      \* the current frame
    input,      \* value, valid_since and local instant of each input
    known,      \* inputs registered with the clock
    snapshot,   \* input snapshot of the frame: local instant of each known one
    node,       \* the query nodes
    root,       \* what each caller is doing
    log         \* history: the input values of every frame

queryVars == <<frame, input, known, snapshot, node, root, log>>

Nodes  == Inputs \cup Queries
Frames == 0 .. MaxFrame
Gone   == "gone"    \* requester that no longer listens
Nobody == "none"    \* query of a caller that asks for none
Later(f, g) == IF f < g THEN g ELSE f
Sooner(f, g) == IF f < g THEN f ELSE g

(* The first evaluation of a node serves no request (Cache::new).            *)
NoJob   == [kind |-> "spawn", by |-> Gone, slot |-> 0, past |-> 0]
NoCache == [value |-> InitialValue, from |-> 0, until |-> 0,
            deps |-> <<>>, selection |-> {}, snapshot |-> <<>>]

(* at: what the task does.  cache: its Cache.  job: the request it serves.   *)
(* values, checks: its mailboxes.  sent: validation requests sent.  awaits:  *)
(* replies it waits for, by place among its edges or in the group it reads.  *)
(* got: values of that group so far.  seen, deps, since, selection: values   *)
(* read before, edges and ValueDepInfo gathered so far.                      *)
Absent == [at |-> "absent", cache |-> NoCache, job |-> NoJob,
           values |-> <<>>, checks |-> <<>>, sent |-> 0, awaits |-> {},
           got |-> <<>>,
           seen |-> <<>>, deps |-> <<>>, since |-> 0, selection |-> {}]

NotAsking == [at |-> "idle", query |-> Nobody, value |-> InitialValue]

QueryInit ==
    /\ frame = 0
    /\ input = [i \in Inputs |-> [value |-> InitialValue, since |-> 0, instant |-> 0]]
    /\ known = {}
    /\ snapshot = <<>>
    /\ node = [q \in Queries |-> Absent]
    /\ root = [c \in Callers |-> NotAsking]
    /\ log = [f \in Frames |-> [i \in Inputs |-> InitialValue]]

-----------------------------------------------------------------------------
(* Requests and replies, as functions on the state of all nodes.             *)

(* Nothing gathered yet.                                                     *)
Blank(n, at) == [n EXCEPT !.at = at, !.sent = 0, !.awaits = {}, !.got = <<>>,
                          !.seen = <<>>, !.deps = <<>>, !.since = 0, !.selection = {}]

(* executor: find the node or spawn it, which starts its first evaluation,   *)
(* and queue a value request.                                                *)
SendValueRequest(nodes, q, by, slot) ==
    LET found == IF nodes[q].at = "absent"
                    THEN Blank([nodes[q] EXCEPT !.job = NoJob], "evaluating")
                    ELSE nodes[q]
    IN  [nodes EXCEPT ![q] = [found EXCEPT !.values = Append(@, [by |-> by, slot |-> slot])]]

(* Mutant: a reply reaches whatever its requester does by then.              *)
ForgetNothing(nodes, who) == nodes

(* The receivers of all replies to `who` are dropped.                        *)
Forget(nodes, who) ==
    LET Unheard(mail) == [n \in DOMAIN mail |->
            IF mail[n].by = who THEN [mail[n] EXCEPT !.by = Gone] ELSE mail[n]]
    IN  [q \in Queries |->
            [nodes[q] EXCEPT !.job.by = IF @ = who THEN Gone ELSE @,
                             !.values = Unheard(@), !.checks = Unheard(@)]]

(* QueryContext::add_edge, and the value goes to the tenant, which goes on   *)
(* when the group is complete.                                               *)
TakeValue(nodes, q, slot, from, value, since, selection) ==
    LET n    == nodes[q]
        got  == [k \in DOMAIN n.got \cup {slot} |-> IF k = slot THEN value ELSE n.got[k]]
        done == DOMAIN got = DOMAIN NextReads(q, n.seen)
    IN  [nodes EXCEPT ![q] =
            [n EXCEPT !.awaits = @ \ {slot},
                      !.got = IF done THEN <<>> ELSE got,
                      !.seen = IF done THEN @ \o got ELSE @,
                      !.deps = Append(@, from),
                      !.since = Later(@, since), !.selection = @ \cup selection]]

(* Mutant: all replies are awaited before evaluation starts (a set `seen`    *)
(* remembers that one was Invalid).                                          *)
TakeVerdictJoin(nodes, q, slot, verdict) ==
    LET m == [nodes[q] EXCEPT !.awaits = @ \ {slot}]
        n == IF verdict.valid
                THEN [m EXCEPT !.since = Later(@, verdict.since),
                               !.selection = @ \cup verdict.selection]
                ELSE [m EXCEPT !.seen = <<InitialValue>>]
        all == n.awaits = {} /\ n.sent = Len(n.cache.deps)
    IN  [nodes EXCEPT ![q] = IF all /\ n.seen # <<>> THEN Blank(n, "evaluating") ELSE n]

(* One reply reaches the try_fold of UpstreamDeps::status.  The first Invalid*)
(* ends it: the other replies are not awaited and evaluation starts.         *)
TakeVerdict(nodes, q, slot, verdict) ==
    IF verdict.valid
       THEN [nodes EXCEPT ![q].awaits = @ \ {slot},
                          ![q].since = Later(@, verdict.since),
                          ![q].selection = @ \cup verdict.selection]
       ELSE Forget([nodes EXCEPT ![q] = Blank(@, "evaluating")], q)

-----------------------------------------------------------------------------
(* Cache.                                                                    *)

(* Mutant: ranges are joined across a gap.                                   *)
ExtendedFromAnyway(from, old) == Sooner(from, old.from)

(* extend_valid_range, the start of the result.                              *)
ExtendedFrom(from, old) ==
    IF from <= old.until + 1 THEN Sooner(from, old.from) ELSE from

(* InputDeps::status.  A snapshot has no entry for an input that was not     *)
(* registered when it was taken: its instant was the initial one.            *)
InstantIn(snap, i) == IF i \in DOMAIN snap THEN snap[i] ELSE 0

(* Mutant: inputs without an entry in one of the snapshots are skipped.      *)
InputsUnchangedZip(cache) ==
    \/ cache.selection = {}
    \/ /\ frame - cache.until < Instants
       /\ \A i \in cache.selection \cap DOMAIN cache.snapshot \cap DOMAIN snapshot :
             cache.snapshot[i] = snapshot[i]

InputsUnchanged(cache) ==
    \/ cache.selection = {}
    \/ /\ frame - cache.until < Instants
       /\ \A i \in cache.selection :
             InstantIn(cache.snapshot, i) = InstantIn(snapshot, i)

Contains(cache, f) == cache.from <= f /\ f <= cache.until

(* Mutant: a frame of the old range is valid whatever the update found.      *)
VerdictOldRange(old, new, past) ==
    [valid |-> Contains(new, past) \/ Contains(old, past),
     since |-> new.from, selection |-> new.selection]

(* Cache::validate, once the cache went from old to new.                     *)
Verdict(old, new, past) ==
    [valid |-> \/ Contains(new, past)
               \/ Contains(old, past) /\ old.value = new.value,
     since |-> new.from, selection |-> new.selection]

(* The update of q ends with the cache `new`: the request it served gets its *)
(* reply, if anybody still waits for it.                                     *)
Complete(nodes, q, new) ==
    LET job  == nodes[q].job
        old  == nodes[q].cache
        idle == [nodes EXCEPT ![q] = [Blank(@, "idle") EXCEPT !.cache = new, !.job = NoJob]]
    IN  /\ node' =
              IF job.by \notin Queries THEN idle
              ELSE IF job.kind = "value"
                 THEN TakeValue(idle, job.by, job.slot, q, new.value, new.from, new.selection)
                 ELSE TakeVerdict(idle, job.by, job.slot, Verdict(old, new, job.past))
        /\ root' = IF job.by \notin Callers THEN root ELSE
                       [root EXCEPT ![job.by].at = "answered", ![job.by].value = new.value]

-----------------------------------------------------------------------------
(* The node task.                                                            *)

world == <<frame, input, snapshot, log>>

(* Cache::status: the cache is of this frame, or no input behind it changed, *)
(* or the upstream nodes have to be asked.                                   *)
Refresh(nodes, q) ==
    LET cache == nodes[q].cache
    IN  CASE cache.until = frame -> Complete(nodes, q, cache)
          [] cache.until # frame /\ InputsUnchanged(cache) ->
                Complete(nodes, q, [cache EXCEPT !.until = frame, !.snapshot = snapshot])
          [] OTHER -> /\ node' = [nodes EXCEPT ![q] = Blank(@, "checking")]
                      /\ UNCHANGED root

(* The biased select! polls its two channels one after the other, a request  *)
(* may slip in between: any waiting one may be next.                         *)
ServeValue(q) ==
    /\ node[q].at = "idle"
    /\ node[q].values # <<>>
    /\ Refresh([node EXCEPT ![q].values = Tail(@),
                            ![q].job = [NoJob EXCEPT !.kind = "value",
                                                     !.by = Head(node[q].values).by,
                                                     !.slot = Head(node[q].values).slot]], q)
    /\ UNCHANGED <<world, known>>

ServeCheck(q) ==
    /\ node[q].at = "idle"
    /\ node[q].checks # <<>>
    /\ LET request == Head(node[q].checks)
       IN  Refresh([node EXCEPT ![q].checks = Tail(@),
                                ![q].job = [NoJob EXCEPT !.kind = "check",
                                                         !.by = request.by,
                                                         !.slot = request.slot,
                                                         !.past = request.past]], q)
    /\ UNCHANGED <<world, known>>

(* FuturesUnordered polls the requests in the order of the handles; replies  *)
(* may come in before all are sent.                                          *)
SendCheck(q) ==
    LET n    == node[q]
        slot == n.sent + 1
        sent == [node EXCEPT ![q].sent = slot, ![q].awaits = @ \cup {slot}]
        dep  == n.cache.deps[slot]
    IN  /\ n.at = "checking"
        /\ n.sent < Len(n.cache.deps)
        /\ node' = IF dep \in Inputs THEN sent ELSE
                      [sent EXCEPT ![dep].checks =
                          Append(@, [by |-> q, slot |-> slot, past |-> n.cache.until])]
        /\ UNCHANGED <<world, known, root>>

(* An input node answers; nothing changes at the input.                      *)
InputVerdict(q) ==
    /\ node[q].at = "checking"
    /\ \E slot \in node[q].awaits :
          LET i == node[q].cache.deps[slot]
          IN  /\ i \in Inputs
              /\ node' = TakeVerdict(node, q, slot,
                            [valid |-> input[i].since <= node[q].cache.until,
                             since |-> input[i].since, selection |-> {i}])
    /\ UNCHANGED <<world, known, root>>

(* All upstream nodes are still valid: the value is, and the range and the   *)
(* selection follow from theirs.                                             *)
FinishCheck(q) ==
    LET n     == node[q]
        cache == n.cache
    IN  /\ n.at = "checking"
        /\ n.sent = Len(cache.deps)
        /\ n.awaits = {}
        /\ Complete(node, q,
               [cache EXCEPT !.from = ExtendedFrom(n.since, cache), !.until = frame,
                             !.selection = n.selection, !.snapshot = snapshot])
        /\ UNCHANGED <<world, known>>

(* Members of the group the tenant of q reads that it has not requested yet: *)
(* join! polls them in turn, but each may first wait for a node manager, so  *)
(* any may be next.                                                          *)
Wanted(q) ==
    IF node[q].at # "evaluating" THEN {} ELSE
       DOMAIN NextReads(q, node[q].seen) \ (node[q].awaits \cup DOMAIN node[q].got)

(* The tenant reads an input.                                                *)
ReadInput(q) ==
    /\ \E slot \in Wanted(q) :
          LET i == NextReads(q, node[q].seen)[slot]
          IN  /\ i \in Inputs
              /\ node' = TakeValue(node, q, slot, i, input[i].value, input[i].since, {i})
              /\ known' = known \cup {i}
    /\ UNCHANGED <<world, root>>

(* The tenant calls a query and awaits its value.                            *)
CallQuery(q) ==
    /\ \E slot \in Wanted(q) :
          LET d == NextReads(q, node[q].seen)[slot]
          IN  /\ d \in Queries
              /\ node' = SendValueRequest([node EXCEPT ![q].awaits = @ \cup {slot}], d, q, slot)
    /\ UNCHANGED <<world, known, root>>

(* Mutant: dependencies are kept when the value is.                          *)
FinishEvaluationKeepDeps(q) ==
    LET n     == node[q]
        value == Result(q, n.seen)
        same  == n.job.kind # "spawn" /\ value = n.cache.value
        from  == IF same THEN ExtendedFrom(n.since, n.cache) ELSE n.since
    IN  /\ n.at = "evaluating"
        /\ NextReads(q, n.seen) = <<>>
        /\ Complete(node, q,
               [value |-> value, from |-> from, until |-> frame,
                deps |-> IF same THEN n.cache.deps ELSE n.deps,
                selection |-> IF same THEN n.cache.selection ELSE n.selection,
                snapshot |-> snapshot])
        /\ UNCHANGED <<world, known>>

(* The tenant returns.  A value that did not change keeps its history.       *)
FinishEvaluation(q) ==
    LET n     == node[q]
        value == Result(q, n.seen)
        from  == IF n.job.kind # "spawn" /\ value = n.cache.value
                    THEN ExtendedFrom(n.since, n.cache) ELSE n.since
    IN  /\ n.at = "evaluating"
        /\ NextReads(q, n.seen) = <<>>
        /\ Complete(node, q,
               [value |-> value, from |-> from, until |-> frame, deps |-> n.deps,
                selection |-> n.selection, snapshot |-> snapshot])
        /\ UNCHANGED <<world, known>>

NodeStep(q) ==
    \/ ServeValue(q) \/ ServeCheck(q)
    \/ SendCheck(q) \/ InputVerdict(q) \/ FinishCheck(q)
    \/ ReadInput(q) \/ CallQuery(q) \/ FinishEvaluation(q)

-----------------------------------------------------------------------------
(* Callers and frames.                                                       *)

(* A closure given to Runtime::query calls a query.                          *)
Ask(c, q) ==
    /\ root[c].at = "idle"
    /\ root' = [root EXCEPT ![c] = [@ EXCEPT !.at = "waiting", !.query = q]]
    /\ node' = SendValueRequest(node, q, c, 1)
    /\ UNCHANGED <<world, known>>

Leave(c) ==
    /\ root[c].at = "answered"
    /\ root' = [root EXCEPT ![c] = NotAsking]
    /\ UNCHANGED <<world, known, node>>

(* No context and no request carries a token.                                *)
Quiet(q) ==
    /\ node[q].at \in {"absent", "idle"}
    /\ node[q].values = <<>> /\ node[q].checks = <<>>

NoToken == (\A q \in Queries : Quiet(q)) /\ (\A c \in Callers : root[c].at = "idle")

(* LocalInstant::next wraps around.                                          *)
NextInstant(t) == (t + 1) % Instants

(* The next frame: inputs are set, those of different value move on, and the *)
(* snapshot is taken.                                                        *)
NextFrame ==
    /\ NoToken
    /\ frame < MaxFrame
    /\ \E written \in {s \in SUBSET Inputs : Cardinality(s) <= MaxWrites} :
       \E new \in [written -> Values] :
          LET Changes(i) == i \in written /\ new[i] # input[i].value
          IN  /\ input' = [i \in Inputs |->
                     IF Changes(i)
                        THEN [value |-> new[i], since |-> frame + 1,
                              instant |-> NextInstant(input[i].instant)]
                        ELSE input[i]]
              /\ known' = known \cup written
    /\ frame' = frame + 1
    /\ snapshot' = [i \in known' |-> input'[i].instant]
    /\ log' = [log EXCEPT ![frame'] = [i \in Inputs |-> input'[i].value]]
    /\ UNCHANGED <<node, root>>

QueryNext ==
    \/ \E q \in Queries : NodeStep(q)
    \/ \E c \in Callers : (\E q \in Called : Ask(c, q)) \/ Leave(c)
    \/ NextFrame

QuerySpec == QueryInit /\ [][QueryNext]_queryVars

=============================================================================
