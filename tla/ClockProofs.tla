----------------------------- MODULE ClockProofs -----------------------------
(* Theorems about Clock, for every number of calls, inputs, permits, frames  *)
(* and clones.                                                               *)
EXTENDS Clock, FiniteSetTheorems, SequenceTheorems, TLAPS

(* Sequences built from functions, and elements of sequences: what the       *)
(* library's facts about sequences do not say.                               *)
LEMMA FunctionIsSeq ==
    ASSUME NEW S, NEW n \in Nat, NEW f \in [1 .. n -> S]
    PROVE  f \in Seq(S)
  OBVIOUS

LEMMA NarrowSeq ==
    ASSUME NEW S, NEW T, NEW s \in Seq(S), \A n \in DOMAIN s : s[n] \in T
    PROVE  s \in Seq(T)
<1>1. DOMAIN s = 1 .. Len(s) /\ Len(s) \in Nat
  OBVIOUS
<1>2. s \in [1 .. Len(s) -> T]
  BY <1>1
<1> QED
  BY <1>1, <1>2, FunctionIsSeq

-----------------------------------------------------------------------------
(* Type correctness is inductive by itself.                                  *)

LEMMA NoTokenType == NoToken \in Tokens
  BY DEF Tokens

LEMMA NewTokenType ==
    ASSUME NEW kind \in Kinds, NEW f \in Nat, NEW snap \in Seq(Instant)
    PROVE  [kind |-> kind, frame |-> f, snapshot |-> snap] \in Tokens
  BY DEF Tokens

LEMMA InitType == Init => TypeOK
<1> SUFFICES ASSUME Init PROVE TypeOK
  OBVIOUS
<1>1. /\ instructions \in Seq(Instrs) /\ snapshot \in Seq(Instant)
      /\ handles \in Seq(Inputs) /\ acquired \in Seq(Inputs)
      /\ registrations \in Seq(Inputs) /\ queue \in Seq(Inputs)
      /\ answers \in Seq(Instant \cup {NoAnswer})
  BY EmptySeq DEF Init
<1>2. token \in [Calls -> Tokens]
  BY NoTokenType DEF Init
<1>3. total \in Nat /\ available \in Nat
  BY ClockAssumption DEF Init
<1> QED
  BY <1>1, <1>2, <1>3 DEF Init, TypeOK, Kinds

LEMMA CallerType == TypeOK /\ Caller => TypeOK'
<1> SUFFICES ASSUME TypeOK, NEW c \in Calls,
                    \/ \E kind \in Kinds : Ask(c, kind)
                    \/ Cancel(c) \/ Finish(c) \/ Clone(c) \/ DropClone(c)
             PROVE  TypeOK'
  BY DEF Caller
<1> USE DEF TypeOK, clockVars, guardVars, acquireVars, indexerVars, callVars
<1>1. ASSUME NEW kind \in Kinds, Ask(c, kind) PROVE TypeOK'
  <2>1. InstrOf(kind, c) \in Instrs
    BY DEF InstrOf, Instrs
  <2> QED
    BY <1>1, <2>1 DEF Ask
<1>2. CASE Cancel(c)
  BY <1>2 DEF Cancel
<1>3. CASE Clone(c)
  BY <1>3 DEF Clone
<1>4. ASSUME GivesBack(c) PROVE token' \in [Calls -> Tokens] /\ available' \in Nat
  <2>1. CASE call'[c] = "running" \/ clones'[c] > 0
    BY <1>4, <2>1 DEF GivesBack
  <2>2. CASE ~(call'[c] = "running" \/ clones'[c] > 0)
    <3>1. token' = [token EXCEPT ![c] = NoToken] /\ available' = available + 1
      BY <1>4, <2>2 DEF GivesBack
    <3> QED
      BY <3>1, NoTokenType
  <2> QED
    BY <2>1, <2>2
<1>5. CASE Finish(c)
  BY <1>4, <1>5 DEF Finish
<1>6. CASE DropClone(c)
  BY <1>4, <1>6 DEF DropClone
<1> QED
  BY <1>1, <1>2, <1>3, <1>5, <1>6

LEMMA GrantType ==
    ASSUME TypeOK, NEW c \in Calls, NEW kind \in Kinds, NEW f \in Nat,
           NEW snap \in Seq(Instant), Grant(c, kind, f, snap)
    PROVE  /\ call' \in [Calls -> {"idle", "waiting", "cancelled", "running"}]
           /\ clones' \in [Calls -> Nat]
           /\ token' \in [Calls -> Tokens]
           /\ total' \in Nat
           /\ available' \in Nat
<1>1. token' \in [Calls -> Tokens]
  <2>1. CASE call[c] = "waiting"
    <3>1. token' = [token EXCEPT ![c] =
                       [kind |-> kind, frame |-> f, snapshot |-> snap]]
      BY <2>1 DEF Grant
    <3> QED
      BY <3>1, NewTokenType DEF TypeOK
  <2>2. CASE call[c] # "waiting"
    BY <2>2 DEF Grant, TypeOK
  <2> QED
    BY <2>1, <2>2
<1>2. Added \in Nat /\ available + Added - 1 \in Nat
  BY ClockAssumption DEF TypeOK, Added
<1>3. total' \in Nat /\ available' \in Nat
  BY <1>2 DEF TypeOK, Grant
<1> QED
  BY <1>1, <1>3 DEF TypeOK, Grant

LEMMA ClockTaskType == TypeOK /\ ClockTask => TypeOK'
<1> SUFFICES ASSUME TypeOK, ClockTask PROVE TypeOK'
  OBVIOUS
<1> USE DEF TypeOK, clockVars, guardVars, acquireVars, indexerVars, callVars
<1>1. CASE JoinQueryPhase
  <2>1. Head(instructions) \in Instrs /\ Tail(instructions) \in Seq(Instrs)
    BY <1>1, HeadTailProperties DEF JoinQueryPhase
  <2>2. Head(instructions).by \in Calls /\ "Query" \in Kinds
    BY <2>1 DEF Instrs, Kinds
  <2> QED
    BY <1>1, <2>1, <2>2, GrantType DEF JoinQueryPhase
<1>2. CASE TakeInstr
  <2>1. Head(instructions) \in Instrs /\ Tail(instructions) \in Seq(Instrs)
    BY <1>2, HeadTailProperties DEF TakeInstr
  <2> QED
    BY <1>2, <2>1 DEF TakeInstr
<1>3. CASE NextMutation
  <2>1. instr.by \in Calls /\ "Mutation" \in Kinds /\ <<>> \in Seq(Instant)
    BY <1>3 DEF NextMutation, Instrs, Kinds
  <2> QED
    BY <1>3, <2>1, GrantType DEF NextMutation, AwaitNextInstr
<1>4. CASE AskIndexer
  BY <1>4 DEF AskIndexer
<1>5. ASSUME UpdateHandles PROVE handles' \in Seq(Inputs) /\ acquired' \in Seq(Inputs)
  BY <1>5 DEF UpdateHandles
<1>6. CASE StartMutation
  <2>1. /\ instr.by \in Calls /\ "Mutation" \in Kinds /\ <<>> \in Seq(Instant)
        /\ current' \in Nat
    BY <1>6 DEF StartMutation, UpdateHandles, Instrs, Kinds
  <2> QED
    BY <1>5, <1>6, <2>1, GrantType DEF StartMutation, UpdateHandles, AwaitNextInstr
<1>7. CASE AskInstants
  <2>1. answers' \in Seq(Instant \cup {NoAnswer})
    <3>1. DOMAIN handles' = 1 .. Len(handles') /\ Len(handles') \in Nat
      BY <1>5, <1>7 DEF AskInstants
    <3>2. answers' \in [1 .. Len(handles') -> Instant \cup {NoAnswer}]
      BY <1>7, <3>1 DEF AskInstants
    <3> QED
      BY <3>1, <3>2, FunctionIsSeq
  <2> QED
    BY <1>5, <1>7, <2>1 DEF AskInstants, UpdateHandles
<1>8. CASE StartQuery
  <2>1. answers \in Seq(Instant)
    <3>1. \A n \in DOMAIN answers : answers[n] \in Instant
      BY <1>8 DEF StartQuery
    <3> QED
      BY <3>1, NarrowSeq
  <2>2. instr.by \in Calls /\ "Query" \in Kinds
    BY <1>8 DEF StartQuery, Instrs, Kinds
  <2> QED
    BY <1>8, <2>1, <2>2, GrantType, SMTT(30) DEF StartQuery, AwaitNextInstr
<1> QED
  BY <1>1, <1>2, <1>3, <1>4, <1>6, <1>7, <1>8 DEF ClockTask

LEMMA IndexerType == TypeOK /\ (IndexerTask \/ AnyInput) => TypeOK'
<1> SUFFICES ASSUME TypeOK, IndexerTask \/ AnyInput PROVE TypeOK'
  OBVIOUS
<1> USE DEF TypeOK, clockVars, guardVars, acquireVars, indexerVars, callVars
<1>1. CASE ServeRegistration
  <2>1. Head(registrations) \in Inputs /\ Tail(registrations) \in Seq(Inputs)
    BY <1>1, HeadTailProperties DEF ServeRegistration
  <2> QED
    BY <1>1, <2>1, SMTT(30) DEF ServeRegistration
<1>2. CASE NoRegistration
  BY <1>2 DEF NoRegistration
<1>3. CASE ServeAcquire
  BY <1>3, EmptySeq DEF ServeAcquire
<1>4. CASE PollAgain
  BY <1>4 DEF PollAgain
<1>5. ASSUME NEW i \in Inputs, Register(i) PROVE TypeOK'
  BY <1>5 DEF Register
<1>6. ASSUME NEW n \in DOMAIN answers, NEW instant \in Instant, Answer(n, instant)
      PROVE  TypeOK'
  BY <1>6, SMTT(30) DEF Answer
<1> QED
  BY <1>1, <1>2, <1>3, <1>4, <1>5, <1>6 DEF IndexerTask, AnyInput

LEMMA TypeStep == TypeOK /\ [Next]_vars => TypeOK'
<1>1. TypeOK /\ UNCHANGED vars => TypeOK'
  BY DEF TypeOK, vars, clockVars, guardVars, acquireVars, indexerVars, callVars
<1> QED
  BY <1>1, CallerType, ClockTaskType, IndexerType DEF Next

(* Every variable keeps its type: the clock never runs out of permits (the   *)
(* unwrap of try_acquire_owned), whatever the size of the pool.              *)
THEOREM TypeCorrect == Spec => []TypeOK
  BY InitType, TypeStep, PTL DEF Spec

-----------------------------------------------------------------------------
(* Permits and live tokens.                                                  *)

LEMMA LiveCalls == Live \subseteq Calls /\ Live' \subseteq Calls
  BY DEF Live

LEMMA LiveFinite == IsFiniteSet(Live) /\ Cardinality(Live) \in Nat
  BY LiveCalls, ClockAssumption, FS_Subset, FS_CardinalityType DEF ClockAssumption

(* Giving c its token adds c to the live tokens, unless it was cancelled,    *)
(* and keeps the balance.                                                    *)
LEMMA GrantLive ==
    ASSUME TypeOK, PermitBalance, NEW c \in Calls, Awaits(c), NEW kind, NEW f,
           NEW snap, Grant(c, kind, f, snap)
    PROVE  /\ Live' \subseteq Live \cup {c}
           /\ c \notin Live
           /\ c \in Live' =>
                token'[c] = [kind |-> kind, frame |-> f, snapshot |-> snap]
           /\ \A d \in Live : token'[d] = token[d]
           /\ \A d \in Calls \ {c} : call'[d] = call[d] /\ clones'[d] = clones[d]
           /\ PermitBalance'
<1>0. \A d \in Calls \ {c} : call'[d] = call[d] /\ clones'[d] = clones[d]
  BY DEF Grant, TypeOK
<1>1. c \notin Live
  BY DEF Live, Holds, Awaits, TypeOK
<1>2. \A d \in Calls \ {c} : d \in Live' <=> d \in Live
  BY <1>0 DEF Live, Holds
<1>3. \A d \in Live : d \in Calls \ {c}
  BY <1>1 DEF Live
<1>4. \A d \in Live : token'[d] = token[d]
  BY <1>3 DEF Grant, TypeOK
<1>5. Added \in Nat /\ total \in Nat /\ available \in Nat
  BY ClockAssumption DEF Added, TypeOK
<1>6. CASE call[c] = "waiting"
  <2>1. c \in Live'
    BY <1>6 DEF Live, Holds, Grant, TypeOK
  <2>2. Live' = Live \cup {c}
    BY <1>2, <2>1, LiveCalls
  <2>3. Cardinality(Live') = Cardinality(Live) + 1
    BY <1>1, <2>2, LiveFinite, FS_AddElement
  <2>4. total' = total + Added /\ available' = available + Added - 1
    BY <1>6 DEF Grant
  <2>5. PermitBalance'
    BY <1>5, <2>3, <2>4, LiveFinite DEF PermitBalance
  <2>6. token'[c] = [kind |-> kind, frame |-> f, snapshot |-> snap]
    BY <1>6 DEF Grant, TypeOK
  <2> QED
    BY <1>0, <1>1, <1>4, <2>2, <2>5, <2>6
<1>7. CASE call[c] # "waiting"
  <2>1. c \notin Live'
    BY <1>7 DEF Live, Holds, Grant, TypeOK, Awaits
  <2>2. Live' = Live
    BY <1>1, <1>2, <2>1, LiveCalls
  <2>3. total' = total + Added /\ available' = available + Added
    BY <1>7 DEF Grant
  <2>4. PermitBalance'
    BY <1>5, <2>2, <2>3, LiveFinite DEF PermitBalance
  <2> QED
    BY <1>0, <1>1, <1>4, <2>2, <2>4
<1> QED
  BY <1>6, <1>7

(* The last reference to a token gives its permit back, an earlier one does  *)
(* not.                                                                      *)
LEMMA ReleaseLive ==
    ASSUME TypeOK, PermitBalance, NEW c \in Calls, Finish(c) \/ DropClone(c)
    PROVE  /\ Live' \subseteq Live
           /\ c \in Live
           /\ \A d \in Live' : token'[d] = token[d]
           /\ \A d \in Calls \ {c} : call'[d] = call[d] /\ clones'[d] = clones[d]
           /\ PermitBalance'
<1>0. \A d \in Calls \ {c} : call'[d] = call[d] /\ clones'[d] = clones[d]
  BY DEF Finish, DropClone, TypeOK
<1>1. c \in Live /\ GivesBack(c) /\ total' = total
  BY DEF Live, Holds, Finish, DropClone
<1>2. \A d \in Calls \ {c} : d \in Live' <=> d \in Live
  BY <1>0 DEF Live, Holds
<1>3. total \in Nat /\ available \in Nat
  BY DEF TypeOK
<1>4. CASE c \in Live'
  <2>1. Live' = Live
    BY <1>1, <1>2, <1>4, LiveCalls
  <2>2. token' = token /\ available' = available
    BY <1>1, <1>4 DEF GivesBack, Live, Holds
  <2> QED
    BY <1>0, <1>1, <2>1, <2>2 DEF PermitBalance
<1>5. CASE c \notin Live'
  <2>1. Live' = Live \ {c}
    BY <1>1, <1>2, <1>5, LiveCalls
  <2>2. Cardinality(Live') = Cardinality(Live) - 1
    BY <1>1, <2>1, LiveFinite, FS_RemoveElement
  <2>3. token' = [token EXCEPT ![c] = NoToken] /\ available' = available + 1
    BY <1>1, <1>5 DEF GivesBack, Live, Holds
  <2>4. PermitBalance'
    BY <1>1, <1>3, <2>2, <2>3, LiveFinite DEF PermitBalance
  <2>5. \A d \in Live' : d \in Calls \ {c}
    BY <2>1 DEF Live
  <2>6. \A d \in Live' : token'[d] = token[d]
    BY <2>3, <2>5 DEF TypeOK
  <2> QED
    BY <1>0, <1>1, <2>1, <2>4, <2>6
<1> QED
  BY <1>4, <1>5

(* When all permits are released no token is out.                            *)
LEMMA ReleasedMeansQuiet == TypeOK /\ PermitBalance /\ AllReleased => Live = {}
<1> SUFFICES ASSUME TypeOK, PermitBalance, AllReleased PROVE Live = {}
  OBVIOUS
<1>1. Cardinality(Live) = 0
  BY LiveFinite DEF TypeOK, PermitBalance, AllReleased
<1> QED
  BY <1>1, LiveFinite, FS_EmptySet

-----------------------------------------------------------------------------
(* The invariant.                                                            *)

LEMMA InitSafety == Init => Safety
<1> SUFFICES ASSUME Init PROVE Safety
  OBVIOUS
<1>1. TypeOK
  BY InitType
<1>2. Live = {}
  BY DEF Init, Live, Holds
<1>3. PermitBalance
  BY <1>1, <1>2, FS_EmptySet DEF Init, PermitBalance, TypeOK
<1>4. OneRequest
  BY DEF Init, OneRequest
<1> QED
  BY <1>1, <1>2, <1>3, <1>4
     DEF Init, Safety, PhaseExclusion, TokensFresh, QuietChange

LEMMA AppendElements ==
    ASSUME NEW S, NEW s \in Seq(S), NEW e \in S
    PROVE  /\ DOMAIN Append(s, e) = 1 .. Len(s) + 1
           /\ DOMAIN s = 1 .. Len(s)
           /\ Len(s) \in Nat
           /\ \A n \in DOMAIN s : Append(s, e)[n] = s[n]
           /\ Append(s, e)[Len(s) + 1] = e
  OBVIOUS

LEMMA SeqElements ==
    ASSUME NEW S, NEW s \in Seq(S), NEW n \in DOMAIN s PROVE s[n] \in S
  OBVIOUS

LEMMA InstrBy == \A r \in Instrs : r.by \in Calls /\ r.kind \in Kinds
  BY DEF Instrs

(* Who an instruction is from.                                               *)
LEMMA Requesters ==
    ASSUME TypeOK
    PROVE  /\ \A n \in DOMAIN instructions : instructions[n].by \in Calls
           /\ clockAt # "recv" => instr.by \in Calls
<1>1. \A n \in DOMAIN instructions : instructions[n] \in Instrs
  BY SeqElements DEF TypeOK
<1>2. clockAt # "recv" => instr \in Instrs
  BY DEF TypeOK
<1> QED
  BY <1>1, <1>2, InstrBy

(* OneRequest is about callers that await; it stays as long as they do.      *)
LEMMA OneRequestStays ==
    ASSUME TypeOK, OneRequest, UNCHANGED <<instructions, clockAt, instr>>,
           \A d \in Calls : Awaits(d) =>
              call'[d] \in {"waiting", "cancelled"} /\ clones'[d] = 0
    PROVE  OneRequest'
<1>1. \A n \in DOMAIN instructions :
        instructions[n].by \in Calls /\ Awaits(instructions[n].by)
  BY Requesters DEF OneRequest
<1>2. \A n \in DOMAIN instructions :
        /\ call'[instructions[n].by] \in {"waiting", "cancelled"}
        /\ clones'[instructions[n].by] = 0
  BY <1>1
<1>3. clockAt # "recv" =>
        call'[instr.by] \in {"waiting", "cancelled"} /\ clones'[instr.by] = 0
  BY Requesters DEF OneRequest
<1> QED
  BY <1>2, <1>3 DEF OneRequest, Awaits

(* A step that leaves calls, tokens and permits alone, and what the tokens   *)
(* are compared with.                                                        *)
LEMMA SilentSafety ==
    ASSUME Safety, UNCHANGED <<callVars, guardVars, phase, snapshot, current>>,
           OneRequest', clockAt' \in {"handles", "snapshot"} => Live = {}
    PROVE  /\ PermitBalance' /\ PhaseExclusion' /\ TokensFresh'
           /\ OneRequest' /\ QuietChange'
<1>1. Live' = Live
  BY DEF Live, Holds, callVars
<1> QED
  BY <1>1 DEF Safety, PermitBalance, PhaseExclusion, TokensFresh, QuietChange,
              callVars, guardVars

LEMMA AskSafety ==
    ASSUME Safety, NEW c \in Calls, NEW kind \in Kinds, Ask(c, kind)
    PROVE  /\ PermitBalance' /\ PhaseExclusion' /\ TokensFresh'
           /\ OneRequest' /\ QuietChange'
<1> USE DEF Safety, TypeOK
<1>1. /\ call' = [call EXCEPT ![c] = "waiting"] /\ clones' = clones
      /\ call[c] = "idle" /\ clones[c] = 0
      /\ instructions' = Append(instructions, InstrOf(kind, c))
      /\ UNCHANGED <<clockAt, instr>>
  BY DEF Ask, clockVars
<1>2. \A d \in Calls : d \in Live' <=> d \in Live
  BY <1>1 DEF Live, Holds
<1>3. Live' = Live
  BY <1>2, LiveCalls
<1>4. OneRequest'
  <2>1. \A n \in DOMAIN instructions :
          instructions[n].by \in Calls /\ instructions[n].by # c
    BY <1>1, Requesters DEF OneRequest, Awaits
  <2>2. /\ DOMAIN instructions' = 1 .. Len(instructions) + 1
        /\ DOMAIN instructions = 1 .. Len(instructions)
        /\ Len(instructions) \in Nat
        /\ \A n \in DOMAIN instructions : instructions'[n] = instructions[n]
        /\ instructions'[Len(instructions) + 1].by = c
    <3>1. InstrOf(kind, c) \in Instrs /\ InstrOf(kind, c).by = c
      BY DEF InstrOf, Instrs
    <3> QED
      BY <1>1, <3>1, AppendElements
  <2>3. \A d \in Calls : Awaits(d) => call'[d] \in {"waiting", "cancelled"} /\ clones'[d] = 0
    BY <1>1 DEF Awaits
  <2>4. call'[c] \in {"waiting", "cancelled"} /\ clones'[c] = 0
    BY <1>1
  <2>5. clockAt # "recv" => instr.by \in Calls /\ instr.by # c
    BY <1>1, Requesters DEF OneRequest, Awaits
  <2> QED
    BY <1>1, <2>1, <2>2, <2>3, <2>4, <2>5, SMTT(30) DEF OneRequest, Awaits
<1> QED
  BY <1>3, <1>4 DEF PermitBalance, PhaseExclusion, TokensFresh, QuietChange,
                    Ask, clockVars, guardVars

LEMMA CancelSafety ==
    ASSUME Safety, NEW c \in Calls, Cancel(c) \/ Clone(c)
    PROVE  /\ PermitBalance' /\ PhaseExclusion' /\ TokensFresh'
           /\ OneRequest' /\ QuietChange'
<1> USE DEF Safety, TypeOK
<1>1. /\ UNCHANGED <<token, instructions, clockAt, instr, phase, snapshot,
                    current, total, available>>
  BY DEF Cancel, Clone, clockVars, guardVars
<1>2. \A d \in Calls : d \in Live' <=> d \in Live
  BY DEF Live, Holds, Cancel, Clone
<1>3. Live' = Live
  BY <1>2, LiveCalls
<1>4. \A d \in Calls :
        Awaits(d) => call'[d] \in {"waiting", "cancelled"} /\ clones'[d] = 0
  BY DEF Awaits, Cancel, Clone, Holds
<1>5. OneRequest'
  BY <1>1, <1>4, OneRequestStays
<1> QED
  BY <1>1, <1>3, <1>5 DEF PermitBalance, PhaseExclusion, TokensFresh, QuietChange

LEMMA DropSafety ==
    ASSUME Safety, NEW c \in Calls, Finish(c) \/ DropClone(c)
    PROVE  /\ PermitBalance' /\ PhaseExclusion' /\ TokensFresh'
           /\ OneRequest' /\ QuietChange'
<1> USE DEF Safety
<1>1. UNCHANGED <<instructions, clockAt, instr, phase, snapshot, current>>
  BY DEF Finish, DropClone, clockVars
<1>2. /\ Live' \subseteq Live /\ c \in Live /\ PermitBalance'
      /\ \A d \in Live' : token'[d] = token[d]
      /\ \A d \in Calls \ {c} : call'[d] = call[d] /\ clones'[d] = clones[d]
  BY ReleaseLive
<1>3. PhaseExclusion' /\ TokensFresh' /\ QuietChange'
  BY <1>1, <1>2 DEF PhaseExclusion, TokensFresh, QuietChange
<1>4. ~ Awaits(c)
  BY <1>2 DEF Awaits, Live, Holds, TypeOK
<1>5. \A d \in Calls : Awaits(d) =>
        call'[d] \in {"waiting", "cancelled"} /\ clones'[d] = 0
  BY <1>2, <1>4 DEF Awaits
<1>6. OneRequest'
  BY <1>1, <1>5, OneRequestStays
<1> QED
  BY <1>2, <1>3, <1>6

(* The caller of the instruction the clock serves gets its token: alone, or  *)
(* as a query among queries of the same frame.                               *)
LEMMA GrantSafety ==
    ASSUME Safety, NEW c \in Calls, Awaits(c), NEW kind \in Kinds, NEW f, NEW snap,
           Grant(c, kind, f, snap), phase' = kind, current' = f, snapshot' = snap,
           Live = {} \/ (kind = "Query" /\ UNCHANGED <<phase, current, snapshot>>),
           kind = "Mutation" => snap = <<>>,
           clockAt' = "recv",
           \A n \in DOMAIN instructions' :
              /\ instructions'[n].by \in Calls \ {c}
              /\ Awaits(instructions'[n].by),
           \A m, n \in DOMAIN instructions' :
              instructions'[m].by = instructions'[n].by => m = n
    PROVE  /\ PermitBalance' /\ PhaseExclusion' /\ TokensFresh'
           /\ OneRequest' /\ QuietChange'
<1> USE DEF Safety
<1>1. /\ Live' \subseteq Live \cup {c} /\ c \notin Live /\ PermitBalance'
      /\ c \in Live' =>
           token'[c] = [kind |-> kind, frame |-> f, snapshot |-> snap]
      /\ \A d \in Live : token'[d] = token[d]
      /\ \A d \in Calls \ {c} : call'[d] = call[d] /\ clones'[d] = clones[d]
  BY GrantLive
<1>2. PhaseExclusion'
  <2>1. \A d \in Live : token'[d].kind = kind /\ kind = "Query"
    BY <1>1 DEF PhaseExclusion
  <2>2. \A d \in Live' : token'[d].kind = kind
    BY <1>1, <2>1
  <2>3. \A d \in Live' : kind = "Mutation" => Live' = {d}
    BY <1>1, <2>1
  <2> QED
    BY <2>2, <2>3 DEF PhaseExclusion
<1>3. TokensFresh'
  <2>1. \A d \in Live : token'[d].frame = f /\ token'[d].snapshot = snap
    BY <1>1 DEF TokensFresh
  <2> QED
    BY <1>1, <2>1 DEF TokensFresh
<1>4. OneRequest'
  <2>1. \A n \in DOMAIN instructions' :
          /\ call'[instructions'[n].by] \in {"waiting", "cancelled"}
          /\ clones'[instructions'[n].by] = 0
    BY <1>1 DEF Awaits
  <2> QED
    BY <2>1 DEF OneRequest, Awaits
<1>5. QuietChange'
  BY DEF QuietChange
<1> QED
  BY <1>1, <1>2, <1>3, <1>4, <1>5

(* The instruction the clock holds is from a caller that awaits, and it is   *)
(* the only one of that caller.                                              *)
LEMMA ServedRequest ==
    ASSUME TypeOK, OneRequest, clockAt # "recv"
    PROVE  /\ instr.by \in Calls /\ Awaits(instr.by)
           /\ \A n \in DOMAIN instructions :
                 /\ instructions[n].by \in Calls \ {instr.by}
                 /\ Awaits(instructions[n].by)
           /\ \A m, n \in DOMAIN instructions :
                 instructions[m].by = instructions[n].by => m = n
  BY Requesters DEF OneRequest

(* GrantSafety for the instruction the clock holds, when no token is out.    *)
LEMMA ServeSafety ==
    ASSUME Safety, clockAt # "recv", Live = {}, NEW kind \in Kinds, NEW f, NEW snap,
           Grant(instr.by, kind, f, snap), phase' = kind, current' = f,
           snapshot' = snap, kind = "Mutation" => snap = <<>>,
           clockAt' = "recv", instructions' = instructions
    PROVE  /\ PermitBalance' /\ PhaseExclusion' /\ TokensFresh'
           /\ OneRequest' /\ QuietChange'
<1>1. TypeOK /\ OneRequest
  BY DEF Safety
<1>2. instr.by \in Calls /\ Awaits(instr.by)
  BY <1>1, ServedRequest
<1>3. /\ \A n \in DOMAIN instructions' :
            /\ instructions'[n].by \in Calls \ {instr.by}
            /\ Awaits(instructions'[n].by)
      /\ \A m, n \in DOMAIN instructions' :
            instructions'[m].by = instructions'[n].by => m = n
  BY <1>1, ServedRequest
<1> QED
  BY <1>2, <1>3, GrantSafety

LEMMA HeadRequest ==
    ASSUME TypeOK, OneRequest, instructions # <<>>
    PROVE  /\ Head(instructions) \in Instrs
           /\ Head(instructions).by \in Calls /\ Awaits(Head(instructions).by)
           /\ \A n \in DOMAIN Tail(instructions) :
                 /\ Tail(instructions)[n].by \in Calls \ {Head(instructions).by}
                 /\ Awaits(Tail(instructions)[n].by)
           /\ \A m, n \in DOMAIN Tail(instructions) :
                 Tail(instructions)[m].by = Tail(instructions)[n].by => m = n
<1>1. /\ Head(instructions) = instructions[1] /\ 1 \in DOMAIN instructions
      /\ \A n \in DOMAIN Tail(instructions) :
            n + 1 \in DOMAIN instructions /\ n \in Nat \ {0}
            /\ Tail(instructions)[n] = instructions[n + 1]
  <2>1. /\ DOMAIN instructions = 1 .. Len(instructions)
        /\ Len(instructions) \in Nat \ {0}
        /\ Head(instructions) = instructions[1]
    BY DEF TypeOK
  <2>2. /\ DOMAIN Tail(instructions) = 1 .. Len(instructions) - 1
        /\ \A n \in 1 .. Len(instructions) - 1 :
              Tail(instructions)[n] = instructions[n + 1]
    BY HeadTailProperties DEF TypeOK
  <2> QED
    BY <2>1, <2>2
<1>2. Head(instructions) \in Instrs /\ Head(instructions).by \in Calls
  BY HeadTailProperties, InstrBy DEF TypeOK
<1>3. \A n \in DOMAIN Tail(instructions) :
        /\ Tail(instructions)[n].by \in Calls
        /\ Awaits(Tail(instructions)[n].by)
        /\ Tail(instructions)[n].by # Head(instructions).by
  BY <1>1, Requesters DEF OneRequest
<1>4. \A m, n \in DOMAIN Tail(instructions) :
        Tail(instructions)[m].by = Tail(instructions)[n].by => m = n
  BY <1>1 DEF OneRequest
<1>5. Awaits(Head(instructions).by)
  BY <1>1 DEF OneRequest
<1> QED
  BY <1>2, <1>3, <1>4, <1>5

LEMMA ClockTaskSafety ==
    ASSUME Safety, ClockTask
    PROVE  /\ PermitBalance' /\ PhaseExclusion' /\ TokensFresh'
           /\ OneRequest' /\ QuietChange'
<1> USE DEF Safety
<1>0. /\ current \in Nat /\ snapshot \in Seq(Instant)
      /\ "Query" \in Kinds /\ "Mutation" \in Kinds
  BY DEF TypeOK, Kinds
<1>1. CASE JoinQueryPhase
  <2>1. /\ instructions # <<>> /\ instructions' = Tail(instructions)
        /\ clockAt' = "recv" /\ phase' = "Query"
        /\ UNCHANGED <<phase, current, snapshot>>
        /\ Grant(Head(instructions).by, "Query", current, snapshot)
    BY <1>1 DEF JoinQueryPhase, clockVars
  <2> QED
    BY <1>0, <2>1, HeadRequest, GrantSafety
<1>2. CASE TakeInstr
  <2>1. /\ clockAt = "recv" /\ clockAt' = "release" /\ instructions # <<>>
        /\ instructions' = Tail(instructions) /\ instr' = Head(instructions)
        /\ UNCHANGED <<callVars, guardVars, phase, snapshot, current>>
    BY <1>2 DEF TakeInstr
  <2>2. OneRequest'
    BY <2>1, HeadRequest DEF OneRequest, Awaits, callVars
  <2> QED
    BY <2>1, <2>2, SilentSafety
<1>3. CASE NextMutation
  <2>1. /\ clockAt # "recv" /\ clockAt' = "recv" /\ instructions' = instructions
        /\ phase = "Mutation" /\ UNCHANGED <<phase, current, snapshot>>
        /\ AllReleased /\ Grant(instr.by, "Mutation", current, <<>>)
    BY <1>3 DEF NextMutation, AwaitNextInstr
  <2>2. Live = {} /\ snapshot = <<>>
    BY <2>1, ReleasedMeansQuiet DEF QuietChange
  <2> QED
    BY <1>0, <2>1, <2>2, ServeSafety
<1>4. CASE AskIndexer
  <2>1. /\ clockAt = "release" /\ clockAt' = "handles" /\ AllReleased
        /\ UNCHANGED <<callVars, guardVars, phase, snapshot, current,
                      instructions, instr>>
    BY <1>4 DEF AskIndexer
  <2>2. Live = {}
    BY <2>1, ReleasedMeansQuiet
  <2>3. OneRequest'
    BY <2>1 DEF OneRequest, Awaits, callVars
  <2> QED
    BY <2>1, <2>2, <2>3, SilentSafety
<1>5. CASE StartMutation
  <2>1. /\ clockAt = "handles" /\ clockAt' = "recv" /\ instructions' = instructions
        /\ phase' = "Mutation" /\ current' = current + 1 /\ snapshot' = <<>>
        /\ Grant(instr.by, "Mutation", current + 1, <<>>)
    BY <1>5 DEF StartMutation, UpdateHandles, AwaitNextInstr, Grant
  <2>2. Live = {}
    BY <2>1 DEF QuietChange
  <2> QED
    BY <1>0, <2>1, <2>2, ServeSafety
<1>6. CASE AskInstants
  <2>1. /\ clockAt = "handles" /\ clockAt' = "snapshot"
        /\ UNCHANGED <<callVars, guardVars, phase, snapshot, current,
                      instructions, instr>>
    BY <1>6 DEF AskInstants, UpdateHandles
  <2>2. Live = {}
    BY <2>1 DEF QuietChange
  <2>3. OneRequest'
    BY <2>1 DEF OneRequest, Awaits, callVars
  <2> QED
    BY <2>1, <2>2, <2>3, SilentSafety
<1>7. CASE StartQuery
  <2>1. /\ clockAt = "snapshot" /\ clockAt' = "recv" /\ instructions' = instructions
        /\ phase' = "Query" /\ current' = current /\ snapshot' = answers
        /\ Grant(instr.by, "Query", current, answers)
    BY <1>7 DEF StartQuery, AwaitNextInstr, Grant
  <2>2. Live = {}
    BY <2>1 DEF QuietChange
  <2> QED
    BY <1>0, <2>1, <2>2, ServeSafety
<1> QED
  BY <1>1, <1>2, <1>3, <1>4, <1>5, <1>6, <1>7 DEF ClockTask

(* The indexer and the inputs do not touch what the invariant is about.      *)
LEMMA QuietSafety ==
    ASSUME Safety, IndexerTask \/ AnyInput \/ UNCHANGED vars
    PROVE  /\ PermitBalance' /\ PhaseExclusion' /\ TokensFresh'
           /\ OneRequest' /\ QuietChange'
<1> USE DEF Safety
<1>1. UNCHANGED <<callVars, guardVars, instructions, clockAt, instr, phase,
                  snapshot, current>>
  <2>1. CASE IndexerTask
    BY <2>1 DEF IndexerTask, ServeRegistration, NoRegistration, ServeAcquire,
                PollAgain, clockVars
  <2>2. CASE AnyInput
    BY <2>2 DEF AnyInput, Register, Answer, clockVars
  <2>3. CASE UNCHANGED vars
    BY <2>3 DEF vars, clockVars
  <2> QED
    BY <2>1, <2>2, <2>3
<1>2. OneRequest'
  BY <1>1 DEF OneRequest, Awaits, callVars
<1> QED
  BY <1>1, <1>2, SilentSafety DEF QuietChange

LEMMA NextSafety == Safety /\ [Next]_vars => Safety'
<1> SUFFICES ASSUME Safety, [Next]_vars PROVE Safety'
  OBVIOUS
<1>1. TypeOK'
  BY TypeStep DEF Safety
<1>2. CASE Caller
  BY <1>1, <1>2, AskSafety, CancelSafety, DropSafety DEF Caller, Safety
<1>3. CASE ClockTask
  BY <1>1, <1>3, ClockTaskSafety DEF Safety
<1>4. CASE IndexerTask \/ AnyInput \/ UNCHANGED vars
  BY <1>1, <1>4, QuietSafety DEF Safety
<1> QED
  BY <1>2, <1>3, <1>4 DEF Next

THEOREM SafetyHolds == Spec => []Safety
  BY InitSafety, NextSafety, PTL DEF Spec

(* ClockGuard counts the live tokens, and nothing else: release_all waits    *)
(* for all of them and for no permit lost on the way.                        *)
THEOREM PermitsBalance == Spec => []PermitBalance
<1>1. Safety => PermitBalance
  BY DEF Safety
<1> QED
  BY <1>1, SafetyHolds, PTL

(* Mutations exclude queries and one another, with the requests still queued *)
(* at nodes under their tokens.                                              *)
THEOREM PhasesExclude == Spec => []PhaseExclusion
<1>1. Safety => PhaseExclusion
  BY DEF Safety
<1> QED
  BY <1>1, SafetyHolds, PTL

(* No token outlives the frame and the snapshot it was made for.             *)
THEOREM TokensStayFresh == Spec => []TokensFresh
<1>1. Safety => TokensFresh
  BY DEF Safety
<1> QED
  BY <1>1, SafetyHolds, PTL

(* The clock changes phase, frame and snapshot under no token.               *)
THEOREM NothingMovesUnderToken == Spec => StillUnderToken
<1>1. Safety /\ [Next]_vars => [Live # {} => UNCHANGED <<phase, current, snapshot>>]_vars
  <2> SUFFICES ASSUME Safety, Next, Live # {}
               PROVE  UNCHANGED <<phase, current, snapshot>>
    OBVIOUS
  <2>1. clockAt \notin {"handles", "snapshot"}
    BY DEF Safety, QuietChange
  <2>2. CASE ClockTask
    BY <2>1, <2>2 DEF ClockTask, JoinQueryPhase, TakeInstr, NextMutation, AskIndexer,
         StartMutation, AskInstants, StartQuery, UpdateHandles, clockVars
  <2>3. CASE Caller
    BY <2>3 DEF Caller, Ask, Cancel, Finish, Clone, DropClone, clockVars
  <2>4. CASE AnyInput
    BY <2>4 DEF AnyInput, Register, Answer, clockVars
  <2>5. CASE IndexerTask
    BY <2>5 DEF IndexerTask, ServeRegistration, NoRegistration, ServeAcquire,
                PollAgain, clockVars
  <2> QED
    BY <2>2, <2>3, <2>4, <2>5 DEF Next
<1> QED
  BY <1>1, SafetyHolds, PTL DEF Spec, StillUnderToken

-----------------------------------------------------------------------------
(* Indices.                                                                  *)

LEMMA ConcatAppend ==
    ASSUME NEW S, NEW s \in Seq(S), NEW t \in Seq(S), NEW e \in S
    PROVE  s \o Append(t, e) = Append(s \o t, e)
  OBVIOUS

LEMMA KnownType == TypeOK => Known \in Seq(Inputs)
  BY DEF TypeOK, Known

(* A registration that is served grows Known at its end.                     *)
LEMMA KnownGrows ==
    ASSUME TypeOK, ServeRegistration
    PROVE  /\ Head(registrations) \in Inputs
           /\ Known' = Append(Known, Head(registrations))
           /\ assigned' = [assigned EXCEPT ![Head(registrations)] = index]
           /\ index' = index + 1
           /\ UNCHANGED <<handles, acquireAsked, acquired, clockAt>>
<1>1. /\ Head(registrations) \in Inputs
      /\ queue' = Append(queue, Head(registrations))
      /\ assigned' = [assigned EXCEPT ![Head(registrations)] = index]
      /\ index' = index + 1
      /\ UNCHANGED <<handles, acquireAsked, acquired, clockAt>>
  BY HeadTailProperties DEF ServeRegistration, TypeOK, clockVars, acquireVars
<1>2. handles \o acquired \in Seq(Inputs) /\ queue \in Seq(Inputs)
  BY DEF TypeOK
<1>3. (handles \o acquired) \o Append(queue, Head(registrations))
         = Append((handles \o acquired) \o queue, Head(registrations))
  BY <1>1, <1>2, ConcatAppend
<1> QED
  BY <1>1, <1>3 DEF Known

(* Every other step moves handles on from the indexer to the clock, at most. *)
LEMMA KnownStays ==
    ASSUME TypeOK, NoHandleLost, [Next]_vars, ~ServeRegistration
    PROVE  /\ Known' = Known /\ UNCHANGED <<assigned, index>>
           /\ acquireAsked' => clockAt' = "handles" /\ acquired' = <<>>
           /\ clockAt' # "handles" => acquired' = <<>>
<1>1. ASSUME UNCHANGED <<handles, queue, acquireAsked, acquired, clockAt,
                         assigned, index>>
      PROVE  /\ Known' = Known /\ UNCHANGED <<assigned, index>>
             /\ acquireAsked' => clockAt' = "handles" /\ acquired' = <<>>
             /\ clockAt' # "handles" => acquired' = <<>>
  BY <1>1 DEF NoHandleLost, Known
<1>2. CASE ServeAcquire
  <2>1. /\ acquireAsked /\ ~acquireAsked' /\ acquired' = queue /\ queue' = <<>>
        /\ UNCHANGED <<handles, clockAt, assigned, index>>
    BY <1>2 DEF ServeAcquire, clockVars
  <2>2. acquired = <<>> /\ clockAt = "handles"
    BY <2>1 DEF NoHandleLost
  <2>3. handles \o <<>> = handles /\ (handles \o queue) \o <<>> = handles \o queue
    BY ConcatEmptySeq DEF TypeOK
  <2> QED
    BY <2>1, <2>2, <2>3 DEF Known
<1>3. CASE StartMutation \/ AskInstants
  <2>1. /\ clockAt = "handles" /\ ~acquireAsked /\ ~acquireAsked'
        /\ handles' = handles \o acquired /\ acquired' = <<>>
        /\ UNCHANGED <<queue, assigned, index>>
    BY <1>3 DEF StartMutation, AskInstants, UpdateHandles, indexerVars
  <2>2. (handles \o acquired) \o <<>> = handles \o acquired
    BY ConcatEmptySeq DEF TypeOK
  <2> QED
    BY <2>1, <2>2 DEF Known
<1>4. CASE AskIndexer
  <2>1. /\ clockAt = "release" /\ clockAt' = "handles"
        /\ UNCHANGED <<handles, queue, acquired, assigned, index>>
    BY <1>4 DEF AskIndexer, indexerVars
  <2> QED
    BY <2>1 DEF NoHandleLost, Known
<1>5. CASE TakeInstr \/ NextMutation \/ StartQuery
  <2>1. /\ clockAt # "handles" /\ clockAt' # "handles"
        /\ UNCHANGED <<handles, queue, acquireAsked, acquired, assigned, index>>
    BY <1>5 DEF TakeInstr, NextMutation, StartQuery, AwaitNextInstr,
                acquireVars, indexerVars
  <2> QED
    BY <2>1 DEF NoHandleLost, Known
<1>6. CASE JoinQueryPhase \/ Caller \/ NoRegistration \/ PollAgain \/ UNCHANGED vars
  BY <1>1, <1>6 DEF JoinQueryPhase, Caller, Ask, Cancel, Finish, Clone, DropClone,
       NoRegistration, PollAgain, vars, clockVars, acquireVars, indexerVars
<1>7. CASE AnyInput
  BY <1>1, <1>7 DEF AnyInput, Register, Answer, clockVars, acquireVars, indexerVars
<1> QED
  BY <1>2, <1>3, <1>4, <1>5, <1>6, <1>7 DEF Next, ClockTask, IndexerTask

LEMMA IndexStep ==
    TypeOK /\ IndexIsPlace /\ NoHandleLost /\ [Next]_vars
        => IndexIsPlace' /\ NoHandleLost'
<1> SUFFICES ASSUME TypeOK, IndexIsPlace, NoHandleLost, [Next]_vars
             PROVE  IndexIsPlace' /\ NoHandleLost'
  OBVIOUS
<1>1. CASE ~ServeRegistration
  BY <1>1, KnownStays DEF IndexIsPlace, NoHandleLost
<1>2. CASE ServeRegistration
  <2>1. /\ Head(registrations) \in Inputs
        /\ Known' = Append(Known, Head(registrations))
        /\ assigned' = [assigned EXCEPT ![Head(registrations)] = index]
        /\ index' = index + 1
        /\ UNCHANGED <<handles, acquireAsked, acquired, clockAt>>
    BY <1>2, KnownGrows
  <2>2. /\ DOMAIN Known' = 1 .. Len(Known) + 1
        /\ DOMAIN Known = 1 .. Len(Known)
        /\ Len(Known) \in Nat
        /\ \A n \in DOMAIN Known : Known'[n] = Known[n]
        /\ Known'[Len(Known) + 1] = Head(registrations)
        /\ Len(Known') = Len(Known) + 1
    BY <2>1, KnownType, AppendElements
  <2>3. IndexIsPlace'
    <3> SUFFICES ASSUME NEW i \in Inputs, assigned'[i] # NoIndex
                 PROVE  assigned'[i] + 1 \in DOMAIN Known' /\ Known'[assigned'[i] + 1] = i
      BY DEF IndexIsPlace
    <3>1. CASE i = Head(registrations)
      <4>1. index = Len(Known) /\ assigned'[i] = index
        BY <2>1, <3>1 DEF TypeOK, NoHandleLost
      <4> QED
        BY <2>2, <3>1, <4>1
    <3>2. CASE i # Head(registrations)
      <4>1. assigned'[i] = assigned[i]
        BY <2>1, <3>2 DEF TypeOK
      <4>2. assigned[i] + 1 \in DOMAIN Known /\ Known[assigned[i] + 1] = i
        BY <4>1 DEF IndexIsPlace
      <4> QED
        BY <2>2, <4>1, <4>2
    <3> QED
      BY <3>1, <3>2
  <2>4. NoHandleLost'
    BY <2>1, <2>2 DEF NoHandleLost
  <2> QED
    BY <2>3, <2>4
<1> QED
  BY <1>1, <1>2

(* An input finds its own instant at its own index, however its registration *)
(* raced the phase changes of the clock.                                     *)
THEOREM IndicesArePlaces == Spec => [](IndexIsPlace /\ NoHandleLost)
<1>1. Init => IndexIsPlace /\ NoHandleLost
  BY DEF Init, IndexIsPlace, NoHandleLost, Known
<1> QED
  BY <1>1, TypeCorrect, IndexStep, PTL DEF Spec

-----------------------------------------------------------------------------
(* Clock implements PhaseLock: every step of the clock, the indexer, a call  *)
(* or an input is a step of the fair reader-writer lock or leaves the lock   *)
(* alone.  The lock's queue is Pending, which the clock takes apart when it  *)
(* keeps an instruction in its hands across an await.                        *)

(* The lock's view of a call follows from whether its token is alive.        *)
LEMMA HeldIs ==
    ASSUME TypeOK, PhaseExclusion, NEW c \in Calls
    PROVE  Held[c] = IF c \in Live THEN phase ELSE "none"
  BY DEF Held, Live, PhaseExclusion

LEMMA HeldSame ==
    ASSUME \A d \in Calls : d \in Live' <=> d \in Live,
           \A d \in Live : token'[d] = token[d]
    PROVE  Held' = Held
<1>1. \A d \in Calls : Held'[d] = Held[d]
  BY DEF Held, Live
<1>2. Held = [d \in Calls |-> Held[d]] /\ Held' = [d \in Calls |-> Held'[d]]
  BY DEF Held
<1> QED
  BY <1>1, <1>2

LEMMA PendingType == TypeOK => Pending \in Seq(Instrs)
<1> SUFFICES ASSUME TypeOK PROVE Pending \in Seq(Instrs)
  OBVIOUS
<1>1. CASE clockAt = "recv"
  BY <1>1 DEF TypeOK, Pending
<1>2. CASE clockAt # "recv"
  <2>1. <<instr>> \in Seq(Instrs) /\ instructions \in Seq(Instrs)
    BY <1>2 DEF TypeOK
  <2>2. <<instr>> \o instructions \in Seq(Instrs)
    BY <2>1, ConcatProperties
  <2> QED
    BY <1>2, <2>2 DEF Pending
<1> QED
  BY <1>1, <1>2

LEMMA ConsProperties ==
    ASSUME NEW S, NEW e \in S, NEW s \in Seq(S)
    PROVE  /\ <<e>> \o s # <<>>
           /\ Head(<<e>> \o s) = e
           /\ Tail(<<e>> \o s) = s
  OBVIOUS

LEMMA HeadConsTail ==
    ASSUME NEW S, NEW s \in Seq(S), s # <<>>
    PROVE  <<Head(s)>> \o Tail(s) = s
  OBVIOUS

(* The instruction the clock is about to answer is the head of the queue.    *)
LEMMA PendingHead ==
    ASSUME TypeOK, clockAt # "recv", clockAt' = "recv", instructions' = instructions
    PROVE  Pending # <<>> /\ Head(Pending) = instr /\ Pending' = Tail(Pending)
<1>1. instr \in Instrs /\ instructions \in Seq(Instrs)
  BY DEF TypeOK
<1> QED
  BY <1>1, ConsProperties DEF Pending

(* Whoever has an instruction in the queue awaits.                           *)
LEMMA PendingAwaits ==
    ASSUME TypeOK, OneRequest
    PROVE  \A n \in DOMAIN Pending : Awaits(Pending[n].by)
<1>1. CASE clockAt = "recv"
  BY <1>1 DEF Pending, OneRequest
<1>2. CASE clockAt # "recv"
  <2>1. Pending = <<instr>> \o instructions /\ instructions \in Seq(Instrs)
    BY <1>2 DEF Pending, TypeOK
  <2>2. \A n \in DOMAIN Pending :
          Pending[n] = instr \/ \E m \in DOMAIN instructions : Pending[n] = instructions[m]
    BY <2>1
  <2> QED
    BY <1>2, <2>2 DEF OneRequest
<1> QED
  BY <1>1, <1>2

LEMMA LiveNotCancelled ==
    ASSUME Safety, NoOneForgotten, NEW c \in Live PROVE call[c] # "cancelled"
<1>1. c \in Calls
  BY LiveCalls
<1>2. SUFFICES ASSUME call[c] = "cancelled" PROVE FALSE
  OBVIOUS
<1>3. PICK n \in DOMAIN Pending : Pending[n].by = c
  BY <1>1, <1>2 DEF NoOneForgotten
<1>4. Awaits(c)
  BY <1>3, PendingAwaits DEF Safety
<1> QED
  BY <1>4, <1>2 DEF Awaits, Live, Holds

-----------------------------------------------------------------------------
(* Steps of the lock.                                                        *)

LEMMA AskRequests ==
    ASSUME Safety, NEW c \in Calls, NEW kind \in Kinds, Ask(c, kind)
    PROVE  /\ Pending' = Append(Pending, InstrOf(kind, c))
           /\ Lock!Request(c, kind)
<1> USE DEF Safety
<1>1. /\ call[c] = "idle" /\ clones[c] = 0
      /\ call' = [call EXCEPT ![c] = "waiting"] /\ clones' = clones
      /\ instructions' = Append(instructions, InstrOf(kind, c))
      /\ UNCHANGED <<token, clockAt, instr, phase, current>>
  BY DEF Ask, clockVars
<1>2. InstrOf(kind, c) \in Instrs
  BY DEF InstrOf, Instrs
<1>3. Pending' = Append(Pending, InstrOf(kind, c))
  <2>1. CASE clockAt = "recv"
    BY <1>1, <2>1 DEF Pending
  <2>2. CASE clockAt # "recv"
    <3>1. <<instr>> \in Seq(Instrs) /\ instructions \in Seq(Instrs)
      BY <2>2 DEF TypeOK
    <3>2. <<instr>> \o Append(instructions, InstrOf(kind, c))
             = Append(<<instr>> \o instructions, InstrOf(kind, c))
      BY <1>2, <3>1, ConcatAppend
    <3> QED
      BY <1>1, <2>2, <3>2 DEF Pending
  <2> QED
    BY <2>1, <2>2
<1>4. Held[c] = "none"
  BY <1>1 DEF Held, Holds
<1>5. Held' = Held
  <2>1. \A d \in Calls : d \in Live' <=> d \in Live
    BY <1>1 DEF Live, Holds, TypeOK
  <2> QED
    BY <1>1, <2>1, HeldSame
<1>6. Abandoned' = Abandoned
  <2>1. \A d \in Calls : call'[d] = "cancelled" <=> call[d] = "cancelled"
    BY <1>1 DEF TypeOK
  <2> QED
    BY <2>1 DEF Abandoned
<1>7. c \notin {Pending[n].by : n \in DOMAIN Pending}
  BY <1>1, PendingAwaits DEF Awaits
<1> QED
  BY <1>1, <1>3, <1>4, <1>5, <1>6, <1>7 DEF Lock!Request, Lock!QueuedCalls, InstrOf

LEMMA CancelAbandons ==
    ASSUME Safety, NoOneForgotten, NEW c \in Calls, Cancel(c)
    PROVE  Lock!Abandon(c)
<1> USE DEF Safety
<1>1. /\ call[c] = "waiting" /\ call' = [call EXCEPT ![c] = "cancelled"]
      /\ UNCHANGED <<clones, token, instructions, clockAt, instr, phase, current>>
  BY DEF Cancel, clockVars
<1>2. Pending' = Pending
  BY <1>1 DEF Pending
<1>3. Held' = Held
  <2>1. \A d \in Calls : d \in Live' <=> d \in Live
    BY <1>1 DEF Live, Holds, TypeOK
  <2> QED
    BY <1>1, <2>1, HeldSame
<1>4. Abandoned' = Abandoned \cup {c} /\ c \notin Abandoned
  <2>1. \A d \in Calls :
          call'[d] = "cancelled" <=> (call[d] = "cancelled" \/ d = c)
    BY <1>1 DEF TypeOK
  <2> QED
    BY <1>1, <2>1 DEF Abandoned
<1>5. c \in {Pending[n].by : n \in DOMAIN Pending}
  BY <1>1 DEF NoOneForgotten
<1> QED
  BY <1>1, <1>2, <1>3, <1>4, <1>5 DEF Lock!Abandon, Lock!QueuedCalls

(* The end of a context or of a request under a token releases the lock if   *)
(* it was the last, and is no step of the lock otherwise.                    *)
LEMMA DropReleases ==
    ASSUME Safety, NoOneForgotten, NEW c \in Calls, Finish(c) \/ DropClone(c)
    PROVE  Lock!Release(c) \/ UNCHANGED Lock!lockVars
<1> USE DEF Safety
<1>1. UNCHANGED <<instructions, clockAt, instr, phase, current>>
  BY DEF Finish, DropClone, clockVars
<1>2. Pending' = Pending
  BY <1>1 DEF Pending
<1>3. /\ Live' \subseteq Live /\ c \in Live
      /\ \A d \in Live' : token'[d] = token[d]
      /\ \A d \in Calls \ {c} : call'[d] = call[d] /\ clones'[d] = clones[d]
  BY ReleaseLive
<1>4. Abandoned' = Abandoned
  <2>1. call[c] # "cancelled" /\ call'[c] # "cancelled"
    BY <1>3, LiveNotCancelled DEF Finish, DropClone, TypeOK
  <2>2. \A d \in Calls : call'[d] = "cancelled" <=> call[d] = "cancelled"
    BY <1>3, <2>1
  <2> QED
    BY <2>2 DEF Abandoned
<1>5. \A d \in Calls \ {c} : d \in Live' <=> d \in Live
  BY <1>3 DEF Live, Holds
<1>6. CASE c \in Live'
  <2>1. Held' = Held
    <3>1. \A d \in Calls : d \in Live' <=> d \in Live
      BY <1>3, <1>5, <1>6
    <3>2. \A d \in Live : token'[d] = token[d]
      BY <1>3, <3>1, LiveCalls
    <3> QED
      BY <3>1, <3>2, HeldSame
  <2> QED
    BY <1>1, <1>2, <1>4, <2>1 DEF Lock!lockVars
<1>7. CASE c \notin Live'
  <2>1. Held[c] # "none"
    BY <1>3, HeldIs DEF TypeOK, Kinds
  <2>2. Held' = [Held EXCEPT ![c] = "none"]
    <3>1. Held'[c] = "none"
      BY <1>7 DEF Held, Live
    <3>2. \A d \in Calls \ {c} : Held'[d] = Held[d]
      BY <1>3, <1>5 DEF Held, Live
    <3>3. Held' = [d \in Calls |-> Held'[d]] /\ Held = [d \in Calls |-> Held[d]]
      BY DEF Held
    <3> QED
      BY <3>1, <3>2, <3>3
  <2> QED
    BY <1>1, <1>2, <1>4, <2>1, <2>2 DEF Lock!Release
<1> QED
  BY <1>6, <1>7

(* Giving out the token of the oldest request serves it.                     *)
LEMMA GrantServes ==
    ASSUME Safety, NEW c \in Calls, Awaits(c), NEW kind \in Kinds, NEW f, NEW snap,
           Grant(c, kind, f, snap), Pending # <<>>,
           Head(Pending) = [kind |-> kind, by |-> c], Pending' = Tail(Pending),
           phase' = kind,
           current' = IF kind = "Mutation" /\ phase = "Query" THEN current + 1 ELSE current,
           Live = {} \/ (kind = "Query" /\ phase = "Query")
    PROVE  Lock!Serve
<1> USE DEF Safety
<1>1. /\ Live' \subseteq Live \cup {c} /\ c \notin Live
      /\ c \in Live' => token'[c] = [kind |-> kind, frame |-> f, snapshot |-> snap]
      /\ \A d \in Live : token'[d] = token[d]
      /\ \A d \in Calls \ {c} : call'[d] = call[d] /\ clones'[d] = clones[d]
  BY GrantLive
<1>2. Head(Pending).by = c /\ Head(Pending).kind = kind
  OBVIOUS
<1>3. IF kind = "Query" THEN \A d \in Calls : Held[d] # "Mutation"
                        ELSE \A d \in Calls : Held[d] = "none"
  <2>1. \A d \in Calls : Held[d] = IF d \in Live THEN phase ELSE "none"
    BY HeldIs
  <2> QED
    BY <2>1 DEF Kinds
<1>4. \A d \in Calls \ {c} : d \in Live' <=> d \in Live
  BY <1>1 DEF Live, Holds
<1>5. \A d \in Calls \ {c} : Held'[d] = Held[d]
  BY <1>1, <1>4 DEF Held, Live
<1>6. Held = [d \in Calls |-> Held[d]] /\ Held' = [d \in Calls |-> Held'[d]]
  BY DEF Held
<1>7. Held[c] = "none"
  BY <1>1 DEF Held, Live
<1>8. CASE call[c] = "waiting"
  <2>1. call'[c] = "running" /\ c \notin Abandoned
    BY <1>8 DEF Grant, TypeOK, Abandoned
  <2>2. c \in Live'
    BY <2>1 DEF Live, Holds
  <2>3. Held'[c] = kind
    BY <1>1, <2>2 DEF Held, Live
  <2>4. Held' = [Held EXCEPT ![c] = kind]
    BY <1>5, <1>6, <2>3
  <2>5. Abandoned' = Abandoned \ {c}
    BY <1>1, <2>1 DEF Abandoned
  <2> QED
    BY <1>2, <1>3, <2>1, <2>4, <2>5 DEF Lock!Serve
<1>9. CASE call[c] # "waiting"
  <2>1. call'[c] = "idle" /\ clones'[c] = 0 /\ c \in Abandoned
    BY <1>9 DEF Grant, TypeOK, Awaits, Abandoned
  <2>2. c \notin Live'
    BY <2>1 DEF Live, Holds
  <2>3. Held'[c] = "none"
    BY <2>2 DEF Held, Live
  <2>4. Held' = Held
    BY <1>5, <1>6, <1>7, <2>3
  <2>5. Abandoned' = Abandoned \ {c}
    BY <1>1, <2>1 DEF Abandoned
  <2> QED
    BY <1>2, <1>3, <2>1, <2>4, <2>5 DEF Lock!Serve
<1> QED
  BY <1>8, <1>9

-----------------------------------------------------------------------------
(* The invariants the refinement needs beyond Safety.                        *)

LEMMA TailKeeps ==
    ASSUME NEW S, NEW s \in Seq(S), s # <<>>, NEW n \in DOMAIN s
    PROVE  s[n] = Head(s) \/ \E m \in DOMAIN Tail(s) : Tail(s)[m] = s[n]
<1>1. /\ DOMAIN s = 1 .. Len(s) /\ Len(s) \in Nat /\ Head(s) = s[1]
      /\ DOMAIN Tail(s) = 1 .. Len(s) - 1
      /\ \A i \in 1 .. Len(s) - 1 : Tail(s)[i] = s[i + 1]
  BY HeadTailProperties, LenProperties
<1>2. CASE n = 1
  BY <1>1, <1>2
<1>3. CASE n # 1
  <2>1. n - 1 \in DOMAIN Tail(s) /\ Tail(s)[n - 1] = s[n]
    BY <1>1, <1>3
  <2> QED
    BY <2>1
<1> QED
  BY <1>2, <1>3

(* The caller at the head of the queue is served and no longer waits.        *)
LEMMA ServedForgetsNobody ==
    ASSUME Safety, NoOneForgotten, NEW c \in Calls, Awaits(c), NEW kind, NEW f,
           NEW snap, Grant(c, kind, f, snap), Pending # <<>>,
           Head(Pending).by = c, Pending' = Tail(Pending)
    PROVE  NoOneForgotten'
<1> SUFFICES ASSUME NEW d \in Calls, call'[d] \in {"waiting", "cancelled"}
             PROVE  \E n \in DOMAIN Pending' : Pending'[n].by = d
  BY DEF NoOneForgotten
<1>1. d # c
  BY DEF Grant, Safety, TypeOK
<1>2. call[d] \in {"waiting", "cancelled"}
  BY <1>1, GrantLive, ZenonT(40) DEF Safety
<1>3. PICK n \in DOMAIN Pending : Pending[n].by = d
  BY <1>2 DEF NoOneForgotten
<1>4. Pending[n] # Head(Pending)
  BY <1>1, <1>3
<1>5. Pending \in Seq(Instrs)
  BY PendingType DEF Safety
<1>6. PICK m \in DOMAIN Tail(Pending) : Tail(Pending)[m] = Pending[n]
  BY <1>4, <1>5, TailKeeps
<1> QED
  BY <1>3, <1>6

(* A step that takes nothing out of the queue and makes nobody wait.         *)
LEMMA QueueStays ==
    ASSUME NoOneForgotten, Pending' = Pending,
           \A d \in Calls : call'[d] \in {"waiting", "cancelled"} =>
                             call[d] \in {"waiting", "cancelled"}
    PROVE  NoOneForgotten'
  BY DEF NoOneForgotten

LEMMA AskForgetsNobody ==
    ASSUME Safety, NoOneForgotten, NEW c \in Calls, NEW kind \in Kinds, Ask(c, kind)
    PROVE  NoOneForgotten'
<1> SUFFICES ASSUME NEW d \in Calls, call'[d] \in {"waiting", "cancelled"}
             PROVE  \E n \in DOMAIN Pending' : Pending'[n].by = d
  BY DEF NoOneForgotten
<1>1. Pending' = Append(Pending, InstrOf(kind, c)) /\ Pending \in Seq(Instrs)
  BY AskRequests, PendingType DEF Safety
<1>2. InstrOf(kind, c) \in Instrs /\ InstrOf(kind, c).by = c
  BY DEF InstrOf, Instrs
<1>3. /\ DOMAIN Pending' = 1 .. Len(Pending) + 1
      /\ DOMAIN Pending = 1 .. Len(Pending) /\ Len(Pending) \in Nat
      /\ \A n \in DOMAIN Pending : Pending'[n] = Pending[n]
      /\ Pending'[Len(Pending) + 1] = InstrOf(kind, c)
  BY <1>1, <1>2, AppendElements
<1>4. CASE d = c
  <2>1. Len(Pending) + 1 \in DOMAIN Pending'
    BY <1>3
  <2> QED
    BY <1>2, <1>3, <1>4, <2>1
<1>5. CASE d # c
  <2>1. call[d] \in {"waiting", "cancelled"}
    BY <1>5 DEF Ask, Safety, TypeOK
  <2>2. PICK n \in DOMAIN Pending : Pending[n].by = d
    BY <2>1 DEF NoOneForgotten
  <2>3. n \in DOMAIN Pending' /\ Pending'[n].by = d
    BY <1>3, <2>2
  <2> QED
    BY <2>3
<1> QED
  BY <1>4, <1>5

-----------------------------------------------------------------------------
(* The clock task, action by action.                                         *)

LEMMA JoinServes ==
    ASSUME Safety, NoOneForgotten, JoinQueryPhase
    PROVE  Lock!Serve /\ NoOneForgotten'
<1> USE DEF Safety
<1> DEFINE c == Head(instructions).by
<1>1. /\ clockAt = "recv" /\ clockAt' = "recv" /\ instructions # <<>>
      /\ instructions' = Tail(instructions)
      /\ Head(instructions).kind = "Query" /\ phase = "Query" /\ phase' = "Query"
      /\ current' = current
      /\ Grant(c, "Query", current, snapshot)
  BY DEF JoinQueryPhase, clockVars
<1>2. Pending = instructions /\ Pending' = Tail(Pending)
  BY <1>1 DEF Pending
<1>3. Head(instructions) \in Instrs /\ c \in Calls /\ Awaits(c) /\ "Query" \in Kinds
  BY <1>1, HeadRequest DEF Kinds
<1>4. Head(Pending) = [kind |-> "Query", by |-> c]
  BY <1>1, <1>2, <1>3 DEF Instrs
<1> HIDE DEF c
<1>5. Lock!Serve
  BY <1>1, <1>2, <1>3, <1>4, GrantServes
<1>6. NoOneForgotten'
  BY <1>1, <1>2, <1>3, <1>4, ServedForgetsNobody
<1> QED
  BY <1>5, <1>6

(* Answering the instruction the clock holds.                                *)
LEMMA AnswerServes ==
    ASSUME Safety, NoOneForgotten, clockAt # "recv", clockAt' = "recv",
           instructions' = instructions, Live = {},
           NEW f, NEW snap, Grant(instr.by, instr.kind, f, snap), phase' = instr.kind,
           current' = IF instr.kind = "Mutation" /\ phase = "Query"
                         THEN current + 1 ELSE current
    PROVE  Lock!Serve /\ NoOneForgotten'
<1> USE DEF Safety
<1>1. /\ Pending # <<>> /\ Head(Pending) = instr /\ Pending' = Tail(Pending)
  BY PendingHead
<1>2. instr.by \in Calls /\ Awaits(instr.by)
  BY ServedRequest
<1>3. instr \in Instrs
  BY DEF TypeOK
<1>4. instr.kind \in Kinds /\ instr = [kind |-> instr.kind, by |-> instr.by]
  BY <1>3 DEF Instrs
<1>5. Lock!Serve
  BY <1>1, <1>2, <1>4, GrantServes
<1>6. NoOneForgotten'
  BY <1>1, <1>2, <1>4, ServedForgetsNobody
<1> QED
  BY <1>5, <1>6

(* An await of the clock is no step of the lock.                             *)
LEMMA AwaitStutters ==
    ASSUME Safety, NoOneForgotten, TakeInstr \/ AskIndexer \/ AskInstants
    PROVE  UNCHANGED Lock!lockVars /\ NoOneForgotten'
<1> USE DEF Safety
<1>1. UNCHANGED <<callVars, phase, current>>
  BY DEF TakeInstr, AskIndexer, AskInstants, UpdateHandles
<1>2. Pending' = Pending
  <2>1. CASE TakeInstr
    <3>1. /\ clockAt = "recv" /\ clockAt' = "release" /\ instructions # <<>>
          /\ instr' = Head(instructions) /\ instructions' = Tail(instructions)
      BY <2>1 DEF TakeInstr
    <3>2. instructions \in Seq(Instrs)
      BY DEF TypeOK
    <3>3. <<Head(instructions)>> \o Tail(instructions) = instructions
      BY <3>1, <3>2, HeadConsTail
    <3> QED
      BY <3>1, <3>3 DEF Pending
  <2>2. CASE AskIndexer \/ AskInstants
    BY <2>2 DEF AskIndexer, AskInstants, UpdateHandles, Pending
  <2> QED
    BY <2>1, <2>2
<1>3. Held' = Held /\ Abandoned' = Abandoned
  BY <1>1 DEF Held, Holds, Abandoned, callVars
<1>4. NoOneForgotten'
  BY <1>1, <1>2, QueueStays DEF callVars
<1> QED
  BY <1>1, <1>2, <1>3, <1>4 DEF Lock!lockVars

LEMMA ClockTaskServes ==
    ASSUME Safety, NoOneForgotten, RealChange, ClockTask
    PROVE  /\ Lock!Serve \/ UNCHANGED Lock!lockVars
           /\ NoOneForgotten'
           /\ RealChange'
<1> USE DEF Safety
<1>1. CASE JoinQueryPhase
  <2>1. RealChange'
    BY <1>1 DEF JoinQueryPhase, clockVars, RealChange
  <2> QED
    BY <1>1, <2>1, JoinServes
<1>2. CASE TakeInstr
  <2>1. Head(instructions) \in Instrs /\ phase \in Kinds
    BY <1>2, HeadTailProperties DEF TakeInstr, TypeOK
  <2>2. RealChange'
    BY <1>2, <2>1 DEF TakeInstr, RealChange, Instrs, Kinds
  <2> QED
    BY <1>2, <2>2, AwaitStutters
<1>3. CASE NextMutation
  <2>1. /\ clockAt # "recv" /\ clockAt' = "recv" /\ instructions' = instructions
        /\ phase = "Mutation" /\ instr.kind = "Mutation" /\ phase' = instr.kind
        /\ current' = current /\ AllReleased
        /\ Grant(instr.by, instr.kind, current, <<>>)
    BY <1>3 DEF NextMutation, AwaitNextInstr
  <2>2. Live = {}
    BY <2>1, ReleasedMeansQuiet
  <2>3. RealChange'
    BY <2>1 DEF RealChange
  <2> QED
    BY <2>1, <2>2, <2>3, AnswerServes
<1>4. CASE AskIndexer
  <2>1. RealChange'
    BY <1>4 DEF AskIndexer, RealChange
  <2> QED
    BY <1>4, <2>1, AwaitStutters
<1>5. CASE StartMutation
  <2>1. /\ clockAt = "handles" /\ clockAt' = "recv" /\ instructions' = instructions
        /\ instr.kind = "Mutation" /\ phase' = instr.kind /\ current' = current + 1
        /\ Grant(instr.by, instr.kind, current + 1, <<>>)
    BY <1>5 DEF StartMutation, UpdateHandles, AwaitNextInstr, Grant
  <2>2. Live = {} /\ phase = "Query"
    BY <2>1 DEF QuietChange, RealChange, TypeOK, Kinds
  <2>3. RealChange'
    BY <2>1 DEF RealChange
  <2> QED
    BY <2>1, <2>2, <2>3, AnswerServes
<1>6. CASE AskInstants
  <2>1. RealChange'
    BY <1>6 DEF AskInstants, UpdateHandles, RealChange
  <2> QED
    BY <1>6, <2>1, AwaitStutters
<1>7. CASE StartQuery
  <2>1. /\ clockAt = "snapshot" /\ clockAt' = "recv" /\ instructions' = instructions
        /\ phase' = "Query" /\ current' = current
        /\ Grant(instr.by, "Query", current, answers)
    BY <1>7 DEF StartQuery, AwaitNextInstr, Grant
  <2>2. Live = {} /\ instr.kind = "Query"
    BY <2>1 DEF QuietChange, RealChange
  <2>3. RealChange'
    BY <2>1 DEF RealChange
  <2> QED
    BY <2>1, <2>2, <2>3, AnswerServes
<1> QED
  BY <1>1, <1>2, <1>3, <1>4, <1>5, <1>6, <1>7 DEF ClockTask

(* Every other step.                                                         *)
LEMMA OtherSteps ==
    ASSUME Safety, NoOneForgotten, RealChange,
           Caller \/ AnyInput \/ IndexerTask \/ UNCHANGED vars
    PROVE  /\ Lock!Next \/ UNCHANGED Lock!lockVars
           /\ NoOneForgotten'
           /\ RealChange'
<1> USE DEF Safety
<1>1. RealChange'
  <2>1. UNCHANGED <<clockAt, instr, phase>>
    BY DEF Caller, Ask, Cancel, Finish, Clone, DropClone, AnyInput, Register, Answer,
           IndexerTask, ServeRegistration, NoRegistration, ServeAcquire, PollAgain,
           vars, clockVars
  <2> QED
    BY <2>1 DEF RealChange
<1>2. ASSUME UNCHANGED <<callVars, instructions, clockAt, instr, phase, current>>
      PROVE  UNCHANGED Lock!lockVars /\ NoOneForgotten'
  <2>1. Pending' = Pending /\ Held' = Held /\ Abandoned' = Abandoned
    BY <1>2 DEF Pending, Held, Holds, Abandoned, callVars
  <2>2. NoOneForgotten'
    BY <1>2, <2>1, QueueStays DEF callVars
  <2> QED
    BY <1>2, <2>1, <2>2 DEF Lock!lockVars
<1>3. CASE AnyInput \/ IndexerTask \/ UNCHANGED vars
  <2>1. UNCHANGED <<callVars, instructions, clockAt, instr, phase, current>>
    BY <1>3 DEF AnyInput, Register, Answer, IndexerTask, ServeRegistration,
       NoRegistration, ServeAcquire, PollAgain, vars, clockVars
  <2> QED
    BY <1>1, <1>2, <2>1
<1>4. ASSUME NEW c \in Calls, NEW kind \in Kinds, Ask(c, kind)
      PROVE  Lock!Next /\ NoOneForgotten'
  <2>1. Lock!Request(c, kind) /\ NoOneForgotten'
    BY <1>4, AskRequests, AskForgetsNobody
  <2>2. kind \in Lock!Kinds
    BY DEF Kinds, Lock!Kinds
  <2> QED
    BY <2>1, <2>2 DEF Lock!Next
<1>5. ASSUME NEW c \in Calls, Cancel(c) PROVE Lock!Next /\ NoOneForgotten'
  <2>1. Lock!Abandon(c)
    BY <1>5, CancelAbandons
  <2>2. Pending' = Pending
    BY <1>5 DEF Cancel, Pending, clockVars
  <2>3. NoOneForgotten'
    BY <1>5, <2>2, QueueStays DEF Cancel, TypeOK
  <2> QED
    BY <2>1, <2>3 DEF Lock!Next
<1>6. ASSUME NEW c \in Calls, Clone(c) PROVE UNCHANGED Lock!lockVars /\ NoOneForgotten'
  <2>1. UNCHANGED <<call, token, instructions, clockAt, instr, phase, current>>
    BY <1>6 DEF Clone, clockVars
  <2>2. \A d \in Calls : d \in Live' <=> d \in Live
    BY <1>6 DEF Clone, Live, Holds, TypeOK
  <2>3. Pending' = Pending /\ Held' = Held /\ Abandoned' = Abandoned
    BY <2>1, <2>2, HeldSame DEF Pending, Abandoned
  <2>4. NoOneForgotten'
    BY <2>1, <2>3, QueueStays
  <2> QED
    BY <2>1, <2>3, <2>4 DEF Lock!lockVars
<1>7. ASSUME NEW c \in Calls, Finish(c) \/ DropClone(c)
      PROVE  (Lock!Next \/ UNCHANGED Lock!lockVars) /\ NoOneForgotten'
  <2>1. Lock!Release(c) \/ UNCHANGED Lock!lockVars
    BY <1>7, DropReleases
  <2>2. Pending' = Pending
    BY <1>7 DEF Finish, DropClone, Pending, clockVars
  <2>3. NoOneForgotten'
    BY <1>7, <2>2, QueueStays DEF Finish, DropClone, TypeOK
  <2> QED
    BY <2>1, <2>3 DEF Lock!Next
<1>8. CASE Caller
  BY <1>1, <1>4, <1>5, <1>6, <1>7, <1>8 DEF Caller
<1> QED
  BY <1>3, <1>8

LEMMA StepRefines ==
    ASSUME Safety, NoOneForgotten, RealChange, [Next]_vars
    PROVE  /\ Lock!Next \/ UNCHANGED Lock!lockVars
           /\ NoOneForgotten'
           /\ RealChange'
<1>1. CASE ClockTask
  BY <1>1, ClockTaskServes DEF Lock!Next
<1>2. CASE Caller \/ AnyInput \/ IndexerTask \/ UNCHANGED vars
  BY <1>2, OtherSteps
<1> QED
  BY <1>1, <1>2 DEF Next

LEMMA InitRefines == Init => Lock!Init /\ NoOneForgotten /\ RealChange
<1> SUFFICES ASSUME Init PROVE Lock!Init /\ NoOneForgotten /\ RealChange
  OBVIOUS
<1>1. Pending = <<>> /\ Abandoned = {} /\ Held = [c \in Calls |-> "none"]
  BY DEF Init, Pending, Abandoned, Held, Holds
<1> QED
  BY <1>1 DEF Init, Lock!Init, NoOneForgotten, RealChange

-----------------------------------------------------------------------------
(* A waiting caller's instruction is never lost, whatever calls around it    *)
(* are cancelled, served or join the phase; and the clock turns to the       *)
(* indexer and the inputs only on the way to the other phase.                *)
THEOREM NobodyIsForgotten == Spec => [](NoOneForgotten /\ RealChange)
<1>1. Safety /\ NoOneForgotten /\ RealChange /\ [Next]_vars
         => (NoOneForgotten /\ RealChange)'
  BY StepRefines
<1> QED
  BY <1>1, InitRefines, SafetyHolds, PTL DEF Spec

(* The clock, with its semaphore, its awaits and its cancelled calls, is a   *)
(* fair reader-writer lock: it serves requests in the order they were made,  *)
(* and advances the frame with the first mutation after a query phase.       *)
THEOREM ClockIsLock == Spec => LockSpec
<1>1. Safety /\ NoOneForgotten /\ RealChange /\ [Next]_vars => [Lock!Next]_Lock!lockVars
  BY StepRefines
<1> QED
  BY <1>1, InitRefines, SafetyHolds, NobodyIsForgotten, PTL DEF Spec, LockSpec, Lock!Spec
=============================================================================
