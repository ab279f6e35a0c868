---------------------------- MODULE DepInfoProofs ----------------------------
(* Theorems about dependency information, for any number of holders, inputs  *)
(* and frames: a bit vector put together with |= in any order stands for the *)
(* set of inputs it was put together from.  QueryNodes, in which a selection *)
(* is a set, rests on this.                                                  *)
EXTENDS DepInfo, SequenceTheorems, TLAPS

(* A function on 1 .. n is a vector of length n.                             *)
LEMMA VectorMade ==
  ASSUME NEW n \in 0 .. MaxIndex + 1, NEW s \in [1 .. n -> BOOLEAN]
  PROVE  s \in Vectors /\ Len(s) = n
<1>1. n \in Nat
  BY DepInfoAssumption
<1>2. s \in Seq(BOOLEAN)
  BY <1>1, SeqDef
<1>3. Len(s) \in Nat /\ 1 .. Len(s) = 1 .. n
  BY <1>2, LenProperties
<1>4. Len(s) = n
  BY <1>1, <1>3
<1>5. QED
  BY <1>4 DEF Vectors

LEMMA VectorFacts ==
  ASSUME NEW s \in Vectors
  PROVE  Len(s) \in 0 .. MaxIndex + 1 /\ s \in [1 .. Len(s) -> BOOLEAN]
<1>1. PICK n \in 0 .. MaxIndex + 1 : s \in [1 .. n -> BOOLEAN]
  BY DEF Vectors
<1>2. QED
  BY <1>1, VectorMade

LEMMA EmptyFacts == Empty \in Vectors /\ Len(Empty) = 0 /\ Bits(Empty) = {}
<1>1. Len(<<>>) = 0 /\ <<>> \in [1 .. 0 -> BOOLEAN]
  BY EmptySeq, LenProperties
<1>2. <<>> \in Vectors
  <2>1. 0 \in 0 .. MaxIndex + 1
    BY DepInfoAssumption
  <2>2. QED
    BY <1>1, <2>1 DEF Vectors
<1>3. QED
  BY <1>1, <1>2 DEF Empty, Bits, Indices

LEMMA NewFacts ==
  ASSUME NEW n \in Indices
  PROVE  LET s == NewSelection(n)
         IN  s \in Vectors /\ Len(s) = n + 1 /\ s[Len(s)] /\ Bits(s) = {n}
<1> DEFINE s == NewSelection(n)
<1>1. n + 1 \in 0 .. MaxIndex + 1 /\ n \in Nat
  BY DepInfoAssumption DEF Indices
<1>2. s \in [1 .. n + 1 -> BOOLEAN]
  BY DEF NewSelection
<1>3. s \in Vectors /\ Len(s) = n + 1
  BY <1>1, <1>2, VectorMade
<1>4. \A k \in 1 .. n + 1 : s[k] <=> k = n + 1
  BY DEF NewSelection
<1>5. s[Len(s)]
  BY <1>1, <1>3, <1>4
<1>6. Bits(s) = {n}
  BY <1>1, <1>3, <1>4 DEF Bits, Indices
<1>7. QED
  BY <1>3, <1>5, <1>6

(* |= where the left side is at least as long as the right one.              *)
LEMMA OrIntoFacts ==
  ASSUME NEW s \in Vectors, NEW t \in Vectors, Len(t) <= Len(s)
  PROVE  LET u == OrInto(s, t)
         IN  /\ u \in Vectors /\ Len(u) = Len(s)
             /\ Len(s) > 0 /\ s[Len(s)] => u[Len(u)]
             /\ Bits(u) = Bits(s) \cup Bits(t)
<1> DEFINE u == OrInto(s, t)
<1>1. /\ Len(s) \in 0 .. MaxIndex + 1 /\ s \in [1 .. Len(s) -> BOOLEAN]
      /\ Len(t) \in 0 .. MaxIndex + 1 /\ t \in [1 .. Len(t) -> BOOLEAN]
  BY VectorFacts
<1>2. u \in [1 .. Len(s) -> BOOLEAN]
  BY DEF OrInto
<1>3. u \in Vectors /\ Len(u) = Len(s)
  BY <1>1, <1>2, VectorMade
<1>4. \A k \in 1 .. Len(s) : u[k] <=> s[k] \/ (k <= Len(t) /\ t[k])
  BY DEF OrInto
<1>5. Len(s) > 0 /\ s[Len(s)] => u[Len(u)]
  BY <1>1, <1>3, <1>4
<1>6. ASSUME NEW n \in Indices
      PROVE  n \in Bits(u) <=> n \in Bits(s) \/ n \in Bits(t)
  BY <1>1, <1>3, <1>4, DepInfoAssumption DEF Bits, Indices
<1>7. Bits(u) = Bits(s) \cup Bits(t)
  BY <1>6 DEF Bits
<1>8. QED
  BY <1>3, <1>5, <1>7

(* With the swap no length matters.                                          *)
LEMMA OrFacts ==
  ASSUME NEW s \in Vectors, NEW t \in Vectors,
         Len(s) > 0 => s[Len(s)], Len(t) > 0 => t[Len(t)]
  PROVE  LET u == Or(s, t)
         IN  /\ u \in Vectors
             /\ Len(u) > 0 => u[Len(u)]
             /\ Bits(u) = Bits(s) \cup Bits(t)
<1>1. Len(s) \in Int /\ Len(t) \in Int
  BY VectorFacts, DepInfoAssumption
<1>2. CASE Len(s) < Len(t)
  <2>1. Or(s, t) = OrInto(t, s)
    BY <1>2 DEF Or
  <2>2. QED
    BY <1>1, <1>2, <2>1, OrIntoFacts
<1>3. CASE ~(Len(s) < Len(t))
  <2>1. Or(s, t) = OrInto(s, t)
    BY <1>3 DEF Or
  <2>2. QED
    BY <1>1, <1>3, <2>1, OrIntoFacts
<1>4. QED
  BY <1>2, <1>3

-----------------------------------------------------------------------------
DepInv == DepTypeOK /\ EndsInOne /\ NothingLost

LEMMA InitInv == DepInit => DepInv
  BY EmptyFacts, DepInfoAssumption
  DEF DepInit, DepInv, DepTypeOK, EndsInOne, NothingLost, Trivial, Frames

(* What is joined into a holder is itself right: then so is the result.      *)
LEMMA JoinInv ==
  ASSUME DepInv, NEW h \in Holders,
         NEW part \in [since : Frames, selection : Vectors], NEW B \in SUBSET Indices,
         Len(part.selection) > 0 => part.selection[Len(part.selection)],
         Bits(part.selection) = B,
         info' = [info EXCEPT ![h] = Join(@, part)],
         behind' = [behind EXCEPT ![h] = @ \cup B],
         latest' = [latest EXCEPT ![h] = Later(@, part.since)]
  PROVE  DepInv'
<1>1. info[h] \in [since : Frames, selection : Vectors] /\ latest[h] \in Frames
  BY DEF DepInv, DepTypeOK
<1>2. Len(info[h].selection) > 0 => info[h].selection[Len(info[h].selection)]
  BY DEF DepInv, EndsInOne
<1> DEFINE s == Or(info[h].selection, part.selection)
<1>3. /\ s \in Vectors
      /\ Len(s) > 0 => s[Len(s)]
      /\ Bits(s) = Bits(info[h].selection) \cup B
  <2>1. info[h].selection \in Vectors /\ part.selection \in Vectors
    BY <1>1
  <2>2. QED
    BY <1>2, <2>1, OrFacts
<1>4. Later(info[h].since, part.since) \in Frames
  BY <1>1 DEF Later
<1>5. info'[h] = [since |-> Later(info[h].since, part.since), selection |-> s]
  BY DEF DepInv, DepTypeOK, Join
<1> HIDE DEF s
<1>6. DepTypeOK'
  <2>1. info'[h] \in [since : Frames, selection : Vectors]
    BY <1>3, <1>4, <1>5
  <2>2. info' \in [Holders -> [since : Frames, selection : Vectors]]
    BY <2>1 DEF DepInv, DepTypeOK
  <2>3. Later(latest[h], part.since) \in Frames
    BY <1>1 DEF Later
  <2>4. QED
    BY <2>2, <2>3 DEF DepInv, DepTypeOK
<1>7. EndsInOne'
  BY <1>3, <1>5 DEF DepInv, DepTypeOK, EndsInOne
<1>8. NothingLost'
  <2>1. Bits(info'[h].selection) = behind'[h]
    BY <1>3, <1>5 DEF DepInv, DepTypeOK, NothingLost
  <2>2. info'[h].since = latest'[h]
    BY <1>5 DEF DepInv, DepTypeOK, NothingLost
  <2>3. QED
    BY <2>1, <2>2 DEF DepInv, DepTypeOK, NothingLost
<1>9. QED
  BY <1>6, <1>7, <1>8 DEF DepInv

LEMMA NextInv == DepInv /\ [DepNext]_depVars => DepInv'
<1> SUFFICES ASSUME DepInv, [DepNext]_depVars PROVE DepInv'
  OBVIOUS
<1>1. ASSUME NEW h \in Holders, Restart(h) PROVE DepInv'
  <2>1. /\ Trivial \in [since : Frames, selection : Vectors]
        /\ Len(Trivial.selection) = 0 /\ Bits(Trivial.selection) = {}
        /\ Trivial.since = 0
    BY EmptyFacts, DepInfoAssumption DEF Trivial, Frames
  <2>2. DepTypeOK'
    BY <1>1, <2>1, DepInfoAssumption DEF Restart, DepInv, DepTypeOK, Frames
  <2>3. EndsInOne'
    BY <1>1, <2>1 DEF Restart, DepInv, DepTypeOK, EndsInOne
  <2>4. NothingLost'
    BY <1>1, <2>1 DEF Restart, DepInv, DepTypeOK, NothingLost
  <2>5. QED
    BY <2>2, <2>3, <2>4 DEF DepInv
<1>2. ASSUME NEW h \in Holders, NEW n \in Indices, NEW f \in Frames, AddInput(h, n, f)
      PROVE  DepInv'
  <2> DEFINE part == [since |-> f, selection |-> NewSelection(n)]
  <2>1. /\ part \in [since : Frames, selection : Vectors]
        /\ part.selection[Len(part.selection)]
        /\ Bits(part.selection) = {n}
        /\ part.since = f
    BY NewFacts
  <2>2. /\ info' = [info EXCEPT ![h] = Join(@, part)]
        /\ behind' = [behind EXCEPT ![h] = @ \cup {n}]
        /\ latest' = [latest EXCEPT ![h] = Later(@, part.since)]
    BY <1>2 DEF AddInput
  <2> HIDE DEF part
  <2>3. QED
    BY <2>1, <2>2, JoinInv
<1>3. ASSUME NEW h \in Holders, NEW g \in Holders, AddQuery(h, g) PROVE DepInv'
  <2>1. /\ info[g] \in [since : Frames, selection : Vectors]
        /\ behind[g] \in SUBSET Indices
        /\ Len(info[g].selection) > 0 => info[g].selection[Len(info[g].selection)]
        /\ Bits(info[g].selection) = behind[g]
        /\ info[g].since = latest[g]
    BY DEF DepInv, DepTypeOK, EndsInOne, NothingLost
  <2>2. /\ info' = [info EXCEPT ![h] = Join(@, info[g])]
        /\ behind' = [behind EXCEPT ![h] = @ \cup behind[g]]
        /\ latest' = [latest EXCEPT ![h] = Later(@, info[g].since)]
    BY <1>3, <2>1 DEF AddQuery
  <2>3. QED
    BY <2>1, <2>2, JoinInv
<1>4. CASE UNCHANGED depVars
  BY <1>4 DEF depVars, DepInv, DepTypeOK, EndsInOne, NothingLost
<1>5. QED
  BY <1>1, <1>2, <1>3, <1>4 DEF DepNext

LEMMA InvHolds == DepSpec => []DepInv
  BY InitInv, NextInv, PTL DEF DepSpec

-----------------------------------------------------------------------------
(* Every part of dependency information keeps its type.                      *)
THEOREM DepTypeCorrect == DepSpec => []DepTypeOK
  BY InvHolds, PTL DEF DepInv

(* The comment on InputSelection::is_empty: "every non-empty snapshot has a  *)
(* `1` in the end".                                                          *)
THEOREM SelectionsEndInOne == DepSpec => []EndsInOne
  BY InvHolds, PTL DEF DepInv

(* UpstreamEdges::add_edge and UpstreamDeps::status lose no input, make none *)
(* up, and keep the latest frame, in whatever order nodes answered.          *)
THEOREM UnionIsExact == DepSpec => []NothingLost
  BY InvHolds, PTL DEF DepInv

(* The cheap emptiness test is that of the set: a value passes for a         *)
(* constant in InputDeps::status only if no input is behind it.              *)
THEOREM EmptyMeansConstant == DepSpec => []ConstantsOnly
<1>1. DepInv => ConstantsOnly
  <2> SUFFICES ASSUME DepInv, NEW h \in Holders
               PROVE  IsEmpty(info[h].selection) <=> behind[h] = {}
    BY DEF ConstantsOnly
  <2> DEFINE s == info[h].selection
  <2>1. /\ s \in Vectors /\ Bits(s) = behind[h]
        /\ Len(s) > 0 => s[Len(s)]
    BY DEF DepInv, DepTypeOK, EndsInOne, NothingLost
  <2>2. Len(s) \in 0 .. MaxIndex + 1
    BY <2>1, VectorFacts
  <2> HIDE DEF s
  <2>3. CASE Len(s) = 0
    BY <2>1, <2>3, DepInfoAssumption DEF Bits, Indices, IsEmpty, s
  <2>4. CASE Len(s) > 0
    <3>1. Len(s) - 1 \in Bits(s)
      BY <2>1, <2>2, <2>4, DepInfoAssumption DEF Bits, Indices
    <3>2. QED
      BY <2>1, <2>4, <3>1 DEF IsEmpty, s
  <2>5. QED
    BY <2>2, <2>3, <2>4
<1>2. QED
  BY <1>1, InvHolds, PTL
=============================================================================
