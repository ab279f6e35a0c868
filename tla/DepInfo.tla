------------------------------- MODULE DepInfo -------------------------------
(* ValueDepInfo and InputSelection of node/mod.rs: what a value depends on,  *)
(* as a frame since which it holds and a bit vector of inputs, put together  *)
(* with |= from what upstream nodes report.  QueryNodes treats a selection   *)
(* as a set and the emptiness test as that of a set; here is why it may.     *)
EXTENDS Integers, Sequences

CONSTANTS
    Holders,    \* contexts, caches and replies that hold a ValueDepInfo
    MaxIndex,   \* bound: the largest input index
    MaxFrame    \* bound: frames

ASSUME DepInfoAssumption == MaxIndex \in Nat /\ MaxFrame \in Nat

VARIABLES
    info,       \* the ValueDepInfo of each holder
    behind,     \* history: indices of the inputs it was put together from
    latest      \* history: the latest `since` among them

depVars == <<info, behind, latest>>

Indices == 0 .. MaxIndex
Frames  == 0 .. MaxFrame
Vectors == UNION {[1 .. n -> BOOLEAN] : n \in 0 .. MaxIndex + 1}

-----------------------------------------------------------------------------
(* InputSelection.  Position n + 1 of the vector is the bit of input n.      *)

Empty == <<>>

(* n zeroes, then push(true).                                                *)
NewSelection(n) == [k \in 1 .. n + 1 |-> k = n + 1]

(* Mutant: a selection of input 0 alone counts as empty.                     *)
IsEmptyShort(s) == Len(s) <= 1

IsEmpty(s) == Len(s) = 0

(* BitVec::bitor_assign keeps the length of its left side.                   *)
OrInto(s, t) == [k \in 1 .. Len(s) |-> s[k] \/ (k <= Len(t) /\ t[k])]

(* Mutant: no swap, the bits of a longer right side are lost.                *)
OrNoSwap(s, t) == OrInto(s, t)

Or(s, t) == IF Len(s) < Len(t) THEN OrInto(t, s) ELSE OrInto(s, t)

Bits(s) == {n \in Indices : n < Len(s) /\ s[n + 1]}

-----------------------------------------------------------------------------
(* ValueDepInfo.                                                             *)

Trivial == [since |-> 0, selection |-> Empty]

Later(f, g) == IF f < g THEN g ELSE f

Join(a, b) == [since |-> Later(a.since, b.since),
               selection |-> Or(a.selection, b.selection)]

DepInit ==
    /\ info = [h \in Holders |-> Trivial]
    /\ behind = [h \in Holders |-> {}]
    /\ latest = [h \in Holders |-> 0]

(* A context or a validation round starts from nothing.                      *)
Restart(h) ==
    /\ info' = [info EXCEPT ![h] = Trivial]
    /\ behind' = [behind EXCEPT ![h] = {}]
    /\ latest' = [latest EXCEPT ![h] = 0]

(* An input answers with its own bit and the frame it was last set in.       *)
AddInput(h, n, f) ==
    /\ info' = [info EXCEPT ![h] = Join(@, [since |-> f, selection |-> NewSelection(n)])]
    /\ behind' = [behind EXCEPT ![h] = @ \cup {n}]
    /\ latest' = [latest EXCEPT ![h] = Later(@, f)]

(* A query answers with what it holds, by clone.                             *)
AddQuery(h, g) ==
    /\ info' = [info EXCEPT ![h] = Join(@, info[g])]
    /\ behind' = [behind EXCEPT ![h] = @ \cup behind[g]]
    /\ latest' = [latest EXCEPT ![h] = Later(@, latest[g])]

DepNext ==
    \E h \in Holders :
        \/ Restart(h)
        \/ \E n \in Indices, f \in Frames : AddInput(h, n, f)
        \/ \E g \in Holders : AddQuery(h, g)

DepSpec == DepInit /\ [][DepNext]_depVars

-----------------------------------------------------------------------------
(* Every variable holds a value of its type.                                 *)
DepTypeOK ==
    /\ info \in [Holders -> [since : Frames, selection : Vectors]]
    /\ behind \in [Holders -> SUBSET Indices]
    /\ latest \in [Holders -> Frames]

(* mod.rs:52-54: "every non-empty snapshot has a `1` in the end".            *)
EndsInOne ==
    \A h \in Holders :
        LET s == info[h].selection
        IN  Len(s) > 0 => s[Len(s)]

(* However the parts were ordered and however long their vectors, no bit is  *)
(* lost and none is made up, and the frame is the latest of all parts.       *)
NothingLost ==
    \A h \in Holders : Bits(info[h].selection) = behind[h] /\ info[h].since = latest[h]

(* The shortcut of InputDeps::status for constants takes no selection with a *)
(* bit for an empty one: the emptiness test looks at the length only.        *)
ConstantsOnly == \A h \in Holders : IsEmpty(info[h].selection) <=> behind[h] = {}
=============================================================================
