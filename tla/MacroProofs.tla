----------------------------- MODULE MacroProofs -----------------------------
(* Theorems about QueryMacro, for functions of any number of parameters in   *)
(* any forms, any values and any number of calls.                            *)
EXTENDS QueryMacro, FiniteSetTheorems, FunctionTheorems, SequenceTheorems, WellFoundedInduction,
        TLAPS

LEMMA HasLeast ==
    ASSUME NEW S \in SUBSET Nat, S # {}
    PROVE  \E n \in S : \A k \in S : n <= k
<1> PICK R : R = OpToRel(<, Nat)
  OBVIOUS
<1>1. \A k, n \in Nat : k < n => <<k, n>> \in R
  BY DEF OpToRel
<1>2. \E n \in S : \A k \in S : ~(<<k, n>> \in R)
  BY WFMin, NatLessThanWellFounded
<1>3. PICK n \in S : \A k \in S : ~(<<k, n>> \in R)
  BY <1>2
<1>4. n \in Nat /\ S \subseteq Nat
  OBVIOUS
<1>5. ASSUME NEW k \in S PROVE n <= k
  <2>1. k \in Nat /\ <<k, n>> \notin R
    BY <1>3, <1>4
  <2>2. ~(k < n)
    BY <1>1, <1>4, <2>1, Zenon
  <2> QED
    BY ONLY <1>4, <2>1, <2>2
<1> QED
  BY <1>5

LEMMA EmptyIs == ASSUME NEW S, NEW s \in Seq(S) PROVE s # <<>> <=> Len(s) > 0
  OBVIOUS

-----------------------------------------------------------------------------
(* What is accepted.                                                         *)

FormOK(p) ==
    \/ p.kind = "receiver"
    \/ /\ p.kind = "typed" /\ p.attr \in BOOLEAN /\ p.impl \in BOOLEAN
       /\ p.pat \in {"name", "self", "wild", "other"}

WellFormed ==
    /\ header.impls \in Nat
    /\ inputs \in Seq(Forms) /\ \A n \in DOMAIN inputs : FormOK(inputs[n])

Qualified == header.item = "fn" /\ SanityErrors = {}

(* The conjuncts of Supported about parameters.                              *)
PlainParams ==
    \A n \in DOMAIN inputs :
        \/ IsReceiver(inputs[n]) /\ n = 1
        \/ ~IsReceiver(inputs[n]) /\ ~inputs[n].attr /\ ~inputs[n].impl
           /\ inputs[n].pat \in {"name", "self"}

HasContext == \E n \in DOMAIN inputs : ~IsReceiver(inputs[n]) /\ ~(n = 1 /\ NamedSelf(inputs[n]))

LEMMA QualifiedIs ==
    ASSUME WellFormed
    PROVE  Supported <=> Qualified /\ PlainParams /\ HasContext
<1>1. Qualified <=> /\ header.item = "fn" /\ header.unsupported = {}
                    /\ header.isAsync /\ header.impls = 0
  <2>1. SanityErrors = {} <=> header.unsupported = {} /\ header.isAsync /\ ~(header.impls > 0)
    BY DEF SanityErrors
  <2> QED
    BY <2>1 DEF Qualified, WellFormed
<1> QED
  BY <1>1 DEF Supported, PlainParams, HasContext

(* A parameter without an error is one that is supported.                    *)
LEMMA PlainIs ==
    ASSUME WellFormed, NEW n \in DOMAIN inputs
    PROVE  ParamError(n) = "none" <=>
              \/ IsReceiver(inputs[n]) /\ n = 1
              \/ ~IsReceiver(inputs[n]) /\ ~inputs[n].attr /\ ~inputs[n].impl
                 /\ inputs[n].pat \in {"name", "self"}
<1> PICK p : p = inputs[n]
  OBVIOUS
<1>1. FormOK(p)
  BY DEF WellFormed
<1>2. CASE IsReceiver(p)
  BY <1>2 DEF ParamError
<1>3. CASE ~IsReceiver(p)
  <2>1. p.attr \in BOOLEAN /\ p.impl \in BOOLEAN /\ p.pat \in {"name", "self", "wild", "other"}
    BY <1>1, <1>3 DEF FormOK, IsReceiver
  <2>2. PatternError(p) = "none" <=> ~p.attr /\ ~p.impl /\ p.pat \in {"name", "self"}
    BY <2>1 DEF PatternError
  <2> QED
    BY <1>3, <2>2 DEF ParamError
<1> QED
  BY <1>2, <1>3

(* Something is left for the context after the receiver.                     *)
LEMMA RestIs ==
    ASSUME WellFormed
    PROVE  /\ Rest # <<>> <=> Len(inputs) > IF HasReceiver THEN 1 ELSE 0
           /\ Len(Rest) = Len(inputs) - IF HasReceiver THEN 1 ELSE 0
           /\ Rest \in Seq(Forms)
<1>1. inputs \in Seq(Forms)
  BY DEF WellFormed
<1>2. CASE HasReceiver
  <2>1. inputs # <<>>
    BY <1>2 DEF HasReceiver
  <2>2. Tail(inputs) \in Seq(Forms) /\ Len(Tail(inputs)) = Len(inputs) - 1
    BY <1>1, <2>1, HeadTailProperties
  <2>3. Tail(inputs) # <<>> <=> Len(Tail(inputs)) > 0
    BY <2>2, EmptyIs
  <2>4. Len(inputs) \in Nat
    BY <1>1
  <2> QED
    BY <1>2, <2>2, <2>3, <2>4 DEF Rest
<1>3. CASE ~HasReceiver
  BY <1>1, <1>3, EmptyIs DEF Rest
<1> QED
  BY <1>2, <1>3

LEMMA ContextIs ==
    ASSUME WellFormed, PlainParams
    PROVE  HasContext <=> Rest # <<>>
<1>1. DOMAIN inputs = 1 .. Len(inputs) /\ Len(inputs) \in Nat
  BY DEF WellFormed
<1>2. CASE HasReceiver
  <2>1. ASSUME Len(inputs) > 1 PROVE HasContext
    <3>1. Len(inputs) \in DOMAIN inputs /\ Len(inputs) # 1
      BY <1>1, <2>1
    <3> QED
      BY <3>1 DEF PlainParams, HasContext
  <2>2. ASSUME HasContext PROVE Len(inputs) > 1
    BY <1>1, <1>2, <2>2 DEF HasContext, HasReceiver
  <2> QED
    BY <1>2, <2>1, <2>2, RestIs
<1>3. CASE ~HasReceiver
  <2>1. ASSUME Len(inputs) > 0 PROVE HasContext
    <3>1. 1 \in DOMAIN inputs /\ inputs # <<>>
      BY <1>1, <2>1
    <3> QED
      BY <1>3, <3>1 DEF HasContext, HasReceiver
  <2>2. ASSUME HasContext PROVE Len(inputs) > 0
    BY <1>1, <2>2 DEF HasContext
  <2> QED
    BY <1>3, <2>1, <2>2, RestIs
<1> QED
  BY <1>2, <1>3

(* The first error there is, or none.                                        *)
LEMMA ErrorIs ==
    ASSUME WellFormed
    PROVE  FromInputsError = "none" <=> PlainParams /\ HasContext
<1> PICK bad : bad = {n \in DOMAIN inputs : ParamError(n) # "none"}
  OBVIOUS
<1>1. bad = {} <=> PlainParams
  BY PlainIs DEF PlainParams
<1>2. CASE bad # {}
  <2>1. bad \in SUBSET Nat
    BY DEF WellFormed
  <2>2. \E n \in bad : \A k \in bad : n <= k
    BY <1>2, <2>1, HasLeast
  <2>3. FromInputsError = ParamError(CHOOSE n \in bad : \A k \in bad : n <= k)
    BY <1>2 DEF FromInputsError
  <2>4. (CHOOSE n \in bad : \A k \in bad : n <= k) \in bad
    BY <2>2
  <2> QED
    BY <1>1, <1>2, <2>3, <2>4
<1>3. CASE bad = {}
  BY <1>1, <1>3, ContextIs DEF FromInputsError
<1> QED
  BY <1>2, <1>3

LEMMA SupportedIs ==
    ASSUME WellFormed
    PROVE  Supported <=> Qualified /\ FromInputsError = "none"
  BY QualifiedIs, ErrorIs

-----------------------------------------------------------------------------
(* What the generated function does with its arguments.                      *)

Args == [1 .. ReceiverLen + CommonLen -> Values]

LensOK == ReceiverLen \in {0, 1} /\ CommonLen \in Nat

NodeOf(args) == [input |-> args, captured |-> Captured(args)]
Sees(args)   == BodyBinding(Captured(args), args)

LEMMA Concatenated ==
    ASSUME NEW S, NEW s \in Seq(S), NEW t \in Seq(S), NEW u, u = s \o t
    PROVE  /\ u \in Seq(S) /\ Len(u) = Len(s) + Len(t)
           /\ \A i \in 1 .. Len(s) : u[i] = s[i]
           /\ \A i \in 1 .. Len(t) : u[Len(s) + i] = t[i]
  OBVIOUS

LEMMA FunctionSeq ==
    ASSUME NEW S, NEW n \in Nat, NEW f \in [1 .. n -> S]
    PROVE  f \in Seq(S) /\ Len(f) = n
  OBVIOUS

(* Arguments split behind the r-th are put together again in their order.    *)
Splits(r, c, args, s, t) ==
    /\ r \in Nat /\ c \in Nat /\ args \in [1 .. r + c -> Values]
    /\ s \in Seq(Values) /\ Len(s) = r /\ \A i \in 1 .. r : s[i] = args[i]
    /\ t \in Seq(Values) /\ Len(t) = c /\ \A i \in 1 .. c : t[i] = args[r + i]

LEMMA Rejoined ==
    ASSUME NEW r, NEW c, NEW args, NEW s, NEW t, Splits(r, c, args, s, t)
    PROVE  s \o t = args
<1>0. /\ r \in Nat /\ c \in Nat /\ args \in [1 .. r + c -> Values]
      /\ s \in Seq(Values) /\ Len(s) = r /\ \A i \in 1 .. r : s[i] = args[i]
      /\ t \in Seq(Values) /\ Len(t) = c /\ \A i \in 1 .. c : t[i] = args[r + i]
  BY DEF Splits
<1> PICK u : u = s \o t
  OBVIOUS
<1>1. args \in Seq(Values) /\ Len(args) = r + c
  BY <1>0, FunctionSeq
<1>2. /\ u \in Seq(Values) /\ Len(u) = Len(s) + Len(t)
      /\ \A i \in 1 .. Len(s) : u[i] = s[i]
      /\ \A i \in 1 .. Len(t) : u[Len(s) + i] = t[i]
  <2>1. s \in Seq(Values) /\ t \in Seq(Values)
    BY <1>0
  <2> QED
    BY ONLY <2>1, u = s \o t, Concatenated
<1>3. ASSUME NEW i \in 1 .. r + c PROVE u[i] = args[i]
  <2>1. CASE i \in 1 .. r
    BY <1>0, <1>2, <2>1
  <2>2. CASE i \notin 1 .. r
    <3>1. i - r \in 1 .. c /\ i = r + (i - r)
      BY <1>0, <2>2
    <3>2. PICK k \in 1 .. c : i = r + k
      BY <3>1
    <3>3. u[r + k] = t[k] /\ t[k] = args[r + k]
      BY <1>0, <1>2, <3>2
    <3> QED
      BY <3>2, <3>3
  <2> QED
    BY <2>1, <2>2
<1>4. u = args
  BY <1>0, <1>1, <1>2, <1>3, SeqEqual
<1> QED
  BY <1>4

(* The key has all arguments in their order.                                 *)
LEMMA KeyIsArgs ==
    ASSUME LensOK, NEW args \in Args
    PROVE  InputOf(args) = args
<1> PICK r, c : r = ReceiverLen /\ c = CommonLen
  OBVIOUS
<1>1. r \in Nat /\ c \in Nat /\ args \in [1 .. r + c -> Values]
  BY DEF LensOK, Args
<1> PICK s, t : s = SubSeq(args, 1, r) /\ t = SubSeq(args, r + 1, r + c)
  OBVIOUS
<1>2. s \in Seq(Values) /\ Len(s) = r /\ \A i \in 1 .. r : s[i] = args[i]
  BY ONLY <1>1, s = SubSeq(args, 1, r)
<1>3. t \in Seq(Values) /\ Len(t) = c /\ \A i \in 1 .. c : t[i] = args[r + i]
  BY ONLY <1>1, t = SubSeq(args, r + 1, r + c)
<1>4. s \o t = args
  <2>1. Splits(r, c, args, s, t)
    BY <1>1, <1>2, <1>3 DEF Splits
  <2> QED
    BY ONLY <2>1, Rejoined
<1> QED
  BY <1>4 DEF InputOf

(* The body binds each to the parameter it was given for.                    *)
LEMMA BodySees ==
    ASSUME LensOK, NEW args \in Args
    PROVE  Sees(args).self \o Sees(args).common = args
<1> PICK r, c : r = ReceiverLen /\ c = CommonLen
  OBVIOUS
<1>1. r \in Nat /\ c \in Nat /\ args \in [1 .. r + c -> Values]
  BY DEF LensOK, Args
<1> PICK s, t : s = SubSeq(args, 1, r) /\ t = [k \in 1 .. c |-> args[r + k]]
  OBVIOUS
<1>2. s \in Seq(Values) /\ Len(s) = r /\ \A i \in 1 .. r : s[i] = args[i]
  BY ONLY <1>1, s = SubSeq(args, 1, r)
<1>3. t \in Seq(Values) /\ Len(t) = c /\ \A i \in 1 .. c : t[i] = args[r + i]
  <2>1. \A k \in 1 .. c : args[r + k] \in Values
    BY <1>1
  <2>2. t \in [1 .. c -> Values]
    BY <2>1
  <2>3. t \in Seq(Values) /\ Len(t) = c
    BY <1>1, <2>2, FunctionSeq
  <2> QED
    BY <2>3
<1>4. s \o t = args
  <2>1. Splits(r, c, args, s, t)
    BY <1>1, <1>2, <1>3 DEF Splits
  <2> QED
    BY ONLY <2>1, Rejoined
<1>5. (IF r > 0 THEN 1 ELSE 0) = r
  BY DEF LensOK
<1>6. Sees(args).self = s /\ Sees(args).common = t
  BY <1>5 DEF Sees, BodyBinding, Captured
<1> QED
  BY <1>4, <1>6

(* Nodes are one for each list of arguments there was a call with, and have  *)
(* the tenant of that call or of one that had the same arguments.            *)
NodesOK(cs, ns, ss) ==
    /\ cs \in Seq(Args)
    /\ ss \in Seq({Sees(args) : args \in Args}) /\ Len(ss) = Len(cs)
    /\ \A n \in 1 .. Len(cs) : ss[n] = Sees(cs[n])
    /\ ns \in Seq({NodeOf(args) : args \in Args})
    /\ \A n, m \in 1 .. Len(ns) : ns[n].input = ns[m].input => n = m
    /\ \A n \in 1 .. Len(cs) : \E m \in 1 .. Len(ns) : ns[m].input = cs[n]
    /\ \A m \in 1 .. Len(ns) : \E n \in 1 .. Len(cs) : cs[n] = ns[m].input

LEMMA NodesOfCalls ==
    ASSUME LensOK, NEW cs, NEW ns, NEW ss, NodesOK(cs, ns, ss)
    PROVE  /\ Len(ns) = Cardinality({cs[n] : n \in DOMAIN cs})
           /\ \A n \in DOMAIN cs : ss[n].self \o ss[n].common = cs[n]
<1>1. /\ cs \in Seq(Args) /\ DOMAIN cs = 1 .. Len(cs) /\ Len(ns) \in Nat
      /\ \A n \in 1 .. Len(cs) : cs[n] \in Args
  BY DEF NodesOK
<1>2. \A n \in DOMAIN cs : ss[n].self \o ss[n].common = cs[n]
  BY <1>1, BodySees DEF NodesOK
<1> PICK S, f : /\ S = {cs[n] : n \in DOMAIN cs}
                /\ f = [m \in 1 .. Len(ns) |-> ns[m].input]
  OBVIOUS
<1>3. f \in [1 .. Len(ns) -> S]
  <2>1. ASSUME NEW m \in 1 .. Len(ns) PROVE ns[m].input \in S
    <3>1. PICK n \in 1 .. Len(cs) : cs[n] = ns[m].input
      BY DEF NodesOK
    <3> QED
      BY <1>1, <3>1
  <2> QED
    BY <2>1
<1>4. \A n, m \in 1 .. Len(ns) : f[n] = f[m] => n = m
  BY DEF NodesOK
<1>5. \A s \in S : \E m \in 1 .. Len(ns) : f[m] = s
  BY <1>1, SMTT(30) DEF NodesOK
<1>6. f \in Bijection(1 .. Len(ns), S)
  BY <1>3, <1>4, <1>5, Fun_IsBij
<1>7. ExistsBijection(1 .. Len(ns), S)
  BY <1>6 DEF ExistsBijection
<1>8. Cardinality(S) = Len(ns)
  BY <1>1, <1>7, FS_CountingElements
<1> QED
  BY <1>2, <1>8

OneMore(s, t, e) ==
    /\ Len(t) = Len(s) + 1
    /\ \A n \in 1 .. Len(t) : \/ n \in 1 .. Len(s) /\ t[n] = s[n]
                              \/ n = Len(t) /\ t[n] = e
    /\ \A n \in 1 .. Len(s) : n \in 1 .. Len(t) /\ t[n] = s[n]
    /\ Len(t) \in 1 .. Len(t) /\ t[Len(t)] = e /\ Len(t) \notin 1 .. Len(s)

LEMMA Appended ==
    ASSUME NEW S, NEW s \in Seq(S), NEW e \in S, NEW t, t = Append(s, e)
    PROVE  t \in Seq(S) /\ OneMore(s, t, e)
  BY DEF OneMore

(* A call finds the node of its arguments, or spawns it.                     *)
LEMMA CallKeepsNodes ==
    ASSUME LensOK, NodesOK(calls, nodes, seen), NEW args \in Args, Call(args)
    PROVE  NodesOK(calls', nodes', seen')
<1> PICK cs, ns, ss : cs = calls /\ ns = nodes /\ ss = seen
  OBVIOUS
<1> PICK A, N, B : /\ A = Args /\ N = {NodeOf(a) : a \in Args} /\ B = {Sees(a) : a \in Args}
  OBVIOUS
<1>1. InputOf(args) = args
  BY KeyIsArgs
<1>2. /\ cs \in Seq(A) /\ ss \in Seq(B) /\ ns \in Seq(N) /\ Len(ss) = Len(cs)
      /\ Len(cs) \in Nat /\ Len(ns) \in Nat /\ args \in A
      /\ DOMAIN ns = 1 .. Len(ns)
  BY DEF NodesOK
<1>3. /\ \A n \in 1 .. Len(cs) : ss[n] = Sees(cs[n])
      /\ \A n, m \in 1 .. Len(ns) : ns[n].input = ns[m].input => n = m
      /\ \A n \in 1 .. Len(cs) : \E m \in 1 .. Len(ns) : ns[m].input = cs[n]
      /\ \A m \in 1 .. Len(ns) : \E n \in 1 .. Len(cs) : cs[n] = ns[m].input
  BY DEF NodesOK
<1>4. /\ NodeOf(args) \in N /\ NodeOf(args).input = args /\ Sees(args) \in B
      /\ NodeOf(args).captured = Captured(args)
      /\ \A m \in 1 .. Len(ns) : ns[m] = NodeOf(ns[m].input)
  <2>1. \A m \in 1 .. Len(ns) : ns[m] \in N
    BY <1>2
  <2> QED
    BY <2>1 DEF NodeOf
<1> PICK ks, ms, bs : ks = calls' /\ ms = nodes' /\ bs = seen'
  OBVIOUS
<1>5. /\ ks = Append(cs, args) /\ bs = Append(ss, Sees(args))
      /\ \/ ms = Append(ns, NodeOf(args)) /\ \A n \in 1 .. Len(ns) : ns[n].input # args
         \/ ms = ns /\ \E n \in 1 .. Len(ns) : ns[n].input = args
  <2>1. CASE \A n \in DOMAIN nodes : nodes[n].input # args
    <3>1. /\ nodes' = Append(nodes, NodeOf(args)) /\ calls' = Append(calls, args)
          /\ seen' = Append(seen, BodyBinding(NodeOf(args).captured, NodeOf(args).input))
      BY <1>1, <2>1 DEF Call, NodeOf
    <3> QED
      BY <1>2, <1>4, <2>1, <3>1 DEF Sees
  <2>2. CASE \E n \in DOMAIN nodes : nodes[n].input = args
    <3> PICK k : k = CHOOSE n \in DOMAIN nodes : nodes[n].input = args
      OBVIOUS
    <3>1. k \in DOMAIN nodes /\ nodes[k].input = args
      BY <2>2
    <3>2. /\ nodes' = nodes /\ calls' = Append(calls, args)
          /\ seen' = Append(seen, BodyBinding(nodes[k].captured, nodes[k].input))
      BY <1>1, <2>2 DEF Call
    <3>3. nodes[k] = NodeOf(args)
      BY <1>2, <1>4, <3>1
    <3> QED
      BY <1>2, <1>4, <2>2, <3>2, <3>3 DEF Sees
  <2> QED
    BY <2>1, <2>2
<1>6. /\ OneMore(cs, ks, args) /\ ks \in Seq(A)
      /\ OneMore(ss, bs, Sees(args)) /\ bs \in Seq(B)
  BY <1>2, <1>4, <1>5, Appended
<1>7. Len(bs) = Len(ks) /\ \A n \in 1 .. Len(ks) : bs[n] = Sees(ks[n])
  <2>1. Len(bs) = Len(ks)
    BY <1>2, <1>6 DEF OneMore
  <2>2. ASSUME NEW n \in 1 .. Len(ks) PROVE bs[n] = Sees(ks[n])
    <3>1. CASE n \in 1 .. Len(cs) /\ ks[n] = cs[n]
      <4>1. bs[n] = ss[n] /\ ss[n] = Sees(cs[n])
        BY <1>2, <1>3, <1>6, <3>1 DEF OneMore
      <4> QED
        BY <3>1, <4>1
    <3>2. CASE n = Len(ks) /\ ks[n] = args
      <4>1. bs[n] = Sees(args)
        BY <1>6, <2>1, <3>2 DEF OneMore
      <4> QED
        BY <3>2, <4>1
    <3> QED
      BY <1>6, <3>1, <3>2 DEF OneMore
  <2> QED
    BY <2>1, <2>2
<1>8. CASE ms = ns /\ \E n \in 1 .. Len(ns) : ns[n].input = args
  <2>1. ASSUME NEW n \in 1 .. Len(ks) PROVE \E m \in 1 .. Len(ms) : ms[m].input = ks[n]
    <3>1. CASE n \in 1 .. Len(cs) /\ ks[n] = cs[n]
      BY <1>3, <1>8, <3>1
    <3>2. CASE ks[n] = args
      BY <1>8, <3>2
    <3> QED
      BY <1>6, <3>1, <3>2 DEF OneMore
  <2>2. \A m \in 1 .. Len(ms) : \E n \in 1 .. Len(ks) : ks[n] = ms[m].input
    BY ONLY <1>3, <1>6, <1>8 DEF OneMore
  <2> QED
    BY <1>2, <1>3, <1>6, <1>7, <1>8, <2>1, <2>2 DEF NodesOK
<1>9. CASE ms = Append(ns, NodeOf(args)) /\ \A n \in 1 .. Len(ns) : ns[n].input # args
  <2>1. OneMore(ns, ms, NodeOf(args)) /\ ms \in Seq(N) /\ NodeOf(args).input = args
    BY <1>2, <1>4, <1>9, Appended
  <2>2. \A n, m \in 1 .. Len(ms) : ms[n].input = ms[m].input => n = m
    BY ONLY <1>3, <1>9, <2>1 DEF OneMore
  <2>3. ASSUME NEW n \in 1 .. Len(ks) PROVE \E m \in 1 .. Len(ms) : ms[m].input = ks[n]
    <3>1. CASE n \in 1 .. Len(cs) /\ ks[n] = cs[n]
      <4>1. PICK m \in 1 .. Len(ns) : ns[m].input = cs[n]
        BY <1>3, <3>1
      <4>2. m \in 1 .. Len(ms) /\ ms[m] = ns[m]
        BY <2>1 DEF OneMore
      <4> QED
        BY <3>1, <4>1, <4>2
    <3>2. CASE ks[n] = args
      <4>1. Len(ms) \in 1 .. Len(ms) /\ ms[Len(ms)] = NodeOf(args)
        BY <2>1 DEF OneMore
      <4> QED
        BY <2>1, <3>2, <4>1
    <3> QED
      BY <1>6, <3>1, <3>2 DEF OneMore
  <2>4. ASSUME NEW m \in 1 .. Len(ms) PROVE \E n \in 1 .. Len(ks) : ks[n] = ms[m].input
    <3>1. CASE m \in 1 .. Len(ns) /\ ms[m] = ns[m]
      <4>1. PICK n \in 1 .. Len(cs) : cs[n] = ns[m].input
        BY <1>3, <3>1
      <4>2. n \in 1 .. Len(ks) /\ ks[n] = cs[n]
        BY <1>6 DEF OneMore
      <4> QED
        BY <3>1, <4>1, <4>2
    <3>2. CASE ms[m] = NodeOf(args)
      <4>1. Len(ks) \in 1 .. Len(ks) /\ ks[Len(ks)] = args
        BY <1>6 DEF OneMore
      <4> QED
        BY <2>1, <3>2, <4>1
    <3> QED
      BY <2>1, <3>1, <3>2 DEF OneMore
  <2> QED
    BY <1>6, <1>7, <2>1, <2>2, <2>3, <2>4 DEF NodesOK
<1> QED
  BY <1>5, <1>8, <1>9

-----------------------------------------------------------------------------
(* The invariant.                                                            *)

(* A function is on its way as long as it is qualified, is rejected only if  *)
(* it is not supported, and has nodes only once it is expanded.              *)
MacroInv ==
    /\ WellFormed
    /\ stage \in {"item", "checked", "rejected", "expanded"}
    /\ stage = "checked" => Qualified
    /\ stage = "rejected" => ~Supported
    /\ stage = "expanded" => /\ Supported
                             /\ LensOK /\ ReceiverLen + CommonLen = Len(inputs) - 1
                             /\ NodesOK(calls, nodes, seen)
    /\ stage # "expanded" => calls = <<>> /\ nodes = <<>> /\ seen = <<>>

LEMMA InitMacro == MacroInit => MacroInv
<1> SUFFICES ASSUME MacroInit PROVE MacroInv
  OBVIOUS
<1>1. inputs \in Seq(Forms)
  <2>1. PICK n \in 0 .. MaxParams : inputs \in [1 .. n -> Forms]
    BY DEF MacroInit
  <2>2. n \in Nat
    BY MacroAssumption
  <2> QED
    BY <2>1, <2>2
<1>2. \A n \in DOMAIN inputs : FormOK(inputs[n])
  BY <1>1, MacroAssumption DEF FormOK
<1>3. header.impls \in Nat
  BY MacroAssumption DEF MacroInit
<1> QED
  BY <1>1, <1>2, <1>3 DEF MacroInit, MacroInv, WellFormed

(* What does not change with the function's header and parameters.           *)
LEMMA SameFunction ==
    ASSUME header' = header, inputs' = inputs
    PROVE  /\ WellFormed' <=> WellFormed
           /\ Qualified' <=> Qualified
           /\ Supported' <=> Supported
           /\ Len(inputs)' = Len(inputs)
  BY DEF WellFormed, Qualified, SanityErrors, Supported, IsReceiver, NamedSelf

LEMMA SameParams ==
    ASSUME params' = params
    PROVE  /\ LensOK' <=> LensOK
           /\ (ReceiverLen + CommonLen)' = ReceiverLen + CommonLen
           /\ NodesOK(calls', nodes', seen') => NodesOK(calls, nodes, seen)'
<1>1. ReceiverLen' = ReceiverLen /\ CommonLen' = CommonLen
  BY DEF ReceiverLen, CommonLen
<1>2. Args' = Args
  BY <1>1 DEF Args
<1>3. ASSUME NEW a PROVE Sees(a)' = Sees(a) /\ NodeOf(a)' = NodeOf(a)
  BY <1>1 DEF Sees, NodeOf, Captured, BodyBinding
<1>4. /\ {Sees(a) : a \in Args}' = {Sees(a) : a \in Args}
      /\ {NodeOf(a) : a \in Args}' = {NodeOf(a) : a \in Args}
  BY <1>2, <1>3
<1> QED
  BY <1>1, <1>2, <1>3, <1>4 DEF LensOK, NodesOK

(* All parameters but the context become arguments.                          *)
LEMMA ParamsSplit ==
    ASSUME WellFormed, FromInputsError = "none",
           params' = [receiver |-> IF HasReceiver THEN <<inputs[1]>> ELSE <<>>,
                      common   |-> SubSeq(Rest, 1, Len(Rest) - 1)]
    PROVE  LensOK' /\ (ReceiverLen + CommonLen)' = Len(inputs) - 1
<1>1. Rest # <<>>
  BY ErrorIs, ContextIs
<1>2. /\ Rest \in Seq(Forms) /\ Len(Rest) \in Nat /\ Len(inputs) \in Nat /\ Len(Rest) >= 1
      /\ Len(Rest) = Len(inputs) - IF HasReceiver THEN 1 ELSE 0
  BY <1>1, RestIs DEF WellFormed
<1>3. Len(SubSeq(Rest, 1, Len(Rest) - 1)) = Len(Rest) - 1
  <2>1. PICK rest, k : rest = Rest /\ k = Len(Rest) - 1
    OBVIOUS
  <2>2. rest \in Seq(Forms) /\ k \in 0 .. Len(rest) /\ k \in Nat
    BY <1>2, <2>1
  <2>3. Len(SubSeq(rest, 1, k)) = k
    BY ONLY <2>2
  <2> QED
    BY <2>1, <2>3
<1>4. CommonLen' = Len(Rest) - 1
  BY <1>3 DEF CommonLen
<1>5. ReceiverLen' = IF HasReceiver THEN 1 ELSE 0
  BY DEF ReceiverLen
<1> QED
  BY <1>2, <1>4, <1>5 DEF LensOK

LEMMA MacroStep == MacroInv /\ [MacroNext]_macroVars => MacroInv'
<1> SUFFICES ASSUME MacroInv, [MacroNext]_macroVars PROVE MacroInv'
  OBVIOUS
<1> USE DEF MacroInv
<1>1. CASE CheckItem
  <2>1. header' = header /\ inputs' = inputs /\ stage = "item"
    BY <1>1 DEF CheckItem
  <2>2. stage' = IF Qualified THEN "checked" ELSE "rejected"
    BY <1>1 DEF CheckItem, Qualified
  <2>3. calls' = <<>> /\ nodes' = <<>> /\ seen' = <<>>
    BY <1>1, <2>1 DEF CheckItem
  <2>4. Supported => Qualified
    BY SupportedIs
  <2> QED
    BY <2>1, <2>2, <2>3, <2>4, SameFunction
<1>2. CASE FromInputs
  <2>1. header' = header /\ inputs' = inputs /\ stage = "checked" /\ Qualified
    BY <1>2 DEF FromInputs
  <2>2. calls' = <<>> /\ nodes' = <<>> /\ seen' = <<>>
    BY <1>2, <2>1 DEF FromInputs
  <2>3. CASE FromInputsError = "none"
    <3>1. stage' = "expanded" /\ Supported
      BY <1>2, <2>1, <2>3, SupportedIs DEF FromInputs
    <3>2. LensOK' /\ (ReceiverLen + CommonLen)' = Len(inputs) - 1
      BY <1>2, <2>3, ParamsSplit DEF FromInputs
    <3>3. NodesOK(calls, nodes, seen)'
      BY <2>2 DEF NodesOK
    <3> QED
      BY <2>1, <2>2, <3>1, <3>2, <3>3, SameFunction
  <2>4. CASE FromInputsError # "none"
    <3>1. stage' = "rejected" /\ ~Supported
      BY <1>2, <2>1, <2>4, SupportedIs DEF FromInputs
    <3> QED
      BY <2>1, <2>2, <3>1, SameFunction
  <2> QED
    BY <2>3, <2>4
<1>3. ASSUME NEW args \in [1 .. ReceiverLen + CommonLen -> Values], Call(args)
      PROVE  MacroInv'
  <2>1. /\ header' = header /\ inputs' = inputs /\ params' = params
        /\ stage = "expanded" /\ stage' = stage
    BY <1>3 DEF Call
  <2>2. NodesOK(calls', nodes', seen')
    BY <1>3, <2>1, CallKeepsNodes DEF Args
  <2> QED
    BY <2>1, <2>2, SameFunction, SameParams
<1>4. CASE UNCHANGED macroVars
  <2>1. /\ header' = header /\ inputs' = inputs /\ params' = params /\ stage' = stage
        /\ calls' = calls /\ nodes' = nodes /\ seen' = seen
    BY <1>4 DEF macroVars
  <2> QED
    BY <2>1, SameFunction, SameParams
<1> QED
  BY <1>1, <1>2, <1>3, <1>4 DEF MacroNext

LEMMA MacroAlways == MacroSpec => []MacroInv
  BY InitMacro, MacroStep, PTL DEF MacroSpec

(* #[query] accepts exactly the functions it supports, and its key has all   *)
(* parameters but the context.                                               *)
THEOREM AcceptsExactly == MacroSpec => []AcceptsSupported
<1>1. MacroInv => AcceptsSupported
  BY DEF MacroInv, AcceptsSupported
<1> QED
  BY <1>1, MacroAlways, PTL

(* Two calls of the generated function share a node if and only if their     *)
(* arguments are the same, and the body sees the arguments of its own call,  *)
(* whichever call's tenant runs it.                                          *)
THEOREM ArgumentsAreNodes == MacroSpec => []NodesStandForArguments
<1>1. MacroInv => NodesStandForArguments
  <2> SUFFICES ASSUME MacroInv PROVE NodesStandForArguments
    OBVIOUS
  <2>1. CASE stage = "expanded"
    <3>1. LensOK /\ NodesOK(calls, nodes, seen)
      BY <2>1 DEF MacroInv
    <3> QED
      BY <3>1, NodesOfCalls
      DEF NodesStandForArguments, OneNodePerArguments, BodySeesArguments
  <2>2. CASE stage # "expanded"
    <3>1. calls = <<>> /\ nodes = <<>>
      BY <2>2 DEF MacroInv
    <3>2. {calls[n] : n \in DOMAIN calls} = {}
      BY <3>1
    <3> QED
      BY <3>1, <3>2, FS_EmptySet
      DEF NodesStandForArguments, OneNodePerArguments, BodySeesArguments
  <2> QED
    BY <2>1, <2>2
<1> QED
  BY <1>1, MacroAlways, PTL
=============================================================================
