------------------------------- MODULE Symbolic -------------------------------
(* The queries of examples/symbolic_derivative.rs over a formula: evaluation,*)
(* constant folding, simplification and derivation, each a recursive query   *)
(* of the trees it is asked for.  Numbers are small enough not to overflow;  *)
(* an Option is a sequence of length 0 or 1.                                 *)
EXTENDS Integers, Sequences

CONSTANTS
    Formulas,   \* formulas the user may set
    Points      \* where the derivative is asked for

Const(n)     == [op |-> "Const", n |-> n]
Var          == [op |-> "Var"]
Add(l, r)    == [op |-> "Add", left |-> l, right |-> r]
Mul(l, r)    == [op |-> "Mul", left |-> l, right |-> r]
Pow(b, pow)  == [op |-> "Pow", base |-> b, pow |-> pow]

None    == <<>>
Some(n) == <<n>>

(* i64::pow.                                                                 *)
Raised(b, pow) == IF pow = 0 THEN 1 ELSE b ^ pow

RECURSIVE Eval(_, _), EvalConst(_), Simplify(_), Derivative(_), Underflows(_)

Eval(s, x) ==
    CASE s.op = "Const" -> s.n
      [] s.op = "Var"   -> x
      [] s.op = "Add"   -> Eval(s.left, x) + Eval(s.right, x)
      [] s.op = "Mul"   -> Eval(s.left, x) * Eval(s.right, x)
      [] s.op = "Pow"   -> Raised(Eval(s.base, x), s.pow)

(* Mutant: the guard holds for the last alternative of the pattern only.     *)
ConstProductUnguarded(l, r) ==
    CASE l # None \/ r = Some(0) -> Some(0)
      [] OTHER -> None

(* A zero factor makes a product constant whatever the other is, and so does *)
(* a zero exponent.                                                          *)
ConstProduct(l, r) ==
    CASE Some(0) \in {l, r} -> Some(0)
      [] Some(0) \notin {l, r} /\ None \in {l, r} -> None
      [] OTHER -> Some(l[1] * r[1])

ConstSum(l, r) == IF None \in {l, r} THEN None ELSE Some(l[1] + r[1])

EvalConst(s) ==
    CASE s.op = "Const" -> Some(s.n)
      [] s.op = "Var"   -> None
      [] s.op = "Add"   -> ConstSum(EvalConst(s.left), EvalConst(s.right))
      [] s.op = "Mul"   -> ConstProduct(EvalConst(s.left), EvalConst(s.right))
      [] s.op = "Pow"   ->
            LET b == EvalConst(s.base)
            IN  CASE s.pow = 0 -> Some(1)
                  [] s.pow # 0 /\ b = None -> None
                  [] OTHER -> Some(Raised(b[1], s.pow))

(* Mutant: a factor of -1, too, is dropped.                                  *)
TimesUnsigned(n, s) ==
    CASE n = 0 -> Const(0)
      [] n \in {1, -1} -> s
      [] OTHER -> Mul(Const(n), s)

(* One side of a sum or product is constant: it goes right of a sum, left of *)
(* a product, or away.                                                       *)
Plus(n, s)  == IF n = 0 THEN s ELSE Add(s, Const(n))
Times(n, s) ==
    CASE n = 0 -> Const(0)
      [] n = 1 -> s
      [] OTHER -> Mul(Const(n), s)
ToThe(s, pow) ==
    CASE pow = 0 -> Const(1)
      [] pow = 1 -> s
      [] OTHER -> Pow(s, pow)

SimplifySum(s, l, r) ==
    CASE l # None /\ r # None -> Const(l[1] + r[1])
      [] l # None /\ r = None -> Plus(l[1], Simplify(s.right))
      [] l = None /\ r # None -> Plus(r[1], Simplify(s.left))
      [] OTHER -> Add(Simplify(s.left), Simplify(s.right))

SimplifyProduct(s, l, r) ==
    CASE l # None /\ r # None -> Const(l[1] * r[1])
      [] l # None /\ r = None -> Times(l[1], Simplify(s.right))
      [] l = None /\ r # None -> Times(r[1], Simplify(s.left))
      [] OTHER -> Mul(Simplify(s.left), Simplify(s.right))

Simplify(s) ==
    CASE s.op \in {"Const", "Var"} -> s
      [] s.op = "Add" -> SimplifySum(s, EvalConst(s.left), EvalConst(s.right))
      [] s.op = "Mul" -> SimplifyProduct(s, EvalConst(s.left), EvalConst(s.right))
      [] s.op = "Pow" ->
            IF EvalConst(s.base) # None
               THEN Const(Raised(EvalConst(s.base)[1], s.pow))
               ELSE ToThe(Simplify(s.base), s.pow)

(* Mutant: the chain rule is forgotten.                                      *)
DerivativeOfPowInner(s) == Mul(Const(s.pow), Pow(s.base, s.pow - 1))

DerivativeOfPow(s) ==
    Mul(Const(s.pow), Mul(Pow(s.base, s.pow - 1), Derivative(s.base)))

Derivative(s) ==
    CASE s.op = "Const" -> Const(0)
      [] s.op = "Var"   -> Const(1)
      [] s.op = "Add"   -> Simplify(Add(Derivative(s.left), Derivative(s.right)))
      [] s.op = "Mul"   -> Simplify(Add(Mul(s.left, Derivative(s.right)),
                                        Mul(Derivative(s.left), s.right)))
      [] s.op = "Pow"   -> Simplify(DerivativeOfPow(s))

(* `pow - 1` of a u32: with overflow checks the tenant panics at 0.          *)
Underflows(s) ==
    CASE s.op \in {"Const", "Var"} -> FALSE
      [] s.op \in {"Add", "Mul"}   -> Underflows(s.left) \/ Underflows(s.right)
      [] s.op = "Pow"              -> s.pow = 0 \/ Underflows(s.base)

-----------------------------------------------------------------------------
VARIABLES
    formula,    \* the input, parsed
    simplified, \* what the query simplify has answered for it, if asked
    derivative, \* what the query derivative has answered for it, if asked
    values      \* what derivative_at has answered, by point

symbolicVars == <<formula, simplified, derivative, values>>

(* Formula::initial is "0".                                                  *)
SymbolicInit ==
    formula = Const(0) /\ simplified = None /\ derivative = None /\ values = {}

(* Bound: the formula is set once.                                           *)
Set ==
    /\ formula = Const(0) /\ simplified = None /\ derivative = None
    /\ formula' \in Formulas
    /\ UNCHANGED <<simplified, derivative, values>>

(* The query simplify.                                                       *)
AskSimplify ==
    /\ simplified = None
    /\ simplified' = Some(Simplify(formula))
    /\ UNCHANGED <<formula, derivative, values>>

(* The query derivative; a node whose tenant panics does not answer.         *)
AskDerivative ==
    /\ derivative = None
    /\ ~Underflows(formula)
    /\ derivative' = Some(Derivative(formula))
    /\ UNCHANGED <<formula, simplified, values>>

(* Mutant: it is the formula that is evaluated.                              *)
AskAtFormula(x) ==
    /\ derivative # None
    /\ values' = values \cup {<<x, Eval(formula, x)>>}
    /\ UNCHANGED <<formula, simplified, derivative>>

AskAt(x) ==
    /\ derivative # None
    /\ values' = values \cup {<<x, Eval(derivative[1], x)>>}
    /\ UNCHANGED <<formula, simplified, derivative>>

SymbolicNext ==
    \/ Set
    \/ AskSimplify
    \/ AskDerivative
    \/ \E x \in Points : AskAt(x)

SymbolicSpec == SymbolicInit /\ [][SymbolicNext]_symbolicVars
=============================================================================
