------------------------------ MODULE MCSymbolic ------------------------------
(* Symbolic over all small trees, against polynomials as sequences of        *)
(* coefficients, lowest first.                                               *)
EXTENDS Symbolic

RECURSIVE PolyPower(_, _), Poly(_), TreesUpTo(_), Trim(_), At(_, _)

Coefficient(p, n) == IF n \in DOMAIN p THEN p[n] ELSE 0

Trim(p) == IF p # <<>> /\ p[Len(p)] = 0 THEN Trim(SubSeq(p, 1, Len(p) - 1)) ELSE p

Sum(p, q) ==
    Trim([n \in 1 .. (IF Len(p) < Len(q) THEN Len(q) ELSE Len(p)) |->
             Coefficient(p, n) + Coefficient(q, n)])

Shifted(p, by, factor) ==
    Trim([n \in 1 .. Len(p) + by |-> IF n <= by THEN 0 ELSE factor * p[n - by]])

Product(p, q) ==
    LET Upto[n \in 0 .. Len(q)] ==
            IF n = 0 THEN <<>> ELSE Sum(Upto[n - 1], Shifted(p, n - 1, q[n]))
    IN  Upto[Len(q)]

PolyPower(p, n) == IF n = 0 THEN <<1>> ELSE Product(p, PolyPower(p, n - 1))

Poly(s) ==
    CASE s.op = "Const" -> Trim(<<s.n>>)
      [] s.op = "Var"   -> <<0, 1>>
      [] s.op = "Add"   -> Sum(Poly(s.left), Poly(s.right))
      [] s.op = "Mul"   -> Product(Poly(s.left), Poly(s.right))
      [] s.op = "Pow"   -> PolyPower(Poly(s.base), s.pow)

Slope(p) == Trim([n \in 1 .. Len(p) - 1 |-> n * p[n + 1]])

(* Horner's rule.                                                            *)
At(p, x) == IF p = <<>> THEN 0 ELSE p[1] + x * At(Tail(p), x)

TreesUpTo(depth) ==
    IF depth = 0 THEN {Var, Const(-1), Const(0), Const(2)}
    ELSE LET below == TreesUpTo(depth - 1)
         IN  below \cup {Add(l, r) : l, r \in below} \cup {Mul(l, r) : l, r \in below}
                   \cup {Pow(b, n) : b \in below, n \in {0, 1, 3}}

(* All trees of depth 2, and the formulas of main.                           *)
X == Var
MainFormulas ==
    <<Pow(X, 2),
      Add(Mul(Const(3), Pow(X, 3)), Add(Pow(Const(3), 3), X)),
      Mul(Const(5), Pow(Add(Pow(X, 3), Add(Mul(Const(3), Pow(X, 2)), Const(1))), 2))>>

SomeFormulas == TreesUpTo(2) \cup {MainFormulas[n] : n \in 1 .. 3}

RECURSIVE Folded(_)

(* No proper constant is left unfolded anywhere in a tree.                   *)
Folded(s) ==
    /\ s.op # "Const" => EvalConst(s) = None
    /\ s.op \in {"Add", "Mul"} => Folded(s.left) /\ Folded(s.right)
    /\ s.op = "Pow" => Folded(s.base)

-----------------------------------------------------------------------------
(* The derivative is that of the polynomial the formula stands for, through  *)
(* the simplifications on the way and at the end.                            *)
DerivativeIsSlope ==
    derivative # None => Poly(derivative[1]) = Slope(Poly(formula))

(* derivative_at answers with the slope of the formula there, as the         *)
(* assert_eq!s of main say of its three (symbolic_derivative.rs:372-419).    *)
ValuesAreSlopes ==
    \A v \in values : v[2] = At(Slope(Poly(formula)), v[1])

(* simplify is asked for many trees that are answers of other queries: it    *)
(* may change their shape, never their value, and it leaves no constant      *)
(* unfolded, so that asking for it again changes nothing.                    *)
SimplifyKeepsValue ==
    simplified # None =>
        LET s == simplified[1]
        IN  Poly(s) = Poly(formula) /\ Folded(s) /\ Simplify(s) = s

(* eval_const answers only for trees that are constant, with their value.    *)
ConstIsConstant ==
    EvalConst(formula) # None => Poly(formula) = Trim(EvalConst(formula))
=============================================================================
