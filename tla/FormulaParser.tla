---------------------------- MODULE FormulaParser ----------------------------
(* FromStr for Symbol of examples/symbolic_derivative.rs: parser combinators *)
(* of nom, which take the first alternative that fits and do not come back   *)
(* to the others.  A text is a sequence of tokens; space, which is allowed   *)
(* around an operator only, is left out.                                     *)
EXTENDS Integers, Sequences, FiniteSets

CONSTANTS
    Digits,     \* tokens for numbers, as a function to the number
    MaxTokens,  \* bound: tokens of a text
    MaxSlips,   \* bound: misplaced tokens of a text
    MaxOpen     \* bound: opening parentheses of a text

VARIABLE text

Tokens == {"x", "+", "*", "^", "(", ")"} \cup DOMAIN Digits

(* What a parser returns: the tree and the place behind it, or an error.     *)
Failure == <<>>
Success(tree, next) == <<tree, next>>

Is(token, i) == i \in DOMAIN text /\ text[i] = token

AddOperands == <<"mul", "pow", "par", "variable", "constant">>

(* Mutant: the base of a power is tried before the power.                    *)
MulOperandsAtomFirst == <<"par", "variable", "constant", "pow">>

MulOperands == <<"pow", "par", "variable", "constant">>

(* Mutant: a product takes the sum that follows it.                          *)
MulRightsSum == <<"add", "mul">> \o MulOperands

MulRights == <<"mul">> \o MulOperands

SymbolForms == <<"add", "mul", "pow", "variable", "constant">>

RECURSIVE Parse(_, _), Alt(_, _)

(* alt: the first parser that fits.                                          *)
Alt(parsers, i) ==
    IF parsers = <<>> THEN Failure
    ELSE LET first == Parse(Head(parsers), i)
         IN  IF first # Failure THEN first ELSE Alt(Tail(parsers), i)

(* separated_pair *)
Pair(op, token, lefts, rights, i) ==
    LET left == Alt(lefts, i)
    IN  IF left = Failure \/ ~Is(token, left[2]) THEN Failure
        ELSE LET right == Alt(rights, left[2] + 1)
             IN  IF right = Failure THEN Failure
                 ELSE Success([op |-> op, left |-> left[1], right |-> right[1]], right[2])

Power(i) ==
    LET base == Alt(<<"par", "variable", "constant">>, i)
    IN  IF base = Failure \/ ~Is("^", base[2]) \/ base[2] + 1 \notin DOMAIN text
           THEN Failure
           ELSE IF text[base[2] + 1] \notin DOMAIN Digits THEN Failure
                ELSE Success([op |-> "Pow", base |-> base[1],
                              pow |-> Digits[text[base[2] + 1]]], base[2] + 2)

Parenthesised(i) ==
    IF ~Is("(", i) THEN Failure
    ELSE LET inner == Parse("symbol", i + 1)
         IN  IF inner = Failure \/ ~Is(")", inner[2]) THEN Failure
             ELSE Success(inner[1], inner[2] + 1)

Parse(parser, i) ==
    CASE parser = "symbol"   -> Alt(SymbolForms, i)
      [] parser = "add"      -> Pair("Add", "+", AddOperands, <<"symbol", "par">>, i)
      [] parser = "mul"      -> Pair("Mul", "*", MulOperands, MulRights, i)
      [] parser = "pow"      -> Power(i)
      [] parser = "par"      -> Parenthesised(i)
      [] parser = "variable" -> IF Is("x", i) THEN Success([op |-> "Var"], i + 1) ELSE Failure
      [] parser = "constant" ->
            IF i \in DOMAIN text /\ text[i] \in DOMAIN Digits
               THEN Success([op |-> "Const", n |-> Digits[text[i]]], i + 1) ELSE Failure

(* The whole text has to be used.                                            *)
FromStr ==
    LET result == Parse("symbol", 1)
    IN  IF result = Failure \/ result[2] # Len(text) + 1 THEN Failure ELSE result

ParserInit == text = <<>>

(* Bounds: operand and operator take turns but for MaxSlips places, and      *)
(* there are at most MaxOpen opening parentheses.                            *)
EndsOperand(token) == token \in {"x", ")"} \cup DOMAIN Digits

StartsOperand(token) == token \in {"x", "("} \cup DOMAIN Digits

Slips(t) ==
    Cardinality({i \in 1 .. Len(t) - 1 :
                    EndsOperand(t[i]) = StartsOperand(t[i + 1])})

Opened(t) == Cardinality({i \in DOMAIN t : t[i] = "("})

Type(token) ==
    /\ Len(text) < MaxTokens
    /\ text' = Append(text, token)
    /\ Slips(text') <= MaxSlips /\ Opened(text') <= MaxOpen

ParserNext == \E token \in Tokens : Type(token)

ParserSpec == ParserInit /\ [][ParserNext]_text

-----------------------------------------------------------------------------
(* The usual grammar, as the set of trees of the text from i to j: sums of   *)
(* products of powers, both grouped to the right.                            *)
RECURSIVE Sums(_, _), Products(_, _)

Atoms(i, j) ==
    IF i = j
       THEN (IF text[i] = "x" THEN {[op |-> "Var"]} ELSE {})
            \cup {[op |-> "Const", n |-> Digits[d]] : d \in DOMAIN Digits \cap {text[i]}}
       ELSE IF i < j /\ text[i] = "(" /\ text[j] = ")" THEN Sums(i + 1, j - 1) ELSE {}

Powers(i, j) ==
    Atoms(i, j) \cup
    IF i + 2 <= j /\ text[j - 1] = "^" /\ text[j] \in DOMAIN Digits
       THEN {[op |-> "Pow", base |-> b, pow |-> Digits[text[j]]] : b \in Atoms(i, j - 2)}
       ELSE {}

Joined(op, lefts, rights) == {[op |-> op, left |-> l, right |-> r] : l \in lefts, r \in rights}

Products(i, j) ==
    Powers(i, j) \cup
    UNION {Joined("Mul", Powers(i, k - 1), Products(k + 1, j)) :
              k \in {k \in i + 1 .. j - 1 : text[k] = "*"}}

Sums(i, j) ==
    Products(i, j) \cup
    UNION {Joined("Add", Products(i, k - 1), Sums(k + 1, j)) :
              k \in {k \in i + 1 .. j - 1 : text[k] = "+"}}

Trees == Sums(1, Len(text))

(* Parentheses around a whole formula, or around all that is within others.  *)
DoubleParentheses ==
    \E i, j \in DOMAIN text :
        /\ i < j /\ text[i] = "(" /\ text[j] = ")" /\ Sums(i + 1, j - 1) # {}
        /\ \/ i = 1 /\ j = Len(text)
           \/ Is("(", i - 1) /\ Is(")", j + 1)

(* The order of the alternatives gives every operator its usual precedence:  *)
(* what is accepted has exactly the tree of the usual grammar.               *)
ParsesAsUsual == FromStr # Failure => Trees = {FromStr[1]}

(* Taking the first alternative that fits loses no formula: what is refused  *)
(* is no formula, or has parentheses around a whole one or doubled ones.     *)
RefusesOnlyParentheses ==
    text # <<>> => (FromStr = Failure <=> Trees = {} \/ DoubleParentheses)
=============================================================================
