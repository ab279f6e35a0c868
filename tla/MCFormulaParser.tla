--------------------------- MODULE MCFormulaParser ---------------------------
(* A small instance of FormulaParser for TLC.                                *)
EXTENDS FormulaParser

OneDigit == [d \in {"2"} |-> 2]
=============================================================================
