----------------------------- MODULE MCSequential -----------------------------
(* The parts of the repository that no two tasks are at work in: #[query] and*)
(* what it generates, the tournament example, and the queries and the parser *)
(* of the symbolic derivative example.  Each behaviour is one of one part,   *)
(* the others stay as they begin.                                            *)
EXTENDS MCQueryMacro, MCSymbolic, MCFormulaParser

CONSTANTS
    Teams, MAD_BANANAS, SHY_STOMPERS, SMUG_CATS, MaxChanges

VARIABLES
    part,
    matches, roster, changes, at

tournamentVars == <<matches, roster, changes, at>>

Tournament == INSTANCE MCTournament

Init ==
    /\ part \in {"macro", "tournament", "symbolic", "parser"}
    /\ MacroInit
    /\ part # "macro" => inputs = <<>> /\ header = CHOOSE h \in Headers : TRUE
    /\ Tournament!MCInit
    /\ SymbolicInit
    /\ ParserInit

Next ==
    /\ UNCHANGED part
    /\ \/ /\ part = "macro"
          /\ MacroNext
          /\ UNCHANGED <<tournamentVars, symbolicVars, text>>
       \/ /\ part = "tournament"
          /\ Tournament!MCNext
          /\ UNCHANGED <<macroVars, symbolicVars, text>>
       \/ /\ part = "symbolic"
          /\ SymbolicNext
          /\ UNCHANGED <<macroVars, tournamentVars, text>>
       \/ /\ part = "parser"
          /\ ParserNext
          /\ UNCHANGED <<macroVars, tournamentVars, symbolicVars>>

Spec == Init /\ [][Next]_<<part, macroVars, tournamentVars, symbolicVars, text>>

-----------------------------------------------------------------------------
(* Over every order of the hash tables they walk, the queries of             *)
(* examples/tournament.rs give the same scores and the same winner; scores   *)
(* add up to what was played, and the assert_eq!s of main hold after its     *)
(* steps.                                                                    *)
WinnerIsRight ==
    Tournament!OrderDoesNotShow /\ Tournament!PointsAddUp /\ Tournament!MainAsserts

(* The queries of examples/symbolic_derivative.rs agree with the polynomial  *)
(* the formula stands for: eval_const answers for constants only, simplify   *)
(* keeps the value and folds all it can, derivative is the slope through all *)
(* its simplifications, derivative_at the slope at the point asked for.      *)
AnswersAreSlopes ==
    /\ ConstIsConstant
    /\ SimplifyKeepsValue
    /\ DerivativeIsSlope
    /\ ValuesAreSlopes

(* The parser takes the first alternative that fits: what it accepts has     *)
(* exactly the tree of the usual grammar, and what it refuses is no formula, *)
(* or has parentheses around a whole one, or around all that is within       *)
(* others.                                                                   *)
ParserIsUsual == ParsesAsUsual /\ RefusesOnlyParentheses
=============================================================================
