\* #[query]: functions of up to four parameters, two calls with arguments of
\* two values.  Tournament: three teams, main's steps or up to three other
\* changes at any point of it.  Symbolic derivatives: all trees of depth two
\* over x, -1, 0, 2 and exponents 0, 1, 3, and those of main; texts of up to
\* seven tokens, one of them misplaced, with two pairs of parentheses.
\* Each part stops: an expansion that is rejected, the bound on its inputs.
CONSTANTS
    Headers <- SomeHeaders
    Forms <- SomeForms
    MaxParams = 4
    Values = {0, 1}
    MaxCalls = 2
    MAD_BANANAS = MAD_BANANAS
    SHY_STOMPERS = SHY_STOMPERS
    SMUG_CATS = SMUG_CATS
    Teams = {MAD_BANANAS, SHY_STOMPERS, SMUG_CATS}
    MaxChanges = 3
    Formulas <- SomeFormulas
    Points = {1, 10}
    Digits <- OneDigit
    MaxTokens = 7
    MaxSlips = 1
    MaxOpen = 2
SPECIFICATION Spec
INVARIANTS
    AcceptsSupported
    NodesStandForArguments
    WinnerIsRight
    AnswersAreSlopes
    ParserIsUsual
CHECK_DEADLOCK FALSE
