\* One caller, the diamond, frames 0..3; local instants of two values wrap
\* around twice.
CONSTANTS
    Callers = {"c"}
    Inputs = {"x", "y"}
    Queries = {"half", "pick", "both"}
    Called = {"half", "pick", "both"}
    Values = {0, 1, 2}
    InitialValue = 0
    NextReads <- DiamondReads
    Result <- DiamondResult
    Path <- PathOf
    Eval <- EvalFrom
    ReadsOf <- ReadsFrom
    Instants = 2
    MaxFrame = 3
    MaxWrites = 1
SPECIFICATION QuerySpec
INVARIANTS
    AnswersAreFresh
    RangeIsTrue
    SelectionIsExact
PROPERTIES
    KeptOnlyIfUnchanged
