\* Frames 0..2 and four local instants: nothing wraps around.
CONSTANTS
    Callers = {"c"}
    Inputs = {"x", "y"}
    Queries = {"half", "pick", "both"}
    Called = {"half", "pick", "both"}
    Values = {0, 1, 2}
    InitialValue = 0
    NextReads <- DiamondReads
    Result <- DiamondResult
    Path <- PathOf
    Eval <- EvalFrom
    ReadsOf <- ReadsFrom
    Instants = 4
    MaxFrame = 2
    MaxWrites = 1
SPECIFICATION QuerySpec
PROPERTIES
    RecalculatesOnlyIfChanged
