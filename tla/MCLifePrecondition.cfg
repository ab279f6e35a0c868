\* One input goes 0, 1, 0.
CONSTANTS
    Callers = {"c"}
    Inputs = {"x"}
    Queries = {"top", "calm", "ping"}
    Called = {"top"}
    Values = {0, 1}
    InitialValue = 0
    NextReads <- PreconditionReads
    Result <- PreconditionResult
    Path <- PathOf
    Eval <- EvalFrom
    ReadsOf <- ReadsFrom
    Panics <- PreconditionPanics
    Instants = 3
    MaxFrame = 2
    MaxWrites = 1
    Panicked = panicked
    MaxGone = 0
SPECIFICATION LifeSpec
INVARIANTS
    SameInputsSameOutcome
CHECK_DEADLOCK FALSE
