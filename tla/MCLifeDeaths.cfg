\* Two callers, three queries of which one panics, frames 0..2; once the
\* runtime is dropped the system stops.
CONSTANTS
    Callers = {"c", "d"}
    Inputs = {"x"}
    Queries = {"top", "calm", "ping"}
    Called = {"top", "ping"}
    Values = {0, 1}
    InitialValue = 0
    NextReads <- PreconditionReads
    Result <- PreconditionResult
    Path <- PathOf
    Eval <- EvalFrom
    ReadsOf <- ReadsFrom
    Panics <- PreconditionPanics
    Instants = 3
    MaxFrame = 2
    MaxWrites = 1
    Panicked = panicked
    MaxGone = 0
SPECIFICATION LifeFairSpec
INVARIANTS
    DeathHasReason
    EveryWaitHasRequest
    ValuesSurvivePanics
PROPERTIES
    EveryCallEnds
CHECK_DEADLOCK FALSE
