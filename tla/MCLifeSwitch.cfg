\* Two callers of two queries that call each other in turn, one abandoned call
\* at a time, the runtime dropped at any moment; in the end the system stops.
CONSTANTS
    Callers = {"c", "d"}
    Inputs = {"x"}
    Queries = {"left", "right"}
    Called = {"left", "right"}
    Values = {0, 1}
    InitialValue = 0
    NextReads <- SwitchReads
    Result <- SwitchResult
    Path <- PathOf
    Eval <- EvalFrom
    ReadsOf <- ReadsFrom
    Panics <- NoPanics
    Instants = 3
    MaxFrame = 2
    MaxWrites = 1
    Panicked = panicked
    MaxGone = 1
SPECIFICATION LifeFairSpec
INVARIANTS
    AnswersAreFresh
    DropFailsNobody
PROPERTIES
    EveryUpdateEnds
    OnlyContextsKeepPhase
    AllNodesEnd
CHECK_DEADLOCK FALSE
