\* Two calls, one input, frames 0..1.  The system stops once it is dropped.
CONSTANTS
    Calls = {c1, c2}
    Inputs = {i1}
    Instants = 2
    FirstPermits = 2
    MorePermits = 1
    MaxFrame = 1
    MaxClones = 2
    Values = {0}
    InitialValue = 0
SPECIFICATION ShutFairSpec
INVARIANTS
    NobodyWaitsForTheDead
PROPERTIES
    AllTasksEnd
    EveryCallServed
CHECK_DEADLOCK FALSE
