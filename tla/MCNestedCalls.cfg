\* Three calls, nested in one another or not, without inputs, frames 0..2.
\* Calls that wait for themselves stop for ever.
CONSTANTS
    Calls = {c1, c2, c3}
    Inputs = {}
    Instants = 1
    FirstPermits = 2
    MorePermits = 1
    MaxFrame = 2
    MaxClones = 0
SPECIFICATION NestedFairSpec
PROPERTIES
    LockFairSpec
    ServedUnlessSelfWait
    SelfWaitLasts
CHECK_DEADLOCK FALSE
