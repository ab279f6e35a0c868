\* Two overlapping calls, two inputs of two values, frames 0..2; local
\* instants have two values, so that they wrap around within the run.
CONSTANTS
    Calls = {c1, c2}
    Inputs = {i1, i2}
    Instants = 2
    FirstPermits = 1
    MorePermits = 1
    MaxFrame = 2
    MaxClones = 2
    Values = {0, 1}
    InitialValue = 0
SPECIFICATION StoreSpec
SYMMETRY Symmetry
INVARIANTS
    ReadsLastWrite
    SnapshotComplete
    VerdictIsExact
    SnapshotTellsChange
