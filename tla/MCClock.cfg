\* Safety of the clock: three overlapping calls, two inputs, frames 0..2;
\* the permit pool starts with one permit so that it grows.
CONSTANTS
    Calls = {c1, c2, c3}
    Inputs = {i1, i2}
    Instants = 2
    FirstPermits = 1
    MorePermits = 1
    MaxFrame = 2
    MaxClones = 1
SPECIFICATION Spec
SYMMETRY Symmetry
INVARIANTS
    TypeOK
    PermitBalance
    PhaseExclusion
    TokensFresh
    IndexIsPlace
PROPERTIES
    StillUnderToken
    LockSpec
