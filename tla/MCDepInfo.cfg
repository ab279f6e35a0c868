\* Three holders, input indices 0..2, frames 0..1.
CONSTANTS
    Holders = {h1, h2, h3}
    MaxIndex = 2
    MaxFrame = 1
SPECIFICATION DepSpec
SYMMETRY Symmetry
INVARIANTS
    NothingLost
    ConstantsOnly
