\* The tiling of a DFT op whose attributes are present.
CONSTANTS
    Rank = 3
    InShapes <- MCInShapes
    AxesAttrs <- MCAxesAttrs
    SignalSizes <- MCSignalSizes
    SignalLengthDiffs = {0}
    Budgets <- MCBudgets
    NoAttr = NoAttr
    NoShape = NoShape

SPECIFICATION Spec

INVARIANTS
    TypeOK
    InputTilesInBounds
    InputTilingReconstructsInput

\* A DFT op's tiling ends in done or failed and stops there.
CHECK_DEADLOCK FALSE
