\* A DFT op compiled without axes_attr or signal_size_attr.
CONSTANTS
    Rank = 3
    InShapes <- MCInShapes
    AxesAttrs <- MCAxesAttrs
    SignalSizes <- MCSignalSizes
    SignalLengthDiffs <- MCSignalShortOrExact
    Budgets <- MCBudgets
    NoAttr = NoAttr
    NoShape = NoShape

SPECIFICATION Spec

INVARIANT InferenceFailureIsReported

CHECK_DEADLOCK FALSE
