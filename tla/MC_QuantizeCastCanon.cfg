\* Three casts over distributed buffers, read by two consumers.
CONSTANTS
    N = 3
    Sinks = {s1, s2}
    Types <- MCDistributedTypes
    NotDistributed = NotDistributed
    OVERLAPPED = OVERLAPPED
    SEGMENTED = SEGMENTED
    DUPLICATED = DUPLICATED
    L1 = L1
    L2 = L2
    q1 = q1
    f16 = f16
    g1 = g1
    FloatElems = {f16}

SPECIFICATION Spec

INVARIANTS
    TypeOK
    AllOpsVerify

PROPERTIES
    Termination
    RefinesCastChainAbstract

\* The driver stops once its worklist is empty.
CHECK_DEADLOCK FALSE
