\* Three casts over distributed buffers, plain memrefs and a distributed
\* float buffer, read by two consumers.
CONSTANTS
    N = 3
    Sinks = {s1, s2}
    Types <- MCAllTypes
    NotDistributed = NotDistributed
    OVERLAPPED = OVERLAPPED
    SEGMENTED = SEGMENTED
    DUPLICATED = DUPLICATED
    L1 = L1
    L2 = L2
    q1 = q1
    f16 = f16
    g1 = g1
    FloatElems = {f16}

SPECIFICATION Spec

INVARIANT AllOpsVerify

CHECK_DEADLOCK FALSE
