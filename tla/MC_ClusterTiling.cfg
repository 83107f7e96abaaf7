\* Wrappers of one or two operands of rank 3 or 4, every mix of dense and
\* sparse, distributed and plain sub-buffers.
CONSTANTS
    Ranks = {3, 4}
    MaxOperands = 2
    Bodies <- MCBodies
    NCETask = NCETask
    DMATask = DMATask
    ViewOp = ViewOp
    YieldOp = YieldOp
    NoOp = NoOp

SPECIFICATION Spec

INVARIANTS
    TypeOK
    RoundTrip
