\* nnResample with FLOOR / SIMPLE rounding and a half-pixel transform on a 2x upscale.
CONSTANTS
    Shapes <- MCShape2x
    Orders = {"CHW", "HWC"}
    Methods = {"NEAREST"}
    Coords = {"HALF_PIXEL", "PYTORCH_HALF_PIXEL"}
    NearestModes = {"FLOOR", "SIMPLE"}
SPECIFICATION Spec
INVARIANT NoOutOfBoundsRead
CHECK_DEADLOCK FALSE
