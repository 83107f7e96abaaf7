\* optInterpCHW2x on an input width of 8 (not a multiple of 16).
CONSTANTS
    Shapes <- MCShape2x
    Orders = {"CHW"}
    Methods = {"LINEAR_ONNX"}
    Coords = {"ASYMMETRIC"}
    NearestModes = {"FLOOR"}
SPECIFICATION Spec
INVARIANT NoOutOfBoundsWrite
CHECK_DEADLOCK FALSE
