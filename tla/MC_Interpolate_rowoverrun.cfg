\* interpolationCHW (LINEAR_ONNX, asymmetric) on two channels, 3 -> 5 columns.
CONSTANTS
    Shapes <- MCShapeOdd
    Orders = {"CHW"}
    Methods = {"LINEAR_ONNX"}
    Coords = {"ASYMMETRIC"}
    NearestModes = {"FLOOR"}
SPECIFICATION Spec
INVARIANT OutputMatchesReference
CHECK_DEADLOCK FALSE
