\* interpolationCHW_nearest on two channels whose output width is not a multiple of 8.
CONSTANTS
    Shapes <- MCShapeOdd
    Orders = {"CHW"}
    Methods = {"NEAREST"}
    Coords = {"ASYMMETRIC"}
    NearestModes = {"ROUND_PREFER_FLOOR", "FLOOR"}
SPECIFICATION Spec
INVARIANT OutputMatchesReference
CHECK_DEADLOCK FALSE
