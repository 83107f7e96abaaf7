\* interpolationHWC_nearest, half-pixel, with different height and width scales.
CONSTANTS
    Shapes <- MCShapeDown
    Orders = {"HWC"}
    Methods = {"NEAREST"}
    Coords = {"HALF_PIXEL"}
    NearestModes = {"ROUND_PREFER_CEIL"}
SPECIFICATION Spec
INVARIANT OutputMatchesReference
CHECK_DEADLOCK FALSE
