CONSTANTS
    Shapes <- MCShapes
    Orders <- MCOrders
    Methods <- MCMethods
    Coords <- MCCoords
    NearestModes <- MCNearestModes
SPECIFICATION Spec
INVARIANTS
    TypeOK
    FastPathsMatchReference
    HWCLinearInBounds
    NearestNeverReadsPastEnd
PROPERTIES
    RowLocalWrites
\* One kernel invocation: it stops once it has returned.
CHECK_DEADLOCK FALSE
