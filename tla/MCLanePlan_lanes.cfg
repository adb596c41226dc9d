SPECIFICATION Declarations
CONSTANTS
    NoResource = NoResource
    MaxItems = 4
    Keys = {k1, k2}
    MaxAfter = 2
INVARIANTS
    LanesAreOrderedComponents
    CyclesAreRefused
CHECK_DEADLOCK FALSE
