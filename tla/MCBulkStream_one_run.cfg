SPECIFICATION FairSpec
CONSTANTS
    Runs = {r1}
    Settings <- MCSettings
    Plans <- MCPlans
    Key <- MCKey
    NoKey = NoKey
    After <- MCAfter
    Slots = 2
    Requested = {"adapter1", "adapter2", "dns", "https", "x", "gone"}
    MaxRequest = 4
INVARIANTS
    ConflictsNeverOverlap
    OrderIsKept
    DoneAccountsForAll
    StopCutsLanes
PROPERTIES
    RunsEnd
CHECK_DEADLOCK FALSE
