SPECIFICATION FairSpec
CONSTANTS
    Ids = {i, j}
    Selections = {{i}, {i, j}}
    Runs = {r}
    Writes = {w}
    NoRun = NoRun
INVARIANTS
    PageCatchesUp
    BusyIsBalanced
    RowsSettle
PROPERTIES
    PageGoesIdle
CHECK_DEADLOCK FALSE
