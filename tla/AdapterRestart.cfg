SPECIFICATION FairSpec
CONSTANTS
    Writes = {w1, w2}
    Readers = {r1}
    Flush = Flush
    None = None
INVARIANTS
    BurstRestartsOnce
    ReadWaitsOutRestart
    FlushedIsLoaded
PROPERTIES
    WritesGetLoaded
    ReadersGetThrough
CHECK_DEADLOCK FALSE
