SPECIFICATION FairSpec
CONSTANTS
    Writers = {w1, w2}
    Procs = {"api", "cli"}
    Api = "api"
    Threads = {w1}
    Settings = {"pair", "one"}
    Compound = {"pair"}
    MaxWrites = 2
INVARIANTS
    WritersTakeTurns
    VerifiedIsKept
PROPERTIES
    WritesEnd
