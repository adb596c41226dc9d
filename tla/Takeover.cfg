SPECIFICATION FairSpec
CONSTANTS
    Starts = {s1, s2, s3}
    Far = {s3}
    Mute = {s1}
    Stranger = Stranger
    Nobody = Nobody
    MaxFaults = 1
INVARIANTS
    TypeOK
    PidFileIsServers
PROPERTIES
    ImplementsSole
    StartsSettle
CHECK_DEADLOCK FALSE
