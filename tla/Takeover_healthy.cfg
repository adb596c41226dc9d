SPECIFICATION Spec
CONSTANTS
    Starts = {s1, s2, s3}
    Far = {}
    Mute = {}
    Stranger = Stranger
    Nobody = Nobody
    MaxFaults = 0
PROPERTY OnlySilentEnded
CHECK_DEADLOCK FALSE
