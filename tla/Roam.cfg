SPECIFICATION FairSpec
CONSTANTS
    WatchInterval = 1
    MinSilence = 2
    MaxBackoff = 3
    MinHopInterval = 1
    Silences <- MCSilences
    Pinned = TRUE
    MaxFails = 1
    None = None
INVARIANTS TroubleIsCurrent
PROPERTIES HopsSpaced HopMeansSilence Recovers WatchEnds
CHECK_DEADLOCK FALSE
