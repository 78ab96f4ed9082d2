SPECIFICATION FairSpec
CONSTANTS
    Modes = {"pty", "pipes"}
    Endings = {"code"}
    MaxChunks <- LiveChunks
    MaxSignals = 1
PROPERTIES ExitReachesClient  DisconnectEnds 
CHECK_DEADLOCK FALSE
