SPECIFICATION FairSpec
CONSTANTS
    Kinds = {"upload", "download", "relay"}
    Entries = 2
    MaxLosses = 1
INVARIANTS DoneIsComplete NoWorkerLeft
PROPERTIES EveryoneEnds
CHECK_DEADLOCK FALSE
