SPECIFICATION Spec
CONSTANTS
    Modes = {"pty", "pipes"}
    Endings = {"code", "other"}
    MaxChunks <- SafetyChunks
    MaxSignals = 1
INVARIANTS   CleanEnd
CHECK_DEADLOCK FALSE
