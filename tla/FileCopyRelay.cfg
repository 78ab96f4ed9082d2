SPECIFICATION Spec
CONSTANTS
    Kinds = {"relay"}
    Entries = 1
    MaxLosses = 0
INVARIANT RelayNeverTruncates
CHECK_DEADLOCK FALSE
