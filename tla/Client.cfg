SPECIFICATION Spec
CONSTANTS
    Absent = Absent  MaxPartial = 4  Unset = Unset  Bad = Bad  NoKey = NoKey
    PortWords = {"80", "81"}  Supported = {"k1", "k2", "k3", "k4"}  LongNames = {"long"}
    Base <- MCBase  NoName = NoName
INVARIANTS InputKept EscapeIffTyped   PresentsConfiguredKey  CopyFaithful
CHECK_DEADLOCK FALSE
