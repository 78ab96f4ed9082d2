SPECIFICATION Spec
CONSTANTS
    None = None
    Torn = Torn
    Nobody = Nobody
    NoPrint = NoPrint
    NoHost = NoHost
    NoClient = NoClient
    Servers = {s1, s2}
    Clients = {c1, c2}
    Hosts = {"srv", "other"}
    MaxPairs = 2
    Prints <- Pairs
    MaxFaults = 1
SYMMETRY Symmetry
INVARIANTS IdentityKept AcceptedIsPinned NoFalseAlarm
CHECK_DEADLOCK FALSE
