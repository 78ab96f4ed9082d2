SPECIFICATION FairSpec
CONSTANTS
    c1 = c1  c2 = c2  c3 = c3
    Conns <- MCConns
    MaxConnections = 2
    MaxSessions = 1
    MaxForwards = 1
    AllowForwarding = TRUE
    Root = TRUE
INVARIANTS CapacityKept
PROPERTIES  IncomingAnswered
CHECK_DEADLOCK FALSE
