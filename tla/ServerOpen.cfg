SPECIFICATION Spec
CONSTANTS
    c1 = c1  c2 = c2  c3 = c3
    Conns <- MCConns
    MaxConnections = 2
    MaxSessions = 1
    MaxForwards = 2
    AllowForwarding = TRUE
    Root = TRUE
SYMMETRY Symmetry
INVARIANT OpenConnectionsBounded
CHECK_DEADLOCK FALSE
