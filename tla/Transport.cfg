SPECIFICATION Spec
CONSTANTS
    Sizes = {s1, s2}  MaxChanges = 3  ClientCap = 1  ServerCap = 1  NoHeader = NoHeader
    x1 = x1  x2 = x2  x4 = x4  x5 = x5  IsV6 <- MCIsV6  Resolutions <- MCResolutions
    Conns = {c1}  Peers = {p1, p2}  MaxEntries = 2  MaxArrivals = 2  MaxSends = 2
    Programs = {q1, q2}  MaxAsked = 2
    Main = Main  None = None
INVARIANTS NoAnswerHidden AgentForwarded
PROPERTIES ResizeSettles DisconnectNoticed DatagramsRead SendEnds
CHECK_DEADLOCK FALSE
