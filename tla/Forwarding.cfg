SPECIFICATION FairSpec
CONSTANTS
    p1 = p1  p2 = p2  p3 = p3  l1 = l1  l2 = l2
    Peers <- MCPeers
    Listeners <- MCListeners
    MaxStreams = 2
INVARIANTS PermitsConserved
PROPERTIES PendingAccepted
CHECK_DEADLOCK FALSE
