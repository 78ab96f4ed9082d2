---------------------------- MODULE MCForwarding ----------------------------
(* Forwarding with more peers than permits.                                 *)
EXTENDS Forwarding

CONSTANTS p1, p2, p3, l1, l2

MCPeers == {p1, p2, p3}
MCListeners == {l1, l2}

=============================================================================
