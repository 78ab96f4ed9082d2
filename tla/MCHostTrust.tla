---------------------------- MODULE MCHostTrust ----------------------------
(* HostTrust with two servers and two clients.                              *)
EXTENDS HostTrust, TLC

Pairs == -2..MaxPairs
Symmetry == Permutations(Servers) \cup Permutations(Clients)

=============================================================================
