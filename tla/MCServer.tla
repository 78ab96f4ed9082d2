------------------------------ MODULE MCServer ------------------------------
(* Server with more clients than connection slots.                          *)
EXTENDS Server, TLC

CONSTANTS c1, c2, c3

MCConns == {c1, c2, c3}

Symmetry == Permutations(MCConns)

=============================================================================
