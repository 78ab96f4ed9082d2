----------------------------- MODULE MCResetKey -----------------------------
(* ResetKey on a few processes: every race of their starts, with kills,    *)
(* failing system calls, deletions and power losses.                       *)
EXTENDS ResetKey, TLC

CONSTANTS p1, p2, p3, k1, k2, n1, n2

MCProcs == {p1, p2, p3}
MCKeys == {k1, k2}
MCNames == {n1, n2}

Symmetry == Permutations(MCProcs) \cup Permutations(MCKeys)
              \cup Permutations(MCNames)

=============================================================================
