------------------------------- MODULE MCRoam -------------------------------
(* Roam with small durations; the order of the code's durations is kept.    *)
EXTENDS Roam

MCSilences == {2, 3}

=============================================================================
