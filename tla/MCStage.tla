------------------------------- MODULE MCStage -------------------------------
(* Small instances of Stage for TLC. *)
EXTENDS Stage, TLC

CONSTANTS c1, c2, c3, c4

TwoConns == {c1, c2}
FourConns == {c1, c2, c3, c4}
SplitPorts == {1, 2}
FftPorts == {0}

Symmetry == Permutations(FourConns)
=============================================================================
