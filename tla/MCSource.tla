------------------------------ MODULE MCSource ------------------------------
(* A small instance of Source for TLC. *)
EXTENDS Source

CONSTANTS c1, c2

TwoConns == {c1, c2}
SourcePorts == {0}
=============================================================================
