---------------------------- MODULE MCSampleRead ----------------------------
(* A small instance of SampleRead for TLC. *)
EXTENDS SampleRead

OneToThree == 1..3
=============================================================================
