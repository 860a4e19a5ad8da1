------------------------------ MODULE MCMetabuf ------------------------------
(* Small instances of Metabuf for TLC. *)
EXTENDS Metabuf
=============================================================================
