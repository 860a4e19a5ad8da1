------------------------------ MODULE MCWindow ------------------------------
(* A small instance of Window for TLC. *)
EXTENDS Window

(* A buffer longer, and one shorter, than the window is wide. *)
TwoGraphs == <<6, 2>>
(* Below the padding, equal to it, and above. *)
SomeWidths == {1, 2, 6}
=============================================================================
