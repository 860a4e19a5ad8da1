------------------------------- MODULE Framing -------------------------------
(***************************************************************************)
(* What the receiving end of a sample stream promises: bytes arrive in      *)
(* runs of any length, and leave as whole samples of one size.              *)
(* SampleRead.tla implements it; Stage.tla takes its input this way, in    *)
(* larger steps.                                                           *)
(***************************************************************************)
EXTENDS Integers

VARIABLES
  bytes,     (* the size of every sample of this stream                    *)
  avail,     (* bytes that have arrived and are not yet read               *)
  part,      (* bytes of the sample being read                             *)
  produced   (* samples read                                               *)

Init == bytes \in Nat \ {0} /\ avail = 0 /\ part = 0 /\ produced = 0

Arrive ==
  /\ avail' = avail + 1
  /\ UNCHANGED <<bytes, part, produced>>

Take(n) ==
  /\ n <= avail
  /\ part + n <= bytes
  /\ avail' = avail - n /\ UNCHANGED bytes
  /\ IF part + n = bytes
     THEN part' = 0 /\ produced' = produced + 1
     ELSE part' = part + n /\ UNCHANGED produced

Next == Arrive \/ \E n \in 1..bytes : Take(n)

vars == <<bytes, avail, part, produced>>
Spec == Init /\ [][Next]_vars
=============================================================================
