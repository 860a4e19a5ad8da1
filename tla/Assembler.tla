------------------------------ MODULE Assembler ------------------------------
(***************************************************************************)
(* What the reordering buffer of the display promises, without arrays:     *)
(* each channel holds the numbers of its newest samples, at most Cap of    *)
(* them; as soon as a number is held on every channel the set of that      *)
(* number leaves, and with it everything older.  Metabuf.tla implements    *)
(* it.                                                                     *)
(***************************************************************************)
EXTENDS Integers, FiniteSets

CONSTANTS
  Channels,
  Numbers,  (* the numbers a sample may have                                *)
  Cap       (* how many a channel holds                                     *)

VARIABLES
  held,   (* the numbers held, by channel                                   *)
  last,   (* the last number received, by channel                           *)
  left    (* the numbers of the sets that have left                         *)

Init ==
  /\ held = [c \in Channels |-> {}]
  /\ last \in [Channels -> Int]   \* a stream starts anywhere
  /\ left = {}

Oldest(S) == CHOOSE m \in S : \A k \in S : m <= k

(* A channel that is full gives up its oldest number.                      *)
Received(c, n) ==
  LET kept == IF Cardinality(held[c]) = Cap THEN held[c] \ {Oldest(held[c])} ELSE held[c]
  IN  [held EXCEPT ![c] = kept \cup {n}]

(* Number n arrives on channel c.                                          *)
Receive(c, n) ==
  LET h == Received(c, n)
      complete == \A d \in Channels : n \in h[d]
  IN  /\ n > last[c]
      /\ last' = [last EXCEPT ![c] = n]
      /\ held' = IF complete THEN [d \in Channels |-> {m \in h[d] : m > n}] ELSE h
      /\ left' = IF complete THEN left \cup {n} ELSE left

Next == \E c \in Channels, n \in Numbers : Receive(c, n)

vars == <<held, last, left>>
Spec == Init /\ [][Next]_vars
=============================================================================
