----------------------------- MODULE MCDisplay -----------------------------
(* Small instances of Display for TLC. *)
EXTENDS Display

ThreeChannels == {"left_fft", "left", "right"}
OneOfEach == {"left_fft", "left"}
=============================================================================
