--------------------------- MODULE MCDenseBitset ----------------------------
(* Two bitsets with words of two bits, for TLC. *)
EXTENDS DenseBitset

CONSTANTS s1, s2
=============================================================================
