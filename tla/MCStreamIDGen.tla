--------------------------- MODULE MCStreamIDGen ---------------------------
(* A day of a few seconds; the cfg gives the numbers.                       *)
EXTENDS StreamIDGen
=============================================================================
