--------------------------- MODULE MCProjection ---------------------------
(* Instantiates Projection for TLC; workers and copies are model values.   *)
EXTENDS Projection
===========================================================================
