----------------------------- MODULE MCRelay ------------------------------
(* Symmetry for checking Relay with TLC.                                   *)
EXTENDS Relay, TLC

Interchangeable == Permutations(Relays)
===========================================================================
