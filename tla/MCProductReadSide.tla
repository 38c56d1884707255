------------------------ MODULE MCProductReadSide -------------------------
(* Symmetry for checking ProductReadSide with TLC.                         *)
EXTENDS ProductReadSide, TLC

Interchangeable == Permutations(Workers) \cup Permutations(Copies)
===========================================================================
