--------------------------- MODULE MCEventStore ---------------------------
(* Model values and symmetry for checking EventStore with TLC.             *)
EXTENDS EventStore, TLC

Interchangeable == Permutations(Handlers) \cup Permutations(Aggregates) \cup Permutations(Products)
===========================================================================
