---------------------------- MODULE MCSharedPtr -----------------------------
(* Bounded instances of SharedPtr for TLC.  Threads and ids only ever meet *)
(* in equalities, so that both are symmetric.                              *)
EXTENDS SharedPtr, TLC

Symmetry == Permutations(Threads) \cup Permutations(Ids)
==============================================================================
