------------------------------ MODULE MCCache ------------------------------
(***************************************************************************)
(* The cache for TLC. Threads and images are interchangeable, and every    *)
(* property is one of safety.                                              *)
(***************************************************************************)
EXTENDS Cache, TLC

Symmetry == Permutations(Threads) \cup Permutations(Images)
=============================================================================
