------------------------------- MODULE MCSlab -------------------------------
(***************************************************************************)
(* Instances of Slab for TLC.                                              *)
(***************************************************************************)
EXTENDS Slab, TLC

(* Threads are alike.                                                      *)
Symmetry == Permutations(Threads)
=============================================================================
