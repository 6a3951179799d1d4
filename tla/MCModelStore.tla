---------------------------- MODULE MCModelStore ----------------------------
(* ModelStore for TLC.  The models are interchangeable. *)
EXTENDS ModelStore, TLC

ModelSymmetry == Permutations(Models)
=============================================================================
