-------------------------- MODULE MCHandleStorage --------------------------
(***************************************************************************)
(* Instances of HandleStorage for TLC.  Contexts are interchangeable.      *)
(***************************************************************************)
EXTENDS HandleStorage, TLC

Symmetry == Permutations(Context)
=============================================================================
