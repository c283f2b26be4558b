------------------------------ MODULE MCRwLock ------------------------------
(***************************************************************************)
(* Instance of RwLock for TLC: four threads, each of which may read and    *)
(* write for ever.                                                         *)
(***************************************************************************)
EXTENDS RwLock
=============================================================================
