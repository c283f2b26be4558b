----------------------------- MODULE MCGlobalMQ -----------------------------
(***************************************************************************)
(* Instances of GlobalMQ for TLC.  Threads and queues are interchangeable. *)
(***************************************************************************)
EXTENDS GlobalMQ, TLC

Symmetry == Permutations(Worker) \cup Permutations(Sender) \cup Permutations(Queue)
=============================================================================
