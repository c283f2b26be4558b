---------------------------- MODULE MCWorkerPool ----------------------------
(***************************************************************************)
(* Instance of WorkerPool for TLC: two workers, few queues and contexts.   *)
(***************************************************************************)
EXTENDS WorkerPool
=============================================================================
