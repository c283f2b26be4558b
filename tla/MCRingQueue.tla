---------------------------- MODULE MCRingQueue ----------------------------
(***************************************************************************)
(* Instance of RingQueue for TLC: two distinguishable messages, a ring of  *)
(* two slots that may double twice, alarms from length 2 on.               *)
(***************************************************************************)
EXTENDS RingQueue
============================================================================
