---------------------------- MODULE MCTimerWheel ----------------------------
(***************************************************************************)
(* Instances of TimerWheel for TLC: one bit per level, so that the clock   *)
(* has five bits and every cascade and the overflow happen.                *)
(***************************************************************************)
EXTENDS TimerWheel
=============================================================================
