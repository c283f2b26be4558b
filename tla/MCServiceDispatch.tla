------------------------- MODULE MCServiceDispatch -------------------------
(***************************************************************************)
(* Instances of ServiceDispatch for TLC.                                   *)
(***************************************************************************)
EXTENDS ServiceDispatch, TLC

\* start.c gives its first workers weight -1 (one message per turn) and the
\* next ones weight 0 (the whole queue).
CONSTANT single
MCShare == [w \in Worker |-> IF w = single THEN 0 ELSE 1]
=============================================================================
