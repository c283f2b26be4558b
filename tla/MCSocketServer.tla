--------------------------- MODULE MCSocketServer ---------------------------
(***************************************************************************)
(* An instance of SocketServer for TLC: what each id may be opened for.    *)
(***************************************************************************)
EXTENDS SocketServer, TLC

MCOpens == 1 :> {"L", "O"} @@ 2 :> {"B"} @@ 3 :> {"O"}
=============================================================================
