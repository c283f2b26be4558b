--------------------------- MODULE MCLoginSystem ---------------------------
(***************************************************************************)
(* An instance of LoginSystem for TLC: all attempts are of one user.       *)
(***************************************************************************)
EXTENDS LoginSystem, TLC

MCUserOf == [c \in Attempt |-> CHOOSE u \in User : TRUE]
=============================================================================
