------------------------- MODULE MCWeaveConnection -------------------------
(***************************************************************************)
(* Instances of WeaveConnection for TLC.                                   *)
(***************************************************************************)
EXTENDS WeaveConnection
CONSTANT c1

OneClient == {c1}

=============================================================================
