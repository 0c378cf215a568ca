----------------------------- MODULE MCCommand -----------------------------
(***************************************************************************)
(* An instance of Command for TLC.                                         *)
(***************************************************************************)
EXTENDS Command
CONSTANTS k1, k2

TwoCommands == {k1, k2}

=============================================================================
