------------------------- MODULE MCAvahiMdnsClient -------------------------
(***************************************************************************)
(* An instance of AvahiMdnsClient for TLC.                                 *)
(***************************************************************************)
EXTENDS AvahiMdnsClient
CONSTANTS port1, port2, txt1, txt2

TwoPorts == {port1, port2}
TwoTxts == {txt1, txt2}

=============================================================================
