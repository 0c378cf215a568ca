------------------------- MODULE MCApManagerClient -------------------------
(***************************************************************************)
(* An instance of ApManagerClient for TLC.                                 *)
(***************************************************************************)
EXTENDS ApManagerClient
CONSTANTS ssid1, ssid2

TwoSsids == {ssid1, ssid2}

=============================================================================
