--------------------------- MODULE MCBuffetConfig ---------------------------
(***************************************************************************)
(* An instance of BuffetConfig for TLC.                                    *)
(***************************************************************************)
EXTENDS BuffetConfig
CONSTANTS wifi, cloud, v1, v2

TwoNames == {Default, wifi}
ThreeNames == {Default, wifi, cloud}
TwoValues == {v1, v2}

=============================================================================
