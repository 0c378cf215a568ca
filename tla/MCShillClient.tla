--------------------------- MODULE MCShillClient ---------------------------
(***************************************************************************)
(* Instances of ShillClient for TLC.                                       *)
(***************************************************************************)
EXTENDS ShillClient
CONSTANTS s1, k1, k2

OneService == {s1}
OneRequest == {k1}
TwoRequests == {k1, k2}

=============================================================================
