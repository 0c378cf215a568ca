----------------------------- MODULE MCPairing -----------------------------
(***************************************************************************)
(* An instance of Pairing for TLC.                                         *)
(***************************************************************************)
EXTENDS Pairing
CONSTANTS p1, p2, p3, pin, embedded, x, y

TwoSessions == {p1, p2}
ThreeSessions == {p1, p2, p3}
TwoModes == {pin, embedded}
OneCode == {x}
TwoCodes == {x, y}

=============================================================================
