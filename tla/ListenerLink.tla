---------------------------- MODULE ListenerLink ----------------------------
(***************************************************************************)
(* What a notification listener of weaved may rely on, whichever process   *)
(* it is in: it is "none" before its instance found a weaved, "calling"    *)
(* while its registration is on its way to the running one, "registered"   *)
(* from then on for as long as that weaved lives, and "lost" once the      *)
(* weaved it found is dead.  It leaves, with its instance or its process,  *)
(* whenever it likes.                                                      *)
(*                                                                         *)
(* WeaveConnection implements this for each client; Pairing builds on it.  *)
(***************************************************************************)

VARIABLES up,    \* a weaved is running
          link   \* the listener's connection to it

vars == <<up, link>>

Stages == {"none", "calling", "registered", "lost"}

Init == up = FALSE /\ link = "none"

\* weaved starts, which no listener notices ...
ServerStart == ~up /\ up' = TRUE /\ UNCHANGED link

\* ... and dies.
ServerStop ==
  /\ up /\ up' = FALSE
  /\ link' = IF link = "none" THEN "none" ELSE "lost"

\* The instance finds the running weaved, or the binder of one that died and
\* that the service manager has not forgotten.
TryConnecting ==
  /\ link = "none"
  /\ link' = IF up THEN "calling" ELSE "lost"
  /\ UNCHANGED up

\* weaved has the listener.
Register == up /\ link = "calling" /\ link' = "registered" /\ UNCHANGED up

\* The instance is replaced or destroyed, or its process dies.
Leave == link # "none" /\ link' = "none" /\ UNCHANGED up

Next == ServerStart \/ ServerStop \/ TryConnecting \/ Register \/ Leave

Spec == Init /\ [][Next]_vars

=============================================================================
