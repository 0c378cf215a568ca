--------------------------- MODULE CommandOutcome ---------------------------
(***************************************************************************)
(* What a handler may rely on of a command, whatever the cloud, libweave   *)
(* and the life of weaved do in between: the outcome of the command is     *)
(* decided once, the handler is told of no other, and when its own call    *)
(* decided it, that call does not return without saying so unless weaved   *)
(* died while it was under way.                                            *)
(*                                                                         *)
(* Command implements this; the specification is of what its callers see,  *)
(* so it knows neither states nor replies.                                 *)
(***************************************************************************)
CONSTANTS Commands, Outcomes, Undecided

VARIABLES
  outcome,  \* of each command, Undecided until there is one
  told,     \* outcomes the handler has been told of
  busy,     \* commands on which the handler has a call under way
  owed      \* those whose call has decided the outcome and has still to say so

vars == <<outcome, told, busy, owed>>

Init ==
  /\ outcome = [c \in Commands |-> Undecided]
  /\ told = [c \in Commands |-> {}]
  /\ busy = {}
  /\ owed = {}

\* The outcome is decided by libweave or the cloud ...
Decide(c, s) ==
  /\ outcome[c] = Undecided
  /\ outcome' = [outcome EXCEPT ![c] = s]
  /\ UNCHANGED <<told, busy, owed>>

\* ... or by the handler's call.
DecideByCall(c, s) ==
  /\ c \in busy /\ outcome[c] = Undecided
  /\ outcome' = [outcome EXCEPT ![c] = s]
  /\ owed' = owed \cup {c}
  /\ UNCHANGED <<told, busy>>

\* The handler calls a method.
Begin(c) ==
  /\ c \notin busy
  /\ busy' = busy \cup {c}
  /\ UNCHANGED <<outcome, told, owed>>

\* The method returns without speaking of an outcome ...
End(c) ==
  /\ c \in busy \ owed
  /\ busy' = busy \ {c}
  /\ UNCHANGED <<outcome, told, owed>>

\* ... or speaks of the one there is.
EndTelling(c) ==
  /\ c \in busy /\ outcome[c] # Undecided
  /\ busy' = busy \ {c}
  /\ told' = [told EXCEPT ![c] = @ \cup {outcome[c]}]
  /\ owed' = owed \ {c}
  /\ UNCHANGED outcome

\* weaved dies, and owes nothing any more.
Crash ==
  /\ owed' = {}
  /\ UNCHANGED <<outcome, told, busy>>

Next ==
  \/ Crash
  \/ \E c \in Commands :
       \/ \E s \in Outcomes : Decide(c, s) \/ DecideByCall(c, s)
       \/ Begin(c) \/ End(c) \/ EndTelling(c)

Spec == Init /\ [][Next]_vars

=============================================================================
