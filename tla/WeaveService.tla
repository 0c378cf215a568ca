---------------------------- MODULE WeaveService ----------------------------
(***************************************************************************)
(* What libweaved promises the owner of a Subscription, as Service::Connect *)
(* in src/libweaved/service.h states it: as long as the subscription is    *)
(* held there is at most one connection, to one incarnation of weaved; a   *)
(* connection is given up only when that incarnation is gone or the        *)
(* subscription is; and every connection lost is eventually given up.      *)
(***************************************************************************)
EXTENDS Integers

CONSTANTS Clients, MaxStarts

VARIABLES
  epoch,  \* number of the last weaved process
  up,     \* it is alive
  held,   \* the subscription of a client exists
  conn    \* incarnation a client's service talks to, 0 for no service

vars == <<epoch, up, held, conn>>

Init ==
  /\ epoch = 0
  /\ up = FALSE
  /\ held = [c \in Clients |-> FALSE]
  /\ conn = [c \in Clients |-> 0]

ServerStart ==
  /\ ~up /\ epoch < MaxStarts
  /\ up' = TRUE
  /\ epoch' = epoch + 1
  /\ UNCHANGED <<held, conn>>

ServerStop ==
  /\ up
  /\ up' = FALSE
  /\ UNCHANGED <<epoch, held, conn>>

Acquire(c) ==
  /\ ~held[c] /\ conn[c] = 0
  /\ held' = [held EXCEPT ![c] = TRUE]
  /\ UNCHANGED <<epoch, up, conn>>

\* The subscription ends, by its owner's will or with the process.
Release(c) ==
  /\ held[c]
  /\ held' = [held EXCEPT ![c] = FALSE]
  /\ conn' = [conn EXCEPT ![c] = 0]
  /\ UNCHANGED <<epoch, up>>

\* The connection callback runs; the incarnation may have died meanwhile.
Establish(c, e) ==
  /\ held[c] /\ conn[c] = 0
  /\ conn' = [conn EXCEPT ![c] = e]
  /\ UNCHANGED <<epoch, up, held>>

Lost(c) == conn[c] # 0 /\ ~(up /\ epoch = conn[c])

Lose(c) ==
  /\ Lost(c)
  /\ conn' = [conn EXCEPT ![c] = 0]
  /\ UNCHANGED <<epoch, up, held>>

Next ==
  \/ ServerStart
  \/ ServerStop
  \/ \E c \in Clients :
       \/ Acquire(c)
       \/ Release(c)
       \/ Lose(c)
       \/ \E e \in 1..epoch : Establish(c, e)

Spec == Init /\ [][Next]_vars

\* A connection to a dead weaved is dropped in the end.
LiveSpec == Spec /\ \A c \in Clients : WF_vars(Lose(c))

=============================================================================
