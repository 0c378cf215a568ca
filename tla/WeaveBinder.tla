---------------------------- MODULE WeaveBinder ----------------------------
(***************************************************************************)
(* The platform between weaved and the processes that link libweaved:      *)
(* processes that start and die, the service manager's entry for           *)
(* "weaved_service", oneway binder calls in flight, and binder nodes that  *)
(* die with their process.  None of it is in src/: it is modelled from how *)
(* src/libweaved/service.cc and src/buffet/manager.cc use it.              *)
(*                                                                         *)
(* A start of the weaved process is an incarnation; IWeaveServiceManager   *)
(* and the IWeaveService objects it hands out live as long as their        *)
(* incarnation.  The binder <<c, n>> is the WeaveClient (and, registered   *)
(* under the same identity, the NotificationListener) of client c's n-th   *)
(* subscription; a subscription makes at most one of each per incarnation, *)
(* so a callback is identified by its target and the incarnation it came   *)
(* from.                                                                   *)
(***************************************************************************)
EXTENDS Integers, FiniteSets

CONSTANTS Clients,           \* processes that use libweaved
          MaxStarts,         \* bound: how often weaved starts
          MaxSubscriptions   \* bound: how often a client calls Connect

ASSUME BoundsAssumption == /\ MaxStarts \in Nat \ {0}
                           /\ MaxSubscriptions \in Nat \ {0}

VARIABLES
  incarnation,  \* number of the last weaved process started, 0 before the first
  weavedUp,     \* that process is alive
  registry,     \* incarnation the service manager returns, 0 for none
  calls,        \* oneway calls on their way to the running weaved
  callbacks,    \* oneway calls on their way to clients
  nodes         \* client binders whose process is alive

binderVars == <<incarnation, weavedUp, registry, calls, callbacks, nodes>>

Incarnations == 1..MaxStarts
Binders == Clients \X (1..MaxSubscriptions)

Call == [op : {"connect", "registerNotificationListener"}, from : Binders]
Callback == [op : {"onServiceConnected", "onCommand"},
             to : Binders, from : Incarnations]

BinderTypeOK ==
  /\ incarnation \in 0..MaxStarts
  /\ weavedUp \in BOOLEAN
  /\ registry \in 0..MaxStarts
  /\ calls \subseteq Call
  /\ callbacks \subseteq Callback
  /\ nodes \subseteq Binders

BinderInit ==
  /\ incarnation = 0
  /\ weavedUp = FALSE
  /\ registry = 0
  /\ calls = {}
  /\ callbacks = {}
  /\ nodes = {}

\* Incarnation i of weaved is the running one.
Alive(i) == weavedUp /\ incarnation = i

BindersOf(c) == {b \in Binders : b[1] = c}

\* A oneway call on a dead node is dropped; oneway calls of one sender to one
\* node are delivered in order, so a listener's registration follows the
\* connect() made just before it.
Sent(msg, i) == IF Alive(i) THEN calls \cup msg ELSE calls
Deliverable(msg) ==
  /\ weavedUp
  /\ msg \in calls
  /\ msg.op = "registerNotificationListener"
       => [op |-> "connect", from |-> msg.from] \notin calls
CalledBack(msgs) == callbacks \cup {m \in msgs : m.to \in nodes}

\* The service manager is told that the process behind its entry died.
ServiceManagerForgets ==
  /\ registry # 0 /\ ~Alive(registry)
  /\ registry' = 0
  /\ UNCHANGED <<incarnation, weavedUp, calls, callbacks, nodes>>

=============================================================================
