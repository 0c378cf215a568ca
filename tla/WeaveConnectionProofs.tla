----------------------- MODULE WeaveConnectionProofs -----------------------
(***************************************************************************)
(* The connection for any number of clients, subscriptions and weaved      *)
(* processes: its safety invariants, and that every step of it is a step   *)
(* of the contract of Service::Connect and, for each client, of the link   *)
(* of its listener.                                                        *)
(*                                                                         *)
(* None of the invariants is inductive alone.  Inv below adds what a       *)
(* client's tasks say of its instance (Instance), which weaved processes   *)
(* can still be heard of (History), and where the instance's messages and  *)
(* weaved's tables can be (Flight).  Listening says where the listener's   *)
(* registration is, and Watching whose deaths weaved will hear of.         *)
(***************************************************************************)
EXTENDS WeaveConnection, TLAPS

\* What a client's process knows by itself.
Instance(c) ==
  /\ subscribed[c] => running[c] /\ sub[c] > 0 /\ Self(c) \in nodes
  /\ ~subscribed[c] => /\ tasks[c] = {} /\ manager[c] = 0
                       /\ service[c] = 0 /\ ~weak[c]
  /\ api[c] \in {"AddComponent", "AddCommandHandler"} => weak[c]
  /\ weak[c] => service[c] # 0
  /\ service[c] # 0 => service[c] = manager[c]
  /\ "TryConnecting" \in tasks[c] => /\ tasks[c] = {"TryConnecting"}
                                     /\ manager[c] = 0
  /\ subscribed[c] /\ tasks[c] = {} => manager[c] # 0
  /\ manager[c] # 0 => IF "Reconnect" \in tasks[c]
                       THEN manager[c] \in mourned[c]
                       ELSE manager[c] \in linked[c]

\* Nothing is of a weaved process that has not started; what is mourned is
\* dead; a weaved that is not running has nothing.
Past(c) ==
  /\ manager[c] <= incarnation
  /\ \A i \in linked[c] : i <= incarnation
  /\ \A i \in mourned[c] : i <= incarnation /\ ~Alive(i)

History ==
  /\ weavedUp => incarnation > 0
  /\ ~weavedUp => calls = {} /\ pending_clients = {}
  /\ registry <= incarnation
  /\ \A m \in callbacks : m.from <= incarnation
  /\ \A c \in Clients : Past(c)

Calling(b) == [op |-> "connect", from |-> b] \in calls
Answered(b, i) == [op |-> "onServiceConnected", to |-> b,
from |-> i] \in callbacks
Commanded(b, i) == [op |-> "onCommand", to |-> b, from |-> i] \in callbacks

\* A binder that no subscription has yet is nowhere.
Unused(c) ==
  /\ handlers[c] <= sub[c]
  /\ \A b \in BindersOf(c) :
       b[2] > sub[c] => /\ ~Calling(b) /\ b \notin pending_clients
                        /\ \A i \in Incarnations : /\ ~Answered(b, i)
                                                   /\ ~Commanded(b, i)

\* What is under way for the instance of a subscription that is held.
Flight(c) ==
  /\ Calling(Self(c)) \/ Self(c) \in pending_clients
       => manager[c] = incarnation
  /\ \A i \in Incarnations :
       Answered(Self(c), i) \/ Commanded(Self(c), i)
         => i = manager[c] \/ i \in mourned[c]
  \* At most one stage ...
  /\ Calling(Self(c)) => Self(c) \notin pending_clients
  /\ Calling(Self(c)) \/ Self(c) \in pending_clients
       => ~Answered(Self(c), manager[c]) /\ service[c] = 0
  /\ manager[c] # 0 /\ Answered(Self(c), manager[c]) => service[c] = 0
  \* ... and one at least.
  /\ Alive(manager[c]) => \/ Calling(Self(c))
                          \/ Self(c) \in pending_clients
                          \/ Answered(Self(c), manager[c])
                          \/ service[c] = manager[c]

\* What weaved's tables hold of it.
Routed(c) ==
  /\ Alive(manager[c]) /\ (Answered(Self(c), manager[c]) \/ service[c] # 0)
       => Self(c) \in services
  /\ weavedUp /\ handlers[c] = sub[c]
       => manager[c] = incarnation /\ command_handlers[c]
  /\ manager[c] # 0 /\ Commanded(Self(c), manager[c]) => command_handlers[c]
  /\ api[c] = "AddCommandHandler" /\ Alive(service[c]) => c \in components
  /\ weak[c] /\ api[c] = "idle" /\ Alive(service[c])
       => handlers[c] = sub[c] /\ c \in components

Inv ==
  /\ History
  /\ \A c \in Clients : Instance(c)
  /\ \A c \in Clients : Unused(c)
  /\ \A c \in Clients : subscribed[c] => Flight(c) /\ Routed(c)

(***************************************************************************)
(* Types.  A call is sent from, and a handler registered under, the binder *)
(* of a subscription, which Instance gives a number.                       *)
(***************************************************************************)
\* The initial types.
LEMMA InitTypes == ASSUME BoundsAssumption, PrivetAssumption, Init PROVE TypeOK
<1>1. 0 \in 0..MaxStarts /\ 0 \in 0..MaxSubscriptions
  BY DEF BoundsAssumption
<1>2. BinderTypeOK
  BY <1>1 DEF Init, BinderInit, BinderTypeOK
<1>3. LibTypeOK
  BY <1>1 DEF Init, LibInit, LibTypeOK
<1>4. ManagerTypeOK
  BY <1>1 DEF Init, ManagerInit, ManagerTypeOK, WebServInit, WebServTypeOK
<1> QED BY <1>2, <1>3, <1>4 DEF TypeOK

\* What a oneway call puts in flight is a call, or a callback.
LEMMA SentTypes ==
  ASSUME BinderTypeOK, NEW b \in Binders, NEW i
  PROVE  Sent([op : {"connect", "registerNotificationListener"},
               from : {b}], i) \subseteq Call
BY DEF BinderTypeOK, Sent, Call

\* ... and a callback to a binder that is alive.
LEMMA CalledBackTypes ==
  ASSUME BinderTypeOK, incarnation \in Incarnations,
         NEW bs \in SUBSET Binders,
         NEW ops \in SUBSET {"onServiceConnected", "onCommand"}
  PROVE  CalledBack([op : ops, to : bs, from : {incarnation}])
           \subseteq Callback
BY DEF BinderTypeOK, CalledBack, Callback

\* The binder of a subscription.
LEMMA SelfTypes ==
  ASSUME BoundsAssumption, TypeOK, NEW c \in Clients, sub[c] > 0
  PROVE  Self(c) \in Binders
BY DEF BoundsAssumption, TypeOK, LibTypeOK, Self, Binders

\* A new instance has the types.
LEMMA NewInstanceTypes ==
  ASSUME BoundsAssumption, LibTypeOK, NEW c \in Clients,
         NEW ts \in SUBSET {"TryConnecting", "Reconnect"}, NewInstance(c, ts)
  PROVE  /\ tasks' \in [Clients -> SUBSET {"TryConnecting", "Reconnect"}]
         /\ manager' \in [Clients -> 0..MaxStarts]
         /\ service' \in [Clients -> 0..MaxStarts]
         /\ weak' \in [Clients -> BOOLEAN]
         /\ command_handlers' \in [Clients -> BOOLEAN]
<1>1. tasks' \in [Clients -> SUBSET {"TryConnecting", "Reconnect"}]
  BY DEF NewInstance, LibTypeOK
<1>2. /\ manager' \in [Clients -> 0..MaxStarts]
      /\ service' \in [Clients -> 0..MaxStarts]
  <2>1. 0 \in 0..MaxStarts
    BY DEF BoundsAssumption
  <2> QED BY <2>1 DEF NewInstance, LibTypeOK
<1>3. /\ weak' \in [Clients -> BOOLEAN]
      /\ command_handlers' \in [Clients -> BOOLEAN]
  BY DEF NewInstance, LibTypeOK
<1> QED BY <1>1, <1>2, <1>3

\* The end of a process, too.
LEMMA ExitTypes ==
  ASSUME BoundsAssumption, TypeOK, NEW c \in Clients, NEW how \in {"idle",
  "aborted"},
         Exit(c, how), UNCHANGED managerVars
  PROVE  TypeOK'
<1>1. LibTypeOK /\ NewInstance(c, {})
  BY DEF TypeOK, Exit
<1>2. LibTypeOK'
  BY <1>1, NewInstanceTypes DEF Exit, LibTypeOK, Incarnations
<1>3. BinderTypeOK'
  BY DEF TypeOK, BinderTypeOK, Exit, Incarnations, Callback, Call, Binders
<1>4. ManagerTypeOK'
  BY DEF TypeOK, ManagerTypeOK, WebServTypeOK, Exit, managerVars, deviceTreeVars, Binders
<1> QED BY <1>2, <1>3, <1>4 DEF TypeOK

\* A step of a client keeps the types.
LEMMA ClientTypes ==
  ASSUME BoundsAssumption, TypeOK, NEW c \in Clients, Instance(c),
         ByClient(ClientStep(c) \/ UserStep(c))
  PROVE  TypeOK'
<1>a. BinderTypeOK /\ LibTypeOK /\ ManagerTypeOK /\ UNCHANGED managerVars
  BY DEF TypeOK, ByClient
<1>b. ASSUME UNCHANGED deviceTreeVars PROVE ManagerTypeOK'
  BY <1>a, <1>b DEF ManagerTypeOK, WebServTypeOK, managerVars, deviceTreeVars,
                    Binders
<1>c. ASSUME UNCHANGED binderVars PROVE BinderTypeOK'
  BY <1>a, <1>c DEF BinderTypeOK, binderVars, Call, Callback, Binders,
                    Incarnations
<1>1. CASE TryConnecting(c)
  <2>1. Self(c) \in Binders
    BY <1>1, SelfTypes DEF TryConnecting, Instance
  <2>2. registry \in Incarnations
    BY <1>1, <1>a DEF TryConnecting, BinderTypeOK, Incarnations
  <2>3. BinderTypeOK'
    BY <1>1, <1>a, <2>1, SentTypes DEF TryConnecting, BinderTypeOK, Call,
       Callback, Binders, Incarnations
  <2>4. LibTypeOK'
    BY <1>1, <1>a, <2>2 DEF TryConnecting, LibTypeOK, Incarnations
  <2> QED BY <1>1, <1>b, <2>3, <2>4 DEF TryConnecting, TypeOK
<1>2. CASE TryConnectingToDead(c)
  <2>1. LibTypeOK'
    BY <1>2, <1>a DEF TryConnectingToDead, LibTypeOK, Incarnations
  <2> QED BY <1>2, <1>b, <1>c, <2>1 DEF TryConnectingToDead, TypeOK
<1>3. ASSUME NEW i \in Incarnations, OnWeaveServiceDisconnected(c, i)
      PROVE  TypeOK'
  <2>1. LibTypeOK'
    BY <1>3, <1>a DEF OnWeaveServiceDisconnected, LibTypeOK, Incarnations
  <2> QED BY <1>3, <1>b, <1>c, <2>1 DEF OnWeaveServiceDisconnected, TypeOK
<1>4. CASE Reconnect(c)
  <2>1. LibTypeOK'
    BY <1>4, <1>a, NewInstanceTypes DEF Reconnect, LibTypeOK, Incarnations
  <2> QED BY <1>4, <1>b, <1>c, <2>1 DEF Reconnect, TypeOK
<1>5. ASSUME NEW m \in callbacks, OnServiceConnected(c, m) PROVE TypeOK'
  <2>1. m.from \in 0..MaxStarts
    BY <1>5, <1>a DEF BinderTypeOK, Callback, Incarnations
  <2>2. LibTypeOK'
    BY <1>5, <1>a, <2>1 DEF OnServiceConnected, LibTypeOK, Incarnations
  <2>3. BinderTypeOK'
    BY <1>5, <1>a DEF OnServiceConnected, BinderTypeOK, Call, Callback,
                      Binders, Incarnations
  <2> QED BY <1>5, <1>b, <2>2, <2>3 DEF OnServiceConnected, TypeOK
<1>6. ASSUME NEW m \in callbacks, OnCommand(c, m) PROVE TypeOK'
  <2>1. LibTypeOK'
    BY <1>6, <1>a DEF OnCommand, LibTypeOK, Incarnations, clientVars,
                      instanceVars
  <2>2. BinderTypeOK'
    BY <1>6, <1>a DEF OnCommand, BinderTypeOK, Call, Callback, Binders,
                      Incarnations
  <2> QED BY <1>6, <1>b, <2>1, <2>2 DEF OnCommand, TypeOK
<1>7. CASE AddComponent(c)
  <2>1. LibTypeOK'
    BY <1>7, <1>a DEF AddComponent, addComponent, LibTypeOK, Incarnations,
                      instanceVars
  <2>2. ManagerTypeOK'
    BY <1>7, <1>a DEF AddComponent, addComponent, ManagerTypeOK, WebServTypeOK, managerVars,
                      Binders
  <2> QED BY <1>7, <1>c, <2>1, <2>2 DEF AddComponent, addComponent, TypeOK
<1>8. CASE AddCommandHandler(c)
  <2>1. LibTypeOK'
    BY <1>8, <1>a DEF AddCommandHandler, registerCommandHandler, LibTypeOK,
                      Incarnations
  <2>2. ManagerTypeOK'
    BY <1>8, <1>a DEF AddCommandHandler, registerCommandHandler, ManagerTypeOK, WebServTypeOK,
                      managerVars, Binders,
                      LibTypeOK
  <2> QED BY <1>8, <1>c, <2>1, <2>2 DEF AddCommandHandler,
                                        registerCommandHandler, TypeOK
<1>9. CASE AddCommandHandlerFails(c) \/ Crash(c)
  BY <1>9, <1>a, ExitTypes DEF AddCommandHandlerFails, Crash
<1>10. CASE Connect(c)
  <2>1. <<c, sub[c] + 1>> \in Binders /\ sub[c] + 1 \in 0..MaxSubscriptions
    BY <1>10, <1>a DEF Connect, Binders, LibTypeOK, BoundsAssumption
  <2>2. LibTypeOK'
    BY <1>10, <1>a, <2>1, NewInstanceTypes DEF Connect, LibTypeOK,
                                               Incarnations
  <2>3. BinderTypeOK'
    BY <1>10, <1>a, <2>1 DEF Connect, BinderTypeOK, Call, Callback, Binders,
                             Incarnations
  <2> QED BY <1>10, <1>b, <2>2, <2>3 DEF Connect, TypeOK
<1>11. CASE DestroySubscription(c)
  <2>1. LibTypeOK'
    BY <1>11, <1>a, NewInstanceTypes DEF DestroySubscription, LibTypeOK,
                                         Incarnations
  <2> QED BY <1>11, <1>b, <1>c, <2>1 DEF DestroySubscription, TypeOK
<1>12. CASE StartClient(c)
  <2>1. LibTypeOK'
    BY <1>12, <1>a DEF StartClient, LibTypeOK, Incarnations, instanceVars
  <2> QED BY <1>12, <1>b, <1>c, <2>1 DEF StartClient, TypeOK
<1> QED
  BY <1>1, <1>2, <1>3, <1>4, <1>5, <1>6, <1>7, <1>8, <1>9, <1>10, <1>11, <1>12
     DEF ByClient, ClientStep, UserStep

\* A step of weaved keeps the types.
LEMMA ServeTypes ==
  ASSUME TypeOK, incarnation \in Incarnations, NEW bs \in SUBSET Binders,
         CreateServicesForClients(bs), device' \in BOOLEAN,
         calls' \subseteq Call, ports' \subseteq Handlers,
         UNCHANGED <<incarnation, weavedUp, registry, nodes, clientVars,
                     notification_listeners, deviceTreeVars>>
  PROVE  TypeOK'
<1>a. BinderTypeOK /\ LibTypeOK /\ ManagerTypeOK
  BY DEF TypeOK
<1>1. callbacks' \subseteq Callback
  BY <1>a, CalledBackTypes DEF CreateServicesForClients
<1>2. BinderTypeOK'
  BY <1>a, <1>1 DEF BinderTypeOK, Call, Callback, Binders, Incarnations
<1>3. LibTypeOK'
  BY <1>a DEF LibTypeOK, Incarnations, clientVars, instanceVars
<1>4. ManagerTypeOK'
  BY <1>a DEF CreateServicesForClients, ManagerTypeOK, WebServTypeOK,
              deviceTreeVars, Binders, Roles
<1> QED BY <1>2, <1>3, <1>4 DEF TypeOK

\* The steps of webservd: one creates the device and serves the clients that
\* wait, any other touches the ports alone.
DeviceCreated ==
  /\ weavedUp /\ ~device
  /\ device' = TRUE
  /\ CreateServicesForClients(pending_clients)
  /\ UNCHANGED <<incarnation, weavedUp, registry, calls, nodes, clientVars,
                 notification_listeners, deviceTreeVars>>

PortsChange ==
  /\ device' \in {device, TRUE}
  /\ UNCHANGED <<binderVars, clientVars, pending_clients, services,
                 notification_listeners, watched, deviceTreeVars>>

LEMMA WebServerSteps ==
  ASSUME NEW h \in Handlers,
         OnProtocolHandlerConnected(h) \/ OnProtocolHandlerDisconnected(h)
  PROVE  /\ DeviceCreated \/ PortsChange
         /\ ports \subseteq Handlers => ports' \subseteq Handlers
<1>1. CASE OnProtocolHandlerConnected(h)
  <2>1. CASE ServerAvailable /\ ~device
    BY <1>1, <2>1 DEF OnProtocolHandlerConnected, CreateDevice, DeviceCreated,
       PortConnected
  <2>2. CASE ~(ServerAvailable /\ ~device)
    BY <1>1, <2>2 DEF OnProtocolHandlerConnected, CreateDevice, PortsChange,
       PortConnected, binderVars
  <2> QED BY <2>1, <2>2
<1>2. CASE OnProtocolHandlerDisconnected(h)
  BY <1>2 DEF OnProtocolHandlerDisconnected, PortDisconnected, PortsChange
<1> QED BY <1>1, <1>2

\* ... a step of weaved by itself among them.
LEMMA ManagerTypes ==
  ASSUME BoundsAssumption, PrivetAssumption, TypeOK, History,
         \/ ManagerStep
         \/ \E b \in Binders : DispatchCommand(b)
         \/ WeavedStart
         \/ WeavedStop
         \/ ByPlatform(ServiceManagerForgets)
  PROVE  TypeOK'
<1>a. BinderTypeOK /\ LibTypeOK /\ ManagerTypeOK
  BY DEF TypeOK
<1>b. weavedUp => incarnation \in Incarnations
  BY <1>a DEF BinderTypeOK, History, Incarnations, BoundsAssumption
<1>c. ASSUME UNCHANGED clientVars PROVE LibTypeOK'
  BY <1>a, <1>c DEF LibTypeOK, Incarnations, clientVars, instanceVars
<1>1. CASE DeviceCreated /\ ports' \subseteq Handlers
  <2>1. pending_clients \in SUBSET Binders
    BY <1>a DEF ManagerTypeOK
  <2>2. calls' \subseteq Call
    BY <1>1, <1>a DEF DeviceCreated, BinderTypeOK
  <2> QED BY <1>1, <1>b, <2>1, <2>2, ServeTypes DEF DeviceCreated
<1>8. CASE PortsChange /\ ports' \subseteq Handlers
  <2>1. BinderTypeOK'
    BY <1>8, <1>a DEF PortsChange, BinderTypeOK, binderVars, Call, Callback,
       Binders, Incarnations
  <2>2. ManagerTypeOK'
    BY <1>8, <1>a DEF PortsChange, ManagerTypeOK, WebServTypeOK, deviceTreeVars,
       Binders
  <2> QED BY <1>8, <1>c, <2>1, <2>2 DEF PortsChange, TypeOK
<1>2. ASSUME NEW m \in calls, ManagerConnect(m) PROVE TypeOK'
  <2>1. m.from \in Binders /\ calls' \subseteq Call
    BY <1>2, <1>a DEF ManagerConnect, BinderTypeOK, Call
  <2>2. CASE device
    <3>1. pending_clients \cup {m.from} \in SUBSET Binders
      BY <1>a, <2>1 DEF ManagerTypeOK
    <3> QED
      BY <1>2, <1>a, <1>b, <2>1, <2>2, <3>1, ServeTypes
         DEF ManagerConnect, Deliverable, ManagerTypeOK, WebServTypeOK
  <2>3. CASE ~device
    <3>1. BinderTypeOK'
      BY <1>2, <1>a, <2>1, <2>3 DEF ManagerConnect, BinderTypeOK, Call,
         Callback, Binders, Incarnations
    <3>2. ManagerTypeOK'
      BY <1>2, <1>a, <2>1, <2>3 DEF ManagerConnect, ManagerTypeOK,
         WebServTypeOK, deviceTreeVars, Binders
    <3> QED BY <1>2, <1>c, <3>1, <3>2 DEF ManagerConnect, TypeOK
  <2> QED BY <2>2, <2>3
<1>3. ASSUME NEW m \in calls, RegisterNotificationListener(m) PROVE TypeOK'
  <2>1. m.from \in Binders
    BY <1>a DEF BinderTypeOK, Call
  <2>2. BinderTypeOK'
    BY <1>3, <1>a DEF RegisterNotificationListener, BinderTypeOK, Call,
       Callback, Binders, Incarnations
  <2>3. ManagerTypeOK'
    BY <1>3, <1>a, <2>1 DEF RegisterNotificationListener, ManagerTypeOK,
       WebServTypeOK, deviceTreeVars, Binders, Roles
  <2> QED BY <1>3, <1>c, <2>2, <2>3 DEF RegisterNotificationListener, TypeOK
<1>4. ASSUME NEW b \in Binders,
             OnClientDisconnected(b) \/ OnNotificationListenerDestroyed(b)
      PROVE  TypeOK'
  <2>1. BinderTypeOK'
    BY <1>4, <1>a DEF OnClientDisconnected, OnNotificationListenerDestroyed,
       binderVars, BinderTypeOK, Call, Callback, Binders, Incarnations
  <2>2. ManagerTypeOK'
    BY <1>4, <1>a DEF OnClientDisconnected, OnNotificationListenerDestroyed,
       ManagerTypeOK, WebServTypeOK, deviceTreeVars, Binders
  <2> QED
    BY <1>4, <1>c, <2>1, <2>2 DEF OnClientDisconnected,
       OnNotificationListenerDestroyed, TypeOK
<1>5. ASSUME NEW b \in Binders, DispatchCommand(b) PROVE TypeOK'
  <2>1. {[op |-> "onCommand", to |-> b,
  from |-> incarnation]} \subseteq Callback
    BY <1>5, <1>b DEF DispatchCommand, Callback
  <2>2. BinderTypeOK'
    BY <1>5, <1>a, <2>1 DEF DispatchCommand, CalledBack, BinderTypeOK, Call,
       Callback, Binders, Incarnations
  <2>3. ManagerTypeOK'
    BY <1>5, <1>a DEF DispatchCommand, ManagerTypeOK, WebServTypeOK, managerVars,
       deviceTreeVars, Binders
  <2> QED BY <1>5, <1>c, <2>2, <2>3 DEF DispatchCommand, TypeOK
<1>6. CASE WeavedStart \/ WeavedStop
  <2>1. PICK created \in BOOLEAN : ForgetEverything(created)
    BY <1>6 DEF WeavedStart, WeavedStop, PrivetAssumption
  <2>2. 0 \in 0..MaxSubscriptions
    BY DEF BoundsAssumption
  <2>3. ManagerTypeOK'
    BY <2>1, <2>2 DEF ForgetEverything, ManagerTypeOK, WebServTypeOK
  <2>4. BinderTypeOK'
    <3>1. CASE WeavedStart
      <4>1. incarnation + 1 \in 0..MaxStarts
        BY <3>1, <1>a DEF WeavedStart, BinderTypeOK, BoundsAssumption
      <4>2. incarnation' = incarnation + 1 /\ registry' = incarnation + 1
        BY <3>1 DEF WeavedStart
      <4>3. weavedUp' /\ UNCHANGED <<calls, callbacks, nodes>>
        BY <3>1 DEF WeavedStart
      <4> QED
        BY <1>a, <4>1, <4>2, <4>3 DEF BinderTypeOK, Call, Callback, Binders,
           Incarnations
    <3>2. CASE WeavedStop
      BY <3>2, <1>a DEF WeavedStop, BinderTypeOK, Call, Callback, Binders,
         Incarnations
    <3> QED BY <1>6, <3>1, <3>2
  <2> QED BY <1>6, <1>c, <2>3, <2>4 DEF WeavedStart, WeavedStop, TypeOK
<1>7. CASE ByPlatform(ServiceManagerForgets)
  <2>1. BinderTypeOK'
    BY <1>7, <1>a DEF ByPlatform, ServiceManagerForgets, BinderTypeOK, Call,
       Callback, Binders, Incarnations, BoundsAssumption
  <2>2. ManagerTypeOK'
    BY <1>7, <1>a DEF ByPlatform, ManagerTypeOK, WebServTypeOK, managerVars,
       deviceTreeVars, Binders
  <2> QED BY <1>7, <1>c, <2>1, <2>2 DEF ByPlatform, TypeOK
<1>9. ASSUME NEW h \in Handlers,
             OnProtocolHandlerConnected(h) \/ OnProtocolHandlerDisconnected(h)
      PROVE  TypeOK'
  BY <1>a, <1>1, <1>8, <1>9, WebServerSteps DEF ManagerTypeOK, WebServTypeOK
<1> QED
  BY <1>2, <1>3, <1>4, <1>5, <1>6, <1>7, <1>9 DEF ManagerStep

\* Every step keeps the types.
LEMMA NextTypes ==
  ASSUME BoundsAssumption, PrivetAssumption, TypeOK, Inv, [Next]_vars
  PROVE  TypeOK'
<1>1. CASE UNCHANGED vars
  <2>1. BinderTypeOK' /\ LibTypeOK'
    BY <1>1 DEF vars, TypeOK, BinderTypeOK, LibTypeOK, binderVars, clientVars,
                instanceVars, Call, Callback, Binders, Incarnations
  <2>2. ManagerTypeOK'
    BY <1>1 DEF vars, TypeOK, ManagerTypeOK, WebServTypeOK, managerVars,
                deviceTreeVars, Binders
  <2> QED BY <2>1, <2>2 DEF TypeOK
<1>2. ASSUME NEW c \in Clients, ByClient(ClientStep(c) \/ UserStep(c))
      PROVE  TypeOK'
  BY <1>2, ClientTypes DEF Inv
<1> QED
  BY <1>1, <1>2, ManagerTypes DEF Next, LoadDefinitionsFails, GetTraitsOfNoDevice, Inv

(***************************************************************************)
(* What a step of one client leaves alone: weaved's own state, and every   *)
(* other client.                                                           *)
(***************************************************************************)
SameMessages(b) ==
  /\ Calling(b)' <=> Calling(b)
  /\ \A i : /\ Answered(b, i)' <=> Answered(b, i)
            /\ Commanded(b, i)' <=> Commanded(b, i)

SameClient(d) ==
  /\ running'[d] = running[d]
  /\ subscribed'[d] = subscribed[d]
  /\ sub'[d] = sub[d]
  /\ tasks'[d] = tasks[d]
  /\ manager'[d] = manager[d]
  /\ service'[d] = service[d]
  /\ weak'[d] = weak[d]
  /\ api'[d] = api[d]
  /\ command_handlers'[d] = command_handlers[d]
  /\ linked'[d] = linked[d]
  /\ mourned'[d] = mourned[d]
  /\ handlers'[d] = handlers[d]
  /\ d \in components' <=> d \in components
  /\ Self(d) \in nodes' <=> Self(d) \in nodes
  /\ \A b \in BindersOf(d) : SameMessages(b)

\* The two calls of TryConnecting: only the binder that sends them has more
\* messages in flight.
LEMMA SentCalls ==
  ASSUME NEW b, NEW i,
         calls' = Sent([op : {"connect", "registerNotificationListener"},
                        from : {b}], i)
  PROVE  \A x : Calling(x)' <=> Calling(x) \/ (Alive(i) /\ x = b)
BY DEF Sent, Calling

\* A client's step changes nothing of weaved.
LEMMA ClientLeavesWeaved ==
  ASSUME NEW c \in Clients, ByClient(ClientStep(c) \/ UserStep(c))
  PROVE  UNCHANGED <<incarnation, weavedUp, registry, managerVars>>
BY DEF ByClient, ClientStep, UserStep, TryConnecting, TryConnectingToDead,
       OnWeaveServiceDisconnected, Reconnect, OnServiceConnected, OnCommand,
       AddComponent, addComponent, AddCommandHandler, registerCommandHandler,
       AddCommandHandlerFails, Connect,
       DestroySubscription, Crash, Exit, StartClient, binderVars

\* A client's step changes nothing of another client.
LEMMA ClientFrame ==
  ASSUME BoundsAssumption, TypeOK, NEW c \in Clients, NEW d \in Clients, c # d,
         ByClient(ClientStep(c) \/ UserStep(c))
  PROVE  SameClient(d)
<1>a. UNCHANGED managerVars /\ LibTypeOK /\ BinderTypeOK /\ ManagerTypeOK
  BY DEF ByClient, TypeOK
<1>b. ASSUME UNCHANGED <<calls, callbacks>>
      PROVE  \A b \in BindersOf(d) : SameMessages(b)
  BY <1>b DEF SameMessages, Calling, Answered, Commanded
<1>c. \A b \in BindersOf(d) : b # Self(c) /\ b \notin BindersOf(c)
  BY DEF BindersOf, Self
<1>d. \A b : b \in BindersOf(d) => b[1] = d
  BY DEF BindersOf
<1>1. CASE TryConnecting(c)
  <2>1. \A b \in BindersOf(d) : SameMessages(b)
    BY <1>1, <1>c, SentCalls DEF TryConnecting, SameMessages, Answered,
                                 Commanded
  <2> QED BY <1>1, <1>a, <2>1 DEF TryConnecting, SameClient, LibTypeOK,
                                  deviceTreeVars, Self
<1>2. CASE TryConnectingToDead(c)
  BY <1>2, <1>a, <1>b DEF TryConnectingToDead, SameClient, LibTypeOK,
                          deviceTreeVars, binderVars, Self
<1>3. ASSUME NEW i \in Incarnations, OnWeaveServiceDisconnected(c, i)
      PROVE  SameClient(d)
  BY <1>3, <1>a, <1>b DEF OnWeaveServiceDisconnected, SameClient, LibTypeOK,
                          deviceTreeVars, binderVars, Self
<1>4. CASE Reconnect(c)
  BY <1>4, <1>a, <1>b DEF Reconnect, NewInstance, SameClient, LibTypeOK,
                          deviceTreeVars, binderVars, Self
<1>5. ASSUME NEW m \in callbacks, OnServiceConnected(c, m) \/ OnCommand(c, m)
      PROVE  SameClient(d)
  <2>1. callbacks' = callbacks \ {m} /\ m.to[1] = c /\ UNCHANGED calls
    BY <1>5 DEF OnServiceConnected, OnCommand
  <2>2. \A b \in BindersOf(d) : SameMessages(b)
    BY <1>d, <2>1 DEF SameMessages, Calling, Answered, Commanded
  <2>3. CASE OnServiceConnected(c, m)
    BY <2>3, <1>a, <2>2 DEF OnServiceConnected, SameClient, LibTypeOK,
                            deviceTreeVars, Self
  <2>4. CASE OnCommand(c, m)
    BY <2>4, <1>a, <2>2 DEF OnCommand, SameClient, clientVars, instanceVars,
                            deviceTreeVars, Self
  <2> QED BY <1>5, <2>3, <2>4
<1>6. CASE AddComponent(c)
  BY <1>6, <1>a, <1>b DEF AddComponent, addComponent, SameClient, LibTypeOK,
                          instanceVars,
                          binderVars, Self
<1>7. CASE AddCommandHandler(c)
  BY <1>7, <1>a, <1>b DEF AddCommandHandler, registerCommandHandler,
                          SameClient, LibTypeOK,
                          ManagerTypeOK, binderVars, Self
<1>8. ASSUME NEW how, Exit(c, how)
      PROVE  SameClient(d)
  <2>1. \A b \in BindersOf(d) : SameMessages(b)
    BY <1>8, <1>d DEF Exit, SameMessages, Calling, Answered, Commanded
  <2>2. Self(d) \in nodes' <=> Self(d) \in nodes
    BY <1>8 DEF Exit, Self, BindersOf
  <2> QED
    BY <1>8, <1>a, <2>1, <2>2 DEF Exit, NewInstance, SameClient, LibTypeOK,
                                  deviceTreeVars
<1>9. CASE Connect(c)
  BY <1>9, <1>a, <1>b DEF Connect, NewInstance, SameClient, LibTypeOK,
                          deviceTreeVars, Self
<1>10. CASE DestroySubscription(c)
  BY <1>10, <1>a, <1>b DEF DestroySubscription, NewInstance, SameClient,
                           LibTypeOK, deviceTreeVars, binderVars, Self
<1>11. CASE StartClient(c)
  BY <1>11, <1>a, <1>b DEF StartClient, SameClient, LibTypeOK, instanceVars,
                           deviceTreeVars, binderVars, Self
<1> QED
  BY <1>1, <1>2, <1>3, <1>4, <1>5, <1>6, <1>7, <1>8, <1>9, <1>10, <1>11
     DEF ByClient, ClientStep, UserStep, AddCommandHandlerFails, Crash

(***************************************************************************)
(* Instance.                                                               *)
(***************************************************************************)
LEMMA ClientInstance ==
  ASSUME BoundsAssumption, TypeOK, Inv, NEW c \in Clients,
         ByClient(ClientStep(c) \/ UserStep(c))
  PROVE  Instance(c)'
<1>a. LibTypeOK /\ BinderTypeOK /\ Instance(c) /\ History
  BY DEF TypeOK, Inv
<1>1. CASE TryConnecting(c)
  BY <1>1, <1>a DEF TryConnecting, Instance, LibTypeOK, Self
<1>2. CASE TryConnectingToDead(c)
  BY <1>2, <1>a DEF TryConnectingToDead, Instance, LibTypeOK, Self, binderVars
<1>3. ASSUME NEW i \in Incarnations, OnWeaveServiceDisconnected(c, i)
      PROVE  Instance(c)'
  <2>1. /\ linked'[c] = linked[c] \ {i}
        /\ mourned'[c] = mourned[c] \cup {i}
        /\ tasks'[c] = IF manager[c] = i THEN tasks[c] \cup {"Reconnect"}
                                        ELSE tasks[c]
        /\ UNCHANGED <<nodes, running, subscribed, sub, manager, service, weak,
                       api>>
        /\ i # 0
    BY <1>3, <1>a DEF OnWeaveServiceDisconnected, LibTypeOK, binderVars,
                      Incarnations
  <2>2. CASE manager[c] = i
    BY <1>a, <2>1, <2>2 DEF Instance, Self
  <2>3. CASE manager[c] # i
    BY <1>a, <2>1, <2>3 DEF Instance, Self
  <2> QED BY <2>2, <2>3
<1>4. CASE Reconnect(c)
  BY <1>4, <1>a DEF Reconnect, NewInstance, InLoop, Instance, LibTypeOK, Self,
                    binderVars
<1>5. ASSUME NEW m \in callbacks, OnServiceConnected(c, m) PROVE Instance(c)'
  <2>1. m.from # 0
    BY <1>a DEF BinderTypeOK, Callback, Incarnations
  <2> QED
    BY <1>5, <1>a, <2>1 DEF OnServiceConnected, InstanceOf, InLoop, Instance,
                            LibTypeOK, Self
<1>6. ASSUME NEW m \in callbacks, OnCommand(c, m) PROVE Instance(c)'
  BY <1>6, <1>a DEF OnCommand, Instance, Self, clientVars, instanceVars
<1>7. CASE AddComponent(c)
  BY <1>7, <1>a DEF AddComponent, addComponent, Instance, LibTypeOK, Self,
                    instanceVars,
                    binderVars
<1>8. CASE AddCommandHandler(c)
  BY <1>8, <1>a DEF AddCommandHandler, registerCommandHandler, Instance,
                    LibTypeOK, Self, binderVars
<1>9. ASSUME NEW how \in {"idle", "aborted"}, Exit(c, how) PROVE Instance(c)'
  BY <1>9, <1>a DEF Exit, NewInstance, Instance, LibTypeOK
<1>10. CASE Connect(c)
  BY <1>10, <1>a DEF Connect, NewInstance, InLoop, Instance, LibTypeOK, Self
<1>11. CASE DestroySubscription(c)
  BY <1>11, <1>a DEF DestroySubscription, NewInstance, InLoop, Instance,
                     LibTypeOK
<1>12. CASE StartClient(c)
  BY <1>12, <1>a DEF StartClient, Instance, LibTypeOK, instanceVars
<1> QED
  BY <1>1, <1>2, <1>3, <1>4, <1>5, <1>6, <1>7, <1>8, <1>9, <1>10, <1>11, <1>12
     DEF ByClient, ClientStep, UserStep, AddCommandHandlerFails, Crash

\* A step of weaved or of the service manager touches no client.
LEMMA ManagerFrame ==
  ASSUME \/ ManagerStep
         \/ \E b \in Binders : DispatchCommand(b)
         \/ WeavedStart
         \/ WeavedStop
         \/ ByPlatform(ServiceManagerForgets)
  PROVE  UNCHANGED <<clientVars, nodes>>
<1>1. ASSUME NEW h \in Handlers,
             OnProtocolHandlerConnected(h) \/ OnProtocolHandlerDisconnected(h)
      PROVE  UNCHANGED <<clientVars, nodes>>
  BY <1>1, WebServerSteps DEF DeviceCreated, PortsChange, binderVars
<1> QED BY <1>1 DEF ManagerStep, ManagerConnect, RegisterNotificationListener,
       OnClientDisconnected, OnNotificationListenerDestroyed, DispatchCommand,
       WeavedStart, WeavedStop, ByPlatform, ServiceManagerForgets, binderVars

\* Every step keeps what an instance knows of itself.
LEMMA NextInstance ==
  ASSUME BoundsAssumption, TypeOK, Inv, [Next]_vars, NEW d \in Clients
  PROVE  Instance(d)'
<1>a. Instance(d)
  BY DEF Inv
<1>1. CASE UNCHANGED <<clientVars, nodes>>
  BY <1>a, <1>1 DEF Instance, Self, clientVars, instanceVars
<1>2. CASE UNCHANGED vars
  BY <1>1, <1>2 DEF vars, binderVars
<1>3. ASSUME NEW c \in Clients, ByClient(ClientStep(c) \/ UserStep(c))
      PROVE  Instance(d)'
  <2>1. CASE c = d
    BY <1>3, <2>1, ClientInstance
  <2>2. CASE c # d
    <3>1. SameClient(d)
      BY <1>3, <2>2, ClientFrame
    <3> QED BY <1>a, <3>1 DEF SameClient, Instance, Self
  <2> QED BY <2>1, <2>2
<1> QED BY <1>1, <1>2, <1>3, ManagerFrame DEF Next, LoadDefinitionsFails, GetTraitsOfNoDevice

(***************************************************************************)
(* History.                                                                *)
(***************************************************************************)
\* A client learns of the weaved process the service manager names and of
\* the death of one it had linked to, and calls a running weaved only.
LEMMA ClientHistory ==
  ASSUME TypeOK, History, NEW c \in Clients,
         ByClient(ClientStep(c) \/ UserStep(c))
  PROVE  /\ Past(c)'
         /\ callbacks' \subseteq callbacks
         /\ weavedUp \/ calls' = calls
<1>a. /\ LibTypeOK /\ BinderTypeOK /\ Past(c)
      /\ incarnation \in Nat /\ registry <= incarnation
  BY DEF TypeOK, History, BinderTypeOK
<1>b. ASSUME UNCHANGED <<incarnation, weavedUp>>,
             manager'[c] \in {0, manager[c]},
             linked'[c] \subseteq linked[c], mourned'[c] \subseteq mourned[c]
      PROVE  Past(c)'
  BY <1>a, <1>b DEF Past, Alive
<1>1. CASE TryConnecting(c)
  <2>1. /\ manager'[c] = registry
        /\ linked'[c] = linked[c] \cup {registry}
        /\ mourned' = mourned
        /\ UNCHANGED <<incarnation, weavedUp, callbacks>>
    BY <1>1, <1>a DEF TryConnecting, LibTypeOK
  <2>2. Past(c)'
    BY <1>a, <2>1 DEF Past, Alive
  <2>3. weavedUp \/ calls' = calls
    BY <1>1 DEF TryConnecting, Sent, Alive
  <2> QED BY <2>1, <2>2, <2>3
<1>2. CASE TryConnectingToDead(c)
  BY <1>2, <1>b DEF TryConnectingToDead, binderVars
<1>3. ASSUME NEW i \in Incarnations, OnWeaveServiceDisconnected(c, i)
      PROVE  Past(c)' /\ callbacks' = callbacks /\ calls' = calls
  <2>1. /\ i \in linked[c] /\ ~Alive(i)
        /\ linked'[c] = linked[c] \ {i}
        /\ mourned'[c] = mourned[c] \cup {i}
        /\ UNCHANGED <<incarnation, weavedUp, calls, callbacks, manager>>
    BY <1>3, <1>a DEF OnWeaveServiceDisconnected, LibTypeOK, binderVars
  <2> QED BY <1>a, <2>1 DEF Past, Alive
<1>4. CASE Reconnect(c) \/ DestroySubscription(c)
  BY <1>4, <1>a, <1>b DEF Reconnect, DestroySubscription, NewInstance,
                          binderVars, LibTypeOK
<1>5. ASSUME NEW m \in callbacks, OnServiceConnected(c, m) \/ OnCommand(c, m)
      PROVE  Past(c)' /\ callbacks' \subseteq callbacks /\ calls' = calls
  BY <1>5, <1>b DEF OnServiceConnected, OnCommand, clientVars, instanceVars
<1>6. CASE AddComponent(c) \/ AddCommandHandler(c) \/ StartClient(c)
  BY <1>6, <1>b DEF AddComponent, addComponent, AddCommandHandler,
                    registerCommandHandler, StartClient, binderVars,
                    instanceVars
<1>7. ASSUME NEW how, Exit(c, how)
      PROVE  Past(c)' /\ callbacks' \subseteq callbacks /\ calls' = calls
  BY <1>7, <1>a, <1>b DEF Exit, NewInstance, LibTypeOK
<1>8. CASE Connect(c)
  BY <1>8, <1>a, <1>b DEF Connect, NewInstance, LibTypeOK
<1> QED
  BY <1>1, <1>2, <1>3, <1>4, <1>5, <1>6, <1>7, <1>8
     DEF ByClient, ClientStep, UserStep, AddCommandHandlerFails, Crash

\* What CreateServicesForClients puts in flight.
LEMMA ServedCallbacks ==
  ASSUME NEW bs, CreateServicesForClients(bs)
  PROVE  /\ \A m \in callbacks' : m \in callbacks \/ m.from = incarnation
         /\ \A b, i : Answered(b, i)' <=>
              \/ Answered(b, i)
              \/ b \in bs /\ b \in nodes /\ i = incarnation
         /\ \A b, i : Commanded(b, i)' <=> Commanded(b, i)
BY DEF CreateServicesForClients, CalledBack, Answered, Commanded

\* ... and DispatchCommand.
LEMMA DispatchedCallbacks ==
  ASSUME NEW b, DispatchCommand(b)
  PROVE  /\ \A m \in callbacks' : m \in callbacks \/ m.from = incarnation
         /\ \A x, i : Answered(x, i)' <=> Answered(x, i)
         /\ \A x, i : Commanded(x, i)' <=>
              \/ Commanded(x, i)
              \/ x = b /\ b \in nodes /\ i = incarnation
BY DEF DispatchCommand, CalledBack, Answered, Commanded

\* A connect() in flight is one of its sender.
LEMMA ConnectCalls ==
  ASSUME BinderTypeOK, NEW m \in calls, m.op = "connect"
  PROVE  /\ Calling(m.from)
         /\ \A b : [op |-> "connect", from |-> b] = m <=> b = m.from
BY DEF BinderTypeOK, Call, Calling

\* Every step keeps what is known of the past: nothing comes from a weaved
\* that has not started yet.
LEMMA NextHistory ==
  ASSUME BoundsAssumption, TypeOK, Inv, [Next]_vars
  PROVE  History'
<1>a. History /\ BinderTypeOK /\ LibTypeOK /\ incarnation \in Nat
  BY DEF Inv, TypeOK, BinderTypeOK
<1>b. ASSUME UNCHANGED <<incarnation, weavedUp, clientVars>>,
             NEW c \in Clients
      PROVE  Past(c)'
  BY <1>a, <1>b DEF History, Past, Alive, clientVars, instanceVars
<1>c. ASSUME UNCHANGED <<incarnation, weavedUp, registry, clientVars>>,
weavedUp,
             \A m \in callbacks' : m \in callbacks \/ m.from = incarnation
      PROVE  History'
  BY <1>a, <1>b, <1>c DEF History
<1>1. CASE UNCHANGED vars
  BY <1>a, <1>b, <1>1 DEF vars, binderVars, managerVars, History
<1>2. ASSUME NEW c \in Clients, ByClient(ClientStep(c) \/ UserStep(c))
      PROVE  History'
  <2>1. UNCHANGED <<incarnation, weavedUp, registry, pending_clients>>
    BY <1>2, ClientLeavesWeaved DEF managerVars
  <2>2. /\ Past(c)'
        /\ callbacks' \subseteq callbacks
        /\ weavedUp \/ calls' = calls
    BY <1>2, <1>a, ClientHistory
  <2>3. ASSUME NEW d \in Clients, d # c PROVE Past(d)'
    <3>1. SameClient(d)
      BY <1>2, <2>3, ClientFrame
    <3> QED BY <1>a, <2>1, <3>1 DEF History, Past, Alive, SameClient
  <2> QED BY <1>a, <2>1, <2>2, <2>3 DEF History
<1>3. ASSUME NEW h \in Handlers,
             OnProtocolHandlerConnected(h) \/ OnProtocolHandlerDisconnected(h)
      PROVE  History'
  <2>1. CASE DeviceCreated
    BY <1>c, <2>1, ServedCallbacks DEF DeviceCreated
  <2>2. CASE PortsChange
    BY <1>a, <1>b, <2>2 DEF PortsChange, binderVars, History
  <2> QED BY <1>3, <2>1, <2>2, WebServerSteps
<1>4. ASSUME NEW m \in calls, ManagerConnect(m) PROVE History'
  <2>1. \A n \in callbacks' : n \in callbacks \/ n.from = incarnation
    BY <1>4, ServedCallbacks DEF ManagerConnect
  <2> QED BY <1>4, <1>c, <2>1 DEF ManagerConnect, Deliverable
<1>5. ASSUME NEW m \in calls, RegisterNotificationListener(m) PROVE History'
  BY <1>5, <1>c DEF RegisterNotificationListener, Deliverable
<1>6. ASSUME NEW b \in Binders,
             OnClientDisconnected(b) \/ OnNotificationListenerDestroyed(b)
      PROVE  History'
  BY <1>6, <1>c DEF OnClientDisconnected, OnNotificationListenerDestroyed,
                    binderVars
<1>7. ASSUME NEW b \in Binders, DispatchCommand(b) PROVE History'
  BY <1>7, <1>c, DispatchedCallbacks DEF DispatchCommand
<1>8. CASE WeavedStart
  <2>1. /\ incarnation' = incarnation + 1 /\ registry' = incarnation + 1
        /\ ~weavedUp /\ weavedUp' /\ callbacks' = callbacks
        /\ UNCHANGED clientVars
    BY <1>8 DEF WeavedStart
  <2>2. \A n \in callbacks : n.from \in Nat
    BY <1>a DEF BinderTypeOK, Callback, Incarnations
  <2>3. ASSUME NEW c \in Clients PROVE Past(c)'
    <3>1. /\ manager[c] \in Nat
          /\ \A i \in linked[c] \cup mourned[c] : i \in Nat
      BY <1>a DEF LibTypeOK, Incarnations
    <3> QED
      BY <1>a, <2>1, <3>1 DEF History, Past, Alive, clientVars, instanceVars
  <2> QED BY <1>a, <2>1, <2>2, <2>3 DEF History
<1>9. CASE WeavedStop
  <2>1. /\ UNCHANGED <<incarnation, registry, callbacks, clientVars>>
        /\ ~weavedUp' /\ calls' = {} /\ pending_clients' = {}
    BY <1>9 DEF WeavedStop, ForgetEverything
  <2>2. ASSUME NEW c \in Clients PROVE Past(c)'
    BY <1>a, <2>1 DEF History, Past, Alive, clientVars, instanceVars
  <2> QED BY <1>a, <2>1, <2>2 DEF History
<1>10. CASE ByPlatform(ServiceManagerForgets)
  BY <1>a, <1>b, <1>10 DEF ByPlatform, ServiceManagerForgets, managerVars,
                           History
<1> QED
  BY <1>1, <1>2, <1>3, <1>4, <1>5, <1>6, <1>7, <1>8, <1>9, <1>10
     DEF Next, LoadDefinitionsFails, GetTraitsOfNoDevice, ManagerStep

(***************************************************************************)
(* Unused.                                                                 *)
(***************************************************************************)
\* A client's step: only Connect makes a number used, and only the current
\* binder calls or registers a handler.
LEMMA ClientUnused ==
  ASSUME BoundsAssumption, TypeOK, Inv, NEW c \in Clients,
         ByClient(ClientStep(c) \/ UserStep(c))
  PROVE  Unused(c)'
<1>a. /\ LibTypeOK /\ BinderTypeOK /\ ManagerTypeOK /\ History /\ Unused(c)
      /\ UNCHANGED pending_clients
      /\ sub[c] \in Nat /\ handlers[c] \in Nat
  BY DEF TypeOK, Inv, ByClient, managerVars, LibTypeOK, ManagerTypeOK
<1>1. callbacks' \subseteq callbacks
  BY <1>a, ClientHistory
<1>2. ASSUME sub'[c] \in {sub[c], sub[c] + 1},
             handlers'[c] \in {handlers[c], sub[c]},
             \A b : Calling(b)' => Calling(b) \/ b = Self(c)
      PROVE  Unused(c)'
  <2>1. \A b \in BindersOf(c) : b[2] \in Nat
    BY DEF BindersOf, Binders
  <2>2. Self(c)[2] = sub[c]
    BY DEF Self
  <2>3. \A b \in BindersOf(c) : b[2] > sub'[c] => b[2] > sub[c] /\ b # Self(c)
    BY <1>2, <1>a, <2>1, <2>2
  <2> QED
    BY <1>a, <1>1, <1>2, <2>3 DEF Unused, Answered, Commanded, BindersOf
<1>3. CASE TryConnecting(c)
  BY <1>2, <1>3, SentCalls DEF TryConnecting, deviceTreeVars
<1>4. CASE TryConnectingToDead(c) \/ Reconnect(c) \/ DestroySubscription(c)
           \/ AddComponent(c) \/ StartClient(c)
  BY <1>2, <1>4 DEF TryConnectingToDead, Reconnect, DestroySubscription,
     AddComponent, addComponent, StartClient, binderVars, deviceTreeVars,
     Calling
<1>5. ASSUME NEW i \in Incarnations, OnWeaveServiceDisconnected(c, i)
      PROVE  Unused(c)'
  BY <1>2, <1>5 DEF OnWeaveServiceDisconnected, binderVars, deviceTreeVars,
                    Calling
<1>6. ASSUME NEW m \in callbacks, OnServiceConnected(c, m) \/ OnCommand(c, m)
      PROVE  Unused(c)'
  BY <1>2, <1>6 DEF OnServiceConnected, OnCommand, clientVars, deviceTreeVars,
                    Calling
<1>7. CASE AddCommandHandler(c)
  BY <1>2, <1>7, <1>a DEF AddCommandHandler, registerCommandHandler,
                          binderVars, Calling,
                          ManagerTypeOK
<1>8. ASSUME NEW how, Exit(c, how) PROVE Unused(c)'
  BY <1>2, <1>8 DEF Exit, deviceTreeVars, Calling
<1>9. CASE Connect(c)
  BY <1>2, <1>9, <1>a DEF Connect, deviceTreeVars, Calling, LibTypeOK
<1> QED
  BY <1>3, <1>4, <1>5, <1>6, <1>7, <1>8, <1>9
     DEF ByClient, ClientStep, UserStep, AddCommandHandlerFails, Crash

\* Weaved sends a binder no more than its connect() or its handler calls for.
LEMMA ManagerMessages ==
  ASSUME TypeOK, History,
         \/ ManagerStep
         \/ \E b \in Binders : DispatchCommand(b)
         \/ WeavedStart
         \/ WeavedStop
         \/ ByPlatform(ServiceManagerForgets)
  PROVE  /\ \A b : Calling(b)' => Calling(b)
         /\ \A b \in pending_clients' : b \in pending_clients \/ Calling(b)
         /\ \A b, i : Answered(b, i)' =>
              \/ Answered(b, i)
              \/ (b \in pending_clients \/ Calling(b)) /\ i = incarnation
         /\ \A b, i : Commanded(b, i)' =>
              \/ Commanded(b, i)
              \/ weavedUp /\ handlers[b[1]] = b[2] /\ i = incarnation
         /\ handlers' = handlers \/ handlers' = [c \in Clients |-> 0]
<1>a. BinderTypeOK
  BY DEF TypeOK
<1>b. ASSUME calls' \subseteq calls, callbacks' = callbacks
      PROVE  /\ \A b : Calling(b)' => Calling(b)
             /\ \A b, i : Answered(b, i)' => Answered(b, i)
             /\ \A b, i : Commanded(b, i)' => Commanded(b, i)
  BY <1>b DEF Calling, Answered, Commanded
<1>8. CASE PortsChange
  BY <1>b, <1>8 DEF PortsChange, binderVars, deviceTreeVars
<1>1. CASE DeviceCreated
  <2>1. /\ CreateServicesForClients(pending_clients)
        /\ pending_clients' = {} /\ UNCHANGED <<calls, handlers>>
    BY <1>1 DEF DeviceCreated, CreateServicesForClients, deviceTreeVars
  <2> QED BY <2>1, ServedCallbacks DEF Calling
<1>2. ASSUME NEW m \in calls, ManagerConnect(m)
      PROVE  /\ \A b : Calling(b)' => Calling(b)
             /\ \A b \in pending_clients' : b \in pending_clients \/ Calling(b)
             /\ \A b, i : Answered(b, i)' =>
                  \/ Answered(b, i)
                  \/ (b \in pending_clients \/ Calling(b)) /\ i = incarnation
             /\ \A b, i : Commanded(b, i)' => Commanded(b, i)
             /\ handlers' = handlers
  <2>1. /\ Calling(m.from) /\ calls' \subseteq calls /\ handlers' = handlers
    BY <1>a, <1>2, ConnectCalls DEF ManagerConnect, deviceTreeVars
  <2>2. CASE device
    <3>1. /\ CreateServicesForClients(pending_clients \cup {m.from})
          /\ pending_clients' = {}
      BY <1>2, <2>2 DEF ManagerConnect, CreateServicesForClients
    <3> QED BY <2>1, <3>1, ServedCallbacks DEF Calling
  <2>3. CASE ~device
    BY <1>2, <1>b, <2>1, <2>3 DEF ManagerConnect
  <2> QED BY <2>2, <2>3
<1>3. ASSUME NEW m \in calls, RegisterNotificationListener(m)
      PROVE  /\ calls' \subseteq calls
             /\ UNCHANGED <<callbacks, pending_clients, handlers>>
  BY <1>3 DEF RegisterNotificationListener, deviceTreeVars
<1>4. ASSUME NEW b \in Binders,
             OnClientDisconnected(b) \/ OnNotificationListenerDestroyed(b)
      PROVE  UNCHANGED <<calls, callbacks, pending_clients, handlers>>
  BY <1>4 DEF OnClientDisconnected, OnNotificationListenerDestroyed,
              deviceTreeVars, binderVars
<1>5. ASSUME NEW b \in Binders, DispatchCommand(b)
      PROVE  /\ \A x : Calling(x)' => Calling(x)
             /\ \A x, i : Answered(x, i)' => Answered(x, i)
             /\ \A x, i : Commanded(x, i)' =>
                  \/ Commanded(x, i)
                  \/ weavedUp /\ handlers[x[1]] = x[2] /\ i = incarnation
             /\ UNCHANGED <<pending_clients, handlers>>
  <2>1. /\ weavedUp /\ handlers[b[1]] = b[2]
        /\ UNCHANGED <<calls, pending_clients, handlers>>
    BY <1>5 DEF DispatchCommand, managerVars, deviceTreeVars
  <2> QED BY <1>5, <2>1, DispatchedCallbacks DEF Calling
<1>6. CASE WeavedStart \/ WeavedStop
  <2>1. /\ calls' \subseteq calls /\ callbacks' = callbacks
        /\ pending_clients' = {} /\ handlers' = [c \in Clients |-> 0]
    BY <1>6 DEF WeavedStart, WeavedStop, ForgetEverything
  <2> QED BY <1>b, <2>1
<1>7. CASE ByPlatform(ServiceManagerForgets)
  BY <1>b, <1>7 DEF ByPlatform, ServiceManagerForgets, managerVars,
                    deviceTreeVars
<1> QED
  BY <1>b, <1>1, <1>2, <1>3, <1>4, <1>5, <1>6, <1>7, <1>8, WebServerSteps
     DEF ManagerStep

\* A binder no subscription has yet stays out of every table and message.
LEMMA NextUnused ==
  ASSUME BoundsAssumption, TypeOK, Inv, [Next]_vars, NEW d \in Clients
  PROVE  Unused(d)'
<1>a. /\ Unused(d) /\ History /\ sub[d] \in Nat
      /\ \A b \in BindersOf(d) : b[1] = d /\ b[2] \in Nat
  BY DEF Inv, TypeOK, LibTypeOK, BindersOf, Binders
<1>1. CASE UNCHANGED vars
  BY <1>a, <1>1 DEF vars, binderVars, clientVars, managerVars, deviceTreeVars,
     Unused, Calling, Answered, Commanded
<1>2. ASSUME NEW c \in Clients, ByClient(ClientStep(c) \/ UserStep(c))
      PROVE  Unused(d)'
  <2>1. CASE c = d
    BY <1>2, <2>1, ClientUnused
  <2>2. CASE c # d
    <3>1. SameClient(d) /\ UNCHANGED pending_clients
      BY <1>2, <2>2, ClientFrame, ClientLeavesWeaved DEF managerVars
    <3> QED BY <1>a, <3>1 DEF SameClient, SameMessages, Unused, BindersOf
  <2> QED BY <2>1, <2>2
<1>3. CASE \/ ManagerStep
           \/ \E b \in Binders : DispatchCommand(b)
           \/ WeavedStart
           \/ WeavedStop
           \/ ByPlatform(ServiceManagerForgets)
  <2>1. sub' = sub
    BY <1>3, ManagerFrame DEF clientVars
  <2>2. /\ \A b : Calling(b)' => Calling(b)
        /\ \A b \in pending_clients' : b \in pending_clients \/ Calling(b)
        /\ \A b, i : Answered(b, i)' =>
              \/ Answered(b, i)
              \/ (b \in pending_clients \/ Calling(b)) /\ i = incarnation
        /\ \A b, i : Commanded(b, i)' =>
              \/ Commanded(b, i)
              \/ weavedUp /\ handlers[b[1]] = b[2] /\ i = incarnation
        /\ handlers'[d] \in {handlers[d], 0}
    BY <1>a, <1>3, ManagerMessages DEF Inv
  <2> QED BY <1>a, <2>1, <2>2 DEF Unused, BindersOf
<1> QED BY <1>1, <1>2, <1>3 DEF Next, LoadDefinitionsFails, GetTraitsOfNoDevice

(***************************************************************************)
(* Flight and Routed.                                                      *)
(***************************************************************************)
\* Both speak of this much of the state only.
LEMMA SameFlight ==
  ASSUME NEW c, Flight(c), Routed(c),
         UNCHANGED <<incarnation, weavedUp, pending_clients, services>>,
         sub'[c] = sub[c], manager'[c] = manager[c], service'[c] = service[c],
         weak'[c] = weak[c], api'[c] = api[c], handlers'[c] = handlers[c],
         command_handlers'[c] = command_handlers[c],
         mourned[c] \subseteq mourned'[c],
         c \in components' <=> c \in components,
         SameMessages(Self(c))
  PROVE  Flight(c)' /\ Routed(c)'
<1>1. /\ Self(c)' = Self(c)
      /\ \A i : Alive(i)' <=> Alive(i)
  BY DEF Self, Alive
<1>2. /\ Calling(Self(c))' <=> Calling(Self(c))
      /\ \A i : /\ Answered(Self(c), i)' <=> Answered(Self(c), i)
                /\ Commanded(Self(c), i)' <=> Commanded(Self(c), i)
  BY <1>1 DEF SameMessages
<1> QED BY <1>1, <1>2 DEF Flight, Routed

\* An instance that is not bound, or whose weaved is known dead, has no call
\* on its way and no handler of the running weaved.
LEMMA UnboundInstance ==
  ASSUME NEW c \in Clients, History, Past(c), Flight(c), Routed(c),
         manager[c] = 0 \/ manager[c] \in mourned[c]
  PROVE  /\ ~Calling(Self(c)) /\ Self(c) \notin pending_clients
         /\ weavedUp => handlers[c] # sub[c]
         /\ ~Alive(manager[c])
<1>1. ~(weavedUp /\ manager[c] = incarnation)
  BY DEF History, Past, Alive
<1>2. Calling(Self(c)) \/ Self(c) \in pending_clients => weavedUp
  BY DEF History, Calling
<1> QED BY <1>1, <1>2 DEF Flight, Routed, Alive

\* TryConnecting: the new instance's first call, and nothing else of it.
LEMMA TryConnectingFlight ==
  ASSUME BoundsAssumption, TypeOK, Inv, NEW c \in Clients, TryConnecting(c),
         UNCHANGED managerVars
  PROVE  Flight(c)' /\ Routed(c)'
<1>a. LibTypeOK /\ BinderTypeOK /\ History /\ Past(c) /\ Instance(c)
  BY DEF TypeOK, Inv, History
<1>1. /\ manager[c] = 0 /\ service[c] = 0 /\ ~weak[c] /\ subscribed[c]
      /\ api[c] = "idle" /\ registry \in Incarnations
      /\ registry \notin mourned[c]
  BY <1>a DEF TryConnecting, InLoop, Instance, LibTypeOK, BinderTypeOK,
              Incarnations
<1>2. Flight(c) /\ Routed(c)
  BY <1>1 DEF Inv
<1>3. /\ ~Calling(Self(c)) /\ Self(c) \notin pending_clients
      /\ weavedUp => handlers[c] # sub[c]
  BY <1>a, <1>1, <1>2, UnboundInstance
<1>4. ~Answered(Self(c), registry) /\ ~Commanded(Self(c), registry)
  BY <1>1, <1>2 DEF Flight, Incarnations
<1>5. /\ manager'[c] = registry
      /\ UNCHANGED <<sub, service, weak, api, mourned, handlers, components,
                     command_handlers, callbacks, incarnation, weavedUp,
                     pending_clients, services>>
  BY <1>a DEF TryConnecting, LibTypeOK, managerVars, deviceTreeVars
<1>6. /\ Self(c)' = Self(c) /\ \A i : Alive(i)' <=> Alive(i)
      /\ \A b, i : Answered(b, i)' <=> Answered(b, i)
      /\ \A b, i : Commanded(b, i)' <=> Commanded(b, i)
  BY <1>5 DEF Self, Alive, Answered, Commanded
<1>7. Calling(Self(c))' <=> Alive(registry)
  BY <1>3, <1>6, SentCalls DEF TryConnecting, Calling
<1>8. Flight(c)'
  BY <1>1, <1>2, <1>3, <1>4, <1>5, <1>6, <1>7 DEF Flight, Alive, Incarnations
<1>9. Routed(c)'
  BY <1>1, <1>3, <1>4, <1>5, <1>6 DEF Routed, Alive
<1> QED BY <1>8, <1>9

\* Reconnect: its messages are of a weaved that is mourned.
LEMMA ReconnectFlight ==
  ASSUME BoundsAssumption, TypeOK, Inv, NEW c \in Clients, Reconnect(c),
         UNCHANGED managerVars
  PROVE  Flight(c)' /\ Routed(c)'
<1>a. /\ LibTypeOK /\ History /\ Past(c) /\ Instance(c)
      /\ manager[c] = 0 \/ manager[c] \in mourned[c]
      /\ subscribed[c] /\ api[c] = "idle"
  BY DEF TypeOK, Inv, History, Reconnect, InLoop, Instance, LibTypeOK
<1>1. Flight(c) /\ Routed(c)
  BY <1>a DEF Inv
<1>2. /\ ~Calling(Self(c)) /\ Self(c) \notin pending_clients
      /\ weavedUp => handlers[c] # sub[c]
  BY <1>a, <1>1, UnboundInstance
<1>3. /\ manager'[c] = 0 /\ service'[c] = 0 /\ ~weak'[c]
      /\ UNCHANGED <<sub, api, mourned, handlers, calls, callbacks,
                     incarnation, weavedUp, pending_clients>>
  BY <1>a DEF Reconnect, NewInstance, LibTypeOK, managerVars, deviceTreeVars,
              binderVars
<1>4. /\ Self(c)' = Self(c) /\ \A i : Alive(i)' <=> Alive(i)
      /\ \A b : Calling(b)' <=> Calling(b)
      /\ \A b, i : Answered(b, i)' <=> Answered(b, i)
      /\ \A b, i : Commanded(b, i)' <=> Commanded(b, i)
  BY <1>3 DEF Self, Alive, Calling, Answered, Commanded
<1>5. ~Alive(0)
  BY <1>a DEF Alive, History
<1>6. Flight(c)'
  BY <1>a, <1>1, <1>2, <1>3, <1>4, <1>5 DEF Flight, Incarnations
<1>7. Routed(c)'
  BY <1>a, <1>2, <1>3, <1>4, <1>5 DEF Routed
<1> QED BY <1>6, <1>7

\* Connect: a binder no message was ever sent from or to.
LEMMA ConnectFlight ==
  ASSUME BoundsAssumption, TypeOK, Inv, NEW c \in Clients, Connect(c),
         UNCHANGED managerVars
  PROVE  Flight(c)' /\ Routed(c)'
<1>a. LibTypeOK /\ History /\ Unused(c) /\ ManagerTypeOK
  BY DEF TypeOK, Inv
<1>1. PICK b \in BindersOf(c) : b = <<c, sub[c] + 1>>
  <2>1. sub[c] + 1 \in 1..MaxSubscriptions
    BY <1>a DEF Connect, LibTypeOK, BoundsAssumption
  <2>2. <<c, sub[c] + 1>> \in BindersOf(c)
    BY <2>1 DEF BindersOf, Binders
  <2> QED BY <2>2
<1>b. b[2] > sub[c] /\ handlers[c] # sub[c] + 1
  BY <1>1, <1>a DEF Connect, BindersOf, Binders, LibTypeOK, BoundsAssumption,
              ManagerTypeOK, Unused
<1>2. /\ sub'[c] = sub[c] + 1 /\ manager'[c] = 0 /\ service'[c] = 0
      /\ ~weak'[c] /\ api'[c] = "idle"
      /\ UNCHANGED <<handlers, calls, callbacks, incarnation, weavedUp,
                     pending_clients>>
  BY <1>a DEF Connect, NewInstance, InLoop, LibTypeOK, managerVars,
              deviceTreeVars
<1>3. Self(c)' = b
  BY <1>1, <1>2 DEF Self
<1>4. /\ ~Calling(b)' /\ b \notin pending_clients'
      /\ \A i \in Incarnations : ~Answered(b, i)' /\ ~Commanded(b, i)'
  BY <1>a, <1>b, <1>2 DEF Unused, Calling, Answered, Commanded
<1>5. ~Alive(0)'
  BY <1>a, <1>2 DEF Alive, History
<1>6. Flight(c)'
  BY <1>2, <1>3, <1>4, <1>5 DEF Flight
<1>7. Routed(c)'
  BY <1>b, <1>2, <1>3, <1>5 DEF Routed
<1> QED BY <1>6, <1>7

\* OnServiceConnected: the answer becomes the service.
LEMMA ConnectedFlight ==
  ASSUME BoundsAssumption, TypeOK, Inv, NEW c \in Clients, NEW m \in callbacks,
         OnServiceConnected(c, m), subscribed[c], UNCHANGED managerVars
  PROVE  Flight(c)' /\ Routed(c)'
<1>a. /\ LibTypeOK /\ BinderTypeOK /\ Instance(c)
      /\ Flight(c) /\ Routed(c)
  BY DEF TypeOK, Inv
<1>1. /\ callbacks' = callbacks \ {m} /\ m.op = "onServiceConnected"
      /\ UNCHANGED <<sub, manager, mourned, handlers, components, calls,
                     command_handlers, incarnation, weavedUp, pending_clients,
                     services>>
  BY DEF OnServiceConnected, managerVars, deviceTreeVars
<1>2. /\ Self(c)' = Self(c) /\ \A i : Alive(i)' <=> Alive(i)
      /\ \A b : Calling(b)' <=> Calling(b)
      /\ \A b, i : Answered(b, i)' => Answered(b, i)
      /\ \A b, i : Commanded(b, i)' <=> Commanded(b, i)
  BY <1>1 DEF Self, Alive, Calling, Answered, Commanded
<1>3. CASE InstanceOf(c, m)
  <2>1. /\ m = [op |-> "onServiceConnected", to |-> Self(c),
                from |-> manager[c]]
        /\ manager[c] # 0
    BY <1>a, <1>1, <1>3 DEF InstanceOf, BinderTypeOK, Callback, Incarnations
  <2>2. Answered(Self(c), manager[c]) /\ ~Answered(Self(c), manager[c])'
    BY <1>1, <2>1 DEF Answered, Self
  <2>3. service'[c] = manager[c] /\ weak'[c] /\ api'[c] = "AddComponent"
    BY <1>a, <1>3, <2>1 DEF OnServiceConnected, LibTypeOK
  <2>4. Flight(c)'
    BY <1>a, <1>1, <1>2, <2>1, <2>2, <2>3 DEF Flight
  <2>5. Routed(c)'
    BY <1>a, <1>1, <1>2, <2>2, <2>3 DEF Routed
  <2> QED BY <2>4, <2>5
<1>4. CASE ~InstanceOf(c, m)
  <2>1. Answered(Self(c), manager[c])' <=> Answered(Self(c), manager[c])
    BY <1>1, <1>4 DEF Answered, InstanceOf, Self
  <2>2. UNCHANGED <<service, weak, api>>
    BY <1>4 DEF OnServiceConnected
  <2>3. Flight(c)'
    BY <1>a, <1>1, <1>2, <2>1, <2>2 DEF Flight
  <2>4. Routed(c)'
    BY <1>a, <1>1, <1>2, <2>1, <2>2 DEF Routed
  <2> QED BY <2>3, <2>4
<1> QED BY <1>3, <1>4

\* The steps of a client, for itself.
LEMMA ClientFlight ==
  ASSUME BoundsAssumption, TypeOK, Inv, NEW c \in Clients,
         ByClient(ClientStep(c) \/ UserStep(c)), subscribed'[c]
  PROVE  Flight(c)' /\ Routed(c)'
<1>a. /\ LibTypeOK /\ BinderTypeOK /\ ManagerTypeOK /\ Instance(c) /\ Unused(c)
      /\ subscribed[c] => Flight(c) /\ Routed(c)
      /\ UNCHANGED managerVars /\ UNCHANGED <<incarnation, weavedUp>>
      /\ UNCHANGED <<pending_clients, services>>
  BY ClientLeavesWeaved DEF TypeOK, Inv, ByClient, managerVars
<1>b. ASSUME UNCHANGED <<calls, callbacks, sub>>
      PROVE  SameMessages(Self(c))
  BY <1>b DEF SameMessages, Self, Calling, Answered, Commanded
<1>1. CASE TryConnecting(c)
  BY <1>1, <1>a, TryConnectingFlight
<1>2. CASE TryConnectingToDead(c)
  BY <1>2, <1>a, <1>b, SameFlight DEF TryConnectingToDead, binderVars,
                                      deviceTreeVars
<1>3. ASSUME NEW i \in Incarnations, OnWeaveServiceDisconnected(c, i)
      PROVE  Flight(c)' /\ Routed(c)'
  <2>1. /\ mourned[c] \subseteq mourned'[c] /\ subscribed[c]
        /\ UNCHANGED <<sub, manager, service, weak, api, handlers, components,
                       command_handlers, calls, callbacks>>
    BY <1>3, <1>a DEF OnWeaveServiceDisconnected, binderVars, deviceTreeVars,
                      LibTypeOK
  <2> QED BY <1>a, <1>b, <2>1, SameFlight
<1>4. CASE Reconnect(c)
  BY <1>4, <1>a, ReconnectFlight
<1>5. ASSUME NEW m \in callbacks, OnServiceConnected(c, m)
      PROVE  Flight(c)' /\ Routed(c)'
  <2>1. subscribed[c]
    BY <1>5 DEF OnServiceConnected
  <2> QED BY <1>5, <1>a, <2>1, ConnectedFlight
<1>6. ASSUME NEW m \in callbacks, OnCommand(c, m)
      PROVE  Flight(c)' /\ Routed(c)'
  <2>1. /\ callbacks' = callbacks \ {m} /\ m.op = "onCommand"
        /\ UNCHANGED <<sub, manager, service, weak, api, handlers, components,
                       command_handlers, calls, mourned, subscribed>>
    BY <1>6 DEF OnCommand, clientVars, instanceVars, deviceTreeVars
  <2>2. /\ Self(c)' = Self(c) /\ \A i : Alive(i)' <=> Alive(i)
        /\ \A b : Calling(b)' <=> Calling(b)
        /\ \A b, i : Answered(b, i)' <=> Answered(b, i)
        /\ \A b, i : Commanded(b, i)' => Commanded(b, i)
    BY <1>a, <2>1 DEF Self, Alive, Calling, Answered, Commanded
  <2>3. Flight(c)'
    BY <1>a, <2>1, <2>2 DEF Flight
  <2>4. Routed(c)'
    BY <1>a, <2>1, <2>2 DEF Routed
  <2> QED BY <2>3, <2>4
<1>7. CASE AddComponent(c)
  <2>1. /\ subscribed[c] /\ api'[c] = "AddCommandHandler"
        /\ Alive(service[c]) => c \in components'
        /\ UNCHANGED <<sub, manager, service, weak, handlers, calls, callbacks,
                       command_handlers, mourned>>
    BY <1>7, <1>a DEF AddComponent, addComponent, Instance, instanceVars,
                      LibTypeOK,
                      binderVars
  <2>2. /\ Self(c)' = Self(c) /\ \A i : Alive(i)' <=> Alive(i)
        /\ \A b : Calling(b)' <=> Calling(b)
        /\ \A b, i : Answered(b, i)' <=> Answered(b, i)
        /\ \A b, i : Commanded(b, i)' <=> Commanded(b, i)
    BY <1>a, <2>1 DEF Self, Alive, Calling, Answered, Commanded
  <2>3. Flight(c)'
    BY <1>a, <2>1, <2>2 DEF Flight
  <2>4. Routed(c)'
    BY <1>a, <2>1, <2>2 DEF Routed
  <2> QED BY <2>3, <2>4
<1>8. CASE AddCommandHandler(c)
  <2>1. /\ subscribed[c] /\ api[c] = "AddCommandHandler" /\ api'[c] = "idle"
        /\ Alive(service[c]) /\ service[c] = manager[c]
        /\ command_handlers'[c] /\ handlers'[c] = sub[c]
        /\ UNCHANGED <<sub, manager, service, weak, calls, callbacks, mourned,
                       components>>
    BY <1>8, <1>a DEF AddCommandHandler, registerCommandHandler, Instance,
                      LibTypeOK, ManagerTypeOK,
                      binderVars
  <2>2. /\ Self(c)' = Self(c) /\ \A i : Alive(i)' <=> Alive(i)
        /\ \A b : Calling(b)' <=> Calling(b)
        /\ \A b, i : Answered(b, i)' <=> Answered(b, i)
        /\ \A b, i : Commanded(b, i)' <=> Commanded(b, i)
    BY <1>a, <2>1 DEF Self, Alive, Calling, Answered, Commanded
  <2>3. Flight(c)'
    BY <1>a, <2>1, <2>2 DEF Flight
  <2>4. Routed(c)'
    BY <1>a, <2>1, <2>2 DEF Routed, Alive
  <2> QED BY <2>3, <2>4
<1>9. CASE Connect(c)
  BY <1>9, <1>a, ConnectFlight
<1>10. CASE DestroySubscription(c) \/ AddCommandHandlerFails(c) \/ Crash(c)
  BY <1>10, <1>a DEF DestroySubscription, AddCommandHandlerFails, Crash, Exit,
                     LibTypeOK
<1>11. CASE StartClient(c)
  BY <1>11, <1>a DEF StartClient, Instance
<1> QED
  BY <1>1, <1>2, <1>3, <1>4, <1>5, <1>6, <1>7, <1>8, <1>9, <1>10, <1>11
     DEF ByClient, ClientStep, UserStep

\* Serving clients answers each of them, once, and puts it into |services_|.
LEMMA ServeFlight ==
  ASSUME NEW d \in Clients, NEW b \in Binders, NEW bs, b = Self(d), b \in nodes,
         Flight(d), Routed(d), History, Past(d),
         CreateServicesForClients(bs),
         UNCHANGED <<incarnation, weavedUp, clientVars, deviceTreeVars>>,
         weavedUp,
         b \in bs <=> b \in pending_clients \/ (Calling(b) /\ ~Calling(b)'),
         Calling(b)' => Calling(b)
  PROVE  Flight(d)' /\ Routed(d)'
<1>1. /\ pending_clients' = {} /\ services' = services \cup bs
      /\ \A i : Answered(b, i)' <=> Answered(b, i)
                                    \/ (b \in bs /\ i = incarnation)
      /\ \A i : Commanded(b, i)' <=> Commanded(b, i)
  BY ServedCallbacks DEF CreateServicesForClients
<1>2. /\ Self(d)' = b /\ \A i : Alive(i)' <=> Alive(i)
      /\ UNCHANGED <<sub, manager, service, weak, api, command_handlers,
                     mourned, handlers, components>>
  BY DEF Self, Alive, clientVars, instanceVars, deviceTreeVars
<1>3. b \in bs => manager[d] = incarnation /\ manager[d] # 0
  BY DEF Flight, History
<1>4. Flight(d)'
  <2>1. CASE b \in bs
    BY <1>1, <1>2, <1>3, <2>1 DEF Flight
  <2>2. CASE b \notin bs
    BY <1>1, <1>2, <2>2 DEF Flight
  <2> QED BY <2>1, <2>2
<1>5. Routed(d)'
  BY <1>1, <1>2, <1>3 DEF Routed
<1> QED BY <1>4, <1>5

\* The steps of weaved and the service manager, for a client that subscribed.
LEMMA ManagerFlight ==
  ASSUME BoundsAssumption, TypeOK, Inv, NEW d \in Clients, subscribed[d],
         \/ ManagerStep
         \/ \E b \in Binders : DispatchCommand(b)
         \/ WeavedStart
         \/ WeavedStop
         \/ ByPlatform(ServiceManagerForgets)
  PROVE  Flight(d)' /\ Routed(d)'
<1>a. /\ LibTypeOK /\ BinderTypeOK /\ Instance(d) /\ History /\ Past(d)
      /\ Flight(d) /\ Routed(d)
  BY DEF TypeOK, Inv, History
<1>b. UNCHANGED <<clientVars, nodes>>
  BY ManagerFrame
<1>c. PICK b \in Binders : b = Self(d) /\ b \in nodes /\ b[1] = d /\ b[2] = sub[d]
  BY <1>a, SelfTypes DEF Instance, Self
<1>d. ASSUME UNCHANGED <<incarnation, weavedUp, pending_clients,
deviceTreeVars>>,
             b \in services => b \in services',
             Calling(b)' <=> Calling(b),
             \A i : Answered(b, i)' <=> Answered(b, i),
             \A i : Commanded(b, i)' <=> Commanded(b, i)
      PROVE  Flight(d)' /\ Routed(d)'
  <2>1. /\ Self(d)' = b /\ Self(d) = b /\ \A i : Alive(i)' <=> Alive(i)
        /\ UNCHANGED <<sub, manager, service, weak, api, command_handlers,
                       mourned, handlers, components>>
    BY <1>b, <1>c, <1>d DEF Self, Alive, clientVars, instanceVars,
                            deviceTreeVars
  <2>2. Flight(d)'
    BY <1>a, <1>d, <2>1 DEF Flight
  <2>3. Routed(d)'
    BY <1>a, <1>d, <2>1 DEF Routed
  <2> QED BY <2>2, <2>3
<1>8. CASE PortsChange
  <2>1. /\ Calling(b)' <=> Calling(b)
        /\ \A i : Answered(b, i)' <=> Answered(b, i)
        /\ \A i : Commanded(b, i)' <=> Commanded(b, i)
    BY <1>8 DEF PortsChange, binderVars, Calling, Answered, Commanded
  <2> QED BY <1>8, <1>d, <2>1 DEF PortsChange, binderVars
<1>1. CASE DeviceCreated
  <2>1. Calling(b)' <=> Calling(b)
    BY <1>1 DEF DeviceCreated, Calling
  <2> QED BY <1>1, <1>a, <1>b, <1>c, <2>1, ServeFlight DEF DeviceCreated
<1>2. ASSUME NEW m \in calls, ManagerConnect(m)
      PROVE  Flight(d)' /\ Routed(d)'
  <2>1. /\ Calling(m.from)
        /\ Calling(b)' <=> Calling(b) /\ b # m.from
    BY <1>2, <1>a, ConnectCalls DEF ManagerConnect, Calling
  <2>2. CASE device
    <3>1. /\ CreateServicesForClients(pending_clients \cup {m.from})
          /\ weavedUp /\ UNCHANGED <<incarnation, weavedUp, deviceTreeVars>>
      BY <1>2, <2>2 DEF ManagerConnect, Deliverable
    <3> QED BY <1>a, <1>b, <1>c, <2>1, <3>1, ServeFlight
  <2>3. CASE ~device
    <3>1. /\ pending_clients' = pending_clients \cup {m.from}
          /\ UNCHANGED <<services, callbacks, incarnation, weavedUp, handlers,
                         components>>
      BY <1>2, <2>3 DEF ManagerConnect, deviceTreeVars
    <3>2. /\ Self(d)' = b /\ Self(d) = b /\ \A i : Alive(i)' <=> Alive(i)
          /\ \A i : Answered(b, i)' <=> Answered(b, i)
          /\ \A i : Commanded(b, i)' <=> Commanded(b, i)
          /\ UNCHANGED <<sub, manager, service, weak, api, command_handlers,
                         mourned>>
      BY <1>b, <1>c, <3>1 DEF Self, Alive, clientVars, instanceVars, Answered,
                              Commanded
    <3>3. Flight(d)'
      BY <1>a, <2>1, <3>1, <3>2 DEF Flight
    <3>4. Routed(d)'
      BY <1>a, <3>1, <3>2 DEF Routed
    <3> QED BY <3>3, <3>4
  <2> QED BY <2>2, <2>3
<1>3. ASSUME NEW m \in calls, RegisterNotificationListener(m)
      PROVE  Flight(d)' /\ Routed(d)'
  <2>1. /\ Calling(b)' <=> Calling(b)
        /\ \A i : Answered(b, i)' <=> Answered(b, i)
        /\ \A i : Commanded(b, i)' <=> Commanded(b, i)
    BY <1>3 DEF RegisterNotificationListener, Calling, Answered, Commanded
  <2> QED BY <1>3, <1>d, <2>1 DEF RegisterNotificationListener
<1>4. ASSUME NEW x \in Binders,
             OnClientDisconnected(x) \/ OnNotificationListenerDestroyed(x)
      PROVE  Flight(d)' /\ Routed(d)'
  <2>1. /\ UNCHANGED <<binderVars, deviceTreeVars, pending_clients>>
        /\ b \in services => b \in services'
    BY <1>4, <1>c DEF OnClientDisconnected, OnNotificationListenerDestroyed
  <2>2. /\ Calling(b)' <=> Calling(b)
        /\ \A i : Answered(b, i)' <=> Answered(b, i)
        /\ \A i : Commanded(b, i)' <=> Commanded(b, i)
    BY <2>1 DEF binderVars, Calling, Answered, Commanded
  <2> QED BY <1>d, <2>1, <2>2 DEF binderVars
<1>5. ASSUME NEW x \in Binders, DispatchCommand(x)
      PROVE  Flight(d)' /\ Routed(d)'
  <2>1. /\ weavedUp /\ handlers[x[1]] = x[2]
        /\ UNCHANGED <<incarnation, weavedUp, calls, managerVars,
                       deviceTreeVars>>
    BY <1>5 DEF DispatchCommand
  <2>2. /\ Self(d)' = b /\ Self(d) = b /\ \A i : Alive(i)' <=> Alive(i)
        /\ Calling(b)' <=> Calling(b)
        /\ \A i : Answered(b, i)' <=> Answered(b, i)
        /\ \A i : Commanded(b, i)' =>
              \/ Commanded(b, i)
              \/ x = b /\ i = incarnation
        /\ UNCHANGED <<sub, manager, service, weak, api, command_handlers,
                       mourned, handlers, components, pending_clients,
                       services>>
    BY <1>5, <1>b, <1>c, <2>1, DispatchedCallbacks
       DEF Self, Alive, Calling, clientVars, instanceVars, managerVars,
           deviceTreeVars
  <2>3. x = b => manager[d] = incarnation /\ command_handlers[d]
    BY <1>a, <1>c, <2>1 DEF Routed
  <2>4. Flight(d)'
    BY <1>a, <2>1, <2>2, <2>3 DEF Flight
  <2>5. Routed(d)'
    BY <1>a, <2>1, <2>2, <2>3 DEF Routed
  <2> QED BY <2>4, <2>5
<1>6. CASE WeavedStart \/ WeavedStop
  <2>1. /\ calls' = {} /\ pending_clients' = {} /\ callbacks' = callbacks
        /\ handlers' = [c \in Clients |-> 0]
        /\ ~weavedUp' \/ incarnation' = incarnation + 1
    BY <1>6, <1>a DEF WeavedStart, WeavedStop, ForgetEverything, History
  <2>2. /\ Self(d)' = b /\ Self(d) = b /\ ~Calling(b)'
        /\ \A i : Answered(b, i)' <=> Answered(b, i)
        /\ \A i : Commanded(b, i)' <=> Commanded(b, i)
        /\ UNCHANGED <<sub, manager, service, weak, api, command_handlers,
                       mourned>>
    BY <1>b, <1>c, <2>1 DEF Self, clientVars, instanceVars, Calling, Answered,
                            Commanded
  <2>3. ~Alive(manager[d])' /\ ~Alive(service[d])'
    <3>1. /\ manager[d] \in Nat /\ service[d] \in Nat /\ incarnation \in Nat
          /\ manager[d] <= incarnation /\ service[d] <= incarnation
      BY <1>a DEF LibTypeOK, BinderTypeOK, Past, Instance
    <3> QED BY <2>1, <2>2, <3>1 DEF Alive
  <2>4. handlers'[d] # sub'[d]
    BY <1>a, <2>1, <2>2 DEF Instance
  <2>5. Flight(d)'
    BY <1>a, <2>1, <2>2, <2>3 DEF Flight
  <2>6. Routed(d)'
    BY <1>a, <2>2, <2>3, <2>4 DEF Routed
  <2> QED BY <2>5, <2>6
<1>7. CASE ByPlatform(ServiceManagerForgets)
  <2>1. /\ UNCHANGED <<incarnation, weavedUp, calls, callbacks, managerVars,
                       deviceTreeVars>>
    BY <1>7 DEF ByPlatform, ServiceManagerForgets
  <2>2. /\ Calling(b)' <=> Calling(b)
        /\ \A i : Answered(b, i)' <=> Answered(b, i)
        /\ \A i : Commanded(b, i)' <=> Commanded(b, i)
    BY <2>1 DEF Calling, Answered, Commanded
  <2> QED BY <1>d, <2>1, <2>2 DEF managerVars
<1> QED BY <1>1, <1>2, <1>3, <1>4, <1>5, <1>6, <1>7, <1>8, WebServerSteps
        DEF ManagerStep

\* Every step keeps, for each client that holds a subscription, the stage its
\* connection is in and the way its commands take.
LEMMA NextFlight ==
  ASSUME BoundsAssumption, TypeOK, Inv, [Next]_vars, NEW d \in Clients,
         subscribed'[d]
  PROVE  Flight(d)' /\ Routed(d)'
<1>a. subscribed[d] => Flight(d) /\ Routed(d)
  BY DEF Inv
<1>1. CASE UNCHANGED vars
  BY <1>a, <1>1 DEF vars, binderVars, clientVars, instanceVars, managerVars,
     deviceTreeVars, Flight, Routed, Calling, Answered, Commanded, Self, Alive
<1>2. ASSUME NEW c \in Clients, ByClient(ClientStep(c) \/ UserStep(c))
      PROVE  Flight(d)' /\ Routed(d)'
  <2>1. CASE c = d
    BY <1>2, <2>1, ClientFlight
  <2>2. CASE c # d
    <3>1. /\ SameClient(d) /\ subscribed[d]
          /\ UNCHANGED <<incarnation, weavedUp, pending_clients, services>>
      BY <1>2, <2>2, ClientFrame, ClientLeavesWeaved DEF SameClient, managerVars
    <3>2. sub[d] > 0 /\ Self(d) \in Binders
      BY <3>1, SelfTypes DEF Inv, Instance
    <3>3. PICK b \in BindersOf(d) : b = Self(d)
      BY <3>2 DEF BindersOf, Self
    <3>4. SameMessages(b) /\ Self(d)' = b
      BY <3>1, <3>3 DEF SameClient, Self
    <3>5. SameMessages(Self(d))
      BY <3>3, <3>4 DEF SameMessages
    <3> QED BY <1>a, <3>1, <3>5, SameFlight DEF SameClient
  <2> QED BY <2>1, <2>2
<1>3. CASE \/ ManagerStep
           \/ \E b \in Binders : DispatchCommand(b)
           \/ WeavedStart
           \/ WeavedStop
           \/ ByPlatform(ServiceManagerForgets)
  <2>1. subscribed[d]
    BY <1>3, ManagerFrame DEF clientVars
  <2> QED BY <1>3, <2>1, ManagerFlight
<1> QED BY <1>1, <1>2, <1>3 DEF Next, LoadDefinitionsFails, GetTraitsOfNoDevice

(***************************************************************************)
(* The invariant.                                                          *)
(***************************************************************************)
\* Nobody has subscribed and weaved has not started.
LEMMA InitInv == ASSUME BoundsAssumption, Init PROVE Inv
<1>1. History
  BY DEF Init, BinderInit, LibInit, ManagerInit, History, Past, BoundsAssumption
<1>2. ASSUME NEW c \in Clients
      PROVE  Instance(c) /\ Unused(c) /\ ~subscribed[c]
  <2>1. Instance(c) /\ ~subscribed[c]
    BY DEF Init, LibInit, Instance
  <2>2. Unused(c)
    BY DEF Init, BinderInit, LibInit, ManagerInit, Unused, Calling, Answered,
           Commanded
  <2> QED BY <2>1, <2>2
<1> QED BY <1>1, <1>2 DEF Inv

\* The invariant is inductive.
LEMMA NextInv ==
  ASSUME BoundsAssumption, TypeOK, Inv, [Next]_vars PROVE Inv'
BY NextHistory, NextInstance, NextUnused, NextFlight DEF Inv

\* ... and holds, with the types, in every state of a behaviour.
LEMMA SpecInv ==
  ASSUME BoundsAssumption, PrivetAssumption PROVE Spec => [](TypeOK /\ Inv)
<1>1. Init => TypeOK /\ Inv
  BY InitTypes, InitInv
<1>2. TypeOK /\ Inv /\ [Next]_vars => TypeOK' /\ Inv'
  BY NextTypes, NextInv
<1> QED BY <1>1, <1>2, PTL DEF Spec

\* Type correctness of weaved and its clients.
THEOREM TypeCorrect ==
  ASSUME BoundsAssumption, PrivetAssumption PROVE Spec => []TypeOK
BY SpecInv, PTL

\* A connect() is never lost nor answered twice.
THEOREM ConnectsAreNotLost ==
  ASSUME BoundsAssumption, PrivetAssumption PROVE Spec => []NoLostConnect
<1>1. ASSUME TypeOK, Inv, NEW c \in Clients, subscribed[c], manager[c] # 0,
             Alive(manager[c])
      PROVE  \E s \in Stages(c) : Stages(c) = {s}
  <2>1. /\ Flight(c) /\ Instance(c) /\ manager[c] = incarnation
    BY <1>1 DEF Inv, Alive
  <2>2. /\ "calling" \in Stages(c) <=> Calling(Self(c))
        /\ "pending" \in Stages(c) <=> Self(c) \in pending_clients
        /\ "answered" \in Stages(c) <=> Answered(Self(c), manager[c])
        /\ "connected" \in Stages(c) <=> service[c] = manager[c]
        /\ Stages(c) \subseteq {"calling", "pending", "answered", "connected"}
    BY <2>1 DEF Stages, Calling, Answered
  <2> QED BY <1>1, <2>1, <2>2 DEF Flight
<1>2. TypeOK /\ Inv => NoLostConnect
  BY <1>1 DEF NoLostConnect
<1> QED BY <1>2, SpecInv, PTL

\* No instance is stranded by a weaved whose death it does not hear of.
THEOREM NobodyIsStranded ==
  ASSUME BoundsAssumption, PrivetAssumption PROVE Spec => []NeverStranded
<1>1. TypeOK /\ Inv => NeverStranded
  BY DEF Inv, Instance, NeverStranded
<1> QED BY <1>1, SpecInv, PTL

\* The CHECK(weave_service_.get()) of the public calls never fails.
THEOREM LockedServicesHaveBinders ==
  ASSUME BoundsAssumption, PrivetAssumption
  PROVE  Spec => []LockedServiceHasBinder
<1>1. TypeOK /\ Inv => LockedServiceHasBinder
  BY DEF Inv, Instance, LockedServiceHasBinder
<1> QED BY <1>1, SpecInv, PTL

\* Commands that reach an instance find their handler.
THEOREM CommandsAreRouted ==
  ASSUME BoundsAssumption, PrivetAssumption
  PROVE  Spec => []RoutedCommandFindsHandler
<1>1. TypeOK /\ Inv => RoutedCommandFindsHandler
  <2> SUFFICES ASSUME TypeOK, Inv, NEW c \in Clients, NEW m \in callbacks,
                      m.op = "onCommand", InstanceOf(c, m)
               PROVE  command_handlers[c]
    BY DEF RoutedCommandFindsHandler
  <2>1. m = [op |-> "onCommand", to |-> Self(c), from |-> manager[c]]
        /\ manager[c] # 0
    BY DEF TypeOK, BinderTypeOK, Callback, InstanceOf, Incarnations
  <2> QED BY <2>1 DEF Inv, Routed, Commanded, InstanceOf
<1> QED BY <1>1, SpecInv, PTL

\* An instance that holds a service is the one weaved's tables name.
THEOREM RegisteredInstancesAreKnown ==
  ASSUME BoundsAssumption, PrivetAssumption
  PROVE  Spec => []RegisteredWithWeaved
<1>1. TypeOK /\ Inv => RegisteredWithWeaved
  BY DEF Inv, Instance, Routed, RegisteredWithWeaved
<1> QED BY <1>1, SpecInv, PTL

(***************************************************************************)
(* The contract of Service::Connect.  A step that leaves the mapped state  *)
(* alone stutters; the others are steps of the contract.                   *)
(***************************************************************************)
\* A step of a client is a step of the contract or leaves it alone.
LEMMA ClientContract ==
  ASSUME BoundsAssumption, TypeOK, Inv, NEW c \in Clients,
         ByClient(ClientStep(c) \/ UserStep(c))
  PROVE  Contract!Next \/ UNCHANGED Contract!vars
<1>a. /\ LibTypeOK /\ BinderTypeOK /\ Instance(c) /\ History
      /\ subscribed[c] => Flight(c)
      /\ UNCHANGED <<incarnation, weavedUp>>
  BY ClientLeavesWeaved DEF TypeOK, Inv
<1>b. ASSUME UNCHANGED <<subscribed, service>>
      PROVE  UNCHANGED Contract!vars
  BY <1>a, <1>b DEF Contract!vars
<1>c. ASSUME subscribed' = [subscribed EXCEPT ![c] = FALSE],
             service' = [service EXCEPT ![c] = 0]
      PROVE  Contract!Next \/ UNCHANGED Contract!vars
  <2>1. CASE subscribed[c]
    BY <1>a, <1>c, <2>1 DEF Contract!Next, Contract!Release
  <2>2. CASE ~subscribed[c]
    <3>1. UNCHANGED <<subscribed, service>>
      BY <1>a, <1>c, <2>2 DEF Instance, LibTypeOK
    <3> QED BY <1>b, <3>1
  <2> QED BY <2>1, <2>2
<1>1. CASE TryConnecting(c) \/ TryConnectingToDead(c) \/ AddComponent(c)
           \/ AddCommandHandler(c) \/ StartClient(c)
  BY <1>1, <1>b DEF TryConnecting, TryConnectingToDead, AddComponent,
                    addComponent,
                    AddCommandHandler, registerCommandHandler, StartClient,
                    instanceVars
<1>2. ASSUME NEW i \in Incarnations, OnWeaveServiceDisconnected(c, i)
      PROVE  UNCHANGED Contract!vars
  BY <1>2, <1>b DEF OnWeaveServiceDisconnected
<1>3. CASE Reconnect(c)
  <2>1. subscribed' = subscribed /\ service' = [service EXCEPT ![c] = 0]
    BY <1>3 DEF Reconnect, NewInstance
  <2>2. CASE service[c] = 0
    <3>1. service' = service
      BY <1>a, <2>1, <2>2 DEF LibTypeOK
    <3> QED BY <1>b, <2>1, <3>1
  <2>3. CASE service[c] # 0
    <3>1. ~Alive(service[c])
      BY <1>3, <1>a, <2>3 DEF Reconnect, Instance, History, Past
    <3>2. Contract!Lose(c)
      BY <1>a, <2>1, <2>3, <3>1 DEF Contract!Lose, Contract!Lost, Alive
    <3> QED BY <3>2 DEF Contract!Next
  <2> QED BY <2>2, <2>3
<1>4. ASSUME NEW m \in callbacks, OnServiceConnected(c, m)
      PROVE  Contract!Next \/ UNCHANGED Contract!vars
  <2>1. CASE InstanceOf(c, m)
    <3>1. /\ m = [op |-> "onServiceConnected", to |-> Self(c),
                  from |-> manager[c]]
          /\ manager[c] # 0
      BY <1>a, <1>4, <2>1 DEF OnServiceConnected, InstanceOf, BinderTypeOK,
                              Callback, Incarnations
    <3>2. subscribed[c] /\ service[c] = 0
      BY <1>a, <2>1, <3>1 DEF InstanceOf, Flight, Answered
    <3>3. m.from \in 1..incarnation
      BY <1>a DEF BinderTypeOK, Callback, Incarnations, History
    <3>4. Contract!Establish(c, m.from)
      BY <1>a, <1>4, <2>1, <3>2 DEF OnServiceConnected, Contract!Establish
    <3> QED BY <3>3, <3>4 DEF Contract!Next
  <2>2. CASE ~InstanceOf(c, m)
    BY <1>b, <1>4, <2>2 DEF OnServiceConnected
  <2> QED BY <2>1, <2>2
<1>5. ASSUME NEW m \in callbacks, OnCommand(c, m)
      PROVE  UNCHANGED Contract!vars
  BY <1>5, <1>b DEF OnCommand, clientVars, instanceVars
<1>6. ASSUME NEW how, Exit(c, how)
      PROVE  Contract!Next \/ UNCHANGED Contract!vars
  BY <1>6, <1>c DEF Exit, NewInstance
<1>7. CASE DestroySubscription(c)
  BY <1>7, <1>c DEF DestroySubscription, NewInstance
<1>8. CASE Connect(c)
  <2>1. service' = service /\ service[c] = 0 /\ ~subscribed[c]
    BY <1>8, <1>a DEF Connect, NewInstance, Instance, LibTypeOK
  <2>2. Contract!Acquire(c)
    BY <1>8, <1>a, <2>1 DEF Connect, Contract!Acquire
  <2> QED BY <2>2 DEF Contract!Next
<1> QED
  BY <1>1, <1>2, <1>3, <1>4, <1>5, <1>6, <1>7, <1>8
     DEF ByClient, ClientStep, UserStep, AddCommandHandlerFails, Crash

\* Every step of the composition is a step of the contract or leaves it alone.
LEMMA NextContract ==
  ASSUME BoundsAssumption, TypeOK, Inv, [Next]_vars
  PROVE  Contract!Next \/ UNCHANGED Contract!vars
<1>1. CASE UNCHANGED vars
  BY <1>1 DEF vars, binderVars, clientVars, instanceVars, Contract!vars
<1>2. CASE WeavedStart
  <2>1. Contract!ServerStart
    BY <1>2 DEF WeavedStart, clientVars, instanceVars, Contract!ServerStart
  <2> QED BY <2>1 DEF Contract!Next
<1>3. CASE WeavedStop
  <2>1. Contract!ServerStop
    BY <1>3 DEF WeavedStop, clientVars, instanceVars, Contract!ServerStop
  <2> QED BY <2>1 DEF Contract!Next
<1>4. CASE ManagerStep \/ (\E b \in Binders : DispatchCommand(b))
           \/ ByPlatform(ServiceManagerForgets)
  <2>a. ASSUME NEW h \in Handlers,
               OnProtocolHandlerConnected(h) \/ OnProtocolHandlerDisconnected(h)
        PROVE  UNCHANGED <<incarnation, weavedUp, clientVars>>
    BY <2>a, WebServerSteps DEF DeviceCreated, PortsChange, binderVars
  <2>1. UNCHANGED <<incarnation, weavedUp, clientVars>>
    BY <1>4, <2>a DEF ManagerStep, ManagerConnect,
       RegisterNotificationListener, OnClientDisconnected,
       OnNotificationListenerDestroyed, DispatchCommand, ByPlatform,
       ServiceManagerForgets, binderVars
  <2> QED BY <2>1 DEF clientVars, instanceVars, Contract!vars
<1> QED BY <1>1, <1>2, <1>3, <1>4, ClientContract DEF Next, LoadDefinitionsFails, GetTraitsOfNoDevice

\* weaved and its clients keep the contract of Service::Connect: all of
\* Contract!LiveSpec but its fairness.
THEOREM ContractIsImplemented ==
  ASSUME BoundsAssumption, PrivetAssumption PROVE Spec => Contract!Spec
<1>1. Init => Contract!Init
  BY DEF Init, BinderInit, LibInit, Contract!Init
<1>2. TypeOK /\ Inv /\ [Next]_vars => [Contract!Next]_(Contract!vars)
  BY NextContract
<1> QED BY <1>1, <1>2, SpecInv, PTL DEF Spec, Contract!Spec

(***************************************************************************)
(* The listener of each client.  TypeOK and Inv do not say where its       *)
(* registration is; Listening does, and is inductive with them.            *)
(***************************************************************************)
Registering(b) == [op |-> "registerNotificationListener", from |-> b] \in calls

\* weaved has no listener of a subscription to come, and that of one that is
\* held from the moment it was found on, and from that moment only.
Listener(c) ==
  /\ \A b \in BindersOf(c) :
       b[2] > sub[c] => ~Registering(b) /\ b \notin notification_listeners
  /\ subscribed[c] /\ (Registering(Self(c))
                        \/ Self(c) \in notification_listeners)
       => manager[c] = incarnation
  /\ subscribed[c] /\ Alive(manager[c])
       => Registering(Self(c)) \/ Self(c) \in notification_listeners

Listening ==
  /\ weavedUp => registry = incarnation
  /\ ~weavedUp => notification_listeners = {}
  /\ \A c \in Clients : Listener(c)

\* What a step of a client does about its registration.
LEMMA ClientRegisters ==
  ASSUME TypeOK, NEW c \in Clients, ByClient(ClientStep(c) \/ UserStep(c))
  PROVE  \/ TryConnecting(c)
         \/ UNCHANGED calls /\ Connect(c)
         \/ UNCHANGED <<calls, sub, subscribed>> /\ Reconnect(c)
         \/ /\ UNCHANGED <<calls, sub>>
            /\ subscribed'[c] => subscribed[c] /\ manager'[c] = manager[c]
            /\ manager'[c] \in {0, manager[c]}
<1>a. LibTypeOK
  BY DEF TypeOK
<1>1. CASE TryConnecting(c) \/ Connect(c) \/ Reconnect(c)
  BY <1>1 DEF Connect, Reconnect, binderVars
<1>2. CASE TryConnectingToDead(c) \/ AddComponent(c) \/ AddCommandHandler(c)
           \/ StartClient(c)
  BY <1>2 DEF TryConnectingToDead, AddComponent, AddCommandHandler,
              StartClient, binderVars, instanceVars
<1>3. ASSUME NEW i \in Incarnations, OnWeaveServiceDisconnected(c, i)
      PROVE  UNCHANGED <<calls, sub, subscribed, manager>>
  BY <1>3 DEF OnWeaveServiceDisconnected, binderVars
<1>4. ASSUME NEW m \in callbacks, OnServiceConnected(c, m) \/ OnCommand(c, m)
      PROVE  UNCHANGED <<calls, sub, subscribed, manager>>
  BY <1>4 DEF OnServiceConnected, OnCommand, clientVars, instanceVars
<1>5. ASSUME NEW how, Exit(c, how)
      PROVE  /\ UNCHANGED <<calls, sub>>
             /\ ~subscribed'[c] /\ manager'[c] = 0
  BY <1>5, <1>a DEF Exit, NewInstance, LibTypeOK
<1>6. CASE DestroySubscription(c)
  BY <1>6, <1>a DEF DestroySubscription, NewInstance, LibTypeOK, binderVars
<1> QED
  BY <1>1, <1>2, <1>3, <1>4, <1>5, <1>6
     DEF ByClient, ClientStep, UserStep, AddCommandHandlerFails, Crash

\* The calls of TryConnecting register its own binder.
LEMMA SentRegistration ==
  ASSUME NEW c, TryConnecting(c)
  PROVE  \A b : Registering(b)' <=>
                  Registering(b) \/ (Alive(registry) /\ b = Self(c))
BY DEF TryConnecting, Sent, Registering

\* What a step of weaved does about a registration: nothing, what
\* registerNotificationListener does, or what the obituary of a dead process
\* does.
LEMMA ManagerRegisters ==
  ASSUME BinderTypeOK, NEW b,
         ManagerStep \/ (\E x \in Binders : DispatchCommand(x))
  PROVE  /\ UNCHANGED <<incarnation, weavedUp, registry>>
         /\ weavedUp
         /\ \/ /\ Registering(b)' <=> Registering(b)
               /\ b \in notification_listeners'
                    <=> b \in notification_listeners
            \/ /\ Registering(b) /\ ~Registering(b)'
               /\ b \in notification_listeners'
            \/ /\ Registering(b)' <=> Registering(b)
               /\ b \notin nodes /\ b \notin notification_listeners'
<1>1. ASSUME NEW h \in Handlers,
             OnProtocolHandlerConnected(h) \/ OnProtocolHandlerDisconnected(h)
      PROVE  /\ weavedUp
             /\ UNCHANGED <<incarnation, weavedUp, registry, calls,
                            notification_listeners>>
  BY <1>1 DEF OnProtocolHandlerConnected, OnProtocolHandlerDisconnected,
              binderVars
<1>2. ASSUME NEW m \in calls, ManagerConnect(m)
      PROVE  /\ weavedUp
             /\ UNCHANGED <<incarnation, weavedUp, registry,
                            notification_listeners>>
             /\ Registering(b)' <=> Registering(b)
  BY <1>2 DEF ManagerConnect, Deliverable, Registering
<1>3. ASSUME NEW m \in calls, RegisterNotificationListener(m)
      PROVE  /\ weavedUp /\ UNCHANGED <<incarnation, weavedUp, registry>>
             /\ \/ /\ b = m.from
                   /\ Registering(b) /\ ~Registering(b)'
                   /\ b \in notification_listeners'
                \/ /\ Registering(b)' <=> Registering(b)
                   /\ b \in notification_listeners'
                        <=> b \in notification_listeners
  <2>1. /\ m = [op |-> "registerNotificationListener", from |-> m.from]
        /\ calls' = calls \ {m} /\ weavedUp
        /\ notification_listeners' = notification_listeners \cup {m.from}
        /\ UNCHANGED <<incarnation, weavedUp, registry>>
    BY <1>3 DEF RegisterNotificationListener, Deliverable, BinderTypeOK, Call
  <2> QED BY <2>1 DEF Registering
<1>4. ASSUME NEW x \in Binders, OnClientDisconnected(x) \/ DispatchCommand(x)
      PROVE  /\ weavedUp
             /\ UNCHANGED <<incarnation, weavedUp, registry, calls,
                            notification_listeners>>
  BY <1>4 DEF OnClientDisconnected, DispatchCommand, binderVars, managerVars
<1>5. ASSUME NEW x \in Binders, OnNotificationListenerDestroyed(x)
      PROVE  /\ weavedUp
             /\ UNCHANGED <<incarnation, weavedUp, registry, calls>>
             /\ x \notin nodes
             /\ notification_listeners' = notification_listeners \ {x}
  BY <1>5 DEF OnNotificationListenerDestroyed, binderVars
<1> QED BY <1>1, <1>2, <1>3, <1>4, <1>5 DEF ManagerStep, Registering

\* The client's own steps: it registers when it finds a weaved.
LEMMA ClientListening ==
  ASSUME BoundsAssumption, TypeOK, Inv, Listening, NEW c \in Clients,
         ByClient(ClientStep(c) \/ UserStep(c))
  PROVE  Listener(c)' /\ [Link(c)!Next]_(Link(c)!vars)
<1>a. /\ LibTypeOK /\ BinderTypeOK /\ Instance(c) /\ History /\ Past(c)
      /\ Listener(c)
      /\ UNCHANGED <<incarnation, weavedUp, registry, notification_listeners>>
  BY ClientLeavesWeaved DEF TypeOK, Inv, History, Listening, managerVars
<1>b. /\ incarnation \in Nat /\ registry \in Nat
      /\ weavedUp => registry = incarnation
      /\ \A i : Alive(i)' <=> Alive(i)
  BY <1>a DEF BinderTypeOK, Listening, Alive
<1>1. CASE TryConnecting(c)
  <2>1. /\ subscribed[c] /\ manager[c] = 0 /\ registry # 0
        /\ registry <= incarnation
    BY <1>1, <1>a DEF TryConnecting, Instance, History
  <2>2. ~Registering(Self(c)) /\ Self(c) \notin notification_listeners
    BY <1>a, <1>b, <2>1 DEF Listener
  <2>3. /\ manager'[c] = registry /\ Self(c)' = Self(c)
        /\ UNCHANGED <<subscribed, sub>>
    BY <1>1, <1>a DEF TryConnecting, LibTypeOK, Self
  <2>4. sub[c] > 0 /\ sub[c] \in Nat
    BY <1>a, <2>1 DEF Instance, LibTypeOK
  <2>5. \A b \in BindersOf(c) :
          b[2] > sub[c] => b # Self(c) /\ (Registering(b)' <=> Registering(b))
    BY <1>1, <2>4, SentRegistration DEF Self
  <2>6. Registering(Self(c))' <=> Alive(registry)
    BY <1>1, <2>2, <2>3, SentRegistration
  <2>7. Alive(registry) <=> weavedUp
    BY <1>b DEF Alive
  <2>8. Listener(c)'
    BY <1>a, <1>b, <2>2, <2>3, <2>5, <2>6, <2>7 DEF Listener
  <2>9. /\ LinkOf(c) = "none"
        /\ LinkOf(c)' = IF weavedUp THEN "calling" ELSE "lost"
    BY <1>a, <1>b, <2>1, <2>2, <2>3, <2>6, <2>7
       DEF LinkOf, Registering
  <2>10. Link(c)!TryConnecting
    BY <1>a, <2>9 DEF Link!TryConnecting
  <2> QED BY <2>8, <2>10 DEF Link!Next
<1>2. CASE UNCHANGED calls /\ Connect(c)
  <2>1. /\ ~subscribed[c] /\ manager[c] = 0 /\ manager'[c] = 0
        /\ sub'[c] = sub[c] + 1 /\ sub[c] < MaxSubscriptions
    BY <1>2, <1>a DEF Connect, NewInstance, Instance, LibTypeOK
  <2>2. /\ sub[c] \in Nat /\ \A b : Registering(b)' <=> Registering(b)
    BY <1>2, <1>a DEF LibTypeOK, Registering
  <2>3. Self(c)' \in BindersOf(c) /\ Self(c)'[2] > sub[c]
    <3>1. Self(c)' = <<c, sub[c] + 1>>
      BY <2>1 DEF Self
    <3>2. sub[c] + 1 \in 1..MaxSubscriptions
      BY <2>1, <2>2 DEF BoundsAssumption
    <3> QED BY <2>2, <3>1, <3>2 DEF BindersOf, Binders
  <2>4. ~Registering(Self(c)') /\ Self(c)' \notin notification_listeners
    BY <1>a, <2>3 DEF Listener
  <2>5. ~Registering(Self(c))'
    BY <1>2, <2>4 DEF Registering
  <2>6. ~Alive(0)
    BY <1>a DEF Alive, History
  <2>7. \A b \in BindersOf(c) : b[2] > sub'[c] => b[2] > sub[c]
    BY <2>1, <2>2 DEF BindersOf, Binders
  <2>8. Listener(c)'
    BY <1>a, <1>b, <2>1, <2>2, <2>4, <2>5, <2>6, <2>7 DEF Listener
  <2>9. LinkOf(c) = "none" /\ LinkOf(c)' = "none"
    BY <2>1 DEF LinkOf
  <2> QED BY <1>a, <2>8, <2>9 DEF Link!vars
<1>3. CASE UNCHANGED <<calls, sub, subscribed>> /\ Reconnect(c)
  <2>1. /\ subscribed[c] /\ manager'[c] = 0
        /\ manager[c] = 0 \/ manager[c] \in mourned[c]
        /\ ~Alive(manager[c])
    BY <1>3, <1>a DEF Reconnect, NewInstance, Instance, LibTypeOK, Past,
                      History, Alive
  <2>2. ~Registering(Self(c)) /\ Self(c) \notin notification_listeners
    BY <1>a, <2>1 DEF Listener, Listening, History, Registering, Alive
  <2>3. /\ Self(c)' = Self(c) /\ ~Alive(0)
        /\ \A b : Registering(b)' <=> Registering(b)
    BY <1>3, <1>a DEF Self, Registering, Alive, History
  <2>4. Listener(c)'
    BY <1>3, <1>a, <1>b, <2>1, <2>2, <2>3 DEF Listener
  <2>5. LinkOf(c) \in {"none", "lost"} /\ LinkOf(c)' = "none"
    BY <2>1 DEF LinkOf
  <2> QED BY <1>a, <2>4, <2>5 DEF Link!Next, Link!Leave, Link!vars
<1>4. CASE /\ UNCHANGED <<calls, sub>>
           /\ subscribed'[c] => subscribed[c] /\ manager'[c] = manager[c]
           /\ manager'[c] \in {0, manager[c]}
  <2>1. Self(c)' = Self(c) /\ \A b : Registering(b)' <=> Registering(b)
    BY <1>4 DEF Self, Registering
  <2>2. Listener(c)'
    BY <1>4, <1>a, <1>b, <2>1 DEF Listener
  <2>3. LinkOf(c)' \in {"none", LinkOf(c)}
    BY <1>4, <1>a, <1>b, <2>1 DEF LinkOf
  <2> QED BY <1>a, <2>2, <2>3 DEF Link!Next, Link!Leave, Link!vars
<1> QED BY <1>1, <1>2, <1>3, <1>4, ClientRegisters

\* Another client's step does nothing to it.
LEMMA OtherListening ==
  ASSUME BoundsAssumption, TypeOK, Inv, Listening,
         NEW c \in Clients, NEW d \in Clients, c # d,
         ByClient(ClientStep(c) \/ UserStep(c))
  PROVE  Listener(d)' /\ UNCHANGED Link(d)!vars
<1>1. /\ SameClient(d) /\ Listener(d)
      /\ UNCHANGED <<incarnation, weavedUp, notification_listeners>>
  BY ClientFrame, ClientLeavesWeaved DEF Listening, managerVars
<1>2. \A b \in BindersOf(d) \cup {Self(d)} : b # Self(c)
  BY DEF BindersOf, Self
<1>3. \A b \in BindersOf(d) \cup {Self(d)} :
        Registering(b)' <=> Registering(b)
  <2>1. CASE TryConnecting(c)
    BY <1>2, <2>1, SentRegistration
  <2>2. CASE UNCHANGED calls
    BY <2>2 DEF Registering
  <2> QED BY <2>1, <2>2, ClientRegisters
<1>4. Self(d)' = Self(d) /\ \A i : Alive(i)' <=> Alive(i)
  BY <1>1 DEF SameClient, Self, Alive
<1>5. Listener(d)'
  BY <1>1, <1>3, <1>4 DEF Listener, SameClient
<1>6. LinkOf(d)' = LinkOf(d)
  BY <1>1, <1>3, <1>4 DEF LinkOf, SameClient, Registering
<1> QED BY <1>1, <1>5, <1>6 DEF Link!vars

\* weaved registers a listener that calls, and removes none that lives.
LEMMA ManagerListening ==
  ASSUME BoundsAssumption, TypeOK, Inv, Listening, NEW d \in Clients,
         ManagerStep \/ (\E x \in Binders : DispatchCommand(x))
  PROVE  Listener(d)' /\ [Link(d)!Next]_(Link(d)!vars)
<1>a. /\ BinderTypeOK /\ Instance(d) /\ Listener(d)
  BY DEF TypeOK, Inv, Listening
<1>b. UNCHANGED <<clientVars, nodes>>
  BY ManagerFrame
<1>c. /\ UNCHANGED <<incarnation, weavedUp, registry, sub, subscribed, manager>>
      /\ weavedUp /\ Self(d)' = Self(d) /\ \A i : Alive(i)' <=> Alive(i)
  BY <1>a, <1>b, ManagerRegisters DEF clientVars, instanceVars, Self, Alive
<1>1. ASSUME NEW b, ~Registering(b), b \notin notification_listeners
      PROVE  ~Registering(b)' /\ b \notin notification_listeners'
  BY <1>a, <1>1, ManagerRegisters
<1>2. CASE subscribed[d]
  <2>1. PICK self : self = Self(d)
    OBVIOUS
  <2>2. self \in nodes /\ self = Self(d)'
    BY <1>a, <1>c, <1>2, <2>1 DEF Instance
  <2>3. \/ /\ Registering(self)' <=> Registering(self)
           /\ self \in notification_listeners'
                <=> self \in notification_listeners
        \/ /\ Registering(self) /\ ~Registering(self)'
           /\ self \in notification_listeners'
    BY <1>a, <2>2, ManagerRegisters
  <2>4. Listener(d)'
    <3>1. \A b \in BindersOf(d) :
            b[2] > sub'[d]
              => ~Registering(b)' /\ b \notin notification_listeners'
      BY <1>a, <1>c, <1>1 DEF Listener
    <3>2. /\ Registering(Self(d))' \/ Self(d)' \in notification_listeners'
               => manager'[d] = incarnation'
          /\ Alive(manager[d])'
               => Registering(Self(d))'
                  \/ Self(d)' \in notification_listeners'
      BY <1>a, <1>c, <1>2, <2>1, <2>2, <2>3 DEF Listener, Registering
    <3> QED BY <3>1, <3>2 DEF Listener
  <2>5. [Link(d)!Next]_(Link(d)!vars)
    <3>1. \/ LinkOf(d)' = LinkOf(d)
          \/ LinkOf(d) = "calling" /\ LinkOf(d)' = "registered"
      BY <1>a, <1>c, <2>1, <2>2, <2>3 DEF LinkOf, Registering
    <3> QED BY <1>c, <3>1 DEF Link!Next, Link!Register, Link!vars
  <2> QED BY <2>4, <2>5
<1>3. CASE ~subscribed[d]
  <2>1. LinkOf(d) = "none" /\ LinkOf(d)' = "none"
    BY <1>a, <1>c, <1>3 DEF LinkOf, Instance
  <2>2. Listener(d)'
    BY <1>a, <1>c, <1>1, <1>3 DEF Listener
  <2> QED BY <1>c, <2>1, <2>2 DEF Link!vars
<1> QED BY <1>2, <1>3

\* The start and the death of weaved: either leaves no registration.
LEMMA LifeListening ==
  ASSUME BoundsAssumption, TypeOK, Inv, Listening, NEW d \in Clients,
         WeavedStart \/ WeavedStop
  PROVE  Listener(d)' /\ Link(d)!Next
<1>a. /\ LibTypeOK /\ BinderTypeOK /\ Listener(d) /\ History
      /\ incarnation \in Nat /\ manager[d] \in Nat
      /\ manager[d] <= incarnation
  BY DEF TypeOK, Inv, Listening, BinderTypeOK, LibTypeOK, History, Past
<1>1. /\ calls' = {} /\ notification_listeners' = {}
      /\ UNCHANGED <<clientVars, nodes>>
      /\ \/ ~weavedUp /\ weavedUp' /\ incarnation' = incarnation + 1
         \/ weavedUp /\ ~weavedUp' /\ incarnation' = incarnation
  BY <1>a DEF WeavedStart, WeavedStop, ForgetEverything, History
<1>2. /\ \A b : ~Registering(b)' /\ ~Alive(manager[d])'
      /\ UNCHANGED <<manager, sub>>
  BY <1>a, <1>1 DEF Registering, Alive, clientVars, instanceVars
<1>3. Listener(d)'
  BY <1>1, <1>2 DEF Listener
<1>4. LinkOf(d)' = IF LinkOf(d) = "none" THEN "none" ELSE "lost"
  BY <1>2 DEF LinkOf
<1>5. ~weavedUp => LinkOf(d) \in {"none", "lost"}
  BY DEF LinkOf, Alive
<1>6. weavedUp \in BOOLEAN /\ weavedUp' \in BOOLEAN
  BY <1>a DEF BinderTypeOK, WeavedStart, WeavedStop
<1>7. Link(d)!ServerStart \/ Link(d)!ServerStop
  BY <1>1, <1>4, <1>5, <1>6 DEF Link!ServerStart, Link!ServerStop
<1> QED BY <1>3, <1>7 DEF Link!Next

\* Listening is inductive, and every step is one of each client's listener.
LEMMA NextListening ==
  ASSUME BoundsAssumption, TypeOK, Inv, Listening, [Next]_vars
  PROVE  Listening' /\ \A d \in Clients : [Link(d)!Next]_(Link(d)!vars)
<1>a. ASSUME UNCHANGED <<incarnation, weavedUp, calls, notification_listeners,
                         sub, subscribed, manager>>,
             NEW d \in Clients
      PROVE  Listener(d)' /\ UNCHANGED Link(d)!vars
  BY <1>a DEF Listening, Listener, Registering, Self, Alive, LinkOf, Link!vars
<1>1. CASE UNCHANGED vars
  BY <1>a, <1>1 DEF vars, binderVars, clientVars, instanceVars, managerVars,
                    Listening
<1>2. ASSUME NEW c \in Clients, ByClient(ClientStep(c) \/ UserStep(c))
      PROVE  Listening' /\ \A d \in Clients : [Link(d)!Next]_(Link(d)!vars)
  <2>1. UNCHANGED <<weavedUp, registry, incarnation, notification_listeners>>
    BY <1>2, ClientLeavesWeaved DEF managerVars
  <2> QED BY <1>2, <2>1, ClientListening, OtherListening DEF Listening
<1>3. CASE ManagerStep \/ (\E x \in Binders : DispatchCommand(x))
  <2>1. UNCHANGED <<incarnation, weavedUp, registry>> /\ weavedUp
    BY <1>3, ManagerRegisters DEF TypeOK
  <2> QED BY <1>3, <2>1, ManagerListening DEF Listening
<1>4. CASE WeavedStart \/ WeavedStop
  <2>1. /\ notification_listeners' = {}
        /\ weavedUp' => registry' = incarnation'
    BY <1>4 DEF WeavedStart, WeavedStop, ForgetEverything
  <2> QED BY <1>4, <2>1, LifeListening DEF Listening
<1>5. CASE ByPlatform(ServiceManagerForgets)
  <2>1. /\ UNCHANGED <<incarnation, weavedUp, calls, notification_listeners,
                       sub, subscribed, manager>>
        /\ ~Alive(registry)
    BY <1>5 DEF ByPlatform, ServiceManagerForgets, clientVars, instanceVars,
                managerVars
  <2> QED BY <1>a, <2>1 DEF Listening, Alive
<1> QED BY <1>1, <1>2, <1>3, <1>4, <1>5
        DEF Next, LoadDefinitionsFails, GetTraitsOfNoDevice

\* A listener registers with each weaved its instance finds, once found is
\* never forgotten while that weaved and its process live, and is none of
\* weaved's when they do not: the assumption Pairing is built on.
THEOREM LinkIsImplemented ==
  ASSUME BoundsAssumption, PrivetAssumption PROVE Spec => ImplementsLink
<1>1. Init => Listening
  BY DEF Init, BinderInit, LibInit, ManagerInit, Listening, Listener,
         Registering, Alive
<1>2. Init => \A c \in Clients : Link(c)!Init
  BY DEF Init, BinderInit, LibInit, LinkOf, Link!Init
<1>3. TypeOK /\ Inv /\ Listening /\ [Next]_vars
        => Listening' /\ [\A c \in Clients : [Link(c)!Next]_(Link(c)!vars)]_vars
  BY NextListening
<1> QED BY <1>1, <1>2, <1>3, SpecInv, PTL DEF Spec, ImplementsLink

(***************************************************************************)
(* What DeadClientsForgotten rests on: a binder in weaved's tables has its *)
(* death watched, and one that is dead stays dead, no subscription to come *)
(* being there already.  The obituary's handler then needs nothing else.   *)
(***************************************************************************)
Known == services \cup notification_listeners

Watching ==
  /\ \A b \in services : weavedUp /\ <<"client", b>> \in watched
  /\ \A b \in notification_listeners :
       weavedUp /\ <<"listener", b>> \in watched
  /\ \A b \in Known : b[2] <= sub[b[1]]

DeadStayDead == \A b \in Known : b \notin nodes => b \notin nodes'

\* A client makes the binders of new subscriptions only.
LEMMA ClientNodes ==
  ASSUME TypeOK, NEW c \in Clients, ByClient(ClientStep(c) \/ UserStep(c))
  PROVE  /\ \A d \in Clients : sub'[d] \in {sub[d], sub[d] + 1}
         /\ nodes' \subseteq nodes \cup {<<d, sub[d] + 1>> : d \in Clients}
<1>a. LibTypeOK
  BY DEF TypeOK
<1>1. CASE Connect(c)
  BY <1>1, <1>a DEF Connect, LibTypeOK
<1>2. CASE TryConnecting(c) \/ TryConnectingToDead(c) \/ Reconnect(c)
           \/ AddComponent(c) \/ AddCommandHandler(c) \/ StartClient(c)
           \/ DestroySubscription(c)
  BY <1>2 DEF TryConnecting, TryConnectingToDead, Reconnect, AddComponent,
     AddCommandHandler, StartClient, DestroySubscription, binderVars
<1>3. ASSUME NEW i \in Incarnations, OnWeaveServiceDisconnected(c, i)
      PROVE  UNCHANGED <<sub, nodes>>
  BY <1>3 DEF OnWeaveServiceDisconnected, binderVars
<1>4. ASSUME NEW m \in callbacks, OnServiceConnected(c, m) \/ OnCommand(c, m)
      PROVE  UNCHANGED <<sub, nodes>>
  BY <1>4 DEF OnServiceConnected, OnCommand, clientVars
<1>5. ASSUME NEW how, Exit(c, how)
      PROVE  sub' = sub /\ nodes' \subseteq nodes
  BY <1>5 DEF Exit
<1> QED
  BY <1>1, <1>2, <1>3, <1>4, <1>5
     DEF ByClient, ClientStep, UserStep, AddCommandHandlerFails, Crash

\* The clients weaved serves have subscribed, and are watched.
LEMMA ServedWatched ==
  ASSUME Watching, weavedUp, NEW bs, CreateServicesForClients(bs),
         \A b \in bs : b[2] <= sub[b[1]],
         UNCHANGED <<weavedUp, notification_listeners, sub>>
  PROVE  Watching'
BY DEF Watching, Known, CreateServicesForClients

\* A binder that calls, or waits for the device, is of a subscription made.
LEMMA CallersSubscribed ==
  ASSUME TypeOK, Inv, Listening, NEW b \in Binders,
         Calling(b) \/ b \in pending_clients \/ Registering(b)
  PROVE  b[2] <= sub[b[1]]
<1>1. /\ b[1] \in Clients /\ b \in BindersOf(b[1])
      /\ b[2] \in Int /\ sub[b[1]] \in Int
  BY DEF Binders, BindersOf, TypeOK, LibTypeOK
<1>2. ~(b[2] > sub[b[1]])
  BY <1>1 DEF Inv, Unused, Listening, Listener
<1> QED BY <1>1, <1>2

\* Every step leaves weaved watching all it knows.
LEMMA NextWatching ==
  ASSUME BoundsAssumption, TypeOK, Inv, Listening, Watching, [Next]_vars
  PROVE  Watching' /\ DeadStayDead
<1>a. LibTypeOK /\ BinderTypeOK /\ ManagerTypeOK
  BY DEF TypeOK
<1>b. ASSUME UNCHANGED nodes PROVE DeadStayDead
  BY <1>b DEF DeadStayDead
<1>c. ASSUME UNCHANGED <<weavedUp, services, notification_listeners, watched,
                         sub>>
      PROVE  Watching'
  BY <1>c DEF Watching, Known
<1>1. CASE UNCHANGED vars
  BY <1>b, <1>c, <1>1 DEF vars, binderVars, managerVars, clientVars
<1>2. ASSUME NEW c \in Clients, ByClient(ClientStep(c) \/ UserStep(c))
      PROVE  Watching' /\ DeadStayDead
  <2>1. UNCHANGED <<weavedUp, services, notification_listeners, watched>>
    BY <1>2, ClientLeavesWeaved DEF managerVars
  <2>2. \A b \in Known : b[1] \in Clients /\ b[2] \in Nat /\ sub[b[1]] \in Nat
    BY <1>a DEF Known, ManagerTypeOK, LibTypeOK, Binders
  <2>3. Watching'
    BY <1>2, <2>1, <2>2, ClientNodes DEF Watching, Known
  <2>4. DeadStayDead
    BY <1>2, <2>2, ClientNodes DEF Watching, DeadStayDead
  <2> QED BY <2>3, <2>4
<1>3. CASE \/ ManagerStep
           \/ \E b \in Binders : DispatchCommand(b)
           \/ WeavedStart \/ WeavedStop
           \/ ByPlatform(ServiceManagerForgets)
  <2>1. UNCHANGED <<sub, nodes>>
    BY <1>3, ManagerFrame DEF clientVars
  <2>2. ASSUME DeviceCreated PROVE Watching'
    <3>1. \A b \in pending_clients : b[2] <= sub[b[1]]
      BY <1>a, CallersSubscribed DEF ManagerTypeOK
    <3> QED BY <2>1, <2>2, <3>1, ServedWatched DEF DeviceCreated
  <2>3. ASSUME PortsChange PROVE Watching'
    BY <1>c, <2>1, <2>3 DEF PortsChange, binderVars
  <2>4. ASSUME NEW m \in calls, ManagerConnect(m) PROVE Watching'
    <3>1. CASE device
      <4>1. m.from \in Binders /\ Calling(m.from)
        BY <1>a, <2>4, ConnectCalls DEF ManagerConnect, BinderTypeOK, Call
      <4>2. \A b \in pending_clients \cup {m.from} : b[2] <= sub[b[1]]
        BY <1>a, <4>1, CallersSubscribed DEF ManagerTypeOK
      <4> QED BY <2>1, <2>4, <3>1, <4>2, ServedWatched
              DEF ManagerConnect, Deliverable
    <3>2. CASE ~device
      BY <1>c, <2>1, <2>4, <3>2 DEF ManagerConnect
    <3> QED BY <3>1, <3>2
  <2>5. ASSUME NEW m \in calls, RegisterNotificationListener(m)
        PROVE  Watching'
    <3>1. m.from \in Binders /\ Registering(m.from) /\ weavedUp
      BY <1>a, <2>5 DEF RegisterNotificationListener, Deliverable,
                        BinderTypeOK, Call, Registering
    <3>2. m.from[2] <= sub[m.from[1]]
      BY <3>1, CallersSubscribed
    <3> QED BY <2>1, <2>5, <3>1, <3>2
            DEF RegisterNotificationListener, Watching, Known
  <2>6. ASSUME NEW b \in Binders,
               OnClientDisconnected(b) \/ OnNotificationListenerDestroyed(b)
        PROVE  Watching'
    BY <2>1, <2>6 DEF OnClientDisconnected, OnNotificationListenerDestroyed,
                      binderVars, Watching, Known
  <2>7. ASSUME \/ \E b \in Binders : DispatchCommand(b)
               \/ ByPlatform(ServiceManagerForgets)
        PROVE  Watching'
    BY <1>c, <2>1, <2>7 DEF DispatchCommand, ByPlatform, ServiceManagerForgets,
                            managerVars
  <2>8. ASSUME WeavedStart \/ WeavedStop PROVE Watching'
    BY <2>8 DEF WeavedStart, WeavedStop, ForgetEverything, Watching, Known
  <2>9. Watching'
    BY <1>3, <2>2, <2>3, <2>4, <2>5, <2>6, <2>7, <2>8, WebServerSteps
       DEF ManagerStep
  <2> QED BY <1>b, <2>1, <2>9
<1> QED BY <1>1, <1>2, <1>3
        DEF Next, LoadDefinitionsFails, GetTraitsOfNoDevice

\* Whatever dies, weaved hears of each service and each listener it has of a
\* dead process, and nothing takes the dead one's place before that
\* (Manager::OnClientDisconnected, OnNotificationListenerDestroyed).
THEOREM TheDeadAreHeardOf ==
  ASSUME BoundsAssumption, PrivetAssumption
  PROVE  Spec => []Watching /\ [][DeadStayDead]_vars
<1>1. Init => Listening /\ Watching
  BY DEF Init, BinderInit, LibInit, ManagerInit, Listening, Listener,
         Registering, Alive, Watching, Known
<1>2. TypeOK /\ Inv /\ Listening /\ Watching /\ [Next]_vars
        => Listening' /\ Watching' /\ [DeadStayDead]_vars
  BY NextListening, NextWatching
<1> QED BY <1>1, <1>2, SpecInv, PTL DEF Spec

=============================================================================
