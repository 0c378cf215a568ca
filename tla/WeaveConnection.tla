-------------------------- MODULE WeaveConnection --------------------------
(***************************************************************************)
(* weaved and its clients together: every interleaving of the clients'     *)
(* message loops, weaved's message loop, the calls in flight between them  *)
(* and the deaths of either side.                                          *)
(***************************************************************************)
EXTENDS Manager

vars == <<binderVars, clientVars, managerVars, deviceTreeVars>>

Init == BinderInit /\ LibInit /\ ManagerInit

\* A step of a client process leaves weaved's Manager alone.
ByClient(A) == A /\ UNCHANGED managerVars

\* Nor does the service manager's touch either side.
ByPlatform(A) == A /\ UNCHANGED <<clientVars, managerVars, deviceTreeVars>>

Next ==
  \/ \E c \in Clients : ByClient(ClientStep(c) \/ UserStep(c))
  \/ ManagerStep
  \/ \E b \in Binders : DispatchCommand(b)
  \/ WeavedStart
  \/ WeavedStop
  \/ LoadDefinitionsFails \/ GetTraitsOfNoDevice
  \/ ByPlatform(ServiceManagerForgets)

Spec == Init /\ [][Next]_vars

(***************************************************************************)
(* Message loops and binder threads keep running, obituaries arrive, init  *)
(* restarts weaved and webservd comes up in the end.  Nobody has to         *)
(* subscribe, to leave, to crash or to send a command.                     *)
(***************************************************************************)
ClientFairness(c) ==
  /\ WF_vars(ByClient(TryConnecting(c) \/ TryConnectingToDead(c)))
  /\ \A i \in Incarnations :
       WF_vars(ByClient(OnWeaveServiceDisconnected(c, i)))
  /\ WF_vars(ByClient(Reconnect(c)))
  /\ WF_vars(ByClient(\E m \in callbacks : OnServiceConnected(c, m)))
  /\ WF_vars(ByClient(\E m \in callbacks : OnCommand(c, m)))
  /\ WF_vars(ByClient(AddComponent(c)))
  /\ WF_vars(ByClient(AddCommandHandler(c) \/ AddCommandHandlerFails(c)))

ManagerFairness ==
  /\ WF_vars(OnProtocolHandlerConnected("https"))
  /\ WF_vars(\E m \in calls : ManagerConnect(m))
  /\ WF_vars(\E m \in calls : RegisterNotificationListener(m))
  /\ \A b \in Binders :
       /\ WF_vars(OnClientDisconnected(b))
       /\ WF_vars(OnNotificationListenerDestroyed(b))

LiveSpec ==
  /\ Spec
  /\ \A c \in Clients : ClientFairness(c)
  /\ ManagerFairness
  /\ WF_vars(WeavedStart)
  /\ WF_vars(ByPlatform(ServiceManagerForgets))

-----------------------------------------------------------------------------
\* Type invariant of the composed system (every variable of the code above).
TypeOK == BinderTypeOK /\ LibTypeOK /\ ManagerTypeOK

\* How far the connection of c's instance to the running weaved has come.
Stages(c) ==
  {s \in {"calling", "pending", "answered", "connected"} :
     \/ s = "calling" /\ [op |-> "connect", from |-> Self(c)] \in calls
     \/ s = "pending" /\ Self(c) \in pending_clients
     \/ s = "answered" /\ [op |-> "onServiceConnected", to |-> Self(c),
                           from |-> incarnation] \in callbacks
     \/ s = "connected" /\ service[c] = incarnation}

\* A connect() is never lost nor answered twice: an instance bound to the
\* running weaved is in exactly one stage of ServiceImpl::TryConnecting,
\* Manager::connect, CreateServicesForClients, OnServiceConnected, whether
\* the device existed when it called or not.
NoLostConnect ==
  \A c \in Clients :
    subscribed[c] /\ manager[c] # 0 /\ Alive(manager[c])
      => \E s \in Stages(c) : Stages(c) = {s}

\* No instance is stranded: one with no task left to run is bound to a weaved
\* that is alive or whose obituary will reach OnWeaveServiceDisconnected.
NeverStranded ==
  \A c \in Clients :
    subscribed[c] /\ tasks[c] = {}
      => /\ manager[c] # 0
         /\ Alive(manager[c]) \/ manager[c] \in linked[c]

\* CHECK(weave_service_.get()) in AddComponent, AddCommandHandler and
\* SetStateProperties cannot fail: a weak_ptr<Service> that locks has a
\* service behind it, and one of the instance's own weaved.
LockedServiceHasBinder ==
  \A c \in Clients :
    weak[c] => subscribed[c] /\ service[c] # 0 /\ service[c] = manager[c]

\* A command that reaches a live instance finds its entry in
\* command_handlers_: the "Unexpected command notification" of
\* ServiceImpl::OnCommand never happens.
RoutedCommandFindsHandler ==
  \A c \in Clients, m \in callbacks :
    m.op = "onCommand" /\ InstanceOf(c, m) => command_handlers[c]

\* Once the connection callback has returned, weaved's tables route the
\* commands of the client's component to this very instance: its handler is
\* the one registered last, its service is still in services_ and its
\* component in the tree, whatever obituaries of earlier processes and
\* subscriptions of the same client came in between.
RegisteredWithWeaved ==
  \A c \in Clients :
    weak[c] /\ api[c] = "idle" /\ Alive(service[c])
      => handlers[c] = sub[c] /\ Self(c) \in services /\ c \in components

\* A subscription that is held has a live connection in the end, if weaved
\* stays up: the reconnection contract of Service::Connect (service.h).
EventuallyConnected ==
  \A c \in Clients :
    <>[](subscribed[c] /\ weavedUp) => <>[](service[c] = incarnation)

\* weaved does not keep a service or a listener of a dead process for ever.
DeadClientsForgotten ==
  \A b \in Binders :
    (b \in services \cup notification_listeners /\ b \notin nodes)
      ~> (b \notin services \cup notification_listeners)

\* The connection implements the contract of Service::Connect.
Contract ==
  INSTANCE WeaveService
    WITH epoch <- incarnation, up <- weavedUp, held <- subscribed,
         conn <- service

ImplementsContract == Contract!LiveSpec

\* How far the registration of c's listener is.  "forgotten" is no stage of
\* ListenerLink: it is a listener whose call is gone and that weaved has not.
LinkOf(c) ==
  IF manager[c] = 0 THEN "none"
  ELSE IF ~Alive(manager[c]) THEN "lost"
  ELSE IF Self(c) \in notification_listeners THEN "registered"
  ELSE IF [op |-> "registerNotificationListener", from |-> Self(c)] \in calls
       THEN "calling"
  ELSE "forgotten"

Link(c) == INSTANCE ListenerLink WITH up <- weavedUp, link <- LinkOf(c)

\* weaved never loses the listener of a live instance, whatever other
\* processes and earlier subscriptions of the same client die meanwhile: each
\* client's connection takes the steps of ListenerLink alone, which are those
\* Pairing follows a listener through (ServiceImpl::TryConnecting,
\* Manager::registerNotificationListener, OnNotificationListenerDestroyed).
ImplementsLink ==
  /\ \A c \in Clients : Link(c)!Init
  /\ [][\A c \in Clients : [Link(c)!Next]_(Link(c)!vars)]_vars

\* "If this happens, a connection is re-established and the |callback| is
\* called again" (src/libweaved/service.h:121-122): losing weaved does not end
\* the client's process, whatever its callback was doing.
LostConnectionIsSurvived == \A c \in Clients : api[c] # "aborted"

\* "If the client exits, weaved automatically cleans up resources added by
\* this client": once no service of a dead client is left, neither is its
\* component (~BinderWeaveService).
ComponentsCleanedUp ==
  \A c \in components : running[c] \/ \E b \in services : b[1] = c

=============================================================================
