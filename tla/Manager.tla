------------------------------ MODULE Manager ------------------------------
(***************************************************************************)
(* weaved's side of the connection: Manager, the IWeaveServiceManager      *)
(* (src/buffet/manager.cc), and the BinderWeaveService it makes for each   *)
(* client (src/buffet/binder_weave_service.cc), with the life of the       *)
(* weaved process itself (src/buffet/main.cc, src/weaved.rc).  All of it   *)
(* runs on one message loop, so a handler is one action.                   *)
(***************************************************************************)
EXTENDS LibWeaved, WebServClient

CONSTANT PrivetEnabled  \* Wi-Fi bootstrapping: the device waits for webservd

ASSUME PrivetAssumption == PrivetEnabled \in BOOLEAN

VARIABLES
  device,                  \* device_ has been created
  pending_clients,         \* binders waiting for the device
  services,                \* binders with a BinderWeaveService in services_
  notification_listeners,  \* binders whose listener is in the set
  watched                  \* death links: <<role, binder>>

managerVars ==
  <<device, pending_clients, services, notification_listeners, watched, ports>>

Roles == {"client", "listener"}

ManagerTypeOK ==
  /\ device \in BOOLEAN
  /\ pending_clients \subseteq Binders
  /\ services \subseteq Binders
  /\ notification_listeners \subseteq Binders
  /\ watched \subseteq Roles \X Binders
  /\ components \subseteq Clients
  /\ handlers \in [Clients -> 0..MaxSubscriptions]
  /\ WebServTypeOK

ManagerInit ==
  /\ device = FALSE
  /\ pending_clients = {}
  /\ services = {}
  /\ notification_listeners = {}
  /\ watched = {}
  /\ components = {}
  /\ handlers = [c \in Clients |-> 0]
  /\ WebServInit

\* Everything weaved holds is in memory.
ForgetEverything(created) ==
  /\ device' = created
  /\ pending_clients' = {}
  /\ services' = {}
  /\ notification_listeners' = {}
  /\ watched' = {}
  /\ components' = {}
  /\ handlers' = [c \in Clients |-> 0]
  /\ ports' = {}

\* init starts weaved: RegisterService, Manager::Start and RestartWeave, with
\* CreateDevice in the same task when there is no HTTP server to wait for.
WeavedStart ==
  /\ ~weavedUp /\ incarnation < MaxStarts
  /\ weavedUp' = TRUE
  /\ incarnation' = incarnation + 1
  /\ registry' = incarnation + 1
  /\ ForgetEverything(~PrivetEnabled)
  /\ UNCHANGED <<calls, callbacks, nodes, clientVars>>

\* The weaved process dies; what it sent before may still arrive.
WeavedStop ==
  /\ weavedUp
  /\ weavedUp' = FALSE
  /\ calls' = {}
  /\ ForgetEverything(FALSE)
  /\ UNCHANGED <<incarnation, registry, callbacks, nodes, clientVars>>

\* A |services_| keyed by the client's process and not by its binder.
CreateServicesByProcess(bs) ==
  /\ pending_clients' = {}
  /\ services' = services \cup {b[1] : b \in bs}
  /\ callbacks' = CalledBack([op : {"onServiceConnected"}, to : bs,
                              from : {incarnation}])
  /\ watched' = watched \cup ({"client"} \X bs)

\* Manager::CreateServicesForClients with the clients bs in
\* |pending_clients_|.
CreateServicesForClients(bs) ==
  /\ pending_clients' = {}
  /\ services' = services \cup bs
  /\ callbacks' = CalledBack([op : {"onServiceConnected"}, to : bs,
                              from : {incarnation}])
  /\ watched' = watched \cup ({"client"} \X bs)

\* Manager::CreateDevice; it returns at once when there is a device.
CreateDevice ==
  /\ device' = TRUE
  /\ IF device THEN UNCHANGED <<pending_clients, services, callbacks, watched>>
     ELSE CreateServicesForClients(pending_clients)

\* webservd connects a handler, which creates the device when it makes the
\* server available.
OnProtocolHandlerConnected(h) ==
  /\ weavedUp /\ PrivetEnabled
  /\ PortConnected(h)
  /\ IF ServerAvailable THEN CreateDevice
     ELSE UNCHANGED <<device, pending_clients, services, callbacks, watched>>
  /\ UNCHANGED <<incarnation, weavedUp, registry, calls, nodes, clientVars,
                 notification_listeners, deviceTreeVars>>

\* webservd takes a handler back; the device stays.
OnProtocolHandlerDisconnected(h) ==
  /\ weavedUp
  /\ PortDisconnected(h)
  /\ UNCHANGED <<binderVars, clientVars, device, pending_clients, services,
                 notification_listeners, watched, deviceTreeVars>>

\* LoadTraitDefinitions and the others of CreateDevice: a file that cannot be
\* read, or state defaults the device refuses, end the process.
LoadDefinitionsFails ==
  /\ PrivetEnabled /\ "https" \notin ports /\ ~device
  /\ WeavedStop

\* getTraits and getComponents call through |device_|, which is null until
\* CreateDevice.
GetTraitsOfNoDevice == ~device /\ WeavedStop

\* A connect that serves clients at once or not at all.
ConnectOrForget(m) ==
  /\ Deliverable(m) /\ m.op = "connect"
  /\ calls' = calls \ {m}
  /\ IF device
     THEN CreateServicesForClients({m.from})
     ELSE UNCHANGED <<pending_clients, services, callbacks, watched>>
  /\ UNCHANGED <<incarnation, weavedUp, registry, nodes, clientVars, device,
                 notification_listeners, ports, deviceTreeVars>>

\* Manager::connect.
ManagerConnect(m) ==
  /\ Deliverable(m) /\ m.op = "connect"
  /\ calls' = calls \ {m}
  /\ IF device
     THEN CreateServicesForClients(pending_clients \cup {m.from})
     ELSE /\ pending_clients' = pending_clients \cup {m.from}
          /\ UNCHANGED <<services, callbacks, watched>>
  /\ UNCHANGED <<incarnation, weavedUp, registry, nodes, clientVars, device,
                 notification_listeners, ports, deviceTreeVars>>

\* Manager::registerNotificationListener without its death link.
RegisterListenerUnlinked(m) ==
  /\ Deliverable(m) /\ m.op = "registerNotificationListener"
  /\ calls' = calls \ {m}
  /\ notification_listeners' = notification_listeners \cup {m.from}
  /\ UNCHANGED <<incarnation, weavedUp, registry, callbacks, nodes, clientVars,
                 device, pending_clients, services, watched, ports,
                 deviceTreeVars>>

\* Manager::registerNotificationListener.
RegisterNotificationListener(m) ==
  /\ Deliverable(m) /\ m.op = "registerNotificationListener"
  /\ calls' = calls \ {m}
  /\ notification_listeners' = notification_listeners \cup {m.from}
  /\ watched' = watched \cup {<<"listener", m.from>>}
  /\ UNCHANGED <<incarnation, weavedUp, registry, callbacks, nodes, clientVars,
                 device, pending_clients, services, ports, deviceTreeVars>>

\* A disconnection that drops every service of the client's program.
DropAllServicesOf(b) ==
  /\ weavedUp /\ <<"client", b>> \in watched /\ b \notin nodes
  /\ watched' = watched \ {<<"client", b>>}
  /\ services' = services \ BindersOf(b[1])
  /\ UNCHANGED <<binderVars, clientVars, device, pending_clients,
                 notification_listeners, ports, deviceTreeVars>>

\* The obituary of a client: Manager::OnClientDisconnected.  The components
\* of its ~BinderWeaveService stay in the tree.
OnClientDisconnected(b) ==
  /\ weavedUp /\ <<"client", b>> \in watched /\ b \notin nodes
  /\ watched' = watched \ {<<"client", b>>}
  /\ services' = services \ {b}
  /\ UNCHANGED <<binderVars, clientVars, device, pending_clients,
                 notification_listeners, ports, deviceTreeVars>>

\* A destruction that drops every listener of the client's program.
DropAllListenersOf(b) ==
  /\ weavedUp /\ <<"listener", b>> \in watched /\ b \notin nodes
  /\ watched' = watched \ {<<"listener", b>>}
  /\ notification_listeners' = notification_listeners \ BindersOf(b[1])
  /\ UNCHANGED <<binderVars, clientVars, device, pending_clients, services,
                 ports, deviceTreeVars>>

\* The obituary of a listener: Manager::OnNotificationListenerDestroyed.
OnNotificationListenerDestroyed(b) ==
  /\ weavedUp /\ <<"listener", b>> \in watched /\ b \notin nodes
  /\ watched' = watched \ {<<"listener", b>>}
  /\ notification_listeners' = notification_listeners \ {b}
  /\ UNCHANGED <<binderVars, clientVars, device, pending_clients, services,
                 ports, deviceTreeVars>>

\* A dispatch that sends commands to every service of the component's client.
DispatchToAllServices(b) ==
  /\ weavedUp /\ device
  /\ b \in services
  /\ callbacks' = CalledBack({[op |-> "onCommand", to |-> b,
                               from |-> incarnation]})
  /\ UNCHANGED <<incarnation, weavedUp, registry, calls, nodes, clientVars,
                 managerVars, deviceTreeVars>>

\* The device runs the handler of a new command: BinderWeaveService::OnCommand
\* of the service b, if the weak pointer it is bound to still locks.  Commands
\* to one binder are not told apart while they are in flight.
DispatchCommand(b) ==
  /\ weavedUp /\ device
  /\ handlers[b[1]] = b[2] /\ b \in services
  /\ callbacks' = CalledBack({[op |-> "onCommand", to |-> b,
                               from |-> incarnation]})
  /\ UNCHANGED <<incarnation, weavedUp, registry, calls, nodes, clientVars,
                 managerVars, deviceTreeVars>>

\* What the running weaved does by itself.
ManagerStep ==
  \/ \E h \in Handlers :
       OnProtocolHandlerConnected(h) \/ OnProtocolHandlerDisconnected(h)
  \/ \E m \in calls : ManagerConnect(m)
  \/ \E m \in calls : RegisterNotificationListener(m)
  \/ \E b \in Binders : OnClientDisconnected(b)
  \/ \E b \in Binders : OnNotificationListenerDestroyed(b)

=============================================================================
