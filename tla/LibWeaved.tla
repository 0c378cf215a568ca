----------------------------- MODULE LibWeaved -----------------------------
(***************************************************************************)
(* The client side of the connection (src/libweaved/service.cc): the       *)
(* Subscription a process holds, the ServiceImpl instance it owns, the     *)
(* tasks that instance posts on the message loop, and the user callback    *)
(* that runs when the instance gets its IWeaveService.  The user's         *)
(* callback is the one of src/libweaved/README.md: it calls AddComponent   *)
(* and then AddCommandHandler, both synchronous calls to weaved.           *)
(***************************************************************************)
EXTENDS WeaveBinder

VARIABLES
  running,     \* the client process is alive
  subscribed,  \* it holds the Subscription Connect returned
  sub,         \* number of its last subscription
  tasks,       \* tasks posted by the current ServiceImpl instance
  manager,     \* incarnation behind weave_service_manager_, 0 for none
  service,     \* incarnation behind weave_service_, 0 for none
  weak,        \* the user's weak_ptr<Service> locks
  api,         \* user's synchronous call in progress, "idle" in the loop,
               \* "aborted" in a process that a CHECK ended
  command_handlers,  \* command_handlers_ has the entry of the user's handler
  linked,      \* incarnations whose death this process asked to hear of
  mourned      \* incarnations whose obituary it received

instanceVars == <<tasks, manager, service, weak, command_handlers>>
clientVars == <<running, subscribed, sub, instanceVars, api, linked, mourned>>

\* weaved's side of the two synchronous calls the user's callback makes.
VARIABLES components,   \* clients' components in the device's component tree
          handlers      \* binder number whose service handles c's command, or 0

deviceTreeVars == <<components, handlers>>

LibTypeOK ==
  /\ running \in [Clients -> BOOLEAN]
  /\ subscribed \in [Clients -> BOOLEAN]
  /\ sub \in [Clients -> 0..MaxSubscriptions]
  /\ tasks \in [Clients -> SUBSET {"TryConnecting", "Reconnect"}]
  /\ manager \in [Clients -> 0..MaxStarts]
  /\ service \in [Clients -> 0..MaxStarts]
  /\ weak \in [Clients -> BOOLEAN]
  /\ api \in [Clients ->
              {"idle", "AddComponent", "AddCommandHandler", "aborted"}]
  /\ command_handlers \in [Clients -> BOOLEAN]
  /\ linked \in [Clients -> SUBSET Incarnations]
  /\ mourned \in [Clients -> SUBSET Incarnations]

LibInit ==
  /\ running = [c \in Clients |-> TRUE]
  /\ subscribed = [c \in Clients |-> FALSE]
  /\ sub = [c \in Clients |-> 0]
  /\ tasks = [c \in Clients |-> {}]
  /\ manager = [c \in Clients |-> 0]
  /\ service = [c \in Clients |-> 0]
  /\ weak = [c \in Clients |-> FALSE]
  /\ api = [c \in Clients |-> "idle"]
  /\ command_handlers = [c \in Clients |-> FALSE]
  /\ linked = [c \in Clients |-> {}]
  /\ mourned = [c \in Clients |-> {}]

\* The process runs its message loop: no synchronous call blocks it.
InLoop(c) == running[c] /\ api[c] = "idle"

\* The binder of c's current instance.
Self(c) == <<c, sub[c]>>

\* The ServiceImpl of c is destroyed; what replaces it has posted the tasks ts.
NewInstance(c, ts) ==
  /\ tasks' = [tasks EXCEPT ![c] = ts]
  /\ manager' = [manager EXCEPT ![c] = 0]
  /\ service' = [service EXCEPT ![c] = 0]
  /\ weak' = [weak EXCEPT ![c] = FALSE]
  /\ command_handlers' = [command_handlers EXCEPT ![c] = FALSE]

\* Service::Connect.
Connect(c) ==
  /\ InLoop(c) /\ ~subscribed[c]
  /\ sub[c] < MaxSubscriptions
  /\ subscribed' = [subscribed EXCEPT ![c] = TRUE]
  /\ sub' = [sub EXCEPT ![c] = @ + 1]
  /\ NewInstance(c, {"TryConnecting"})
  /\ nodes' = nodes \cup {<<c, sub[c] + 1>>}
  /\ UNCHANGED <<incarnation, weavedUp, registry, calls, callbacks,
                 running, api, linked, mourned, deviceTreeVars>>

\* The user destroys the Subscription: ~ServiceSubscription, ~ServiceImpl.
\* Nothing tells weaved; the death recipient stays, its callback is void.
DestroySubscription(c) ==
  /\ InLoop(c) /\ subscribed[c]
  /\ subscribed' = [subscribed EXCEPT ![c] = FALSE]
  /\ NewInstance(c, {})
  /\ UNCHANGED <<binderVars, running, sub, api, linked, mourned,
                 deviceTreeVars>>

\* A TryConnecting that gives up when it cannot link to the binder's death.
GiveUpOnDead(c) ==
  /\ InLoop(c) /\ "TryConnecting" \in tasks[c]
  /\ registry \in mourned[c]
  /\ tasks' = [tasks EXCEPT ![c] = @ \ {"TryConnecting"}]
  /\ UNCHANGED <<binderVars, running, subscribed, sub, manager, service, weak,
                 command_handlers, api, linked, mourned, deviceTreeVars>>

\* ServiceImpl::OnWeaveServiceDisconnected, when the binder found cannot be
\* linked to: this process already received its obituary.
TryConnectingToDead(c) ==
  /\ InLoop(c) /\ "TryConnecting" \in tasks[c]
  /\ registry \in mourned[c]
  /\ tasks' = [tasks EXCEPT ![c] = (@ \ {"TryConnecting"}) \cup {"Reconnect"}]
  /\ UNCHANGED <<binderVars, running, subscribed, sub, manager, service, weak,
                 command_handlers, api, linked, mourned, deviceTreeVars>>

\* A TryConnecting that forgets to watch weaved for its death.
TryConnectingUnlinked(c) ==
  /\ InLoop(c) /\ "TryConnecting" \in tasks[c]
  /\ registry # 0 /\ registry \notin mourned[c]
  /\ tasks' = [tasks EXCEPT ![c] = @ \ {"TryConnecting"}]
  /\ manager' = [manager EXCEPT ![c] = registry]
  /\ calls' = Sent([op : {"connect", "registerNotificationListener"},
                    from : {Self(c)}], registry)
  /\ UNCHANGED <<incarnation, weavedUp, registry, callbacks, nodes, running,
                 subscribed, sub, service, weak, command_handlers, api,
                 linked, mourned, deviceTreeVars>>

\* ServiceImpl::TryConnecting, past its early returns.  With no service to be
\* found it posts itself again a second later, which changes no state here.
TryConnecting(c) ==
  /\ InLoop(c) /\ "TryConnecting" \in tasks[c]
  /\ registry # 0 /\ registry \notin mourned[c]
  /\ tasks' = [tasks EXCEPT ![c] = @ \ {"TryConnecting"}]
  /\ linked' = [linked EXCEPT ![c] = @ \cup {registry}]
  /\ manager' = [manager EXCEPT ![c] = registry]
  /\ calls' = Sent([op : {"connect", "registerNotificationListener"},
                    from : {Self(c)}], registry)
  /\ UNCHANGED <<incarnation, weavedUp, registry, callbacks, nodes, running,
                 subscribed, sub, service, weak, command_handlers, api,
                 mourned, deviceTreeVars>>

\* The obituary of incarnation i: ServiceImpl::OnWeaveServiceDisconnected of
\* the instance that linked to i, void if that instance is gone.
OnWeaveServiceDisconnected(c, i) ==
  /\ InLoop(c) /\ i \in linked[c] /\ ~Alive(i)
  /\ linked' = [linked EXCEPT ![c] = @ \ {i}]
  /\ mourned' = [mourned EXCEPT ![c] = @ \cup {i}]
  /\ tasks' = IF manager[c] = i
              THEN [tasks EXCEPT ![c] = @ \cup {"Reconnect"}]
              ELSE tasks
  /\ UNCHANGED <<binderVars, running, subscribed, sub, manager, service, weak,
                 command_handlers, api, deviceTreeVars>>

\* A reconnection that keeps the instance instead of replacing it: the weak
\* pointers handed out before stay valid.
ReconnectInPlace(c) ==
  /\ InLoop(c) /\ "Reconnect" \in tasks[c]
  /\ tasks' = [tasks EXCEPT ![c] = {"TryConnecting"}]
  /\ manager' = [manager EXCEPT ![c] = 0]
  /\ service' = [service EXCEPT ![c] = 0]
  /\ UNCHANGED <<binderVars, running, subscribed, sub, weak, command_handlers,
                 api, linked, mourned, deviceTreeVars>>

\* ServiceImpl::ReconnectOnServiceDisconnection.
Reconnect(c) ==
  /\ InLoop(c) /\ "Reconnect" \in tasks[c]
  /\ NewInstance(c, {"TryConnecting"})
  /\ UNCHANGED <<binderVars, running, subscribed, sub, api, linked, mourned,
                 deviceTreeVars>>

\* A WeaveClient that reaches whatever instance its process has now.
InstanceOfProcess(c, m) == subscribed[c] /\ m.to[1] = c

\* The WeaveClient's weak_ptr<ServiceImpl> locks: its instance still exists.
InstanceOf(c, m) == subscribed[c] /\ m.to = Self(c) /\ m.from = manager[c]

\* WeaveClient::onServiceConnected; the user's connection callback starts.
OnServiceConnected(c, m) ==
  /\ InLoop(c) /\ m \in callbacks
  /\ m.op = "onServiceConnected" /\ m.to[1] = c
  /\ callbacks' = callbacks \ {m}
  /\ IF InstanceOf(c, m)
     THEN /\ service' = [service EXCEPT ![c] = m.from]
          /\ weak' = [weak EXCEPT ![c] = TRUE]
          /\ api' = [api EXCEPT ![c] = "AddComponent"]
     ELSE UNCHANGED <<service, weak, api>>
  /\ UNCHANGED <<incarnation, weavedUp, registry, calls, nodes, running,
                 subscribed, sub, tasks, manager, command_handlers, linked,
                 mourned, deviceTreeVars>>

\* WeaveClient::onCommand: the user's handler runs, the command is dropped
\* as unexpected, or it is aborted because the instance is gone.
OnCommand(c, m) ==
  /\ InLoop(c) /\ m \in callbacks
  /\ m.op = "onCommand" /\ m.to[1] = c
  /\ callbacks' = callbacks \ {m}
  /\ UNCHANGED <<incarnation, weavedUp, registry, calls, nodes, clientVars,
                 deviceTreeVars>>

\* BinderWeaveService::addComponent: a component is in the tree once.
addComponent(c) == components' = components \cup {c}

\* ServiceImpl::AddComponent, a synchronous call: an error when weaved died or
\* already has the component, and the callback goes on.
AddComponent(c) ==
  /\ running[c] /\ api[c] = "AddComponent"
  /\ api' = [api EXCEPT ![c] = "AddCommandHandler"]
  /\ IF Alive(service[c]) THEN addComponent(c) ELSE UNCHANGED components
  /\ UNCHANGED <<binderVars, running, subscribed, sub, instanceVars, linked,
                 mourned, handlers>>

\* The process of c ends, as `how' says: its binders die with it.
Exit(c, how) ==
  /\ running' = [running EXCEPT ![c] = FALSE]
  /\ subscribed' = [subscribed EXCEPT ![c] = FALSE]
  /\ NewInstance(c, {})
  /\ api' = [api EXCEPT ![c] = how]
  /\ linked' = [linked EXCEPT ![c] = {}]
  /\ mourned' = [mourned EXCEPT ![c] = {}]
  /\ nodes' = nodes \ BindersOf(c)
  /\ callbacks' = {m \in callbacks : m.to[1] # c}
  /\ UNCHANGED <<incarnation, weavedUp, registry, calls, sub, deviceTreeVars>>

\* BinderWeaveService::registerCommandHandler: the latest registration wins.
registerCommandHandler(c) == handlers' = [handlers EXCEPT ![c] = sub[c]]

\* ServiceImpl::AddCommandHandler, a synchronous call.
AddCommandHandler(c) ==
  /\ running[c] /\ api[c] = "AddCommandHandler"
  /\ Alive(service[c])
  /\ command_handlers' = [command_handlers EXCEPT ![c] = TRUE]
  /\ registerCommandHandler(c)
  /\ api' = [api EXCEPT ![c] = "idle"]
  /\ UNCHANGED <<binderVars, running, subscribed, sub, tasks, manager, service,
                 weak, linked, mourned, components>>

\* The CHECK in AddCommandHandler: the call failed, the client aborts.
AddCommandHandlerFails(c) ==
  /\ running[c] /\ api[c] = "AddCommandHandler"
  /\ ~Alive(service[c])
  /\ Exit(c, "aborted")

\* A client process dies, and is started again.
Crash(c) ==
  /\ running[c] /\ sub[c] > 0
  /\ Exit(c, "idle")

StartClient(c) ==
  /\ ~running[c]
  /\ running' = [running EXCEPT ![c] = TRUE]
  /\ api' = [api EXCEPT ![c] = "idle"]
  /\ UNCHANGED <<binderVars, subscribed, sub, instanceVars, linked, mourned,
                 deviceTreeVars>>

\* What the client process does by itself once it is subscribed.
ClientStep(c) ==
  \/ TryConnecting(c)
  \/ TryConnectingToDead(c)
  \/ \E i \in Incarnations : OnWeaveServiceDisconnected(c, i)
  \/ Reconnect(c)
  \/ \E m \in callbacks : OnServiceConnected(c, m)
  \/ \E m \in callbacks : OnCommand(c, m)
  \/ AddComponent(c)
  \/ AddCommandHandler(c)
  \/ AddCommandHandlerFails(c)

\* What its user, or the system, does to it.
UserStep(c) ==
  \/ Connect(c)
  \/ DestroySubscription(c)
  \/ Crash(c)
  \/ StartClient(c)

=============================================================================
