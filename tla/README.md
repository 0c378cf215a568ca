# A TLA+ development of weaved and libweaved

This directory holds a formal model of the Weave daemon (`weaved`, the sources in
`src/buffet`) and of the library other daemons link to reach it (`libweaved`,
`src/libweaved`). The model is TLA+; small instances are checked by TLC, and the main
safety results are proved for every instance with TLAPS. Line numbers below are those of
the repository.

## 1. The system

`weaved` runs libweave's device on one message loop. Other processes link `libweaved`,
hold a *subscription* to weaved and, through it, add components to the device, handle
commands and read or watch the device's settings. The processes talk over Android binder;
weaved itself talks D-Bus to shill, apmanager, webservd and Avahi.

### Inventory

| Component | State it keeps | Operations | Talks to |
|---|---|---|---|
| **libweaved connection** (`libweaved/service.cc`) | the `Subscription` and the `ServiceImpl` it owns: `weave_service_manager_`, `weave_service_`, `command_handlers_`; tasks on the loop; the user's `weak_ptr` | `Connect`, `TryConnecting`, `OnServiceConnected`, `OnCommand`, `OnWeaveServiceDisconnected`, `ReconnectOnServiceDisconnection`, `AddComponent`, `AddCommandHandler`, `SetStateProperties`, `OnNotification` | Manager and BinderWeaveService by binder |
| **Manager** (`buffet/manager.cc`) | `device_`, `pending_clients_`, `services_`, `notification_listeners_`, the cached settings and pairing values | `Start`, `RestartWeave`, `CreateDevice`, `connect`, `registerNotificationListener`, `OnClientDisconnected`, `OnNotificationListenerDestroyed`, `OnPairingStart/End`, `OnConfigChanged`, getters | clients, libweave, WebServClient |
| **BinderWeaveService** (`buffet/binder_weave_service.cc`) | `components_`, the client's binder | `addComponent`, `registerCommandHandler`, `updateState`, `OnCommand`, destructor | libweave's device |
| **Command, BinderCommandProxy** (`libweaved/command.cc`, `buffet/binder_command_proxy.cc`) | a weak pointer to libweave's command | accessors, `setProgress`, `complete`, `abort`, `cancel`, `pause`, `setError` | each other by binder |
| **ShillClient** (`buffet/shill_client.cc`) | `devices_`, `connectivity_state_`, the attempt (`connecting_service_`, `connect_done_callback_`, `have_called_connect_`, `connecting_service_error_`), listeners | `Connect`, the one-minute timer, property handlers of shill's Manager, Devices and Services, `OnShillServiceOwnerChange` | shill, libweave |
| **ApManagerClient** (`buffet/ap_manager_client.cc`) | `object_manager_proxy_`, `manager_proxy_`, `service_path_`, `service_proxy_`, `ssid_` | `Start`, `Stop`, `OnManagerAdded`, `OnServiceAdded/Removed`, `OnManagerRemoved` | apmanager, ShillClient |
| **AvahiMdnsClient** (`buffet/avahi_mdns_client.cc`) | `group_`, `prev_service_type_`, `txt_records_`, Avahi's thread | `PublishService`, `StopPublishing`, `RepublishService` | Avahi |
| **WebServClient** (`buffet/webserv_client.cc`) | ports, request handlers | `OnProtocolHandlerConnected/Disconnected` | webservd, Manager |
| **BuffetConfig** (`buffet/buffet_config.cc`) | the settings files | `LoadDefaults`, `LoadSettings`, `SaveSettings` | the encryptor, the file system |
| HttpTransportClient, SocketStream, encryptors, Bluetooth, mDNS stubs, conversions | none, or a stream's buffers | pass-through | brillo |

### What is hard in it

* Two processes, both of which may die at any moment, each with one message loop, and
  *oneway* calls between them: `connect`, `registerNotificationListener`,
  `onServiceConnected`, `onCommand` and `notifyServiceManagerChange` are oneway in
  `src/brillo/android/weave/*.aidl`; `addComponent`, `registerCommandHandler`,
  `updateState` and the calls of `IWeaveCommand` block the caller.
* A client learns of a death from an obituary that comes late, and the service manager
  may still return a dead binder in between.
* weaved takes clients before its device exists and serves them when it is created.
* ShillClient answers a request from any of seven handlers, the timers of older
  attempts still pending, and shares service paths between devices and the attempt.
* Settings are written through a step that can fail and are reported from the loop.
* apmanager announces its objects in signals that may be of an older proxy, and may fail,
  leave and come back between any two of them.
* Avahi republishes from a thread of its own, on the members libweave's calls work on.

`PROJECT.json` lists every hazard at its line, with the properties that cover it or the
reason none does yet.

### What makes each component correct

* *Connection*: no connect is lost or served twice; an instance always has something to
  wake it up; a weak pointer that locks has a service behind it; commands find their
  handler; a lost connection is re-established; dead clients are forgotten; their
  components are removed.
* *ShillClient*: the connectivity state is the best of the selected services and is
  announced; a callback runs at most once; a timer ends its own attempt only; no attempt
  blocks the next for ever; an error is that of the attempt it is given for.
* *BuffetConfig*: what was reported stored stays stored; a name loads its own text.
* *Pairing*: weaved exposes the latest session until it ends; a listener loses no change
  and is never given parts of two sessions.
* *Command*: the handler and the cloud agree on what became of a command, and a handler
  that was given no parameters cannot report a result.
* *ApManagerClient*: nothing it made is left in apmanager after `Stop`, the services of
  others go, the access point runs under the SSID it was given, and a service path and
  proxy are kept only with the manager that made the service.
* *AvahiMdnsClient*: what is published is what was asked for last, and none of its
  `CHECK`s fails.
* *WebServClient*: the device is created in the end, and once.

## 2. The modules

| Module | What it is |
|---|---|
| `WeaveBinder` | the platform (external): processes, the service manager's entry, calls in flight, binder nodes |
| `LibWeaved` | the client side: `service.cc`, one action per task, callback or synchronous call |
| `Manager` | weaved's side: its process, `manager.cc`, `binder_weave_service.cc` |
| `WebServClient` | the ports webservd gives and takes back, which `Manager` waits for |
| `WeaveConnection` | both sides composed, fairness, the properties |
| `WeaveService` | the abstract contract of `Service::Connect`, which `WeaveConnection` implements |
| `ListenerLink` | what a notification listener may rely on: `WeaveConnection` implements it for each client, `Pairing` builds on it |
| `ShillClient` | the network provider |
| `NetworkConnect` | the abstract `weave::provider::Network::Connect`, which `ShillClient` implements |
| `BuffetConfig` | the settings store |
| `Pairing` | pairing values, their notifications and a listener's copy of them |
| `Command` | commands in the hands of their handlers |
| `CommandOutcome` | what a handler may rely on of a command's outcome, which `Command` implements |
| `ApManagerClient` | the access point of WiFi bootstrapping, against apmanager |
| `AvahiMdnsClient` | the mDNS publisher and its two threads |
| `MCWeaveConnection`, `MCShillClient`, `MCBuffetConfig`, `MCPairing`, `MCCommand`, `MCApManagerClient`, `MCAvahiMdnsClient` | instances for TLC |
| `WeaveConnectionProofs`, `ShillClientProofs`, `BuffetConfigProofs`, `PairingProofs`, `CommandProofs`, `ApManagerClientProofs`, `AvahiMdnsClientProofs` | theorems and proofs |

### Connection (`WeaveBinder`, `LibWeaved`, `Manager`, `WeaveConnection`)

*State.* A start of the weaved process is an *incarnation*. The values `manager[c]` and
`service[c]` are the incarnations behind `weave_service_manager_` and `weave_service_`,
0 for null. A client's `n`-th subscription has the binder `<<c, n>>`: its `WeaveClient`
and its `NotificationListener`. `tasks[c]` are the tasks its current `ServiceImpl`
posted; destroying the instance voids them, as the weak pointers in the code do.
`api[c]` is the synchronous call in which the process is blocked; while it is not
`"idle"` the process handles nothing else. `linked[c]` and `mourned[c]` stand for
`BinderWrapper`'s death links. On weaved's side the variables carry the names of the
members of `Manager`; `components` and `handlers` are the part of libweave's device that
the clients fill.

*Actions.* Each handler is one action and makes every call the handler makes:
`TryConnecting` links to the death of the binder found, keeps it and sends `connect` and
`registerNotificationListener`; `CreateDevice` serves all pending clients in the same
step, which is the one in which webservd connects a handler and the server has its HTTPS
port (`OnProtocolHandlerConnected`; the code tests that port twice and never the other);
a definition that does not load, and `getTraits` of a device that is not there yet, end
the process (`LoadDefinitionsFails`, `GetTraitsOfNoDevice`); `WeavedStart` is `main`,
`Manager::Start` and `RestartWeave` together, with
`CreateDevice` when no HTTP server is awaited (`PrivetEnabled = FALSE`). The user's
connection callback is the one of `src/libweaved/README.md`: `AddComponent`, then
`AddCommandHandler`. As both block on weaved, each is an action of its own and weaved may
die before, between and after them. Processes crash and restart at any time.

*The library.* What is not in `src/` is modelled from how the code uses it, and marked
external in `PROJECT.json`: the service manager may return the binder of a dead weaved
until it is told (`ServiceManagerForgets`); linking to the death of a binder fails only
when this process already received its obituary; oneway calls of one sender to one node
arrive in order; a call to a dead node is dropped; libweave keeps one handler per command
and the latest registration wins.

*Bounds.* `MaxStarts` (incarnations) and `MaxSubscriptions` (calls of `Connect` by one
client). Sets of messages, not sequences, are in flight: a binder sends one `connect` per
incarnation, and commands to one binder are not told apart.

### ShillClient

A handler is one action; shill is free to send any signal with any value, in any order,
while a handler is registered, and any read may fail. `devices`, `selected` and
`service_state` are `devices_` and the two fields of `DeviceState` the state depends on;
`handled` are the service paths whose signals reach `OnServicePropertyChange`. A request
is identified by a value of `Requests`, so that the model can tell whose callback runs
(`connect_done_callback`), whose error is kept (`connecting_service_error`) and whose timer
fires (`timers`): the code compares the `ServiceProxy` pointer captured at `Connect`,
which the request stands for. `CleanupConnectingService` releases the object proxy, which
detaches the path's signal handlers. The failure branches that `CHECK` end the process and
are left out; so is `Init`'s first run, equal to an owner change.
`MaxPosted` bounds the notifications waiting in the loop; `Requests` bounds the calls of
`Connect`.

### BuffetConfig

Encryption is a pair `Sealed(text)`; decryption gives back the text, or fails. A text that
cannot be encrypted clears the file, and either failure is reported to the callback from
the loop. `latest`, `given` and `stored` are the caller's account: what it saved and what
it was told. A callback whose save is not the last of its name changes nothing for a
caller that saved again. `MaxSaves` bounds the calls.

### Pairing

`pairing` holds the three members of `Manager` that `OnPairingStart` overwrites and
`OnPairingEnd` clears; `UpdateValue` gives the ids that go into the notification.
`OnNotification` takes a notification from the queue (oneway, in order) and `ReadValue`
is one of its synchronous calls; the last one also runs the callback, as nothing of the
client's own can come in between. `OnOtherChanged` stands for the notifications of traits,
components, state and settings, which take their place in the queue and make the handler
read nothing of pairing; one of them at most waits at a time. weaved goes on between the calls, and they fail once it
has died. `copy` is `pairing_info_`; `told` is what the callback was last given. How the
connection comes about is the connection's matter: each step of `link` is one of
`ListenerLink`, of which every step is possible here, and which `WeaveConnection` is shown to
implement for each client, so what `Pairing` assumes of the connection is what the other
module guarantees. `Leave` replaces the instance (or ends its process), at any moment and in
the middle of an `OnNotification` too, and with it go the copy and the callback. Weaved notifies
each listener as if it were alone, so one is modelled. libweave is external: it may run
sessions that overlap, each with an id of its own; the comment in `OnPairingStart` says
that the latest overwrites the others. `base`, `latest` and `started` are there for the
properties only.

### Command

`state` is libweave's command, `"none"` when the weak pointer of its `BinderCommandProxy`
no longer locks; `held` and `parameter_cache` are the `Command` object of the handler. A
method is three steps: `Call` in the client, then one of the proxy's answers
(`ReportDestroyed`, `Update`, `Read`), then `Return`, which fills the cache. `Wanted` says
what each getter asks for: `GetName` and `GetComponent` ask for the id, and `GetOrigin` for
the state, as the code does. The client's
one loop makes one call at a time, so `Call` waits for `Idle`. libweave is external: a
terminal state is never left (`command.h` calls them terminal), a command may be
finished for the cloud or destroyed at any time, and a call may be refused for its
arguments. `WeavedStop` may cut off a call before its execution, after it or after the
reply; `cut` remembers the commands. `outcome`, `finisher` and `told` are the accounts of the
cloud and of the handler. Each of `Commands` is given to libweave once, so a command the
cloud sends again is another one.

### ApManagerClient

A handler with its blocking calls is one action; each of the calls may fail, and
`CreateService` may have made the service all the same (`foreign`, then). `known` are the
services the current `object_manager_proxy` has announced, `replies` the answers to
`set_ssid` under way. `Start` replaces the proxy without resetting `manager_proxy_`, which
is then `"freed"` until the manager is announced again; a service announced by a signal
under way (`inflight`) may come before that. `RemoveService` through a null or freed
manager is undefined, and one of the outcomes is the end of weaved (`WeavedRestarts`).
apmanager is external: it numbers its services and never uses a path again, it may drop a
service, serve another client, leave and return, and D-Bus keeps the order of its messages:
the answer to a `set_ssid` comes before what apmanager says of a later `CreateService`
(`AnswersCameFirst`), while a stranger's service may be announced at any time.
`ProxiesAreLive` is about what the client keeps while it has a service path. It allows a freed
`manager_proxy` without one, and what `OnServiceAdded` may then do with it is a hazard of its
own that no property excludes.
`foreign` and `stuck` are the accounts the properties need: services nobody told the client
of, and those a call failed to remove. `MaxServices` bounds the services made.

### AvahiMdnsClient

A step of a thread is one call into Avahi or a run of reads or of writes of the members,
so the two threads meet between any two of them. `pc` and `call` are where a thread is and
what it publishes; a `CHECK` that fails sends it to `"aborted"`, where the process rests.
The entry group is external: adding needs an empty group, an update needs a service in it,
and a group is committed once. `asked` is what libweave wants published, and `overlapped`
says that the two threads have been at it at the same time.

### The abstract specifications

*WeaveService.* A subscription holds at most one connection, to one incarnation of weaved;
it is given up only when the incarnation is gone or the subscription is (`Lose`,
`Release`); and a lost one is given up in the end (fairness of `Lose`). The refinement
mapping of `WeaveConnection!Contract` is
`epoch <- incarnation, up <- weavedUp, held <- subscribed, conn <- service`.

*ListenerLink.* A listener is `"none"`, `"calling"`, `"registered"` or `"lost"`; it becomes
`"lost"` when the weaved it found dies, and otherwise leaves a stage only forward or by its
own `Leave`. `WeaveConnection!LinkOf(c)` derives the stage from `manager[c]`, the calls in
flight and `notification_listeners`. It has a fifth value, `"forgotten"`, for a live manager
that neither has the listener nor will get it: reaching it is what the refinement excludes.
Several clients may step at once (one death of weaved loses all of them), so
`ImplementsLink` asks that each client's step is one of its own link.

*NetworkConnect.* One attempt at a time; a call made meanwhile is declined; a callback is
run from a later step, once at most, and with an answer of its own kind. An attempt may be
dropped unanswered, as a reset of shill does. `ShillClient!Provider` maps `trying` to
`{connecting} \ {None}`, `declined` to the posted replies and `answer` to `outcome`.

*CommandOutcome.* The outcome of a command is decided once; a handler is told of no other;
and the call that decided it does not return before it has said so, unless weaved dies under
it. `Command!Promise` derives `busy` from `calling`, and `owed` as the commands the handler
finished, has not been told of and did not lose to `cut`.

## 3. The runs

Every pass run finishes in about two minutes at most, with two workers.

| Run | Instance | States | What it shows |
|---|---|---|---|
| `connection` | one client, 2 subscriptions, 3 incarnations, webservd awaited | 55 277 | all safety properties, reconnection, forgetting the dead, the contract and each client's link |
| `attempts` | 1 device, 1 service, 2 requests, whitelist | 244 072 | replies at most once, timers, an end to each attempt; connectivity follows the device and is announced; `NetworkConnect` is implemented |
| `config` | default and one named settings, 2 values, 3 saves | 55 597 | durability and separation of names |
| `pairing` | 3 sessions, 2 modes, 1 code | 2 144 048 | no change is lost; what a listener that heard everything has told its user |
| `command` | 2 commands | 1 059 558 | what a handler is told is what the cloud sees; `CommandOutcome` is implemented |
| `access_point` | 3 services, 2 SSIDs | 767 258 | what is kept with a service path, the SSID and what is left behind |
| `connection_abort` | as `connection` | violated | see findings |
| `connection_cleanup` | as `connection` | violated | see findings |
| `stale_error` | 1 service, 2 requests | violated | see findings |
| `config_swap` | as `config` | violated | see findings |
| `pairing_torn` | as `pairing` | violated | see findings |
| `mdns_race` | 2 ports, 2 texts | violated | see findings |

*Why the bounds are enough to be worth checking.* Three incarnations allow a message of a
weaved that died to meet the successor of its successor; two subscriptions allow an
obituary and a callback meant for the earlier one to meet the later; a restart of the
process in between is always possible; webservd's handlers come and go in every order, so
the device is created before, between and after connects. The instances of one program
and its restarts are what `pending_clients_` needs to hold more than one entry; that clients
of different programs do not disturb each other is what the theorems show, for any number.
Two requests over one service path are what a stale timer, a
stale error or a shared path needs to hit the wrong attempt, and the device may select the path the attempt uses; the maximum over
several devices is left to the theorem.
Three saves over two names let a save be reported after a later save of the same name and
one of the other. Three pairing sessions let a listener read parts of two while a third is
started or ended; one code shared by all sessions, as with an embedded code, and two modes
make values that change and values that do not. Two commands let the handler turn to one
while the other is finished or dropped. Three services let one be announced late, while
another is the client's own and a third is a stranger's. The theorems remove these bounds for the safety properties.

*Deadlock* is checked in `access_point` only: elsewhere subscriptions, starts, requests and
saves are bounded, and a system whose users ask nothing more may rest; in `mdns_race` a
process that a `CHECK` has ended does.

*Symmetry* is not used: the liveness runs would not be sound under it, and the others do not
need it.

### Fairness

`WeaveConnection!LiveSpec` assumes that message loops and binder threads go on (weak
fairness of every task, callback and incoming call), that obituaries are delivered, that
`init` starts weaved again (`weaved.rc`: the service is not `oneshot`) and that webservd
offers its HTTPS handler, which is when `WebServClient` calls `CreateDevice`; it need not
keep it, and nothing is assumed of the HTTP handler. Nothing is assumed of users,
crashes or commands. `EventuallyConnected` therefore speaks of behaviours in which the
subscription is held and weaved stays up from some time on.
`ShillClient!LiveSpec` assumes only that posted tasks and timers run: `AttemptEnds` is
owed to the one-minute timer, not to shill. `Pairing!LiveSpec` assumes that notifications
are delivered and handled. `WeaveService!LiveSpec` has fairness of `Lose`.

### Findings

1. **A connection lost at the wrong moment ends the client** (`connection_abort`).
   `ServiceImpl::AddCommandHandler` does `CHECK(status.isOk())` (`service.cc:343`), so when
   weaved dies between `onServiceConnected` and the call the user's callback makes, the
   client aborts. `service.h:119-122` promises a reconnection. The run violates
   `LostConnectionIsSurvived`.
2. **Components of dead clients stay** (`connection_cleanup`). The removal in
   `~BinderWeaveService` is commented out (`binder_weave_service.cc:37`), while
   `service.h:38-39` and `service.cc:117-118` promise it.
3. **An error outlives its attempt** (`stale_error`). `CleanupConnectingService`
   (`shill_client.cc:564`) does not reset `connecting_service_error_`; a later attempt that
   times out without an error of its own is told the earlier one's.
4. **Swapped arguments** (`config_swap`). `LoadSettings` calls
   `SaveSettings(std::string(), name, {})` (`buffet_config.cc:181`) for a file it cannot
   decrypt: the *default* settings are overwritten with the *name*, and the bad file stays.
5. **Parts of two sessions** (`pairing_torn`). `OnNotification` (`service.cc:465`) reads
   each value with a call of its own; a session started in between gives the callback the
   id of one session and the mode of another. A later notification corrects it
   (`SettledListenerKnows`), but the user has acted on it.

6. **Two threads publish at once** (`mdns_race`). `RepublishService` runs on Avahi's poll
   thread and calls the same `StopPublishing` and `PublishService` as the main thread, with
   no lock: the group one of them has just reset may have the other's service in it when
   `CHECK(avahi_entry_group_is_empty(group_.get()))` (`avahi_mdns_client.cc:115`) looks at
   it, and weaved ends. `ExactAlone` says that it cannot happen otherwise.

Met while modelling and kept as hazards: a listener registered *during* a session is told
nothing of it, and if the next session has the same mode, that mode is never read and the
user is told `nullptr` at its start; this is why `CopyFollows` and `SettledListenerKnows`
speak of `base`. `GetState` says `kQueued` when its call fails, so a handler that polls a
finished command sees it queued again once libweave has dropped it; `GetOrigin` calls
`getState`, and `GetName` and `GetComponent` call `getId` (`command.cc:71`, `:79`, `:112`). The device is created without an HTTP port
(`webserv_client.cc:160`). A second `Start` of the access point leaves `manager_proxy_` to a
proxy that is gone (`ap_manager_client.cc:37`), and a restart of apmanager leaves no access
point at all (`:117`).

## 4. The proofs

TLAPS proves the following, for every value of the constants that satisfies the named
assumptions (`BoundsAssumption`, `PrivetAssumption`, `ShillAssumption`,
`ConfigAssumption`, `PairingAssumption`, `ApAssumption`; all of them say only what kind of value a constant is).

| Module | Theorem | Property |
|---|---|---|
| `WeaveConnectionProofs` | `TypeCorrect` | `TypeOK` |
| | `ConnectsAreNotLost` | `NoLostConnect` |
| | `NobodyIsStranded` | `NeverStranded` |
| | `LockedServicesHaveBinders` | `LockedServiceHasBinder` |
| | `CommandsAreRouted` | `RoutedCommandFindsHandler` |
| | `RegisteredInstancesAreKnown` | `RegisteredWithWeaved` |
| | `ContractIsImplemented` | `Contract!Spec`: every step is one of the contract or a stutter |
| | `LinkIsImplemented` | `ImplementsLink` |
| | `TheDeadAreHeardOf` | the safety half of `DeadClientsForgotten` |
| `ShillClientProofs` | `TypeCorrect` | `TypeOK` |
| | `CallbackRunsOnce` | `RepliesAtMostOnce` |
| | `TimersEndOwnAttempts` | `TimerEndsOwnAttempt` (an action property) |
| | `ConnectivityFollowed` | `ConnectivityIsHighest` |
| | `ConnectivityAnnounced` | `ConnectivityIsAnnounced` |
| | `ConnectIsImplemented` | `ImplementsConnect` |
| | `AttemptsAreTimed` | the safety half of `AttemptEnds` |
| `PairingProofs` | `TypeCorrect` | `TypeOK` |
| | `LatestIsShown` | `ShownIsLatestOpen` |
| | `CopiesFollow` | `CopyFollows` |
| | `SettledListenersKnow` | `SettledListenerKnows` |
| `CommandProofs` | `TypeCorrect` | `TypeOK` |
| | `HandlersAreToldTheTruth` | `ToldIsTrue` |
| | `FinishersKnow` | `FinisherKnows` |
| | `EmptyParametersAreHarmless` | `EmptyParametersReportNothing` |
| | `PromiseIsKept` | `ImplementsPromise` |
| `BuffetConfigProofs` | `TypeCorrect` | `TypeOK` |
| | `ReportsAreDurable` | `ReportedIsDurable` |
| | `NamesLoadTheirOwn` | `NamedLoadsItsOwn` |
| `ApManagerClientProofs` | `TypeCorrect` | `TypeOK` |
| | `PointersAreSafe` | `ProxiesAreLive` |
| | `SsidIsTheOneGiven` | `RunsUnderItsSsid` |
| | `NothingOutlivesStop` | `NothingIsLeft` |
| | `OthersGo` | `OthersAreRemoved` |
| `AvahiMdnsClientProofs` | `TypeCorrect` | `TypeOK` |
| | `ExactAlone` | `AloneIsExact` |

**Connection.** None of the invariants is inductive: whether a connect can be lost depends on
which obituaries are still to come, and whether a command finds a handler depends on which
messages of dead incarnations are still in flight. `Inv` has four parts:

* `Instance(c)`, what a client's process knows by itself: an instance has a task, or a
  manager whose death it is linked to; one that is about to reconnect has mourned its
  manager; `service` is null or equals `manager`.
* `History`, for every client `Past(c)`: nothing refers to an incarnation that has not
  started; whatever is mourned is dead; a weaved that is down has no calls and no pending
  clients.
* `Unused(c)`: a binder no subscription has yet is in no message and no table.
* `Flight(c)` and `Routed(c)`, for a subscription that is held: its connect is in exactly
  one stage, an answer or a command in flight comes from its own manager or a mourned
  incarnation, and weaved's tables name it once it has registered.

Each part is shown preserved separately, from the same parts of the earlier state
(`NextInstance`, `NextHistory`, `NextUnused`, `NextFlight`); frame lemmas say that a
client's step changes nothing of weaved or of another client, so each proof looks at the
client that moves and at weaved's own steps. `Inv` was checked by TLC on the `connection`
instance before it was proved. The refinement of the contract follows from `Instance` and `History`: the
only steps that give a service up are `Reconnect`, whose incarnation is mourned and hence
gone, and the end of the subscription or process.

The refinement of `ListenerLink` needs more: none of these parts says where the listener's
registration is. `Listening` does. While weaved is up the service manager's entry is the
running incarnation; the registration of a held subscription is on its way or in
`notification_listeners` exactly if its manager is alive, and then the manager is the
running one; a binder no subscription has yet is in neither place. The last part is what
keeps a registration from being taken away by the obituary of an earlier subscription of the
same client. `Listening` is inductive together with `TypeOK` and `Inv`, and `LinkOf(c)` is
never `"forgotten"` by its third part.

`DeadClientsForgotten` is a liveness property, but all of it that is not fairness is
proved: a binder in `services` or `notification_listeners` has its death watched
(`Watching`), and one that is dead stays dead until it is removed (`DeadStayDead`, an action
property), because subscriptions make new binders only. The obituary's handler is therefore
enabled from the death on, and its weak fairness does the rest.

**ShillClient.** `ReplyInv` accounts for each request: it is not issued, under way, in a
posted callback, or answered. The action property follows from it, because a timer that
fires answers only the request that is `connecting`. The connectivity invariant needs
that the entries of devices not followed are offline (`IdleDevicesOffline`). `ReplyInv` is
all the refinement of `NetworkConnect` needs: an attempt that ends answers the request that
is `connecting`, with an answer for attempts, and a posted refusal is of a request that has
not been answered. `AttemptsAreTimed` is the safety half of `AttemptEnds`: the attempt under
way has its timer still to come, and when that runs there is no attempt of that request any
more, so that the fairness of the timer is enough.

**BuffetConfig.** A report in flight for the last save of a name is true of the file
(`ReportsAreTrue`), and named files hold their own texts (`FilesAreOwn`); both need that a
load touches no named file, which is what the swapped arguments leave true.

**Pairing.** `ShownIsLatestOpen` is inductive. What a listener knows is not: its copy may
be of several sessions while notifications are on their way. `KnowInv` says, value by
value, that what differs from weaved's is still to be read (`Pending`: in the handler's
remaining ids or in a queued notification) or has not changed since the registration, and
that the callback was last given the copy unless a handler has just changed it. When
nothing is pending the copy is weaved's.

**Command.** What the handler has been told says nothing of the replies on their way, so the
invariant speaks of these too: a reply that tells of an outcome tells of the right one
(`ReplyIsTrue`), an outcome the handler brought about has been told, is in the reply or was
cut off by weaved's death (`FinisherWillKnow`), a command has no outcome before it is in a
terminal state (`OutcomeIsFinal`), and one that was never given has left no trace
(`NotGivenNotSeen`). For the refinement of `CommandOutcome` it also matters that a call
weaved's death has cut off excuses nothing later: a command in `cut` has been given and is
libweave's no longer (`CutIsGone`), so no later step can decide it or owe an answer for it.

**ApManagerClient.** Which service an answer to `set_ssid` is for decides whether a start is
harmless, so the invariant speaks of the answers under way (`Answers`): one is of a service
made earlier, of the client's own one only once that has been announced, and if it succeeded
while a service proxy is held it is that proxy's and set the SSID the client has.
`Pointers` strengthens `ProxiesAreLive` by the paths that exist and by the SSID, which is
there whenever the proxy is.

**AvahiMdnsClient.** `Inv` says, for every place in a call that is alone (`At`), how the members,
the group and what was asked for are related, and that they agree at rest (`AtRest`); it
says nothing once the two threads have met. There is no passing run of this module: its
theorem covers the calls that do not meet, and the run `mdns_race` shows what happens when
they do.

**Only model-checked.** Liveness under fairness (`EventuallyConnected`,
`DeadClientsForgotten`, `AttemptEnds`, `EventuallyKnows`, the fairness half of `ImplementsContract`) is beyond
the proof system, and the six violated properties are false.

## 5. What is not modelled, and why

* `SetStateProperties`/`updateState` pass a document on to libweave and keep no state. Their
  `CHECK(weave_service_.get())` is what `LockedServiceHasBinder` is about.
* The settings and the state that `IWeaveServiceManager`'s other accessors return are copies
  of values, kept the way the pairing values are; `OnRebootDevice` completes its command and
  posts a task, and is listed as a hazard.
* Requests of WebServClient, HttpTransportClient, SocketStream, OpenSslSocket: adapters whose
  only state is a stream's.
* `BuffetConfig::LoadDefaults` copies keys into a structure. The encryptors: each call may fail
  in `BuffetConfig`.
* Bluetooth and mDNS stubs do nothing. Conversions have no state; the one a property needs
  (`ShillServiceStateToNetworkState`) is in `ShillClient`.
* Callbacks that call back into ShillClient: a request starts in a step of its own.
* In AvahiMdnsClient, a call of Avahi that fails because avahi-daemon has just died: its
  `CHECK_GE`s then end weaved whoever published. The members are taken to be read and written
  whole; a torn read of a string is undefined and would add outcomes to a race that is a
  fault already.
* A call on a live weaved that the binder driver refuses, or parameters that `ParseDictionary`
  cannot read although libweave wrote them: `GetParameters` would cache an empty dictionary for
  a command that can still be reported on (`command.cc:125-127`), and
  `EmptyParametersReportNothing` speaks of neither.
* A service without a config proxy (`ap_manager_client.cc:90-92`) ends weaved by a null pointer,
  which is `WeavedRestarts`.
* In ShillClient, the pending signal registrations of one path are kept as one.
* `~ApManagerClient` and `~AvahiMdnsClient`: they go with the process.

## 6. Plan

Done, in this order: the connection and its contract; ShillClient; BuffetConfig; Pairing;
Command; ApManagerClient; AvahiMdnsClient; WebServClient's ports; their proofs; the outcome
of a command, an attempt to connect and the link of a listener as specifications of their
own, each implemented by its component and proved so, the last one shared by `Pairing`.
What could follow:

1. An abstract specification of a pairing listener, which `Pairing` implements up to the torn
   information, and Pairing over several listeners.
2. A passing run of AvahiMdnsClient with the main thread's calls made only while Avahi's thread
   rests, to have `AloneIsExact` checked as well as proved.
3. ApManagerClient under ShillClient's `StartAccessPoint`/`StopAccessPoint`, if it says more
   than the parts.
