---------------------------- MODULE ShillClient ----------------------------
(***************************************************************************)
(* weaved's network provider (src/buffet/shill_client.cc): it follows      *)
(* shill's devices and the services they select, derives one connectivity  *)
(* state from them, and carries out one WiFi connection attempt at a time. *)
(*                                                                         *)
(* shill and D-Bus are the environment: any signal for which a handler is  *)
(* registered may come with any value, in any order, and any read may      *)
(* fail.  A handler is one action, as the client has one message loop and  *)
(* its D-Bus calls block.  The CHECKs on a failed registration with        *)
(* shill's Manager or a Device end the process and are left out.           *)
(***************************************************************************)
EXTENDS Integers, FiniteSets

CONSTANTS NumDevices,    \* shill's network devices, numbered in path order
          Services,      \* shill's services (paths)
          Requests,      \* calls to Connect
          HasWhitelist,  \* device_whitelist_ is not empty
          None,          \* no service, no request, no error
          MaxPosted      \* bound on notifications waiting in the loop

ASSUME ShillAssumption ==
  /\ NumDevices \in Nat
  /\ HasWhitelist \in BOOLEAN
  /\ None \notin Services \cup Requests
  /\ MaxPosted \in Nat \ {0}

VARIABLES
  devices,        \* keys of devices_
  selected,       \* their selected_service, None for none
  service_state,  \* their service_state
  connectivity_state,
  notifications,  \* NotifyConnectivityListeners tasks posted
  seen,           \* state the listeners found when they last ran
  device_registrations,   \* signal registrations that have not called back
  service_registrations,
  handled,        \* service paths whose signals reach OnServicePropertyChange
  connecting,     \* the request connecting_service_ was made for, or None
  connecting_path,          \* its path
  connect_done_callback,    \* the request whose callback is kept, or None
  have_called_connect,
  connecting_service_error, \* the request whose service reported it, or None
  timers,         \* requests whose ConnectToServiceError is posted
  posted,         \* <<request, error>> callbacks posted by Connect itself
  issued,         \* requests made so far
  replies,        \* how often each request's callback has run
  outcome         \* what it was last given

trackVars == <<devices, selected, service_state, device_registrations>>
stateVars == <<connectivity_state, notifications, seen>>
attemptVars == <<connecting, connecting_path, connect_done_callback,
                 have_called_connect>>
replyVars == <<replies, outcome>>
vars == <<trackVars, stateVars, service_registrations, handled, attemptVars,
          connecting_service_error, timers, posted, issued, replyVars>>

Devices == 1..NumDevices

\* weave::provider::Network::State, in the order of its enumerators.
Offline == 0
Error == 1
Connecting == 2
Online == 3
States == Offline..Online

RawStates == {"ready", "portal", "online", "association", "configuration",
              "failure", "activation-failure", "idle", "offline",
              "disconnect", "unheard-of"}

\* A conversion that gives states it does not know a value of their own.
UnknownStateApart(raw) ==
  CASE raw \in {"ready", "portal", "online"} -> Online
    [] raw \in {"association", "configuration"} -> Connecting
    [] raw \in {"failure", "activation-failure"} -> Error
    [] raw \in {"idle", "offline", "disconnect"} -> Offline
    [] OTHER -> Offline - 1

\* ShillServiceStateToNetworkState.
ShillServiceStateToNetworkState(raw) ==
  CASE raw \in {"ready", "portal", "online"} -> Online
    [] raw \in {"association", "configuration"} -> Connecting
    [] raw \in {"failure", "activation-failure"} -> Error
    [] OTHER -> Offline

\* What a read or a signal may say of a service: each property is absent, or
\* has a value.  An empty state is ignored wherever it is read.
Properties == [state : RawStates \cup {None}, strength : {None, 0, 1},
               error : {None, "", "reported"}]
Absent == [state |-> None, strength |-> None, error |-> None]
Signals == {p \in Properties : \E f \in DOMAIN p : p = [Absent EXCEPT ![f] = p[f]]}

Outcomes == {"none", "success", "busy", "refused", "out-of-range", "internal"}

TypeOK ==
  /\ devices \subseteq Devices
  /\ selected \in [Devices -> Services \cup {None}]
  /\ service_state \in [Devices -> States]
  /\ connectivity_state \in States
  /\ notifications \in Nat
  /\ seen \in States
  /\ device_registrations \subseteq Devices
  /\ service_registrations \subseteq Services
  /\ handled \subseteq Services
  /\ connecting \in Requests \cup {None}
  /\ connecting_path \in Services \cup {None}
  /\ connect_done_callback \in Requests \cup {None}
  /\ have_called_connect \in BOOLEAN
  /\ connecting_service_error \in Requests \cup {None}
  /\ timers \subseteq Requests
  /\ posted \subseteq Requests \X {"busy", "refused"}
  /\ issued \subseteq Requests
  /\ replies \in [Requests -> Nat]
  /\ outcome \in [Requests -> Outcomes \cup Requests]

Init ==
  /\ devices = {}
  /\ selected = [d \in Devices |-> None]
  /\ service_state = [d \in Devices |-> Offline]
  /\ connectivity_state = Offline
  /\ notifications = 0
  /\ seen = Offline
  /\ device_registrations = {}
  /\ service_registrations = {}
  /\ handled = {}
  /\ connecting = None
  /\ connecting_path = None
  /\ connect_done_callback = None
  /\ have_called_connect = FALSE
  /\ connecting_service_error = None
  /\ timers = {}
  /\ posted = {}
  /\ issued = {}
  /\ replies = [k \in Requests |-> 0]
  /\ outcome = [k \in Requests |-> "none"]

-----------------------------------------------------------------------------
\* An UpdateConnectivityState that starts from the state there is.
HighestSoFar(ss, ds) ==
  /\ notifications < MaxPosted
  /\ \E x \in {connectivity_state} \cup {ss[d] : d \in ds} :
       /\ \A d \in ds : ss[d] <= x
       /\ connectivity_state' = x
  /\ notifications' = notifications + 1
  /\ UNCHANGED seen

\* An UpdateConnectivityState that tells the listeners only of going online or
\* offline.
NotifyOnlineOnly(ss, ds) ==
  /\ notifications < MaxPosted
  /\ \E x \in {Offline} \cup {ss[d] : d \in ds} :
       /\ \A d \in ds : ss[d] <= x
       /\ connectivity_state' = x
       /\ notifications' = IF (x = Online) = (connectivity_state = Online)
                           THEN notifications ELSE notifications + 1
  /\ UNCHANGED seen

\* ShillClient::UpdateConnectivityState, with devices ds in states ss: the most
\* connected of them counts, and the listeners are told from the loop.
UpdateConnectivityState(ss, ds) ==
  /\ notifications < MaxPosted
  /\ \E x \in {Offline} \cup {ss[d] : d \in ds} :
       /\ \A d \in ds : ss[d] <= x
       /\ connectivity_state' = x
  /\ notifications' = notifications + 1
  /\ UNCHANGED seen

\* ShillClient::NotifyConnectivityListeners; a listener asks for the state.
NotifyConnectivityListeners ==
  /\ notifications > 0
  /\ notifications' = notifications - 1
  /\ seen' = connectivity_state
  /\ UNCHANGED <<trackVars, connectivity_state, service_registrations, handled,
                 attemptVars, connecting_service_error, timers, posted, issued,
                 replyVars>>

\* A cleanup that forgets the callback.
CleanupKeepingCallback ==
  /\ connecting' = None
  /\ connecting_path' = None
  /\ have_called_connect' = FALSE
  /\ handled' = handled \ {connecting_path}
  /\ UNCHANGED connect_done_callback

\* ShillClient::CleanupConnectingService.  ReleaseObjectProxy detaches the
\* D-Bus proxy of the path, so its signals no longer arrive.
CleanupConnectingService ==
  /\ connecting' = None
  /\ connecting_path' = None
  /\ connect_done_callback' = None
  /\ have_called_connect' = FALSE
  /\ handled' = handled \ {connecting_path}

\* A request's callback runs.
Reply(k, what) ==
  /\ replies' = [replies EXCEPT ![k] = @ + 1]
  /\ outcome' = [outcome EXCEPT ![k] = what]

\* The end of OnErrorChangeForConnectingService and of a kOnline state: the
\* attempt is cleaned up and its callback, if it is kept, runs.
FinishAttempt(what) ==
  /\ CleanupConnectingService
  /\ IF connect_done_callback # None
     THEN Reply(connect_done_callback, what)
     ELSE UNCHANGED replyVars

\* A ConnectToServiceError that passes an empty error on, which
\* OnErrorChangeForConnectingService ignores.
FailWithErrorAsIs ==
  IF have_called_connect /\ connecting_service_error = None
  THEN UNCHANGED <<attemptVars, handled, replyVars>>
  ELSE FinishAttempt(IF have_called_connect THEN connecting_service_error
                                            ELSE "out-of-range")

\* ShillClient::ConnectToServiceError past its early return.
ConnectToServiceError ==
  FinishAttempt(IF ~have_called_connect THEN "out-of-range"
                ELSE IF connecting_service_error = None THEN "internal"
                ELSE connecting_service_error)

\* A Connect that puts an attempt in the place of the one under way.
ConnectOver(k, p) ==
  /\ k \notin issued
  /\ issued' = issued \cup {k}
  /\ connecting' = k
  /\ connecting_path' = p
  /\ connect_done_callback' = k
  /\ have_called_connect' = FALSE
  /\ handled' = handled \cup {p}
  /\ service_registrations' = service_registrations \cup {p}
  /\ timers' = timers \cup {k}
  /\ UNCHANGED <<trackVars, stateVars, connecting_service_error, posted,
                 replyVars>>

\* ShillClient::Connect while an attempt is under way.
ConnectBusy(k) ==
  /\ k \notin issued /\ connecting # None
  /\ issued' = issued \cup {k}
  /\ posted' = posted \cup {<<k, "busy">>}
  /\ UNCHANGED <<trackVars, stateVars, service_registrations, handled,
                 attemptVars, connecting_service_error, timers, replyVars>>

\* ... when shill refuses ConfigureService or RequestScan.
ConnectRefused(k) ==
  /\ k \notin issued /\ connecting = None
  /\ issued' = issued \cup {k}
  /\ CleanupConnectingService
  /\ posted' = posted \cup {<<k, "refused">>}
  /\ UNCHANGED <<trackVars, stateVars, service_registrations,
                 connecting_service_error, timers, replyVars>>

\* ... when shill configures service p.
Connect(k, p) ==
  /\ k \notin issued /\ connecting = None
  /\ issued' = issued \cup {k}
  /\ connecting' = k
  /\ connecting_path' = p
  /\ connect_done_callback' = k
  /\ have_called_connect' = FALSE
  /\ handled' = handled \cup {p}
  /\ service_registrations' = service_registrations \cup {p}
  /\ timers' = timers \cup {k}
  /\ UNCHANGED <<trackVars, stateVars, connecting_service_error, posted,
                 replyVars>>

\* A callback Connect posted with an error of its own.
RunPostedReply(k, what) ==
  /\ <<k, what>> \in posted
  /\ posted' = posted \ {<<k, what>>}
  /\ Reply(k, what)
  /\ UNCHANGED <<trackVars, stateVars, service_registrations, handled,
                 attemptVars, connecting_service_error, timers, issued>>

\* A timer that knows its attempt by the service's path only.
TimeoutByPath(k) ==
  /\ k \in timers
  /\ timers' = timers \ {k}
  /\ IF connecting # None /\ connect_done_callback # None
     THEN ConnectToServiceError
     ELSE UNCHANGED <<attemptVars, handled, replyVars>>
  /\ UNCHANGED <<trackVars, stateVars, service_registrations,
                 connecting_service_error, posted, issued>>

\* The minute of request k is over: ConnectToServiceError, void unless its
\* ServiceProxy is still the connecting one.
Timeout(k) ==
  /\ k \in timers
  /\ timers' = timers \ {k}
  /\ IF connecting = k /\ connect_done_callback # None
     THEN ConnectToServiceError
     ELSE UNCHANGED <<attemptVars, handled, replyVars>>
  /\ UNCHANGED <<trackVars, stateVars, service_registrations,
                 connecting_service_error, posted, issued>>

-----------------------------------------------------------------------------
\* OnStateChangeForSelectedService: the first device that selected p.
FirstSelecting(p) == {d \in devices : /\ selected[d] = p
                                      /\ \A e \in devices : selected[e] = p => d <= e}

StateForSelected(p, raw) ==
  IF raw # None /\ FirstSelecting(p) # {}
  THEN /\ service_state' =
            [d \in Devices |-> IF d \in FirstSelecting(p)
                               THEN ShillServiceStateToNetworkState(raw)
                               ELSE service_state[d]]
       /\ UpdateConnectivityState(service_state', devices)
  ELSE UNCHANGED <<service_state, stateVars>>

\* The connecting service's part of OnServicePropertyChange, for the state,
\* the signal strength and the error in this order: an attempt the state ends
\* is not there for the other two.
StateForConnecting(ps) ==
  CASE ps.state # None /\ ShillServiceStateToNetworkState(ps.state) = Online ->
         FinishAttempt("success") /\ UNCHANGED connecting_service_error
    [] ps.state # None /\ ShillServiceStateToNetworkState(ps.state) = Error ->
         ConnectToServiceError /\ UNCHANGED connecting_service_error
    [] OTHER ->
         /\ have_called_connect' = (have_called_connect \/ ps.strength = 1)
         /\ connecting_service_error' =
              CASE ps.error = "reported" -> connecting
                [] ps.error = "" -> None
                [] OTHER -> connecting_service_error
         /\ UNCHANGED <<connecting, connecting_path, connect_done_callback,
                        handled, replyVars>>

PropertyChanges(p, ps) ==
  /\ StateForSelected(p, ps.state)
  /\ IF connecting # None /\ connecting_path = p
     THEN StateForConnecting(ps)
     ELSE UNCHANGED <<attemptVars, connecting_service_error, handled,
                      replyVars>>
  /\ UNCHANGED <<devices, selected, device_registrations, timers, posted,
                 issued>>

\* ShillClient::OnServicePropertyChange: a signal with one property.
OnServicePropertyChange(p, ps) ==
  /\ p \in handled
  /\ PropertyChanges(p, ps)
  /\ UNCHANGED service_registrations

\* ShillClient::OnServicePropertyChangeRegistration, when the registration
\* succeeded: each property the read finds is handled as if it had changed.
\* Nothing happens for a service that is neither connecting nor selected.
OnServicePropertyChangeRegistration(p, ps) ==
  /\ p \in service_registrations
  /\ service_registrations' = service_registrations \ {p}
  /\ PropertyChanges(p, ps)

\* ... when it failed, which for the connecting service is the end of the
\* attempt; its callback is dropped.
OnServicePropertyChangeRegistrationFailed(p) ==
  /\ p \in service_registrations
  /\ service_registrations' = service_registrations \ {p}
  /\ IF connecting # None /\ connecting_path = p
     THEN CleanupConnectingService
     ELSE UNCHANGED <<attemptVars, handled>>
  /\ UNCHANGED <<trackVars, stateVars, connecting_service_error, timers,
                 posted, issued, replyVars>>

\* ShillClient::OnDevicePropertyChange, when device d has selected service p
\* ("/" is None).  raw is what GetStateForService reads of a connecting
\* service that is reused, None when it fails.
SelectService(d, p, raw) ==
  LET reuse == p # None /\ connecting # None /\ connecting_path = p
      new == IF reuse /\ raw # None
             THEN ShillServiceStateToNetworkState(raw) ELSE Offline
      ss == [service_state EXCEPT ![d] = new]
  IN /\ selected' = [selected EXCEPT ![d] = p]
     /\ service_state' = ss
     /\ IF p # None /\ ~reuse
        THEN /\ handled' = handled \cup {p}
             /\ service_registrations' = service_registrations \cup {p}
        ELSE UNCHANGED <<handled, service_registrations>>
     /\ IF reuse \/ selected[d] # None
        THEN UpdateConnectivityState(ss, devices)
        ELSE UNCHANGED stateVars
     /\ UNCHANGED devices

\* It returns early for a device it does not follow, an invalid path and a
\* service already selected.
DeviceChanges(d, p, raw) ==
  /\ IF d \in devices /\ selected[d] # p
     THEN SelectService(d, p, raw)
     ELSE UNCHANGED <<devices, selected, service_state, handled,
                      service_registrations, stateVars>>
  /\ UNCHANGED <<attemptVars, connecting_service_error, timers, posted, issued,
                 replyVars>>

OnDevicePropertyChange(d, p, raw) ==
  /\ DeviceChanges(d, p, raw)
  /\ UNCHANGED device_registrations

\* ShillClient::OnDevicePropertyChangeRegistration; a read that fails is the
\* change to the service that is already selected.
OnDevicePropertyChangeRegistration(d, p, raw) ==
  /\ d \in device_registrations
  /\ device_registrations' = device_registrations \ {d}
  /\ DeviceChanges(d, p, raw)

\* devices_.erase of the devices gone.
WithoutDevices(gone) ==
  [d \in Devices |-> IF d \in gone THEN Offline ELSE service_state[d]]

\* The device list of OnManagerPropertyChange.  `listed' are the paths in it,
\* before the first invalid one if `valid' is false, which ends the handler
\* there; `added' those of them that are new and monitored (IsMonitoredDevice,
\* whose reads may fail when there is a whitelist); ds the devices followed.
DeviceList(ds, listed, added, valid) ==
  /\ added \subseteq listed \ ds
  /\ ~HasWhitelist => added = listed \ ds
  /\ devices' = IF valid THEN (ds \cap listed) \cup added ELSE ds \cup added
  /\ selected' = [d \in Devices |-> IF d \in devices' \ added THEN selected[d]
                                                              ELSE None]
  /\ service_state' = WithoutDevices(Devices \ (devices' \ added))
  /\ device_registrations' = device_registrations \cup added

\* ShillClient::OnManagerPropertyChange, as a signal or after its
\* registration.
OnManagerPropertyChange(listed, added, valid) ==
  /\ DeviceList(devices, listed, added, valid)
  /\ IF valid /\ devices' # devices
     THEN UpdateConnectivityState(service_state', devices')
     ELSE UNCHANGED stateVars
  /\ UNCHANGED <<service_registrations, handled, attemptVars,
                 connecting_service_error, timers, posted, issued, replyVars>>

\* ShillClient::OnShillServiceOwnerChange, with Init when there is a new
\* owner: devices_ and connectivity_state_ are reset, and the new list read,
\* if it can be.
OnShillServiceOwnerChange(listed, added, valid) ==
  /\ CleanupConnectingService
  /\ DeviceList({}, listed, added, valid)
  /\ IF valid /\ added # {}
     THEN UpdateConnectivityState(service_state', devices')
     ELSE connectivity_state' = Offline /\ UNCHANGED <<notifications, seen>>
  /\ UNCHANGED <<service_registrations, connecting_service_error, timers,
                 posted, issued, replyVars>>

-----------------------------------------------------------------------------
Next ==
  \/ NotifyConnectivityListeners
  \/ \E k \in Requests :
       \/ ConnectBusy(k)
       \/ ConnectRefused(k)
       \/ \E p \in Services : Connect(k, p)
       \/ \E what \in {"busy", "refused"} : RunPostedReply(k, what)
       \/ Timeout(k)
  \/ \E p \in Services :
       \/ \E ps \in Signals : OnServicePropertyChange(p, ps)
       \/ \E ps \in Properties : OnServicePropertyChangeRegistration(p, ps)
       \/ OnServicePropertyChangeRegistrationFailed(p)
  \/ \E d \in Devices, p \in Services \cup {None}, raw \in RawStates \cup {None} :
       \/ OnDevicePropertyChange(d, p, raw)
       \/ OnDevicePropertyChangeRegistration(d, p, raw)
  \/ \E listed \in SUBSET Devices, valid \in BOOLEAN :
     \E added \in SUBSET listed :
       \/ OnManagerPropertyChange(listed, added, valid)
       \/ OnShillServiceOwnerChange(listed, added, valid)

Spec == Init /\ [][Next]_vars

\* Tasks that are posted run; nothing is assumed of shill.
LiveSpec ==
  /\ Spec
  /\ WF_vars(NotifyConnectivityListeners)
  /\ \A k \in Requests :
       /\ WF_vars(Timeout(k))
       /\ WF_vars(\E what \in {"busy", "refused"} : RunPostedReply(k, what))

-----------------------------------------------------------------------------
\* Connectivity is that of the most connected selected service, whatever
\* devices come, go and re-select, and shill resets, in between
\* (ShillClient::UpdateConnectivityState is called wherever it must be).
ConnectivityIsHighest ==
  /\ \A d \in devices : service_state[d] <= connectivity_state
  /\ connectivity_state # Offline
       => \E d \in devices : service_state[d] = connectivity_state

\* Any state but offline reaches the listeners: it is what they found when
\* they last ran, or they are about to run.
ConnectivityIsAnnounced ==
  connectivity_state # Offline /\ notifications = 0
    => seen = connectivity_state

\* A Connect's DoneCallback runs once at most, and an attempt under way is
\* exactly one whose callback is kept and has not run.
RepliesAtMostOnce ==
  /\ \A k \in Requests : replies[k] <= 1
  /\ connecting = connect_done_callback
  /\ connecting # None => replies[connecting] = 0 /\ connecting_path # None

\* ShillClient::ConnectToServiceError of one attempt's timer never ends
\* another attempt, even one for the same service path.
TimerEndsOwnAttempt ==
  [][\A k \in timers \ timers' :
       \A j \in Requests \ {k} : replies'[j] = replies[j]]_vars

\* No attempt blocks Connect for ever with "Already connecting".
AttemptEnds ==
  \A k \in Requests : connecting = k ~> connecting # k

\* "Clean up state related to a connecting service" (shill_client.h:107): an
\* attempt that fails is told an error of its own service, not the one kept
\* in connecting_service_error_ from the attempt before.
ErrorIsOwn == \A k \in Requests : outcome[k] \in Requests => outcome[k] = k

(***************************************************************************)
(* weave::provider::Network::Connect as its caller sees it.                *)
(***************************************************************************)
Provider == INSTANCE NetworkConnect WITH
             Ends <- {"success", "out-of-range", "internal"} \cup Requests,
             Refusals <- {"refused"},
             Busy <- "busy",
             Nothing <- "none",
             asked <- issued,
             trying <- {connecting} \ {None},
             declined <- posted,
             answers <- replies,
             answer <- outcome

\* ShillClient::Connect and the handlers that end its attempt implement it,
\* through re-entrant Connects, timers of earlier attempts, signals of any
\* service and the resets of shill.
ImplementsConnect == Provider!Spec

=============================================================================
