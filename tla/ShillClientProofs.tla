------------------------- MODULE ShillClientProofs -------------------------
(***************************************************************************)
(* What ShillClient promises for every set of devices, services and        *)
(* requests and every bound on posted notifications: its type invariant,   *)
(* that a request's callback runs at most once, that a timer ends only its *)
(* own attempt, that connectivity is that of the most connected device and *)
(* is announced, and that it implements NetworkConnect.                    *)
(***************************************************************************)
EXTENDS ShillClient, TLAPS

(***************************************************************************)
(* Types.                                                                  *)
(***************************************************************************)
AttemptTypeOK ==
  /\ connecting \in Requests \cup {None}
  /\ connecting_path \in Services \cup {None}
  /\ connect_done_callback \in Requests \cup {None}
  /\ have_called_connect \in BOOLEAN
  /\ handled \subseteq Services
  /\ replies \in [Requests -> Nat]
  /\ outcome \in [Requests -> Outcomes \cup Requests]

StateTypeOK ==
  /\ connectivity_state \in States
  /\ notifications \in Nat
  /\ seen \in States

\* Every raw state, heard of or not, has a Network::State.
LEMMA StateMapped ==
  ASSUME NEW raw
  PROVE  ShillServiceStateToNetworkState(raw) \in States
BY DEF ShillServiceStateToNetworkState, States, Offline, Error, Connecting,
       Online

\* UpdateConnectivityState keeps the types of what it assigns.
LEMMA UpdateTypes ==
  ASSUME StateTypeOK, NEW ss, NEW ds,
         \A d \in ds : ss[d] \in States,
         UpdateConnectivityState(ss, ds)
  PROVE  StateTypeOK'
BY DEF StateTypeOK, UpdateConnectivityState, States, Offline, Online

\* The end of an attempt keeps the types of what it assigns.
LEMMA FinishTypes ==
  ASSUME AttemptTypeOK, NEW what \in Outcomes \cup Requests,
         FinishAttempt(what)
  PROVE  AttemptTypeOK'
<1>1. /\ replies' \in [Requests -> Nat]
      /\ outcome' \in [Requests -> Outcomes \cup Requests]
  <2>1. CASE connect_done_callback # None
    <3>1. Reply(connect_done_callback, what)
      BY <2>1 DEF FinishAttempt
    <3>2. replies' \in [Requests -> Nat]
      BY <2>1, <3>1 DEF Reply, AttemptTypeOK
    <3>3. outcome' \in [Requests -> Outcomes \cup Requests]
      BY <2>1, <3>1 DEF Reply, AttemptTypeOK
    <3> QED BY <3>2, <3>3
  <2>2. CASE connect_done_callback = None
    BY <2>2 DEF AttemptTypeOK, FinishAttempt, replyVars
  <2> QED BY <2>1, <2>2
<1> QED
  BY <1>1 DEF AttemptTypeOK, FinishAttempt, CleanupConnectingService

\* ... and so does the failure of one.
LEMMA FailureTypes ==
  ASSUME AttemptTypeOK, connecting_service_error \in Requests \cup {None},
         ConnectToServiceError
  PROVE  AttemptTypeOK'
<1>1. CASE ~have_called_connect
  BY <1>1, FinishTypes DEF ConnectToServiceError, Outcomes
<1>2. CASE have_called_connect /\ connecting_service_error = None
  BY <1>2, FinishTypes DEF ConnectToServiceError, Outcomes
<1>3. CASE have_called_connect /\ connecting_service_error # None
  BY <1>3, FinishTypes DEF ConnectToServiceError
<1> QED BY <1>1, <1>2, <1>3

\* The part of a property change that concerns the selected service.
LEMMA SelectedTypes ==
  ASSUME StateTypeOK, devices \subseteq Devices,
         service_state \in [Devices -> States],
         NEW p, NEW raw, StateForSelected(p, raw)
  PROVE  StateTypeOK' /\ service_state' \in [Devices -> States]
<1>1. CASE raw # None /\ FirstSelecting(p) # {}
  <2>1. service_state' \in [Devices -> States]
    BY <1>1, StateMapped DEF StateForSelected
  <2>2. UpdateConnectivityState(service_state', devices)
    BY <1>1 DEF StateForSelected
  <2> QED BY <2>1, <2>2, UpdateTypes
<1>2. CASE ~(raw # None /\ FirstSelecting(p) # {})
  BY <1>2 DEF StateForSelected, StateTypeOK, stateVars
<1> QED BY <1>1, <1>2

\* The part of a property change that concerns the connecting service.
LEMMA ConnectingTypes ==
  ASSUME AttemptTypeOK, connecting # None,
         connecting_service_error \in Requests \cup {None},
         NEW ps, StateForConnecting(ps)
  PROVE  /\ AttemptTypeOK'
         /\ connecting_service_error' \in Requests \cup {None}
<1> DEFINE online == /\ ps.state # None
                     /\ ShillServiceStateToNetworkState(ps.state) = Online
           failed == /\ ps.state # None
                     /\ ShillServiceStateToNetworkState(ps.state) = Error
<1>1. CASE online
  <2>1. FinishAttempt("success") /\ UNCHANGED connecting_service_error
    BY <1>1 DEF StateForConnecting, Online, Error
  <2> QED BY <2>1, FinishTypes DEF Outcomes
<1>2. CASE failed
  <2>1. ConnectToServiceError /\ UNCHANGED connecting_service_error
    BY <1>2 DEF StateForConnecting, Online, Error
  <2> QED BY <2>1, FailureTypes
<1>3. CASE ~online /\ ~failed
  <2>1. /\ have_called_connect' = (have_called_connect \/ ps.strength = 1)
        /\ connecting_service_error' \in
             {connecting, None, connecting_service_error}
        /\ UNCHANGED <<connecting, connecting_path, connect_done_callback,
                       handled, replyVars>>
    BY <1>3 DEF StateForConnecting
  <2> QED BY <2>1 DEF AttemptTypeOK, replyVars
<1> QED BY <1>1, <1>2, <1>3

\* A property change as a whole.
LEMMA ChangeTypes ==
  ASSUME TypeOK, NEW p \in Services, NEW ps,
         PropertyChanges(p, ps),
         service_registrations' \subseteq Services
  PROVE  TypeOK'
<1>1. StateTypeOK /\ AttemptTypeOK
  BY DEF TypeOK, StateTypeOK, AttemptTypeOK
<1>2. StateTypeOK' /\ service_state' \in [Devices -> States]
  BY <1>1, SelectedTypes DEF TypeOK, PropertyChanges
<1>3. AttemptTypeOK' /\ connecting_service_error' \in Requests \cup {None}
  <2>1. CASE connecting # None /\ connecting_path = p
    BY <1>1, <2>1, ConnectingTypes DEF TypeOK, PropertyChanges
  <2>2. CASE ~(connecting # None /\ connecting_path = p)
    BY <1>1, <2>2 DEF TypeOK, PropertyChanges, AttemptTypeOK, attemptVars,
                      replyVars
  <2> QED BY <2>1, <2>2
<1> QED
  BY <1>2, <1>3 DEF TypeOK, StateTypeOK, AttemptTypeOK, PropertyChanges

\* A device's new selection.
LEMMA DeviceTypes ==
  ASSUME ShillAssumption, TypeOK, NEW d \in Devices,
         NEW p \in Services \cup {None}, NEW raw, DeviceChanges(d, p, raw),
         device_registrations' \subseteq Devices
  PROVE  TypeOK'
<1>1. CASE d \in devices /\ selected[d] # p
  <2>1. SelectService(d, p, raw)
    BY <1>1 DEF DeviceChanges
  <2> DEFINE reuse == p # None /\ connecting # None /\ connecting_path = p
             new == IF reuse /\ raw # None
                    THEN ShillServiceStateToNetworkState(raw) ELSE Offline
             ss == [service_state EXCEPT ![d] = new]
  <2>2. new \in States
    BY StateMapped DEF States, Offline, Online
  <2>3. ss \in [Devices -> States]
    BY <2>2 DEF TypeOK
  <2>4. StateTypeOK'
    <3>1. StateTypeOK
      BY DEF TypeOK, StateTypeOK
    <3>2. UpdateConnectivityState(ss, devices) \/ UNCHANGED stateVars
      BY <2>1 DEF SelectService
    <3>3. CASE UpdateConnectivityState(ss, devices)
      BY <2>3, <3>1, <3>3, UpdateTypes DEF TypeOK
    <3>4. CASE UNCHANGED stateVars
      BY <3>1, <3>4 DEF StateTypeOK, stateVars
    <3> QED BY <3>2, <3>3, <3>4
  <2>5. /\ selected' = [selected EXCEPT ![d] = p]
        /\ service_state' = ss
        /\ devices' = devices
        /\ handled' \subseteq Services
        /\ service_registrations' \subseteq Services
    BY <2>1 DEF SelectService, TypeOK
  <2> HIDE DEF ss
  <2> QED
    BY <2>3, <2>4, <2>5 DEF TypeOK, StateTypeOK, DeviceChanges, attemptVars,
                            replyVars
<1>2. CASE ~(d \in devices /\ selected[d] # p)
  BY <1>2 DEF DeviceChanges, TypeOK, stateVars, attemptVars, replyVars
<1> QED BY <1>1, <1>2

\* A device list.
LEMMA ListTypes ==
  ASSUME TypeOK, NEW ds \in SUBSET Devices, NEW listed \in SUBSET Devices,
         NEW added, NEW valid, DeviceList(ds, listed, added, valid)
  PROVE  /\ devices' \subseteq Devices
         /\ selected' \in [Devices -> Services \cup {None}]
         /\ service_state' \in [Devices -> States]
         /\ device_registrations' \subseteq Devices
<1>1. added \subseteq Devices /\ devices' \subseteq Devices
  BY DEF DeviceList
<1>2. selected' \in [Devices -> Services \cup {None}]
  BY DEF DeviceList, TypeOK
<1>3. service_state' \in [Devices -> States]
  BY DEF DeviceList, WithoutDevices, TypeOK, States, Offline, Online
<1> QED BY <1>1, <1>2, <1>3 DEF DeviceList, TypeOK

\* The reset of OnShillServiceOwnerChange or the update of
\* OnManagerPropertyChange after a device list.
LEMMA ListStateTypes ==
  ASSUME StateTypeOK, devices' \subseteq Devices,
         service_state' \in [Devices -> States],
         \/ UpdateConnectivityState(service_state', devices')
         \/ UNCHANGED stateVars
         \/ connectivity_state' = Offline /\ UNCHANGED <<notifications, seen>>
  PROVE  StateTypeOK'
<1>1. CASE UpdateConnectivityState(service_state', devices')
  BY <1>1, UpdateTypes
<1>2. CASE UNCHANGED stateVars
  BY <1>2 DEF StateTypeOK, stateVars
<1>3. CASE connectivity_state' = Offline /\ UNCHANGED <<notifications, seen>>
  BY <1>3 DEF StateTypeOK, States, Offline, Online
<1> QED BY <1>1, <1>2, <1>3

\* The initial state has the types.
LEMMA InitTypes == ASSUME ShillAssumption, Init PROVE TypeOK
<1>1. "none" \in Outcomes
  BY DEF Outcomes
<1>2. Offline \in States
  BY DEF States, Offline, Online
<1> QED BY <1>1, <1>2 DEF Init, TypeOK

\* Every step keeps them.
LEMMA NextTypes == ASSUME ShillAssumption, TypeOK, [Next]_vars PROVE TypeOK'
<1>a. StateTypeOK /\ AttemptTypeOK
  BY DEF TypeOK, StateTypeOK, AttemptTypeOK
<1>1. CASE UNCHANGED vars
  BY <1>1 DEF TypeOK, vars, trackVars, stateVars, attemptVars, replyVars
<1>2. CASE NotifyConnectivityListeners
  BY <1>2 DEF NotifyConnectivityListeners, TypeOK, trackVars, attemptVars,
              replyVars
<1>3. ASSUME NEW k \in Requests, ConnectBusy(k) PROVE TypeOK'
  BY <1>3 DEF ConnectBusy, TypeOK, trackVars, stateVars, attemptVars,
              replyVars
<1>4. ASSUME NEW k \in Requests, ConnectRefused(k) PROVE TypeOK'
  <2>1. posted' \subseteq Requests \X {"busy", "refused"}
    BY <1>4 DEF ConnectRefused, TypeOK
  <2>2. handled' \subseteq Services
    BY <1>4 DEF ConnectRefused, CleanupConnectingService, TypeOK
  <2> QED
    BY <1>4, <2>1, <2>2 DEF ConnectRefused, CleanupConnectingService, TypeOK,
                            trackVars, stateVars, replyVars
<1>5. ASSUME NEW k \in Requests, NEW p \in Services, Connect(k, p)
      PROVE  TypeOK'
  BY <1>5 DEF Connect, TypeOK, trackVars, stateVars, replyVars
<1>6. ASSUME NEW k \in Requests, NEW what \in {"busy", "refused"},
             RunPostedReply(k, what)
      PROVE  TypeOK'
  <2>1. what \in Outcomes \cup Requests
    BY DEF Outcomes
  <2>2. /\ replies' \in [Requests -> Nat]
        /\ outcome' \in [Requests -> Outcomes \cup Requests]
    BY <1>6, <2>1 DEF RunPostedReply, Reply, TypeOK
  <2> QED
    BY <1>6, <2>2 DEF RunPostedReply, TypeOK, trackVars, stateVars,
                      attemptVars
<1>7. ASSUME NEW k \in Requests, Timeout(k) PROVE TypeOK'
  <2>1. AttemptTypeOK'
    <3>1. CASE connecting = k /\ connect_done_callback # None
      BY <1>a, <1>7, <3>1, FailureTypes DEF Timeout, TypeOK
    <3>2. CASE ~(connecting = k /\ connect_done_callback # None)
      BY <1>a, <1>7, <3>2 DEF Timeout, AttemptTypeOK, attemptVars, replyVars
    <3> QED BY <3>1, <3>2
  <2> QED
    BY <1>7, <2>1 DEF Timeout, TypeOK, AttemptTypeOK, trackVars, stateVars
<1>8. ASSUME NEW p \in Services, NEW ps, OnServicePropertyChange(p, ps)
      PROVE  TypeOK'
  BY <1>8, ChangeTypes DEF OnServicePropertyChange, TypeOK
<1>9. ASSUME NEW p \in Services, NEW ps,
             OnServicePropertyChangeRegistration(p, ps)
      PROVE  TypeOK'
  BY <1>9, ChangeTypes DEF OnServicePropertyChangeRegistration, TypeOK
<1>10. ASSUME NEW p \in Services,
              OnServicePropertyChangeRegistrationFailed(p)
       PROVE  TypeOK'
  BY <1>10 DEF OnServicePropertyChangeRegistrationFailed, TypeOK,
               CleanupConnectingService, trackVars, stateVars, attemptVars,
               replyVars
<1>11. ASSUME NEW d \in Devices, NEW p \in Services \cup {None}, NEW raw,
              \/ OnDevicePropertyChange(d, p, raw)
              \/ OnDevicePropertyChangeRegistration(d, p, raw)
       PROVE  TypeOK'
  <2>1. device_registrations' \subseteq Devices /\ DeviceChanges(d, p, raw)
    BY <1>11 DEF OnDevicePropertyChange, OnDevicePropertyChangeRegistration,
                 TypeOK
  <2> QED BY <2>1, DeviceTypes
<1>12. ASSUME NEW listed \in SUBSET Devices, NEW added, NEW valid,
              OnManagerPropertyChange(listed, added, valid)
       PROVE  TypeOK'
  <2>1. /\ devices' \subseteq Devices
        /\ selected' \in [Devices -> Services \cup {None}]
        /\ service_state' \in [Devices -> States]
        /\ device_registrations' \subseteq Devices
    BY <1>12, ListTypes DEF OnManagerPropertyChange, TypeOK
  <2>2. StateTypeOK'
    BY <1>a, <1>12, <2>1, ListStateTypes DEF OnManagerPropertyChange
  <2> QED
    BY <1>12, <2>1, <2>2 DEF OnManagerPropertyChange, TypeOK, StateTypeOK,
                             attemptVars, replyVars
<1>13. ASSUME NEW listed \in SUBSET Devices, NEW added, NEW valid,
              OnShillServiceOwnerChange(listed, added, valid)
       PROVE  TypeOK'
  <2>1. /\ devices' \subseteq Devices
        /\ selected' \in [Devices -> Services \cup {None}]
        /\ service_state' \in [Devices -> States]
        /\ device_registrations' \subseteq Devices
    BY <1>13, ListTypes DEF OnShillServiceOwnerChange
  <2>2. StateTypeOK'
    BY <1>a, <1>13, <2>1, ListStateTypes DEF OnShillServiceOwnerChange
  <2> QED
    BY <1>13, <2>1, <2>2 DEF OnShillServiceOwnerChange, TypeOK, StateTypeOK,
                             CleanupConnectingService, replyVars
<1> QED
  BY <1>1, <1>2, <1>3, <1>4, <1>5, <1>6, <1>7, <1>8, <1>9, <1>10, <1>11,
     <1>12, <1>13 DEF Next

\* Type correctness of ShillClient.
THEOREM TypeCorrect == ASSUME ShillAssumption PROVE Spec => []TypeOK
BY InitTypes, NextTypes, PTL DEF Spec

(***************************************************************************)
(* Replies.  A request that has been issued is in one place at most: under  *)
(* way, in a posted callback, or answered.                                 *)
(***************************************************************************)
Posted(k) == \E what \in {"busy", "refused"} : <<k, what>> \in posted

Accounted(k) ==
  /\ replies[k] <= 1
  /\ k \notin issued => replies[k] = 0 /\ ~Posted(k) /\ connecting # k
  /\ connecting = k => replies[k] = 0 /\ ~Posted(k)
  /\ Posted(k) => replies[k] = 0
  /\ <<k, "busy">> \in posted => <<k, "refused">> \notin posted

ReplyInv ==
  /\ connecting = connect_done_callback
  /\ connecting # None => connecting_path # None
  /\ \A k \in Requests : Accounted(k)

\* An attempt that is cleaned up without an answer leaves the account right.
LEMMA CleanupReplies ==
  ASSUME ShillAssumption, ReplyInv, CleanupConnectingService,
         UNCHANGED <<posted, issued, replies>>
  PROVE  ReplyInv'
BY DEF ShillAssumption, ReplyInv, CleanupConnectingService, Accounted, Posted

\* ... and so does one that is answered; no other request is.
LEMMA FinishReplies ==
  ASSUME ShillAssumption, TypeOK, ReplyInv, NEW what, FinishAttempt(what),
         UNCHANGED <<posted, issued>>
  PROVE  /\ ReplyInv'
         /\ \A j \in Requests : j # connecting => replies'[j] = replies[j]
<1>1. CASE connect_done_callback = None
  <2>1. CleanupConnectingService /\ UNCHANGED replies
    BY <1>1 DEF FinishAttempt, replyVars
  <2> QED BY <2>1, CleanupReplies
<1>2. CASE connect_done_callback # None
  <2>1. connecting \in Requests /\ replies' = [replies EXCEPT ![connecting] = @ + 1]
    BY <1>2 DEF FinishAttempt, Reply, ReplyInv, TypeOK
  <2>2. /\ replies'[connecting] = replies[connecting] + 1
        /\ \A j \in Requests : j # connecting => replies'[j] = replies[j]
    BY <2>1 DEF TypeOK
  <2>3. /\ connecting' = None /\ connect_done_callback' = None
        /\ None \notin Requests
    BY DEF FinishAttempt, CleanupConnectingService, ShillAssumption
  <2>4. replies[connecting] = 0 /\ ~Posted(connecting) /\ connecting \in issued
    BY <2>1 DEF ReplyInv, Accounted
  <2>5. ASSUME NEW k \in Requests PROVE Accounted(k)'
    <3>1. CASE k = connecting
      BY <2>2, <2>3, <2>4, <3>1 DEF Accounted, Posted
    <3>2. CASE k # connecting
      BY <2>2, <2>3, <3>2 DEF Accounted, Posted, ReplyInv
    <3> QED BY <3>1, <3>2
  <2> QED BY <2>2, <2>3, <2>5 DEF ReplyInv
<1> QED BY <1>1, <1>2

\* The failure of an attempt is an answer to it.
LEMMA FailureReplies ==
  ASSUME ShillAssumption, TypeOK, ReplyInv, ConnectToServiceError,
         UNCHANGED <<posted, issued>>
  PROVE  /\ ReplyInv'
         /\ \A j \in Requests : j # connecting => replies'[j] = replies[j]
<1>1. PICK what : FinishAttempt(what)
  BY DEF ConnectToServiceError
<1> QED BY <1>1, FinishReplies

\* A property change answers the attempt under way, or nobody.
LEMMA ChangeReplies ==
  ASSUME ShillAssumption, TypeOK, ReplyInv, NEW p, NEW ps,
         PropertyChanges(p, ps)
  PROVE  ReplyInv'
<1>a. UNCHANGED <<posted, issued>>
  BY DEF PropertyChanges
<1>1. CASE connecting # None /\ connecting_path = p
  <2>1. StateForConnecting(ps)
    BY <1>1 DEF PropertyChanges
  <2>2. \/ FinishAttempt("success")
        \/ ConnectToServiceError
        \/ UNCHANGED <<connecting, connecting_path, connect_done_callback,
                       replies>>
    BY <2>1 DEF StateForConnecting, replyVars
  <2>3. CASE FinishAttempt("success")
    BY <1>a, <2>3, FinishReplies
  <2>4. CASE ConnectToServiceError
    BY <1>a, <2>4, FailureReplies
  <2>5. CASE UNCHANGED <<connecting, connecting_path, connect_done_callback,
                         replies>>
    BY <1>a, <2>5 DEF ReplyInv, Accounted, Posted
  <2> QED BY <2>2, <2>3, <2>4, <2>5
<1>2. CASE ~(connecting # None /\ connecting_path = p)
  BY <1>a, <1>2 DEF PropertyChanges, ReplyInv, Accounted, Posted, attemptVars,
                    replyVars
<1> QED BY <1>1, <1>2

\* No request is made, kept or answered at first.
LEMMA InitReplies == ASSUME ShillAssumption, Init PROVE ReplyInv
BY DEF Init, ReplyInv, Accounted, Posted

\* Every step keeps the account of callbacks kept, posted and run.
LEMMA NextReplies ==
  ASSUME ShillAssumption, TypeOK, ReplyInv, [Next]_vars
  PROVE  ReplyInv'
<1>1. CASE UNCHANGED <<attemptVars, posted, issued, replies>>
  BY <1>1 DEF ReplyInv, Accounted, Posted, attemptVars
<1>2. CASE UNCHANGED vars
  BY <1>1, <1>2 DEF vars, replyVars
<1>3. CASE NotifyConnectivityListeners
  BY <1>1, <1>3 DEF NotifyConnectivityListeners, replyVars
<1>4. ASSUME NEW k \in Requests, ConnectBusy(k) PROVE ReplyInv'
  <2>1. /\ k \notin issued
        /\ issued' = issued \cup {k}
        /\ posted' = posted \cup {<<k, "busy">>}
        /\ UNCHANGED <<connecting, connecting_path, connect_done_callback,
                       replies>>
    BY <1>4 DEF ConnectBusy, attemptVars, replyVars
  <2>2. Accounted(k)
    BY DEF ReplyInv
  <2>3. Accounted(k)'
    BY <2>1, <2>2 DEF Accounted, Posted
  <2>4. ASSUME NEW j \in Requests, j # k PROVE Accounted(j)'
    BY <2>1, <2>4 DEF Accounted, Posted, ReplyInv
  <2> QED BY <2>1, <2>3, <2>4 DEF ReplyInv
<1>5. ASSUME NEW k \in Requests, ConnectRefused(k) PROVE ReplyInv'
  <2>1. /\ k \notin issued
        /\ issued' = issued \cup {k}
        /\ posted' = posted \cup {<<k, "refused">>}
        /\ connecting' = None /\ connect_done_callback' = None
        /\ UNCHANGED replies /\ None \notin Requests
    BY <1>5 DEF ConnectRefused, CleanupConnectingService, replyVars,
                ShillAssumption
  <2>2. Accounted(k)
    BY DEF ReplyInv
  <2>3. Accounted(k)'
    BY <2>1, <2>2 DEF Accounted, Posted
  <2>4. ASSUME NEW j \in Requests, j # k PROVE Accounted(j)'
    BY <2>1, <2>4 DEF Accounted, Posted, ReplyInv
  <2> QED BY <2>1, <2>3, <2>4 DEF ReplyInv
<1>6. ASSUME NEW k \in Requests, NEW p \in Services, Connect(k, p)
      PROVE  ReplyInv'
  <2>1. /\ k \notin issued
        /\ issued' = issued \cup {k}
        /\ connecting = None
        /\ connecting' = k /\ connect_done_callback' = k
        /\ connecting_path' # None
        /\ UNCHANGED <<posted, replies>> /\ None \notin Requests
    BY <1>6 DEF Connect, replyVars, ShillAssumption
  <2>2. Accounted(k)
    BY DEF ReplyInv
  <2>3. Accounted(k)'
    BY <2>1, <2>2 DEF Accounted, Posted
  <2>4. ASSUME NEW j \in Requests, j # k PROVE Accounted(j)'
    BY <2>1, <2>4 DEF Accounted, Posted, ReplyInv
  <2> QED BY <2>1, <2>3, <2>4 DEF ReplyInv
<1>7. ASSUME NEW k \in Requests, NEW what \in {"busy", "refused"},
             RunPostedReply(k, what)
      PROVE  ReplyInv'
  <2>1. /\ <<k, what>> \in posted
        /\ posted' = posted \ {<<k, what>>}
        /\ UNCHANGED <<connecting, connecting_path, connect_done_callback,
                       issued>>
    BY <1>7 DEF RunPostedReply, attemptVars
  <2>2. /\ replies'[k] = replies[k] + 1
        /\ \A j \in Requests : j # k => replies'[j] = replies[j]
    BY <1>7 DEF RunPostedReply, Reply, TypeOK
  <2>3. Accounted(k) /\ Posted(k)
    BY <2>1 DEF ReplyInv, Posted
  <2>4. ~Posted(k)'
    BY <2>1, <2>3 DEF Accounted, Posted
  <2>5. Accounted(k)'
    BY <2>1, <2>2, <2>3, <2>4 DEF Accounted, Posted
  <2>6. ASSUME NEW j \in Requests, j # k PROVE Accounted(j)'
    BY <2>1, <2>2, <2>6 DEF Accounted, Posted, ReplyInv
  <2> QED BY <2>1, <2>5, <2>6 DEF ReplyInv
<1>8. ASSUME NEW k \in Requests, Timeout(k) PROVE ReplyInv'
  <2>1. CASE connecting = k /\ connect_done_callback # None
    BY <1>8, <2>1, FailureReplies DEF Timeout
  <2>2. CASE ~(connecting = k /\ connect_done_callback # None)
    BY <1>1, <1>8, <2>2 DEF Timeout, replyVars
  <2> QED BY <2>1, <2>2
<1>9. ASSUME NEW p \in Services, NEW ps,
             \/ OnServicePropertyChange(p, ps)
             \/ OnServicePropertyChangeRegistration(p, ps)
      PROVE  ReplyInv'
  BY <1>9, ChangeReplies DEF OnServicePropertyChange,
                             OnServicePropertyChangeRegistration
<1>10. ASSUME NEW p \in Services,
              OnServicePropertyChangeRegistrationFailed(p)
       PROVE  ReplyInv'
  <2>1. CASE connecting # None /\ connecting_path = p
    BY <1>10, <2>1, CleanupReplies
       DEF OnServicePropertyChangeRegistrationFailed, replyVars
  <2>2. CASE ~(connecting # None /\ connecting_path = p)
    BY <1>1, <1>10, <2>2 DEF OnServicePropertyChangeRegistrationFailed,
                             replyVars
  <2> QED BY <2>1, <2>2
<1>11. ASSUME NEW d \in Devices, NEW p, NEW raw,
              \/ OnDevicePropertyChange(d, p, raw)
              \/ OnDevicePropertyChangeRegistration(d, p, raw)
       PROVE  ReplyInv'
  BY <1>1, <1>11 DEF OnDevicePropertyChange, DeviceChanges, replyVars,
                     OnDevicePropertyChangeRegistration
<1>12. ASSUME NEW listed, NEW added, NEW valid,
              OnManagerPropertyChange(listed, added, valid)
       PROVE  ReplyInv'
  BY <1>1, <1>12 DEF OnManagerPropertyChange, replyVars
<1>13. ASSUME NEW listed, NEW added, NEW valid,
              OnShillServiceOwnerChange(listed, added, valid)
       PROVE  ReplyInv'
  BY <1>13, CleanupReplies DEF OnShillServiceOwnerChange, replyVars
<1> QED
  BY <1>2, <1>3, <1>4, <1>5, <1>6, <1>7, <1>8, <1>9, <1>10, <1>11, <1>12,
     <1>13 DEF Next

\* The callback of a request runs at most once, and the attempt under way is
\* the one whose callback is kept and has not run.
THEOREM CallbackRunsOnce ==
  ASSUME ShillAssumption PROVE Spec => []RepliesAtMostOnce
<1>1. Init => TypeOK /\ ReplyInv
  BY InitTypes, InitReplies
<1>2. TypeOK /\ ReplyInv /\ [Next]_vars => TypeOK' /\ ReplyInv'
  BY NextTypes, NextReplies
<1>3. TypeOK /\ ReplyInv => RepliesAtMostOnce
  BY DEF ReplyInv, Accounted, RepliesAtMostOnce, TypeOK
<1> QED BY <1>1, <1>2, <1>3, PTL DEF Spec

(***************************************************************************)
(* Timers.  Only Timeout takes one away, and the answer it may give is the *)
(* one of the attempt it was set for.                                      *)
(***************************************************************************)
TimerStep ==
  \A k \in timers \ timers' : \A j \in Requests \ {k} : replies'[j] = replies[j]

\* An elapsed timer leaves the other requests' callbacks alone.
LEMMA TimeoutReplies ==
  ASSUME ShillAssumption, TypeOK, ReplyInv, NEW k \in Requests, Timeout(k)
  PROVE  TimerStep
<1>1. ASSUME NEW j \in Requests \ {k} PROVE replies'[j] = replies[j]
  <2>1. CASE connecting = k /\ connect_done_callback # None
    BY <2>1, FailureReplies DEF Timeout
  <2>2. CASE ~(connecting = k /\ connect_done_callback # None)
    BY <2>2 DEF Timeout, replyVars
  <2> QED BY <2>1, <2>2
<1>2. timers \ timers' \subseteq {k}
  BY DEF Timeout
<1> QED BY <1>1, <1>2 DEF TimerStep

\* No other step takes a timer away.
LEMMA NextTimers ==
  ASSUME ShillAssumption, TypeOK, ReplyInv, [Next]_vars
  PROVE  TimerStep
<1>1. CASE timers \subseteq timers'
  BY <1>1 DEF TimerStep
<1>2. CASE UNCHANGED vars
  BY <1>1, <1>2 DEF vars
<1>3. CASE NotifyConnectivityListeners
  BY <1>1, <1>3 DEF NotifyConnectivityListeners
<1>4. ASSUME NEW k \in Requests,
             \/ ConnectBusy(k)
             \/ ConnectRefused(k)
             \/ \E p \in Services : Connect(k, p)
             \/ \E what \in {"busy", "refused"} : RunPostedReply(k, what)
      PROVE  TimerStep
  BY <1>1, <1>4 DEF ConnectBusy, ConnectRefused, Connect, RunPostedReply
<1>5. ASSUME NEW k \in Requests, Timeout(k) PROVE TimerStep
  BY <1>5, TimeoutReplies
<1>6. ASSUME NEW p \in Services,
             \/ \E ps \in Signals : OnServicePropertyChange(p, ps)
             \/ \E ps \in Properties : OnServicePropertyChangeRegistration(p, ps)
             \/ OnServicePropertyChangeRegistrationFailed(p)
      PROVE  TimerStep
  BY <1>1, <1>6 DEF OnServicePropertyChange, PropertyChanges,
                    OnServicePropertyChangeRegistration,
                    OnServicePropertyChangeRegistrationFailed
<1>7. ASSUME NEW d \in Devices, NEW p, NEW raw,
             \/ OnDevicePropertyChange(d, p, raw)
             \/ OnDevicePropertyChangeRegistration(d, p, raw)
      PROVE  TimerStep
  BY <1>1, <1>7 DEF OnDevicePropertyChange, DeviceChanges,
                    OnDevicePropertyChangeRegistration
<1>8. ASSUME NEW listed, NEW added, NEW valid,
             \/ OnManagerPropertyChange(listed, added, valid)
             \/ OnShillServiceOwnerChange(listed, added, valid)
      PROVE  TimerStep
  BY <1>1, <1>8 DEF OnManagerPropertyChange, OnShillServiceOwnerChange
<1> QED BY <1>2, <1>3, <1>4, <1>5, <1>6, <1>7, <1>8 DEF Next

\* The one-minute timer of an attempt never answers another request.
THEOREM TimersEndOwnAttempts ==
  ASSUME ShillAssumption PROVE Spec => TimerEndsOwnAttempt
<1>1. Init => TypeOK /\ ReplyInv
  BY InitTypes, InitReplies
<1>2. TypeOK /\ ReplyInv /\ [Next]_vars => TypeOK' /\ ReplyInv'
  BY NextTypes, NextReplies
<1>3. TypeOK /\ ReplyInv /\ [Next]_vars
        => [\A k \in timers \ timers' :
              \A j \in Requests \ {k} : replies'[j] = replies[j]]_vars
  BY NextTimers DEF TimerStep
<1> QED BY <1>1, <1>2, <1>3, PTL DEF Spec, TimerEndsOwnAttempt

(***************************************************************************)
(* Connectivity.  A device with no selected service, or that is not        *)
(* followed, is offline; so what the signals of a service change is the    *)
(* state of a device whose connectivity is computed again.                 *)
(***************************************************************************)
IdleDevicesOffline ==
  \A d \in Devices : d \notin devices \/ selected[d] = None
                       => service_state[d] = Offline

ConnectivityInv == ConnectivityIsHighest /\ ConnectivityIsAnnounced

\* UpdateConnectivityState establishes both, whatever was before.
LEMMA UpdateConnectivity ==
  ASSUME TypeOK, NEW ss, NEW ds,
         \A d \in ds : ss[d] \in States,
         UpdateConnectivityState(ss, ds),
         ss = service_state', ds = devices'
  PROVE  ConnectivityInv'
<1>1. notifications' # 0
  BY DEF UpdateConnectivityState, TypeOK
<1>2. PICK x \in {Offline} \cup {ss[d] : d \in ds} :
        /\ \A d \in ds : ss[d] <= x
        /\ connectivity_state' = x
  BY DEF UpdateConnectivityState
<1>3. ConnectivityIsHighest'
  BY <1>2 DEF ConnectivityIsHighest
<1> QED BY <1>1, <1>3 DEF ConnectivityInv, ConnectivityIsAnnounced

\* No device, and offline.
LEMMA InitConnectivity ==
  ASSUME ShillAssumption, Init PROVE IdleDevicesOffline /\ ConnectivityInv
BY DEF Init, IdleDevicesOffline, ConnectivityInv, ConnectivityIsHighest,
       ConnectivityIsAnnounced, Offline

\* A step that touches neither the devices nor the state keeps both.
LEMMA SameConnectivity ==
  ASSUME IdleDevicesOffline, ConnectivityInv,
         UNCHANGED <<devices, selected, service_state, stateVars>>
  PROVE  IdleDevicesOffline' /\ ConnectivityInv'
BY DEF IdleDevicesOffline, ConnectivityInv, ConnectivityIsHighest,
       ConnectivityIsAnnounced, stateVars

\* A property change of a service.
LEMMA ChangeConnectivity ==
  ASSUME ShillAssumption, TypeOK, IdleDevicesOffline, ConnectivityInv,
         NEW p \in Services, NEW ps, PropertyChanges(p, ps)
  PROVE  IdleDevicesOffline' /\ ConnectivityInv'
<1>1. UNCHANGED <<devices, selected>>
  BY DEF PropertyChanges
<1>2. CASE ps.state # None /\ FirstSelecting(p) # {}
  <2>1. service_state' =
          [d \in Devices |-> IF d \in FirstSelecting(p)
                             THEN ShillServiceStateToNetworkState(ps.state)
                             ELSE service_state[d]]
    BY <1>2 DEF PropertyChanges, StateForSelected
  <2>2. \A d \in FirstSelecting(p) : d \in devices /\ selected[d] # None
    BY DEF FirstSelecting, ShillAssumption
  <2>3. IdleDevicesOffline'
    BY <1>1, <2>1, <2>2 DEF IdleDevicesOffline
  <2>4. \A d \in devices : service_state'[d] \in States
    BY <2>1, StateMapped DEF TypeOK
  <2>5. UpdateConnectivityState(service_state', devices)
    BY <1>2 DEF PropertyChanges, StateForSelected
  <2> QED BY <1>1, <2>3, <2>4, <2>5, UpdateConnectivity
<1>3. CASE ~(ps.state # None /\ FirstSelecting(p) # {})
  BY <1>1, <1>3, SameConnectivity DEF PropertyChanges, StateForSelected
<1> QED BY <1>2, <1>3

\* A device selects another service.
LEMMA DeviceConnectivity ==
  ASSUME ShillAssumption, TypeOK, IdleDevicesOffline, ConnectivityInv,
         NEW d \in Devices, NEW p, NEW raw, DeviceChanges(d, p, raw)
  PROVE  IdleDevicesOffline' /\ ConnectivityInv'
<1>1. CASE ~(d \in devices /\ selected[d] # p)
  BY <1>1, SameConnectivity DEF DeviceChanges
<1>2. CASE d \in devices /\ selected[d] # p
  <2> DEFINE reuse == p # None /\ connecting # None /\ connecting_path = p
             new == IF reuse /\ raw # None
                    THEN ShillServiceStateToNetworkState(raw) ELSE Offline
             ss == [service_state EXCEPT ![d] = new]
  <2>1. /\ selected' = [selected EXCEPT ![d] = p]
        /\ service_state' = ss
        /\ devices' = devices
        /\ IF reuse \/ selected[d] # None
           THEN UpdateConnectivityState(ss, devices)
           ELSE UNCHANGED stateVars
    BY <1>2 DEF DeviceChanges, SelectService
  <2>2. new \in States /\ (p = None => new = Offline)
    BY StateMapped DEF States, Offline, Online
  <2>3. IdleDevicesOffline'
    BY <1>2, <2>1, <2>2 DEF IdleDevicesOffline, TypeOK
  <2>4. CASE reuse \/ selected[d] # None
    <3>1. \A e \in devices : ss[e] \in States
      BY <2>2 DEF TypeOK
    <3> QED BY <2>1, <2>3, <2>4, <3>1, UpdateConnectivity
  <2>5. CASE ~(reuse \/ selected[d] # None)
    <3>1. service_state[d] = Offline /\ new = Offline
      BY <2>5 DEF IdleDevicesOffline
    <3>2. service_state' = service_state
      BY <2>1, <3>1 DEF TypeOK
    <3> QED
      BY <2>1, <2>3, <2>5, <3>2 DEF ConnectivityInv, ConnectivityIsHighest,
                                    ConnectivityIsAnnounced, stateVars
  <2> QED BY <2>4, <2>5
<1> QED BY <1>1, <1>2

\* A device list: devices kept keep their state, all others are offline.
LEMMA ListConnectivity ==
  ASSUME TypeOK, IdleDevicesOffline, NEW ds, NEW listed, NEW added, NEW valid,
         ds \subseteq devices, DeviceList(ds, listed, added, valid)
  PROVE  /\ IdleDevicesOffline'
         /\ \A d \in Devices :
              d \in devices' \ added => service_state'[d] = service_state[d]
         /\ \A d \in Devices : d \notin devices' \ added
                                 => service_state'[d] = Offline
         /\ \A d \in Devices : service_state'[d] \in States
         /\ devices' \ added \subseteq ds
         /\ added \subseteq devices' /\ added \cap ds = {}
<1>1. /\ selected' = [d \in Devices |-> IF d \in devices' \ added
                                        THEN selected[d] ELSE None]
      /\ service_state' =
           [d \in Devices |-> IF d \in Devices \ (devices' \ added)
                              THEN Offline ELSE service_state[d]]
      /\ devices' \ added \subseteq ds
      /\ added \subseteq devices' /\ added \cap ds = {}
  BY DEF DeviceList, WithoutDevices
<1>2. \A d \in Devices : service_state'[d] \in States
  BY <1>1 DEF TypeOK, States, Offline, Online
<1>3. IdleDevicesOffline'
  BY <1>1 DEF IdleDevicesOffline
<1> QED BY <1>1, <1>2, <1>3

\* Every step keeps both.
LEMMA NextConnectivity ==
  ASSUME ShillAssumption, TypeOK, TypeOK', IdleDevicesOffline, ConnectivityInv,
         [Next]_vars
  PROVE  IdleDevicesOffline' /\ ConnectivityInv'
<1>1. CASE UNCHANGED <<trackVars, stateVars>>
  BY <1>1, SameConnectivity DEF trackVars
<1>2. CASE UNCHANGED vars
  BY <1>1, <1>2 DEF vars
<1>3. CASE NotifyConnectivityListeners
  BY <1>3 DEF NotifyConnectivityListeners, trackVars, IdleDevicesOffline,
              ConnectivityInv, ConnectivityIsHighest, ConnectivityIsAnnounced
<1>4. ASSUME NEW k \in Requests,
             \/ ConnectBusy(k)
             \/ ConnectRefused(k)
             \/ \E p \in Services : Connect(k, p)
             \/ \E what \in {"busy", "refused"} : RunPostedReply(k, what)
             \/ Timeout(k)
      PROVE  IdleDevicesOffline' /\ ConnectivityInv'
  BY <1>1, <1>4 DEF ConnectBusy, ConnectRefused, Connect, RunPostedReply,
                    Timeout
<1>5. ASSUME NEW p \in Services, NEW ps,
             \/ OnServicePropertyChange(p, ps)
             \/ OnServicePropertyChangeRegistration(p, ps)
      PROVE  IdleDevicesOffline' /\ ConnectivityInv'
  BY <1>5, ChangeConnectivity DEF OnServicePropertyChange,
                                  OnServicePropertyChangeRegistration
<1>6. ASSUME NEW p \in Services, OnServicePropertyChangeRegistrationFailed(p)
      PROVE  IdleDevicesOffline' /\ ConnectivityInv'
  BY <1>1, <1>6 DEF OnServicePropertyChangeRegistrationFailed
<1>7. ASSUME NEW d \in Devices, NEW p, NEW raw,
             \/ OnDevicePropertyChange(d, p, raw)
             \/ OnDevicePropertyChangeRegistration(d, p, raw)
      PROVE  IdleDevicesOffline' /\ ConnectivityInv'
  BY <1>7, DeviceConnectivity DEF OnDevicePropertyChange,
                                  OnDevicePropertyChangeRegistration
<1>8. ASSUME NEW listed, NEW added, NEW valid \in BOOLEAN,
             OnManagerPropertyChange(listed, added, valid)
      PROVE  IdleDevicesOffline' /\ ConnectivityInv'
  <2>1. DeviceList(devices, listed, added, valid)
    BY <1>8 DEF OnManagerPropertyChange
  <2>2. CASE valid /\ devices' # devices
    <3>1. UpdateConnectivityState(service_state', devices')
      BY <1>8, <2>2 DEF OnManagerPropertyChange
    <3> QED
      BY <2>1, <3>1, ListConnectivity, UpdateConnectivity DEF TypeOK
  <2>3. CASE ~(valid /\ devices' # devices)
    <3>1. devices' = devices \cup added
      BY <2>1, <2>3 DEF DeviceList
    <3>2. UNCHANGED stateVars
      BY <1>8, <2>3 DEF OnManagerPropertyChange
    <3>3. devices \subseteq devices' \ added /\ devices' \subseteq Devices
      BY <2>1, <3>1, ListConnectivity DEF TypeOK
    <3>4. /\ \A d \in devices : service_state'[d] = service_state[d]
          /\ \A d \in added : service_state'[d] = Offline
      BY <2>1, <3>1, <3>3, ListConnectivity DEF TypeOK
    <3>5. ConnectivityIsHighest'
      BY <3>1, <3>2, <3>4 DEF ConnectivityInv, ConnectivityIsHighest, stateVars,
                              TypeOK, States, Offline, Online
    <3> QED
      BY <2>1, <3>2, <3>5, ListConnectivity
         DEF ConnectivityInv, ConnectivityIsAnnounced, stateVars
  <2> QED BY <2>2, <2>3
<1>9. ASSUME NEW listed, NEW added, NEW valid \in BOOLEAN,
             OnShillServiceOwnerChange(listed, added, valid)
      PROVE  IdleDevicesOffline' /\ ConnectivityInv'
  <2>1. DeviceList({}, listed, added, valid)
    BY <1>9 DEF OnShillServiceOwnerChange
  <2>2. CASE valid /\ added # {}
    <3>1. UpdateConnectivityState(service_state', devices')
      BY <1>9, <2>2 DEF OnShillServiceOwnerChange
    <3> QED
      BY <2>1, <3>1, ListConnectivity, UpdateConnectivity DEF TypeOK
  <2>3. CASE ~(valid /\ added # {})
    <3>1. connectivity_state' = Offline
      BY <1>9, <2>3 DEF OnShillServiceOwnerChange
    <3>2. \A d \in devices' : service_state'[d] = Offline
      BY <2>1, ListConnectivity DEF TypeOK
    <3> QED
      BY <2>1, <3>1, <3>2, ListConnectivity
         DEF ConnectivityInv, ConnectivityIsHighest, ConnectivityIsAnnounced,
             Offline
  <2> QED BY <2>2, <2>3
<1> QED
  BY <1>2, <1>3, <1>4, <1>5, <1>6, <1>7, <1>8, <1>9 DEF Next

\* Both parts hold in every state of a behaviour.
LEMMA SpecConnectivity ==
  ASSUME ShillAssumption PROVE Spec => []ConnectivityInv
<1>1. Init => TypeOK /\ IdleDevicesOffline /\ ConnectivityInv
  BY InitTypes, InitConnectivity
<1>2. /\ TypeOK /\ IdleDevicesOffline /\ ConnectivityInv
      /\ [Next]_vars
      => TypeOK' /\ IdleDevicesOffline' /\ ConnectivityInv'
  BY NextTypes, NextConnectivity
<1> QED BY <1>1, <1>2, PTL DEF Spec

\* The connectivity state is that of the most connected device.
THEOREM ConnectivityFollowed ==
  ASSUME ShillAssumption PROVE Spec => []ConnectivityIsHighest
<1>1. ConnectivityInv => ConnectivityIsHighest
  BY DEF ConnectivityInv
<1> QED BY <1>1, SpecConnectivity, PTL

\* Every connectivity state but offline reaches the listeners.
THEOREM ConnectivityAnnounced ==
  ASSUME ShillAssumption PROVE Spec => []ConnectivityIsAnnounced
<1>1. ConnectivityInv => ConnectivityIsAnnounced
  BY DEF ConnectivityInv
<1> QED BY <1>1, SpecConnectivity, PTL

(***************************************************************************)
(* The promise of NetworkConnect is kept: an attempt that ends with an     *)
(* answer is the one under way, and its answer goes to its own caller.     *)
(***************************************************************************)
Ends == {"success", "out-of-range", "internal"} \cup Requests

\* A step that concerns no attempt is none of NetworkConnect's.
LEMMA SameAttempt ==
  ASSUME UNCHANGED <<issued, connecting, posted, replyVars>>
  PROVE  UNCHANGED Provider!vars
BY DEF Provider!vars, replyVars

\* An attempt that is finished ends.
LEMMA FinishEnds ==
  ASSUME ShillAssumption, TypeOK, ReplyInv, connecting # None,
         NEW what \in Ends, FinishAttempt(what), UNCHANGED <<issued, posted>>
  PROVE  Provider!Next
<1>1. connecting \in Requests /\ connect_done_callback = connecting
  BY DEF TypeOK, ReplyInv
<1>2. /\ Reply(connecting, what)
      /\ connecting' = None
  BY <1>1 DEF FinishAttempt, CleanupConnectingService
<1>3. Provider!End(connecting, what)
  BY <1>1, <1>2 DEF Provider!End, Provider!Answer, Reply
<1> QED BY <1>1, <1>3 DEF Provider!Next, Ends

\* ... with an answer of its own, or with the error kept.
LEMMA FailureEnds ==
  ASSUME ShillAssumption, TypeOK, ReplyInv, connecting # None,
         ConnectToServiceError, UNCHANGED <<issued, posted>>
  PROVE  Provider!Next
<1>1. CASE ~have_called_connect
  BY <1>1, FinishEnds DEF ConnectToServiceError, Ends
<1>2. CASE have_called_connect /\ connecting_service_error = None
  BY <1>2, FinishEnds DEF ConnectToServiceError, Ends
<1>3. CASE have_called_connect /\ connecting_service_error # None
  BY <1>3, FinishEnds DEF ConnectToServiceError, Ends, TypeOK
<1> QED BY <1>1, <1>2, <1>3

\* One that is cleaned up without an answer is dropped, if there is one.
LEMMA CleanupDrops ==
  ASSUME CleanupConnectingService, UNCHANGED <<issued, posted, replyVars>>
  PROVE  Provider!Next \/ UNCHANGED Provider!vars
<1>1. connecting' = None
  BY DEF CleanupConnectingService
<1>2. CASE connecting = None
  BY <1>1, <1>2, SameAttempt
<1>3. CASE connecting # None
  BY <1>1, <1>3 DEF Provider!Next, Provider!Drop, replyVars
<1> QED BY <1>2, <1>3

\* A property change ends the attempt under way, or concerns none.
LEMMA ChangeEnds ==
  ASSUME ShillAssumption, TypeOK, ReplyInv, NEW p, NEW ps,
         PropertyChanges(p, ps)
  PROVE  Provider!Next \/ UNCHANGED Provider!vars
<1>a. UNCHANGED <<posted, issued>>
  BY DEF PropertyChanges
<1>1. CASE connecting # None /\ connecting_path = p
  <2>1. \/ FinishAttempt("success")
        \/ ConnectToServiceError
        \/ UNCHANGED <<connecting, replyVars>>
    BY <1>1 DEF PropertyChanges, StateForConnecting
  <2>2. CASE FinishAttempt("success")
    BY <1>a, <1>1, <2>2, FinishEnds DEF Ends
  <2>3. CASE ConnectToServiceError
    BY <1>a, <1>1, <2>3, FailureEnds
  <2>4. CASE UNCHANGED <<connecting, replyVars>>
    BY <1>a, <2>4, SameAttempt
  <2> QED BY <2>1, <2>2, <2>3, <2>4
<1>2. CASE ~(connecting # None /\ connecting_path = p)
  BY <1>a, <1>2, SameAttempt DEF PropertyChanges, attemptVars
<1> QED BY <1>1, <1>2

\* Every step is one of NetworkConnect's, or none.
LEMMA NextProvider ==
  ASSUME ShillAssumption, TypeOK, ReplyInv, [Next]_vars
  PROVE  Provider!Next \/ UNCHANGED Provider!vars
<1>1. CASE UNCHANGED <<issued, attemptVars, posted, replyVars>>
  BY <1>1, SameAttempt DEF attemptVars
<1>2. CASE UNCHANGED vars
  BY <1>1, <1>2 DEF vars
<1>3. CASE NotifyConnectivityListeners
  BY <1>1, <1>3 DEF NotifyConnectivityListeners
<1>4. ASSUME NEW k \in Requests, ConnectBusy(k) PROVE Provider!Next
  <2>1. /\ k \notin issued /\ connecting # None
        /\ issued' = issued \cup {k}
        /\ posted' = posted \cup {<<k, "busy">>}
        /\ UNCHANGED <<connecting, replies, outcome>>
    BY <1>4 DEF ConnectBusy, attemptVars, replyVars
  <2>2. Provider!Decline(k, "busy")
    BY <2>1 DEF Provider!Decline
  <2> QED BY <2>2 DEF Provider!Next
<1>5. ASSUME NEW k \in Requests, ConnectRefused(k) PROVE Provider!Next
  <2>1. /\ k \notin issued /\ connecting = None /\ connecting' = None
        /\ issued' = issued \cup {k}
        /\ posted' = posted \cup {<<k, "refused">>}
        /\ UNCHANGED <<replies, outcome>>
    BY <1>5 DEF ConnectRefused, CleanupConnectingService, replyVars
  <2>2. Provider!Decline(k, "refused")
    BY <2>1 DEF Provider!Decline
  <2> QED BY <2>2 DEF Provider!Next
<1>6. ASSUME NEW k \in Requests, NEW p \in Services, Connect(k, p)
      PROVE  Provider!Next
  <2>1. /\ k \notin issued /\ connecting = None /\ connecting' = k /\ k # None
        /\ issued' = issued \cup {k}
        /\ UNCHANGED <<posted, replies, outcome>>
    BY <1>6 DEF Connect, replyVars, ShillAssumption
  <2>2. Provider!Begin(k)
    BY <2>1 DEF Provider!Begin
  <2> QED BY <2>2 DEF Provider!Next
<1>7. ASSUME NEW k \in Requests, NEW what \in {"busy", "refused"},
             RunPostedReply(k, what)
      PROVE  Provider!Next
  <2>1. Provider!AnswerDeclined(k, what)
    BY <1>7 DEF RunPostedReply, Reply, attemptVars, Provider!AnswerDeclined,
                Provider!Answer
  <2> QED BY <2>1 DEF Provider!Next
<1>8. ASSUME NEW k \in Requests, Timeout(k)
      PROVE  Provider!Next \/ UNCHANGED Provider!vars
  <2>1. CASE connecting = k /\ connect_done_callback # None
    BY <1>8, <2>1, FailureEnds DEF Timeout, ReplyInv
  <2>2. CASE ~(connecting = k /\ connect_done_callback # None)
    BY <1>1, <1>8, <2>2 DEF Timeout
  <2> QED BY <2>1, <2>2
<1>9. ASSUME NEW p \in Services, NEW ps,
             \/ OnServicePropertyChange(p, ps)
             \/ OnServicePropertyChangeRegistration(p, ps)
      PROVE  Provider!Next \/ UNCHANGED Provider!vars
  BY <1>9, ChangeEnds DEF OnServicePropertyChange,
                          OnServicePropertyChangeRegistration
<1>10. ASSUME NEW p \in Services,
              OnServicePropertyChangeRegistrationFailed(p)
       PROVE  Provider!Next \/ UNCHANGED Provider!vars
  <2>1. CASE connecting # None /\ connecting_path = p
    BY <1>10, <2>1, CleanupDrops
       DEF OnServicePropertyChangeRegistrationFailed
  <2>2. CASE ~(connecting # None /\ connecting_path = p)
    BY <1>1, <1>10, <2>2 DEF OnServicePropertyChangeRegistrationFailed
  <2> QED BY <2>1, <2>2
<1>11. ASSUME NEW d \in Devices, NEW p, NEW raw,
              \/ OnDevicePropertyChange(d, p, raw)
              \/ OnDevicePropertyChangeRegistration(d, p, raw)
       PROVE  UNCHANGED Provider!vars
  BY <1>1, <1>11, SameAttempt DEF OnDevicePropertyChange, DeviceChanges,
     OnDevicePropertyChangeRegistration, attemptVars
<1>12. ASSUME NEW listed, NEW added, NEW valid,
              OnManagerPropertyChange(listed, added, valid)
       PROVE  UNCHANGED Provider!vars
  BY <1>12, SameAttempt DEF OnManagerPropertyChange, attemptVars
<1>13. ASSUME NEW listed, NEW added, NEW valid,
              OnShillServiceOwnerChange(listed, added, valid)
       PROVE  Provider!Next \/ UNCHANGED Provider!vars
  BY <1>13, CleanupDrops DEF OnShillServiceOwnerChange
<1> QED
  BY <1>2, <1>3, <1>4, <1>5, <1>6, <1>7, <1>8, <1>9, <1>10, <1>11, <1>12,
     <1>13 DEF Next

\* ShillClient is a network provider that makes one attempt at a time and
\* answers each call at most once, whatever shill signals.
THEOREM ConnectIsImplemented ==
  ASSUME ShillAssumption PROVE Spec => ImplementsConnect
<1>1. Init => TypeOK /\ ReplyInv
  BY InitTypes, InitReplies
<1>2. TypeOK /\ ReplyInv /\ [Next]_vars => TypeOK' /\ ReplyInv'
  BY NextTypes, NextReplies
<1>3. Init => Provider!Init
  BY DEF Init, Provider!Init
<1>4. TypeOK /\ ReplyInv /\ [Next]_vars => [Provider!Next]_(Provider!vars)
  BY NextProvider
<1> QED
  BY <1>1, <1>2, <1>3, <1>4, PTL DEF Spec, ImplementsConnect, Provider!Spec

(***************************************************************************)
(* What AttemptEnds rests on: the minute of the attempt under way is still *)
(* to come, and is not over without ending it.  Timeout(k) needs nothing   *)
(* but k's timer, so that its fairness does the rest.                      *)
(***************************************************************************)
AttemptIsTimed == connecting # None => connecting \in timers

\* Every step leaves an attempt timed.
LEMMA NextTimed ==
  ASSUME ShillAssumption, TypeOK, ReplyInv, AttemptIsTimed, [Next]_vars
  PROVE  AttemptIsTimed'
<1>1. CASE connecting' \in {None, connecting} /\ timers \subseteq timers'
  BY <1>1 DEF AttemptIsTimed
<1>2. CASE UNCHANGED vars
  BY <1>1, <1>2 DEF vars, attemptVars
<1>3. CASE NotifyConnectivityListeners
  BY <1>1, <1>3 DEF NotifyConnectivityListeners, attemptVars
<1>4. ASSUME NEW k \in Requests,
             \/ ConnectBusy(k)
             \/ ConnectRefused(k)
             \/ \E what \in {"busy", "refused"} : RunPostedReply(k, what)
      PROVE  AttemptIsTimed'
  BY <1>1, <1>4 DEF ConnectBusy, ConnectRefused, CleanupConnectingService,
                    RunPostedReply, attemptVars
<1>5. ASSUME NEW k \in Requests, NEW p \in Services, Connect(k, p)
      PROVE  AttemptIsTimed'
  BY <1>5 DEF Connect, AttemptIsTimed
<1>6. ASSUME NEW k \in Requests, Timeout(k) PROVE AttemptIsTimed'
  <2>1. CASE connecting = k /\ connect_done_callback # None
    <3>1. connecting' = None
      BY <1>6, <2>1 DEF Timeout, ConnectToServiceError, FinishAttempt,
                        CleanupConnectingService
    <3> QED BY <3>1 DEF AttemptIsTimed
  <2>2. CASE ~(connecting = k /\ connect_done_callback # None)
    <3>1. connecting # k /\ connecting' = connecting
      BY <1>6, <2>2 DEF Timeout, ReplyInv, attemptVars, ShillAssumption
    <3> QED BY <1>6, <3>1 DEF Timeout, AttemptIsTimed
  <2> QED BY <2>1, <2>2
<1>7. ASSUME NEW p, NEW ps, PropertyChanges(p, ps)
      PROVE  connecting' \in {None, connecting} /\ timers' = timers
  BY <1>7 DEF PropertyChanges, StateForConnecting, ConnectToServiceError,
              FinishAttempt, CleanupConnectingService, attemptVars
<1>8. ASSUME NEW p \in Services, NEW ps,
             \/ OnServicePropertyChange(p, ps)
             \/ OnServicePropertyChangeRegistration(p, ps)
      PROVE  AttemptIsTimed'
  BY <1>1, <1>7, <1>8 DEF OnServicePropertyChange,
                          OnServicePropertyChangeRegistration
<1>9. ASSUME NEW p \in Services,
             OnServicePropertyChangeRegistrationFailed(p)
      PROVE  AttemptIsTimed'
  BY <1>1, <1>9 DEF OnServicePropertyChangeRegistrationFailed,
                    CleanupConnectingService, attemptVars
<1>10. ASSUME NEW d \in Devices, NEW p, NEW raw,
              \/ OnDevicePropertyChange(d, p, raw)
              \/ OnDevicePropertyChangeRegistration(d, p, raw)
       PROVE  AttemptIsTimed'
  BY <1>1, <1>10 DEF OnDevicePropertyChange, DeviceChanges,
     OnDevicePropertyChangeRegistration, attemptVars
<1>11. ASSUME NEW listed, NEW added, NEW valid,
              \/ OnManagerPropertyChange(listed, added, valid)
              \/ OnShillServiceOwnerChange(listed, added, valid)
       PROVE  AttemptIsTimed'
  BY <1>1, <1>11 DEF OnManagerPropertyChange, OnShillServiceOwnerChange,
                     CleanupConnectingService, attemptVars
<1> QED
  BY <1>2, <1>3, <1>4, <1>5, <1>6, <1>8, <1>9, <1>10, <1>11 DEF Next

\* The attempt under way has its ConnectToServiceError posted, whatever
\* attempts, timers and signals there were before (ShillClient::Connect).
THEOREM AttemptsAreTimed ==
  ASSUME ShillAssumption PROVE Spec => []AttemptIsTimed
<1>1. Init => TypeOK /\ ReplyInv
  BY InitTypes, InitReplies
<1>2. TypeOK /\ ReplyInv /\ [Next]_vars => TypeOK' /\ ReplyInv'
  BY NextTypes, NextReplies
<1>3. Init => AttemptIsTimed
  BY DEF Init, AttemptIsTimed
<1>4. TypeOK /\ ReplyInv /\ AttemptIsTimed /\ [Next]_vars => AttemptIsTimed'
  BY NextTimed
<1> QED BY <1>1, <1>2, <1>3, <1>4, PTL DEF Spec

=============================================================================
