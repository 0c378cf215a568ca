------------------------------ MODULE Pairing ------------------------------
(***************************************************************************)
(* Pairing sessions on their way to a user of libweaved: the values weaved *)
(* exposes (OnPairingStart and OnPairingEnd in src/buffet/manager.cc), the *)
(* notifications of which of them changed, and the copy a ServiceImpl      *)
(* (src/libweaved/service.cc) makes of them, one synchronous call per      *)
(* value, while weaved goes on.                                            *)
(*                                                                         *)
(* One listener is modelled: weaved notifies each as if it were alone.     *)
(* How its connection comes about is WeaveConnection's, which implements   *)
(* ListenerLink for each; here the listener takes every step of it.        *)
(* libweave is external: it may start a session while others are open, and *)
(* ends each of them at most once.                                         *)
(***************************************************************************)
EXTENDS Integers, Sequences

CONSTANTS Sessions,  \* session ids libweave makes, each one once
          Modes,     \* pairing modes
          Codes,     \* pairing codes
          Empty      \* the empty string

ASSUME PairingAssumption == Empty \notin Sessions \cup Modes \cup Codes

\* The constants of IWeaveServiceManagerNotificationListener; a notification
\* lists them in this order.
PAIRING_SESSION_ID == 9
PAIRING_MODE == 10
PAIRING_CODE == 11
Fields == PAIRING_SESSION_ID..PAIRING_CODE

Info(session, mode, code) ==
  [f \in Fields |-> CASE f = PAIRING_SESSION_ID -> session
                      [] f = PAIRING_MODE -> mode
                      [] f = PAIRING_CODE -> code]
Nothing == Info(Empty, Empty, Empty)

Values(f) == CASE f = PAIRING_SESSION_ID -> Sessions \cup {Empty}
               [] f = PAIRING_MODE -> Modes \cup {Empty}
               [] f = PAIRING_CODE -> Codes \cup {Empty}
Infos == {p \in [Fields -> Sessions \cup Modes \cup Codes \cup {Empty}] :
            \A f \in Fields : p[f] \in Values(f)}

VARIABLES
  weavedUp,       \* the weaved process is alive
  pairing,        \* its pairing_session_id_, pairing_mode_ and pairing_code_
  open,           \* sessions that have started and not ended
  latest,         \* the last session it started
  started,        \* all sessions ever started
  link,           \* the listener's connection to weaved
  base,           \* what weaved exposed when the listener was registered
  notifications,  \* notifyServiceManagerChange calls on their way
  reading,        \* ids OnNotification has still to read, {} outside of it
  changed,        \* its pairing_info_changed
  copy,           \* pairing_info_
  callback,       \* pairing_info_callback_ is set
  told            \* what it was last run with, Nothing for nullptr or never

\* The listener's connection, as WeaveConnection has it.
Link == INSTANCE ListenerLink WITH up <- weavedUp

weavedVars == <<weavedUp, pairing, open, latest, started>>
listenerVars == <<reading, changed, copy, callback, told>>
vars == <<weavedVars, link, base, notifications, listenerVars>>

TypeOK ==
  /\ weavedUp \in BOOLEAN
  /\ pairing \in Infos
  /\ open \subseteq Sessions
  /\ latest \in Infos
  /\ started \subseteq Infos
  /\ link \in Link!Stages
  /\ base \in Infos
  /\ notifications \in Seq(SUBSET Fields)
  /\ reading \subseteq Fields
  /\ changed \in BOOLEAN
  /\ copy \in Infos
  /\ callback \in BOOLEAN
  /\ told \in Infos

Init ==
  /\ Link!Init
  /\ pairing = Nothing
  /\ open = {}
  /\ latest = Nothing
  /\ started = {}
  /\ base = Nothing
  /\ notifications = <<>>
  /\ reading = {}
  /\ changed = FALSE
  /\ copy = Nothing
  /\ callback = FALSE
  /\ told = Nothing

-----------------------------------------------------------------------------
\* An UpdateValue that reports a value only when it was not set before.
ReportIfNew(p, q) == {f \in Fields : p[f] # q[f] /\ p[f] = Empty}

\* UpdateValue of each value: the ids of those that change.
UpdateValue(p, q) == {f \in Fields : p[f] # q[f]}

\* Manager::NotifyServiceManagerChange.
NotifyServiceManagerChange(ids) ==
  notifications' = IF ids # {} /\ link = "registered"
                   THEN Append(notifications, ids) ELSE notifications

\* The values become p, and the listener is told which of them changed.
Expose(p) ==
  /\ pairing' = p
  /\ NotifyServiceManagerChange(UpdateValue(pairing, p))

\* Manager::OnPairingStart: the most recent session overwrites any other.
OnPairingStart(session, mode, code) ==
  LET info == Info(session, mode, code)
  IN /\ weavedUp
     /\ \A p \in started : p[PAIRING_SESSION_ID] # session
     /\ Expose(info)
     /\ open' = open \cup {session}
     /\ latest' = info
     /\ started' = started \cup {info}
     /\ UNCHANGED <<weavedUp, link, base, listenerVars>>

\* An OnPairingEnd that clears the values whatever session they are of.
EndAnySession(session) ==
  /\ weavedUp /\ session \in open
  /\ open' = open \ {session}
  /\ Expose(Nothing)
  /\ UNCHANGED <<weavedUp, latest, started, link, base, listenerVars>>

\* Manager::OnPairingEnd.
OnPairingEnd(session) ==
  /\ weavedUp /\ session \in open
  /\ open' = open \ {session}
  /\ IF pairing[PAIRING_SESSION_ID] = session
     THEN Expose(Nothing)
     ELSE UNCHANGED <<pairing, notifications>>
  /\ UNCHANGED <<weavedUp, latest, started, link, base, listenerVars>>

\* OnTraitDefsChanged, OnComponentTreeChanged, OnGcdStateChanged and
\* OnConfigChanged notify of values that have nothing to do with pairing; the
\* bound on these is one waiting at a time.
OnOtherChanged ==
  /\ weavedUp /\ link = "registered" /\ (\A i \in DOMAIN notifications : notifications[i] # {})
  /\ notifications' = Append(notifications, {})
  /\ UNCHANGED <<weavedVars, link, base, listenerVars>>

\* weaved starts, and dies; what it sent may still arrive.
WeavedStart ==
  /\ Link!ServerStart
  /\ UNCHANGED <<pairing, open, latest, started, base, notifications,
                 listenerVars>>

WeavedStop ==
  /\ Link!ServerStop
  /\ pairing' = Nothing
  /\ latest' = Nothing
  /\ open' = {}
  /\ UNCHANGED <<started, base, notifications, listenerVars>>

\* Manager::registerNotificationListener: nothing tells the listener what the
\* values are already.
RegisterNotificationListener ==
  /\ Link!Register
  /\ base' = pairing
  /\ UNCHANGED <<pairing, open, latest, started, notifications, listenerVars>>

-----------------------------------------------------------------------------
\* PairingInfo as the callback is given it: nullptr unless it is complete.
Shown(p) == IF \E f \in Fields : p[f] = Empty THEN Nothing ELSE p

\* ServiceImpl::TryConnecting, when it finds a weaved or its dead binder.
TryConnecting ==
  /\ Link!TryConnecting
  /\ UNCHANGED <<pairing, open, latest, started, base, notifications,
                 listenerVars>>

\* ServiceImpl::ReconnectOnServiceDisconnection, ~ServiceImpl or the death of
\* the process, which may interrupt an OnNotification: the next instance has
\* no callback, and the notifications meant for this one do not reach it.
Leave ==
  /\ Link!Leave
  /\ base' = Nothing
  /\ notifications' = <<>>
  /\ changed' = FALSE
  /\ copy' = Nothing
  /\ callback' = FALSE
  /\ told' = Nothing
  /\ reading' = {}
  /\ UNCHANGED <<pairing, open, latest, started>>

\* A SetPairingInfoListener that leaves the callback to the next change.
SetPairingInfoListenerOnly(isSet) ==
  /\ link # "none" /\ reading = {}
  /\ callback' = isSet
  /\ told' = Nothing
  /\ UNCHANGED <<weavedVars, link, base, notifications, reading, changed, copy>>

\* ServiceImpl::SetPairingInfoListener, with a callback or without.
SetPairingInfoListener(isSet) ==
  /\ link # "none" /\ reading = {}
  /\ callback' = isSet
  /\ told' = IF isSet THEN Shown(copy) ELSE Nothing
  /\ UNCHANGED <<weavedVars, link, base, notifications, reading, changed, copy>>

\* ServiceImpl::OnNotification begins.
OnNotification ==
  /\ reading = {} /\ notifications # <<>>
  /\ reading' = Head(notifications)
  /\ notifications' = Tail(notifications)
  /\ changed' = FALSE
  /\ UNCHANGED <<weavedVars, link, base, copy, callback, told>>

First(ids) == CHOOSE f \in ids : \A g \in ids : f <= g

\* Manager::getPairingSessionId, getPairingMode and getPairingCode.
getPairing(f) == pairing[f]

\* ... and asks weaved for every value with the call meant for the code.
ReadCode ==
  /\ reading # {}
  /\ reading' = reading \ {First(reading)}
  /\ copy' = IF link = "registered"
             THEN [copy EXCEPT ![First(reading)] = getPairing(PAIRING_CODE)]
             ELSE copy
  /\ changed' = (changed \/ link = "registered")
  /\ told' = IF reading' = {} /\ changed' /\ callback
             THEN Shown(copy') ELSE told
  /\ UNCHANGED <<weavedVars, link, base, notifications, callback>>

\* ... and runs the callback for complete information only.
ReadTellingStarts ==
  /\ reading # {}
  /\ reading' = reading \ {First(reading)}
  /\ copy' = IF link = "registered"
             THEN [copy EXCEPT ![First(reading)] = getPairing(First(reading))]
             ELSE copy
  /\ changed' = (changed \/ link = "registered")
  /\ told' = IF reading' = {} /\ changed' /\ callback /\ Shown(copy') # Nothing
             THEN copy' ELSE told
  /\ UNCHANGED <<weavedVars, link, base, notifications, callback>>

\* ... asks weaved for the next value, which fails if that weaved is dead,
\* and, after the last one, runs the callback if any call succeeded.
ReadValue ==
  /\ reading # {}
  /\ reading' = reading \ {First(reading)}
  /\ copy' = IF link = "registered"
             THEN [copy EXCEPT ![First(reading)] = getPairing(First(reading))]
             ELSE copy
  /\ changed' = (changed \/ link = "registered")
  /\ told' = IF reading' = {} /\ changed' /\ callback
             THEN Shown(copy') ELSE told
  /\ UNCHANGED <<weavedVars, link, base, notifications, callback>>

Next ==
  \/ \E session \in Sessions :
       \/ \E mode \in Modes, code \in Codes : OnPairingStart(session, mode, code)
       \/ OnPairingEnd(session)
  \/ OnOtherChanged
  \/ WeavedStart
  \/ WeavedStop
  \/ TryConnecting
  \/ RegisterNotificationListener
  \/ Leave
  \/ \E isSet \in BOOLEAN : SetPairingInfoListener(isSet)
  \/ OnNotification
  \/ ReadValue

Spec == Init /\ [][Next]_vars

\* Notifications are delivered and their handler goes on; nothing is assumed
\* of sessions, of the user or of weaved's life.
LiveSpec == Spec /\ WF_vars(OnNotification) /\ WF_vars(ReadValue)

-----------------------------------------------------------------------------
\* A listener that is registered and has nothing left to hear.
Settled == link = "registered" /\ notifications = <<>> /\ reading = {}

\* weaved exposes the session started last until that session ends, whatever
\* other sessions end in between, and nothing afterwards
\* (Manager::OnPairingStart, OnPairingEnd).
ShownIsLatestOpen ==
  pairing = IF latest[PAIRING_SESSION_ID] \in open THEN latest ELSE Nothing

\* A settled ServiceImpl's pairing_info_ is weaved's, value by value, but for
\* those that have not changed since it was registered: UpdateValue's ids and
\* reads that race with later sessions lose no change.
CopyFollows ==
  Settled => \A f \in Fields :
    \/ copy[f] = pairing[f]
    \/ copy[f] = Empty /\ pairing[f] = base[f]

\* A settled listener registered while no session was exposed has told its
\* user what weaved exposes, whenever the callback was set
\* (ServiceImpl::OnNotification, SetPairingInfoListener).
SettledListenerKnows ==
  Settled /\ callback /\ base = Nothing => told = pairing

\* ... and it settles: as long as its connection lasts, its user is told in
\* the end.
EventuallyKnows ==
  <>[](link = "registered" /\ callback /\ base = Nothing) => <>[](told = pairing)

\* "The |pairing_info| parameter is set to a pointer to pairing information on
\* starting the pairing session" (src/libweaved/service.h:90-93): what the
\* callback is given is the information of one session.
ToldIsWhole == told # Nothing => told \in started

=============================================================================
