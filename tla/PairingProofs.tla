--------------------------- MODULE PairingProofs ---------------------------
(***************************************************************************)
(* Pairing for any sessions, modes and codes: its types, what weaved       *)
(* exposes, and what a listener knows once it has heard everything.        *)
(***************************************************************************)
EXTENDS Pairing, TLAPS

-----------------------------------------------------------------------------
\* A typed value of each field, and back.
LEMMA InfoTypes ==
  ASSUME NEW s \in Sessions \cup {Empty}, NEW m \in Modes \cup {Empty},
         NEW c \in Codes \cup {Empty}
  PROVE  /\ Info(s, m, c) \in Infos
         /\ Info(s, m, c)[PAIRING_SESSION_ID] = s
         /\ Info(s, m, c)[PAIRING_MODE] = m
         /\ Info(s, m, c)[PAIRING_CODE] = c
BY DEF Info, Infos, Values, Fields, PAIRING_SESSION_ID, PAIRING_MODE,
       PAIRING_CODE

\* Nothing is an information whose fields are all empty.
LEMMA NothingTypes ==
  Nothing \in Infos /\ \A f \in Fields : Nothing[f] = Empty
<1>1. Nothing \in Infos
  BY InfoTypes DEF Nothing
<1>2. \A f \in Fields : Nothing[f] = Empty
  BY DEF Nothing, Info, Fields, PAIRING_SESSION_ID, PAIRING_MODE, PAIRING_CODE
<1>3. QED BY <1>1, <1>2

\* An information is what its fields are.
LEMMA InfoEqual ==
  ASSUME NEW p \in Infos, NEW q \in Infos, \A f \in Fields : p[f] = q[f]
  PROVE  p = q
BY DEF Infos

\* The next id to read is one of those left.
LEMMA FirstIn ==
  ASSUME NEW ids \in SUBSET Fields, ids # {}
  PROVE  First(ids) \in ids
<1>1. \E f \in ids : \A g \in ids : f <= g
  <2>1. \A g \in ids : g \in {9, 10, 11}
    BY DEF Fields, PAIRING_SESSION_ID, PAIRING_CODE
  <2>2. CASE 9 \in ids
    BY <2>1, <2>2
  <2>3. CASE 9 \notin ids /\ 10 \in ids
    BY <2>1, <2>3
  <2>4. CASE 9 \notin ids /\ 10 \notin ids
    <3>1. 11 \in ids
      BY <2>1, <2>4
    <3>2. \A g \in ids : g = 11
      BY <2>1, <2>4
    <3>3. QED BY <3>1, <3>2
  <2>5. QED BY <2>2, <2>3, <2>4
<1>2. QED BY <1>1 DEF First

\* What the callback is given has the type of an information.
LEMMA ShownTypes == ASSUME NEW p \in Infos PROVE Shown(p) \in Infos
BY NothingTypes DEF Shown

\* A notification sent keeps the queue's type.
LEMMA NotifyTypes ==
  ASSUME notifications \in Seq(SUBSET Fields), NEW ids \in SUBSET Fields,
         NotifyServiceManagerChange(ids)
  PROVE  notifications' \in Seq(SUBSET Fields)
BY DEF NotifyServiceManagerChange

\* ... and so does exposing a value.
LEMMA ExposeTypes ==
  ASSUME TypeOK, NEW p \in Infos, Expose(p)
  PROVE  pairing' \in Infos /\ notifications' \in Seq(SUBSET Fields)
<1>1. UpdateValue(pairing, p) \in SUBSET Fields
  BY DEF UpdateValue
<1>2. QED BY <1>1, NotifyTypes DEF Expose, TypeOK

-----------------------------------------------------------------------------
\* The initial types.
LEMMA InitTypes == ASSUME Init PROVE TypeOK
<1>1. Nothing \in Infos
  BY NothingTypes
<1>2. <<>> \in Seq(SUBSET Fields)
  OBVIOUS
<1>3. QED BY <1>1, <1>2 DEF Init, TypeOK, Link!Init, Link!Stages

\* Every step keeps the types.
LEMMA NextTypes == ASSUME TypeOK, [Next]_vars PROVE TypeOK'
<1> USE DEF weavedVars, listenerVars, Link!Stages
<1>1. ASSUME NEW session \in Sessions, NEW mode \in Modes, NEW code \in Codes,
             OnPairingStart(session, mode, code)
      PROVE  TypeOK'
  <2>1. Info(session, mode, code) \in Infos
    BY InfoTypes
  <2>2. pairing' \in Infos /\ notifications' \in Seq(SUBSET Fields)
    BY <1>1, <2>1, ExposeTypes DEF OnPairingStart
  <2>3. QED BY <1>1, <2>1, <2>2 DEF OnPairingStart, TypeOK
<1>2. ASSUME NEW session \in Sessions, OnPairingEnd(session)
      PROVE  TypeOK'
  <2>1. pairing' \in Infos /\ notifications' \in Seq(SUBSET Fields)
    BY <1>2, NothingTypes, ExposeTypes DEF OnPairingEnd, TypeOK
  <2>2. QED BY <1>2, <2>1 DEF OnPairingEnd, TypeOK
<1>0. CASE OnOtherChanged
  <2>1. notifications' \in Seq(SUBSET Fields)
    BY <1>0 DEF OnOtherChanged, TypeOK
  <2>2. QED BY <1>0, <2>1 DEF OnOtherChanged, TypeOK
<1>3. CASE WeavedStart
  BY <1>3 DEF WeavedStart, Link!ServerStart, TypeOK
<1>4. CASE WeavedStop
  <2>1. Nothing \in Infos
    BY NothingTypes
  <2>2. link' \in {"none", "lost"}
    BY <1>4 DEF WeavedStop, Link!ServerStop
  <2>3. QED BY <1>4, <2>1, <2>2 DEF WeavedStop, Link!ServerStop, TypeOK
<1>5. CASE TryConnecting
  BY <1>5 DEF TryConnecting, Link!TryConnecting, TypeOK
<1>6. CASE RegisterNotificationListener
  BY <1>6 DEF RegisterNotificationListener, Link!Register, TypeOK
<1>7. CASE Leave
  <2>1. Nothing \in Infos
    BY NothingTypes
  <2>2. notifications' \in Seq(SUBSET Fields)
    BY <1>7 DEF Leave
  <2>3. QED BY <1>7, <2>1, <2>2 DEF Leave, Link!Leave, TypeOK
<1>8. ASSUME NEW isSet \in BOOLEAN, SetPairingInfoListener(isSet)
      PROVE  TypeOK'
  <2>1. told' \in Infos
    BY <1>8, NothingTypes, ShownTypes DEF SetPairingInfoListener, TypeOK
  <2>2. QED BY <1>8, <2>1 DEF SetPairingInfoListener, TypeOK
<1>9. CASE OnNotification
  <2>1. /\ Head(notifications) \in SUBSET Fields
        /\ Tail(notifications) \in Seq(SUBSET Fields)
    BY <1>9 DEF OnNotification, TypeOK
  <2>2. QED BY <1>9, <2>1 DEF OnNotification, TypeOK
<1>10. CASE ReadValue
  <2>1. First(reading) \in Fields
    BY <1>10, FirstIn DEF ReadValue, TypeOK
  <2>2. copy' \in Infos
    BY <1>10, <2>1 DEF ReadValue, getPairing, TypeOK, Infos
  <2>3. told' \in Infos
    BY <1>10, <2>2, ShownTypes DEF ReadValue, TypeOK
  <2>4. QED BY <1>10, <2>2, <2>3 DEF ReadValue, TypeOK
<1>11. CASE UNCHANGED vars
  BY <1>11 DEF vars, TypeOK
<1>12. QED
  BY <1>0, <1>1, <1>2, <1>3, <1>4, <1>5, <1>6, <1>7, <1>8, <1>9, <1>10, <1>11
  DEF Next

\* Type correctness of Pairing.
THEOREM TypeCorrect == Spec => []TypeOK
BY InitTypes, NextTypes, PTL DEF Spec

(***************************************************************************)
(* What weaved exposes.  Only the step that starts or ends the latest      *)
(* session changes it, so the property is inductive.                       *)
(***************************************************************************)
\* Every step keeps what is exposed right.
LEMMA NextShown ==
  ASSUME PairingAssumption, ShownIsLatestOpen, [Next]_vars
  PROVE  ShownIsLatestOpen'
<1> USE DEF weavedVars, listenerVars
<1>0. Nothing[PAIRING_SESSION_ID] = Empty
  BY DEF Nothing, Info, Fields, PAIRING_SESSION_ID, PAIRING_CODE
<1>1. ASSUME NEW session \in Sessions, NEW mode \in Modes, NEW code \in Codes,
             OnPairingStart(session, mode, code)
      PROVE  ShownIsLatestOpen'
  <2>1. Info(session, mode, code)[PAIRING_SESSION_ID] = session
    BY InfoTypes
  <2>2. QED BY <1>1, <2>1 DEF OnPairingStart, Expose, ShownIsLatestOpen
<1>2. ASSUME NEW session \in Sessions, OnPairingEnd(session)
      PROVE  ShownIsLatestOpen'
  <2>1. session # Empty
    BY DEF PairingAssumption
  <2>2. open' = open \ {session} /\ latest' = latest /\ session \in open
    BY <1>2 DEF OnPairingEnd
  <2>3. CASE pairing[PAIRING_SESSION_ID] = session
    <3>1. pairing' = Nothing
      BY <1>2, <2>3 DEF OnPairingEnd, Expose
    <3>2. latest[PAIRING_SESSION_ID] = session
      BY <1>0, <2>1, <2>3 DEF ShownIsLatestOpen
    <3>3. QED BY <2>2, <3>1, <3>2 DEF ShownIsLatestOpen
  <2>4. CASE pairing[PAIRING_SESSION_ID] # session
    <3>1. pairing' = pairing
      BY <1>2, <2>4 DEF OnPairingEnd
    <3>2. latest[PAIRING_SESSION_ID] # session
      BY <2>2, <2>4 DEF ShownIsLatestOpen
    <3>3. QED BY <2>2, <3>1, <3>2 DEF ShownIsLatestOpen
  <2>5. QED BY <2>3, <2>4
<1>3. CASE WeavedStop
  BY <1>3 DEF WeavedStop, ShownIsLatestOpen
<1>4. CASE \/ OnOtherChanged
           \/ WeavedStart \/ TryConnecting \/ RegisterNotificationListener
           \/ Leave \/ OnNotification \/ ReadValue
           \/ \E isSet \in BOOLEAN : SetPairingInfoListener(isSet)
           \/ UNCHANGED vars
  <2>1. UNCHANGED <<pairing, latest, open>>
    BY <1>4 DEF WeavedStart, TryConnecting, RegisterNotificationListener,
                Leave, OnNotification, ReadValue, SetPairingInfoListener,
                OnOtherChanged, vars
  <2>2. QED BY <2>1 DEF ShownIsLatestOpen
<1>5. QED BY <1>1, <1>2, <1>3, <1>4 DEF Next

\* weaved exposes the latest session until it ends, and nothing afterwards.
THEOREM LatestIsShown ==
  ASSUME PairingAssumption PROVE Spec => []ShownIsLatestOpen
<1>1. Init => ShownIsLatestOpen
  BY DEF Init, ShownIsLatestOpen
<1>2. ShownIsLatestOpen /\ [Next]_vars => ShownIsLatestOpen'
  BY NextShown
<1>3. QED BY <1>1, <1>2, PTL DEF Spec

(***************************************************************************)
(* What a listener knows.  While it has something to hear its copy may be  *)
(* of several sessions; the invariant says, value by value, that what      *)
(* differs from weaved's is still to be read.                              *)
(***************************************************************************)
\* The value f will be read once more.
Pending(f) ==
  \/ f \in reading
  \/ \E i \in 1..Len(notifications) : f \in notifications[i]

\* A value is up to date, to be read, or was there before the listener.
Follows(f) ==
  \/ Pending(f)
  \/ copy[f] = pairing[f]
  \/ copy[f] = Empty /\ pairing[f] = base[f]

\* An instance not yet registered has heard nothing.
Deaf == /\ copy = Nothing
        /\ notifications = <<>>
        /\ reading = {}

KnowInv ==
  /\ link \in {"none", "calling"} => Deaf
  /\ link = "registered" => \A f \in Fields : Follows(f)
  /\ callback /\ (reading = {} \/ ~changed) => told = Shown(copy)

\* A notification that is sent leaves what was pending pending, and so becomes
\* what it lists.
LEMMA NotifyPending ==
  ASSUME TypeOK, link = "registered", NEW ids \in SUBSET Fields,
         NotifyServiceManagerChange(ids), reading' = reading, NEW f \in Fields,
         Pending(f) \/ f \in ids
  PROVE  Pending(f)'
<1>1. CASE f \in reading
  BY <1>1 DEF Pending
<1>2. CASE f \in ids
  <2>1. notifications' = Append(notifications, ids)
    BY <1>2 DEF NotifyServiceManagerChange
  <2>2. /\ Len(notifications') = Len(notifications) + 1
        /\ notifications'[Len(notifications) + 1] = ids
    BY <2>1 DEF TypeOK
  <2>3. Len(notifications) + 1 \in 1..Len(notifications')
    BY <2>2 DEF TypeOK
  <2>4. QED BY <1>2, <2>2, <2>3 DEF Pending
<1>3. ASSUME NEW i \in 1..Len(notifications), f \in notifications[i]
      PROVE  Pending(f)'
  <2>1. CASE notifications' = Append(notifications, ids)
    <3>1. i \in 1..Len(notifications') /\ notifications'[i] = notifications[i]
      BY <2>1 DEF TypeOK
    <3>2. QED BY <1>3, <3>1 DEF Pending
  <2>2. CASE notifications' = notifications
    BY <1>3, <2>2 DEF Pending
  <2>3. QED BY <2>1, <2>2 DEF NotifyServiceManagerChange
<1>4. QED BY <1>1, <1>2, <1>3 DEF Pending

\* A notification of other values leaves what was pending pending.
LEMMA OtherPending ==
  ASSUME TypeOK, OnOtherChanged, NEW f \in Fields, Pending(f)
  PROVE  Pending(f)'
<1>1. reading' = reading /\ notifications' = Append(notifications, {})
  BY DEF OnOtherChanged, listenerVars
<1>2. CASE f \in reading
  BY <1>1, <1>2 DEF Pending
<1>3. ASSUME NEW i \in 1..Len(notifications), f \in notifications[i]
      PROVE  Pending(f)'
  <2>1. i \in 1..Len(notifications') /\ notifications'[i] = notifications[i]
    BY <1>1 DEF TypeOK
  <2>2. QED BY <1>3, <2>1 DEF Pending
<1>4. QED BY <1>2, <1>3 DEF Pending

\* Exposing other values keeps a registered listener up to date or hearing.
LEMMA ExposeKnows ==
  ASSUME TypeOK, KnowInv, NEW p, Expose(p),
         UNCHANGED <<link, base, reading, changed, copy, callback, told>>
  PROVE  KnowInv'
<1>1. CASE link # "registered"
  <2>1. notifications' = notifications
    BY <1>1 DEF Expose, NotifyServiceManagerChange
  <2>2. QED BY <1>1, <2>1 DEF KnowInv, Deaf
<1>2. CASE link = "registered"
  <2>1. ASSUME NEW f \in Fields PROVE Follows(f)'
    <3>1. UpdateValue(pairing, p) \in SUBSET Fields
      BY DEF UpdateValue
    <3>2. CASE Pending(f) \/ f \in UpdateValue(pairing, p)
      BY <1>2, <3>1, <3>2, NotifyPending DEF Expose, Follows
    <3>3. CASE ~Pending(f) /\ f \notin UpdateValue(pairing, p)
      <4>1. pairing'[f] = pairing[f]
        BY <3>3 DEF Expose, UpdateValue
      <4>2. QED BY <1>2, <3>3, <4>1 DEF KnowInv, Follows
    <3>4. QED BY <3>2, <3>3
  <2>2. QED BY <1>2, <2>1 DEF KnowInv
<1>3. QED BY <1>1, <1>2

\* A handler that begins has still to read what its notification lists.
LEMMA BeginKnows ==
  ASSUME TypeOK, KnowInv, OnNotification
  PROVE  KnowInv'
<1> USE DEF weavedVars
<1>1. ASSUME NEW f \in Fields, Pending(f) PROVE Pending(f)'
  <2>1. PICK i \in 1..Len(notifications) : f \in notifications[i]
    BY <1>1 DEF Pending, OnNotification
  <2>2. CASE i = 1
    <3>1. f \in reading'
      BY <2>1, <2>2 DEF OnNotification, TypeOK
    <3>2. QED BY <3>1 DEF Pending
  <2>3. CASE i # 1
    <3>1. /\ i - 1 \in 1..Len(notifications')
          /\ notifications'[i - 1] = notifications[i]
      BY <2>3 DEF OnNotification, TypeOK
    <3>2. QED BY <2>1, <3>1 DEF Pending
  <2>4. QED BY <2>2, <2>3
<1>2. link' = "registered" => \A f \in Fields : Follows(f)'
  BY <1>1 DEF KnowInv, Follows, OnNotification
<1>3. link \notin {"none", "calling"}
  BY DEF KnowInv, Deaf, OnNotification
<1>4. callback' => told' = Shown(copy')
  BY DEF KnowInv, OnNotification
<1>5. QED BY <1>2, <1>3, <1>4 DEF KnowInv, OnNotification

\* A value that is read is up to date.
LEMMA ReadKnows ==
  ASSUME TypeOK, KnowInv, ReadValue
  PROVE  KnowInv'
<1> USE DEF weavedVars, getPairing
<1>1. First(reading) \in reading /\ First(reading) \in Fields
  BY FirstIn DEF ReadValue, TypeOK
<1>2. link \notin {"none", "calling"}
  BY DEF KnowInv, Deaf, ReadValue
<1>3. ASSUME link = "registered", NEW f \in Fields PROVE Follows(f)'
  <2>1. copy' = [copy EXCEPT ![First(reading)] = pairing[First(reading)]]
    BY <1>3 DEF ReadValue
  <2>2. copy \in [Fields -> Sessions \cup Modes \cup Codes \cup {Empty}]
    BY DEF TypeOK, Infos
  <2>3. CASE f = First(reading)
    <3>1. copy'[f] = pairing[f]
      BY <2>1, <2>2, <2>3
    <3>2. QED BY <3>1 DEF Follows, ReadValue
  <2>4. CASE f # First(reading)
    <3>1. copy'[f] = copy[f]
      BY <2>1, <2>2, <2>4
    <3>2. Pending(f) => Pending(f)'
      BY <2>4 DEF Pending, ReadValue
    <3>3. QED BY <1>3, <3>1, <3>2 DEF KnowInv, Follows, ReadValue
  <2>5. QED BY <2>3, <2>4
<1>4. ASSUME callback', reading' = {} \/ ~changed' PROVE told' = Shown(copy')
  <2>1. CASE changed'
    BY <1>4, <2>1 DEF ReadValue
  <2>2. CASE ~changed'
    BY <1>4, <2>2 DEF ReadValue, KnowInv
  <2>3. QED BY <2>1, <2>2
<1>5. QED BY <1>2, <1>3, <1>4 DEF KnowInv, ReadValue

\* Every step keeps what a listener knows.
LEMMA NextKnows ==
  ASSUME TypeOK, KnowInv, [Next]_vars
  PROVE  KnowInv'
<1> USE DEF weavedVars, listenerVars
<1>0. Shown(Nothing) = Nothing
  BY DEF Shown
<1>1. ASSUME NEW session \in Sessions, NEW mode \in Modes, NEW code \in Codes,
             OnPairingStart(session, mode, code)
      PROVE  KnowInv'
  BY <1>1, ExposeKnows DEF OnPairingStart
<1>2. ASSUME NEW session \in Sessions, OnPairingEnd(session)
      PROVE  KnowInv'
  <2>1. CASE pairing[PAIRING_SESSION_ID] = session
    BY <1>2, <2>1, ExposeKnows DEF OnPairingEnd
  <2>2. CASE pairing[PAIRING_SESSION_ID] # session
    BY <1>2, <2>2 DEF OnPairingEnd, KnowInv, Deaf, Follows, Pending
  <2>3. QED BY <2>1, <2>2
<1>12. CASE OnOtherChanged
  <2>1. link' = "registered"
    BY <1>12 DEF OnOtherChanged
  <2>2. \A f \in Fields : Follows(f)'
    BY <1>12, OtherPending DEF OnOtherChanged, KnowInv, Follows
  <2>3. QED BY <1>12, <2>1, <2>2 DEF OnOtherChanged, KnowInv
<1>3. CASE WeavedStart
  BY <1>3 DEF WeavedStart, Link!ServerStart, KnowInv, Deaf, Follows, Pending
<1>4. CASE WeavedStop
  BY <1>4 DEF WeavedStop, Link!ServerStop, KnowInv, Deaf
<1>5. CASE TryConnecting
  BY <1>5 DEF TryConnecting, Link!TryConnecting, KnowInv, Deaf
<1>6. CASE RegisterNotificationListener
  <2>1. Deaf
    BY <1>6 DEF RegisterNotificationListener, Link!Register, KnowInv
  <2>2. \A f \in Fields : Follows(f)'
    BY <1>6, <2>1, NothingTypes
    DEF RegisterNotificationListener, Link!Register, Deaf, Follows
  <2>3. QED BY <1>6, <2>2 DEF RegisterNotificationListener, Link!Register,
                               KnowInv
<1>7. CASE Leave
  BY <1>7, <1>0 DEF Leave, Link!Leave, KnowInv, Deaf
<1>8. ASSUME NEW isSet \in BOOLEAN, SetPairingInfoListener(isSet)
      PROVE  KnowInv'
  <2>1. callback' => told' = Shown(copy')
    BY <1>8 DEF SetPairingInfoListener
  <2>2. QED BY <1>8, <2>1
            DEF SetPairingInfoListener, KnowInv, Deaf, Follows, Pending
<1>9. CASE OnNotification
  BY <1>9, BeginKnows
<1>10. CASE ReadValue
  BY <1>10, ReadKnows
<1>11. CASE UNCHANGED vars
  BY <1>11 DEF vars, KnowInv, Deaf, Follows, Pending
<1>13. QED
  BY <1>12, <1>1, <1>2, <1>3, <1>4, <1>5, <1>6, <1>7, <1>8, <1>9, <1>10, <1>11
  DEF Next

\* A listener's knowledge in every state of a behaviour.
LEMMA SpecKnows == Spec => [](TypeOK /\ KnowInv)
<1>1. Init => KnowInv
  BY DEF Init, Link!Init, KnowInv, Deaf
<1>2. Init => TypeOK
  BY InitTypes
<1>3. TypeOK /\ KnowInv /\ [Next]_vars => TypeOK' /\ KnowInv'
  BY NextTypes, NextKnows
<1>4. QED BY <1>1, <1>2, <1>3, PTL DEF Spec

\* A settled listener's copy is weaved's, but for values it was never told of.
THEOREM CopiesFollow == Spec => []CopyFollows
<1>1. TypeOK /\ KnowInv => CopyFollows
  BY DEF KnowInv, CopyFollows, Settled, Follows, Pending, TypeOK
<1>2. QED BY <1>1, SpecKnows, PTL

\* A settled listener registered outside of a session has told its user what
\* weaved exposes.
THEOREM SettledListenersKnow ==
  ASSUME PairingAssumption PROVE Spec => []SettledListenerKnows
<1> DEFINE Whole == pairing = Nothing \/ \A f \in Fields : pairing[f] # Empty
<1>2. Init => Whole
  BY DEF Init
<1>3. Whole /\ [Next]_vars => Whole'
  <2> SUFFICES ASSUME Whole, [Next]_vars PROVE Whole'
    OBVIOUS
  <2> USE DEF weavedVars, listenerVars
  <2>1. ASSUME NEW session \in Sessions, NEW mode \in Modes, NEW code \in Codes,
               OnPairingStart(session, mode, code)
        PROVE  Whole'
    <3>1. pairing' = Info(session, mode, code)
      BY <2>1 DEF OnPairingStart, Expose
    <3>2. \A f \in Fields : Info(session, mode, code)[f] # Empty
      BY DEF Info, Fields, PairingAssumption, PAIRING_SESSION_ID,
             PAIRING_MODE, PAIRING_CODE
    <3>3. QED BY <3>1, <3>2
  <2>2. ASSUME NEW session \in Sessions, OnPairingEnd(session) PROVE Whole'
    BY <2>2 DEF OnPairingEnd, Expose
  <2>3. CASE WeavedStop
    BY <2>3 DEF WeavedStop
  <2>4. CASE \/ OnOtherChanged
             \/ WeavedStart \/ TryConnecting \/ RegisterNotificationListener
             \/ Leave \/ OnNotification \/ ReadValue
             \/ \E isSet \in BOOLEAN : SetPairingInfoListener(isSet)
             \/ UNCHANGED vars
    <3>1. UNCHANGED pairing
      BY <2>4 DEF WeavedStart, TryConnecting, RegisterNotificationListener,
                  Leave, OnNotification, ReadValue, SetPairingInfoListener,
                  OnOtherChanged, vars
    <3>2. QED BY <3>1
  <2>5. QED BY <2>1, <2>2, <2>3, <2>4 DEF Next
<1>4. TypeOK /\ KnowInv /\ Whole => SettledListenerKnows
  <2> SUFFICES ASSUME TypeOK, KnowInv, Whole, Settled, callback, base = Nothing
               PROVE  told = pairing
    BY DEF SettledListenerKnows
  <2>1. \A f \in Fields : ~Pending(f)
    BY DEF Settled, Pending
  <2>2. \A f \in Fields : copy[f] = pairing[f]
    BY <2>1, NothingTypes DEF KnowInv, Settled, Follows
  <2>3. copy = pairing
    BY <2>2, InfoEqual DEF TypeOK
  <2>4. told = Shown(pairing)
    BY <2>3 DEF KnowInv, Settled
  <2>5. Shown(pairing) = pairing
    BY DEF Shown
  <2>6. QED BY <2>4, <2>5
<1> HIDE DEF Whole
<1>5. QED BY <1>2, <1>3, <1>4, SpecKnows, PTL DEF Spec

=============================================================================
