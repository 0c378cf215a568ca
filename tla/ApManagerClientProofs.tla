------------------------ MODULE ApManagerClientProofs ------------------------
(***************************************************************************)
(* What ApManagerClient promises for any number of services and SSIDs.     *)
(***************************************************************************)
EXTENDS ApManagerClient, TLAPS

\* The proxies are there as long as the paths are kept.
Pointers ==
  /\ ProxiesAreLive
  /\ service_path \in 1..created \cup {None}
  /\ known \subseteq 1..created
  /\ object_manager_proxy => ssid \in Ssids

\* An answer is of a service made earlier, and of the client's own one only once
\* that was announced; one that succeeded set the SSID the client has.
Answers == \A r \in replies :
  /\ r[1] <= created
  /\ service_path # None => r[1] <= service_path
  /\ r[1] = service_path => r[1] \in known
  /\ r[2] /\ service_proxy # None
       => r[1] = service_proxy /\ config[service_proxy] = ssid

Inv == Pointers /\ Answers /\ RunsUnderItsSsid /\ NothingIsLeft /\ OthersAreRemoved

USE ApAssumption

\* The initial types.
LEMMA InitTypes == Init => TypeOK
<1> SUFFICES ASSUME Init PROVE TypeOK
  OBVIOUS
<1>1. config \in [Paths -> Ssids \cup {None}]
  BY DEF Init
<1>2. created \in 0..MaxServices
  BY DEF Init
<1> QED BY <1>1, <1>2 DEF Init, TypeOK

\* What has been made is among the paths.
LEMMA MadeArePaths == TypeOK => 1..created \subseteq Paths /\ services \subseteq Paths
BY DEF TypeOK, Paths

\* The next service made is one more.
LEMMA MakeTypes ==
  ASSUME TypeOK, NEW p \in Paths, Make(p)
  PROVE  /\ created' \in 0..MaxServices /\ p \in 1..created' /\ p = created + 1
         /\ services' \subseteq 1..created' /\ inflight' \subseteq 1..created'
         /\ 1..created \subseteq 1..created' /\ p \notin 1..created
         /\ started' = started /\ stuck' = stuck
         /\ started \subseteq services'
<1>1. created \in Nat /\ created' = created + 1 /\ p = created + 1
      /\ created + 1 <= MaxServices
  BY DEF Make, TypeOK
<1>2. 1..created \subseteq 1..created' /\ p \in 1..created' /\ p \notin 1..created
  BY <1>1
<1>3. services' = services \cup {p} /\ inflight' = inflight \cup {p}
      /\ UNCHANGED <<started, stuck>>
  BY DEF Make
<1> QED BY <1>1, <1>2, <1>3 DEF TypeOK

\* RemoveService takes a service away, or leaves it and remembers that it did.
LEMMA RemoveTypes ==
  ASSUME TypeOK, NEW p \in Paths, RemoveService(p)
  PROVE  /\ services' \subseteq services /\ started' \subseteq services'
         /\ started' \subseteq started /\ stuck' \subseteq Paths
         /\ stuck \subseteq stuck' /\ (p \in services' => p \in stuck')
BY DEF TypeOK, RemoveService

\* Every step keeps the types.
LEMMA NextTypes == TypeOK /\ [Next]_vars => TypeOK'
<1> SUFFICES ASSUME TypeOK, [Next]_vars PROVE TypeOK'
  OBVIOUS
<1> USE DEF proxyVars, serviceVars, apVars
<1>1. CASE UNCHANGED vars
  BY <1>1 DEF vars, TypeOK
<1>2. ASSUME NEW s \in Ssids, Start(s) PROVE TypeOK'
  BY <1>2 DEF Start, TypeOK
<1>3. CASE Stop
  <2>1. service_path # None => service_path \in Paths
    BY DEF TypeOK
  <2>2. /\ services' \subseteq services /\ started' \subseteq services'
        /\ stuck' \subseteq Paths
    BY <1>3, <2>1, RemoveTypes DEF Stop, Removable, TypeOK
  <2> QED BY <1>3, <2>2 DEF Stop, Forget, TypeOK
<1>4. CASE OnManagerAdded
  <2>1. CASE UNCHANGED <<created, apVars, inflight, foreign, service_path>>
    BY <1>4, <2>1 DEF OnManagerAdded, TypeOK
  <2>2. ASSUME NEW p \in Paths, Make(p),
               \/ service_path' = p /\ UNCHANGED foreign
               \/ foreign' = foreign \cup {p} /\ UNCHANGED service_path
        PROVE  TypeOK'
    BY <1>4, <2>2, MakeTypes DEF OnManagerAdded, TypeOK
  <2> QED BY <1>4, <2>1, <2>2 DEF OnManagerAdded
<1>5. CASE OnManagerRemoved
  BY <1>5 DEF OnManagerRemoved, Forget, TypeOK
<1>6. CASE WeavedRestarts
  BY <1>6, MadeArePaths DEF WeavedRestarts, Forget, TypeOK
<1>7. CASE ApmanagerLeaves \/ ApmanagerReturns
  BY <1>7 DEF ApmanagerLeaves, ApmanagerReturns, TypeOK
<1>8. ASSUME NEW p \in Paths, ServiceStep(p) PROVE TypeOK'
  <2>1. CASE OnServiceAdded(p)
    <3>1. config' \in [Paths -> Ssids \cup {None}] /\ replies' \subseteq Paths \X BOOLEAN
      BY <2>1 DEF OnServiceAdded, TypeOK
    <3> QED BY <2>1, <3>1 DEF OnServiceAdded, TypeOK
  <2>2. CASE OnForeignServiceAdded(p)
    <3>1. CASE WeavedRestarts
      BY <1>6, <3>1
    <3>2. CASE ~WeavedRestarts
      <4>1. /\ services' \subseteq services /\ started' \subseteq services'
            /\ stuck' \subseteq Paths
        BY <2>2, <3>2, RemoveTypes DEF OnForeignServiceAdded
      <4> QED BY <2>2, <3>2, <4>1 DEF OnForeignServiceAdded, TypeOK
    <3> QED BY <3>1, <3>2
  <2>3. CASE SignalIsLost(p) \/ OnServiceRemoved(p) \/ ServiceIsDropped(p)
    BY <2>3 DEF SignalIsLost, OnServiceRemoved, ServiceIsDropped, TypeOK
  <2>4. ASSUME NEW success \in BOOLEAN, OnSsidSet(p, success) PROVE TypeOK'
    BY <2>4 DEF OnSsidSet, MayStart, TypeOK
  <2>5. CASE AnotherClientCreates(p)
    BY <2>5, MakeTypes DEF AnotherClientCreates, TypeOK
  <2> QED BY <1>8, <2>1, <2>2, <2>3, <2>4, <2>5 DEF ServiceStep
<1> QED BY <1>1, <1>2, <1>3, <1>4, <1>5, <1>6, <1>7, <1>8 DEF Next

\* At first there is nothing.
LEMMA InitInv == Init => Inv
BY DEF Init, Inv, Pointers, Answers, ProxiesAreLive, RunsUnderItsSsid,
   NothingIsLeft, OthersAreRemoved

\* Letting go of everything keeps the invariant as long as no service gains an SSID
\* or starts, and none is left that nobody answers for.
LEMMA ForgetInv ==
  ASSUME TypeOK, TypeOK', Inv, Forget,
         created' = created, config' = config, replies' \subseteq replies,
         started' \subseteq started, services' \subseteq foreign' \cup stuck'
  PROVE  Inv'
<1>1. Pointers' /\ OthersAreRemoved'
  BY DEF Forget, Pointers, ProxiesAreLive, OthersAreRemoved
<1>2. Answers'
  <2> SUFFICES ASSUME NEW r \in replies'
               PROVE  r[1] <= created /\ r[1] # None
    BY DEF Answers, Forget
  <2> QED BY DEF Inv, Answers, TypeOK
<1>3. RunsUnderItsSsid'
  <2> SUFFICES ASSUME NEW p \in started' PROVE config[p] # None /\ p # None
    BY DEF RunsUnderItsSsid, Forget
  <2> QED BY DEF Inv, RunsUnderItsSsid, TypeOK, Paths
<1>4. NothingIsLeft'
  BY DEF NothingIsLeft
<1> QED BY <1>1, <1>2, <1>3, <1>4 DEF Inv

\* A step that leaves the client as it is, but for answers and signals that come
\* in, keeps the invariant if it makes no service that nobody answers for.
LEMMA OutsideInv ==
  ASSUME TypeOK, TypeOK', Inv, UNCHANGED <<proxyVars, serviceVars, config>>,
         created <= created', replies' \subseteq replies,
         started' \subseteq started, foreign \subseteq foreign',
         stuck \subseteq stuck',
         services' \subseteq services \cup (foreign' \ 1..created)
  PROVE  Inv'
<1> USE DEF proxyVars, serviceVars
<1>1. 1..created \subseteq 1..created'
  BY DEF TypeOK
<1>2. Pointers'
  BY <1>1 DEF Inv, Pointers, ProxiesAreLive
<1>3. Answers'
  <2> SUFFICES ASSUME NEW r \in replies' PROVE r[1] <= created'
    BY DEF Inv, Answers
  <2>1. r[1] \in Nat /\ r[1] <= created
    BY DEF Inv, Answers, TypeOK, Paths
  <2> QED BY <2>1 DEF TypeOK
<1>4. RunsUnderItsSsid'
  BY DEF Inv, RunsUnderItsSsid
<1>5. NothingIsLeft'
  BY DEF Inv, NothingIsLeft
<1>6. OthersAreRemoved'
  BY DEF Inv, OthersAreRemoved, Pointers
<1> QED BY <1>2, <1>3, <1>4, <1>5, <1>6 DEF Inv

\* Start keeps the invariant: there is no service that the new SSID could be
\* wrong for.
LEMMA StartInv ==
  ASSUME TypeOK, Inv, NEW s \in Ssids, Start(s)
  PROVE  Inv'
<1>0. service_path = None /\ service_proxy = None
  BY DEF Start, Inv, Pointers, ProxiesAreLive
<1> USE DEF Start, apVars
<1>1. Pointers' /\ OthersAreRemoved'
  BY <1>0 DEF Inv, Pointers, ProxiesAreLive, OthersAreRemoved
<1>2. Answers'
  <2> SUFFICES ASSUME NEW r \in replies PROVE r[1] <= created /\ r[1] # None
    BY <1>0 DEF Answers
  <2> QED BY DEF Inv, Answers, TypeOK
<1>3. RunsUnderItsSsid'
  <2> SUFFICES ASSUME NEW p \in started PROVE config[p] # None /\ p # None
    BY <1>0 DEF RunsUnderItsSsid
  <2> QED BY DEF Inv, RunsUnderItsSsid, TypeOK, Paths
<1>4. NothingIsLeft'
  BY DEF Inv, NothingIsLeft
<1> QED BY <1>1, <1>2, <1>3, <1>4 DEF Inv

\* Stop keeps it: the service that is let go of is removed, or stuck.
LEMMA StopInv ==
  ASSUME TypeOK, TypeOK', Inv, Stop
  PROVE  Inv'
<1>1. created' = created /\ config' = config /\ replies' = replies /\ Forget
      /\ foreign' = foreign
  BY DEF Stop
<1>2. CASE service_path # None
  <2>1. RemoveService(service_path) /\ service_path \in Paths
    BY <1>2 DEF Stop, Removable, Inv, Pointers, ProxiesAreLive, TypeOK
  <2>2. started' \subseteq started /\ services' \subseteq services
        /\ stuck \subseteq stuck'
        /\ (service_path \in services' => service_path \in stuck')
    BY <2>1, RemoveTypes
  <2>3. services' \subseteq foreign' \cup stuck'
    BY <1>1, <2>2 DEF Inv, NothingIsLeft
  <2> QED BY <1>1, <2>2, <2>3, ForgetInv
<1>3. CASE service_path = None
  <2>1. UNCHANGED apVars
    BY <1>3 DEF Stop, Removable
  <2>2. None \notin services
    BY MadeArePaths
  <2>3. services' \subseteq foreign' \cup stuck'
    BY <1>1, <1>3, <2>1, <2>2 DEF Inv, NothingIsLeft, apVars
  <2> QED BY <1>1, <2>1, <2>3, ForgetInv DEF apVars
<1> QED BY <1>2, <1>3

\* OnManagerAdded keeps it: a service made is the client's own, or nobody knows.
LEMMA ManagerAddedInv ==
  ASSUME TypeOK, TypeOK', Inv, OnManagerAdded
  PROVE  Inv'
<1>0. /\ object_manager_proxy /\ object_manager_proxy' /\ manager_proxy' = "live"
      /\ UNCHANGED <<known, service_proxy, ssid, replies, config>>
      /\ service_path = None /\ service_proxy = None
  BY DEF OnManagerAdded, Inv, Pointers, ProxiesAreLive
<1>1. CASE UNCHANGED <<created, apVars, inflight, foreign, service_path>>
  BY <1>0, <1>1 DEF Inv, Pointers, ProxiesAreLive, Answers, RunsUnderItsSsid,
     NothingIsLeft, OthersAreRemoved, apVars
<1>2. ASSUME NEW p \in Paths, Make(p),
             \/ service_path' = p /\ UNCHANGED foreign
             \/ foreign' = foreign \cup {p} /\ UNCHANGED service_path
      PROVE  Inv'
  <2>1. /\ p \in 1..created' /\ 1..created \subseteq 1..created'
        /\ p \notin 1..created /\ p = created + 1
        /\ started' = started /\ stuck' = stuck
    BY <1>2, MakeTypes
  <2>2. services' = services \cup {p} /\ created' = p
    BY <1>2 DEF Make
  <2>3. Pointers'
    BY <1>0, <1>2, <2>1 DEF Inv, Pointers, ProxiesAreLive
  <2>4. Answers'
    <3> SUFFICES ASSUME NEW r \in replies
                 PROVE  r[1] <= created' /\ r[1] <= p /\ r[1] # p /\ r[1] # None
      BY <1>0, <1>2 DEF Answers
    <3>1. r[1] \in Paths /\ r[1] <= created /\ created \in Nat
      BY DEF Inv, Answers, TypeOK
    <3>2. r[1] \in Nat /\ r[1] # None
      BY <3>1 DEF Paths
    <3> QED BY <3>1, <3>2, <2>1, <2>2
  <2>5. RunsUnderItsSsid'
    <3> SUFFICES ASSUME NEW q \in started
                 PROVE  config[q] # None /\ q # None /\ q # p
      BY <1>0, <1>2, <2>1 DEF RunsUnderItsSsid
    <3> QED BY <2>1 DEF Inv, RunsUnderItsSsid, TypeOK, Paths
  <2>6. NothingIsLeft'
    BY <1>0, <1>2, <2>1, <2>2 DEF Inv, NothingIsLeft, TypeOK, Paths
  <2>7. OthersAreRemoved'
    BY <1>0, <1>2, <2>1, <2>2 DEF Inv, OthersAreRemoved, Pointers, TypeOK, Paths
  <2> QED BY <2>3, <2>4, <2>5, <2>6, <2>7 DEF Inv
<1> QED BY <1>0, <1>1, <1>2 DEF OnManagerAdded

\* OnServiceAdded keeps it: no answer to an earlier set_ssid is still to come
\* that could start the service before its own SSID is set.
LEMMA ServiceAddedInv ==
  ASSUME TypeOK, TypeOK', Inv, NEW p \in Paths, OnServiceAdded(p)
  PROVE  Inv'
<1>0. /\ object_manager_proxy /\ p = service_path /\ service_proxy' = p
      /\ p \notin known /\ known' = known \cup {p} /\ p # None
      /\ UNCHANGED <<object_manager_proxy, manager_proxy, service_path, ssid,
                     created, services, started, stuck, foreign>>
      /\ \A r \in replies : r[1] < p => ~r[2]
  BY DEF OnServiceAdded, IsOwn, Announced, AnswersCameFirst, apVars
<1>1. PICK ok \in BOOLEAN :
        /\ config' = IF ok THEN [config EXCEPT ![p] = ssid] ELSE config
        /\ replies' = replies \cup {<<p, ok>>}
  BY DEF OnServiceAdded
<1>2. (ok => config'[p] = ssid) /\ \A q \in Paths \ {p} : config'[q] = config[q]
  BY <1>1 DEF TypeOK
<1>3. p \in 1..created /\ ssid # None
  BY <1>0 DEF Inv, Pointers, ProxiesAreLive
<1>4. Pointers'
  BY <1>0, <1>3 DEF Inv, Pointers, ProxiesAreLive
<1>5. Answers'
  <2>1. ASSUME NEW r \in replies
        PROVE  r[1] <= created /\ r[1] <= p /\ r[1] # p /\ ~r[2]
    <3>1. r[1] <= created /\ r[1] <= p /\ r[1] # p
      BY <1>0 DEF Inv, Answers
    <3>2. r[1] \in Int /\ p \in Int
      BY DEF TypeOK, Paths
    <3> QED BY <1>0, <3>1, <3>2
  <2>2. p <= created /\ p <= p
    BY <1>3 DEF TypeOK
  <2> SUFFICES ASSUME NEW r \in replies'
               PROVE  /\ r[1] <= created /\ r[1] <= p /\ (r[1] = p => p \in known')
                      /\ r[2] => r[1] = p /\ config'[p] = ssid
    BY <1>0 DEF Answers
  <2>3. CASE r \in replies
    BY <2>1, <2>3
  <2>4. CASE r = <<p, ok>>
    BY <1>0, <1>2, <2>2, <2>4
  <2> QED BY <1>1, <2>3, <2>4
<1>6. RunsUnderItsSsid'
  <2> SUFFICES ASSUME NEW q \in started
               PROVE  config'[q] # None /\ (q = p => config'[q] = ssid)
    BY <1>0 DEF RunsUnderItsSsid
  <2>1. q \in Paths /\ config[q] # None /\ (q = p => config[q] = ssid)
    BY <1>0, MadeArePaths DEF Inv, RunsUnderItsSsid, TypeOK
  <2>2. CASE q = p
    BY <1>1, <1>2, <1>3, <2>1, <2>2
  <2> QED BY <1>2, <2>1, <2>2
<1>7. NothingIsLeft' /\ OthersAreRemoved'
  BY <1>0 DEF Inv, NothingIsLeft, OthersAreRemoved
<1> QED BY <1>4, <1>5, <1>6, <1>7 DEF Inv

\* OnServiceAdded keeps it for a service that is not the client's own, too:
\* this one is removed, or stuck, or weaved dies.
LEMMA ForeignServiceAddedInv ==
  ASSUME TypeOK, TypeOK', Inv, NEW p \in Paths, OnForeignServiceAdded(p)
  PROVE  Inv'
<1>1. CASE WeavedRestarts
  BY <1>1, ForgetInv DEF WeavedRestarts, apVars, Inv, NothingIsLeft, TypeOK
<1>2. CASE ~WeavedRestarts
  <2>1. /\ p # service_path /\ known' = known \cup {p} /\ Announced(p)
        /\ RemoveService(p)
        /\ UNCHANGED <<object_manager_proxy, manager_proxy, serviceVars, replies,
                       created, config, foreign>>
    BY <1>2 DEF OnForeignServiceAdded, IsOwn
  <2>2. /\ services' \subseteq services /\ started' \subseteq started
        /\ stuck \subseteq stuck' /\ (p \in services' => p \in stuck')
    BY <2>1, RemoveTypes
  <2>3. p \in 1..created
    BY <2>1 DEF Announced, TypeOK
  <2>4. Pointers'
    BY <2>1, <2>3 DEF Inv, Pointers, ProxiesAreLive, serviceVars
  <2>5. Answers'
    BY <2>1 DEF Inv, Answers, serviceVars
  <2>6. RunsUnderItsSsid' /\ NothingIsLeft' /\ OthersAreRemoved'
    BY <2>1, <2>2 DEF Inv, RunsUnderItsSsid, NothingIsLeft, OthersAreRemoved,
       serviceVars
  <2> QED BY <2>4, <2>5, <2>6 DEF Inv
<1> QED BY <1>1, <1>2

\* OnSsidSet keeps it: the answer that starts the service is its own.
LEMMA SsidSetInv ==
  ASSUME TypeOK, TypeOK', Inv, NEW p \in Paths, NEW success \in BOOLEAN,
         OnSsidSet(p, success)
  PROVE  Inv'
<1>1. /\ <<p, success>> \in replies /\ replies' \subseteq replies
      /\ UNCHANGED <<proxyVars, serviceVars, created, services, stuck, config,
                     foreign>>
  BY DEF OnSsidSet
<1>2. CASE UNCHANGED started
  BY <1>1, <1>2, OutsideInv DEF serviceVars, proxyVars, TypeOK
<1>3. CASE /\ success /\ service_proxy # None
           /\ started' = started \cup ({service_proxy} \cap services)
  <2>1. config[service_proxy] = ssid /\ service_proxy = service_path /\ ssid # None
    BY <1>1, <1>3 DEF Inv, Answers, Pointers, ProxiesAreLive
  <2>2. RunsUnderItsSsid'
    BY <1>1, <1>3, <2>1 DEF Inv, RunsUnderItsSsid, serviceVars
  <2>3. Pointers' /\ Answers'
    BY <1>1 DEF Inv, Pointers, Answers, ProxiesAreLive, proxyVars, serviceVars
  <2>4. NothingIsLeft' /\ OthersAreRemoved'
    BY <1>1 DEF Inv, NothingIsLeft, OthersAreRemoved, proxyVars, serviceVars
  <2> QED BY <2>2, <2>3, <2>4 DEF Inv
<1> QED BY <1>2, <1>3 DEF OnSsidSet, MayStart

\* OnServiceRemoved keeps it: what is let go of is gone.
LEMMA ServiceRemovedInv ==
  ASSUME TypeOK, TypeOK', Inv, NEW p \in Paths, OnServiceRemoved(p)
  PROVE  Inv'
<1>1. /\ p \in known /\ p \notin services /\ known' = known \ {p}
      /\ UNCHANGED <<object_manager_proxy, manager_proxy, ssid, replies, created,
                     services, started, stuck, config, foreign>>
  BY DEF OnServiceRemoved, apVars
<1>2. CASE p = service_path
  <2>1. service_path' = None /\ service_proxy' = None
    BY <1>2 DEF OnServiceRemoved
  <2>2. Pointers'
    BY <1>1, <2>1 DEF Inv, Pointers, ProxiesAreLive
  <2>3. Answers'
    <3> SUFFICES ASSUME NEW r \in replies PROVE r[1] <= created /\ r[1] # None
      BY <1>1, <2>1 DEF Answers
    <3> QED BY DEF Inv, Answers, TypeOK
  <2>4. RunsUnderItsSsid'
    <3> SUFFICES ASSUME NEW q \in started PROVE config[q] # None /\ q # None
      BY <1>1, <2>1 DEF RunsUnderItsSsid
    <3> QED BY MadeArePaths DEF Inv, RunsUnderItsSsid, TypeOK
  <2>5. NothingIsLeft' /\ OthersAreRemoved'
    BY <1>1, <1>2, <2>1 DEF Inv, NothingIsLeft, OthersAreRemoved
  <2> QED BY <2>2, <2>3, <2>4, <2>5 DEF Inv
<1>3. CASE p # service_path
  <2>1. UNCHANGED <<service_path, service_proxy>>
    BY <1>3 DEF OnServiceRemoved
  <2>2. Pointers' /\ Answers'
    BY <1>1, <1>3, <2>1 DEF Inv, Pointers, ProxiesAreLive, Answers
  <2>3. RunsUnderItsSsid' /\ NothingIsLeft' /\ OthersAreRemoved'
    BY <1>1, <2>1 DEF Inv, RunsUnderItsSsid, NothingIsLeft, OthersAreRemoved
  <2> QED BY <2>2, <2>3 DEF Inv
<1> QED BY <1>2, <1>3

\* Without apmanager there is no service.
NoneWithoutApmanager == up \/ services = {}

LEMMA NextNone ==
  TypeOK /\ NoneWithoutApmanager /\ [Next]_vars => NoneWithoutApmanager'
<1> SUFFICES ASSUME TypeOK, NoneWithoutApmanager, [Next]_vars
             PROVE  NoneWithoutApmanager'
  OBVIOUS
<1> USE DEF NoneWithoutApmanager, apVars
<1>1. ASSUME NEW p \in Paths, RemoveService(p) PROVE services' \subseteq services
  BY <1>1, RemoveTypes
<1>2. CASE Stop
  <2>1. service_path # None => service_path \in Paths
    BY DEF TypeOK
  <2>2. services' \subseteq services /\ up' = up
    BY <1>1, <1>2, <2>1 DEF Stop, Removable
  <2> QED BY <2>2
<1>3. CASE OnManagerAdded
  BY <1>3 DEF OnManagerAdded
<1>4. ASSUME NEW p \in Paths, ServiceStep(p) PROVE NoneWithoutApmanager'
  <2>1. CASE OnForeignServiceAdded(p)
    <3>1. CASE WeavedRestarts
      BY <3>1 DEF WeavedRestarts
    <3>2. CASE RemoveService(p) /\ up' = up
      BY <1>1, <3>2
    <3> QED BY <2>1, <3>1, <3>2 DEF OnForeignServiceAdded
  <2>2. CASE \E success \in BOOLEAN : OnSsidSet(p, success)
    BY <2>2 DEF OnSsidSet
  <2>3. CASE OnServiceAdded(p) \/ SignalIsLost(p) \/ OnServiceRemoved(p)
    BY <2>3 DEF OnServiceAdded, SignalIsLost, OnServiceRemoved
  <2>4. CASE ServiceIsDropped(p) \/ AnotherClientCreates(p)
    BY <2>4 DEF ServiceIsDropped, AnotherClientCreates, Make
  <2> QED BY <1>4, <2>1, <2>2, <2>3, <2>4 DEF ServiceStep
<1>5. CASE OnManagerRemoved \/ ApmanagerLeaves \/ ApmanagerReturns \/ WeavedRestarts
  BY <1>5 DEF OnManagerRemoved, ApmanagerLeaves, ApmanagerReturns, WeavedRestarts
<1>6. CASE UNCHANGED vars \/ \E s \in Ssids : Start(s)
  BY <1>6 DEF vars, Start
<1> QED BY <1>2, <1>3, <1>4, <1>5, <1>6 DEF Next

\* Every step keeps the invariant.
LEMMA NextInv ==
  TypeOK /\ TypeOK' /\ NoneWithoutApmanager /\ Inv /\ [Next]_vars => Inv'
<1> SUFFICES ASSUME TypeOK, TypeOK', NoneWithoutApmanager, Inv, [Next]_vars
             PROVE  Inv'
  OBVIOUS
<1>0. created <= created
  BY DEF TypeOK
<1>1. CASE UNCHANGED vars
  BY <1>0, <1>1, OutsideInv DEF vars, apVars
<1>2. CASE OnManagerRemoved
  <2>1. services' = {}
    BY <1>2 DEF OnManagerRemoved, apVars, NoneWithoutApmanager
  <2> QED BY <1>2, <2>1, ForgetInv DEF OnManagerRemoved, apVars
<1>3. CASE WeavedRestarts
  BY <1>3, ForgetInv DEF WeavedRestarts, apVars
<1>4. CASE ApmanagerLeaves \/ ApmanagerReturns
  BY <1>0, <1>4, OutsideInv DEF ApmanagerLeaves, ApmanagerReturns, apVars
<1>5. ASSUME NEW p \in Paths, ServiceStep(p) PROVE Inv'
  <2>1. CASE SignalIsLost(p) \/ ServiceIsDropped(p)
    BY <1>0, <2>1, OutsideInv DEF SignalIsLost, ServiceIsDropped, apVars
  <2>2. CASE AnotherClientCreates(p)
    <3>1. p \notin 1..created /\ started' = started /\ stuck' = stuck
          /\ created <= created'
      BY <2>2, MakeTypes DEF AnotherClientCreates, TypeOK
    <3>2. services' \subseteq services \cup (foreign' \ 1..created)
      BY <2>2, <3>1 DEF AnotherClientCreates, Make
    <3> QED BY <2>2, <3>1, <3>2, OutsideInv DEF AnotherClientCreates
  <2> QED BY <1>5, <2>1, <2>2, ServiceAddedInv, ForeignServiceAddedInv,
             SsidSetInv, ServiceRemovedInv DEF ServiceStep
<1> QED BY <1>1, <1>2, <1>3, <1>4, <1>5, StartInv, StopInv, ManagerAddedInv
        DEF Next

\* The types of the client's members, of what apmanager has and of what is under
\* way between them.
THEOREM TypeCorrect == Spec => []TypeOK
<1> QED BY InitTypes, NextTypes, PTL DEF Spec

\* The invariant holds of every state.
LEMMA SpecInv == Spec => []Inv
<1>1. Init => NoneWithoutApmanager
  BY DEF Init, NoneWithoutApmanager
<1> QED BY <1>1, InitTypes, NextTypes, NextNone, InitInv, NextInv, PTL DEF Spec

\* A service is kept only with the manager that made it, and its proxy only as
\* long as the proxy is there (Start, Stop, OnServiceRemoved, OnManagerRemoved).
THEOREM PointersAreSafe == Spec => []ProxiesAreLive
<1>1. Inv => ProxiesAreLive
  BY DEF Inv, Pointers
<1> QED BY <1>1, SpecInv, PTL

\* The access point that runs for the client has the SSID the client was given,
\* whatever answers were under way (OnServiceAdded, OnSsidSet).
THEOREM SsidIsTheOneGiven == Spec => []RunsUnderItsSsid
<1>1. Inv => RunsUnderItsSsid
  BY DEF Inv
<1> QED BY <1>1, SpecInv, PTL

\* No access point outlives Stop, the loss of a signal or a restart unless a call
\* failed or nobody knew of it (Stop, RemoveService).
THEOREM NothingOutlivesStop == Spec => []NothingIsLeft
<1>1. Inv => NothingIsLeft
  BY DEF Inv
<1> QED BY <1>1, SpecInv, PTL

\* Every service of another client, or of weaved before a restart, that a proxy
\* announces is removed, or its removal failed (OnServiceAdded).
THEOREM OthersGo == Spec => []OthersAreRemoved
<1>1. Inv => OthersAreRemoved
  BY DEF Inv
<1> QED BY <1>1, SpecInv, PTL

=============================================================================
