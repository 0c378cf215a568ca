--------------------------- MODULE ApManagerClient ---------------------------
(***************************************************************************)
(* The soft access point of WiFi bootstrapping                             *)
(* (src/buffet/ap_manager_client.cc): on Start a fresh proxy of apmanager's *)
(* objects is made, its manager is asked for a service once it is          *)
(* announced, the service is given the SSID once it is announced, and is   *)
(* started once the SSID is set.  Stop undoes all of it.                   *)
(*                                                                         *)
(* A handler, with the blocking calls it makes, is one action.  External   *)
(* are apmanager, which may leave and come back, drop a service or serve   *)
(* another client, and whose answers may be failures, and D-Bus, which     *)
(* keeps the order of one peer's messages.  A fresh proxy announces the    *)
(* manager before the services that exist, but the signal of a new service *)
(* may still be under way when another proxy takes the place of the one    *)
(* that waited for it.  weaved may die at any time and is restarted.       *)
(***************************************************************************)
EXTENDS Integers

CONSTANTS Ssids,
          MaxServices,  \* bound on the services apmanager ever makes
          None          \* an invalid path, a null proxy, no SSID

Paths == 1..MaxServices  \* in the order they are made; none is used again

ASSUME ApAssumption == MaxServices \in Nat /\ None \notin Paths \cup Ssids

VARIABLES
  object_manager_proxy,  \* there is one
  manager_proxy,         \* it, unless it is null or went with an older proxy
  service_path, service_proxy, ssid,
  known,        \* the services object_manager_proxy has announced
  replies,      \* answers to set_ssid under way: the service and the success
  up,           \* apmanager runs
  created,      \* how many services it has made
  services, started, config,  \* those it has, those that run, their SSIDs
  inflight,     \* services whose signal is under way
  foreign,      \* history: services weaved does not know it has made
  stuck         \* history: services a RemoveService failed for

proxyVars == <<object_manager_proxy, manager_proxy, known>>
serviceVars == <<service_path, service_proxy, ssid>>
apVars == <<services, started, stuck>>
vars == <<proxyVars, serviceVars, replies, up, created, apVars, config, inflight,
          foreign>>

TypeOK ==
  /\ object_manager_proxy \in BOOLEAN
  /\ manager_proxy \in {"null", "live", "freed"}
  /\ service_path \in Paths \cup {None}
  /\ service_proxy \in Paths \cup {None}
  /\ ssid \in Ssids \cup {None}
  /\ known \subseteq Paths
  /\ replies \subseteq Paths \X BOOLEAN
  /\ up \in BOOLEAN
  /\ created \in 0..MaxServices
  /\ services \subseteq 1..created /\ started \subseteq services
  /\ config \in [Paths -> Ssids \cup {None}]
  /\ inflight \subseteq 1..created
  /\ foreign \subseteq Paths /\ stuck \subseteq Paths

\* An invalid path that is taken for a path.
ForgetBadly ==
  /\ object_manager_proxy' = FALSE /\ manager_proxy' = "null" /\ known' = {}
  /\ service_path' = 0 /\ service_proxy' = None /\ ssid' = None

\* What the client is before Start, and after Stop.
Forget ==
  /\ object_manager_proxy' = FALSE /\ manager_proxy' = "null" /\ known' = {}
  /\ service_path' = None /\ service_proxy' = None /\ ssid' = None

Init ==
  /\ object_manager_proxy = FALSE /\ manager_proxy = "null" /\ known = {}
  /\ service_path = None /\ service_proxy = None /\ ssid = None
  /\ replies = {} /\ inflight = {}
  /\ up \in BOOLEAN
  /\ created = 0 /\ services = {} /\ started = {}
  /\ config = [p \in Paths |-> None]
  /\ foreign = {} /\ stuck = {}

-----------------------------------------------------------------------------
\* Nothing but a service that is known is left when weaved dies and restarts.
WeavedRestarts ==
  /\ Forget
  /\ replies' = {} /\ inflight' = {}
  /\ foreign' = foreign \cup services
  /\ UNCHANGED <<up, created, apVars, config>>

\* Start, unless a service is there.
Start(s) ==
  /\ service_path = None
  /\ ssid' = s
  /\ object_manager_proxy' = TRUE /\ known' = {}
  /\ manager_proxy' = IF manager_proxy = "live" THEN "freed" ELSE manager_proxy
  /\ UNCHANGED <<service_path, service_proxy, replies, up, created, apVars, config,
                 inflight, foreign>>

RemoveService(p) == \E ok \in BOOLEAN :
  /\ services' = IF ok THEN services \ {p} ELSE services
  /\ started' = IF ok THEN started \ {p} ELSE started
  /\ stuck' = IF ok THEN stuck ELSE stuck \cup {p}

\* Stop asks whether it has the manager when it has let go of it, or before.
RemovableLate == FALSE
Removable == manager_proxy # "null" /\ service_path # None

Stop ==
  /\ object_manager_proxy
  /\ IF Removable THEN RemoveService(service_path) ELSE UNCHANGED apVars
  /\ Forget
  /\ UNCHANGED <<replies, up, created, config, inflight, foreign>>

\* apmanager makes a service and signals it.
Make(p) ==
  /\ up /\ created < MaxServices
  /\ p = created + 1
  /\ created' = p
  /\ services' = services \cup {p} /\ inflight' = inflight \cup {p}
  /\ UNCHANGED <<started, stuck>>

\* CreateService answers with a path, or fails, the service made or not.
OnManagerAdded ==
  /\ object_manager_proxy /\ up /\ manager_proxy # "live"
  /\ manager_proxy' = "live"
  /\ \/ \E p \in Paths :
          /\ service_path = None /\ Make(p)
          /\ \/ service_path' = p /\ UNCHANGED foreign
             \/ foreign' = foreign \cup {p} /\ UNCHANGED service_path
     \/ UNCHANGED <<created, apVars, inflight, foreign, service_path>>
  /\ UNCHANGED <<object_manager_proxy, known, service_proxy, ssid, replies, up,
                 config>>

\* Services come after the manager; a signal under way needs no manager.
Announced(p) ==
  /\ p \in inflight \/ (p \in services /\ manager_proxy = "live")
  /\ p \notin known

\* A set_ssid that succeeded was answered before the CreateService sent after
\* it made p.  A failure may be weaved's own, for an answer that did not come.
AnswersCameFirst(p) == \A r \in replies : r[1] < p => ~r[2]

AnyIsOwn(p) == TRUE  \* takes whatever is announced
IsOwn(p) == p = service_path

\* The client's own service, which is given the SSID ...  Where it has no
\* config proxy, the null pointer ends weaved (WeavedRestarts).
OnServiceAdded(p) ==
  /\ object_manager_proxy /\ Announced(p) /\ IsOwn(p) /\ AnswersCameFirst(p)
  /\ inflight' = inflight \ {p} /\ known' = known \cup {p}
  /\ service_proxy' = p
  /\ \E ok \in BOOLEAN :
       /\ p \notin services => ~ok
       /\ config' = IF ok THEN [config EXCEPT ![p] = ssid] ELSE config
       /\ replies' = replies \cup {<<p, ok>>}
  /\ UNCHANGED <<object_manager_proxy, manager_proxy, service_path, ssid, up,
                 created, apVars, foreign>>

\* Leaves the services of others alone.
OnForeignServiceIgnored(p) ==
  /\ object_manager_proxy /\ Announced(p) /\ ~IsOwn(p)
  /\ inflight' = inflight \ {p} /\ known' = known \cup {p}
  /\ UNCHANGED <<object_manager_proxy, manager_proxy, serviceVars, replies, up,
                 created, apVars, config, foreign>>

\* ... and any other, which is removed; without a manager, or with one that went
\* with its proxy, weaved may die of it.
OnForeignServiceAdded(p) ==
  /\ object_manager_proxy /\ Announced(p) /\ ~IsOwn(p)
  /\ \/ /\ manager_proxy # "null"
        /\ inflight' = inflight \ {p} /\ known' = known \cup {p}
        /\ RemoveService(p)
        /\ UNCHANGED <<object_manager_proxy, manager_proxy, serviceVars, replies,
                       up, created, config, foreign>>
     \/ manager_proxy # "live" /\ WeavedRestarts

\* Nobody hears of it.
SignalIsLost(p) ==
  /\ ~object_manager_proxy /\ p \in inflight
  /\ inflight' = inflight \ {p}
  /\ UNCHANGED <<proxyVars, serviceVars, replies, up, created, apVars, config,
                 foreign>>

MayStartUnset(success) == service_proxy # None  \* whether or not it has an SSID
MayStart(success) == success /\ service_proxy # None

\* Start of the service may fail, too.
OnSsidSet(p, success) ==
  /\ <<p, success>> \in replies
  /\ replies' = replies \ {<<p, success>>}
  /\ \/ /\ MayStart(success)
        /\ started' = started \cup ({service_proxy} \cap services)
     \/ UNCHANGED started
  /\ UNCHANGED <<proxyVars, serviceVars, up, created, services, stuck, config,
                 inflight, foreign>>

OnServiceRemoved(p) ==
  /\ object_manager_proxy /\ p \in known /\ p \notin services
  /\ known' = known \ {p}
  /\ IF p = service_path THEN service_path' = None /\ service_proxy' = None
                         ELSE UNCHANGED <<service_path, service_proxy>>
  /\ UNCHANGED <<object_manager_proxy, manager_proxy, ssid, replies, up, created,
                 apVars, config, inflight, foreign>>

\* Stop without a manager.
OnManagerRemoved ==
  /\ object_manager_proxy /\ manager_proxy = "live" /\ ~up
  /\ Forget
  /\ UNCHANGED <<replies, up, created, apVars, config, inflight, foreign>>

-----------------------------------------------------------------------------
\* apmanager leaves, and what it had is gone; its return is heard of after that.
ApmanagerLeaves ==
  /\ up /\ up' = FALSE
  /\ services' = {} /\ started' = {}
  /\ UNCHANGED <<proxyVars, serviceVars, replies, created, stuck, config, inflight,
                 foreign>>

ApmanagerReturns ==
  /\ ~up /\ manager_proxy # "live"
  /\ up' = TRUE
  /\ UNCHANGED <<proxyVars, serviceVars, replies, created, apVars, config, inflight,
                 foreign>>

\* A service fails, or another client has one made.
ServiceIsDropped(p) ==
  /\ p \in services
  /\ services' = services \ {p} /\ started' = started \ {p}
  /\ UNCHANGED <<proxyVars, serviceVars, replies, up, created, stuck, config,
                 inflight, foreign>>

AnotherClientCreates(p) ==
  /\ Make(p)
  /\ foreign' = foreign \cup {p}
  /\ UNCHANGED <<proxyVars, serviceVars, replies, up, config>>

ServiceStep(p) ==
  \/ OnServiceAdded(p) \/ OnForeignServiceAdded(p) \/ SignalIsLost(p)
  \/ \E success \in BOOLEAN : OnSsidSet(p, success)
  \/ OnServiceRemoved(p) \/ ServiceIsDropped(p) \/ AnotherClientCreates(p)

Next ==
  \/ \E s \in Ssids : Start(s)
  \/ Stop \/ OnManagerAdded \/ OnManagerRemoved
  \/ \E p \in Paths : ServiceStep(p)
  \/ ApmanagerLeaves \/ ApmanagerReturns \/ WeavedRestarts

Spec == Init /\ [][Next]_vars

-----------------------------------------------------------------------------
\* A service is kept only with the manager that made it, and its proxy only as
\* long as the proxy is there (Start, Stop, OnServiceRemoved, OnManagerRemoved).
ProxiesAreLive ==
  /\ service_path # None => object_manager_proxy /\ manager_proxy = "live"
  /\ service_proxy # None => service_proxy = service_path /\ service_proxy \in known

\* No access point runs without an SSID, and the client's own one runs under the
\* SSID that GetSsid tells (OnServiceAdded, OnSsidSet).
RunsUnderItsSsid == \A p \in started :
  config[p] # None /\ (p = service_path => config[p] = ssid)

\* apmanager has no service the client has made and let go of, unless a call
\* failed (Stop, RemoveService).
NothingIsLeft == services \subseteq {service_path} \cup foreign \cup stuck

\* A service that was announced and is not the client's own is gone, unless
\* RemoveService failed for it (OnServiceAdded).
OthersAreRemoved == known \cap services \subseteq {service_path} \cup stuck

=============================================================================
