-------------------------- MODULE AvahiMdnsClient --------------------------
(***************************************************************************)
(* The mDNS publisher (src/buffet/avahi_mdns_client.cc).  Two threads run  *)
(* it: the message loop, on which libweave publishes and stops publishing, *)
(* and Avahi's poll thread, which republishes what is published whenever   *)
(* avahi-daemon is running again.  Both work on the members and on the one *)
(* entry group, and neither takes a lock: a step is one call into Avahi,   *)
(* or a run of reads or of writes of the members.  A CHECK that fails ends *)
(* the process.                                                            *)
(*                                                                         *)
(* The entry group is Avahi's: a service is added to an empty group only,  *)
(* its text is updated only if it is there, and a group is committed once. *)
(***************************************************************************)

CONSTANTS Ports, Txts,  \* what libweave publishes
          None          \* no port, no text

PRIVET == "_privet._tcp"
Threads == {"main", "avahi"}
Labels == {"idle", "take", "withdraw", "forget", "compare", "keep", "decide",
           "update", "remember", "reset", "check", "add", "commit", "aborted"}

VARIABLES
  prev_service_type,
  prev_port,
  txt_records,
  group,        \* the services in group_, and whether it is committed
  pc, call,     \* where each thread is, and the call it makes
  asked,        \* history: what libweave wants published
  overlapped    \* history: both threads were at it at the same time

memberVars == <<prev_service_type, prev_port, txt_records>>
historyVars == <<asked, overlapped>>
vars == <<memberVars, group, pc, call, historyVars>>

Services == (Ports \cup {None}) \X (Txts \cup {None})
Calls == [type : {"", PRIVET}, port : Ports \cup {None}, txt : Txts \cup {None}]

TypeOK ==
  /\ prev_service_type \in {"", PRIVET}
  /\ prev_port \in Ports \cup {None}
  /\ txt_records \in Txts \cup {None}
  /\ group \in [services : SUBSET Services, committed : BOOLEAN]
  /\ pc \in [Threads -> Labels]
  /\ call \in [Threads -> Calls]
  /\ asked \subseteq Services
  /\ overlapped \in BOOLEAN

EmptyGroup == [services |-> {}, committed |-> FALSE]
Call(type, port, txt) == [type |-> type, port |-> port, txt |-> txt]

Init ==
  /\ prev_service_type = "" /\ prev_port = None /\ txt_records = None
  /\ group = EmptyGroup
  /\ pc = [t \in Threads |-> "idle"]
  /\ call = [t \in Threads |-> Call("", None, None)]
  /\ asked = {}
  /\ overlapped = FALSE

Goto(t, label) == pc' = [pc EXCEPT ![t] = label]
CheckThen(t, holds, label) == Goto(t, IF holds THEN label ELSE "aborted")
Begin(t, label) ==
  /\ pc[t] = "idle" /\ \A u \in Threads : pc[u] # "aborted"
  /\ Goto(t, label)
  /\ overlapped' = (overlapped \/ \E u \in Threads : pc[u] # "idle")

-----------------------------------------------------------------------------
\* libweave calls PublishService ...
PublishService(port, txt) ==
  /\ Begin("main", "compare")
  /\ call' = [call EXCEPT !["main"] = Call(PRIVET, port, txt)]
  /\ asked' = {<<port, txt>>}
  /\ UNCHANGED <<memberVars, group>>

\* ... and StopPublishing.
StopPublishing ==
  /\ Begin("main", "withdraw")
  /\ asked' = {}
  /\ UNCHANGED <<memberVars, group, call>>

\* OnAvahiClientStateUpdate: avahi-daemon is running (again), and there is
\* something to republish.
OnAvahiClientStateUpdate ==
  /\ Begin("avahi", "take")
  /\ prev_service_type # ""
  /\ UNCHANGED <<memberVars, group, call, asked>>

\* RepublishService moves two of the members out and copies the third.
RepublishService(t) ==
  /\ pc[t] = "take"
  /\ call' = [call EXCEPT ![t] = Call(prev_service_type, prev_port, txt_records)]
  /\ prev_service_type' = "" /\ txt_records' = None
  /\ Goto(t, "withdraw")
  /\ UNCHANGED <<prev_port, group, historyVars>>

\* The body of StopPublishing, after which a republishing goes on.
Withdraw(t) ==
  /\ pc[t] = "withdraw"
  /\ group' = EmptyGroup
  /\ Goto(t, "forget")
  /\ UNCHANGED <<memberVars, call, historyVars>>

Forget(t) ==
  /\ pc[t] = "forget"
  /\ prev_service_type' = "" /\ prev_port' = None /\ txt_records' = None
  /\ Goto(t, IF t = "main" THEN "idle" ELSE "compare")
  /\ UNCHANGED <<group, call, historyVars>>

\* The body of PublishService.
SameService(t) ==
  prev_port = call[t].port /\ prev_service_type = call[t].type

Compare(t) ==
  /\ pc[t] = "compare"
  /\ CheckThen(t, call[t].type = PRIVET,
               IF SameService(t) /\ txt_records = call[t].txt
               THEN "idle" ELSE "keep")
  /\ UNCHANGED <<memberVars, group, call, historyVars>>

KeepTxt(t) ==
  /\ pc[t] = "keep"
  /\ txt_records' = call[t].txt
  /\ Goto(t, "decide")
  /\ UNCHANGED <<prev_service_type, prev_port, group, call, historyVars>>

Decide(t) ==
  /\ pc[t] = "decide"
  /\ Goto(t, IF SameService(t) THEN "update" ELSE "remember")
  /\ UNCHANGED <<memberVars, group, call, historyVars>>

UpdateTxt(t) ==
  /\ pc[t] = "update"
  /\ CheckThen(t, group.services # {}, "idle")
  /\ group' = [group EXCEPT !.services = {<<s[1], call[t].txt>> : s \in @}]
  /\ UNCHANGED <<memberVars, call, historyVars>>

Remember(t) ==
  /\ pc[t] = "remember"
  /\ prev_port' = call[t].port /\ prev_service_type' = call[t].type
  /\ Goto(t, "reset")
  /\ UNCHANGED <<txt_records, group, call, historyVars>>

Reset(t) ==
  /\ pc[t] = "reset"
  /\ group' = EmptyGroup
  /\ Goto(t, "check")
  /\ UNCHANGED <<memberVars, call, historyVars>>

CheckEmpty(t) ==
  /\ pc[t] = "check"
  /\ CheckThen(t, group.services = {}, "add")
  /\ UNCHANGED <<memberVars, group, call, historyVars>>

AddService(t) ==
  /\ pc[t] = "add"
  /\ CheckThen(t, group.services = {}, "commit")
  /\ group' = IF group.services # {} THEN group
              ELSE [group EXCEPT !.services = {<<call[t].port, call[t].txt>>}]
  /\ UNCHANGED <<memberVars, call, historyVars>>

Commit(t) ==
  /\ pc[t] = "commit"
  /\ CheckThen(t, group.services # {} /\ ~group.committed, "idle")
  /\ group' = [group EXCEPT !.committed = TRUE]
  /\ UNCHANGED <<memberVars, call, historyVars>>

\* A thread goes on, unless a CHECK has ended the process.
Step(t) ==
  /\ \A u \in Threads : pc[u] # "aborted"
  /\ \/ RepublishService(t) \/ Withdraw(t) \/ Forget(t)
     \/ Compare(t) \/ KeepTxt(t) \/ Decide(t) \/ UpdateTxt(t)
     \/ Remember(t) \/ Reset(t) \/ CheckEmpty(t) \/ AddService(t) \/ Commit(t)

Next ==
  \/ \E port \in Ports, txt \in Txts : PublishService(port, txt)
  \/ StopPublishing
  \/ OnAvahiClientStateUpdate
  \/ \E t \in Threads : Step(t)

Spec == Init /\ [][Next]_vars

-----------------------------------------------------------------------------
\* As long as no call of libweave met a republishing, no CHECK fails, and
\* whenever both threads rest what is published is what was asked for last
\* (PublishService, StopPublishing, RepublishService).
AloneIsExact ==
  ~overlapped =>
    /\ \A t \in Threads : pc[t] # "aborted"
    /\ (\A t \in Threads : pc[t] = "idle")
         => group = [services |-> asked, committed |-> asked # {}]

\* CHECK(avahi_entry_group_is_empty(group_.get())) holds wherever it is made.
GroupIsEmptyWhenChecked ==
  \A t \in Threads : pc[t] = "check" => group.services = {}

=============================================================================
