----------------------- MODULE AvahiMdnsClientProofs -----------------------
(***************************************************************************)
(* What AvahiMdnsClient promises as long as its two threads do not meet.   *)
(***************************************************************************)
EXTENDS AvahiMdnsClient, TLAPS

Want(t) == {<<call[t].port, call[t].txt>>}
Kept == {<<prev_port, txt_records>>}

\* The group holds what the members say, or nothing when they say nothing.
Consistent ==
  \/ prev_service_type = "" /\ group = EmptyGroup
  \/ /\ prev_service_type = PRIVET
     /\ group = [services |-> Kept, committed |-> TRUE]

\* The members but for the text, which a call has just replaced.
Kin(t) ==
  /\ prev_service_type = PRIVET
  /\ \E txt \in Txts \cup {None} :
       group = [services |-> {<<prev_port, txt>>}, committed |-> TRUE]

\* The members are those of t's call.
Remembered(t) ==
  /\ prev_service_type = PRIVET
  /\ prev_port = call[t].port /\ txt_records = call[t].txt

\* What holds at each place of a call that is alone.
At(t) ==
  /\ pc[t] = "take" => /\ t = "avahi" /\ Consistent
                       /\ prev_service_type = PRIVET /\ asked = Kept
  /\ pc[t] \in {"withdraw", "forget"} =>
       IF t = "main" THEN asked = {}
       ELSE call[t].type = PRIVET /\ asked = Want(t)
  /\ pc[t] = "forget" => group = EmptyGroup
  /\ pc[t] \in {"compare", "keep", "decide", "update", "remember", "reset",
                "check", "add", "commit"} =>
       call[t].type = PRIVET /\ asked = Want(t)
  /\ pc[t] \in {"compare", "keep"} => Consistent
  /\ pc[t] \in {"decide", "update", "remember"} => txt_records = call[t].txt
  /\ pc[t] = "decide" => \/ prev_service_type = "" /\ group = EmptyGroup
                         \/ Kin(t)
  /\ pc[t] = "update" => Kin(t)
  /\ pc[t] \in {"update", "reset", "check", "add", "commit"} => Remembered(t)
  /\ pc[t] \in {"check", "add"} => group = EmptyGroup
  /\ pc[t] = "commit" => group = [services |-> Want(t), committed |-> FALSE]

AtRest == Consistent /\ asked = group.services

Resting == \A t \in Threads : pc[t] = "idle"
Alone(t) == \A u \in Threads \ {t} : pc[u] = "idle"
OneAtMost == \A t \in Threads : pc[t] = "idle" \/ Alone(t)

Inv == ~overlapped =>
  /\ OneAtMost
  /\ Resting => AtRest
  /\ \A t \in Threads : pc[t] # "aborted" /\ At(t)

\* Nothing is published and nobody asked: the initial types.
LEMMA InitTypes == Init => TypeOK
<1>1. Call("", None, None) \in Calls /\ "idle" \in Labels
  BY DEF Call, Calls, Labels
<1>2. EmptyGroup \in [services : SUBSET Services, committed : BOOLEAN]
  BY DEF EmptyGroup
<1> SUFFICES ASSUME Init PROVE TypeOK
  OBVIOUS
<1>3. pc \in [Threads -> Labels] /\ call \in [Threads -> Calls]
  BY <1>1 DEF Init
<1> QED BY <1>2, <1>3 DEF Init, TypeOK

\* A thread goes to a label.
LEMMA GotoTypes ==
  ASSUME TypeOK, NEW t \in Threads, NEW label \in Labels, Goto(t, label)
  PROVE  pc' \in [Threads -> Labels]
BY DEF TypeOK, Goto

\* A CHECK holds or ends the process.
LEMMA CheckTypes ==
  ASSUME TypeOK, NEW t \in Threads, NEW holds, NEW label \in Labels,
         CheckThen(t, holds, label)
  PROVE  pc' \in [Threads -> Labels]
<1>1. "aborted" \in Labels
  BY DEF Labels
<1>2. (IF holds THEN label ELSE "aborted") \in Labels
  BY <1>1
<1> QED BY <1>2, GotoTypes DEF CheckThen

\* Every step of a thread keeps the types.
LEMMA StepTypes ==
  ASSUME TypeOK, NEW t \in Threads, Step(t)
  PROVE  TypeOK'
<1>0. /\ call[t].type \in {"", PRIVET}
      /\ call[t].port \in Ports \cup {None} /\ call[t].txt \in Txts \cup {None}
  BY DEF Calls, TypeOK
<1>b. <<call[t].port, call[t].txt>> \in Services
  BY <1>0 DEF Services
<1>a. EmptyGroup \in [services : SUBSET Services, committed : BOOLEAN]
  BY DEF EmptyGroup
<1>1. CASE RepublishService(t)
  <2>1. Call(prev_service_type, prev_port, txt_records) \in Calls
    BY DEF Call, Calls, TypeOK
  <2>2. pc' \in [Threads -> Labels]
    BY <1>1, GotoTypes DEF RepublishService, Labels
  <2> QED BY <1>1, <2>1, <2>2 DEF RepublishService, TypeOK, historyVars
<1>2. CASE Withdraw(t)
  <2>1. pc' \in [Threads -> Labels]
    BY <1>2, GotoTypes DEF Withdraw, Labels
  <2> QED BY <1>2, <1>a, <2>1 DEF Withdraw, TypeOK, memberVars, historyVars
<1>3. CASE Forget(t)
  <2>1. (IF t = "main" THEN "idle" ELSE "compare") \in Labels
    BY DEF Labels
  <2>2. pc' \in [Threads -> Labels]
    BY <1>3, <2>1, GotoTypes DEF Forget
  <2> QED BY <1>3, <2>2 DEF Forget, TypeOK, historyVars
<1>4. CASE Compare(t)
  <2> DEFINE label == IF SameService(t) /\ txt_records = call[t].txt
                      THEN "idle" ELSE "keep"
  <2>1. label \in Labels
    BY DEF Labels
  <2>2. pc' \in [Threads -> Labels]
    BY <1>4, <2>1, CheckTypes DEF Compare
  <2> QED BY <1>4, <2>2 DEF Compare, TypeOK, memberVars, historyVars
<1>5. CASE KeepTxt(t)
  <2>1. pc' \in [Threads -> Labels]
    BY <1>5, GotoTypes DEF KeepTxt, Labels
  <2> QED BY <1>5, <1>0, <2>1 DEF KeepTxt, TypeOK, historyVars
<1>6. CASE Decide(t)
  <2>1. (IF SameService(t) THEN "update" ELSE "remember") \in Labels
    BY DEF Labels
  <2>2. pc' \in [Threads -> Labels]
    BY <1>6, <2>1, GotoTypes DEF Decide
  <2> QED BY <1>6, <2>2 DEF Decide, TypeOK, memberVars, historyVars
<1>7. CASE UpdateTxt(t)
  <2> DEFINE updated == {<<s[1], call[t].txt>> : s \in group.services}
  <2>1. updated \subseteq Services
    <3> SUFFICES ASSUME NEW s \in group.services
                 PROVE  <<s[1], call[t].txt>> \in Services
      OBVIOUS
    <3>1. s \in Services
      BY DEF TypeOK
    <3> QED BY <1>0, <3>1 DEF Services
  <2>2. pc' \in [Threads -> Labels]
    BY <1>7, CheckTypes DEF UpdateTxt, Labels
  <2>3. group' \in [services : SUBSET Services, committed : BOOLEAN]
    BY <1>7, <2>1 DEF UpdateTxt, TypeOK
  <2> QED BY <1>7, <2>2, <2>3 DEF UpdateTxt, TypeOK, memberVars, historyVars
<1>8. CASE Remember(t)
  <2>1. pc' \in [Threads -> Labels]
    BY <1>8, GotoTypes DEF Remember, Labels
  <2> QED BY <1>8, <1>0, <2>1 DEF Remember, TypeOK, historyVars
<1>9. CASE Reset(t)
  <2>1. pc' \in [Threads -> Labels]
    BY <1>9, GotoTypes DEF Reset, Labels
  <2> QED BY <1>9, <1>a, <2>1 DEF Reset, TypeOK, memberVars, historyVars
<1>10. CASE CheckEmpty(t)
  <2>1. pc' \in [Threads -> Labels]
    BY <1>10, CheckTypes DEF CheckEmpty, Labels
  <2> QED BY <1>10, <2>1 DEF CheckEmpty, TypeOK, memberVars, historyVars
<1>11. CASE AddService(t)
  <2>1. {<<call[t].port, call[t].txt>>} \subseteq Services
    BY <1>b
  <2>2. pc' \in [Threads -> Labels]
    BY <1>11, CheckTypes DEF AddService, Labels
  <2>3. group' \in [services : SUBSET Services, committed : BOOLEAN]
    BY <1>11, <2>1 DEF AddService, TypeOK
  <2> QED BY <1>11, <2>2, <2>3 DEF AddService, TypeOK, memberVars, historyVars
<1>12. CASE Commit(t)
  <2>1. pc' \in [Threads -> Labels]
    BY <1>12, CheckTypes DEF Commit, Labels
  <2>2. group' \in [services : SUBSET Services, committed : BOOLEAN]
    BY <1>12 DEF Commit, TypeOK
  <2> QED BY <1>12, <2>1, <2>2 DEF Commit, TypeOK, memberVars, historyVars
<1> QED BY <1>1, <1>2, <1>3, <1>4, <1>5, <1>6, <1>7, <1>8, <1>9, <1>10, <1>11,
           <1>12 DEF Step

\* Every step keeps the types.
LEMMA NextTypes == TypeOK /\ [Next]_vars => TypeOK'
<1> SUFFICES ASSUME TypeOK, [Next]_vars PROVE TypeOK'
  OBVIOUS
<1>1. CASE UNCHANGED vars
  BY <1>1 DEF vars, memberVars, historyVars, TypeOK
<1>2. ASSUME NEW t \in Threads, NEW label \in Labels, Begin(t, label)
      PROVE  pc' \in [Threads -> Labels] /\ overlapped' \in BOOLEAN
  BY <1>2, GotoTypes DEF Begin, TypeOK
<1>3. ASSUME NEW port \in Ports, NEW txt \in Txts, PublishService(port, txt)
      PROVE  TypeOK'
  <2>1. Call(PRIVET, port, txt) \in Calls /\ {<<port, txt>>} \subseteq Services
    BY DEF Call, Calls, Services
  <2>2. pc' \in [Threads -> Labels] /\ overlapped' \in BOOLEAN
    BY <1>2, <1>3 DEF PublishService, Threads, Labels
  <2> QED BY <1>3, <2>1, <2>2 DEF PublishService, TypeOK, memberVars
<1>4. CASE StopPublishing
  <2>1. pc' \in [Threads -> Labels] /\ overlapped' \in BOOLEAN
    BY <1>2, <1>4 DEF StopPublishing, Threads, Labels
  <2> QED BY <1>4, <2>1 DEF StopPublishing, TypeOK, memberVars
<1>5. CASE OnAvahiClientStateUpdate
  <2>1. pc' \in [Threads -> Labels] /\ overlapped' \in BOOLEAN
    BY <1>2, <1>5 DEF OnAvahiClientStateUpdate, Threads, Labels
  <2> QED BY <1>5, <2>1 DEF OnAvahiClientStateUpdate, TypeOK, memberVars
<1> QED BY <1>1, <1>3, <1>4, <1>5, StepTypes DEF Next

\* Where a thread is after Goto, and where the other one still is.
LEMMA Goes ==
  ASSUME TypeOK, NEW t \in Threads, NEW label, Goto(t, label)
  PROVE  pc'[t] = label /\ \A u \in Threads \ {t} : pc'[u] = pc[u]
BY DEF TypeOK, Goto

\* A step of a call that is alone leaves the members and the group as the next
\* place of the call, or the rest, wants them; no CHECK fails.
LEMMA StepAlone ==
  ASSUME TypeOK, NEW t \in Threads, At(t), Step(t)
  PROVE  pc'[t] # "aborted" /\ At(t)' /\ (pc'[t] = "idle" => AtRest')
<1> USE DEF memberVars, historyVars
<1>1. CASE RepublishService(t)
  <2>1. pc[t] = "take" /\ pc'[t] = "withdraw"
    BY <1>1, Goes DEF RepublishService
  <2>2. call'[t] = Call(prev_service_type, prev_port, txt_records)
    BY <1>1 DEF RepublishService, TypeOK
  <2>3. t = "avahi" /\ prev_service_type = PRIVET /\ asked = Kept
    BY <2>1 DEF At
  <2>a. asked' = asked
    BY <1>1 DEF RepublishService
  <2>b. call'[t].type = prev_service_type /\ Want(t)' = Kept
    BY <2>2 DEF Call, Kept, Want
  <2>4. call'[t].type = PRIVET /\ asked' = Want(t)'
    BY <2>3, <2>a, <2>b
  <2> QED BY <2>1, <2>3, <2>4 DEF At
<1>2. CASE Withdraw(t)
  <2>1. pc[t] = "withdraw" /\ pc'[t] = "forget"
    BY <1>2, Goes DEF Withdraw
  <2> QED BY <1>2, <2>1 DEF Withdraw, At, Want, EmptyGroup
<1>3. CASE Forget(t)
  <2>1. pc[t] = "forget" /\ pc'[t] = IF t = "main" THEN "idle" ELSE "compare"
    BY <1>3, Goes DEF Forget
  <2>2. /\ group = EmptyGroup
        /\ IF t = "main" THEN asked = {}
           ELSE call[t].type = PRIVET /\ asked = Want(t)
    BY <2>1 DEF At
  <2>3. /\ group' = EmptyGroup /\ prev_service_type' = ""
        /\ asked' = asked /\ Want(t)' = Want(t) /\ call' = call
    BY <1>3, <2>2 DEF Forget, Want
  <2>4. Consistent' /\ group'.services = {}
    BY <2>3 DEF Consistent, EmptyGroup
  <2> QED BY <2>1, <2>2, <2>3, <2>4 DEF At, AtRest
<1>4. CASE Compare(t)
  <2>1. /\ pc[t] = "compare"
        /\ pc'[t] = IF SameService(t) /\ txt_records = call[t].txt
                    THEN "idle" ELSE "keep"
    BY <1>4, Goes DEF Compare, CheckThen, At
  <2>2. Consistent /\ asked = Want(t) /\ call[t].type = PRIVET
    BY <2>1 DEF At
  <2>3. /\ Consistent' /\ call' = call /\ Want(t)' = Want(t) /\ asked' = asked
        /\ group' = group
    BY <1>4, <2>2 DEF Compare, Consistent, Kept, Want
  <2>4. pc'[t] = "idle" => Want(t) = Kept /\ prev_service_type = PRIVET
    BY <2>1, <2>2 DEF Kept, Want, SameService
  <2>5. pc'[t] = "idle" => group.services = Want(t)
    BY <2>2, <2>4 DEF Consistent, PRIVET
  <2> QED BY <2>1, <2>2, <2>3, <2>5 DEF At, AtRest
<1>5. CASE KeepTxt(t)
  <2>1. pc[t] = "keep" /\ pc'[t] = "decide"
    BY <1>5, Goes DEF KeepTxt
  <2>2. txt_records \in Txts \cup {None}
    BY DEF TypeOK
  <2>3. (prev_service_type' = "" /\ group' = EmptyGroup) \/ Kin(t)'
    BY <1>5, <2>1, <2>2 DEF KeepTxt, At, Consistent, Kept, Kin
  <2> QED BY <1>5, <2>1, <2>3 DEF KeepTxt, At, Want, EmptyGroup
<1>6. CASE Decide(t)
  <2>1. /\ pc[t] = "decide"
        /\ pc'[t] = IF SameService(t) THEN "update" ELSE "remember"
    BY <1>6, Goes DEF Decide
  <2>2. SameService(t) => Remembered(t)' /\ Kin(t)'
    BY <1>6, <2>1 DEF Decide, At, SameService, Remembered, Kin, PRIVET
  <2> QED BY <1>6, <2>1, <2>2 DEF Decide, At, Want
<1>7. CASE UpdateTxt(t)
  <2>1. pc[t] = "update" /\ Kin(t) /\ Remembered(t) /\ asked = Want(t)
    BY <1>7 DEF UpdateTxt, At
  <2>2. PICK txt \in Txts \cup {None} :
          group = [services |-> {<<prev_port, txt>>}, committed |-> TRUE]
    BY <2>1 DEF Kin
  <2>3. {<<s[1], call[t].txt>> : s \in group.services} = Kept
    BY <2>1, <2>2 DEF Kept, Remembered
  <2>4. group' = [services |-> Kept, committed |-> TRUE]
    BY <1>7, <2>2, <2>3 DEF UpdateTxt
  <2>5. pc'[t] = "idle"
    BY <1>7, <2>2, Goes DEF UpdateTxt, CheckThen
  <2>6. prev_service_type' = PRIVET /\ Kept' = Kept /\ asked' = Want(t)
    BY <1>7, <2>1 DEF UpdateTxt, Remembered, Kept
  <2>7. Want(t) = Kept
    BY <2>1 DEF Remembered, Want, Kept
  <2>8. AtRest'
    BY <2>4, <2>6, <2>7 DEF AtRest, Consistent
  <2> QED BY <2>5, <2>8 DEF At
<1>8. CASE Remember(t)
  <2>1. pc[t] = "remember" /\ pc'[t] = "reset"
    BY <1>8, Goes DEF Remember
  <2> QED BY <1>8, <2>1 DEF Remember, At, Remembered, Want
<1>9. CASE Reset(t)
  <2>1. pc[t] = "reset" /\ pc'[t] = "check"
    BY <1>9, Goes DEF Reset
  <2> QED BY <1>9, <2>1 DEF Reset, At, Remembered, Want, EmptyGroup
<1>10. CASE CheckEmpty(t)
  <2>1. pc[t] = "check" /\ group = EmptyGroup
    BY <1>10 DEF CheckEmpty, At
  <2>2. pc'[t] = "add"
    BY <1>10, <2>1, Goes DEF CheckEmpty, CheckThen, EmptyGroup
  <2> QED BY <1>10, <2>1, <2>2 DEF CheckEmpty, At, Remembered, Want, EmptyGroup
<1>11. CASE AddService(t)
  <2>1. pc[t] = "add" /\ group = EmptyGroup
    BY <1>11 DEF AddService, At
  <2>2. pc'[t] = "commit"
    BY <1>11, <2>1, Goes DEF AddService, CheckThen, EmptyGroup
  <2>3. group' = [services |-> Want(t), committed |-> FALSE]
    BY <1>11, <2>1 DEF AddService, Want, EmptyGroup
  <2> QED BY <1>11, <2>1, <2>2, <2>3 DEF AddService, At, Remembered, Want
<1>12. CASE Commit(t)
  <2>1. /\ pc[t] = "commit" /\ Remembered(t) /\ asked = Want(t)
        /\ group = [services |-> Want(t), committed |-> FALSE]
    BY <1>12 DEF Commit, At
  <2>2. pc'[t] = "idle"
    BY <1>12, <2>1, Goes DEF Commit, CheckThen, Want
  <2>3. group' = [services |-> Want(t), committed |-> TRUE]
    BY <1>12, <2>1 DEF Commit
  <2>4. AtRest'
    BY <1>12, <2>1, <2>3 DEF Commit, AtRest, Consistent, Remembered, Kept, Want
  <2> QED BY <2>2, <2>4 DEF At
<1> QED BY <1>1, <1>2, <1>3, <1>4, <1>5, <1>6, <1>7, <1>8, <1>9, <1>10, <1>11,
           <1>12 DEF Step

\* Where a thread is idle nothing is claimed of it.
LEMMA IdleAt ==
  ASSUME NEW t \in Threads, pc'[t] = "idle"
  PROVE  pc'[t] # "aborted" /\ At(t)'
BY DEF At

\* Every step keeps the invariant.
LEMMA NextInv == TypeOK /\ Inv /\ [Next]_vars => Inv'
<1> SUFFICES ASSUME TypeOK, Inv, [Next]_vars, ~overlapped' PROVE Inv'
  BY DEF Inv
<1>1. CASE UNCHANGED vars
  <2>1. /\ Kept' = Kept /\ Consistent' = Consistent
        /\ asked' = asked /\ pc' = pc
        /\ group' = group /\ overlapped' = overlapped
    BY <1>1 DEF vars, memberVars, historyVars, Kept, Consistent
  <2>2. ASSUME NEW t \in Threads PROVE At(t)' = At(t)
    BY <1>1 DEF vars, memberVars, historyVars, At, Consistent, Kept, Kin,
       Remembered, Want
  <2> QED BY <2>1, <2>2 DEF Inv, OneAtMost, Alone, Resting, AtRest
<1>2. ASSUME NEW t \in Threads, NEW label, label # "idle", Begin(t, label)
      PROVE  /\ AtRest /\ ~overlapped
             /\ pc'[t] = label /\ \A u \in Threads \ {t} : pc'[u] = "idle"
  BY <1>2, Goes DEF Begin, Inv, Resting
<1>3. ASSUME NEW t \in Threads, pc'[t] \notin {"idle", "aborted"}, At(t)',
             \A u \in Threads \ {t} : pc'[u] = "idle"
      PROVE  Inv'
  BY <1>3, IdleAt DEF Inv, OneAtMost, Alone, Resting
<1>4. ASSUME NEW port \in Ports, NEW txt \in Txts, PublishService(port, txt)
      PROVE  Inv'
  <2>1. "main" \in Threads /\ Begin("main", "compare")
    BY <1>4 DEF PublishService, Threads
  <2>2. AtRest /\ pc'["main"] = "compare"
        /\ \A u \in Threads \ {"main"} : pc'[u] = "idle"
    BY <1>2, <2>1
  <2>3. call'["main"] = Call(PRIVET, port, txt)
    BY <1>4, <2>1 DEF PublishService, TypeOK
  <2>a. Consistent'
    BY <1>4, <2>2 DEF PublishService, AtRest, Consistent, Kept, memberVars
  <2>b. asked' = Want("main")'
    BY <1>4, <2>3 DEF PublishService, Want, Call
  <2>4. Consistent' /\ asked' = Want("main")'
    BY <2>a, <2>b
  <2>5. At("main")'
    BY <2>2, <2>3, <2>4 DEF At, Call
  <2> QED BY <1>3, <2>1, <2>2, <2>5
<1>5. CASE StopPublishing
  <2>1. "main" \in Threads /\ Begin("main", "withdraw")
    BY <1>5 DEF StopPublishing, Threads
  <2>2. pc'["main"] = "withdraw"
        /\ \A u \in Threads \ {"main"} : pc'[u] = "idle"
    BY <1>2, <2>1
  <2>3. At("main")'
    BY <1>5, <2>2 DEF StopPublishing, At
  <2> QED BY <1>3, <2>1, <2>2, <2>3
<1>6. CASE OnAvahiClientStateUpdate
  <2>1. "avahi" \in Threads /\ Begin("avahi", "take") /\ prev_service_type # ""
    BY <1>6 DEF OnAvahiClientStateUpdate, Threads
  <2>2. AtRest /\ pc'["avahi"] = "take"
        /\ \A u \in Threads \ {"avahi"} : pc'[u] = "idle"
    BY <1>2, <2>1
  <2>3. prev_service_type = PRIVET /\ group.services = Kept
    <3>1. prev_service_type # "" /\ Consistent
      BY <2>1, <2>2 DEF AtRest
    <3>2. prev_service_type = PRIVET
          /\ group = [services |-> Kept, committed |-> TRUE]
      BY <3>1 DEF Consistent
    <3> QED BY <3>2
  <2>4. Consistent' /\ Kept' = Kept /\ asked' = asked
    BY <1>6, <2>2
    DEF OnAvahiClientStateUpdate, AtRest, Consistent, Kept, memberVars
  <2>5. prev_service_type' = PRIVET /\ asked' = Kept'
    BY <1>6, <2>2, <2>3, <2>4 DEF OnAvahiClientStateUpdate, AtRest, memberVars
  <2>6. At("avahi")'
    BY <2>2, <2>4, <2>5 DEF At
  <2> QED BY <1>3, <2>1, <2>2, <2>6
<1>7. ASSUME NEW t \in Threads, Step(t) PROVE Inv'
  <2>1. overlapped' = overlapped /\ pc[t] # "idle"
        /\ \E label : Goto(t, label)
    BY <1>7 DEF Step, RepublishService, Withdraw, Forget, Compare, KeepTxt,
       Decide, UpdateTxt, Remember, Reset, CheckEmpty, AddService, Commit,
       CheckThen, historyVars
  <2>2. Alone(t) /\ At(t)
    BY <2>1 DEF Inv, OneAtMost
  <2>3. \A u \in Threads \ {t} : pc'[u] = "idle"
    BY <2>1, <2>2, Goes DEF Alone
  <2>4. pc'[t] # "aborted" /\ At(t)' /\ (pc'[t] = "idle" => AtRest')
    BY <1>7, <2>2, StepAlone
  <2> QED BY <2>3, <2>4, IdleAt DEF Inv, OneAtMost, Alone, Resting
<1> QED BY <1>1, <1>4, <1>5, <1>6, <1>7 DEF Next

\* The types of the publisher's members, of the group and of the two threads.
THEOREM TypeCorrect == Spec => []TypeOK
<1> QED BY InitTypes, NextTypes, PTL DEF Spec

\* Nothing is published, nobody is at it: what the start is.
LEMMA InitInv == Init => Inv
<1> SUFFICES ASSUME Init PROVE Inv
  OBVIOUS
<1>1. \A t \in Threads : pc[t] = "idle"
  BY DEF Init
<1>2. AtRest
  BY DEF Init, AtRest, Consistent, EmptyGroup
<1>3. \A t \in Threads : pc[t] # "aborted" /\ At(t)
  BY <1>1 DEF At
<1> QED BY <1>1, <1>2, <1>3 DEF Inv, OneAtMost, Resting

\* A publisher whose threads do not meet fails no CHECK and publishes what was
\* asked for last (PublishService, StopPublishing, RepublishService).
THEOREM ExactAlone == Spec => []AloneIsExact
<1>1. AtRest => group = [services |-> asked, committed |-> asked # {}]
  <2> SUFFICES ASSUME AtRest
               PROVE  group = [services |-> asked, committed |-> asked # {}]
    OBVIOUS
  <2>1. CASE group = EmptyGroup
    <3>1. asked = {}
      BY <2>1 DEF AtRest, EmptyGroup
    <3>2. (asked # {}) = FALSE
      BY <3>1
    <3> QED BY <2>1, <3>1, <3>2 DEF EmptyGroup
  <2>2. CASE group = [services |-> Kept, committed |-> TRUE]
    <3>1. asked = Kept
      BY <2>2 DEF AtRest
    <3>2. (asked # {}) = TRUE
      BY <3>1 DEF Kept
    <3> QED BY <2>2, <3>1, <3>2
  <2> QED BY <2>1, <2>2 DEF AtRest, Consistent
<1>2. Inv => AloneIsExact
  BY <1>1 DEF Inv, Resting, AloneIsExact
<1> QED BY <1>2, InitTypes, NextTypes, InitInv, NextInv, PTL DEF Spec

=============================================================================
