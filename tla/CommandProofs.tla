--------------------------- MODULE CommandProofs ---------------------------
(***************************************************************************)
(* Command for any set of commands: its types, that handlers and the cloud *)
(* agree on what became of a command, and that it implements the promise   *)
(* of CommandOutcome.                                                      *)
(***************************************************************************)
EXTENDS Command, TLAPS

(***************************************************************************)
(* The inductive invariant: a command has no outcome until it is in a      *)
(* terminal state, and that is its outcome; a reply that tells of one, or  *)
(* of a method that asks for one, tells of this; and a command that was    *)
(* never given to libweave has left no trace.                              *)
(***************************************************************************)
OutcomeIsFinal(c) ==
  /\ state[c] \in Terminal => outcome[c] = state[c]
  /\ state[c] \notin Terminal \cup {"none"} => outcome[c] = "none"

NotGivenNotSeen(c) ==
  c \notin given => /\ state[c] = "none"
                    /\ outcome[c] = "none"
                    /\ finisher[c] = "none"
                    /\ c \notin held
                    /\ calling[c] = "none"
                    /\ parameter_cache[c] = "none"

ReplyIsTrue(c) ==
  /\ reply[c] # "none" => calling[c] # "none"
  /\ Learnt(c) \subseteq {outcome[c]}
  /\ calling[c] = "GetParameters" => reply[c] \in {"none", "ok", "refused"}
  /\ calling[c] = "GetParameters" /\ reply[c] = "refused" => state[c] = "none"

FinisherWillKnow(c) ==
  finisher[c] = "handler"
    => \/ outcome[c] \in told[c]
       \/ c \in cut
       \/ outcome[c] \in Learnt(c)

CommandInv(c) ==
  /\ OutcomeIsFinal(c)
  /\ NotGivenNotSeen(c)
  /\ ReplyIsTrue(c)
  /\ FinisherWillKnow(c)
  /\ told[c] \subseteq {outcome[c]}
  /\ parameter_cache[c] = "empty" => state[c] = "none"

IInv == TypeOK /\ \A c \in Commands : CommandInv(c)

-----------------------------------------------------------------------------
\* The methods that ask for a state ask for one of libweave's.
LEMMA TargetTypes ==
  /\ "none" \notin Setters /\ "GetParameters" \notin Setters
  /\ \A m \in Setters : Target[m] \in States
BY DEF Setters, Target, States, Terminal

\* The methods that ask for something else change nothing.
LEMMA WantedTypes ==
  /\ "none" \notin Getters /\ \A m \in Getters : m \notin Setters
  /\ Wanted["GetParameters"] # "state"
BY DEF Getters, Wanted, Setters, Target

\* What a handler learns is an outcome.
LEMMA LearntTypes == ASSUME NEW c \in Commands PROVE Learnt(c) \subseteq Terminal
BY DEF Learnt

\* A command libweave moves gets a state, and keeps outcomes typed.
LEMMA MoveTypes ==
  ASSUME TypeOK, NEW c \in Commands, NEW s \in States,
         NEW who \in {"handler", "cloud"}, Move(c, s, who)
  PROVE  /\ state' \in [Commands -> States \cup {"none"}]
         /\ outcome' \in [Commands -> Terminal \cup {"none"}]
         /\ finisher' \in [Commands -> {"none", "handler", "cloud"}]
<1>1. CASE s \in Terminal /\ state[c] # s
  BY <1>1 DEF Move, TypeOK
<1>2. CASE ~(s \in Terminal /\ state[c] # s)
  BY <1>2 DEF Move, TypeOK
<1>3. QED BY <1>1, <1>2

\* The initial types.
LEMMA InitTypes == ASSUME Init PROVE TypeOK
BY DEF Init, TypeOK

\* Every step keeps the types.
LEMMA NextTypes == ASSUME TypeOK, [Next]_vars PROVE TypeOK'
<1> USE DEF serverVars, clientVars, callVars
<1>1. CASE WeavedStop
  BY <1>1 DEF WeavedStop, TypeOK
<1>2. CASE WeavedStart
  BY <1>2 DEF WeavedStart, TypeOK
<1>3. ASSUME NEW c \in Commands, OnCommand(c) PROVE TypeOK'
  BY <1>3 DEF OnCommand, TypeOK, States
<1>4. ASSUME NEW c \in Commands, FinishForCloud(c) PROVE TypeOK'
  <2>1. PICK s \in {"cancelled", "expired"} : Move(c, s, "cloud")
    BY <1>4 DEF FinishForCloud
  <2>2. s \in States
    BY DEF States, Terminal
  <2>3. QED BY <1>4, <2>1, <2>2, MoveTypes DEF FinishForCloud, TypeOK
<1>5. ASSUME NEW c \in Commands, Destroy(c) PROVE TypeOK'
  BY <1>5 DEF Destroy, TypeOK
<1>6. ASSUME NEW c \in Commands, NEW m \in Setters \cup Getters, Call(c, m)
      PROVE  TypeOK'
  BY <1>6 DEF Call, TypeOK
<1>7. ASSUME NEW c \in Commands, ReportDestroyed(c) PROVE TypeOK'
  BY <1>7 DEF ReportDestroyed, Answer, TypeOK
<1>8. ASSUME NEW c \in Commands, Update(c) PROVE TypeOK'
  <2>1. Target[calling[c]] \in States
    BY <1>8, TargetTypes DEF Update
  <2>2. /\ state' \in [Commands -> States \cup {"none"}]
        /\ outcome' \in [Commands -> Terminal \cup {"none"}]
        /\ finisher' \in [Commands -> {"none", "handler", "cloud"}]
    BY <1>8, <2>1, MoveTypes DEF Update, TypeOK
  <2>3. reply' \in [Commands -> States \cup {"none", "ok", "refused"}]
    BY <1>8 DEF Update, Answer, TypeOK
  <2>4. QED BY <1>8, <2>2, <2>3 DEF Update, TypeOK
<1>9. ASSUME NEW c \in Commands, Read(c) PROVE TypeOK'
  <2>1. state[c] \in States
    BY <1>9 DEF Read, Locked, TypeOK
  <2>2. reply' \in [Commands -> States \cup {"none", "ok", "refused"}]
    BY <1>9, <2>1 DEF Read, Answer, TypeOK
  <2>3. QED BY <1>9, <2>2 DEF Read, TypeOK
<1>10. ASSUME NEW c \in Commands, Return(c) PROVE TypeOK'
  <2>1. told' \in [Commands -> SUBSET Terminal]
    BY <1>10, LearntTypes DEF Return, TypeOK
  <2>2. parameter_cache' \in [Commands -> {"none", "own", "empty"}]
    BY <1>10 DEF Return, TypeOK
  <2>3. QED BY <1>10, <2>1, <2>2 DEF Return, TypeOK
<1>11. ASSUME NEW c \in Commands, Release(c) PROVE TypeOK'
  BY <1>11 DEF Release, TypeOK
<1>12. CASE UNCHANGED vars
  BY <1>12 DEF vars, TypeOK
<1>13. QED
  BY <1>1, <1>2, <1>3, <1>4, <1>5, <1>6, <1>7, <1>8, <1>9, <1>10, <1>11, <1>12
  DEF Next

\* Type correctness of Command.
THEOREM TypeCorrect == Spec => []TypeOK
BY InitTypes, NextTypes, PTL DEF Spec

-----------------------------------------------------------------------------
\* A command nothing happens to keeps its part of the invariant.
LEMMA OtherCommands ==
  ASSUME NEW d \in Commands, CommandInv(d),
         state'[d] = state[d], outcome'[d] = outcome[d],
         finisher'[d] = finisher[d], calling'[d] = calling[d],
         reply'[d] = reply[d], parameter_cache'[d] = parameter_cache[d],
         told'[d] = told[d], given \subseteq given', d \in held' => d \in held,
         cut' = cut
  PROVE  CommandInv(d)'
<1>1. Learnt(d)' = Learnt(d)
  BY DEF Learnt
<1>2. QED
  BY <1>1 DEF CommandInv, OutcomeIsFinal, NotGivenNotSeen, ReplyIsTrue,
              FinisherWillKnow

\* Nothing is learnt before the reply.
LEMMA NothingLearnt ==
  ASSUME NEW c \in Commands, reply[c] \in {"none", "refused"}
  PROVE  Learnt(c) = {}
BY DEF Learnt, Terminal

\* The initial states satisfy the invariant.
LEMMA InitInv == ASSUME Init PROVE IInv
<1>1. TypeOK
  BY InitTypes
<1>2. ASSUME NEW c \in Commands PROVE CommandInv(c)
  <2>1. Learnt(c) = {}
    BY NothingLearnt DEF Init
  <2>2. QED
    BY <2>1 DEF Init, CommandInv, OutcomeIsFinal, NotGivenNotSeen, ReplyIsTrue,
                FinisherWillKnow, Terminal
<1>3. QED BY <1>1, <1>2 DEF IInv

\* A move of libweave keeps the invariant of the command, but for what its
\* reply says: a command that is not in a terminal state has no outcome yet.
LEMMA MoveInv ==
  ASSUME TypeOK, NEW c \in Commands, CommandInv(c), NEW s \in States,
         NEW who \in {"handler", "cloud"}, state[c] # "none", Allows(c, s),
         Move(c, s, who)
  PROVE  /\ state'[c] = s
         /\ OutcomeIsFinal(c)'
         /\ outcome[c] # "none" => /\ outcome'[c] = outcome[c]
                                  /\ finisher'[c] = finisher[c]
         /\ outcome'[c] = outcome[c] => finisher'[c] = finisher[c]
         /\ outcome'[c] # outcome[c] => outcome'[c] = s /\ finisher'[c] = who
         /\ \A d \in Commands \ {c} : /\ state'[d] = state[d]
                                      /\ outcome'[d] = outcome[d]
                                      /\ finisher'[d] = finisher[d]
<1> USE DEF OutcomeIsFinal
<1>0. "none" \notin States /\ "none" \notin Terminal
  BY DEF States, Terminal
<1>1. CASE s \in Terminal /\ state[c] # s
  <2>1. outcome[c] = "none"
    BY <1>1 DEF Allows, CommandInv
  <2>2. outcome' = [outcome EXCEPT ![c] = s] /\ finisher' = [finisher EXCEPT ![c] = who]
    BY <1>1 DEF Move
  <2>3. QED BY <1>0, <1>1, <2>1, <2>2 DEF Move, TypeOK
<1>2. CASE ~(s \in Terminal /\ state[c] # s)
  <2>1. UNCHANGED <<outcome, finisher>>
    BY <1>2 DEF Move
  <2>2. s \notin Terminal => outcome[c] = "none"
    BY <1>0 DEF Allows, CommandInv
  <2>3. QED BY <1>0, <1>2, <2>1, <2>2 DEF Move, TypeOK, CommandInv
<1>3. QED BY <1>1, <1>2

\* Every step keeps the invariant.
LEMMA NextInv == ASSUME IInv, [Next]_vars PROVE IInv'
<1> USE DEF serverVars, clientVars, callVars
<1>0. TypeOK /\ TypeOK'
  BY NextTypes DEF IInv
<1> SUFFICES ASSUME NEW d \in Commands PROVE CommandInv(d)'
  BY <1>0 DEF IInv
<1>a. CommandInv(d)
  BY DEF IInv
<1>1. CASE WeavedStop
  <2>1. /\ state'[d] = "none"
        /\ reply'[d] \in {reply[d], "none", "refused"}
        /\ reply'[d] # "none" => calling'[d] # "none"
        /\ calling[d] # "none" => d \in cut'
        /\ cut \subseteq cut'
        /\ UNCHANGED <<given, outcome, finisher, held, parameter_cache, told,
                       calling>>
    BY <1>0, <1>1, <1>a DEF WeavedStop, TypeOK, CommandInv, ReplyIsTrue
  <2>2. Learnt(d)' \subseteq Learnt(d)
    BY <2>1 DEF Learnt, Terminal
  <2>3. Learnt(d) # {} => calling[d] # "none"
    BY <1>a, NothingLearnt DEF CommandInv, ReplyIsTrue
  <2>4. OutcomeIsFinal(d)' /\ NotGivenNotSeen(d)' /\ ReplyIsTrue(d)'
    BY <1>a, <2>1, <2>2 DEF CommandInv, OutcomeIsFinal, NotGivenNotSeen,
                            ReplyIsTrue, Terminal
  <2>5. FinisherWillKnow(d)'
    BY <1>a, <2>1, <2>3 DEF CommandInv, FinisherWillKnow
  <2>6. QED BY <1>a, <2>1, <2>4, <2>5 DEF CommandInv
<1>2. CASE WeavedStart
  BY <1>2, <1>a, OtherCommands DEF WeavedStart
<1>3. ASSUME NEW c \in Commands, OnCommand(c) PROVE CommandInv(d)'
  <2>1. CASE d = c
    <3>1. d \notin given /\ d \in given'
      BY <1>3, <2>1 DEF OnCommand
    <3>2. state'[d] = "queued" /\ calling[d] = "none" /\ reply[d] = "none"
          /\ outcome[d] = "none" /\ finisher[d] = "none"
          /\ parameter_cache[d] = "none" /\ told[d] \subseteq {outcome[d]}
      BY <1>0, <1>3, <1>a, <2>1, <3>1
      DEF OnCommand, TypeOK, CommandInv, NotGivenNotSeen, ReplyIsTrue
    <3>3. Learnt(d)' = {}
      BY <1>3, <3>2 DEF OnCommand, Learnt, Terminal
    <3>4. QED
      BY <1>3, <3>1, <3>2, <3>3
      DEF OnCommand, CommandInv, OutcomeIsFinal, NotGivenNotSeen, ReplyIsTrue,
          FinisherWillKnow, Terminal
  <2>2. CASE d # c
    BY <1>0, <1>3, <1>a, <2>2, OtherCommands DEF OnCommand, TypeOK
  <2>3. QED BY <2>1, <2>2
<1>4. ASSUME NEW c \in Commands, FinishForCloud(c) PROVE CommandInv(d)'
  <2>1. PICK s \in {"cancelled", "expired"} : Allows(c, s) /\ Move(c, s, "cloud")
    BY <1>4 DEF FinishForCloud
  <2>2. s \in States /\ state[c] # "none" /\ CommandInv(c)
    BY <1>4 DEF FinishForCloud, States, Terminal, IInv
  <2>3. /\ state'[c] = s
        /\ OutcomeIsFinal(c)'
        /\ outcome[c] # "none" => /\ outcome'[c] = outcome[c]
                                 /\ finisher'[c] = finisher[c]
        /\ outcome'[c] = outcome[c] => finisher'[c] = finisher[c]
        /\ outcome'[c] # outcome[c] => finisher'[c] = "cloud"
        /\ \A e \in Commands \ {c} : /\ state'[e] = state[e]
                                     /\ outcome'[e] = outcome[e]
                                     /\ finisher'[e] = finisher[e]
    BY <1>0, <2>1, <2>2, MoveInv
  <2>4. CASE d = c
    <3>1. Learnt(d)' = Learnt(d)
      BY <1>4 DEF FinishForCloud, Learnt
    <3>2. "none" \notin Learnt(d) /\ "none" \notin told[d]
      BY <1>0 DEF Learnt, Terminal, TypeOK
    <3>3. Learnt(d) \subseteq {outcome'[d]} /\ told[d] \subseteq {outcome'[d]}
      BY <1>a, <2>3, <2>4, <3>2 DEF CommandInv, ReplyIsTrue
    <3>4. FinisherWillKnow(d)'
      BY <1>4, <1>a, <2>3, <2>4, <3>1
      DEF FinishForCloud, CommandInv, FinisherWillKnow
    <3>5. NotGivenNotSeen(d)' /\ ReplyIsTrue(d)'
      BY <1>4, <1>a, <2>2, <2>3, <2>4, <3>1, <3>3
      DEF FinishForCloud, CommandInv, NotGivenNotSeen, ReplyIsTrue
    <3>6. QED
      BY <1>4, <1>a, <2>2, <2>3, <2>4, <3>3, <3>4, <3>5
      DEF FinishForCloud, CommandInv
  <2>5. CASE d # c
    BY <1>4, <1>a, <2>3, <2>5, OtherCommands DEF FinishForCloud
  <2>6. QED BY <2>4, <2>5
<1>5. ASSUME NEW c \in Commands, Destroy(c) PROVE CommandInv(d)'
  <2>1. state'[d] \in {state[d], "none"}
    BY <1>0, <1>5 DEF Destroy, TypeOK
  <2>2. Learnt(d)' = Learnt(d)
    BY <1>5 DEF Destroy, Learnt
  <2>3. QED
    BY <1>5, <1>a, <2>1, <2>2
    DEF Destroy, CommandInv, OutcomeIsFinal, NotGivenNotSeen, ReplyIsTrue,
        FinisherWillKnow, Terminal
<1>6. ASSUME NEW c \in Commands, NEW m \in Setters \cup Getters, Call(c, m)
      PROVE  CommandInv(d)'
  <2>1. CASE d = c
    <3>1. /\ calling[d] = "none" /\ reply[d] = "none" /\ reply'[d] = "none"
          /\ d \in given
      BY <1>6, <1>a, <2>1 DEF Call, Idle, CommandInv, NotGivenNotSeen, ReplyIsTrue
    <3>2. Learnt(d) = {} /\ Learnt(d)' = {}
      BY <3>1 DEF Learnt, Terminal
    <3>3. QED
      BY <1>6, <1>a, <3>1, <3>2
      DEF Call, CommandInv, OutcomeIsFinal, NotGivenNotSeen, ReplyIsTrue,
          FinisherWillKnow
  <2>2. CASE d # c
    BY <1>0, <1>6, <1>a, <2>2, OtherCommands DEF Call, TypeOK
  <2>3. QED BY <2>1, <2>2
<1>7. ASSUME NEW c \in Commands, ReportDestroyed(c) PROVE CommandInv(d)'
  <2>1. CASE d = c
    <3>1. /\ reply[d] = "none" /\ reply'[d] = "refused" /\ calling[d] # "none"
          /\ state[d] = "none"
      BY <1>0, <1>7, <2>1 DEF ReportDestroyed, Asked, Answer, Locked, TypeOK
    <3>2. Learnt(d) = {} /\ Learnt(d)' = {}
      BY <3>1 DEF Learnt, Terminal
    <3>3. QED
      BY <1>7, <1>a, <3>1, <3>2
      DEF ReportDestroyed, CommandInv, OutcomeIsFinal, NotGivenNotSeen,
          ReplyIsTrue, FinisherWillKnow
  <2>2. CASE d # c
    BY <1>0, <1>7, <1>a, <2>2, OtherCommands
    DEF ReportDestroyed, Answer, TypeOK
  <2>3. QED BY <2>1, <2>2
<1>8. ASSUME NEW c \in Commands, Update(c) PROVE CommandInv(d)'
  <2> DEFINE s == Target[calling[c]]
  <2>1. /\ s \in States /\ state[c] # "none" /\ CommandInv(c)
        /\ reply[c] = "none" /\ calling[c] \in Setters
    BY <1>8, TargetTypes DEF Update, Asked, Locked, IInv
  <2>2. CASE Answer(c, "refused") /\ UNCHANGED <<state, outcome, finisher>>
    <3>1. CASE d = c
      <4>1. reply'[d] = "refused" /\ calling[d] \notin {"none", "GetParameters"}
        BY <1>0, <2>1, <2>2, <3>1, TargetTypes DEF Answer, TypeOK
      <4>2. Learnt(d) = {} /\ Learnt(d)' = {}
        BY <2>1, <3>1, <4>1 DEF Learnt, Terminal
      <4>3. QED
        BY <1>8, <1>a, <2>2, <4>1, <4>2
        DEF Update, CommandInv, OutcomeIsFinal, NotGivenNotSeen, ReplyIsTrue,
            FinisherWillKnow
    <3>2. CASE d # c
      BY <1>0, <1>8, <1>a, <2>2, <3>2, OtherCommands DEF Update, Answer, TypeOK
    <3>3. QED BY <3>1, <3>2
  <2>3. CASE Allows(c, s) /\ Move(c, s, "handler") /\ Answer(c, "ok")
    <3>1. /\ state'[c] = s
          /\ OutcomeIsFinal(c)'
          /\ outcome[c] # "none" => /\ outcome'[c] = outcome[c]
                                   /\ finisher'[c] = finisher[c]
          /\ outcome'[c] = outcome[c] => finisher'[c] = finisher[c]
          /\ outcome'[c] # outcome[c] => outcome'[c] = s
          /\ \A e \in Commands \ {c} : /\ state'[e] = state[e]
                                       /\ outcome'[e] = outcome[e]
                                       /\ finisher'[e] = finisher[e]
      BY <1>0, <2>1, <2>3, MoveInv
    <3>2. CASE d = c
      <4>1. /\ reply'[d] = "ok" /\ calling'[d] = calling[d]
            /\ calling[d] \notin {"none", "GetParameters"}
        BY <1>0, <1>8, <2>1, <2>3, <3>2, TargetTypes DEF Answer, Update, TypeOK
      <4>2. Learnt(d)' = Terminal \cap {s}
        BY <2>1, <3>2, <4>1 DEF Learnt, Terminal
      <4>3. Learnt(d) = {}
        BY <2>1, <3>2, NothingLearnt
      <4>4. Learnt(d)' \subseteq {outcome'[d]}
        BY <3>1, <3>2, <4>2 DEF OutcomeIsFinal
      <4>5. told[d] \subseteq {outcome'[d]}
        <5>1. "none" \notin told[d]
          BY <1>0 DEF TypeOK, Terminal
        <5>2. QED BY <1>a, <3>1, <3>2, <5>1 DEF CommandInv
      <4>6. FinisherWillKnow(d)'
        <5>1. CASE outcome'[d] = outcome[d]
          BY <1>8, <1>a, <3>1, <3>2, <4>3, <5>1
          DEF Update, CommandInv, FinisherWillKnow
        <5>2. CASE outcome'[d] # outcome[d]
          <6>1. outcome'[d] = s /\ outcome'[d] \in Terminal \cup {"none"}
            BY <1>0, <3>1, <3>2, <5>2 DEF TypeOK
          <6>2. s # "none"
            BY <2>1 DEF States, Terminal
          <6>3. QED BY <4>2, <6>1, <6>2 DEF FinisherWillKnow
        <5>3. QED BY <5>1, <5>2
      <4>7. NotGivenNotSeen(d)' /\ ReplyIsTrue(d)'
        BY <1>8, <1>a, <2>1, <3>2, <4>1, <4>4
        DEF Update, CommandInv, NotGivenNotSeen, ReplyIsTrue
      <4>8. QED
        BY <1>8, <1>a, <2>1, <3>1, <3>2, <4>5, <4>6, <4>7 DEF Update, CommandInv
    <3>3. CASE d # c
      BY <1>0, <1>8, <1>a, <2>3, <3>1, <3>3, OtherCommands
      DEF Update, Answer, TypeOK
    <3>4. QED BY <3>2, <3>3
  <2>4. QED BY <1>8, <2>2, <2>3 DEF Update
<1>9. ASSUME NEW c \in Commands, Read(c) PROVE CommandInv(d)'
  <2>1. CASE d = c
    <3>1. /\ reply[d] = "none" /\ calling[d] \in Getters
          /\ reply'[d] = IF Wanted[calling[d]] = "state" THEN state[d] ELSE "ok"
          /\ state[d] \in States
      BY <1>0, <1>9, <2>1 DEF Read, Asked, Answer, Locked, TypeOK
    <3>2. calling[d] \notin Setters /\ calling[d] # "none"
      BY <3>1, WantedTypes
    <3>3. Learnt(d)' \subseteq {outcome[d]}
      BY <1>9, <1>a, <3>1, <3>2
      DEF Read, Learnt, CommandInv, OutcomeIsFinal, Terminal
    <3>4. Learnt(d) = {}
      BY <3>1, NothingLearnt
    <3>5. /\ reply'[d] # "refused"
          /\ calling[d] = "GetParameters" => reply'[d] = "ok"
      BY <3>1, WantedTypes DEF States, Terminal
    <3>6. QED
      BY <1>9, <1>a, <3>2, <3>3, <3>4, <3>5
      DEF Read, CommandInv, OutcomeIsFinal, NotGivenNotSeen, ReplyIsTrue,
          FinisherWillKnow
  <2>2. CASE d # c
    BY <1>0, <1>9, <1>a, <2>2, OtherCommands DEF Read, Answer, TypeOK
  <2>3. QED BY <2>1, <2>2
<1>10. ASSUME NEW c \in Commands, Return(c) PROVE CommandInv(d)'
  <2>1. CASE d = c
    <3>1. /\ reply[d] # "none" /\ reply'[d] = "none" /\ calling'[d] = "none"
          /\ told'[d] = told[d] \cup Learnt(d)
          /\ UNCHANGED <<state, given, outcome, finisher, held, cut>>
      BY <1>0, <1>10, <2>1 DEF Return, TypeOK
    <3>2. calling[d] # "none" /\ d \in given
      BY <1>a, <3>1 DEF CommandInv, NotGivenNotSeen, ReplyIsTrue
    <3>3. Learnt(d)' = {}
      BY <3>1 DEF Learnt, Terminal
    <3>4. parameter_cache'[d] = "empty" => state[d] = "none"
      <4>1. CASE calling[d] = "GetParameters"
        <5>1. parameter_cache'[d] = IF reply[d] = "ok" THEN "own" ELSE "empty"
          BY <1>0, <1>10, <2>1, <4>1 DEF Return, TypeOK
        <5>2. reply[d] \in {"ok", "refused"}
          BY <1>a, <3>1, <4>1 DEF CommandInv, ReplyIsTrue
        <5>3. QED BY <1>a, <4>1, <5>1, <5>2 DEF CommandInv, ReplyIsTrue
      <4>2. CASE calling[d] # "GetParameters"
        BY <1>10, <1>a, <2>1, <4>2 DEF Return, CommandInv
      <4>3. QED BY <4>1, <4>2
    <3>5. QED
      BY <1>a, <3>1, <3>2, <3>3, <3>4
      DEF CommandInv, OutcomeIsFinal, NotGivenNotSeen, ReplyIsTrue,
          FinisherWillKnow
  <2>2. CASE d # c
    BY <1>0, <1>10, <1>a, <2>2, OtherCommands DEF Return, TypeOK
  <2>3. QED BY <2>1, <2>2
<1>11. ASSUME NEW c \in Commands, Release(c) PROVE CommandInv(d)'
  BY <1>11, <1>a, OtherCommands DEF Release
<1>12. CASE UNCHANGED vars
  BY <1>12, <1>a, OtherCommands DEF vars
<1>13. QED
  BY <1>1, <1>2, <1>3, <1>4, <1>5, <1>6, <1>7, <1>8, <1>9, <1>10, <1>11, <1>12
  DEF Next

\* The inductive invariant, of every behaviour.
LEMMA Invariant == Spec => []IInv
BY InitInv, NextInv, PTL DEF Spec

\* Handlers are told the truth: the outcome a method speaks of is the one the
\* cloud sees.
THEOREM HandlersAreToldTheTruth == Spec => []ToldIsTrue
<1>1. IInv => ToldIsTrue
  BY DEF IInv, CommandInv, ToldIsTrue
<1>2. QED BY <1>1, Invariant, PTL

\* No method denies an outcome the handler brought about while weaved lived.
THEOREM FinishersKnow == Spec => []FinisherKnows
<1>1. IInv => FinisherKnows
  <2> SUFFICES ASSUME IInv, NEW c \in Commands, finisher[c] = "handler",
                      calling[c] = "none", c \notin cut
               PROVE  outcome[c] \in told[c]
    BY DEF FinisherKnows
  <2>1. CommandInv(c)
    BY DEF IInv
  <2>2. reply[c] = "none"
    BY <2>1 DEF CommandInv, ReplyIsTrue
  <2>3. Learnt(c) = {}
    BY <2>2, NothingLearnt
  <2>4. QED BY <2>1, <2>3 DEF CommandInv, FinisherWillKnow
<1>2. QED BY <1>1, Invariant, PTL

\* A handler that was given empty parameters reports nothing any more.
THEOREM EmptyParametersAreHarmless == Spec => []EmptyParametersReportNothing
<1>1. IInv => EmptyParametersReportNothing
  BY DEF IInv, CommandInv, EmptyParametersReportNothing
<1>2. QED BY <1>1, Invariant, PTL

(***************************************************************************)
(* The promise of CommandOutcome is kept.                                  *)
(***************************************************************************)
busySet == {c \in Commands : calling[c] # "none"}
owedSet == {c \in Commands : /\ finisher[c] = "handler"
                             /\ outcome[c] \notin told[c]
                             /\ c \notin cut}

\* A command with a call that the death of weaved cut off is gone for good.
CutIsGone == \A c \in Commands : c \in cut => c \in given /\ state[c] = "none"

\* It never comes back: a new weaved is given other commands.
LEMMA NextCut == ASSUME IInv, CutIsGone, [Next]_vars PROVE CutIsGone'
<1> USE DEF serverVars, clientVars, callVars
<1> SUFFICES ASSUME NEW d \in Commands, d \in cut'
             PROVE  d \in given' /\ state'[d] = "none"
  BY DEF CutIsGone
<1>a. TypeOK /\ CommandInv(d)
  BY DEF IInv
<1>1. CASE WeavedStop
  <2>1. calling[d] # "none" \/ d \in cut
    BY <1>1 DEF WeavedStop
  <2>2. d \in given
    BY <1>a, <2>1 DEF CutIsGone, CommandInv, NotGivenNotSeen
  <2>3. QED BY <1>1, <2>2 DEF WeavedStop
<1>2. CASE cut' = cut
  <2>1. d \in given /\ state[d] = "none"
    BY <1>2 DEF CutIsGone
  <2>2. CASE /\ given \subseteq given'
             /\ \/ state' = state
                \/ \E c \in Commands : state' = [state EXCEPT ![c] = "none"]
    BY <1>a, <2>1, <2>2 DEF TypeOK
  <2>3. ASSUME NEW c \in Commands, OnCommand(c)
        PROVE  d \in given' /\ state'[d] = "none"
    BY <1>a, <2>1, <2>3 DEF OnCommand, TypeOK
  <2>4. ASSUME NEW c \in Commands, FinishForCloud(c) \/ Update(c)
        PROVE  d \in given' /\ state'[d] = "none"
    <3>1. state[c] # "none" /\ given' = given
      BY <2>4 DEF FinishForCloud, Update, Locked
    <3>2. state' = state \/ \E s : state' = [state EXCEPT ![c] = s]
      BY <2>4 DEF FinishForCloud, Update, Move
    <3>3. QED BY <1>a, <2>1, <3>1, <3>2 DEF TypeOK
  <2>5. ASSUME NEW c \in Commands,
               \/ Destroy(c) \/ ReportDestroyed(c) \/ Read(c) \/ Return(c)
               \/ Release(c) \/ \E m \in Setters \cup Getters : Call(c, m)
        PROVE  d \in given' /\ state'[d] = "none"
    BY <2>2, <2>5 DEF Destroy, ReportDestroyed, Read, Return, Release, Call
  <2>6. CASE WeavedStart \/ UNCHANGED vars
    BY <2>2, <2>6 DEF WeavedStart, vars
  <2>7. CASE WeavedStop
    BY <1>1, <2>7
  <2>8. QED BY <2>3, <2>4, <2>5, <2>6, <2>7 DEF Next
<1>3. CASE cut' # cut
  BY <1>1, <1>3 DEF Next, OnCommand, FinishForCloud, Destroy, Call,
     ReportDestroyed, Update, Read, Return, Release, WeavedStart, vars
<1>4. QED BY <1>2, <1>3

\* What a command without an outcome owes: nothing, and it was told nothing.
LEMMA UndecidedOwesNothing ==
  ASSUME IInv, CutIsGone, NEW c \in Commands, outcome[c] = "none"
  PROVE  c \notin owedSet /\ told[c] = {}
<1>1. TypeOK /\ CommandInv(c) /\ "none" \notin Terminal
  BY DEF IInv, Terminal
<1>2. told[c] = {} /\ "none" \notin Learnt(c)
  BY <1>1, LearntTypes DEF CommandInv, TypeOK
<1>3. QED BY <1>1, <1>2 DEF CommandInv, FinisherWillKnow, owedSet

\* The death of weaved settles all it owes.
LEMMA StopSettles == ASSUME IInv, WeavedStop PROVE Promise!Crash
<1> USE DEF serverVars, clientVars, callVars
<1>1. UNCHANGED <<outcome, finisher, told, calling>>
  BY DEF WeavedStop
<1>2. ASSUME NEW c \in Commands, finisher[c] = "handler",
             outcome[c] \notin told[c]
      PROVE  c \in cut'
  <2>1. CommandInv(c)
    BY DEF IInv
  <2>2. CASE c \in cut
    BY <2>2 DEF WeavedStop
  <2>3. CASE outcome[c] \in Learnt(c)
    <3>1. reply[c] # "none"
      BY <2>3, NothingLearnt
    <3>2. calling[c] # "none"
      BY <2>1, <3>1 DEF CommandInv, ReplyIsTrue
    <3>3. QED BY <3>2 DEF WeavedStop
  <2>4. QED BY <1>2, <2>1, <2>2, <2>3 DEF CommandInv, FinisherWillKnow
<1>3. QED BY <1>1, <1>2 DEF Promise!Crash

\* A move of libweave decides the outcome, on behalf of the cloud or of the
\* call it comes from, or leaves it alone.
LEMMA MoveDecides ==
  ASSUME IInv, CutIsGone, NEW c \in Commands, NEW s \in States,
         NEW who \in {"handler", "cloud"}, state[c] # "none", Allows(c, s),
         Move(c, s, who), UNCHANGED <<told, calling, cut>>,
         who = "handler" => calling[c] # "none"
  PROVE  Promise!Next \/ UNCHANGED Promise!vars
<1>0. TypeOK /\ CommandInv(c) /\ c \notin cut
  BY DEF IInv, CutIsGone
<1>1. CASE s \in Terminal /\ state[c] # s
  <2>1. /\ outcome' = [outcome EXCEPT ![c] = s]
        /\ finisher' = [finisher EXCEPT ![c] = who]
    BY <1>1 DEF Move
  <2>2. outcome[c] = "none"
    BY <1>0, <1>1 DEF Allows, CommandInv, OutcomeIsFinal
  <2>3. c \notin owedSet /\ told[c] = {}
    BY <2>2, UndecidedOwesNothing
  <2>4. /\ finisher'[c] = who
        /\ outcome'[c] \notin told'[c]
        /\ \A d \in Commands \ {c} : /\ finisher'[d] = finisher[d]
                                     /\ outcome'[d] = outcome[d]
    BY <1>0, <2>1, <2>3 DEF TypeOK
  <2>5. CASE who = "handler"
    <3>1. owedSet' = owedSet \cup {c}
      BY <1>0, <2>4, <2>5 DEF owedSet
    <3>2. c \in busySet /\ busySet' = busySet
      BY <2>5 DEF busySet
    <3>3. Promise!DecideByCall(c, s)
      BY <2>1, <2>2, <3>1, <3>2 DEF Promise!DecideByCall, owedSet, busySet
    <3>4. QED BY <1>1, <3>3 DEF Promise!Next
  <2>6. CASE who = "cloud"
    <3>1. owedSet' = owedSet
      BY <2>3, <2>4, <2>6 DEF owedSet
    <3>2. Promise!Decide(c, s)
      BY <2>1, <2>2, <3>1 DEF Promise!Decide, owedSet
    <3>3. QED BY <1>1, <3>2 DEF Promise!Next
  <2>7. QED BY <2>5, <2>6
<1>2. CASE ~(s \in Terminal /\ state[c] # s)
  BY <1>2 DEF Move, Promise!vars
<1>3. QED BY <1>1, <1>2

\* A method that returns tells the outcome if it knows it, and owes it if the
\* call has decided it.
LEMMA ReturnTells ==
  ASSUME IInv, NEW c \in Commands, Return(c) PROVE Promise!Next
<1>0. TypeOK /\ CommandInv(c)
  BY DEF IInv
<1>1. /\ reply[c] # "none"
      /\ calling' = [calling EXCEPT ![c] = "none"]
      /\ told' = [told EXCEPT ![c] = @ \cup Learnt(c)]
      /\ UNCHANGED <<outcome, finisher, cut>>
  BY DEF Return, serverVars
<1>2. c \in busySet /\ busySet' = busySet \ {c}
  BY <1>0, <1>1 DEF busySet, CommandInv, ReplyIsTrue, TypeOK
<1>3. /\ told'[c] = told[c] \cup Learnt(c)
      /\ \A d \in Commands \ {c} : told'[d] = told[d]
  BY <1>0, <1>1 DEF TypeOK
<1>4. CASE Learnt(c) = {}
  <2>1. c \notin owedSet
    BY <1>0, <1>4 DEF owedSet, CommandInv, FinisherWillKnow
  <2>2. told' = told
    BY <1>0, <1>1, <1>4 DEF TypeOK
  <2>3. owedSet' = owedSet
    BY <1>1, <2>2 DEF owedSet
  <2>4. Promise!End(c)
    BY <1>1, <1>2, <2>1, <2>2, <2>3 DEF Promise!End, owedSet, busySet
  <2>5. QED BY <2>4 DEF Promise!Next
<1>5. CASE Learnt(c) # {}
  <2>1. Learnt(c) = {outcome[c]} /\ outcome[c] # "none"
    <3>1. Learnt(c) \subseteq {outcome[c]}
      BY <1>0 DEF CommandInv, ReplyIsTrue
    <3>2. QED BY <1>5, <3>1, LearntTypes DEF Terminal
  <2>2. owedSet' = owedSet \ {c}
    BY <1>1, <1>3, <2>1 DEF owedSet
  <2>3. Promise!EndTelling(c)
    BY <1>1, <1>2, <2>1, <2>2 DEF Promise!EndTelling, owedSet, busySet
  <2>4. QED BY <2>3 DEF Promise!Next
<1>6. QED BY <1>4, <1>5

\* Every step is one of the promise's, or none.
LEMMA NextPromise ==
  ASSUME IInv, CutIsGone, [Next]_vars
  PROVE  Promise!Next \/ UNCHANGED Promise!vars
<1> USE DEF serverVars, clientVars, callVars
<1>1. CASE WeavedStop
  BY <1>1, StopSettles DEF Promise!Next
<1>2. CASE UNCHANGED <<outcome, finisher, told, calling, cut>>
  BY <1>2 DEF Promise!vars
<1>3. ASSUME NEW c \in Commands, FinishForCloud(c)
      PROVE  Promise!Next \/ UNCHANGED Promise!vars
  <2>1. PICK s \in {"cancelled", "expired"} : Allows(c, s) /\ Move(c, s, "cloud")
    BY <1>3 DEF FinishForCloud
  <2>2. s \in States
    BY DEF States, Terminal
  <2>3. state[c] # "none" /\ UNCHANGED <<told, calling, cut>>
    BY <1>3 DEF FinishForCloud
  <2>4. QED BY <2>1, <2>2, <2>3, MoveDecides
<1>4. ASSUME NEW c \in Commands, Update(c)
      PROVE  Promise!Next \/ UNCHANGED Promise!vars
  <2> DEFINE s == Target[calling[c]]
  <2>1. /\ s \in States /\ state[c] # "none" /\ calling[c] # "none"
        /\ UNCHANGED <<told, calling, cut>>
    BY <1>4, TargetTypes DEF Update, Locked
  <2>2. CASE UNCHANGED <<state, outcome, finisher>>
    BY <1>2, <2>1, <2>2
  <2>3. CASE Allows(c, s) /\ Move(c, s, "handler")
    BY <2>1, <2>3, MoveDecides
  <2>4. QED BY <1>4, <2>2, <2>3 DEF Update
<1>5. ASSUME NEW c \in Commands, NEW m \in Setters \cup Getters, Call(c, m)
      PROVE  Promise!Next \/ UNCHANGED Promise!vars
  <2>1. /\ calling[c] = "none" /\ m # "none"
        /\ calling' = [calling EXCEPT ![c] = m]
        /\ UNCHANGED <<outcome, finisher, told, cut>>
    BY <1>5, TargetTypes, WantedTypes DEF Call, Idle
  <2>2. c \notin busySet /\ busySet' = busySet \cup {c}
    BY <2>1 DEF busySet, IInv, TypeOK
  <2>3. Promise!Begin(c)
    BY <2>1, <2>2 DEF Promise!Begin, busySet
  <2>4. QED BY <2>3 DEF Promise!Next
<1>6. ASSUME NEW c \in Commands, Return(c)
      PROVE  Promise!Next \/ UNCHANGED Promise!vars
  BY <1>6, ReturnTells
<1>7. ASSUME NEW c \in Commands,
             \/ OnCommand(c) \/ Destroy(c) \/ ReportDestroyed(c) \/ Read(c)
             \/ Release(c)
      PROVE  Promise!Next \/ UNCHANGED Promise!vars
  BY <1>2, <1>7 DEF OnCommand, Destroy, ReportDestroyed, Read, Release
<1>8. CASE WeavedStart \/ UNCHANGED vars
  BY <1>2, <1>8 DEF WeavedStart, vars
<1>9. QED BY <1>1, <1>3, <1>4, <1>5, <1>6, <1>7, <1>8 DEF Next

\* libweave, the proxy and the Command object together keep the promise made
\* to the handler, for any set of commands.
THEOREM PromiseIsKept == Spec => ImplementsPromise
<1>1. Init => IInv /\ CutIsGone
  BY InitInv DEF Init, CutIsGone
<1>2. IInv /\ CutIsGone /\ [Next]_vars => IInv' /\ CutIsGone'
  BY NextInv, NextCut
<1>3. Init => Promise!Init
  BY DEF Init, Promise!Init
<1>4. IInv /\ CutIsGone /\ [Next]_vars => [Promise!Next]_(Promise!vars)
  BY NextPromise
<1>5. QED BY <1>1, <1>2, <1>3, <1>4, PTL DEF Spec, ImplementsPromise, Promise!Spec

=============================================================================
