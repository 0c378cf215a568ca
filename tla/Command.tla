------------------------------ MODULE Command ------------------------------
(***************************************************************************)
(* A command in the hands of its handler: libweave's command, the proxy    *)
(* weaved gives out for it (src/buffet/binder_command_proxy.cc, a weak     *)
(* pointer) and the Command object of libweaved (src/libweaved/command.cc) *)
(* whose methods are synchronous calls of that proxy.  Between two calls,  *)
(* and while one is on its way, libweave may finish the command for the    *)
(* cloud or drop it, and weaved may die.                                   *)
(*                                                                         *)
(* How commands are routed to their handler is WeaveConnection's.  What a  *)
(* dictionary, an id or a name says is abstracted away.                    *)
(***************************************************************************)
CONSTANT Commands  \* commands libweave may be given, each one once

\* EnumToString of weave::Command::State.
Terminal == {"done", "cancelled", "aborted", "expired"}
States == {"queued", "inProgress", "paused", "error"} \cup Terminal

\* The state a method of Command asks libweave for.
Target == [SetProgress |-> "inProgress", Complete |-> "done",
           Abort |-> "aborted", Cancel |-> "cancelled", Pause |-> "paused",
           SetError |-> "error"]
Setters == DOMAIN Target

\* What a method asks for: GetName and GetComponent the id, and GetOrigin the
\* state.
Wanted == [GetID |-> "id", GetName |-> "id", GetComponent |-> "id",
           GetState |-> "state", GetOrigin |-> "state",
           GetParameters |-> "parameters"]
Getters == DOMAIN Wanted

VARIABLES
  weavedUp,         \* the weaved process is alive
  state,            \* libweave's state of a command, "none" before it has it
                    \* and after it has destroyed it
  given,            \* commands libweave has been given
  outcome,          \* the terminal state the command got, for the cloud to see
  finisher,         \* who brought it there
  held,             \* commands whose handler has a Command object
  calling,          \* the method that is being called on it
  reply,            \* the proxy's reply to it: a state for getState
  parameter_cache,  \* what parameter_cache_ was filled with
  told,             \* outcomes its methods have told the handler of
  cut               \* commands with a call during which weaved died

serverVars == <<weavedUp, state, given, outcome, finisher>>
clientVars == <<held, parameter_cache, told>>
callVars == <<calling, reply>>
vars == <<serverVars, clientVars, callVars, cut>>

TypeOK ==
  /\ weavedUp \in BOOLEAN
  /\ state \in [Commands -> States \cup {"none"}]
  /\ given \subseteq Commands
  /\ outcome \in [Commands -> Terminal \cup {"none"}]
  /\ finisher \in [Commands -> {"none", "handler", "cloud"}]
  /\ held \subseteq Commands
  /\ calling \in [Commands -> Setters \cup Getters \cup {"none"}]
  /\ reply \in [Commands -> States \cup {"none", "ok", "refused"}]
  /\ parameter_cache \in [Commands -> {"none", "own", "empty"}]
  /\ told \in [Commands -> SUBSET Terminal]
  /\ cut \subseteq Commands

Init ==
  /\ weavedUp = TRUE
  /\ state = [c \in Commands |-> "none"]
  /\ given = {}
  /\ outcome = [c \in Commands |-> "none"]
  /\ finisher = [c \in Commands |-> "none"]
  /\ held = {}
  /\ calling = [c \in Commands |-> "none"]
  /\ reply = [c \in Commands |-> "none"]
  /\ parameter_cache = [c \in Commands |-> "none"]
  /\ told = [c \in Commands |-> {}]
  /\ cut = {}

-----------------------------------------------------------------------------
\* A lock() that fails once libweave has finished with the command.
LockedUnlessFinished(c) == state[c] \notin Terminal \cup {"none"}

\* command_.lock() gives a command: libweave still has it.  A proxy of a
\* weaved that died has none either, its calls fail in the driver.
Locked(c) == state[c] # "none"

\* A command on which no call is under way.  The handler's loop makes one
\* call at a time.
Idle == \A c \in Commands : calling[c] = "none"

(***************************************************************************)
(* libweave, external: it is given a command and has it handled, finishes  *)
(* it for the cloud or by its deadline, and destroys it.                   *)
(***************************************************************************)
\* A terminal state is never left.
Allows(c, s) == state[c] = s \/ state[c] \notin Terminal \cup {"none"}

\* The command goes to state s on behalf of who.
Move(c, s, who) ==
  /\ state' = [state EXCEPT ![c] = s]
  /\ IF s \in Terminal /\ state[c] # s
     THEN /\ outcome' = [outcome EXCEPT ![c] = s]
          /\ finisher' = [finisher EXCEPT ![c] = who]
     ELSE UNCHANGED <<outcome, finisher>>

FinishForCloud(c) ==
  /\ state[c] # "none"
  /\ \E s \in {"cancelled", "expired"} : Allows(c, s) /\ Move(c, s, "cloud")
  /\ UNCHANGED <<weavedUp, given, clientVars, callVars, cut>>

Destroy(c) ==
  /\ state[c] # "none"
  /\ state' = [state EXCEPT ![c] = "none"]
  /\ UNCHANGED <<weavedUp, given, outcome, finisher, clientVars, callVars, cut>>

\* An OnCommand that hands a command out again.
OnCommandAgain(c) ==
  /\ weavedUp /\ state[c] = "none"
  /\ given' = given \cup {c}
  /\ state' = [state EXCEPT ![c] = "queued"]
  /\ held' = held \cup {c}
  /\ UNCHANGED <<weavedUp, outcome, finisher, parameter_cache, told, callVars,
                 cut>>

\* BinderWeaveService::OnCommand wraps the command in a BinderCommandProxy and
\* ServiceImpl::OnCommand that in a Command for its handler.
OnCommand(c) ==
  /\ weavedUp /\ c \notin given
  /\ given' = given \cup {c}
  /\ state' = [state EXCEPT ![c] = "queued"]
  /\ held' = held \cup {c}
  /\ UNCHANGED <<weavedUp, outcome, finisher, parameter_cache, told, callVars,
                 cut>>

-----------------------------------------------------------------------------
\* The handler calls a method of a Command.  GetParameters asks only once.
Call(c, m) ==
  /\ c \in held /\ Idle
  /\ m = "GetParameters" => parameter_cache[c] = "none"
  /\ calling' = [calling EXCEPT ![c] = m]
  /\ UNCHANGED <<serverVars, clientVars, reply, cut>>

\* The proxy has a call to answer.
Asked(c) == calling[c] # "none" /\ reply[c] = "none"
Answer(c, r) == reply' = [reply EXCEPT ![c] = r]

\* A reply that takes what is gone for what is finished.
ReportDestroyedAsDone(c) ==
  /\ Asked(c) /\ ~Locked(c)
  /\ Answer(c, IF calling[c] = "Complete" THEN "ok" ELSE "refused")
  /\ UNCHANGED <<serverVars, clientVars, calling, cut>>

\* ReportDestroyedError, and the driver's error once weaved is gone.
ReportDestroyed(c) ==
  /\ Asked(c) /\ ~Locked(c)
  /\ Answer(c, "refused")
  /\ UNCHANGED <<serverVars, clientVars, calling, cut>>

\* An Update that locks the command again, after libweave has removed it, to
\* report on it.
UpdateThenLock(c) ==
  /\ Asked(c) /\ Locked(c) /\ calling[c] \in Setters
  /\ LET s == Target[calling[c]]
     IN \/ Answer(c, "refused") /\ UNCHANGED <<state, outcome, finisher>>
        \/ /\ Allows(c, s) /\ Move(c, s, "handler")
           /\ Answer(c, IF s \in Terminal THEN "refused" ELSE "ok")
  /\ UNCHANGED <<weavedUp, given, clientVars, calling, cut>>

\* setProgress, complete, abort, cancel, pause and setError of the proxy:
\* libweave takes the call, or refuses it for its state or its arguments.
Update(c) ==
  /\ Asked(c) /\ Locked(c) /\ calling[c] \in Setters
  /\ LET s == Target[calling[c]]
     IN \/ Answer(c, "refused") /\ UNCHANGED <<state, outcome, finisher>>
        \/ Allows(c, s) /\ Move(c, s, "handler") /\ Answer(c, "ok")
  /\ UNCHANGED <<weavedUp, given, clientVars, calling, cut>>

\* getId, getState, getParameters and the like of the proxy.  A call on a live
\* weaved goes through, and the parameters it writes are a dictionary to
\* ParseDictionary.
Read(c) ==
  /\ Asked(c) /\ Locked(c) /\ calling[c] \in Getters
  /\ Answer(c, IF Wanted[calling[c]] = "state" THEN state[c] ELSE "ok")
  /\ UNCHANGED <<serverVars, clientVars, calling, cut>>

\* The outcome a reply lets the handler know of: a finishing method returns
\* true, or GetState a terminal state, which is no origin to GetOrigin.
Learnt(c) ==
  {s \in Terminal : \/ calling[c] = "GetState" /\ reply[c] = s
                    \/ /\ calling[c] \in Setters /\ reply[c] = "ok"
                       /\ Target[calling[c]] = s}

\* A Return that takes any state for an outcome.
ReturnAnyState(c) ==
  /\ reply[c] # "none"
  /\ calling' = [calling EXCEPT ![c] = "none"]
  /\ reply' = [reply EXCEPT ![c] = "none"]
  /\ told' = [told EXCEPT ![c] = @ \cup Learnt(c) \cup ({reply[c]} \cap States)]
  /\ parameter_cache' = parameter_cache
  /\ UNCHANGED <<serverVars, held, cut>>

\* The method returns.  GetParameters fills its cache, with an empty
\* dictionary when the call has failed.
Return(c) ==
  /\ reply[c] # "none"
  /\ calling' = [calling EXCEPT ![c] = "none"]
  /\ reply' = [reply EXCEPT ![c] = "none"]
  /\ told' = [told EXCEPT ![c] = @ \cup Learnt(c)]
  /\ parameter_cache' =
       IF calling[c] = "GetParameters"
       THEN [parameter_cache EXCEPT
               ![c] = IF reply[c] = "ok" THEN "own" ELSE "empty"]
       ELSE parameter_cache
  /\ UNCHANGED <<serverVars, held, cut>>

\* The handler is done with its Command, whatever has become of it.
Release(c) ==
  /\ c \in held /\ calling[c] = "none"
  /\ held' = held \ {c}
  /\ UNCHANGED <<serverVars, parameter_cache, told, callVars, cut>>

\* weaved dies, and libweave's commands with it.  A call it was on fails, even
\* if libweave has done what it asked for.
WeavedStop ==
  /\ weavedUp
  /\ weavedUp' = FALSE
  /\ state' = [c \in Commands |-> "none"]
  /\ cut' = cut \cup {c \in Commands : calling[c] # "none"}
  /\ \/ UNCHANGED reply
     \/ reply' = [c \in Commands |-> IF calling[c] = "none" THEN "none"
                                     ELSE "refused"]
  /\ UNCHANGED <<given, outcome, finisher, clientVars, calling>>

WeavedStart ==
  /\ ~weavedUp
  /\ weavedUp' = TRUE
  /\ UNCHANGED <<state, given, outcome, finisher, clientVars, callVars, cut>>

Next ==
  \/ WeavedStop \/ WeavedStart
  \/ \E c \in Commands :
       \/ OnCommand(c) \/ FinishForCloud(c) \/ Destroy(c)
       \/ \E m \in Setters \cup Getters : Call(c, m)
       \/ ReportDestroyed(c) \/ Update(c) \/ Read(c)
       \/ Return(c) \/ Release(c)

Spec == Init /\ [][Next]_vars

-----------------------------------------------------------------------------
\* A handler is never told of an outcome the cloud does not see: a method that
\* returns true, or GetState, speaks of the one terminal state the command
\* got, whatever the cloud did between the call and its execution.
ToldIsTrue == \A c \in Commands : told[c] \subseteq {outcome[c]}

\* A handler that has finished a command knows it: unless weaved died during
\* a call, no finishing method returns false after libweave took it, so an
\* abort or a retry after a failure never follows a success.
FinisherKnows ==
  \A c \in Commands :
    finisher[c] = "handler" /\ calling[c] = "none" /\ c \notin cut
      => outcome[c] \in told[c]

\* A handler that was given an empty dictionary for the command's parameters
\* (GetParameters caches one when its call fails) can no longer report
\* anything on the command: what it does with default values is no result.
EmptyParametersReportNothing ==
  \A c \in Commands : parameter_cache[c] = "empty" => state[c] = "none"

(***************************************************************************)
(* The handler's promise as a specification of its own.  A call owes the   *)
(* handler an answer from the moment libweave has taken a terminal state   *)
(* from it.                                                                *)
(***************************************************************************)
Promise == INSTANCE CommandOutcome WITH
             Outcomes <- Terminal,
             Undecided <- "none",
             busy <- {c \in Commands : calling[c] # "none"},
             owed <- {c \in Commands : /\ finisher[c] = "handler"
                                       /\ outcome[c] \notin told[c]
                                       /\ c \notin cut}

\* BinderCommandProxy and Command keep that promise: libweave's outcome, the
\* proxy's weak pointer and the boolean a method returns agree step by step.
ImplementsPromise == Promise!Spec

=============================================================================
