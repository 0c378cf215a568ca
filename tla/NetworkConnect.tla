--------------------------- MODULE NetworkConnect ---------------------------
(***************************************************************************)
(* What libweave may rely on when it asks a weave::provider::Network to    *)
(* connect: one attempt is under way at a time and calls made meanwhile    *)
(* are declined; a call's callback runs once at most, and never from       *)
(* within Connect; a call that was declined is never answered with what    *)
(* became of an attempt, nor an attempt with a refusal.                    *)
(*                                                                         *)
(* An attempt may be dropped with its answer, as shill may go away.        *)
(* ShillClient implements this.                                            *)
(***************************************************************************)
EXTENDS Integers

CONSTANTS Requests,  \* calls to Connect
          Ends,      \* answers to an attempt that was made
          Refusals,  \* answers to one that could not be made
          Busy,      \* the answer while another is under way
          Nothing    \* no answer

VARIABLES
  asked,     \* the calls made
  trying,    \* the call whose attempt is under way, if any
  declined,  \* <<call, answer>> of those that have still to be told no
  answers,   \* how often each callback has run
  answer     \* what it was last run with

vars == <<asked, trying, declined, answers, answer>>

Init ==
  /\ asked = {} /\ trying = {} /\ declined = {}
  /\ answers = [k \in Requests |-> 0]
  /\ answer = [k \in Requests |-> Nothing]

\* Connect makes an attempt if none is under way ...
Begin(k) ==
  /\ k \notin asked /\ trying = {}
  /\ asked' = asked \cup {k} /\ trying' = {k}
  /\ UNCHANGED <<declined, answers, answer>>

\* ... and declines the call if one is, or if it cannot make it.
Decline(k, what) ==
  /\ k \notin asked
  /\ IF trying = {} THEN what \in Refusals ELSE what = Busy
  /\ asked' = asked \cup {k} /\ declined' = declined \cup {<<k, what>>}
  /\ UNCHANGED <<trying, answers, answer>>

Answer(k, what) ==
  /\ answers' = [answers EXCEPT ![k] = @ + 1]
  /\ answer' = [answer EXCEPT ![k] = what]

\* A later task tells a caller that was declined so.
AnswerDeclined(k, what) ==
  /\ <<k, what>> \in declined
  /\ declined' = declined \ {<<k, what>>}
  /\ Answer(k, what)
  /\ UNCHANGED <<asked, trying>>

\* The attempt ends, and its caller is told how ...
End(k, what) ==
  /\ k \in trying
  /\ trying' = {}
  /\ Answer(k, what)
  /\ UNCHANGED <<asked, declined>>

\* ... or it is given up without a word.
Drop ==
  /\ trying # {}
  /\ trying' = {}
  /\ UNCHANGED <<asked, declined, answers, answer>>

Next ==
  \/ Drop
  \/ \E k \in Requests :
       \/ Begin(k)
       \/ \E what \in Refusals \cup {Busy} :
            Decline(k, what) \/ AnswerDeclined(k, what)
       \/ \E what \in Ends : End(k, what)

Spec == Init /\ [][Next]_vars

=============================================================================
