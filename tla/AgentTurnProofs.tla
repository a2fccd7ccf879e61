--------------------------- MODULE AgentTurnProofs ---------------------------
(***************************************************************************)
(* Theorems of one agent turn, for any number of turns and of updates the  *)
(* agent may have queued.                                                  *)
(***************************************************************************)
EXTENDS AgentTurn, TLAPS

\* A stop reason is the last update of its session, and the one it sent.
StopIsLast ==
  \A i \in 1..Len(queue) :
    queue[i] \in StopReasons => i = Len(queue) /\ queue[i] = stopped

\* A turn on its way to being an answer is complete when prompt returns, and
\* stays so while its agent is killed and waited for.
AnsweredIsComplete ==
  /\ verdict = "answered" => stopped = "end_turn" /\ said /\ queue = <<>>
  /\ runner = "returned" => verdict = "answered"
  /\ runner \in {"none", "connecting", "opening", "prompting"} => verdict = "none"

\* The broker goes on only from a turn that returned, or before the first one.
BrokerGoesOnAfterAnswers ==
  /\ caller \in {"idle", "done"} =>
       runner = "returned" \/ (runner = "none" /\ turns = 0)
  /\ runner = "none" => child = "none" /\ turns = 0
  /\ runner # "none" => child # "none"

TurnInv ==
  /\ TypeOK
  /\ SettledMeansGone
  /\ StopIsLast
  /\ AnsweredIsComplete
  /\ BrokerGoesOnAfterAnswers

\* The broker never touches the target while an agent of a turn it accepted is
\* alive: run resolves after close, and close after the child is gone.
NoAgentBehindTheBroker ==
  caller \in {"idle", "done"} => child \in {"none", "gone"}

LEMMA InitTurnInv == Init => TurnInv
<1> SUFFICES ASSUME Init PROVE TurnInv OBVIOUS
<1>1. TypeOK
  <2>1. turns \in 0..MaxTurns
    BY TurnAssumption DEF Init
  <2>2. queue \in Seq(Updates \cup StopReasons)
    BY DEF Init
  <2>3. stopped \in StopReasons \cup {"none"}
    BY DEF Init
  <2> QED BY <2>1, <2>2, <2>3 DEF Init, TypeOK
<1>2. StopIsLast
  <2>1. 1..Len(queue) = {}
    BY DEF Init
  <2> QED BY <2>1 DEF StopIsLast
<1>3. SettledMeansGone /\ AnsweredIsComplete /\ BrokerGoesOnAfterAnswers
  BY DEF Init, SettledMeansGone, AnsweredIsComplete, BrokerGoesOnAfterAnswers
<1> QED BY <1>1, <1>2, <1>3 DEF TurnInv

\* Taking the first update leaves the others where they stop being last.
LEMMA TakingKeepsOrder ==
  ASSUME TypeOK, StopIsLast, queue # <<>>, queue' = Tail(queue), stopped' = stopped
  PROVE  /\ queue' \in Seq(Updates \cup StopReasons)
         /\ StopIsLast'
         /\ Head(queue) \in StopReasons => queue' = <<>> /\ stopped = Head(queue)
<1>1. /\ queue \in Seq(Updates \cup StopReasons)
      /\ Len(queue) \in Nat /\ Len(queue) > 0
  BY DEF TypeOK
<1>2. /\ queue' \in Seq(Updates \cup StopReasons)
      /\ Len(queue') = Len(queue) - 1
      /\ \A i \in 1..Len(queue') : queue'[i] = queue[i + 1]
  BY <1>1
<1>3. StopIsLast'
  <2> SUFFICES ASSUME NEW i \in 1..Len(queue'), queue'[i] \in StopReasons
               PROVE  i = Len(queue') /\ queue'[i] = stopped'
    BY DEF StopIsLast, StopReasons
  <2>1. i + 1 \in 1..Len(queue) /\ queue'[i] = queue[i + 1]
    BY <1>1, <1>2
  <2>2. i + 1 = Len(queue) /\ queue[i + 1] = stopped
    BY <2>1 DEF StopIsLast
  <2>3. i = Len(queue')
    <3> DEFINE was == Len(queue)
               is == Len(queue')
    <3>1. was \in Nat /\ is = was - 1 /\ i \in 1..is /\ i + 1 = was
      BY <1>1, <1>2, <2>2
    <3> HIDE DEF was, is
    <3>2. i = is
      BY <3>1
    <3> QED BY <3>2 DEF is
  <2>4. queue'[i] = stopped'
    BY <2>1, <2>2
  <2> QED BY <2>3, <2>4
<1>4. Head(queue) \in StopReasons => queue' = <<>> /\ stopped = Head(queue)
  <2> SUFFICES ASSUME Head(queue) \in StopReasons
               PROVE  queue' = <<>> /\ stopped = Head(queue)
    OBVIOUS
  <2>1. Head(queue) = queue[1]
    BY <1>1
  <2>2. 1 = Len(queue) /\ stopped = Head(queue)
    <3>1. 1 \in 1..Len(queue)
      BY <1>1
    <3>2. queue[1] \in StopReasons
      BY <2>1
    <3> QED BY <2>1, <3>1, <3>2 DEF StopIsLast
  <2>3. Len(queue') = 0
    BY <1>2, <2>2
  <2> QED BY <1>2, <2>2, <2>3
<1> QED BY <1>2, <1>3, <1>4

\* An agent that has not stopped adds to a queue with no stop in it.
LEMMA AddingKeepsOrder ==
  ASSUME TypeOK, StopIsLast, stopped = "none", NEW update \in Updates \cup StopReasons,
         queue' = Append(queue, update),
         stopped' = IF update \in StopReasons THEN update ELSE "none"
  PROVE  queue' \in Seq(Updates \cup StopReasons) /\ StopIsLast'
<1>1. queue \in Seq(Updates \cup StopReasons) /\ Len(queue) \in Nat
  BY DEF TypeOK
<1>2. /\ queue' \in Seq(Updates \cup StopReasons)
      /\ Len(queue') = Len(queue) + 1
      /\ \A i \in 1..Len(queue) : queue'[i] = queue[i]
      /\ queue'[Len(queue) + 1] = update
  BY <1>1
<1>3. \A i \in 1..Len(queue) : queue[i] \notin StopReasons
  BY DEF StopIsLast, StopReasons
<1> QED BY <1>1, <1>2, <1>3 DEF StopIsLast

LEMMA StepTurnInv == TurnInv /\ [Next]_vars => TurnInv'
<1> SUFFICES ASSUME TurnInv, [Next]_vars PROVE TurnInv' OBVIOUS
<1> USE DEF broker_vars, runner_vars, agent_vars
<1>0. /\ TypeOK /\ SettledMeansGone /\ StopIsLast /\ AnsweredIsComplete
      /\ BrokerGoesOnAfterAnswers
  BY DEF TurnInv
<1>1. CASE BeginTurn
  <2>1. turns' \in 0..MaxTurns /\ turns' # 0
    BY <1>0, <1>1, TurnAssumption DEF BeginTurn, TypeOK
  <2>2. queue' \in Seq(Updates \cup StopReasons) /\ 1..Len(queue') = {}
    BY <1>1 DEF BeginTurn
  <2>3. TypeOK'
    BY <1>0, <1>1, <2>1, <2>2 DEF BeginTurn, TypeOK
  <2>4. StopIsLast'
    BY <2>2 DEF StopIsLast
  <2> QED
    BY <1>0, <1>1, <2>3, <2>4
       DEF BeginTurn, TurnInv, SettledMeansGone, AnsweredIsComplete,
           BrokerGoesOnAfterAnswers
<1>2. CASE Deadline \/ Abort
  BY <1>0, <1>2
     DEF Deadline, Abort, Fire, TurnInv, TypeOK, SettledMeansGone, StopIsLast,
         AnsweredIsComplete, BrokerGoesOnAfterAnswers
<1>3. CASE RunEnds \/ PhaseWorks \/ PhaseEnds
  BY <1>0, <1>3
     DEF RunEnds, PhaseWorks, PhaseEnds, TurnInv, TypeOK, SettledMeansGone, StopIsLast, AnsweredIsComplete,
         BrokerGoesOnAfterAnswers
<1>4. CASE Initialized \/ SessionOpens
  BY <1>0, <1>4
     DEF Initialized, SessionOpens, TurnInv, TypeOK, SettledMeansGone, StopIsLast,
         AnsweredIsComplete, BrokerGoesOnAfterAnswers
<1>5. CASE ConnectFails \/ SessionRefused \/ PromptFails
  BY <1>0, <1>5
     DEF ConnectFails, SessionRefused, PromptFails, Close, TurnInv, TypeOK,
         SettledMeansGone, StopIsLast, AnsweredIsComplete, BrokerGoesOnAfterAnswers
<1>6. CASE TakeText
  <2>1. queue' \in Seq(Updates \cup StopReasons) /\ StopIsLast'
    BY <1>0, <1>6, TakingKeepsOrder DEF TakeText
  <2> QED
    BY <1>0, <1>6, <2>1
       DEF TakeText, TurnInv, TypeOK, SettledMeansGone, AnsweredIsComplete,
           BrokerGoesOnAfterAnswers
<1>7. CASE TakeMalformed
  <2>1. queue' \in Seq(Updates \cup StopReasons) /\ StopIsLast'
    BY <1>0, <1>7, TakingKeepsOrder DEF TakeMalformed
  <2> QED
    BY <1>0, <1>7, <2>1
       DEF TakeMalformed, Close, TurnInv, TypeOK, SettledMeansGone, AnsweredIsComplete,
           BrokerGoesOnAfterAnswers
<1>8. CASE TakeStop
  <2>1. /\ queue' \in Seq(Updates \cup StopReasons) /\ StopIsLast'
        /\ queue' = <<>> /\ stopped = Head(queue)
    BY <1>0, <1>8, TakingKeepsOrder DEF TakeStop
  <2>2. AnsweredIsComplete'
    BY <1>0, <1>8, <2>1 DEF TakeStop, Close, AnsweredIsComplete
  <2> QED
    BY <1>0, <1>8, <2>1, <2>2
       DEF TakeStop, Close, TurnInv, TypeOK, SettledMeansGone, BrokerGoesOnAfterAnswers
<1>9. CASE Settle
  BY <1>0, <1>9
     DEF Settle, TurnInv, TypeOK, SettledMeansGone, StopIsLast, AnsweredIsComplete,
         BrokerGoesOnAfterAnswers
<1>10. ASSUME NEW update \in Updates, AgentSays(update) PROVE TurnInv'
  <2>1. update \notin StopReasons
    BY DEF Updates, Texts, StopReasons
  <2>2. queue' \in Seq(Updates \cup StopReasons) /\ StopIsLast'
    BY <1>0, <1>10, <2>1, AddingKeepsOrder DEF AgentSays
  <2> QED
    BY <1>0, <1>10, <2>2
       DEF AgentSays, TurnInv, TypeOK, SettledMeansGone, AnsweredIsComplete,
           BrokerGoesOnAfterAnswers
<1>11. ASSUME NEW why \in StopReasons, AgentStops(why) PROVE TurnInv'
  <2>1. queue' \in Seq(Updates \cup StopReasons) /\ StopIsLast'
    BY <1>0, <1>11, AddingKeepsOrder DEF AgentStops
  <2> QED
    BY <1>0, <1>11, <2>1
       DEF AgentStops, TurnInv, TypeOK, SettledMeansGone, AnsweredIsComplete,
           BrokerGoesOnAfterAnswers
<1>12. CASE AgentExits
  BY <1>0, <1>12
     DEF AgentExits, TurnInv, TypeOK, SettledMeansGone, StopIsLast, AnsweredIsComplete,
         BrokerGoesOnAfterAnswers
<1>13. CASE UNCHANGED vars
  BY <1>0, <1>13
     DEF vars, TurnInv, TypeOK, SettledMeansGone, StopIsLast, AnsweredIsComplete,
         BrokerGoesOnAfterAnswers
<1> QED
  BY <1>1, <1>2, <1>3, <1>4, <1>5, <1>6, <1>7, <1>8, <1>9, <1>10, <1>11, <1>12, <1>13
     DEF Next, RunnerStep, AgentStep

LEMMA TurnInvHolds == Spec => []TurnInv
BY InitTurnInv, StepTurnInv, PTL DEF Spec

\* Every state of every turn is well typed.
THEOREM TurnTypeCorrect == Spec => []TypeOK
<1>1. TurnInv => TypeOK
  BY DEF TurnInv
<1> QED BY <1>1, TurnInvHolds, PTL

\* A turn that settled, in whichever way, left no agent process behind.
THEOREM TurnsLeaveNoProcess == Spec => []SettledMeansGone
<1>1. TurnInv => SettledMeansGone
  BY DEF TurnInv
<1> QED BY <1>1, TurnInvHolds, PTL

\* What the broker goes on with is a whole answer: finished by the agent, not
\* empty, and with no update left unread.
THEOREM BrokerTakesWholeAnswers == Spec => []AnswersAreComplete
<1>1. TurnInv => AnswersAreComplete
  BY DEF TurnInv, TypeOK, AnswersAreComplete, AnsweredIsComplete, BrokerGoesOnAfterAnswers
<1> QED BY <1>1, TurnInvHolds, PTL

\* The broker touches the target only when no agent of its turns is alive.
THEOREM BrokerWorksAlone == Spec => []NoAgentBehindTheBroker
<1>1. TurnInv => NoAgentBehindTheBroker
  BY DEF TurnInv, SettledMeansGone, BrokerGoesOnAfterAnswers, NoAgentBehindTheBroker
<1> QED BY <1>1, TurnInvHolds, PTL

=============================================================================
