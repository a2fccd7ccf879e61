------------------------------ MODULE AgentTurn ------------------------------
(***************************************************************************)
(* One agent turn, as three parties see it: the broker that waits for it   *)
(* (turn in src/src/broker/state-machine.ts), the runner that drives it    *)
(* (src/src/broker/agents.ts over src/src/transport/acp-client.ts), and    *)
(* the agent, a subprocess that speaks ACP over stdio and may be slow,     *)
(* refuse, die, or ignore the signal that kills it.                        *)
(*                                                                         *)
(* The broker races the runner against the turn's signal, which fires on   *)
(* the deadline or on the run's own abort.  A turn it stops waiting for    *)
(* ends its run, so one runner and one subprocess are modelled at a time.  *)
(* JavaScript runs a callback to its end: an abort, its listeners and the  *)
(* race they decide are one step.                                          *)
(***************************************************************************)
EXTENDS Naturals, Sequences

CONSTANTS
  MaxTurns,    \* bound: turns of a run
  MaxUpdates   \* bound: updates an agent sends that are still queued

ASSUME TurnAssumption == MaxTurns \in Nat /\ MaxUpdates \in Nat \ {0}

VARIABLES
  caller,      \* the broker: between turns, waiting for one, or done with the run
  turns,       \* turns begun
  midPhase,    \* the loop has awaited something since it last looked at runSignal
  runAborted,  \* runSignal.aborted
  fired,       \* the turn's own signal, any of the deadline and runSignal
  heard,       \* turn's listener was on the signal before it fired
  runner,      \* where AgentRunner.run stands
  verdict,     \* how run will settle once the handle is closed
  listening,   \* driveTurn's cancel listener is on the signal
  said,        \* the text so far is more than whitespace
  child,       \* the agent's process
  queue,       \* the session's updates prompt has yet to take
  stopped,     \* the stop reason the agent sent last, if any
  cancelled    \* session/cancel was sent

broker_vars == <<caller, turns, midPhase, runAborted, fired, heard>>
runner_vars == <<runner, verdict, listening, said>>
agent_vars == <<child, queue, stopped, cancelled>>
vars == <<broker_vars, runner_vars, agent_vars>>

Texts == {"text", "blank"}
Updates == Texts \cup {"malformed"}
StopReasons == {"end_turn", "cut short"}

Init ==
  /\ caller = "idle" /\ turns = 0 /\ midPhase = FALSE /\ runAborted = FALSE
  /\ fired = FALSE /\ heard = FALSE
  /\ runner = "none" /\ verdict = "none" /\ listening = FALSE /\ said = FALSE
  /\ child = "none" /\ queue = <<>> /\ stopped = "none" /\ cancelled = FALSE

-----------------------------------------------------------------------------
(* The broker                                                              *)

\* runSignal is looked at between phases, and not again in one.
Proceeds == midPhase \/ ~runAborted

\* What a phase awaits that is no turn: detectors, a repro, git.
PhaseWorks ==
  /\ caller = "idle" /\ Proceeds /\ ~midPhase
  /\ midPhase' = TRUE
  /\ UNCHANGED <<caller, turns, runAborted, fired, heard, runner_vars, agent_vars>>

PhaseEnds ==
  /\ caller = "idle" /\ midPhase
  /\ midPhase' = FALSE
  /\ UNCHANGED <<caller, turns, runAborted, fired, heard, runner_vars, agent_vars>>

\* AbortSignal.any of a fresh deadline and runSignal: an aborted runSignal
\* makes a signal that has fired already, and whose listener never will.
BeginTurn ==
  /\ caller = "idle" /\ turns < MaxTurns /\ Proceeds
  /\ caller' = "waiting" /\ turns' = turns + 1 /\ midPhase' = TRUE
  /\ fired' = runAborted /\ heard' = ~runAborted
  /\ runner' = "connecting" /\ verdict' = "none"
  /\ listening' = FALSE /\ said' = FALSE
  /\ child' = "up" /\ queue' = <<>> /\ stopped' = "none" /\ cancelled' = FALSE
  /\ UNCHANGED runAborted

\* The listeners of a signal that fires, in the order they were added: turn's
\* rejects the race, driveTurn's cancels the session.
Fire ==
  /\ fired' = TRUE
  /\ caller' = IF caller = "waiting" THEN "left" ELSE caller
  /\ cancelled' = (cancelled \/ listening)
  /\ listening' = FALSE

\* Mutant: the deadline does not reject the race.
Deadline_Unheard ==
  /\ caller = "waiting" /\ ~fired
  /\ fired' = TRUE
  /\ cancelled' = (cancelled \/ listening)
  /\ listening' = FALSE
  /\ UNCHANGED <<caller, turns, midPhase, runAborted, heard, runner, verdict, said,
                 child, queue, stopped>>

Deadline ==
  /\ caller = "waiting" /\ ~fired
  /\ Fire
  /\ UNCHANGED <<turns, midPhase, runAborted, heard, runner, verdict, said, child,
                 queue, stopped>>

\* runSignal fires.  Between turns nobody listens; the broker looks at it itself.
Abort ==
  /\ ~runAborted /\ runAborted' = TRUE
  /\ IF caller = "waiting" THEN Fire
     ELSE UNCHANGED <<caller, fired, listening, cancelled>>
  /\ UNCHANGED <<turns, midPhase, heard, runner, verdict, said, child, queue, stopped>>

\* The run ends between two turns.
RunEnds ==
  /\ caller = "idle" /\ caller' = "done"
  /\ UNCHANGED <<turns, midPhase, runAborted, fired, heard, runner_vars, agent_vars>>

-----------------------------------------------------------------------------
(* The runner: connect, newSession, prompt, and close in every case        *)

\* handle.close(): kill the child, and wait for it to be gone.
Close(how) ==
  /\ runner' = "closing" /\ verdict' = how /\ listening' = FALSE
  /\ child' = IF child = "up" THEN "killed" ELSE child

Initialized ==
  /\ runner = "connecting" /\ child = "up"
  /\ runner' = "opening"
  /\ UNCHANGED <<broker_vars, verdict, listening, said, agent_vars>>

\* Mutant: a connection that failed is dropped as it is.
ConnectFails_Unclosed ==
  /\ runner = "connecting"
  /\ runner' = "rejected"
  /\ caller' = IF caller = "waiting" THEN "left" ELSE caller
  /\ UNCHANGED <<turns, midPhase, runAborted, fired, heard, verdict, listening, said,
                 agent_vars>>

\* initialize was refused, or lost with the process, or the spawn failed.
ConnectFails ==
  /\ runner = "connecting"
  /\ Close("failed")
  /\ UNCHANGED <<broker_vars, said, queue, stopped, cancelled>>

\* newSession, then the cancel listener: on a signal that has fired it is deaf.
SessionOpens ==
  /\ runner = "opening" /\ child = "up"
  /\ runner' = "prompting" /\ listening' = ~fired
  /\ UNCHANGED <<broker_vars, verdict, said, agent_vars>>

SessionRefused ==
  /\ runner = "opening"
  /\ Close("failed")
  /\ UNCHANGED <<broker_vars, said, queue, stopped, cancelled>>

TakeText ==
  /\ runner = "prompting" /\ queue # <<>> /\ Head(queue) \in Texts
  /\ said' = (said \/ Head(queue) = "text")
  /\ queue' = Tail(queue)
  /\ UNCHANGED <<broker_vars, runner, verdict, listening, child, stopped, cancelled>>

\* normalizeSessionUpdate throws on an update that makes no valid event.
TakeMalformed ==
  /\ runner = "prompting" /\ queue # <<>> /\ Head(queue) = "malformed"
  /\ Close("failed")
  /\ queue' = Tail(queue)
  /\ UNCHANGED <<broker_vars, said, stopped, cancelled>>

\* Mutant: any stop ends a turn well.
TakeStop_AnyReason ==
  /\ runner = "prompting" /\ queue # <<>> /\ Head(queue) \in StopReasons
  /\ Close(IF said THEN "answered" ELSE "failed")
  /\ queue' = Tail(queue)
  /\ UNCHANGED <<broker_vars, said, stopped, cancelled>>

\* Only a turn the agent ended itself, and that said something, is an answer.
TakeStop ==
  /\ runner = "prompting" /\ queue # <<>> /\ Head(queue) \in StopReasons
  /\ Close(IF said /\ Head(queue) = "end_turn" THEN "answered" ELSE "failed")
  /\ queue' = Tail(queue)
  /\ UNCHANGED <<broker_vars, said, stopped, cancelled>>

\* The prompt request was rejected, or the connection closed: raced against the
\* updates, and either may win when both have happened.
PromptFails ==
  /\ runner = "prompting" /\ (stopped = "none" \/ child = "gone")
  /\ Close("failed")
  /\ UNCHANGED <<broker_vars, said, queue, stopped, cancelled>>

\* Mutant: close does not wait for the child it killed.
Settle_Unawaited ==
  /\ runner = "closing"
  /\ runner' = IF verdict = "answered" THEN "returned" ELSE "rejected"
  /\ caller' = IF caller # "waiting" THEN caller
               ELSE IF verdict = "answered" THEN "idle" ELSE "left"
  /\ UNCHANGED <<turns, midPhase, runAborted, fired, heard, verdict, listening, said,
                 agent_vars>>

\* run settles, and with it the race if the broker is still in it.
Settle ==
  /\ runner = "closing" /\ child = "gone"
  /\ runner' = IF verdict = "answered" THEN "returned" ELSE "rejected"
  /\ caller' = IF caller # "waiting" THEN caller
               ELSE IF verdict = "answered" THEN "idle" ELSE "left"
  /\ UNCHANGED <<turns, midPhase, runAborted, fired, heard, verdict, listening, said,
                 agent_vars>>

-----------------------------------------------------------------------------
(* The agent                                                               *)

AgentSays(update) ==
  /\ runner = "prompting" /\ child = "up" /\ stopped = "none"
  /\ Len(queue) < MaxUpdates
  /\ queue' = Append(queue, update)
  /\ UNCHANGED <<broker_vars, runner_vars, child, stopped, cancelled>>

AgentStops(why) ==
  /\ runner = "prompting" /\ child = "up" /\ stopped = "none"
  /\ Len(queue) < MaxUpdates
  /\ queue' = Append(queue, why) /\ stopped' = why
  /\ UNCHANGED <<broker_vars, runner_vars, child, cancelled>>

\* By itself, or because it was killed.
AgentExits ==
  /\ child \in {"up", "killed"} /\ child' = "gone"
  /\ UNCHANGED <<broker_vars, runner_vars, queue, stopped, cancelled>>

-----------------------------------------------------------------------------
RunnerStep ==
  \/ Initialized \/ ConnectFails
  \/ SessionOpens \/ SessionRefused
  \/ TakeText \/ TakeMalformed \/ TakeStop \/ PromptFails
  \/ Settle

AgentStep ==
  \/ \E update \in Updates : AgentSays(update)
  \/ \E why \in StopReasons : AgentStops(why)
  \/ AgentExits

Next ==
  \/ PhaseWorks \/ PhaseEnds \/ BeginTurn \/ Deadline \/ Abort \/ RunEnds
  \/ RunnerStep \/ AgentStep

Spec == Init /\ [][Next]_vars

-----------------------------------------------------------------------------
(* Properties                                                              *)

\* Every variable has the shape the code gives it.
TypeOK ==
  /\ caller \in {"idle", "waiting", "left", "done"}
  /\ turns \in 0..MaxTurns
  /\ {midPhase, runAborted, fired, heard, listening, said, cancelled} \subseteq BOOLEAN
  /\ runner \in {"none", "connecting", "opening", "prompting", "closing",
                 "returned", "rejected"}
  /\ verdict \in {"none", "answered", "failed"}
  /\ child \in {"none", "up", "killed", "gone"}
  /\ queue \in Seq(Updates \cup StopReasons)
  /\ stopped \in StopReasons \cup {"none"}

\* A run that settled left no process behind, whichever step of connecting,
\* opening or prompting failed.
SettledMeansGone == runner \in {"returned", "rejected"} => child = "gone"

\* What the broker takes for an answer is one the agent finished, with words in
\* it, and with every update the agent sent before it stopped.
AnswersAreComplete ==
  (caller = "idle" /\ turns > 0) =>
    runner = "returned" /\ stopped = "end_turn" /\ said /\ queue = <<>>

\* What the event loop owes: the timer, the updates that have arrived, the end
\* of a connection, the exit of a child.  The agent owes nothing: it may never
\* initialize, open a session, stop, or die when killed.
LossNoticed ==
  child = "gone" /\ (ConnectFails \/ SessionRefused \/ PromptFails)

FairSpec ==
  /\ Spec
  /\ WF_vars(Deadline)
  /\ WF_vars(TakeText \/ TakeMalformed \/ TakeStop \/ LossNoticed \/ Settle)

\* A turn begun on a signal that had not fired settles, whatever the agent does.
HeardTurnsSettle == (caller = "waiting" /\ heard) ~> (caller # "waiting")

\* state-machine.ts:80, of options.signal: "Manual abort. Takes effect at the
\* next phase boundary", which a run still waiting for a turn never reaches.
AbortTakesEffect ==
  (runAborted /\ caller = "waiting") ~> (caller # "waiting")

=============================================================================
