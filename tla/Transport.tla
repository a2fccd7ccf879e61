------------------------------ MODULE Transport ------------------------------
(***************************************************************************)
(* The client's end of an agent's connection, over the turns of a run: the *)
(* tap on both streams (src/src/transport/tap.ts), the handlers that       *)
(* answer the agent's requests (src/src/transport/handlers.ts, with the    *)
(* policy of Access), and the transcript both are written to               *)
(* (src/src/obs/transcript.ts), which the CLI opens once for all the turns *)
(* of an agent and closes when the run is over, whatever still runs.       *)
(*                                                                         *)
(* What the agent writes reaches the tap in chunks that end anywhere.  The *)
(* SDK between the tap and the handlers is external: it takes the lines of *)
(* the stream that are requests, in order, and writes one line for each.   *)
(* Of an agent's own tools one effect is modelled: they make links.        *)
(***************************************************************************)
EXTENDS LineTap, Access

CONSTANTS
  Places,        \* the places there are at first
  Cwd,           \* the directory the process runs in
  Requests,      \* what agents ask for
  Noise,         \* a line that is not JSON
  Turned,        \* the subtasks turns are run for
  LinkNames,     \* where a tool may make a link
  LinkTargets,   \* and where it may lead
  Configured,    \* the paths detectors are configured with
  MaxTurns,      \* bound: turns of the run
  MaxLines       \* bound: lines agents write in it

Methods == {"read", "write", "permission"}

ASSUME TransportAssumption ==
  /\ Places \subseteq Seq(STRING) /\ {<<>>, Root, Cwd} \subseteq Places
  /\ DottedNames \subseteq STRING /\ Configured \subseteq Seq(STRING)
  /\ LinkTargets \subseteq Seq(STRING)
  /\ \A name \in LinkNames, target \in LinkTargets : ~IsPrefix(name, target)
  /\ Noise \notin Requests
  /\ \A m \in Requests :
       /\ m.method \in Methods
       /\ IF m.method = "permission" THEN m.paths \subseteq Seq(STRING)
          ELSE m.path \in Seq(STRING)
  /\ Turned \subseteq Subtasks
  /\ MaxTurns \in Nat /\ MaxLines \in Nat

VARIABLES
  run,        \* the run, and with it the transcripts: open or over
  turns,      \* turns begun
  subtask,    \* of the turn at hand
  conn,       \* its connection
  child,      \* its agent's process
  wire,       \* bytes the agent wrote that the tap has not been given
  lines,      \* lines written so far
  splitter,   \* the tap's, on the agent's side
  failed,     \* an inbound chunk made the tap throw: the stream is in error
  inbox,      \* requests the handlers have yet to take
  outbox,     \* responses on their way to the tap
  log,        \* what its agent's transcript holds of this turn
  delivered,  \* history: the bytes of this turn the tap let through
  handled,    \* history: the requests of this turn the handlers took
  act         \* history: what was last touched, granted or refused, and for whom

run_vars == <<run, turns, subtask>>
agent_vars == <<child, wire, lines>>
tap_vars == <<splitter, failed, delivered>>
handler_vars == <<inbox, handled, act>>
vars == <<fs_vars, run_vars, conn, agent_vars, tap_vars, outbox, handler_vars, log>>

Agent == RouteSubtask(subtask)

\* log.write throws once the log is closed; every use is guarded by run.
Record(records) == log' = log \o records

In(line) == [kind |-> "in", line |-> line]
Out(response) == [kind |-> "out", line |-> response]
Denied(m) == [kind |-> "denied", line |-> m]
Received(heard) == [i \in DOMAIN heard |-> In(heard[i])]

\* Where a path leads that is opened in a directory, and whether it is plain: taken
\* from there it is the path that was judged, and no link on it leads to nowhere.
Lands(dir, path) ==
  [at |-> Real(From(dir, path)),
   plain |-> From(dir, path) = From(Root, path) /\ ~Dangles(From(dir, path))]

Act(what, for, op, dir, paths) ==
  [what |-> what, for |-> for, op |-> op, places |-> {Lands(dir, path) : path \in paths}]
Nothing == [what |-> "nothing", for |-> "none", op |-> "none", places |-> {}]

Init ==
  /\ exists = Places /\ links = [place \in {} |-> <<>>]
  /\ run = "open" /\ turns = 0 /\ subtask \in Turned
  /\ conn = "none" /\ child = "gone" /\ wire = <<>> /\ lines = 0
  /\ splitter = EmptySplitter /\ failed = FALSE /\ delivered = <<>>
  /\ inbox = <<>> /\ handled = <<>> /\ act = Nothing
  /\ outbox = <<>> /\ log = <<>>

-----------------------------------------------------------------------------
(* The run                                                                 *)

\* A detector opens the configured paths partitionByScope allows it.  Its tool runs
\* in the repository, as agents do.
DetectorOpens(path) ==
  /\ run = "open" /\ conn = "none" /\ path \in Configured
  /\ InScope(path, DetectorExclusions)
  /\ act' = Act("touched", "detection", "read", Root, {path})
  /\ UNCHANGED <<fs_vars, run_vars, conn, agent_vars, tap_vars, outbox, inbox,
                 handled, log>>

StartTurn(for) ==
  /\ run = "open" /\ conn = "none" /\ turns < MaxTurns /\ for \in Turned
  /\ turns' = turns + 1 /\ subtask' = for
  /\ conn' = "up" /\ child' = "up" /\ wire' = <<>>
  /\ splitter' = EmptySplitter /\ failed' = FALSE /\ delivered' = <<>>
  /\ inbox' = <<>> /\ handled' = <<>> /\ outbox' = <<>> /\ log' = <<>>
  /\ act' = Nothing
  /\ UNCHANGED <<fs_vars, run, lines>>

\* handle.close: the connection is given up and the agent killed.  Nothing
\* flushes the line the agent was in the middle of.
CloseTurn ==
  /\ conn # "none"
  /\ conn' = "none" /\ child' = "gone" /\ wire' = <<>>
  /\ inbox' = <<>> /\ outbox' = <<>>
  /\ UNCHANGED <<fs_vars, run_vars, lines, tap_vars, handled, act, log>>

\* The broker stops waiting, the run ends, and the CLI closes the transcripts.
\* The turn it waited for goes on until its agent is done with.
RunEnds ==
  /\ run = "open" /\ run' = "over"
  /\ UNCHANGED <<fs_vars, turns, subtask, conn, agent_vars, tap_vars,
                 outbox, handler_vars, log>>

-----------------------------------------------------------------------------
(* The agent                                                               *)

AgentWrites(bytes) ==
  /\ child = "up" /\ lines < MaxLines
  /\ wire' = wire \o bytes /\ lines' = lines + 1
  /\ UNCHANGED <<fs_vars, run_vars, conn, child, tap_vars, outbox, handler_vars, log>>

\* In the middle of a line, perhaps.
AgentDies(bytes) ==
  /\ child = "up" /\ child' = "gone" /\ wire' = wire \o bytes
  /\ UNCHANGED <<fs_vars, run_vars, conn, lines, tap_vars, outbox, handler_vars, log>>

ToolLinks(name, target) ==
  /\ child = "up" /\ name \in LinkNames \ (DOMAIN links \cup exists)
  /\ target \in LinkTargets
  /\ links' = [place \in DOMAIN links \cup {name} |->
                 IF place = name THEN target ELSE links[place]]
  /\ UNCHANGED <<exists, run_vars, conn, agent_vars, tap_vars, outbox, handler_vars, log>>

-----------------------------------------------------------------------------
(* The tap                                                                 *)

RequestsIn(heard) == Among(MessagesOf(heard), Requests)

\* The SDK's share of a chunk: the requests it completes.
Arrived(chunk) ==
  LET before == Len(LinesOf(delivered))
      all == LinesOf(delivered \o chunk)
  IN  RequestsIn(SubSeq(all, before + 1, Len(all)))

\* Mutant: the chunk is passed on before its lines are recorded.
Deliver_EnqueuedFirst(n) ==
  /\ conn = "up" /\ ~failed /\ n \in DOMAIN wire
  /\ LET chunk == SubSeq(wire, 1, n)
         pushed == Push(splitter, chunk)
     IN  /\ delivered' = delivered \o chunk
         /\ inbox' = inbox \o Arrived(chunk)
         /\ IF run = "over" /\ pushed.lines # <<>>
            THEN failed' = TRUE /\ wire' = <<>> /\ UNCHANGED <<splitter, log>>
            ELSE /\ splitter' = Rest(pushed)
                 /\ Record(Received(pushed.lines))
                 /\ wire' = SubSeq(wire, n + 1, Len(wire))
                 /\ UNCHANGED failed
  /\ UNCHANGED <<fs_vars, run_vars, conn, child, lines, outbox, handled, act>>

\* transform: lines are recorded, and then the chunk is passed on.  Recording
\* one after the transcript was closed throws, and nothing passes any more.
Deliver(n) ==
  /\ conn = "up" /\ ~failed /\ n \in DOMAIN wire
  /\ LET chunk == SubSeq(wire, 1, n)
         pushed == Push(splitter, chunk)
     IN  IF run = "over" /\ pushed.lines # <<>>
         THEN failed' = TRUE /\ wire' = <<>> /\ UNCHANGED <<splitter, delivered, inbox, log>>
         ELSE /\ splitter' = Rest(pushed)
              /\ Record(Received(pushed.lines))
              /\ delivered' = delivered \o chunk
              /\ inbox' = inbox \o Arrived(chunk)
              /\ wire' = SubSeq(wire, n + 1, Len(wire))
              /\ UNCHANGED failed
  /\ UNCHANGED <<fs_vars, run_vars, conn, child, lines, outbox, handled, act>>

\* flush, at the end of the agent's output.
StreamEnds ==
  /\ conn = "up" /\ ~failed /\ child = "gone" /\ wire = <<>>
  /\ conn' = "ended"
  /\ IF run = "open" THEN Record(Received(Flush(splitter))) ELSE UNCHANGED log
  /\ UNCHANGED <<fs_vars, run_vars, agent_vars, tap_vars, outbox, handler_vars>>

\* write: a response is recorded and then written; once the transcript is
\* closed recording throws, and no response is written any more.
Respond ==
  /\ conn # "none" /\ outbox # <<>>
  /\ IF run = "open" THEN Record(<<Out(Head(outbox))>>) /\ outbox' = Tail(outbox)
     ELSE outbox' = <<>> /\ UNCHANGED log
  /\ UNCHANGED <<fs_vars, run_vars, conn, agent_vars, tap_vars, handler_vars>>

-----------------------------------------------------------------------------
(* The handlers                                                            *)

\* A handler takes the next request, and answers it.
Take(m, method) ==
  /\ conn # "none" /\ inbox # <<>> /\ m = Head(inbox) /\ m.method = method
  /\ inbox' = Tail(inbox) /\ handled' = Append(handled, m)
  /\ UNCHANGED <<run_vars, conn, agent_vars, tap_vars, links>>

Answer(response) == outbox' = Append(outbox, response)

Touch(op, dir, paths) == act' = Act("touched", subtask, op, dir, paths)

\* onDenied comes first, and throws once the transcript is closed.
Refuse(m, op, dir, paths, response) ==
  /\ act' = Act("refused", subtask, op, dir, paths)
  /\ IF run = "open" THEN Record(<<Denied(m)>>) /\ Answer(response)
     ELSE Answer("error") /\ UNCHANGED log
  /\ UNCHANGED exists

IsFile(place) == place \in exists /\ \A other \in exists : Under(other, place) => other = place

ReadTextFile(m) ==
  LET place == Real(From(Cwd, m.path))
  IN  /\ Take(m, "read")
      /\ \/ /\ ReadFile(Agent, m.path) /\ IsFile(place)
            /\ Touch("read", Cwd, {m.path}) /\ Answer("content")
            /\ UNCHANGED <<exists, log>>
         \/ /\ ReadFile(Agent, m.path) /\ ~IsFile(place)
            /\ Answer("error")
            /\ UNCHANGED <<exists, act, log>>
         \/ ~ReadFile(Agent, m.path) /\ Refuse(m, "read", Cwd, {m.path}, "denied")

\* writeFileSync makes the file, where a link leads if it is one, and not the
\* directory it is to be in.
WriteTextFile(m) ==
  LET place == Real(From(Cwd, m.path))
      possible == Front(place) \in exists /\ (place \in exists => IsFile(place))
  IN  /\ Take(m, "write")
      /\ \/ /\ WriteFile(Agent, m.path) /\ possible
            /\ Touch("write", Cwd, {m.path}) /\ Answer("written")
            /\ exists' = exists \cup {place}
            /\ UNCHANGED log
         \/ /\ WriteFile(Agent, m.path) /\ ~possible
            /\ Answer("error")
            /\ UNCHANGED <<exists, act, log>>
         \/ ~WriteFile(Agent, m.path) /\ Refuse(m, "write", Cwd, {m.path}, "denied")

\* Only what is for once is ever selected.
Select(option, options) == IF option \in options THEN option ELSE "cancelled"

RequestPermission(m) ==
  /\ Take(m, "permission")
  /\ \/ /\ ToolCall(Agent, m.kind, m.paths)
        /\ Answer(Select("allow_once", m.options))
        /\ IF "allow_once" \in m.options THEN Touch(ToolAccessOf(m.kind), Root, m.paths)
           ELSE UNCHANGED act
        /\ UNCHANGED <<exists, log>>
     \/ /\ ~ToolCall(Agent, m.kind, m.paths)
        /\ Refuse(m, ToolAccessOf(m.kind), Root, m.paths, Select("reject_once", m.options))

-----------------------------------------------------------------------------
Written == {Encode(m) : m \in Requests \cup {Noise}} \cup {BlankLine}
CutShort == {SubSeq(Encode(Noise), 1, k) : k \in 0..2}

Next ==
  \/ \E path \in Configured : DetectorOpens(path)
  \/ \E for \in Turned : StartTurn(for)
  \/ CloseTurn \/ RunEnds
  \/ \E bytes \in Written : AgentWrites(bytes)
  \/ \E bytes \in CutShort : AgentDies(bytes)
  \/ \E name \in LinkNames, target \in LinkTargets : ToolLinks(name, target)
  \/ \E n \in 1..Len(wire) : Deliver(n)
  \/ StreamEnds \/ Respond
  \/ \E m \in Requests : ReadTextFile(m) \/ WriteTextFile(m) \/ RequestPermission(m)

Spec == Init /\ [][Next]_vars

-----------------------------------------------------------------------------
(* Properties                                                              *)

\* This turn's lines from the agent, as its transcript has them.
Transcribed ==
  LET heard == Among(log, {record \in ToSet(log) : record.kind = "in"})
  IN  [i \in DOMAIN heard |-> heard[i].line]

\* tap.ts:40, "it records what was actually sent and received": the transcript
\* has exactly the lines of the stream that passed, however it was cut into
\* chunks, and the end of it too if the stream came to one.
TranscriptIsTheStream ==
  /\ conn = "up" => Transcribed = LinesOf(delivered)
  /\ (conn = "ended" /\ run = "open") => Transcribed = LinesOf(Append(delivered, NL))

\* No request is acted on that is not in the transcript: an agent that outlives
\* its run, and with it the transcript, is not served any more.
NothingOffTheRecord == IsPrefix(handled, RequestsIn(Transcribed))

Excludes(patterns, place) == \E pattern \in patterns : IsPrefix(Root \o pattern, place)

Usable(place) == IsPrefix(Root, place) /\ ~Excludes(Excluded, place)

\* exclusions.ts:56, "A path is usable only when it resolves inside the target repo
\* and matches no exclusion pattern", on "where it lands rather than on how it is
\* spelled": over links made meanwhile, and for detectors as for agents.  Two kinds
\* of path are not plain and are touched on how they are spelled: one with a link to
\* nowhere on it, which a write follows and makes, and a relative one opened in
\* another directory than the repository it was judged in.
TouchedPlacesAreInScope ==
  act.what = "touched" =>
    \A place \in act.places :
      place.plain => /\ Usable(place.at)
                     /\ act.for = "detection" => ~Excludes(ScanExcluded, place.at)

\* README.md:78, "Claude, the only agent with write access": what is written, and
\* which write tools are granted, is for subtasks that fix.
OnlyFixTurnsWrite ==
  (act.what = "touched" /\ act.op = "write") => act.for \in {"fix", "refactor", "test-repair"}

\* schema.ts:96, "every scan exclusion silently becomes a place fixes cannot go":
\* an agent is refused only for what is excluded for it, outside, or a write that is
\* not its to make; or for a path that is not plain, or one in the repository whose
\* first name begins with two dots, which reads as outside.
RefusalsAreJustified ==
  act.what = "refused" =>
    \/ \E place \in act.places :
         \/ ~Usable(place.at) \/ ~place.plain
         \/ \E name \in DottedNames : IsPrefix(Append(Root, name), place.at)
    \/ act.op = "write" /\ act.for \notin {"fix", "refactor", "test-repair"}

=============================================================================
