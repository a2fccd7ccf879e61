# crossfire: verification

TLA+ modules, TLC runs and TLAPS proofs for crossfire, the loop that finds,
fixes and attests vulnerabilities in a target repository. Source paths below are
relative to the repository's own root (`src/broker/...`); PROJECT.json maps each
definition to the lines it stands for.

## 1. The system

One broker process works on one target (a git repository with a build, tests and
fuzz harnesses). It goes round by round: run detectors, have an agent confirm
each candidate, have it analyse the crashes and fix the batch, rebuild, re-run
every repro, run the tests, fuzz the patched build again, commit, append one
entry to a hash-chained ledger. It stops when a round leaves nothing open, when
the tests broke, at an iteration cap, or on an abort.

| component | state it keeps | operations | what makes it correct |
|---|---|---|---|
| **Repair loop** `broker/state-machine.ts` | round, open findings, remembered verdicts, analysed crashes, the round's batch and gate results, abort signal | `runLoop` phase by phase | findings neither lost nor made up; "clean" is earned; every run ends; one entry per round |
| **Gates** `gates/*.ts` | none | build, verify, test, re-fuzz: a verdict from a command's result | a verdict is worth what was run |
| **Round commits** `broker/git.ts` | worktree, index, commits | stage the reported files, commit | the commit is the state the entry attests |
| **Agent runner, ACP client** `broker/agents.ts`, `transport/acp-client.ts` | subprocess, session, queue of updates, cancel listener | connect, open, prompt, close | no half answer, no process left behind, no endless wait |
| **Answer parsing** `broker/parse.ts` | scanner over the text | last JSON object of a text, then its schema | the answer is the last object |
| **Ledger** `ledger/*.ts` | one append-only JSONL file | append, read, verify | a change is located where it shows, and never heals |
| **Ledger export** `obs/export.ts` | none, two reads of the file | export | what is exported verifies |
| **CLI** `cli.ts` | the run's log and transcripts, open for its life | run, resume, export | an exit code and a log line say no more than the ledger holds |
| **libFuzzer driver** `detection/libfuzzer-driver.ts` | corpus copy, seen signatures, artifacts in the target, the clock | run, replay, minimize, replay; signatures from reports | what is shipped reproduces, what reproduced is shipped, once per bug, near the budget |
| **Tool runner** `detection/exec.ts` | a process group and its pipes | run to a deadline, kill the group | it always ends |
| **Detection pass** `detection/{scan,fuzz,identity}.ts`, `broker/detectors.ts` | lists of findings and of tool runs | detect, rescan, refuzz | deduplication loses nothing |
| **Scanners** `detection/{semgrep,osv-scanner,scope}.ts` | none | results to findings | one construct, one finding |
| **Permission policy, router** `policy/*.ts`, `transport/handlers.ts`, `router/capabilities.ts` | none; it reads the file system's links at each decision | decide one request of an agent: read, write, tool permission | what is touched is in scope where it lands; only turns that fix write |
| **Traffic tap, transcripts, run log** `transport/tap.ts`, `obs/*.ts` | a partial line per direction, open files | split, copy, close | the transcript is the stream; nothing is served that it lacks |
| **Contracts, config, prompts, adapters, events, dry run** | none that changes | validation, text, stubs, types | (section 9) |

How they interact. The broker calls everything and awaits each call, so phases do
not overlap; what interleaves with it are the abort signal, the deadline timers,
the agent's subprocess and the tools' processes. An agent turn is a race between
the runner's promise and a signal that joins the deadline with the abort. The
agent edits the target's files directly, behind the broker's back, and tells it
afterwards in a fix report. Detectors, gates and the fuzzer share the target's
build artifacts. The ledger file is read anew by each append, so several broker
processes over time share it, and an export is another process that reads it
while they may write.

What is hard, and where it is checked:

- *a long sequence of legal steps*: a finding that has to travel from a repro that
  survived through merge, the severity bar and five exits of the confirm loop into
  the next batch, for several rounds (Broker);
- *interleaving*: abort, deadline and answer race, with listeners added to signals
  that may have fired before (Broker, AgentTurn);
- *crashes between two durable steps*: the commit, then the entry (Broker, Receipt);
  a line cut short, an exit between an entry and its line in the log (Ledger, Cli);
- *stale state*: artifacts older than the worktree (Receipt), verdicts carried for
  rounds (Broker), a replay of an input that is not the one shipped (FuzzDriver), links that
  moved since a path was last looked at (Transport);
- *data cut anywhere*: chunks that end inside a line or a character (LineTap), an agent that
  goes on writing after its transcript was closed (Transport);
- *partial failure*: connect, open and prompt can each fail with a process up
  (AgentTurn); files are staged one by one (Receipt); a minimizer times out
  (FuzzDriver).

## 2. The modules

| module | what it stands for | composes |
|---|---|---|
| `Gates` | `gates/*.ts`: conclusions as operators | used by Broker and Receipt |
| `Broker` | `runLoop` and what it calls, one action per phase, one per finding where a turn or a repro runs for each | extends Gates |
| `BrokerProperties` | what the loop promises; its fairness | extends Broker |
| `RepairLoop` | abstract: rounds are attested, settle some findings and owe the others | |
| `BrokerRefinement` | the mapping, `INSTANCE RepairLoop WITH ...` | extends BrokerProperties |
| `BrokerProofs` | types, the ledger and its receipts, the confirm loop and the batch, aborts, carried verdicts, what is owed, "clean" and the refinement, proved | extends BrokerRefinement, TLAPS |
| `Receipt` | the second half of a round on real files: edits, rebuild, repros, `git.ts` | extends Gates |
| `ReceiptProofs` | theorems of trees, artifacts and commits | extends Receipt, TLAPS |
| `AgentTurn` | `turn` of the broker, `AgentRunner.run`, `connect`/`newSession`/`prompt`/`close`, the agent | |
| `AgentTurnProofs` | theorems of a turn | extends AgentTurn, TLAPS |
| `AttestedLog` | abstract: a log that grows at its end until something breaks it | |
| `Ledger` | `LedgerWriter.append`, `readLedger`, `verifyLedger`, `exportLedger`: the steps on the file | maps to AttestedLog |
| `Cli` | `runCommand`, `exportCommand`, `EXIT_BY_REASON`, the run log: the processes that take those steps | extends Ledger |
| `LedgerProofs` | theorems of the file and of the commands | extends Cli, TLAPS |
| `ToolRun` | `runTool`, `killGroup` | |
| `Selection` | what a sequence has of a set: `filter`, as the parsers, the tap and the transcript use it | |
| `CrashReport` | the report parsers of both engines, down to a signature; what engines print of a failure | extends Selection |
| `FuzzDriver` | `drive`, `emitCrash`, corpus pruning, the clock | extends ToolRun (every process it starts is one) and CrashReport |
| `FuzzDriverProofs` | theorems of the driver and of the report parsers | extends FuzzDriver, Recursion |
| `Intake` | `detect`, `rescan`, `refuzz`, `runScanners`, `runFuzzers`, `dedupeFindings`, `outermostMatches`, ids | |
| `IntakeProofs` | theorems of a detection pass | extends Intake, Recursion |
| `AnswerText` | `jsonObjectsIn`, `parseAgentJson` | |
| `LineTap` | `lineSplitter`, with its decoder; the lines of a whole stream | extends Selection |
| `Access` | paths with links, `createPathScope`, `createPermissionPolicy`, the routing table, `scopeOf` | |
| `Transport` | `tapStreams`, `registerClientHandlers`, the transcript over the turns of a run | extends LineTap and Access |
| `TransportProofs` | theorems of paths, scopes and handlers, of the tap and the transcript | extends Transport, Recursion |
| `Recursion` | induction over numbers and sequences, what a recursion defines, `Among` | extends Selection, TLAPS |

`MC*` modules give the constants values; each has one `.cfg` per run.

Correspondence of the main ones:

**Broker.** `pc` is the phase about to run; `round`, `open`, `remembered`,
`analyzed` are the code's `round`, `openFindings`, `remembered`,
`analyzedCrashes`. `working` is the merge of detected and carried findings, `todo`
the part of it the confirm loop has not reached, `batch` is `confirmed`, later
`batchFindings`. Findings are maps from an id to the three fields the loop can
change (state, severity, whose repro): lists are left out because no decision
depends on their order, which is also why the confirm loop takes `todo` in any
order. `Boundary` is `throwIfAborted`; it stands only where the code has it, so
between `VerifyBatch` and `AppendEntry` nothing looks at the signal, as in the
code. `TurnFails` is any throw out of a turn (deadline, protocol, an answer about
another finding). `Crash` is the end of the process at any point, which keeps
`ledger` and `commits` and forgets the rest; `Launch` starts another process on
the same ledger, and `Setup(resume)` is `crossfire run` or `crossfire resume`.
`judged` and `shown` are history variables: no guard reads them.

**Receipt.** A version of the target is the set of files whose defect is fixed.
`work`, `index` and `commits` are git's three trees, `binary` what the last build
left. A fix turn leaves any worktree and any report over the paths (a path that is
no file included). `git add` runs per file and may throw, or the process be killed,
between two of them, which leaves the ones before it in the index (`HalfStaged`).
`configured` is whether the target has a build command: without one the build gate
passes as it is (`gates/build.ts:27-30`), and what repros run is the source, which an
edit changes at once and may break (`Unbuilt`). `ran`, in an entry, is history.

**AgentTurn.** Three parties in one module: `caller` (the broker), `runner`
(`AgentRunner.run` over the ACP client) and the agent (`child`, `queue`,
`stopped`). A JavaScript callback runs to its end, so an abort, the listeners it
calls and the race they settle are one action, `Fire`. `AbortSignal.any` of a
signal that has fired is one that has fired and never forwards anything again:
`BeginTurn` sets `heard` to FALSE then. The broker looks at the signal between phases
only: `Proceeds` guards the first turn of a phase, `PhaseWorks` and `PhaseEnds` are where a
phase awaits something else before a turn and where it is over, and `midPhase` is in between.

**Ledger.** A hash is the sequence of what it was computed from, which models
sha256 as collision-free and nothing more. The module has the steps and no Next: who takes them is
Cli's. `terminated` tells whether the file
ends in a newline, because `appendFile` after a cut-short write goes on the same
line. Besides the writer, something may change the file once (`altered`): replace a line by one
with a field edited, by text that is no entry or by an entry whose hash is computed for it
(`Forgeries`), insert such a line or a copy of one, or remove a line, at any place and the end of
the file too. `damage` is the line at which that shows, 0 if it shows nowhere: it shows at its
place unless the line there is one that append could have written (`AsAppended`), then at the next.

**Cli.** One `run` or `resume` at a time over a run directory (`process`), any number of them one
after another, and an export beside them. `Start` is where the round number comes from, `AppendRound`
the append, `Report` the listener that writes the event before the run goes on, `Finish` the exit code
of a reason, `Throws` every way to the `catch` that exits with 2, a refused append included. A round is
reduced to what its entry says is left; Broker has the rest. `log`, `acked`, `cut` and `before` relate
what three places tell of one run.

**FuzzDriver.** Each phase starts a `ToolRun` and takes its result. An input's
behaviour is a constant, except for flaky ones. `elapsed` is the clock: a run takes any time up to
its limit (what is left of the budget plus the grace), a replay and a minimization up to theirs.
`Prints` are the reports a bug can print, sequences of lines of a few kinds, and the signature is
read from them by CrashReport: the first stack only, the runtime's own frames left out. `reports` has,
of each, its signature and whether it is plain. `Failure` is the kind and the stack of a bug, and a
report tells it plainly (`Tells`, in terms of the lines there are and not of how a parser goes through
them) if no frame and no better believed name comes before the failure's own. Not all reports are:
one bug of the run prints, at times, the stack of an error its harness caught first, and is then filed
under those frames, as in the code.

**Intake.** An id is the tuple of what the code hashes. A match is a rule and a
span of words of the file (or no offsets), so that squeezing white space, which is
what makes two matches share an id, needs no text.

**AnswerText.** One action per character; five kinds of character are told apart.

**Transport.** Two turns of a run, each with a connection. `wire` holds bytes that the agent wrote and
the tap has not seen; `Deliver(n)` is one chunk, which ends anywhere. The tap is LineTap's splitter,
the transcript a log that `RunEnds` closes whatever still runs. The SDK between tap and handlers is
external: it takes complete lines that are requests, in order. A handler is one action
(`ReadTextFile`, `WriteTextFile`, `RequestPermission`): it resolves the path with the links as they
are then, asks the policy of the turn's agent and acts. The policy takes a relative path in the
repository (`From(Root, path)`), what is then opened is taken in the directory of the process (`Cwd`):
`Lands` is where that is, and whether the path is plain, which it is if both are the same path and no
link on it leads to nowhere (`Dangles`). A link may: it is then judged as it is spelled, since
`existsSync` says there is nothing, and a write makes the file it leads to (`Touch`). A name of the
repository that begins with two dots (`DottedNames`) reads as outside (`Outside`). What the code filters is filtered by `Among`, and a
chunk is fed to the splitter by `Feeding`, both recursive functions: the library's `SelectSeq` and
`FoldLeft` take an operator, and nothing about them can be proved. `ToolLinks` is the one effect of an agent's own
tools: it makes links, between any two other steps. `act` is the last thing done or refused.

## 3. The runs

Runs that pass:

- **broker_loop** (`MCBroker_loop.cfg`, 1.2 million states): one process, one fuzz
  crash, one scanner lead within the bar and one below it, up to three rounds, a
  dismissal worth two rounds.
  Three rounds are what it takes for a finding to be owed by one round, carried
  through a second and settled or left open after a third, and for a dismissal to be
  made, carried and expire. It checks `OwedStayInTheLoop`, `CleanIsEarned`
  (nothing lost, but for what section 7 says of re-checks), `BatchIsProven`, `ClosuresAreGrounded`
  (nothing made up), `EveryFindingIsAnswered`, `CarriedArgumentsAreFresh` (the
  confirm loop), `TypeOK`, and the liveness property `EveryRunEnds`.
- **broker_resume** (`MCBroker_resume.cfg`, 1.9 million states): three processes on
  one ledger with a cap of three, resumed or started afresh, each of which may crash,
  throw or be aborted anywhere, with the hunt and the planner on. Three processes
  let one die after its commit, another pick up and a third meet both their traces.
  It checks `LedgerIsContiguous`, `EntriesAttestTheirCommit`,
  `AtMostOneStrayCommitPerRun`, `RegressionHalts`, the action property
  `EarlyAbortLeavesNoReceipt`, and the refinement `ImplementsRepairLoop`. Its agents answer with a
  severity on either side of the bar: what is owed stays in the batches of its run unless a round grades
  it below, which is the only way the abstract loop writes a finding off.
- **receipt_rounds** (2.8 million states): two processes, three rounds, two interchangeable files, with
  and without a build command, a report that names at least what was edited. `ClosedMeansGone` (a closed
  verdict is about the source as the round leaves it) and `ClosuresAreInTheirCommit`, whatever a throw or
  a crash left in the index. Both say nothing of a target without a build command whose source does not
  run: there "a fix that doesn't compile reads as a pass", as `installation.md:159` has it.
- **agentturn_turns**: three turns, three queued updates. `SettledMeansGone`,
  `AnswersAreComplete`, and `HeardTurnsSettle` under fairness. Three turns let an abort fire before, in and after one that answered;
  three updates hold a text, a malformed one and a stop at once.
- **ledger_chain** (1.6 million states): two launches of run or resume with a cap of three, killed
  or failing anywhere, writes cut short in two ways, an export between any two steps, one line edited,
  forged, inserted or removed.
  Three lines give a changed one neighbours on both sides; two launches let one leave a line without its
  newline and the other merge onto it. `UndamagedVerifies`; `AcknowledgedStay` (an acknowledged entry
  stays, but the last one if it went onto a line without its newline, and a change that shows nowhere
  costs one at most); `DamageIsLocated` (a change fails at its place, or at the next line if the line
  there could have been appended, for good);
  `ExitZeroIsEarned` (a run that exits 0 ended with an entry of its own that leaves nothing open, told
  in the log. Where nothing but the writer touched the file, that entry ends a ledger that verifies,
  unless it went onto a line without its newline: then the run exits 0 and the ledger fails at its last
  line and no other. An export that exits 0 hands back a chain), `LogFollowsLedger` (the log tells of
  no entry the ledger did not get, and misses one per process cut off), and the refinement
  `ImplementsAttestedLog`: the file implements a log that only grows at its end until it breaks, after
  which its whole part never changes again, and readers get all of an unbroken one or nothing; a change
  by something else that breaks nothing is to its last entry.
- **fuzzdriver_drive** (1.6 million states): a harness with two bugs, four inputs (a crashing seed of
  one, a nested crashing seed of the other, which minimizing the first may reach, a flaky one, a good
  one), four restarts, stop after two without news; a budget of three
  ticks, every grace and limit one tick, so that a run, a replay or a minimization may each be the one
  that crosses the line; for each engine reports of both bugs, with a second stack that varies,
  frames of the runtime alone, or, in one, a stack of something else first. `ShippedReproduces`, `NothingProvenIsLost`, `NoSeedCrashesTwice`,
  `RestartsAreEarned`, `OverrunIsBounded`, `OneBugOneSignature` (of the crashes that are told plainly, two have one signature
  just when kind and top frames are the same), and `DriveEnds` under fairness.
- **intake_pass**: two rules of different severity over a file of two equal words (so
  that spans nest, repeat and share a text), three matches, two advisories that may
  repeat with another severity, two harnesses that may find the same crash.
  `NothingReportedIsLost`, `OneConstructOneFinding`.
- **transport_serve** (2.2 million states): two turns, one that fixes and one that hunts, two lines of
  an agent each cut into chunks in every way, a repository with sources, tests that are not scanned,
  secrets that are excluded, a name with two dots first, and one name that may become a link to any of
  them, out, or to a secret that is not there yet. The process runs in a directory below the repository's
  root, and one request has a relative path. Two lines let a
  chunk hold the end of one and the start of the next, and a link be made between two requests.
  `TranscriptIsTheStream`, `NothingOffTheRecord`, `TouchedPlacesAreInScope`, `OnlyFixTurnsWrite`,
  `RefusalsAreJustified`.

Deadlock is not checked: all of these systems stop (a run ends, a file is at its
bound, a pass returns), and that they do not stop too early is what the liveness
properties and `EveryFindingIsAnswered` are for.

Runs that must find a violation, each of one sentence of the repository's own
comments (PROJECT.json `findings` quotes them):

- **broker_severity**: a model's reading of severity cannot pull a finding out of the
  loop. It can: the carried copy has the model's severity, and next round the bar is
  applied to it, so the run may end clean with a finding it never closed.
- **receipt_unnamed**: an edit the report does not name leaves its finding open. It
  closes it, because repros see the worktree, and the attested commit lacks the edit.
- **agentturn_stranded**: an abort takes effect at the next phase boundary. A second
  turn of the same phase begins on a fired signal and waits for the agent alone.
- **answertext_final**: an earlier object is never substituted for a final one. An
  unpaired quote or brace in the prose between the two has that effect.

`OwedStayInTheLoop` says what the code does: a finding is owed until it is closed *or graded below the
bar*. That an agent may so write it off is what the comment of broker_severity denies; the run refutes
it, and broker_resume has it as a step of the abstract loop. `ClosuresAreInTheirCommit` holds where
reports are complete, and receipt_unnamed is the run where they are not.

Two properties except by name a kind of state in which the code does not do what a sentence says, and
the run reaches those states: `TouchedPlacesAreInScope` and `RefusalsAreJustified` (paths that are not
plain, names with two dots first). Section 7 has what happens there, and what happens to reports that
are not plain and to a re-check that comes back inconclusive.

## 4. Bounds

Every bound is a constant: `MaxRuns` and `MaxLaunches` (processes on a ledger), `MaxTurns`,
`MaxUpdates`, `MaxRounds` (lines of a ledger), `MaxLength`, `MaxLines`, `MaxMatches`,
`MaxAdvisories`, `Harnesses`. `Budget`, `MinRun`, `KillGrace`, `ReplayTime` and `MinimizeTime` are the
fuzzer's times in ticks. `IterationCap`, `DismissalLife`, FuzzDriver's `MaxRuns`
and `DryRunsBeforeStop` are the program's own limits with smaller values (the code has
5 for a dismissal's life; two rounds exercise both sides of the comparison within a cap of
three). Sets of findings, files, rules and signatures have one or two members: the
loop's decisions about a finding never look at another one, except through
"is anything left", for which two suffice.

## 5. Fairness

- **Broker**: `WF_vars(Step /\ ~StrandedTurn)`. The process runs on by itself as long as
  every await ends: tools do because `runTool` has a deadline that kills the group
  (`DriveEnds` in FuzzDriver shows that on ToolRun), turns because they are raced
  against a deadline (`HeardTurnsSettle`). The exception is the turn begun on a fired
  signal, of which nothing is assumed. Nothing is assumed of aborts, crashes and
  launches.
- **AgentTurn**: weak fairness of the deadline timer and of the event loop's own work
  (taking updates that have arrived, noticing a lost connection, settling once the child
  is gone). The agent owes nothing: it may never initialize, open, stop, or die when
  killed.
- **FuzzDriver**: weak fairness of the driver's steps, of the tool deadline, and of the wait
  noticing that the last holder of the pipes is gone. A tool or its helper may run for ever.
  `Deadline` takes SIGKILL of a process group to end it.

## 6. What is proved

TLAPS checks these for every value of the constants (findings, severities, caps, files, entries,
inputs, times, places and links, and any number of processes, turns, rounds and requests), under the
assumptions named in the modules. Those are about the shape of the constants: `BrokerAssumption` (the
three sources of findings are disjoint, severities are the five of the contract, caps are positive),
`TurnAssumption`, `ReceiptAssumption`, `LedgerAssumption`, `CliAssumption`, `FuzzAssumption`,
`IntakeAssumption` and `TransportAssumption`. Nothing is assumed of agents, tools or what engines
print, with one exception: `ClosuresHaveTheirCommit` has the hypothesis that reports name every edit.
Some theorems are about part of what can happen, and their statement says which part: crashes that are told
plainly, paths that are plain, entries whose repros were run on something that runs. Every inductive
invariant named here was first checked by TLC on its component's run.

**Broker** (`BrokerProofs`)

- `TypeCorrect` (`TypeOK`): the proof uses the same predicate with maps as members of a set
  (`Typed`), which is inductive because it also says that `todo` is part of `working` in the confirm
  loop and that `tests` is a status from the test gate on.
- `LedgerStaysContiguous` (`LedgerIsContiguous`): inductive with one more fact, that a process that
  has passed the top of its loop has a round within the cap: the append is guarded by "round is the
  next one", and the cap by the top alone.
- `EntriesNameTheirCommits` (`EntriesAttestTheirCommit`): inductive with `AwaitingEntry`, that
  between commit and append the last commit is this round's and later than any an entry names.
  `StrayCommitsAreBounded` (`AtMostOneStrayCommitPerRun`) counts by phase: a process has its stray
  commit between the two steps, or died there. `RegressionsHalt` (`RegressionHalts`) adds that a
  process starts with no entry of its own. All three argue over three steps only; `ReceiptFrame`
  shows that every other one is quiet.
- `EarlyAbortsLeaveNoReceipt`, an action property (`EarlyAbortLeavesNoReceipt`): commits and entries
  are made by steps behind the last boundary of a round, and no boundary lets an aborted process by.
- `FindingsAreAnswered` (`EveryFindingIsAnswered`): in the confirm loop the round's findings are
  split three ways, into those waiting, in the batch and dropped.
- `BatchesAreProven` (`BatchIsProven`): a confirmed finding is proven in every list that can carry it
  (`batch`, `working`, `open`, `reopened`, remembered closures). The hard step is the turn that loses
  a repro seen earlier, since it un-proves the finding: no list may have it confirmed at that point.
  That needs the three-way split, that a carried finding enters the round as it was carried, and that
  nothing is reopened yet.
- `CarriedArgumentsStayFresh` (`CarriedArgumentsAreFresh`), with `ArgumentInv`: a remembered
  dismissal carries the round its argument was made in, which no carrying changes.
- `ClosuresStayGrounded` (`ClosuresAreGrounded`), with `ClosureInv`: every closed verdict, in this
  round's results or remembered, has its finding among those whose repro was seen closed.
- `OwedFindingsStay` (`OwedStayInTheLoop`) and `CleanRunsEarnedIt` (`CleanIsEarned`), with `OwedInv`
  and `CleanInv`: at each phase a finding that is owed is in the one list the phases to come read
  (`open` between rounds, `working` or `batch` within, `reopened` after the verdicts), at a severity
  the bar lets by; "clean" is reached only with that list empty. Whatever severities agents answer: the
  severity an entry was graded with is the one the finding is carried with, and below the bar it is owed
  no more.
- `RepairLoopIsImplemented` (`ImplementsRepairLoop`): the step that appends an entry is the abstract
  round, the end of a process its end, all others stutter. The abstract constant `Lenient`, whether a
  round may write findings off as minor, is whether an agent may answer below the bar; with agents that
  never do the theorem says that nothing is written off.

**Agent turns** (`AgentTurnProofs`): `TurnTypeCorrect`, `TurnsLeaveNoProcess` (`SettledMeansGone`),
`BrokerTakesWholeAnswers` (`AnswersAreComplete`), `BrokerWorksAlone` (no agent of an accepted turn is
alive when the broker goes on). The invariant `TurnInv` adds that a stop reason is the last update of
its queue (so taking it empties the queue), that a verdict of "answered" is complete from the moment
it is given, and that the broker is idle only after a turn that returned.

**Receipt** (`ReceiptProofs`): `EvidenceTyped`; `ClosedIsGone` (`ClosedMeansGone`), with `JudgedInv`,
that the artifact repros run against, if it runs, is of the worktree from the build to the verdicts, with
a build command and without; `ClosuresHaveTheirCommit` (`ClosuresAreInTheirCommit`)
under **hypothesis** `NamesEveryEdit` (reports name what was edited; receipt_unnamed is the run
without it). Its invariant `StrayInv` is about fixes that are in the worktree but in no index and no
report: none of them is of a finding the process knows, because whatever it found was found on an
artifact that has them.

**Ledger and commands** (`LedgerProofs`), over any interleaving of launches, kills, torn writes,
exports and one line replaced, inserted or removed anywhere:

- `UndamagedChainVerifies` (`UndamagedVerifies`) and `DamageStaysLocated` (`DamageIsLocated`), with
  `ChainInv`: a file in which no change shows is a chain but for a last line that a write cut short, one
  in which it does breaks first where it shows. The verdict on a line rests on that line and the one
  before it (`SameVerdict`), so what is written after changes none before. A line that append would not
  have written breaks at once; one that it could have written has another hash than the line it took the
  place of, and what follows does not link to it.
- `AcknowledgedEntriesStay` (`AcknowledgedStay`), with `AckInv`: an acknowledged entry is never the
  line that the next write goes onto.
- `AttestedLogIsImplemented` (`ImplementsAttestedLog`), with `ExportInv`: between the two reads of an
  export the file is the verified one or longer. A write is an abstract write, a break or a stutter
  (`WriteImplements`), a change by something else a break, or one of the last entry, or nothing
  (`DamageImplements`).
- `ExitZeroStaysEarned` (`ExitZeroIsEarned`), with `ProcessInv`: from its entry on, a process knows
  that the ledger and the file end with it (`LastLine`), unless the file was altered; or that the last
  line is the only one that fails, if its entry was glued to one without a newline. It tells the log
  before it stops.
- `LogStaysBehindLedger` (`LogFollowsLedger`), with `LogInv`: the events are, in order, entries
  before the one about to be told, and those that are missing are counted by processes cut off.

**libFuzzer driver** (`FuzzDriverProofs`): `OverrunStaysBounded` (`OverrunIsBounded`; `ClockInv`
bounds the clock phase by phase), `RestartsStayEarned` (`RestartsAreEarned`; `PaidFor` accounts for each
restart by a signature seen or a dry run), `SeedsCrashOnce` (`NoSeedCrashesTwice`),
`ShippedStaysReproducible` (`ShippedReproduces`; `ReplayInv` ties what is about to be shipped to the
replay that showed it) and `ProvenIsReported` (`NothingProvenIsLost`).

`BugsKeepTheirSignature` (`OneBugOneSignature`) is about the report parsers. `KindIsRead` and
`StackIsRead` show that `CrashKind` and `ParseFrames` find the kind and the stack of every report that
tells a failure plainly: with any lines but frames before the stack, any stacks after it and any less believed name
(`RowIsRead` for V8's stacks, `NumberedIsRead` and `FramesFirst` for the sanitizers', which start again
at #0). `MetInv` adds that what was met is one of its bug's reports. So two crashes that are told plainly
have one signature just when kind and top frames are the same: neither that reports are plain nor that
bugs differ in these is assumed. Of a report that has other frames first nothing is proved, since the
parsers read those (section 7).

**Detection pass** (`IntakeProofs`): `ReportsAreNotLost` (`NothingReportedIsLost`) and `ConstructsAreOne`
(`OneConstructOneFinding`), for any lists the tools print and any number of harnesses. The invariant
`IntakeInv` follows a reported finding (`Reported`: what the tools printed and the filter of matches let
by) through the pass: it is in the running layer's list or covered, under its id and at least as severe,
by what a layer returned (`Held`); nothing else is there (`Sourced`); and what a stage has yet to fill is
empty, so no layer's result replaces another's (`StageInv`). They rest on what two recursions compute for
every list: `DedupeCovers`, that a deduplicated list has the ids of the list and none less severe, and
`OutermostAreKept`, that the filter keeps the outermost matches and no other; `SomeOutermost` finds one
around every match it drops, the widest, since containment is transitive and strict.

**Paths and handlers** (`TransportProofs`): `TouchedPlacesStayInScope` (`TouchedPlacesAreInScope`),
`OnlyFixTurnsEverWrite` (`OnlyFixTurnsWrite`), `RefusalsStayJustified` (`RefusalsAreJustified`), for any
places, patterns, links and requests, the first and the last of plain paths. They rest on
`NearestExistingIsReal`: resolving the longest part of a path that exists and adding the rest as it is
spelled gives where the path leads if no link on the path leads to nowhere (`~Dangles(path)`), since
then no link lies beyond that part. `FsInv` has the file system closed under parents, and links that lead
to no link; what they lead to need not exist.

**Tap and transcript** (`TransportProofs`): `TranscriptStaysTheStream` (`TranscriptIsTheStream`) and
`NothingEverOffTheRecord` (`NothingOffTheRecord`), for any messages, any number of lines and any way to cut
the stream into chunks. The argument has two halves.

- *The splitter.* `LinesOf` defines the lines of a whole stream from the places of its newlines;
  `LinesGrow` says how they grow by a byte, from `SolidGrows`, `EndsGrow` and `CutGrows`. A stream an
  agent writes is `WellFormed`: after each byte comes one that can (`Follows`), so a character is whole
  before the next begins and its line ends after it. On such a stream what the splitter holds depends
  on the last byte alone (`After`), and `TapFollows`, by induction over the chunk, shows that from there
  a chunk yields exactly the lines by which the stream has grown.
- *The connection.* The invariant `TapInv` has: the splitter is where the last byte that passed leaves
  it (`SplitterInv`); what passed, and what passed with what is on the wire, is well formed, and ends
  between lines while the agent lives (`StreamInv`); the requests taken and those waiting are, in order,
  a prefix of those in the transcript, and all of them while the connection is up (`ServedInv`).
  `ServedInv` is what `NothingOffTheRecord` lacks to be inductive. A chunk that meets a closed transcript
  moves nothing but the wire (`FailedStep`); responses and refusals are in the log and are no lines of
  the agent's (`AsideRecorded`).

**Recursion.** `Real`, `DedupeFindings`, `OutermostMatches`, `Among` and `Feeding` are recursive functions
over a path, a list or a chunk. The library's induction rules take an operator and cannot be used;
`LeastNumber` gets a least element of any set of naturals from the well-foundedness of finite subsets,
`Induction` follows for a set of naturals, `SequenceInduction` for a set of sequences. `Iterates` proves
that a recursion defines what it says, and `SameSteps` that two that agree so far have the same result.
The `Among` lemmas (it grows by one element, it concatenates, it depends on its set alone) are in
`Recursion` too; the tap and the crash reports share them.

Only model-checked: liveness (`EveryRunEnds`, `HeardTurnsSettle`, `DriveEnds`), which needs fairness and
ENABLED, and the four runs that must find a violation. Every safety property and the two refinements of
the passing runs are theorems.

## 7. Observations without a run

Besides the four sentences that a run refutes, the models show the code to differ from these. The
properties say what the code does, and their comments name the case:

- *A re-check that could not be judged drops its finding.* A closed finding that a detector reports again has
  its repro run again, and is left out of the round unless the repro reproduces: a re-run that was
  inconclusive counts like one that was closed (`state-machine.ts:434`), and the run may end clean on it.
  `docs/usage.md:95` has "inconclusive, never a pass", `docs/architecture.md:81` and `verify.ts:17-24`
  say the same. `CleanIsEarned` names it as a way to be left out (`LeftOut`).
- *A commit holds what an earlier `git add` left.* `git.ts:51-55` says "Only what the round said it
  changed": a failed `git add`, or a process killed among them, leaves an index that a later commit takes
  with it (`git.ts:63`). No property of Receipt claims the sentence; `ClosuresAreInTheirCommit` shows that
  no closure is spoiled by it, where reports name every edit.
- *A resumed run inherits no verdict*, although the comment above the loop that seeds them says so
  (`state-machine.ts:147-152`): the list it reads at `:154` is this process's own, still empty.
- *A line to the agent is recorded before it is known to be written* (`tap.ts:57-60`), while `tap.ts:40` has
  "what was actually sent". `tap.ts:3` says lines are recorded "exactly as it crossed the wire": they
  are trimmed, and blank ones and a byte order mark are dropped (`tap.ts:13`, `:20-24`).
- *A mutated entry need not fail at its own line.* `build-plan.md:90` has "mutating any entry makes
  verification fail at that entry". Rewritten with its hash computed anew it verifies there and fails at
  the next line, or nowhere if it is the last; a removed last line shows nowhere either. `DamageIsLocated`
  says where each change shows.
- *A clean run may leave a ledger that does not read*: an append after a line that lost its newline merges the
  two, returns its entry all the same, and the run goes on to exit with 0 (`writer.ts:84`,
  `cli.ts:38`). `ExitZeroIsEarned` says that this is the one way and that only the last line fails.
- *Where a path lands is not what is judged* for two kinds of path, against `exclusions.ts:56-59`: one with
  a link on it to nowhere, taken as it is spelled (`exclusions.ts:38`) and followed by a write
  (`handlers.ts:77`) to a place that may be excluded or outside; and a relative one, judged in the
  repository (`exclusions.ts:89`) and opened in the directory of the process (`handlers.ts:70`, `:77`).
- *A name in the repository that begins with two dots reads as outside* (`exclusions.ts:93` asks for a
  relative path that starts with them), and is refused.
- *One bug may have several signatures*: the parsers take the first stack anywhere in what a run printed
  (`jazzer-js.ts:160-174`, `crash-report.ts:127-149`). A harness that logs an error it caught has its
  crashes filed under the frames of that error.
- *A test run that met its deadline passes if it exits with 0*: `TestStatus` looks at the exit code alone,
  and `timedOut` is in the message only, while `gates/test-gate.ts:23` has "A run that could not finish is
  a failure, not a pass".

Things that contradict no sentence we know of, and are modelled as they are:

- an aborted run reports the open findings of the last attested round, not of the one it
  was in (`:580`, `:590`); an abort after the verdicts does not stop the round (`:500`);
- a crash or a refused append between commit and entry leaves a commit no entry attests
  (`:543`, `:561`), at most one per process;
- a deadline before the session is open sends no cancel (`agents.ts:51-55`);
- an export reads the file twice (`export.ts:22`, `:28`): an append in between is harmless and in the
  model, a change of what was there is neither, and is left out;
- a fuzz run that fails after others found crashes drops their findings
  (`libfuzzer-driver.ts:80`); seeds in sub-directories of a corpus are not pruned and may end every
  restart (`:174`); the last crash of a harness may be replayed and minimized after the budget is
  spent, which `OverrunIsBounded` bounds (`fuzz.ts:26` says "within the fuzz budget"); a harness whose
  share is too small for one run starts none and reports ok (`fuzz.ts:53`);
- `run` on a run directory that holds a ledger works a whole round, commit included, before its append
  is refused and it exits with 2 (`cli.ts:110`, `writer.ts:76`); `export` of a file that does not exist
  exits with 0 and no entries (`writer.ts:20`); two brokers at once on one ledger can write the same
  round twice, since nothing locks the file between the read and the write (`writer.ts:74-84`);
- an agent that outlives its run is cut off by the transcript it can no longer be recorded in
  (`cli.ts:127`); an agent that is refused something then gets an internal error, since writing the denial
  throws (`handlers.ts:36`, `:89`);
- two bugs of one kind in the same functions share a signature, and the second one is never reported
  (`crash-report.ts:22`, on purpose);
- a round all of whose detectors failed has no findings and ends the run clean: the loop reads
  findings, and leaves the detectors' statuses to the reader of the entry.

## 8. What is abstracted

Texts (prompts, claims, arguments, diffs, command lines, tool output), timings, and the order
of lists that nothing depends on. In each part besides:

- *Broker and Receipt.* Repros are faithful in Receipt: against an artifact that runs they exit 0 exactly
  if the defect is there. In Broker they are not: any outcome may come at any time.
- *Ledger and Cli.* The hash is injective, and one broker at a time writes. Something else changes the file
  once, one line of it, when it parses and no export is between its reads. A file that is missing and one
  that is empty are both the empty sequence; `resume` asks whether the file exists (`cli.ts:89`), which
  `Launch` takes to be so if it has lines, or may have been made empty (by a process cut off, or by a
  change).
- *AgentTurn.* One runner and one subprocess exist at a time, since a turn the broker stops waiting for
  ends its run.
- *ToolRun.* A helper that a tool forks stays in the process group that is killed. One that leaves it
  (`setsid`) and keeps the pipes is not modelled, and `exec.ts:41-82` would wait for it.
- *Intake.* Byte offsets of a match are the places of its words; the code uses them as indices of UTF-16
  units, and goes by rule and file alone for a file it cannot read and for a span whose end is not after
  its start (`semgrep.ts:148-165`); neither is modelled, but a match without offsets, of which the same
  holds, is. The matches of a pass are of one file (`semgrep.ts:131` compares paths too).
- *Access and Transport.* A pattern is the place it matches. Places come to be and none is removed; paths
  have no `.` or `..` between their names, and the place a link leads to is no link and has none on the
  way. A last line without its newline is no request.

## 9. What is not modelled

- *Prompts, run events, agent adapters*: text, types and the command lines of two subprocesses; they
  keep no state, and what an agent makes of a prompt is left open.
- *Config loading, argument parsing and printing*: pure I/O; the settings are CONSTANTS with the
  ranges of the schema, and a command that is refused for them is `Throws` of Cli.
- *Dry run*: stubs with one fixed finding; only the flag that skips commits is in Broker.
- *Schemas of answers and entries, the engines' command lines, the place and severity read from a
  crash report*: validation and parsing of data the models do not tell apart. That a schema's default changes the
  recomputed hash of an older entry, for instance, is outside Ledger.

## 10. Plan

Done, in this order: Broker, its properties and RepairLoop; Receipt; AgentTurn; Ledger; ToolRun
and FuzzDriver; Intake; AnswerText; the first proofs; LineTap, Access and Transport; CrashReport and
the fuzzer's clock; Cli; the proofs of Broker's safety and of its refinement, of Receipt, FuzzDriver,
Ledger, Cli, Intake and Transport, the last of them the tap, its transcript, and the crash reports.

Next, where the models could go further: the severity and the place read from a crash report; the
schemas an answer is judged by; the runner's output stream (the same splitter on the other side of the
tap). What AnswerText's scan finds of a well formed text is checked to a bound and could be proved with
`Recursion`'s rules.
