-------------------------------- MODULE Cli --------------------------------
(***************************************************************************)
(* The commands of src/src/cli.ts over one run directory: run and resume,  *)
(* one process after another, and exports beside them.  Each ends with an  *)
(* exit code or is killed.  A round is reduced to what its entry says is   *)
(* left, Broker having the rest (a dry run's rounds are rounds here); the  *)
(* ledger's own steps are Ledger's.  The log is the events of run.jsonl    *)
(* that tell of an entry.                                                  *)
(***************************************************************************)
EXTENDS Ledger

CONSTANTS
  IterationCap,   \* config.loop.iterationCap
  MaxLaunches     \* bound: processes started with run or resume

\* What a round can end with: nothing open, something open, or a broken suite.
ASSUME CliAssumption ==
  /\ Data = {"clean", "open", "test-regression"}
  /\ IterationCap \in 1..MaxRounds /\ MaxLaunches \in Nat \ {0}

VARIABLES
  process,      \* the run or resume: where it is, its options, round and entry
  code,         \* the exit code of the last one, "none" if it was killed
  log,          \* the entries run.jsonl tells of
  export_code,  \* the exit code of the last export
  launches, cut, \* history: processes started, and those not ended by a reason
  before        \* history: entries acknowledged before this process

run_vars == <<process, code, log, launches, cut, before>>
cli_vars == <<vars, run_vars, export_code>>

Reasons == {"clean", "iteration-cap", "test-regression"}
EXIT_BY_REASON == [reason \in Reasons |-> IF reason = "clean" THEN "0" ELSE "1"]

NoProcess ==
  [at |-> "none", resume |-> FALSE, round |-> 0, left |-> "open"]

CliInit ==
  /\ Init
  /\ process = NoProcess
  /\ code = "none" /\ export_code = "none" /\ log = <<>>
  /\ launches = 0 /\ cut = 0 /\ before = 0

-----------------------------------------------------------------------------
(* Launching, and what comes before the first round                        *)

Running == process.at # "none"
Exits(with) ==
  /\ process' = NoProcess
  /\ code' = with
  /\ cut' = IF with \in {"0", "1"} THEN cut ELSE cut + 1

\* A config that does not load, a log that does not open, or a resume without a file
\* are the end of it; Throws stands for the first two.  A file without lines is one
\* that a write cut short has made, or from which the line was removed.
Launch(resume) ==
  /\ ~Running /\ launches < MaxLaunches
  /\ launches' = launches + 1 /\ before' = Len(acked)
  /\ \/ resume /\ file = <<>> /\ Exits("2")
     \/ /\ resume => file # <<>> \/ cut > 0 \/ altered
        /\ process' = [NoProcess EXCEPT !.at = "start", !.resume = resume]
        /\ code' = "none" /\ cut' = cut
  /\ UNCHANGED <<vars, log, export_code>>

\* A ledger that cannot be read is left to Throws.
Start ==
  /\ process.at = "start"
  /\ process.resume => Readable(file)
  /\ LET first == IF process.resume THEN ExpectedRound ELSE 1
     IN  process' = [process EXCEPT
           !.at = IF first > IterationCap THEN "iteration-cap" ELSE "round",
           !.round = first]
  /\ UNCHANGED <<vars, code, cut, log, export_code, launches, before>>

-----------------------------------------------------------------------------
(* A round                                                                 *)

AppendRound(data) ==
  /\ process.at = "round"
  /\ AppendEntry(process.round, data)
  /\ process' = [process EXCEPT !.at = "appended", !.left = data]
  /\ UNCHANGED <<code, cut, log, export_code, launches, before>>

\* The write fails or the process is killed in it.
AppendRoundTorn(data, how, with) ==
  /\ process.at = "round"
  /\ AppendTorn(process.round, data, how)
  /\ Exits(with)
  /\ UNCHANGED <<log, export_code, launches, before>>

\* What follows an entry: the reason to stop, or another round.
AfterRound ==
  IF process.left # "open" THEN process.left
  ELSE IF process.round < IterationCap THEN "round" ELSE "iteration-cap"

\* Mutant: a write to the log that fails is swallowed.
Report_Swallowed ==
  /\ process.at = "appended"
  /\ log' \in {log, Append(log, Last(acked))}
  /\ process' = [process EXCEPT
       !.at = AfterRound, !.round = IF AfterRound = "round" THEN @ + 1 ELSE @]
  /\ UNCHANGED <<vars, code, cut, export_code, launches, before>>

\* The event is written when the entry is, and before the run goes on.
Report ==
  /\ process.at = "appended"
  /\ log' = Append(log, Last(acked))
  /\ process' = [process EXCEPT
       !.at = AfterRound, !.round = IF AfterRound = "round" THEN @ + 1 ELSE @]
  /\ UNCHANGED <<vars, code, cut, export_code, launches, before>>

Finish ==
  /\ process.at \in Reasons
  /\ Exits(EXIT_BY_REASON[process.at])
  /\ UNCHANGED <<vars, log, export_code, launches, before>>

\* Mutant: the error is printed, and the process ends as if all were well.
Throws_Zero ==
  /\ Running /\ Exits("0")
  /\ UNCHANGED <<vars, log, export_code, launches, before>>

\* Whatever throws, a refused append and a failed write to the log among it, ends
\* the process with 2.
Throws ==
  /\ Running /\ Exits("2")
  /\ UNCHANGED <<vars, log, export_code, launches, before>>

Killed ==
  /\ Running /\ Exits("none")
  /\ UNCHANGED <<vars, log, export_code, launches, before>>

-----------------------------------------------------------------------------
(* export, and damage to the file                                          *)

ExportCommandVerifies == ExportVerifies /\ UNCHANGED run_vars /\ export_code' = "none"

\* A second read that throws is an error of the command's, and so is a file that
\* cannot be written.
ExportCommandReads ==
  /\ ExportReads
  /\ \/ export_code' = "2"
     \/ /\ verification.ok => Readable(file)
        /\ export_code' = IF verification.ok THEN "0" ELSE "1"
  /\ UNCHANGED run_vars

DamageLine(i) ==
  (ReplaceLine(i) \/ InsertLine(i) \/ RemoveLine(i)) /\ UNCHANGED <<run_vars, export_code>>

-----------------------------------------------------------------------------
CliNext ==
  \/ \E resume \in BOOLEAN : Launch(resume)
  \/ Start
  \/ \E data \in Data :
       \/ AppendRound(data)
       \/ \E how \in TornWrites, with \in {"2", "none"} : AppendRoundTorn(data, how, with)
  \/ Report \/ Finish \/ Throws \/ Killed
  \/ ExportCommandVerifies \/ ExportCommandReads
  \/ \E i \in 1..MaxRounds : DamageLine(i)

CliSpec == CliInit /\ [][CliNext]_cli_vars

-----------------------------------------------------------------------------
(* Properties                                                              *)

\* cli.ts:38, "clean is the only outcome that is not something to look at": a run
\* that exits 0 left, in its own process, a last entry with nothing open, and the log
\* tells of it.  If nothing but the writer changed the file, the ledger ends with that
\* entry and verifies; unless the entry went onto an unterminated line, when the run
\* exits 0 over a ledger that fails at its last line and at no other.  An export that
\* exits 0 hands back a chain that verifies, with at least the entries it counted,
\* even when a run appends between its two reads.
ExitZeroIsEarned ==
  /\ code = "0" =>
       /\ Len(acked) > before /\ Last(acked).data = "clean" /\ Last(log) = Last(acked)
       /\ ~altered /\ ~merged =>
            VerifyLedger(file) = [ok |-> TRUE, at |-> Len(file)] /\ Last(file) = Last(acked)
       /\ ~altered /\ merged => VerifyLedger(file) = [ok |-> FALSE, at |-> Len(file)]
  /\ export_code = "0" =>
       /\ VerifyLedger(exported) = [ok |-> TRUE, at |-> Len(exported)]
       /\ Len(exported) >= verification.at

\* jsonl.ts:13, "a log whose lines can ... arrive after the process died is not
\* evidence of anything": the log tells only of entries that are in the ledger's
\* history, in their order, and misses one at most for each process that was cut off.
LogFollowsLedger ==
  /\ \E at \in [DOMAIN log -> DOMAIN acked] :
       /\ \A i, j \in DOMAIN log : i < j => at[i] < at[j]
       /\ \A i \in DOMAIN log : log[i] = acked[at[i]]
  /\ Len(acked) - Len(log) <= cut + (IF process.at = "appended" THEN 1 ELSE 0)

=============================================================================
