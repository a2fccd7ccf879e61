------------------------------- MODULE Intake -------------------------------
(***************************************************************************)
(* How one detection pass turns what the tools print into the findings a   *)
(* round starts from: detect, rescan and refuzz of                         *)
(* src/src/broker/detectors.ts and src/src/gates/refuzz.ts, over           *)
(* runScanners, runFuzzers and dedupeFindings of src/src/detection.        *)
(*                                                                         *)
(* The tools run one after the other, semgrep, osv-scanner, then each      *)
(* harness.  Lists are deduplicated three times on the way: the scanners', *)
(* the fuzzers', and both together.                                        *)
(*                                                                         *)
(* The scanned file is a sequence of words; the blanks between them, which *)
(* sastFindingId squeezes and trims, are left out.  A match spans the      *)
(* words after "from" up to "to", or has no offsets (NoOffset).            *)
(***************************************************************************)
EXTENDS Integers, Sequences, FiniteSets, SequencesExt

CONSTANTS
  Rules,              \* semgrep rules
  RuleSeverity,       \* extra.severity of a rule's matches
  Source,             \* the scanned file, word by word
  Advisories,         \* ids of the advisories osv-scanner knows
  AdvisorySeverities, \* what it may print for one
  Signatures,         \* crash signatures
  SignatureSeverity,  \* severityByKind
  Harnesses,          \* bound: config.detectors.fuzz.harnesses, by index
  OpenIds,            \* openFindingIds given to refuzz
  MaxMatches,         \* bound: results semgrep prints
  MaxAdvisories       \* bound: groups osv-scanner prints

NoOffset == -1

ASSUME IntakeAssumption ==
  /\ Source \in Seq(STRING)
  /\ IsFiniteSet(Signatures)
  /\ RuleSeverity \in [Rules -> 0..4]
  /\ SignatureSeverity \in [Signatures -> 0..4]
  /\ AdvisorySeverities \subseteq 0..4
  /\ OpenIds \subseteq {<<"fuzz", s>> : s \in Signatures}
  /\ {Harnesses, MaxMatches, MaxAdvisories} \subseteq Nat

VARIABLES
  pass,       \* the DetectorRunner method that was called
  stage,      \* the tool about to run, or the list about to be deduplicated
  harness,    \* index of the harness about to run
  collected,  \* findings of the layer that is running
  scanned,    \* what runScanners returned
  fuzzed,     \* what runFuzzers returned
  runs,       \* the DetectorRun of each tool
  dropped,    \* duplicatesDropped, over the layers
  found,      \* the pass's findings
  matches,    \* history: the results semgrep printed
  raw         \* history: the findings of the other tools

vars == <<pass, stage, harness, collected, scanned, fuzzed, runs, dropped, found,
          matches, raw>>

-----------------------------------------------------------------------------
(* From matches to findings                                                *)

Match ==
  {m \in [rule : Rules, from : 0..Len(Source), to : 0..Len(Source)] :
     m.from < m.to}
  \cup [rule : Rules, from : {NoOffset}, to : {NoOffset}]

\* Mutant: a match contains any other of its span.
Encloses_SameSpan(outer, inner) ==
  /\ NoOffset \notin {outer.from, inner.from}
  /\ outer.from <= inner.from /\ inner.to <= outer.to

\* Mutant: a match is only inside one that sticks out at both ends.
Encloses_BothEnds(outer, inner) ==
  /\ NoOffset \notin {outer.from, inner.from}
  /\ outer.from < inner.from /\ inner.to < outer.to

Encloses(outer, inner) ==
  /\ NoOffset \notin {outer.from, inner.from}
  /\ <<outer.from, outer.to>> # <<inner.from, inner.to>>
  /\ outer.from <= inner.from /\ inner.to <= outer.to

Inside(inner, outer) == outer.rule = inner.rule /\ Encloses(outer, inner)

Outermost(m, results) == ~\E i \in DOMAIN results : Inside(m, results[i])

OutermostMatches(results) ==
  LET among[n \in 0..Len(results)] ==
        IF n = 0 THEN <<>>
        ELSE IF Outermost(results[n], results) THEN Append(among[n - 1], results[n])
        ELSE among[n - 1]
  IN  among[Len(results)]

FlaggedSource(m) ==
  IF m.from = NoOffset THEN <<>> ELSE SubSeq(Source, m.from + 1, m.to)

\* Keyed on the rule and what it flagged, never on where.
SastFinding(m) ==
  [id |-> <<"sast", m.rule, FlaggedSource(m)>>, severity |-> RuleSeverity[m.rule]]

ScaFinding(advisory, severity) ==
  [id |-> <<"sca", advisory>>, severity |-> severity]

FuzzFinding(signature) ==
  [id |-> <<"fuzz", signature>>, severity |-> SignatureSeverity[signature]]

-----------------------------------------------------------------------------
(* Deduplication: a list to a map from its ids to the severity kept        *)

Nothing == [id \in {} |-> 0]

\* A later report of the same id replaces an earlier one if more severe.
Keep(byId, finding) ==
  IF finding.id \in DOMAIN byId /\ finding.severity <= byId[finding.id] THEN byId
  ELSE [id \in DOMAIN byId \cup {finding.id} |->
          IF id = finding.id THEN finding.severity ELSE byId[id]]

DedupeFindings(findings) ==
  LET upTo[n \in 0..Len(findings)] ==
        IF n = 0 THEN Nothing ELSE Keep(upTo[n - 1], findings[n])
  IN  upTo[Len(findings)]

DuplicatesIn(findings) ==
  Len(findings) - Cardinality(DOMAIN DedupeFindings(findings))

\* The list dedupeFindings returns.  It is sorted by a key that holds the id, so
\* one list stands for each map.
ListOf(byId) ==
  SetToSeq({[id |-> i, severity |-> byId[i]] : i \in DOMAIN byId})

-----------------------------------------------------------------------------
Init ==
  /\ pass \in {"detect", "rescan", "refuzz"}
  /\ stage = IF pass = "refuzz" THEN "fuzz" ELSE "semgrep"
  /\ harness = 1
  /\ collected = <<>> /\ scanned = Nothing /\ fuzzed = Nothing
  /\ runs = <<>> /\ dropped = 0 /\ found = Nothing
  /\ matches = <<>> /\ raw = {}

\* A tool that failed, or was skipped, has a run and no finding.
Recorded(detector, status, findings) ==
  /\ runs' = Append(runs, [detector |-> detector, status |-> status,
                           emitted |-> Len(findings)])
  /\ collected' = collected \o findings

NoFindings == {"skipped", "error", "timeout"}

SemgrepFails(status) ==
  /\ stage = "semgrep" /\ stage' = "osv"
  /\ Recorded("semgrep", status, <<>>)
  /\ UNCHANGED <<pass, harness, scanned, fuzzed, dropped, found, matches, raw>>

SemgrepReports(results) ==
  /\ stage = "semgrep" /\ stage' = "osv"
  /\ LET kept == OutermostMatches(results)
     IN  Recorded("semgrep", "ok", [i \in DOMAIN kept |-> SastFinding(kept[i])])
  /\ matches' = results
  /\ UNCHANGED <<pass, harness, scanned, fuzzed, dropped, found, raw>>

OsvFails(status) ==
  /\ stage = "osv" /\ stage' = "collapse scans"
  /\ Recorded("osv-scanner", status, <<>>)
  /\ UNCHANGED <<pass, harness, scanned, fuzzed, dropped, found, matches, raw>>

OsvReports(findings) ==
  /\ stage = "osv" /\ stage' = "collapse scans"
  /\ Recorded("osv-scanner", "ok", findings)
  /\ raw' = raw \cup ToSet(findings)
  /\ UNCHANGED <<pass, harness, scanned, fuzzed, dropped, found, matches>>

\* The end of runScanners.
CollapseScans ==
  /\ stage = "collapse scans"
  /\ stage' = IF pass = "detect" THEN "fuzz" ELSE "merge"
  /\ scanned' = DedupeFindings(collected)
  /\ dropped' = dropped + DuplicatesIn(collected)
  /\ collected' = <<>>
  /\ UNCHANGED <<pass, harness, fuzzed, runs, found, matches, raw>>

\* One run stands for every harness when fuzzing is off.
FuzzDisabled ==
  /\ stage = "fuzz" /\ harness = 1 /\ stage' = "merge"
  /\ Recorded("fuzz", "skipped", <<>>)
  /\ UNCHANGED <<pass, harness, scanned, fuzzed, dropped, found, matches, raw>>

\* An engine with no adapter, a harness out of scope, unbuilt or unable to start.
HarnessFails ==
  /\ stage = "fuzz" /\ harness <= Harnesses
  /\ harness' = harness + 1
  /\ Recorded("fuzz", "error", <<>>)
  /\ UNCHANGED <<pass, stage, scanned, fuzzed, dropped, found, matches, raw>>

HarnessReports(signatures) ==
  /\ stage = "fuzz" /\ harness <= Harnesses
  /\ harness' = harness + 1
  /\ LET findings == {FuzzFinding(s) : s \in signatures}
     IN  /\ Recorded("fuzz", "ok", SetToSeq(findings))
         /\ raw' = raw \cup findings
  /\ UNCHANGED <<pass, stage, scanned, fuzzed, dropped, found, matches>>

\* The end of runFuzzers.
CollapseCrashes ==
  /\ stage = "fuzz" /\ harness > Harnesses /\ stage' = "merge"
  /\ fuzzed' = DedupeFindings(collected)
  /\ dropped' = dropped + DuplicatesIn(collected)
  /\ collected' = <<>>
  /\ UNCHANGED <<pass, harness, scanned, runs, found, matches, raw>>

\* detect and rescan deduplicate what the layers returned once more; refuzz, which
\* has no use for the count, leaves out what is open.
Return ==
  /\ stage = "merge" /\ stage' = "returned"
  /\ LET all == ListOf(scanned) \o ListOf(fuzzed)
         news == {id \in DOMAIN fuzzed : id \notin OpenIds}
     IN  IF pass = "refuzz"
         THEN found' = [id \in news |-> fuzzed[id]] /\ UNCHANGED dropped
         ELSE /\ found' = DedupeFindings(all)
              /\ dropped' = dropped + DuplicatesIn(all)
  /\ UNCHANGED <<pass, harness, collected, scanned, fuzzed, runs, matches, raw>>

-----------------------------------------------------------------------------
OsvFindings == {ScaFinding(a, s) : a \in Advisories, s \in AdvisorySeverities}

Next ==
  \/ \E status \in NoFindings : SemgrepFails(status) \/ OsvFails(status)
  \/ \E results \in BoundedSeq(Match, MaxMatches) : SemgrepReports(results)
  \/ \E findings \in BoundedSeq(OsvFindings, MaxAdvisories) : OsvReports(findings)
  \/ CollapseScans
  \/ FuzzDisabled \/ HarnessFails
  \/ \E signatures \in SUBSET Signatures : HarnessReports(signatures)
  \/ CollapseCrashes
  \/ Return

Spec == Init /\ [][Next]_vars

-----------------------------------------------------------------------------
(* Properties                                                              *)

Returned == stage = "returned"

\* Whatever a tool printed is in the pass's findings, at least as severe: under
\* its own id, or, for a match, under the id of a match of the same rule around
\* it.  Only a refuzz leaves out what is still open.
NothingReportedIsLost ==
  LET Found(finding) == /\ finding.id \in DOMAIN found
                        /\ found[finding.id] >= finding.severity
  IN  Returned =>
        /\ \A f \in raw : Found(f) \/ (pass = "refuzz" /\ f.id \in OpenIds)
        /\ \A i \in DOMAIN matches : \E j \in DOMAIN matches :
             /\ j = i \/ Inside(matches[i], matches[j])
             /\ Found(SastFinding(matches[j]))

\* "One construct, one finding": a match that lies inside another of its rule is
\* no finding of its own, unless the same source is also flagged by itself.
OneConstructOneFinding ==
  LET Words(m) == m.from + 1 .. m.to
      Within(m, n) == /\ m.rule = n.rule /\ n.from # NoOffset
                      /\ Words(m) \subseteq Words(n) /\ Words(m) # Words(n)
  IN  Returned =>
        \A m \in ToSet(matches) :
          (m.from # NoOffset /\ SastFinding(m).id \in DOMAIN found) =>
            \E n \in ToSet(matches) :
              /\ SastFinding(n).id = SastFinding(m).id
              /\ ~\E o \in ToSet(matches) : Within(n, o)

=============================================================================
