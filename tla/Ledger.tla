------------------------------- MODULE Ledger -------------------------------
(***************************************************************************)
(* The ledger file: the writer, the chain verifier and the export of       *)
(* src/src/ledger and src/src/obs/export.ts.                               *)
(*                                                                         *)
(* The file is a sequence of lines, the last of which may lack its newline *)
(* after a write that a crash or a full disk cut short.  A line is an      *)
(* entry or something that does not parse as one.  The hash of an entry is *)
(* everything it was computed from, so two contents never share one: what  *)
(* sha256 of the canonical JSON is relied on for.  The processes that      *)
(* take these steps, and what each does next, are those of Cli; besides    *)
(* them, something may once replace, insert or remove a line of the file.  *)
(***************************************************************************)
EXTENDS Naturals, Sequences, FiniteSets, SequencesExt

CONSTANTS
  Data,        \* what a round's body says besides its number
  MaxRounds,   \* bound: lines of the file, and round numbers
  TornWrites   \* what a write cut short leaves: "part" of a line, or the line
               \* "unterminated"

ASSUME LedgerAssumption ==
  /\ Data # {} /\ MaxRounds \in Nat
  /\ TornWrites \subseteq {"part", "unterminated"}

VARIABLES
  file,          \* the lines
  terminated,    \* the file ends in a newline, or is empty
  exporting,     \* exportLedger has verified and is about to read
  verification,  \* what it found
  exported,      \* the entries the last export handed back
  acked,         \* history: the entries append returned
  merged,        \* history: an append went onto an unterminated line
  altered,       \* history: something other than the writer changed a line
  damage         \* history: the line at which that shows, 0 if at none

export_vars == <<exporting, verification, exported>>
vars == <<file, terminated, export_vars, acked, merged, altered, damage>>

-----------------------------------------------------------------------------
(* Entries and the chain                                                   *)

GENESIS_HASH == <<>>
Forged == <<[round |-> 0, data |-> "forged"]>>   \* the hash of no entry

ComputeEntryHash(prev, round, data) ==
  Append(prev, [round |-> round, data |-> data])

Junk == [kind |-> "junk"]

EntryLine(prev, round, data) ==
  [kind |-> "entry", round |-> round, data |-> data, prev_hash |-> prev,
   entry_hash |-> ComputeEntryHash(prev, round, data)]

\* readLedger throws at the first line that is not an entry.
Readable(lines) == \A i \in DOMAIN lines : lines[i].kind = "entry"

\* What the entry at line i must link to.
PrevHash(lines, i) == IF i = 1 THEN GENESIS_HASH ELSE lines[i-1].entry_hash

\* Mutant: an entry's hash is compared with the link and never recomputed.
BreaksAt_NoContent(lines, i) ==
  \/ lines[i].kind = "junk"
  \/ /\ lines[i].kind = "entry"
     /\ \/ lines[i].prev_hash # PrevHash(lines, i)
        \/ lines[i].round # i

\* What the verifier's loop refuses at line i once it has passed the lines before.
BreaksAt(lines, i) ==
  \/ lines[i].kind = "junk"
  \/ /\ lines[i].kind = "entry"
     /\ \/ lines[i].prev_hash # PrevHash(lines, i)
        \/ lines[i].entry_hash #
             ComputeEntryHash(lines[i].prev_hash, lines[i].round, lines[i].data)
        \/ lines[i].round # i

FirstBreak(lines, i) ==
  /\ i \in DOMAIN lines /\ BreaksAt(lines, i)
  /\ \A j \in 1..i-1 : ~BreaksAt(lines, j)

\* verifyLedger: the number of entries, or the line it fails at.
VerifyLedger(lines) ==
  IF \E i \in DOMAIN lines : BreaksAt(lines, i)
  THEN [ok |-> FALSE, at |-> CHOOSE i \in DOMAIN lines : FirstBreak(lines, i)]
  ELSE [ok |-> TRUE, at |-> Len(lines)]

-----------------------------------------------------------------------------
(* The writer                                                              *)

Init ==
  /\ file = <<>> /\ terminated = TRUE
  /\ exporting = FALSE /\ verification = [ok |-> TRUE, at |-> 0] /\ exported = <<>>
  /\ acked = <<>> /\ merged = FALSE /\ altered = FALSE /\ damage = 0

LastHash == IF file = <<>> THEN GENESIS_HASH ELSE file[Len(file)].entry_hash
ExpectedRound == IF file = <<>> THEN 1 ELSE file[Len(file)].round + 1

\* A line written after an unterminated one is the end of that one.
Written(line) ==
  IF terminated THEN Append(file, line) ELSE [file EXCEPT ![Len(file)] = Junk]

\* Mutant: any round is taken.
AppendEntry_AnyRound(round, data) ==
  /\ Readable(file) /\ Len(file) < MaxRounds
  /\ LET line == EntryLine(LastHash, round, data)
     IN  /\ file' = Written(line)
         /\ acked' = Append(acked, line)
  /\ terminated' = TRUE /\ merged' = (merged \/ ~terminated)
  /\ UNCHANGED <<export_vars, altered, damage>>

\* append: it reads the whole file, checks the round, and writes one line.
AppendEntry(round, data) ==
  /\ Readable(file) /\ round = ExpectedRound /\ Len(file) < MaxRounds
  /\ LET line == EntryLine(LastHash, round, data)
     IN  /\ file' = Written(line)
         /\ acked' = Append(acked, line)
  /\ terminated' = TRUE /\ merged' = (merged \/ ~terminated)
  /\ UNCHANGED <<export_vars, altered, damage>>

\* Mutant: a write cut short is taken for a written one.
AppendTorn_Acked(round, data, how) ==
  /\ Readable(file) /\ round = ExpectedRound /\ Len(file) < MaxRounds
  /\ file' = Written(IF how = "part" THEN Junk ELSE EntryLine(LastHash, round, data))
  /\ acked' = Append(acked, EntryLine(LastHash, round, data))
  /\ terminated' = FALSE
  /\ UNCHANGED <<export_vars, merged, altered, damage>>

\* The write is cut short, and nobody is told of the entry.
AppendTorn(round, data, how) ==
  /\ Readable(file) /\ round = ExpectedRound /\ Len(file) < MaxRounds
  /\ file' = Written(IF how = "part" THEN Junk ELSE EntryLine(LastHash, round, data))
  /\ terminated' = FALSE
  /\ UNCHANGED <<export_vars, acked, merged, altered, damage>>

-----------------------------------------------------------------------------
(* The export: it verifies, then reads the file again                      *)

ExportVerifies ==
  /\ ~exporting /\ exporting' = TRUE
  /\ verification' = VerifyLedger(file)
  /\ exported' = <<>>
  /\ UNCHANGED <<file, terminated, acked, merged, altered, damage>>

\* Mutant: the entries go along whatever the verification says.
ExportReads_Anyway ==
  /\ exporting /\ exporting' = FALSE
  /\ exported' = IF Readable(file) THEN file ELSE <<>>
  /\ UNCHANGED <<file, terminated, verification, acked, merged, altered, damage>>

\* A second read that throws hands nothing back.
ExportReads ==
  /\ exporting /\ exporting' = FALSE
  /\ exported' = IF verification.ok /\ Readable(file) THEN file ELSE <<>>
  /\ UNCHANGED <<file, terminated, verification, acked, merged, altered, damage>>

-----------------------------------------------------------------------------
(* One line of a file that parses is changed, while no export is between   *)
(* its reads                                                               *)

\* The fields of an entry changed one at a time.
FieldEdits(line) ==
  {[line EXCEPT !.data = d] : d \in Data} \cup
  {[line EXCEPT !.round = r] : r \in 1..MaxRounds} \cup
  {[line EXCEPT !.prev_hash = Forged], [line EXCEPT !.entry_hash = Forged]}

\* Text that is no entry, and entries with their hash computed: of any round on the
\* right link, or of the right round on a wrong one.
Forgeries(i) ==
  {Junk} \cup
  {EntryLine(PrevHash(file, i), r, d) : r \in 1..MaxRounds, d \in Data} \cup
  {EntryLine(Forged, i, d) : d \in Data}

\* The line is what append would have written there.
AsAppended(lines, i) ==
  \E d \in Data : lines[i] = EntryLine(PrevHash(lines, i), i, d)

\* A line append would not have written gives itself away; one it could have written
\* is given away by the line after it; at the end of the file nothing is.
ShowsAt(lines, i) ==
  IF i \in DOMAIN lines /\ ~AsAppended(lines, i) THEN i
  ELSE IF i < Len(lines) THEN i + 1 ELSE 0

\* i is a line, or the next one of a file that ends in a newline.
Alterable(i) ==
  /\ ~altered /\ ~exporting /\ Readable(file)
  /\ i \in DOMAIN file \/ (terminated /\ i = Len(file) + 1)

Alters(i) ==
  /\ altered' = TRUE /\ damage' = ShowsAt(file', i)
  /\ UNCHANGED <<export_vars, acked, merged>>

ReplaceLine(i) ==
  /\ Alterable(i) /\ i \in DOMAIN file
  /\ \E line \in (FieldEdits(file[i]) \cup Forgeries(i)) \ {file[i]} :
       file' = [file EXCEPT ![i] = line]
  /\ terminated' = terminated
  /\ Alters(i)

\* Another line, or a copy of one.
InsertLine(i) ==
  /\ Alterable(i) /\ Len(file) < MaxRounds
  /\ \E line \in Forgeries(i) \cup {file[j] : j \in DOMAIN file} :
       file' = InsertAt(file, i, line)
  /\ terminated' = terminated
  /\ Alters(i)

RemoveLine(i) ==
  /\ Alterable(i) /\ i \in DOMAIN file
  /\ file' = RemoveAt(file, i)
  /\ terminated' = (terminated \/ i = Len(file))
  /\ Alters(i)

-----------------------------------------------------------------------------
(* Properties                                                              *)

Torn == ~Readable(file) \/ ~terminated

\* A file in which no alteration shows and no write is torn verifies to its last
\* entry, whatever processes wrote it and whatever tears left nothing behind.
UndamagedVerifies ==
  (damage = 0 /\ ~Torn) => VerifyLedger(file) = [ok |-> TRUE, at |-> Len(file)]

\* The entry is in the file, or is the one that went onto an unterminated line: after
\* that the file does not read, and takes no other.
Kept(k) ==
  \/ merged /\ k = Len(acked)
  \/ \E i \in DOMAIN file : file[i] = acked[k]

\* writer.ts:84-86: an entry append returned stays in the file as it was written,
\* except the last one if it went onto a line without its newline; and a change to
\* the file that shows nowhere costs one entry at most.
AcknowledgedStay ==
  damage = 0 =>
    \A j, k \in DOMAIN acked : ~Kept(j) /\ ~Kept(k) => altered /\ acked[j] = acked[k]

\* build-plan.md:90, "mutating any entry makes verification fail at that entry": it
\* fails there if the line replaced, inserted or moved up is not one that append could
\* have written there, and at the line after it if it is; it fails there for good,
\* whatever is appended after.  Only a change to the end of the file, with its hash
\* computed or a line less, shows nowhere.
DamageIsLocated ==
  damage # 0 => VerifyLedger(file) = [ok |-> FALSE, at |-> damage]

\* export.ts:16, "Verifies the chain first and exports the entries only if it holds":
\* the writer, the verifier and the export together keep an attested log: while the
\* chain verifies an append adds one entry and touches no other, a break is for good
\* and where it was, whatever is appended after, a change that breaks nothing is to the
\* last entry, and an export hands back the whole log as it is when it reads it, or
\* nothing.
Attested == INSTANCE AttestedLog WITH
  entries <- LET found == VerifyLedger(file)
             IN  SubSeq(file, 1, IF found.ok THEN Len(file) ELSE found.at - 1),
  intact <- VerifyLedger(file).ok,
  meddled <- altered,
  handed <- exported

ImplementsAttestedLog == Attested!Spec

=============================================================================
