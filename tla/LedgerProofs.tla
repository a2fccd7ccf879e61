---------------------------- MODULE LedgerProofs ----------------------------
(***************************************************************************)
(* Theorems of the ledger file and of the commands that use it, for every  *)
(* bound on its length, every cap on rounds and any number of processes.   *)
(***************************************************************************)
EXTENDS Cli, SequenceTheorems, TLAPS

-----------------------------------------------------------------------------
(* Types                                                                   *)

Hash == Seq([round : Nat, data : Data \cup {"forged"}])

Entry ==
  [kind : {"entry"}, round : Nat, data : Data, prev_hash : Hash, entry_hash : Hash]

Line == Entry \cup {Junk}

\* What the history says of the file: a write onto an unterminated line spoils it, and
\* only a change by something else shows as damage.
HistoryTells == (merged => ~Readable(file)) /\ (~altered => damage = 0)

Typed ==
  /\ file \in Seq(Line) /\ terminated \in BOOLEAN
  /\ ~terminated => file # <<>>
  /\ exporting \in BOOLEAN
  /\ verification \in [ok : BOOLEAN, at : Nat]
  /\ exported \in Seq(Line) /\ acked \in Seq(Entry)
  /\ merged \in BOOLEAN /\ altered \in BOOLEAN /\ damage \in Nat
  /\ HistoryTells

Alteration(i) == ReplaceLine(i) \/ InsertLine(i) \/ RemoveLine(i)

\* The steps of the file, whoever takes them.
LedgerNext ==
  \/ \E round \in Nat, data \in Data : AppendEntry(round, data)
  \/ \E round \in Nat, data \in Data, how \in TornWrites : AppendTorn(round, data, how)
  \/ ExportVerifies \/ ExportReads
  \/ \E i \in 1..MaxRounds : Alteration(i)

\* A line that parses is an entry.
LEMMA ReadableEntries ==
  ASSUME NEW lines \in Seq(Line), Readable(lines)
  PROVE  \A i \in DOMAIN lines : lines[i] \in Entry
BY DEF Readable, Line, Junk

\* What an append writes is an entry.
LEMMA WritesEntry ==
  ASSUME Typed, Readable(file), NEW data \in Data
  PROVE  /\ LastHash \in Hash /\ ExpectedRound \in Nat
         /\ EntryLine(LastHash, ExpectedRound, data) \in Entry
<1>1. CASE file = <<>>
  BY <1>1 DEF LastHash, ExpectedRound, GENESIS_HASH, EntryLine, ComputeEntryHash, Entry, Hash
<1>2. CASE file # <<>>
  <2>1. Len(file) \in DOMAIN file
    BY <1>2 DEF Typed
  <2>2. file[Len(file)] \in Entry
    BY <2>1, ReadableEntries DEF Typed
  <2>3. LastHash \in Hash /\ ExpectedRound \in Nat
    BY <1>2, <2>2 DEF LastHash, ExpectedRound, Entry
  <2>4. ComputeEntryHash(LastHash, ExpectedRound, data) \in Hash
    BY <2>3 DEF ComputeEntryHash, Hash
  <2> QED BY <2>3, <2>4 DEF EntryLine, Entry
<1> QED BY <1>1, <1>2

\* Writing a line adds it, or spoils the last one; every other stays.
LEMMA WrittenLines ==
  ASSUME Typed, NEW line \in Line
  PROVE  /\ Written(line) \in Seq(Line) /\ Written(line) # <<>>
         /\ terminated => /\ Len(Written(line)) = Len(file) + 1
                          /\ Written(line)[Len(file) + 1] = line
                          /\ \A i \in 1..Len(file) : Written(line)[i] = file[i]
         /\ ~terminated => /\ Len(Written(line)) = Len(file)
                           /\ Written(line)[Len(file)] = Junk
                           /\ \A i \in 1..Len(file) - 1 : Written(line)[i] = file[i]
<1>1. CASE terminated
  <2>1. file \in Seq(Line) /\ Written(line) = Append(file, line)
    BY <1>1 DEF Typed, Written
  <2> HIDE DEF Line
  <2> QED BY <1>1, <2>1
<1>2. CASE ~terminated
  <2>1. Junk \in Line /\ file # <<>> /\ file \in Seq(Line)
    BY <1>2 DEF Line, Typed
  <2>2. Written(line) = [file EXCEPT ![Len(file)] = Junk]
    BY <1>2 DEF Written
  <2>3. Len(file) \in 1..Len(file)
    BY <2>1
  <2> QED BY <1>2, <2>1, <2>2, <2>3
<1> QED BY <1>1, <1>2 DEF Typed

-----------------------------------------------------------------------------
(* The verifier                                                            *)

\* A chain with no break verifies to its end.
LEMMA WholeVerifies ==
  ASSUME NEW lines, \A i \in DOMAIN lines : ~BreaksAt(lines, i)
  PROVE  VerifyLedger(lines) = [ok |-> TRUE, at |-> Len(lines)]
BY DEF VerifyLedger

\* A broken one fails at its first break, of which there is one.
LEMMA BrokenFails ==
  ASSUME NEW lines \in Seq(Line), NEW i, FirstBreak(lines, i)
  PROVE  VerifyLedger(lines) = [ok |-> FALSE, at |-> i]
<1>1. i \in DOMAIN lines /\ BreaksAt(lines, i)
  BY DEF FirstBreak
<1>2. ASSUME NEW j \in DOMAIN lines, FirstBreak(lines, j)
      PROVE  j = i
  <2>1. i \in 1..Len(lines) /\ j \in 1..Len(lines)
    BY <1>1, <1>2
  <2>2. ~(i \in 1..j-1) /\ ~(j \in 1..i-1)
    BY <1>2 DEF FirstBreak
  <2> QED BY <2>1, <2>2
<1>3. (CHOOSE j \in DOMAIN lines : FirstBreak(lines, j)) = i
  BY <1>1, <1>2
<1> QED BY <1>1, <1>3 DEF VerifyLedger

\* The verdict on a line rests on that line and the one before it.
LEMMA SameVerdict ==
  ASSUME NEW a, NEW b, NEW i \in Nat \ {0}, a[i] = b[i], i # 1 => a[i-1] = b[i-1]
  PROVE  BreaksAt(a, i) <=> BreaksAt(b, i)
BY DEF BreaksAt, PrevHash

-----------------------------------------------------------------------------
(* The inductive invariants                                                *)

\* A file in which no change shows is a chain but for a last line that a write cut
\* short; in any other the change is the first break.
ChainInv ==
  /\ damage = 0 =>
       \A i \in DOMAIN file : ~BreaksAt(file, i) \/ (i = Len(file) /\ file[i] = Junk)
  /\ damage # 0 => FirstBreak(file, damage)

\* What was acknowledged is never the line the next write goes onto.
Safe(k) ==
  \/ merged /\ k = Len(acked)
  \/ \E i \in DOMAIN file : file[i] = acked[k] /\ (terminated \/ i < Len(file))

AckInv ==
  damage = 0 =>
    \A j, k \in DOMAIN acked : ~Safe(j) /\ ~Safe(k) => altered /\ acked[j] = acked[k]

\* Between the two reads of an export the file only grows.
ExportInv ==
  (exporting /\ verification.ok) => damage = 0 /\ verification.at <= Len(file)

-----------------------------------------------------------------------------
(* Changes to the file                                                     *)

\* The hash a chain starts from and a made-up one are hashes.
LEMMA KnownHashes == GENESIS_HASH \in Hash /\ Forged \in Hash
<1> DEFINE x == [round |-> 0, data |-> "forged"]
<1>1. x \in [round : Nat, data : Data \cup {"forged"}]
  OBVIOUS
<1>2. <<x>> \in Hash
  <2> HIDE DEF x
  <2> QED BY <1>1 DEF Hash
<1> QED BY <1>2 DEF GENESIS_HASH, Forged, Hash

\* Whatever is put into a file is a line.
LEMMA PutLines ==
  ASSUME Typed, Readable(file), NEW i \in 1..Len(file)+1
  PROVE  /\ Forgeries(i) \subseteq Line
         /\ i \in DOMAIN file => FieldEdits(file[i]) \subseteq Line
<1>1. file \in Seq(Line) /\ \A j \in DOMAIN file : file[j] \in Entry
  BY ReadableEntries DEF Typed
<1>2. PrevHash(file, i) \in Hash
  <2>1. CASE i = 1
    BY <2>1, KnownHashes DEF PrevHash
  <2>2. CASE i # 1
    <3>1. i - 1 \in DOMAIN file
      BY <1>1, <2>2
    <3> QED BY <1>1, <2>2, <3>1 DEF PrevHash, Entry
  <2> QED BY <2>1, <2>2
<1>3. ASSUME NEW h \in Hash, NEW round \in Nat, NEW d \in Data
      PROVE  EntryLine(h, round, d) \in Line
  BY <1>3 DEF EntryLine, ComputeEntryHash, Entry, Hash, Line
<1>4. Forgeries(i) \subseteq Line
  <2>1. Junk \in Line /\ 1..MaxRounds \subseteq Nat /\ i \in Nat
    BY LedgerAssumption DEF Line
  <2> QED BY <1>2, <1>3, <2>1, KnownHashes DEF Forgeries
<1>5. ASSUME i \in DOMAIN file
      PROVE  FieldEdits(file[i]) \subseteq Entry
  <2>1. file[i] \in Entry /\ 1..MaxRounds \subseteq Nat /\ Forged \in Hash
    BY <1>1, <1>5, LedgerAssumption, KnownHashes
  <2> HIDE DEF Hash
  <2> QED BY <2>1 DEF FieldEdits, Entry
<1> QED BY <1>4, <1>5 DEF Line

\* A line that links where it should, in its place and with its hash, is one that
\* append would have written there.
LEMMA UnlikeBreaks ==
  ASSUME NEW lines \in Seq(Line), NEW i \in DOMAIN lines, ~AsAppended(lines, i)
  PROVE  BreaksAt(lines, i)
<1> SUFFICES ASSUME ~BreaksAt(lines, i)
             PROVE  AsAppended(lines, i)
  OBVIOUS
<1>1. lines[i] \in Entry
  <2>1. lines[i] \in Line /\ lines[i] # Junk
    BY DEF BreaksAt, Junk
  <2> QED BY <2>1 DEF Line
<1>2. /\ lines[i].prev_hash = PrevHash(lines, i) /\ lines[i].round = i
      /\ lines[i].entry_hash =
           ComputeEntryHash(lines[i].prev_hash, lines[i].round, lines[i].data)
      /\ lines[i].kind = "entry" /\ lines[i].data \in Data
  BY <1>1 DEF BreaksAt, Entry
<1>3. lines[i] = [kind |-> lines[i].kind, round |-> lines[i].round, data |-> lines[i].data,
                  prev_hash |-> lines[i].prev_hash, entry_hash |-> lines[i].entry_hash]
  BY <1>1 DEF Entry
<1>4. lines[i] = EntryLine(PrevHash(lines, i), i, lines[i].data)
  BY <1>2, <1>3 DEF EntryLine
<1> QED BY <1>2, <1>4 DEF AsAppended

\* And the verifier passes such a line.
LEMMA AppendedPasses ==
  ASSUME NEW lines, NEW i, AsAppended(lines, i)
  PROVE  ~BreaksAt(lines, i)
<1> PICK d \in Data : lines[i] = EntryLine(PrevHash(lines, i), i, d)
  BY DEF AsAppended
<1> QED BY DEF EntryLine, BreaksAt

\* Two entries on one link, of one round and with one hash are one entry.
LEMMA OneEntryPerHash ==
  ASSUME NEW h \in Hash, NEW round \in Nat, NEW a \in Data, NEW b \in Data,
         EntryLine(h, round, a).entry_hash = EntryLine(h, round, b).entry_hash
  PROVE  a = b
<1> DEFINE x == [round |-> round, data |-> a]
           y == [round |-> round, data |-> b]
<1>1. Append(h, x) = Append(h, y)
  BY DEF EntryLine, ComputeEntryHash
<1>2. x = y
  <2>1. Append(h, x)[Len(h) + 1] = x /\ Append(h, y)[Len(h) + 1] = y
    <3> HIDE DEF x, y
    <3> QED BY DEF Hash
  <2> QED BY <1>1, <2>1
<1> QED BY <1>2

\* The ends of two sequences that are put together.
LEMMA Joined ==
  ASSUME NEW a \in Seq(Line), NEW b \in Seq(Line)
  PROVE  /\ a \o b \in Seq(Line) /\ Len(a \o b) = Len(a) + Len(b)
         /\ \A j \in 1..Len(a) : (a \o b)[j] = a[j]
         /\ Len(b) > 0 => (a \o b)[Len(a) + 1] = b[1]
<1> HIDE DEF Line
<1> QED OBVIOUS

\* What a change does to a file: the lines before it stay, and those after it, if any,
\* are the line that was there or the one that came after.
Changed(i, lines) ==
  /\ lines \in Seq(Line) /\ \A j \in 1..i-1 : lines[j] = file[j]
  /\ i \in 1..Len(file)+1 /\ i <= Len(lines) + 1
  /\ \/ /\ i \in DOMAIN file /\ Len(lines) = Len(file) /\ lines[i] # file[i]
        /\ i < Len(lines) => lines[i+1] = file[i+1]
     \/ /\ Len(lines) = Len(file) + 1
        /\ i < Len(lines) => lines[i+1] = file[i]
     \/ /\ i \in DOMAIN file /\ Len(lines) = Len(file) - 1
        /\ i <= Len(lines) => lines[i] = file[i+1]

Rewritten(i) ==
  /\ Readable(file) /\ ~altered /\ altered' = TRUE
  /\ Changed(i, file') /\ damage' = ShowsAt(file', i)

LEMMA Alterations ==
  ASSUME Typed, NEW i \in 1..MaxRounds, Alteration(i)
  PROVE  /\ Rewritten(i) /\ UNCHANGED <<export_vars, acked, merged>>
         /\ terminated' \in BOOLEAN /\ (~terminated' => file' # <<>>)
         /\ terminated => terminated'
         /\ ~terminated' => Len(file') >= Len(file) \/ i < Len(file)
<1>1. /\ file \in Seq(Line) /\ Len(file) \in Nat /\ Readable(file) /\ ~altered
      /\ i \in 1..Len(file)+1 /\ (i \in DOMAIN file \/ terminated)
      /\ altered' = TRUE /\ damage' = ShowsAt(file', i)
      /\ UNCHANGED <<export_vars, acked, merged>>
      /\ terminated \in BOOLEAN /\ (~terminated => file # <<>>)
  BY DEF Alteration, ReplaceLine, InsertLine, RemoveLine, Alterable, Alters, Typed
<1>2. /\ Forgeries(i) \subseteq Line
      /\ i \in DOMAIN file => FieldEdits(file[i]) \subseteq Line
      /\ \A j \in DOMAIN file : file[j] \in Line
  BY <1>1, PutLines
<1> HIDE DEF Line
<1>3. CASE ReplaceLine(i)
  <2>1. PICK line \in Line : line # file[i] /\ file' = [file EXCEPT ![i] = line]
    BY <1>2, <1>3 DEF ReplaceLine
  <2>2. i \in DOMAIN file /\ terminated' = terminated
    BY <1>3 DEF ReplaceLine
  <2>3. file' \in Seq(Line) /\ Len(file') = Len(file)
        /\ \A j \in 1..Len(file) : file'[j] = IF j = i THEN line ELSE file[j]
    BY <1>1, <2>1, <2>2
  <2>4. Changed(i, file')
    <3>1. /\ \A j \in 1..i-1 : file'[j] = file[j]
          /\ file'[i] # file[i] /\ (i < Len(file') => file'[i+1] = file[i+1])
          /\ i \in 1..Len(file)+1 /\ i <= Len(file') + 1
      BY <1>1, <2>1, <2>2, <2>3
    <3> QED BY <2>2, <2>3, <3>1 DEF Changed
  <2> QED BY <1>1, <2>2, <2>3, <2>4 DEF Rewritten
<1>4. CASE InsertLine(i)
  <2>1. PICK line \in Line : file' = InsertAt(file, i, line)
    BY <1>2, <1>4 DEF InsertLine
  <2>2. terminated' = terminated
    BY <1>4 DEF InsertLine
  <2>3. /\ SubSeq(file, 1, i-1) \in Seq(Line) /\ Len(SubSeq(file, 1, i-1)) = i - 1
        /\ \A j \in 1..i-1 : SubSeq(file, 1, i-1)[j] = file[j]
    BY <1>1
  <2>4. /\ SubSeq(file, i, Len(file)) \in Seq(Line)
        /\ Len(SubSeq(file, i, Len(file))) = Len(file) - i + 1
        /\ i <= Len(file) => SubSeq(file, i, Len(file))[1] = file[i]
    BY <1>1
  <2>5. /\ SubSeq(file, 1, i-1) \o <<line>> \in Seq(Line)
        /\ Len(SubSeq(file, 1, i-1) \o <<line>>) = i
        /\ \A j \in 1..i-1 : (SubSeq(file, 1, i-1) \o <<line>>)[j] = file[j]
    BY <1>1, <2>3
  <2>6. /\ file' \in Seq(Line) /\ Len(file') = Len(file) + 1
        /\ \A j \in 1..i-1 : file'[j] = file[j]
        /\ i <= Len(file) => file'[i+1] = file[i]
    <3> DEFINE a == SubSeq(file, 1, i-1) \o <<line>>
               b == SubSeq(file, i, Len(file))
    <3>1. file' = a \o b
      BY <2>1 DEF InsertAt
    <3>2. /\ a \in Seq(Line) /\ Len(a) = i /\ (\A j \in 1..i-1 : a[j] = file[j])
          /\ b \in Seq(Line) /\ Len(b) = Len(file) - i + 1
          /\ (i <= Len(file) => b[1] = file[i])
      BY <2>4, <2>5
    <3> HIDE DEF a, b
    <3>3. /\ a \o b \in Seq(Line) /\ Len(a \o b) = Len(a) + Len(b)
          /\ \A j \in 1..Len(a) : (a \o b)[j] = a[j]
          /\ Len(b) > 0 => (a \o b)[Len(a) + 1] = b[1]
      BY <3>2, Joined
    <3>4. /\ Len(a) + Len(b) = Len(file) + 1 /\ (i <= Len(file) => Len(b) > 0)
          /\ 1..i-1 \subseteq 1..Len(a)
      BY <1>1, <3>2
    <3>5. i <= Len(file) => file'[i+1] = file[i]
      BY <3>1, <3>2, <3>3, <3>4
    <3> QED BY <3>1, <3>2, <3>3, <3>4, <3>5
  <2>7. Changed(i, file')
    BY <1>1, <2>6 DEF Changed
  <2> QED BY <1>1, <2>2, <2>6, <2>7 DEF Rewritten
<1>5. CASE RemoveLine(i)
  <2>1. i \in DOMAIN file /\ file' = RemoveAt(file, i) /\ terminated' = (terminated \/ i = Len(file))
    BY <1>5 DEF RemoveLine
  <2>2. /\ SubSeq(file, 1, i-1) \in Seq(Line) /\ Len(SubSeq(file, 1, i-1)) = i - 1
        /\ \A j \in 1..i-1 : SubSeq(file, 1, i-1)[j] = file[j]
    BY <1>1, <2>1
  <2>3. /\ SubSeq(file, i+1, Len(file)) \in Seq(Line)
        /\ Len(SubSeq(file, i+1, Len(file))) = Len(file) - i
        /\ i < Len(file) => SubSeq(file, i+1, Len(file))[1] = file[i+1]
    BY <1>1, <2>1
  <2>4. /\ file' \in Seq(Line) /\ Len(file') = Len(file) - 1
        /\ \A j \in 1..i-1 : file'[j] = file[j]
        /\ i < Len(file) => file'[i] = file[i+1]
    <3> DEFINE a == SubSeq(file, 1, i-1)
               b == SubSeq(file, i+1, Len(file))
    <3>1. file' = a \o b
      BY <2>1 DEF RemoveAt
    <3>2. /\ a \in Seq(Line) /\ Len(a) = i - 1 /\ (\A j \in 1..i-1 : a[j] = file[j])
          /\ b \in Seq(Line) /\ Len(b) = Len(file) - i
          /\ (i < Len(file) => b[1] = file[i+1])
      BY <2>2, <2>3
    <3> HIDE DEF a, b
    <3>3. /\ a \o b \in Seq(Line) /\ Len(a \o b) = Len(a) + Len(b)
          /\ \A j \in 1..Len(a) : (a \o b)[j] = a[j]
          /\ Len(b) > 0 => (a \o b)[Len(a) + 1] = b[1]
      BY <3>2, Joined
    <3>4. i \in 1..Len(file) /\ Len(a) + Len(b) = Len(file) - 1 /\ Len(a) + 1 = i
          /\ (i < Len(file) => Len(b) > 0)
      BY <1>1, <2>1, <3>2
    <3>5. i < Len(file) => file'[i] = file[i+1]
      BY <3>1, <3>2, <3>3, <3>4
    <3> QED BY <3>1, <3>2, <3>3, <3>4, <3>5
  <2>5. Changed(i, file')
    BY <1>1, <2>1, <2>4 DEF Changed
  <2>6. ~terminated' => i < Len(file) /\ file' # <<>>
    <3>1. ~terminated' => i < Len(file)
      <4>1. ~terminated' => i # Len(file)
        BY <2>1
      <4> QED BY <1>1, <2>1, <4>1
    <3>2. i < Len(file) => Len(file') > 0
      BY <1>1, <2>4
    <3> QED BY <1>1, <2>4, <3>1, <3>2
  <2> QED BY <1>1, <2>1, <2>4, <2>5, <2>6 DEF Rewritten
<1> QED BY <1>3, <1>4, <1>5 DEF Alteration

\* A change to a chain that is whole breaks it where it shows, and nowhere before; one
\* that shows nowhere is to its end, and leaves it whole.
LEMMA ChangeShows ==
  ASSUME Typed, Readable(file), \A j \in DOMAIN file : ~BreaksAt(file, j),
         NEW i, NEW lines, Changed(i, lines)
  PROVE  /\ ShowsAt(lines, i) \in Nat
         /\ ShowsAt(lines, i) # 0 =>
              FirstBreak(lines, ShowsAt(lines, i)) /\ ShowsAt(lines, i) <= i + 1
         /\ ShowsAt(lines, i) = 0 =>
              i >= Len(lines) /\ i >= Len(file) /\ \A j \in DOMAIN lines : ~BreaksAt(lines, j)
<1>1. /\ file \in Seq(Line) /\ lines \in Seq(Line) /\ i \in Nat \ {0}
      /\ Len(file) \in Nat /\ Len(lines) \in Nat
      /\ i <= Len(file) + 1 /\ i <= Len(lines) + 1
      /\ \A j \in 1..i-1 : j \in DOMAIN file /\ j \in DOMAIN lines /\ lines[j] = file[j]
  BY DEF Typed, Changed
<1>2. ASSUME NEW j \in 1..i-1
      PROVE  ~BreaksAt(lines, j)
  <2>1. j \in Nat \ {0} /\ lines[j] = file[j] /\ (j # 1 => lines[j-1] = file[j-1])
    BY <1>1
  <2> QED BY <1>1, <2>1, SameVerdict
<1>3. CASE i \in DOMAIN lines /\ ~AsAppended(lines, i)
  <2>1. BreaksAt(lines, i)
    BY <1>1, <1>3, UnlikeBreaks
  <2>2. ShowsAt(lines, i) = i
    BY <1>3 DEF ShowsAt
  <2> QED BY <1>1, <1>2, <1>3, <2>1, <2>2 DEF FirstBreak
<1>4. CASE i \in DOMAIN lines /\ AsAppended(lines, i)
  <2>1. ~BreaksAt(lines, i)
    BY <1>4, AppendedPasses
  <2>2. PICK d \in Data : lines[i] = EntryLine(PrevHash(lines, i), i, d)
    BY <1>4 DEF AsAppended
  <2>3. /\ PrevHash(lines, i) = PrevHash(file, i) /\ PrevHash(file, i) \in Hash
    <3>1. CASE i = 1
      BY <3>1, KnownHashes DEF PrevHash
    <3>2. CASE i # 1
      <4>1. i - 1 \in 1..i-1 /\ i - 1 \in DOMAIN file
        BY <1>1, <3>2
      <4>2. file[i-1] \in Entry /\ lines[i-1] = file[i-1]
        BY <1>1, <4>1, ReadableEntries
      <4> QED BY <3>2, <4>2 DEF PrevHash, Entry
    <3> QED BY <3>1, <3>2
  <2>4. \A j \in DOMAIN file : file[j] \in Entry /\ file[j].round = j
    BY <1>1, ReadableEntries DEF BreaksAt, Entry
  <2>5. lines[i].round = i
    BY <2>2 DEF EntryLine
  <2>6. CASE i < Len(lines)
    <3>1. i + 1 \in DOMAIN lines /\ ShowsAt(lines, i) = i + 1
      BY <1>1, <1>4, <2>6 DEF ShowsAt
    <3>2. BreaksAt(lines, i + 1)
      <4>1. CASE i \in DOMAIN file /\ Len(lines) = Len(file) /\ lines[i] # file[i]
                 /\ lines[i+1] = file[i+1]
        <5>1. i + 1 \in DOMAIN file
          BY <1>1, <2>6, <4>1
        <5>2. PICK e \in Data : file[i] = EntryLine(PrevHash(file, i), i, e)
          BY <1>1, <4>1, UnlikeBreaks DEF AsAppended
        <5>3. d # e
          BY <2>2, <2>3, <4>1, <5>2
        <5>4. lines[i].entry_hash # file[i].entry_hash
          BY <1>1, <2>2, <2>3, <5>2, <5>3, OneEntryPerHash
        <5>5. file[i+1].prev_hash = file[i].entry_hash
          <6>1. file[i+1].prev_hash = PrevHash(file, i+1)
            BY <2>4, <5>1 DEF BreaksAt, Entry
          <6> QED BY <1>1, <6>1 DEF PrevHash
        <5>6. PrevHash(lines, i+1) = lines[i].entry_hash
          BY <1>1 DEF PrevHash
        <5> QED BY <2>4, <4>1, <5>1, <5>4, <5>5, <5>6 DEF BreaksAt, Entry
      <4>2. CASE Len(lines) = Len(file) + 1 /\ lines[i+1] = file[i]
        <5>1. i \in DOMAIN file
          BY <1>1, <2>6, <4>2
        <5>2. lines[i+1].round # i + 1 /\ lines[i+1].kind = "entry"
          BY <1>1, <2>4, <4>2, <5>1 DEF Entry
        <5> QED BY <5>2 DEF BreaksAt
      <4>3. CASE Len(lines) = Len(file) - 1 /\ lines[i] = file[i+1]
        <5>1. i + 1 \in DOMAIN file
          BY <1>1, <2>6, <4>3
        <5> QED BY <1>1, <2>4, <2>5, <4>3, <5>1
      <4> QED BY <1>1, <2>6, <4>1, <4>2, <4>3 DEF Changed
    <3>3. \A j \in 1..i : ~BreaksAt(lines, j)
      BY <1>1, <1>2, <2>1
    <3> QED BY <1>1, <3>1, <3>2, <3>3 DEF FirstBreak
  <2>7. CASE i = Len(lines)
    <3>1. ShowsAt(lines, i) = 0
      BY <1>1, <1>4, <2>7 DEF ShowsAt
    <3>2. i >= Len(file)
      <4>1. CASE Len(lines) = Len(file) - 1
        <5>1. i + 1 \in DOMAIN file /\ lines[i] = file[i+1]
          BY <1>1, <2>7, <4>1 DEF Changed
        <5> QED BY <1>1, <2>4, <2>5, <5>1
      <4> QED BY <1>1, <2>7, <4>1 DEF Changed
    <3>3. \A j \in DOMAIN lines : ~BreaksAt(lines, j)
      BY <1>1, <1>2, <2>1, <2>7
    <3> QED BY <1>1, <2>7, <3>1, <3>2, <3>3
  <2> QED BY <1>1, <1>4, <2>6, <2>7
<1>5. CASE i \notin DOMAIN lines
  <2>1. i = Len(lines) + 1 /\ ShowsAt(lines, i) = 0
    BY <1>1, <1>5 DEF ShowsAt
  <2>2. i >= Len(file)
    BY <1>1, <2>1 DEF Changed
  <2>3. \A j \in DOMAIN lines : ~BreaksAt(lines, j)
    BY <1>1, <1>2, <2>1
  <2> QED BY <1>1, <2>1, <2>2, <2>3
<1> QED BY <1>3, <1>4, <1>5

-----------------------------------------------------------------------------
(* Every step of the file keeps them                                       *)

\* What a step does to the file: nothing, a write of a whole line or of part of
\* one, or damage to a chain that is whole.
Writes(line) ==
  /\ Readable(file) /\ file' = Written(line) /\ damage' = damage
  /\ line = Junk \/ \E data \in Data : line = EntryLine(LastHash, ExpectedRound, data)

LEMMA FileSteps ==
  ASSUME Typed, LedgerNext
  PROVE  \/ file' = file /\ damage' = damage
         \/ \E line \in Line : Writes(line)
         \/ \E i \in Nat \ {0} : Rewritten(i)
<1>1. ASSUME NEW round \in Nat, NEW data \in Data, AppendEntry(round, data)
      PROVE  \E line \in Line : Writes(line)
  <2>1. EntryLine(LastHash, round, data) \in Line
    BY <1>1, WritesEntry DEF AppendEntry, Line
  <2> QED BY <1>1, <2>1 DEF AppendEntry, Writes
<1>2. ASSUME NEW round \in Nat, NEW data \in Data, NEW how \in TornWrites,
             AppendTorn(round, data, how)
      PROVE  \E line \in Line : Writes(line)
  <2>1. EntryLine(LastHash, round, data) \in Line /\ Junk \in Line
    BY <1>2, WritesEntry DEF AppendTorn, Line
  <2> QED BY <1>2, <2>1 DEF AppendTorn, Writes
<1>3. ExportVerifies \/ ExportReads => file' = file /\ damage' = damage
  BY DEF ExportVerifies, ExportReads
<1>4. ASSUME NEW i \in 1..MaxRounds, Alteration(i)
      PROVE  Rewritten(i)
  BY <1>4, Alterations
<1>5. \A i \in 1..MaxRounds : i \in Nat \ {0}
  BY LedgerAssumption
<1> QED BY <1>1, <1>2, <1>3, <1>4, <1>5 DEF LedgerNext

\* Writing goes on with a whole chain, and the verdict on the lines before it
\* stays what it was.
LEMMA WriteKeepsChain ==
  ASSUME Typed, ChainInv, NEW line \in Line, Writes(line)
  PROVE  /\ Len(file') \in Nat /\ Len(file') >= Len(file)
         /\ \A i \in 1..Len(file) - 1 : BreaksAt(file', i) <=> BreaksAt(file, i)
         /\ terminated /\ file # <<>> =>
              (BreaksAt(file', Len(file)) <=> BreaksAt(file, Len(file)))
         /\ ~terminated => Len(file') = Len(file) /\ file'[Len(file)] = Junk
         /\ terminated => Len(file') = Len(file) + 1 /\ file'[Len(file')] = line
         /\ terminated /\ damage = 0 => ~BreaksAt(file', Len(file')) \/ line = Junk
<1>1. file' = Written(line) /\ file \in Seq(Line) /\ Len(file) \in Nat /\ Readable(file)
  BY DEF Typed, Writes
<1>2. /\ terminated => /\ Len(file') = Len(file) + 1
                       /\ file'[Len(file) + 1] = line
                       /\ \A i \in 1..Len(file) : file'[i] = file[i]
      /\ ~terminated => /\ Len(file') = Len(file)
                        /\ file'[Len(file)] = Junk
                        /\ \A i \in 1..Len(file) - 1 : file'[i] = file[i]
  BY <1>1, WrittenLines
<1>3. ASSUME NEW i \in 1..Len(file) - 1
      PROVE  BreaksAt(file', i) <=> BreaksAt(file, i)
  <2>1. i \in Nat \ {0} /\ file'[i] = file[i] /\ (i # 1 => file'[i-1] = file[i-1])
    <3>1. \A j \in 1..Len(file)-1 : file'[j] = file[j]
      BY <1>1, <1>2
    <3> QED BY <1>1, <3>1
  <2> QED BY <2>1, SameVerdict
<1>4. ASSUME terminated, file # <<>>
      PROVE  BreaksAt(file', Len(file)) <=> BreaksAt(file, Len(file))
  <2> DEFINE n == Len(file)
  <2>1. n \in Nat \ {0}
    BY <1>1, <1>4
  <2>2. file'[n] = file[n] /\ (n # 1 => file'[n-1] = file[n-1])
    <3> HIDE DEF n
    <3>1. \A i \in 1..n : file'[i] = file[i]
      BY <1>2, <1>4 DEF n
    <3> QED BY <2>1, <3>1
  <2> HIDE DEF n
  <2>3. BreaksAt(file', n) <=> BreaksAt(file, n)
    BY <2>1, <2>2, SameVerdict
  <2> QED BY <2>3 DEF n
<1>5. ASSUME terminated, damage = 0, line # Junk
      PROVE  ~BreaksAt(file', Len(file) + 1)
  <2>1. PICK data \in Data : line = EntryLine(LastHash, ExpectedRound, data)
    BY <1>5 DEF Writes
  <2>2. /\ line.kind = "entry" /\ line.prev_hash = LastHash /\ line.round = ExpectedRound
        /\ line.entry_hash = ComputeEntryHash(line.prev_hash, line.round, line.data)
    BY <2>1 DEF EntryLine
  <2>3. file'[Len(file) + 1] = line
    BY <1>2, <1>5
  <2>4. CASE file = <<>>
    <3>1. Len(file) + 1 = 1 /\ ExpectedRound = 1 /\ LastHash = GENESIS_HASH
      BY <2>4 DEF ExpectedRound, LastHash
    <3> QED BY <2>2, <2>3, <3>1 DEF BreaksAt, PrevHash
  <2>5. CASE file # <<>>
    <3> DEFINE n == Len(file)
    <3>1. n \in DOMAIN file /\ n \in Nat \ {0}
      BY <1>1, <2>5
    <3>2. file[n] \in Entry /\ file[n] # Junk
      BY <1>1, <3>1, ReadableEntries DEF Entry, Junk
    <3>3. file[n].round = n
      BY <1>5, <3>1, <3>2 DEF ChainInv, BreaksAt, Entry
    <3>4. ExpectedRound = n + 1 /\ LastHash = file[n].entry_hash
      BY <2>5, <3>3 DEF ExpectedRound, LastHash
    <3>5. file'[n] = file[n] /\ n + 1 # 1 /\ (n + 1) - 1 = n
      BY <1>2, <1>5, <3>1
    <3> QED BY <2>2, <2>3, <3>4, <3>5 DEF BreaksAt, PrevHash
  <2> QED BY <2>4, <2>5
<1> QED BY <1>1, <1>2, <1>3, <1>4, <1>5

LEMMA ChainStep ==
  ASSUME Typed, ChainInv, LedgerNext
  PROVE  ChainInv'
<1>1. CASE file' = file /\ damage' = damage
  BY <1>1 DEF ChainInv, FirstBreak
<1>2. ASSUME NEW line \in Line, Writes(line)
      PROVE  ChainInv'
  <2>0. file \in Seq(Line) /\ file' \in Seq(Line) /\ damage' = damage
    BY <1>2, WrittenLines DEF Typed, Writes
  <2>1. CASE damage = 0
    <3>1. ASSUME NEW i \in DOMAIN file'
          PROVE  ~BreaksAt(file', i) \/ (i = Len(file') /\ file'[i] = Junk)
      <4>1. i \in 1..Len(file')
        BY <2>0
      <4>2. \A j \in DOMAIN file : ~BreaksAt(file, j)
        <5>1. \A j \in DOMAIN file : file[j] # Junk
          BY <1>2, <2>0, ReadableEntries DEF Writes, Entry, Junk
        <5> QED BY <2>1, <5>1 DEF ChainInv
      <4>3. CASE i < Len(file)
        BY <1>2, <2>0, <4>1, <4>2, <4>3, WriteKeepsChain
      <4>4. CASE i = Len(file)
        BY <1>2, <2>0, <4>1, <4>2, <4>4, WriteKeepsChain
      <4>5. CASE i > Len(file)
        <5>1. terminated /\ i = Len(file')
          BY <1>2, <2>0, <4>1, <4>5, WriteKeepsChain
        <5> QED BY <1>2, <2>1, <5>1, WriteKeepsChain
      <4> QED BY <2>0, <4>1, <4>3, <4>4, <4>5
    <3> QED BY <2>0, <2>1, <3>1 DEF ChainInv
  <2>2. CASE damage # 0
    <3>1. /\ damage \in 1..Len(file) /\ BreaksAt(file, damage)
          /\ \A j \in 1..damage-1 : ~BreaksAt(file, j)
      BY <2>0, <2>2 DEF ChainInv, FirstBreak
    <3>2. \A j \in 1..damage-1 : j \in 1..Len(file)-1
      BY <2>0, <3>1
    <3>3. BreaksAt(file', damage)
      <4>1. CASE damage < Len(file)
        BY <1>2, <2>0, <3>1, <4>1, WriteKeepsChain
      <4>2. CASE damage = Len(file) /\ terminated
        BY <1>2, <2>0, <3>1, <4>2, WriteKeepsChain
      <4>3. CASE damage = Len(file) /\ ~terminated
        <5>1. file'[damage] = Junk
          BY <1>2, <4>3, WriteKeepsChain
        <5> QED BY <5>1 DEF BreaksAt, Junk
      <4> QED BY <2>0, <3>1, <4>1, <4>2, <4>3
    <3>4. damage \in DOMAIN file'
      BY <1>2, <2>0, <3>1, WriteKeepsChain
    <3>5. \A j \in 1..damage-1 : ~BreaksAt(file', j)
      BY <1>2, <3>1, <3>2, WriteKeepsChain
    <3> QED BY <2>0, <2>2, <3>3, <3>4, <3>5 DEF ChainInv, FirstBreak
  <2> QED BY <2>1, <2>2
<1>3. ASSUME NEW i \in Nat \ {0}, Rewritten(i)
      PROVE  ChainInv'
  <2>1. file \in Seq(Line) /\ Readable(file) /\ damage = 0
    BY <1>3 DEF Typed, HistoryTells, Rewritten
  <2>2. \A j \in DOMAIN file : ~BreaksAt(file, j)
    <3>1. \A j \in DOMAIN file : file[j] # Junk
      BY <2>1, ReadableEntries DEF Entry, Junk
    <3> QED BY <2>1, <3>1 DEF ChainInv
  <2> QED BY <1>3, <2>1, <2>2, ChangeShows DEF Rewritten, ChainInv
<1> QED BY <1>1, <1>2, <1>3, FileSteps

\* The commands take the steps of the file and no others.
LEMMA CommandSteps ==
  ASSUME Typed, [CliNext]_cli_vars
  PROVE  LedgerNext \/ UNCHANGED vars
<1>1. ASSUME NEW data \in Data, AppendRound(data)
      PROVE  LedgerNext
  <2>1. AppendEntry(process.round, data) /\ process.round \in Nat
    BY <1>1, WritesEntry DEF AppendRound, AppendEntry
  <2> QED BY <2>1 DEF LedgerNext
<1>2. ASSUME NEW data \in Data, NEW how \in TornWrites, NEW with,
             AppendRoundTorn(data, how, with)
      PROVE  LedgerNext
  <2>1. AppendTorn(process.round, data, how) /\ process.round \in Nat
    BY <1>2, WritesEntry DEF AppendRoundTorn, AppendTorn
  <2> QED BY <2>1 DEF LedgerNext
<1>3. CASE UNCHANGED cli_vars
  BY <1>3 DEF cli_vars
<1>4. CASE ExportCommandVerifies \/ ExportCommandReads
  BY <1>4 DEF ExportCommandVerifies, ExportCommandReads, LedgerNext
<1>5. ASSUME NEW i \in 1..MaxRounds, DamageLine(i)
      PROVE  LedgerNext
  BY <1>5 DEF DamageLine, LedgerNext, Alteration
<1>6. CASE (\E resume \in BOOLEAN : Launch(resume)) \/ Start \/ Report \/ Finish \/ Throws \/ Killed
  BY <1>6 DEF Launch, Start, Report, Finish, Throws, Killed
<1> QED BY <1>1, <1>2, <1>3, <1>4, <1>5, <1>6 DEF CliNext

\* What the verifier says of a file, whatever happened to it.
Verdict(lines, damaged) ==
  \/ /\ damaged = 0 /\ \A i \in DOMAIN lines : ~BreaksAt(lines, i)
     /\ VerifyLedger(lines) = [ok |-> TRUE, at |-> Len(lines)]
  \/ /\ damaged = 0 /\ lines # <<>> /\ ~Readable(lines)
     /\ VerifyLedger(lines) = [ok |-> FALSE, at |-> Len(lines)]
  \/ /\ damaged # 0 /\ FirstBreak(lines, damaged)
     /\ VerifyLedger(lines) = [ok |-> FALSE, at |-> damaged]

LEMMA VerdictOf ==
  ASSUME NEW lines \in Seq(Line), NEW damaged \in Nat,
         damaged = 0 =>
           \A i \in DOMAIN lines : ~BreaksAt(lines, i) \/ (i = Len(lines) /\ lines[i] = Junk),
         damaged # 0 => FirstBreak(lines, damaged)
  PROVE  Verdict(lines, damaged)
<1>1. CASE damaged # 0
  BY <1>1, BrokenFails DEF Verdict
<1>2. CASE damaged = 0 /\ \A i \in DOMAIN lines : ~BreaksAt(lines, i)
  BY <1>2, WholeVerifies DEF Verdict
<1>3. CASE damaged = 0 /\ \E i \in DOMAIN lines : BreaksAt(lines, i)
  <2> DEFINE n == Len(lines)
  <2>1. n \in DOMAIN lines /\ lines[n] = Junk /\ BreaksAt(lines, n)
    BY <1>3
  <2>2. ~Readable(lines)
    BY <2>1 DEF Readable, Junk
  <2>3. FirstBreak(lines, n)
    <3>1. \A j \in 1..n-1 : j \in DOMAIN lines /\ j # n
      OBVIOUS
    <3> QED BY <1>3, <2>1, <3>1 DEF FirstBreak
  <2> QED BY <1>3, <2>1, <2>2, <2>3, BrokenFails DEF Verdict
<1> QED BY <1>1, <1>2, <1>3

LEMMA Verdicts ==
  ASSUME Typed, ChainInv
  PROVE  Verdict(file, damage)
BY VerdictOf DEF Typed, ChainInv

\* In words that do not depend on the damage.
LEMMA VerdictSays ==
  ASSUME NEW lines \in Seq(Line), NEW damaged \in Nat, Verdict(lines, damaged)
  PROVE  /\ VerifyLedger(lines) \in [ok : BOOLEAN, at : Nat]
         /\ VerifyLedger(lines).ok <=> damaged = 0 /\ Readable(lines)
         /\ VerifyLedger(lines).ok => VerifyLedger(lines) = [ok |-> TRUE, at |-> Len(lines)]
         /\ damaged # 0 => VerifyLedger(lines) = [ok |-> FALSE, at |-> damaged]
         /\ damaged = 0 /\ ~Readable(lines) =>
              lines # <<>> /\ VerifyLedger(lines) = [ok |-> FALSE, at |-> Len(lines)]
         /\ damaged = 0 /\ Readable(lines) => \A i \in DOMAIN lines : ~BreaksAt(lines, i)
<1>1. \A ok \in BOOLEAN, at \in Nat : [ok |-> ok, at |-> at] \in [ok : BOOLEAN, at : Nat]
  OBVIOUS
<1>2. ASSUME \A i \in DOMAIN lines : ~BreaksAt(lines, i)
      PROVE  Readable(lines)
  <2>1. ASSUME NEW i \in DOMAIN lines
        PROVE  lines[i].kind = "entry"
    <3>1. lines[i] \in Line /\ lines[i].kind # "junk"
      BY <1>2, <2>1 DEF BreaksAt
    <3> QED BY <3>1 DEF Line, Entry, Junk
  <2> QED BY <2>1 DEF Readable
<1>3. Len(lines) \in Nat
  OBVIOUS
<1> QED BY <1>1, <1>2, <1>3 DEF Verdict

LEMMA TypedStep ==
  ASSUME Typed, ChainInv, LedgerNext
  PROVE  Typed'
<1>1. ASSUME NEW round \in Nat, NEW data \in Data, AppendEntry(round, data)
      PROVE  Typed'
  <2>1. EntryLine(LastHash, round, data) \in Entry
    BY <1>1, WritesEntry DEF AppendEntry
  <2>2. file' = Written(EntryLine(LastHash, round, data))
    BY <1>1 DEF AppendEntry
  <2>3. file' \in Seq(Line)
    BY <2>1, <2>2, WrittenLines DEF Line
  <2>4. acked' \in Seq(Entry)
    BY <1>1, <2>1 DEF AppendEntry, Typed
  <2>5. ~terminated => ~Readable(file')
    <3>1. ASSUME ~terminated
          PROVE  Len(file) \in DOMAIN file' /\ file'[Len(file)] = Junk
      BY <2>1, <2>2, <3>1, WrittenLines DEF Line, Typed
    <3> QED BY <3>1 DEF Readable, Junk
  <2>6. ~merged
    BY <1>1 DEF AppendEntry, Typed, HistoryTells
  <2> QED BY <1>1, <2>3, <2>4, <2>5, <2>6 DEF AppendEntry, Typed, HistoryTells, export_vars
<1>2. ASSUME NEW round \in Nat, NEW data \in Data, NEW how \in TornWrites,
             AppendTorn(round, data, how)
      PROVE  Typed'
  <2>1. EntryLine(LastHash, round, data) \in Line /\ Junk \in Line
    BY <1>2, WritesEntry DEF AppendTorn, Line
  <2>2. file' \in Seq(Line) /\ file' # <<>>
    BY <1>2, <2>1, WrittenLines DEF AppendTorn
  <2> QED BY <1>2, <2>2 DEF AppendTorn, Typed, HistoryTells, export_vars
<1>3. CASE ExportVerifies
  <2>1. VerifyLedger(file) \in [ok : BOOLEAN, at : Nat]
    BY Verdicts, VerdictSays DEF Typed
  <2> QED BY <1>3, <2>1 DEF ExportVerifies, Typed, HistoryTells
<1>4. CASE ExportReads
  <2>1. exported' = file \/ exported' = <<>>
    BY <1>4 DEF ExportReads
  <2>2. exported' \in Seq(Line)
    BY <2>1, EmptySeq DEF Typed
  <2> QED BY <1>4, <2>2 DEF ExportReads, Typed, HistoryTells
<1>5. ASSUME NEW i \in 1..MaxRounds, Alteration(i)
      PROVE  Typed'
  <2>1. /\ Rewritten(i) /\ UNCHANGED <<export_vars, acked, merged>>
        /\ terminated' \in BOOLEAN /\ (~terminated' => file' # <<>>)
    BY <1>5, Alterations
  <2>2. Readable(file) /\ \A j \in DOMAIN file : ~BreaksAt(file, j)
    BY <2>1, Verdicts, VerdictSays DEF Rewritten, Typed, HistoryTells
  <2>3. file' \in Seq(Line) /\ damage' \in Nat /\ altered' = TRUE
    BY <2>1, <2>2, ChangeShows DEF Rewritten, Changed
  <2>4. ~merged'
    BY <2>1, <2>2 DEF Typed, HistoryTells
  <2> QED BY <2>1, <2>3, <2>4 DEF Typed, HistoryTells, export_vars
<1> QED BY <1>1, <1>2, <1>3, <1>4, <1>5 DEF LedgerNext

\* The types and the chain, over any commands.
LEMMA FileStays == CliSpec => [](Typed /\ ChainInv)
<1>1. CliInit => Typed /\ ChainInv
  <2> SUFFICES ASSUME CliInit PROVE Typed /\ ChainInv
    OBVIOUS
  <2>1. Init
    BY DEF CliInit
  <2>2. Typed
    BY <2>1, EmptySeq DEF Init, Typed, HistoryTells
  <2>3. file = <<>> /\ damage = 0
    BY <2>1 DEF Init
  <2> QED BY <2>2, <2>3 DEF ChainInv
<1>2. ASSUME Typed, ChainInv, [CliNext]_cli_vars
      PROVE  Typed' /\ ChainInv'
  <2>1. CASE LedgerNext
    BY <1>2, <2>1, TypedStep, ChainStep
  <2>2. CASE UNCHANGED vars
    BY <1>2, <2>2 DEF vars, export_vars, Typed, HistoryTells, ChainInv, FirstBreak
  <2> QED BY <1>2, <2>1, <2>2, CommandSteps
<1> QED BY <1>1, <1>2, PTL DEF CliSpec

\* writer.ts and verify.ts: a file in which no change shows and that no write tore
\* verifies to its last entry, however many processes wrote it.
THEOREM UndamagedChainVerifies == CliSpec => []UndamagedVerifies
<1>1. Typed /\ ChainInv => UndamagedVerifies
  BY Verdicts, VerdictSays DEF UndamagedVerifies, Torn, Typed
<1> QED BY <1>1, FileStays, PTL

\* build-plan.md:90: whatever line is replaced, inserted or removed, verification fails
\* at that place, or right after it if what is there now could have been appended there,
\* and goes on failing there whatever is appended after; unless the change is to the
\* end of the file and leaves it a chain.
THEOREM DamageStaysLocated == CliSpec => []DamageIsLocated
<1>1. Typed /\ ChainInv => DamageIsLocated
  BY Verdicts, VerdictSays DEF DamageIsLocated, Typed
<1> QED BY <1>1, FileStays, PTL

-----------------------------------------------------------------------------
(* What was acknowledged                                                   *)

\* A line that is not the one the next write goes onto is still there after it.
LEMMA WriteKeepsLines ==
  ASSUME Typed, NEW line \in Line, file' = Written(line),
         NEW i \in DOMAIN file, terminated \/ i < Len(file)
  PROVE  /\ i \in DOMAIN file' /\ file'[i] = file[i]
         /\ terminated => i < Len(file')
         /\ Len(file') >= Len(file)
<1>1. file \in Seq(Line) /\ Len(file) \in Nat /\ file' \in Seq(Line)
  BY WrittenLines DEF Typed
<1>2. CASE terminated
  BY <1>1, <1>2, WrittenLines
<1>3. CASE ~terminated
  BY <1>1, <1>3, WrittenLines
<1> QED BY <1>2, <1>3

\* As long as every entry that was safe is, at most the one that was missing is missing.
LEMMA SafeStays ==
  ASSUME AckInv, damage = 0, altered' = altered, DOMAIN acked \subseteq DOMAIN acked',
         \A k \in DOMAIN acked : acked'[k] = acked[k],
         \A k \in DOMAIN acked : Safe(k) => Safe(k)',
         \A k \in DOMAIN acked' : k \in DOMAIN acked \/ Safe(k)'
  PROVE  AckInv'
BY DEF AckInv

LEMMA AckStep ==
  ASSUME Typed, ChainInv, AckInv, LedgerNext
  PROVE  AckInv'
<1> SUFFICES ASSUME damage' = 0
             PROVE  AckInv'
  BY DEF AckInv
<1>0. file \in Seq(Line) /\ Len(file) \in Nat /\ acked \in Seq(Entry)
  BY DEF Typed
<1>1. ASSUME NEW round \in Nat, NEW data \in Data, AppendEntry(round, data)
      PROVE  AckInv'
  <2> DEFINE line == EntryLine(LastHash, round, data)
  <2>1. /\ ~merged /\ damage = 0 /\ altered' = altered /\ terminated' = TRUE
        /\ file' = Written(line) /\ acked' = Append(acked, line)
        /\ merged' = (merged \/ ~terminated)
    BY <1>1 DEF AppendEntry, Typed, HistoryTells
  <2>2. line \in Entry /\ line \in Line
    BY <1>1, WritesEntry DEF AppendEntry, Line
  <2> HIDE DEF line
  <2>3. /\ Len(acked') = Len(acked) + 1 /\ DOMAIN acked' = 1..Len(acked)+1
        /\ acked'[Len(acked) + 1] = line /\ \A k \in DOMAIN acked : acked'[k] = acked[k]
        /\ DOMAIN acked = 1..Len(acked)
    BY <1>0, <2>1, <2>2
  <2>4. ASSUME NEW k \in DOMAIN acked, Safe(k)
        PROVE  Safe(k)'
    <3>1. PICK i \in DOMAIN file : file[i] = acked[k] /\ (terminated \/ i < Len(file))
      BY <2>1, <2>4 DEF Safe
    <3> QED BY <2>1, <2>2, <2>3, <3>1, WriteKeepsLines DEF Safe
  <2>5. ASSUME NEW k, k = Len(acked) + 1
        PROVE  Safe(k)'
    <3>1. CASE terminated
      <4>1. Len(file) + 1 \in DOMAIN file' /\ file'[Len(file) + 1] = line
        BY <1>0, <2>1, <2>2, <3>1, WrittenLines DEF Typed
      <4> QED BY <2>1, <2>3, <2>5, <4>1 DEF Safe
    <3>2. CASE ~terminated
      BY <2>1, <2>3, <2>5, <3>2 DEF Safe
    <3> QED BY <3>1, <3>2
  <2>6. \A k \in DOMAIN acked' : k \in DOMAIN acked \/ k = Len(acked) + 1
    BY <1>0, <2>3
  <2>7. DOMAIN acked \subseteq DOMAIN acked'
    BY <1>0, <2>3
  <2> QED BY <2>1, <2>3, <2>4, <2>5, <2>6, <2>7, SafeStays
<1>2. ASSUME NEW round \in Nat, NEW data \in Data, NEW how \in TornWrites,
             AppendTorn(round, data, how)
      PROVE  AckInv'
  <2>1. /\ ~merged /\ damage = 0 /\ acked' = acked /\ altered' = altered /\ merged' = merged
        /\ terminated' = FALSE
    BY <1>2 DEF AppendTorn, Typed, HistoryTells
  <2>2. PICK line \in Line : file' = Written(line)
    <3>1. EntryLine(LastHash, round, data) \in Line /\ Junk \in Line
      BY <1>2, WritesEntry DEF AppendTorn, Line
    <3> QED BY <1>2, <3>1 DEF AppendTorn
  <2>3. ASSUME NEW k \in DOMAIN acked, Safe(k)
        PROVE  Safe(k)'
    <3>1. PICK i \in DOMAIN file : file[i] = acked[k] /\ (terminated \/ i < Len(file))
      BY <2>1, <2>3 DEF Safe
    <3>2. /\ i \in DOMAIN file' /\ file'[i] = file[i] /\ (terminated => i < Len(file'))
          /\ Len(file') >= Len(file)
      BY <2>2, <3>1, WriteKeepsLines
    <3>3. file' \in Seq(Line) /\ Len(file') \in Nat /\ i \in Nat
      <4>1. file' \in Seq(Line)
        BY <2>2, WrittenLines
      <4> QED BY <1>0, <4>1
    <3>4. i < Len(file')
      BY <1>0, <3>1, <3>2, <3>3
    <3> QED BY <2>1, <3>1, <3>2, <3>4 DEF Safe
  <2> QED BY <2>1, <2>3, SafeStays
<1>3. CASE ExportVerifies \/ ExportReads
  BY <1>3 DEF ExportVerifies, ExportReads, AckInv, Safe
<1>4. ASSUME NEW i \in 1..MaxRounds, Alteration(i)
      PROVE  AckInv'
  <2>1. /\ Rewritten(i) /\ acked' = acked /\ (terminated => terminated')
        /\ ~terminated' => Len(file') >= Len(file) \/ i < Len(file)
    BY <1>4, Alterations
  <2>2. /\ Readable(file) /\ damage = 0 /\ ~altered /\ ~merged /\ altered' = TRUE
        /\ \A j \in DOMAIN file : ~BreaksAt(file, j)
    BY <2>1, Verdicts, VerdictSays DEF Rewritten, Typed, HistoryTells
  <2>3. /\ i >= Len(file) /\ i \in Nat /\ \A j \in 1..i-1 : file'[j] = file[j]
        /\ i <= Len(file') + 1 /\ file' \in Seq(Line) /\ Len(file') \in Nat
    BY <2>1, <2>2, ChangeShows DEF Rewritten, Changed
  <2>4. ASSUME NEW k \in DOMAIN acked, ~Safe(k)'
        PROVE  acked[k] = file[Len(file)]
    <3>1. PICK j \in DOMAIN file : file[j] = acked[k] /\ (terminated \/ j < Len(file))
      BY <2>2, <2>4 DEF AckInv, Safe
    <3>2. ASSUME j < Len(file)
          PROVE  FALSE
      <4>1. j \in 1..i-1 /\ j \in DOMAIN file'
        BY <1>0, <2>3, <3>1, <3>2
      <4>2. file'[j] = acked'[k]
        BY <2>1, <2>3, <3>1, <4>1
      <4>3. terminated' \/ j < Len(file')
        BY <1>0, <2>1, <2>3, <3>1, <3>2
      <4> QED BY <2>4, <4>1, <4>2, <4>3 DEF Safe
    <3> QED BY <1>0, <3>1, <3>2
  <2> QED BY <2>1, <2>2, <2>4 DEF AckInv
<1> QED BY <1>1, <1>2, <1>3, <1>4 DEF LedgerNext

\* writer.ts: an entry append returned stays in the file, whole, except the last one if
\* it went onto a line without its newline; and a change that shows nowhere costs one
\* entry at most.
THEOREM AcknowledgedEntriesStay == CliSpec => []AcknowledgedStay
<1>1. CliInit => AckInv
  BY DEF CliInit, Init, AckInv
<1>2. ASSUME Typed, ChainInv, AckInv, [CliNext]_cli_vars
      PROVE  AckInv'
  <2>1. CASE UNCHANGED vars
    BY <1>2, <2>1 DEF vars, AckInv, Safe
  <2> QED BY <1>2, <2>1, AckStep, CommandSteps
<1>3. AckInv => AcknowledgedStay
  BY DEF AckInv, AcknowledgedStay, Safe, Kept
<1> QED BY <1>1, <1>2, <1>3, FileStays, PTL DEF CliSpec

-----------------------------------------------------------------------------
(* The file implements an attested log                                     *)

LEMMA ExportStep ==
  ASSUME Typed, ChainInv, ExportInv, LedgerNext
  PROVE  ExportInv'
<1>0. file \in Seq(Line) /\ damage \in Nat /\ Len(file) \in Nat
  BY DEF Typed
<1>1. CASE ExportVerifies
  BY <1>0, <1>1, Verdicts, VerdictSays DEF ExportVerifies, ExportInv
<1>2. CASE ExportReads
  BY <1>2 DEF ExportReads, ExportInv
<1>3. ASSUME UNCHANGED <<exporting, verification, damage>>, NEW line \in Line, Writes(line)
      PROVE  ExportInv'
  <2>1. Len(file') \in Nat /\ Len(file') >= Len(file)
    BY <1>3, WriteKeepsChain
  <2>2. verification.at \in Nat
    BY DEF Typed
  <2> QED BY <1>0, <1>3, <2>1, <2>2 DEF ExportInv
<1>4. ASSUME NEW round \in Nat, NEW data \in Data, AppendEntry(round, data)
      PROVE  ExportInv'
  <2>1. EntryLine(LastHash, round, data) \in Line
    BY <1>4, WritesEntry DEF AppendEntry, Line
  <2> QED BY <1>3, <1>4, <2>1 DEF AppendEntry, Writes, export_vars
<1>5. ASSUME NEW round \in Nat, NEW data \in Data, NEW how \in TornWrites,
             AppendTorn(round, data, how)
      PROVE  ExportInv'
  <2>1. EntryLine(LastHash, round, data) \in Line /\ Junk \in Line
    BY <1>5, WritesEntry DEF AppendTorn, Line
  <2> QED BY <1>3, <1>5, <2>1 DEF AppendTorn, Writes, export_vars
<1>6. ASSUME NEW i \in 1..MaxRounds, Alteration(i)
      PROVE  ExportInv'
  BY <1>6 DEF Alteration, ReplaceLine, InsertLine, RemoveLine, Alterable, Alters, ExportInv, export_vars
<1> QED BY <1>1, <1>2, <1>4, <1>5, <1>6 DEF LedgerNext

\* The part of a file that is attested.
AttestedPart(lines) ==
  SubSeq(lines, 1, IF VerifyLedger(lines).ok THEN Len(lines) ELSE VerifyLedger(lines).at - 1)

\* Of a whole chain that is all of it, of a broken one what comes before the break.
LEMMA PartOf ==
  ASSUME NEW lines \in Seq(Line)
  PROVE  /\ VerifyLedger(lines).ok => AttestedPart(lines) = lines
         /\ \A n \in 1..Len(lines) : VerifyLedger(lines) = [ok |-> FALSE, at |-> n] =>
              AttestedPart(lines) = SubSeq(lines, 1, n - 1)
BY DEF AttestedPart

\* Two files with the same first lines have the same part up to there.
LEMMA SameStart ==
  ASSUME NEW a \in Seq(Line), NEW b \in Seq(Line), NEW n \in Nat,
         n <= Len(a), n <= Len(b), \A i \in 1..n : a[i] = b[i]
  PROVE  SubSeq(a, 1, n) = SubSeq(b, 1, n)
<1>1. Len(SubSeq(a, 1, n)) = n /\ Len(SubSeq(b, 1, n)) = n
  OBVIOUS
<1>2. \A i \in 1..n : SubSeq(a, 1, n)[i] = a[i] /\ SubSeq(b, 1, n)[i] = b[i]
  OBVIOUS
<1>3. SubSeq(a, 1, n) \in Seq(Line) /\ SubSeq(b, 1, n) \in Seq(Line)
  OBVIOUS
<1> QED BY <1>1, <1>2, <1>3, SeqEqual

\* The start of a sequence is a prefix of it.
LEMMA StartIsPrefix ==
  ASSUME NEW a \in Seq(Line), NEW n \in 0..Len(a)
  PROVE  Attested!IsPrefix(SubSeq(a, 1, n), a)
<1>1. Len(SubSeq(a, 1, n)) = n /\ SubSeq(a, 1, n) \in Seq(Line)
  OBVIOUS
<1>2. SubSeq(SubSeq(a, 1, n), 1, n) = SubSeq(a, 1, n)
  BY <1>1
<1> QED BY <1>1, <1>2 DEF Attested!IsPrefix

\* A write adds one attested entry, breaks the chain for good, or is lost on a
\* broken one.
LEMMA WriteImplements ==
  ASSUME Typed, ChainInv, Typed', ChainInv', NEW line \in Line, Writes(line),
         exported' = exported, altered' = altered
  PROVE  Attested!Write \/ Attested!Break \/ UNCHANGED Attested!log_vars
<1> DEFINE n == Len(file)
<1>1. /\ file \in Seq(Line) /\ file' \in Seq(Line) /\ n \in Nat /\ Readable(file)
      /\ damage \in Nat /\ damage' = damage
  BY DEF Typed, Writes
<1>2. /\ Verdict(file, damage) /\ Verdict(file', damage)
  <2>1. damage = 0 =>
          \A i \in DOMAIN file' : ~BreaksAt(file', i) \/ (i = Len(file') /\ file'[i] = Junk)
    BY <1>1 DEF ChainInv
  <2>2. damage # 0 => FirstBreak(file', damage)
    BY <1>1 DEF ChainInv, FirstBreak
  <2> QED BY <1>1, <2>1, <2>2, VerdictOf, Verdicts
<1>3. /\ terminated => Len(file') = n + 1 /\ (\A i \in 1..n : file'[i] = file[i])
      /\ ~terminated => Len(file') = n /\ (\A i \in 1..n-1 : file'[i] = file[i])
  BY WrittenLines DEF Writes
<1>4. CASE damage # 0
  <2>1. damage \in 1..n /\ damage \in 1..Len(file')
    BY <1>1, <1>3, <1>4 DEF ChainInv, FirstBreak
  <2>2. /\ VerifyLedger(file) = [ok |-> FALSE, at |-> damage]
        /\ VerifyLedger(file') = [ok |-> FALSE, at |-> damage]
    BY <1>1, <1>2, <1>4, VerdictSays
  <2>3. SubSeq(file, 1, damage - 1) = SubSeq(file', 1, damage - 1)
    <3> DEFINE m == damage - 1
    <3>1. m \in Nat /\ m <= Len(file) /\ m <= Len(file') /\ \A i \in 1..m : file[i] = file'[i]
      BY <1>1, <1>3, <2>1
    <3> HIDE DEF m
    <3>2. SubSeq(file, 1, m) = SubSeq(file', 1, m)
      BY <1>1, <3>1, SameStart
    <3> QED BY <3>2 DEF m
  <2>4. AttestedPart(file') = AttestedPart(file)
    BY <1>1, <2>1, <2>2, <2>3, PartOf
  <2> QED BY <2>2, <2>4 DEF Attested!log_vars, AttestedPart
<1>5. CASE damage = 0
  <2>1. VerifyLedger(file).ok = TRUE /\ AttestedPart(file) = file
    BY <1>1, <1>2, <1>5, VerdictSays, PartOf
  <2>2. CASE VerifyLedger(file').ok
    <3>1. AttestedPart(file') = file'
      BY <1>1, <2>2, PartOf
    <3>2. terminated
      <4>1. Readable(file')
        BY <1>1, <1>2, <2>2, VerdictSays
      <4>2. ~terminated => n \in DOMAIN file' /\ file'[n] = Junk
        BY <1>1, <1>3, WriteKeepsChain DEF Typed
      <4> QED BY <4>1, <4>2 DEF Readable, Junk
    <3>3. file = SubSeq(file', 1, n) /\ SubSeq(file, 1, n) = SubSeq(file', 1, n)
      <4>1. SubSeq(file, 1, n) = file
        BY <1>1
      <4>2. SubSeq(file, 1, n) = SubSeq(file', 1, n)
        BY <1>1, <1>3, <3>2, SameStart
      <4> QED BY <4>1, <4>2
    <3>4. Attested!IsPrefix(file, file') /\ file # file' /\ Len(file') = n + 1
      BY <1>1, <1>3, <3>2, <3>3 DEF Attested!IsPrefix
    <3> QED BY <2>1, <2>2, <3>1, <3>4 DEF Attested!Write, Attested!IsStrictPrefix, AttestedPart
  <2>3. CASE ~VerifyLedger(file').ok
    <3>1. VerifyLedger(file') = [ok |-> FALSE, at |-> Len(file')] /\ file' # <<>>
      BY <1>1, <1>2, <1>5, <2>3, VerdictSays
    <3> DEFINE m == Len(file') - 1
    <3>2. AttestedPart(file') = SubSeq(file', 1, m)
      BY <1>1, <3>1, PartOf
    <3>3. m \in Nat /\ m <= n /\ m <= Len(file') /\ \A i \in 1..m : file'[i] = file[i]
      BY <1>1, <1>3, <3>1 DEF Typed
    <3> HIDE DEF m
    <3>4. SubSeq(file', 1, m) = SubSeq(file, 1, m) /\ m \in 0..Len(file)
      BY <1>1, <3>3, SameStart
    <3>5. Attested!IsPrefix(AttestedPart(file'), file)
      BY <1>1, <3>2, <3>4, StartIsPrefix
    <3>6. VerifyLedger(file').ok = FALSE
      BY <3>1
    <3> QED BY <2>1, <3>5, <3>6 DEF Attested!Break, AttestedPart
  <2> QED BY <2>2, <2>3
<1> QED BY <1>1, <1>4, <1>5

\* A change to a whole chain is one that may be made to an attested log.
LEMMA ChangeImplements ==
  ASSUME Typed, ChainInv, Typed', ChainInv', NEW i \in Nat \ {0}, Rewritten(i),
         exported' = exported
  PROVE  Attested!Meddle
<1>1. /\ file \in Seq(Line) /\ file' \in Seq(Line) /\ Readable(file)
      /\ Len(file) \in Nat /\ Len(file') \in Nat
      /\ ~altered /\ altered' = TRUE /\ damage = 0 /\ damage' = ShowsAt(file', i)
      /\ i <= Len(file) + 1 /\ i <= Len(file') + 1 /\ Len(file') <= Len(file) + 1
      /\ \A j \in 1..i-1 : file'[j] = file[j]
  BY DEF Typed, HistoryTells, Rewritten, Changed
<1>2. VerifyLedger(file).ok = TRUE /\ AttestedPart(file) = file
      /\ \A j \in DOMAIN file : ~BreaksAt(file, j)
  BY <1>1, Verdicts, VerdictSays, PartOf
<1> DEFINE m == i - 1
<1>3. m \in Nat /\ m <= Len(file) /\ m <= Len(file') /\ \A j \in 1..m : file'[j] = file[j]
  BY <1>1
<1>4. PICK part \in Seq(Line) :
        /\ part = AttestedPart(file') /\ Len(part) \in {m, m + 1}
        /\ SubSeq(part, 1, m) = SubSeq(file, 1, m)
        /\ VerifyLedger(file').ok \in BOOLEAN
        /\ VerifyLedger(file').ok => m + 1 >= Len(file)
  <2>1. CASE ShowsAt(file', i) # 0
    <3>1. FirstBreak(file', ShowsAt(file', i)) /\ ShowsAt(file', i) \in {i, i + 1}
      BY <1>1, <1>2, <2>1, ChangeShows DEF Rewritten, ShowsAt
    <3> DEFINE at == ShowsAt(file', i)
    <3>2. VerifyLedger(file') = [ok |-> FALSE, at |-> at] /\ at \in 1..Len(file')
      BY <1>1, <3>1, BrokenFails DEF FirstBreak
    <3> DEFINE n == at - 1
    <3>3. AttestedPart(file') = SubSeq(file', 1, n)
      BY <1>1, <3>2, PartOf
    <3>4. n \in {m, m + 1} /\ n \in Nat /\ n <= Len(file') /\ m <= n
      BY <1>3, <3>1, <3>2
    <3> HIDE DEF n, m
    <3>5. SubSeq(file', 1, n) \in Seq(Line) /\ Len(SubSeq(file', 1, n)) = n
          /\ \A j \in 1..n : SubSeq(file', 1, n)[j] = file'[j]
      <4> HIDE DEF Line
      <4> QED BY <1>1, <3>4
    <3>6. SubSeq(SubSeq(file', 1, n), 1, m) = SubSeq(file, 1, m)
      <4>1. \A j \in 1..m : SubSeq(file', 1, n)[j] = file[j]
        BY <1>3, <3>4, <3>5
      <4> QED BY <1>1, <1>3, <3>4, <3>5, <4>1, SameStart
    <3> QED BY <3>2, <3>3, <3>4, <3>5, <3>6
  <2>2. CASE ShowsAt(file', i) = 0
    <3>1. i >= Len(file') /\ i >= Len(file) /\ \A j \in DOMAIN file' : ~BreaksAt(file', j)
      BY <1>1, <1>2, <2>2, ChangeShows DEF Rewritten
    <3>2. VerifyLedger(file').ok = TRUE /\ AttestedPart(file') = file'
      BY <1>1, <3>1, WholeVerifies, PartOf
    <3>3. Len(file') \in {m, m + 1} /\ m + 1 >= Len(file)
      BY <1>1, <3>1
    <3> HIDE DEF m
    <3>4. SubSeq(file', 1, m) = SubSeq(file, 1, m)
      BY <1>1, <1>3, SameStart
    <3> QED BY <1>1, <3>2, <3>3, <3>4
  <2> QED BY <2>1, <2>2
<1>5. m \in 0..Len(file)
  BY <1>1, <1>3
<1> HIDE DEF m
<1> QED BY <1>1, <1>2, <1>4, <1>5 DEF Attested!Meddle, AttestedPart

\* export.ts:16: the writer, the verifier and the export together keep an attested
\* log, whatever tears, damages, resumes and exports come between.
THEOREM AttestedLogIsImplemented == CliSpec => ImplementsAttestedLog
<1>1. CliInit => Attested!Init
  <2> SUFFICES ASSUME CliInit PROVE Attested!Init
    OBVIOUS
  <2>1. file = <<>> /\ exported = <<>> /\ altered = FALSE
    BY DEF CliInit, Init
  <2>2. VerifyLedger(file) = [ok |-> TRUE, at |-> 0]
    BY <2>1, WholeVerifies
  <2> QED BY <2>1, <2>2 DEF Attested!Init
<1>2. CliInit => ExportInv
  BY DEF CliInit, Init, ExportInv
<1>3. ASSUME Typed, ChainInv, ExportInv, [CliNext]_cli_vars
      PROVE  ExportInv'
  <2>1. CASE UNCHANGED vars
    BY <1>3, <2>1 DEF vars, export_vars, ExportInv
  <2> QED BY <1>3, <2>1, ExportStep, CommandSteps
<1>4. ASSUME Typed, ChainInv, Typed', ChainInv', ExportInv, [CliNext]_cli_vars
      PROVE  [Attested!Next]_Attested!log_vars
  <2>1. CASE UNCHANGED vars
    BY <2>1 DEF vars, export_vars, Attested!log_vars
  <2>2. ASSUME NEW round \in Nat, NEW data \in Data, AppendEntry(round, data)
        PROVE  Attested!Write \/ Attested!Break \/ UNCHANGED Attested!log_vars
    <3>1. EntryLine(LastHash, round, data) \in Line
      BY <1>4, <2>2, WritesEntry DEF AppendEntry, Line
    <3>2. Writes(EntryLine(LastHash, round, data)) /\ exported' = exported
      BY <2>2 DEF AppendEntry, Writes, export_vars
    <3> QED BY <1>4, <2>2, <3>1, <3>2, WriteImplements DEF AppendEntry
  <2>3. ASSUME NEW round \in Nat, NEW data \in Data, NEW how \in TornWrites,
               AppendTorn(round, data, how)
        PROVE  Attested!Write \/ Attested!Break \/ UNCHANGED Attested!log_vars
    <3>1. EntryLine(LastHash, round, data) \in Line /\ Junk \in Line
      BY <1>4, <2>3, WritesEntry DEF AppendTorn, Line
    <3>2. /\ Writes(Junk) \/ Writes(EntryLine(LastHash, round, data))
          /\ exported' = exported
      BY <2>3 DEF AppendTorn, Writes, export_vars
    <3> QED BY <1>4, <2>3, <3>1, <3>2, WriteImplements DEF AppendTorn
  <2>4. CASE ExportVerifies
    BY <2>4 DEF ExportVerifies, Attested!Read, Attested!Next
  <2>5. CASE ExportReads
    <3>1. CASE verification.ok /\ Readable(file)
      <4>1. damage = 0 /\ file \in Seq(Line) /\ damage \in Nat
        BY <1>4, <2>5, <3>1 DEF ExportReads, ExportInv, Typed
      <4>2. VerifyLedger(file).ok /\ AttestedPart(file) = file
        BY <1>4, <3>1, <4>1, Verdicts, VerdictSays, PartOf
      <4>3. exported' = file /\ file' = file /\ altered' = altered
        BY <2>5, <3>1 DEF ExportReads
      <4> QED BY <4>2, <4>3 DEF Attested!Read, Attested!Next, AttestedPart
    <3>2. CASE ~(verification.ok /\ Readable(file))
      BY <2>5, <3>2 DEF ExportReads, Attested!Read, Attested!Next
    <3> QED BY <3>1, <3>2
  <2>6. ASSUME NEW i \in 1..MaxRounds, Alteration(i)
        PROVE  Attested!Meddle
    <3>1. i \in Nat \ {0}
      BY LedgerAssumption
    <3>2. Rewritten(i) /\ exported' = exported
      BY <1>4, <2>6, Alterations DEF export_vars
    <3> QED BY <1>4, <3>1, <3>2, ChangeImplements
  <2>7. LedgerNext \/ UNCHANGED vars
    BY <1>4, CommandSteps
  <2> QED BY <2>1, <2>2, <2>3, <2>4, <2>5, <2>6, <2>7 DEF LedgerNext, Attested!Next
<1> QED BY <1>1, <1>2, <1>3, <1>4, FileStays, PTL DEF CliSpec, ImplementsAttestedLog, Attested!Spec

-----------------------------------------------------------------------------
(* The commands                                                            *)

Phases == {"none", "start", "round", "appended"} \cup Reasons

RunTyped ==
  /\ process \in [at : Phases, resume : BOOLEAN, round : Nat, left : Data]
  /\ log \in Seq(Entry) /\ before \in Nat /\ cut \in Nat

\* The last entry is the file's last line too, as long as no other change and no merge
\* came between.
LastLine ==
  (~altered /\ ~merged) => Readable(file) /\ file # <<>> /\ Last(file) = Last(acked)

\* From its entry on, a round's process knows what the entry says and that the file
\* ends with it; a process that will exit 0 has told the log as well.
ProcessInv ==
  /\ before <= Len(acked)
  /\ process.at \in {"appended", "clean"} =>
       Len(acked) > before /\ Last(acked).data = process.left /\ LastLine
  /\ process.at = "clean" => process.left = "clean" /\ Last(log) = Last(acked)
  /\ code = "0" =>
       /\ process.at = "none"
       /\ Len(acked) > before /\ Last(acked).data = "clean" /\ Last(log) = Last(acked)
       /\ LastLine

\* An export that exits 0 hands back what it verified, or a longer chain.
HandedInv ==
  export_code = "0" =>
    /\ VerifyLedger(exported) = [ok |-> TRUE, at |-> Len(exported)]
    /\ Len(exported) >= verification.at

\* The process, its log and its counters keep their types.
LEMMA RunTypedStep ==
  ASSUME Typed, RunTyped, ProcessInv, [CliNext]_cli_vars
  PROVE  RunTyped'
<1>0. /\ process \in [at : Phases, resume : BOOLEAN, round : Nat, left : Data]
      /\ log \in Seq(Entry) /\ before \in Nat /\ cut \in Nat /\ acked \in Seq(Entry)
  BY DEF RunTyped, Typed
<1>1. NoProcess \in [at : Phases, resume : BOOLEAN, round : Nat, left : Data]
  BY CliAssumption DEF NoProcess, Phases
<1>2. ASSUME NEW with, Exits(with), UNCHANGED <<log, before>>
      PROVE  RunTyped'
  BY <1>0, <1>1, <1>2 DEF Exits, RunTyped
<1>3. ASSUME NEW resume \in BOOLEAN, Launch(resume)
      PROVE  RunTyped'
  <2>1. Len(acked) \in Nat
    BY <1>0
  <2>2. log' = log /\ before' = Len(acked) /\ cut' \in Nat
    BY <1>0, <1>3 DEF Launch, Exits
  <2>3. process' \in [at : Phases, resume : BOOLEAN, round : Nat, left : Data]
    <3>1. process' = NoProcess \/ process' = [NoProcess EXCEPT !.at = "start", !.resume = resume]
      BY <1>3 DEF Launch, Exits
    <3> QED BY <1>1, <3>1 DEF Phases
  <2> QED BY <1>0, <2>1, <2>2, <2>3 DEF RunTyped
<1>4. CASE Start
  <2>1. process.resume => ExpectedRound \in Nat
    <3>1. CASE file = <<>>
      BY <3>1 DEF ExpectedRound
    <3>2. CASE file # <<>> /\ process.resume
      BY <1>4, <3>2, WritesEntry, LedgerAssumption DEF Start
    <3> QED BY <3>1, <3>2
  <2>2. PICK first \in Nat :
          process' = [process EXCEPT
            !.at = IF first > IterationCap THEN "iteration-cap" ELSE "round", !.round = first]
    BY <1>4, <2>1 DEF Start
  <2> QED BY <1>0, <1>4, <2>2 DEF Start, RunTyped, Phases, Reasons
<1>5. ASSUME NEW data \in Data, AppendRound(data)
      PROVE  RunTyped'
  BY <1>0, <1>5 DEF AppendRound, RunTyped, Phases
<1>6. ASSUME NEW data \in Data, NEW how, NEW with, AppendRoundTorn(data, how, with)
      PROVE  RunTyped'
  BY <1>2, <1>6 DEF AppendRoundTorn
<1>7. CASE Report
  <2>1. AfterRound \in Phases
    BY <1>0, CliAssumption DEF AfterRound, Phases, Reasons
  <2>2. process' \in [at : Phases, resume : BOOLEAN, round : Nat, left : Data]
    <3>1. process.round + 1 \in Nat /\ process.round \in Nat
      BY <1>0
    <3>2. PICK round \in Nat : process' = [process EXCEPT !.at = AfterRound, !.round = round]
      BY <1>7, <3>1 DEF Report
    <3> QED BY <1>0, <2>1, <3>2
  <2>3. log' \in Seq(Entry)
    <3>1. Last(acked) \in Entry
      BY <1>0, <1>7 DEF Report, ProcessInv, Last
    <3> QED BY <1>0, <1>7, <3>1 DEF Report
  <2> QED BY <1>0, <1>7, <2>2, <2>3 DEF Report, RunTyped
<1>8. CASE Finish \/ Throws \/ Killed
  BY <1>2, <1>8 DEF Finish, Throws, Killed
<1>9. CASE UNCHANGED run_vars
  BY <1>0, <1>9 DEF run_vars, RunTyped
<1> QED BY <1>3, <1>4, <1>5, <1>6, <1>7, <1>8, <1>9
        DEF CliNext, cli_vars, ExportCommandVerifies, ExportCommandReads, DamageLine

\* What a round's append leaves: the entry at the end of what is acknowledged, and
\* at the end of the file unless it went onto a torn line.
LEMMA AppendLeaves ==
  ASSUME Typed, NEW round \in Nat, NEW data \in Data, AppendEntry(round, data)
  PROVE  /\ Len(acked') = Len(acked) + 1 /\ Last(acked').data = data
         /\ \A i \in 1..Len(acked) : acked'[i] = acked[i]
         /\ LastLine'
<1> DEFINE line == EntryLine(LastHash, round, data)
<1>0. file \in Seq(Line) /\ acked \in Seq(Entry) /\ Readable(file)
  BY DEF Typed, AppendEntry
<1>1. line \in Entry /\ line \in Line /\ line.data = data /\ line.kind = "entry"
  <2>1. line \in Entry
    BY WritesEntry DEF AppendEntry
  <2>2. line.data = data /\ line.kind = "entry"
    BY DEF EntryLine
  <2> QED BY <2>1, <2>2 DEF Line
<1>2. file' = Written(line) /\ acked' = Append(acked, line) /\ (merged' = (merged \/ ~terminated))
  BY DEF AppendEntry
<1> HIDE DEF line
<1>3. /\ Len(acked') = Len(acked) + 1 /\ Last(acked') = line
      /\ \A i \in 1..Len(acked) : acked'[i] = acked[i]
  BY <1>0, <1>1, <1>2 DEF Last
<1>4. ASSUME ~merged'
      PROVE  Readable(file') /\ file' # <<>> /\ Last(file') = line
  <2>1. file' = Append(file, line)
    BY <1>2, <1>4 DEF Written
  <2>2. /\ Len(file') = Len(file) + 1 /\ file'[Len(file) + 1] = line
        /\ \A i \in 1..Len(file) : file'[i] = file[i]
    BY <1>0, <1>1, <2>1
  <2>3. \A i \in DOMAIN file' : i \in DOMAIN file \/ i = Len(file) + 1
    BY <1>0, <1>1, <2>1
  <2> QED BY <1>0, <1>1, <2>2, <2>3, <2>1 DEF Readable, Last
<1> QED BY <1>1, <1>3, <1>4 DEF LastLine

\* The same file and entries end the same way, and an altered file owes nothing.
LEMMA LastLineStays ==
  ASSUME LastLine,
         UNCHANGED <<file, acked, altered, merged>> \/ altered'
  PROVE  LastLine'
BY DEF LastLine

LEMMA ProcessStep ==
  ASSUME Typed, RunTyped, ProcessInv, [CliNext]_cli_vars
  PROVE  ProcessInv'
<1>0. /\ process \in [at : Phases, resume : BOOLEAN, round : Nat, left : Data]
      /\ log \in Seq(Entry) /\ before \in Nat /\ acked \in Seq(Entry) /\ Len(acked) \in Nat
  BY DEF RunTyped, Typed
<1>1. ASSUME NEW with, with # "0", Exits(with), before' <= Len(acked')
      PROVE  ProcessInv'
  BY <1>1 DEF Exits, NoProcess, ProcessInv
<1>2. ASSUME NEW resume \in BOOLEAN, Launch(resume)
      PROVE  ProcessInv'
  <2>1. before' <= Len(acked')
    BY <1>0, <1>2 DEF Launch, vars
  <2>2. CASE Exits("2")
    BY <1>1, <2>1, <2>2
  <2>3. CASE code' = "none" /\ process' = [NoProcess EXCEPT !.at = "start", !.resume = resume]
    <3>1. process'.at = "start"
      BY <2>3 DEF NoProcess
    <3> QED BY <2>1, <2>3, <3>1 DEF ProcessInv
  <2> QED BY <1>2, <2>2, <2>3 DEF Launch
<1>3. CASE Start
  <2>1. process'.at \in {"iteration-cap", "round"} /\ code' = code /\ code # "0"
    BY <1>0, <1>3 DEF Start, ProcessInv
  <2>2. before' = before /\ acked' = acked
    BY <1>3 DEF Start, vars
  <2> QED BY <2>1, <2>2 DEF ProcessInv
<1>4. ASSUME NEW data \in Data, AppendRound(data)
      PROVE  ProcessInv'
  <2>1. /\ Len(acked') = Len(acked) + 1 /\ Last(acked').data = data /\ LastLine'
    BY <1>0, <1>4, AppendLeaves DEF AppendRound
  <2>2. process'.at = "appended" /\ process'.left = data
    BY <1>0, <1>4 DEF AppendRound
  <2>3. code' = code /\ code # "0" /\ before' = before
    BY <1>4 DEF AppendRound, ProcessInv
  <2> QED BY <1>0, <2>1, <2>2, <2>3 DEF ProcessInv
<1>5. ASSUME NEW data \in Data, NEW how \in TornWrites, NEW with \in {"2", "none"},
             AppendRoundTorn(data, how, with)
      PROVE  ProcessInv'
  <2>1. before' = before /\ acked' = acked /\ Exits(with) /\ with # "0"
    BY <1>5 DEF AppendRoundTorn, AppendTorn
  <2> QED BY <1>1, <2>1 DEF ProcessInv
<1>6. CASE Report
  <2>1. /\ process.at = "appended" /\ log' = Append(log, Last(acked))
        /\ process'.at = AfterRound /\ process'.left = process.left
        /\ UNCHANGED <<file, acked, altered, merged>> /\ code' = code /\ before' = before
    BY <1>0, <1>6 DEF Report, vars
  <2>2. /\ Len(acked) > before /\ Last(acked).data = process.left /\ LastLine /\ code # "0"
    BY <2>1 DEF ProcessInv
  <2>3. Last(log') = Last(acked)
    <3>1. Last(acked) \in Entry
      BY <1>0, <2>2 DEF Last
    <3> QED BY <1>0, <2>1, <3>1 DEF Last
  <2>4. AfterRound # "appended" /\ (AfterRound = "clean" => process.left = "clean")
    BY <1>0, CliAssumption DEF AfterRound
  <2>5. LastLine'
    BY <2>1, <2>2, LastLineStays
  <2> QED BY <2>1, <2>2, <2>3, <2>4, <2>5 DEF ProcessInv
<1>7. CASE Finish
  <2>1. /\ UNCHANGED <<file, acked, altered, merged>> /\ log' = log /\ before' = before
        /\ process.at \in Reasons /\ Exits(EXIT_BY_REASON[process.at])
    BY <1>7 DEF Finish, vars
  <2>2. CASE process.at = "clean"
    <3>1. LastLine'
      BY <2>1, <2>2, LastLineStays DEF ProcessInv
    <3> QED BY <2>1, <2>2, <3>1 DEF Exits, NoProcess, ProcessInv
  <2>3. CASE process.at # "clean"
    <3>1. EXIT_BY_REASON[process.at] # "0"
      BY <2>1, <2>3 DEF EXIT_BY_REASON
    <3> QED BY <1>1, <2>1, <3>1 DEF ProcessInv
  <2> QED BY <2>2, <2>3
<1>8. CASE Throws \/ Killed
  <2>1. before' = before /\ acked' = acked /\ (Exits("2") \/ Exits("none"))
    BY <1>8 DEF Throws, Killed, vars
  <2> QED BY <1>1, <2>1 DEF ProcessInv
<1>9. ASSUME UNCHANGED run_vars, acked' = acked,
             UNCHANGED <<file, acked, altered, merged>> \/ altered'
      PROVE  ProcessInv'
  BY <1>9, LastLineStays DEF run_vars, ProcessInv
<1>10. CASE UNCHANGED cli_vars
  BY <1>9, <1>10 DEF cli_vars, vars
<1>11. CASE ExportCommandVerifies \/ ExportCommandReads
  BY <1>9, <1>11 DEF ExportCommandVerifies, ExportCommandReads, ExportVerifies, ExportReads
<1>12. ASSUME NEW i \in 1..MaxRounds, DamageLine(i)
       PROVE  ProcessInv'
  <2>1. altered' = TRUE /\ acked' = acked
    BY <1>12 DEF DamageLine, ReplaceLine, InsertLine, RemoveLine, Alters
  <2>2. UNCHANGED run_vars
    BY <1>12 DEF DamageLine
  <2> QED BY <1>9, <2>1, <2>2
<1> QED BY <1>2, <1>3, <1>4, <1>5, <1>6, <1>7, <1>8, <1>10, <1>11, <1>12 DEF CliNext

LEMMA HandedStep ==
  ASSUME Typed, ChainInv, ExportInv, HandedInv, [CliNext]_cli_vars
  PROVE  HandedInv'
<1>1. CASE UNCHANGED <<export_vars, export_code>>
  BY <1>1 DEF export_vars, HandedInv
<1>2. CASE ExportCommandVerifies
  BY <1>2 DEF ExportCommandVerifies, HandedInv
<1>3. CASE ExportCommandReads
  <2> SUFFICES ASSUME export_code' = "0"
               PROVE  /\ VerifyLedger(exported') = [ok |-> TRUE, at |-> Len(exported')]
                      /\ Len(exported') >= verification'.at
    BY DEF HandedInv
  <2>1. exporting /\ verification.ok /\ Readable(file)
    BY <1>3 DEF ExportCommandReads, ExportReads, Typed
  <2>2. exported' = file /\ verification' = verification
    BY <1>3, <2>1 DEF ExportCommandReads, ExportReads
  <2>3. damage = 0 /\ verification.at <= Len(file)
    BY <2>1 DEF ExportInv
  <2>4. VerifyLedger(file) = [ok |-> TRUE, at |-> Len(file)]
    BY <2>1, <2>3, Verdicts, VerdictSays DEF Typed
  <2>5. Len(file) >= verification.at
    BY <2>3 DEF Typed
  <2> QED BY <2>2, <2>4, <2>5
<1>4. (\E data \in Data : AppendRound(data)) => UNCHANGED <<export_vars, export_code>>
  BY DEF AppendRound, AppendEntry
<1>5. (\E data \in Data, how \in TornWrites, with \in {"2", "none"} :
         AppendRoundTorn(data, how, with)) => UNCHANGED <<export_vars, export_code>>
  BY DEF AppendRoundTorn, AppendTorn
<1>6. (\E i \in 1..MaxRounds : DamageLine(i)) => UNCHANGED <<export_vars, export_code>>
  BY DEF DamageLine, ReplaceLine, InsertLine, RemoveLine, Alters
<1>7. (\E resume \in BOOLEAN : Launch(resume)) \/ Start \/ Report \/ Finish \/ Throws \/ Killed
        => UNCHANGED <<export_vars, export_code>>
  BY DEF Launch, Start, Report, Finish, Throws, Killed, vars
<1>8. UNCHANGED cli_vars => UNCHANGED <<export_vars, export_code>>
  BY DEF cli_vars, vars
<1> QED BY <1>1, <1>2, <1>3, <1>4, <1>5, <1>6, <1>7, <1>8 DEF CliNext

\* The commands' own invariant, over any launches.
LEMMA RunStays == CliSpec => [](RunTyped /\ ProcessInv)
<1>1. CliInit => RunTyped /\ ProcessInv
  <2> SUFFICES ASSUME CliInit PROVE RunTyped /\ ProcessInv
    OBVIOUS
  <2>1. /\ process = NoProcess /\ log = <<>> /\ before = 0 /\ cut = 0
        /\ code = "none" /\ acked = <<>>
    BY DEF CliInit, Init
  <2>2. RunTyped
    BY <2>1, EmptySeq, CliAssumption DEF RunTyped, NoProcess, Phases
  <2> QED BY <2>1, <2>2 DEF ProcessInv, NoProcess
<1>2. ASSUME Typed, RunTyped, ProcessInv, [CliNext]_cli_vars
      PROVE  RunTyped' /\ ProcessInv'
  BY <1>2, RunTypedStep, ProcessStep
<1> QED BY <1>1, <1>2, FileStays, PTL DEF CliSpec

\* Between an export's reads the file is the one that was verified, or longer.
LEMMA ExportStays == CliSpec => [](ExportInv /\ HandedInv)
<1>1. CliInit => ExportInv /\ HandedInv
  BY DEF CliInit, Init, ExportInv, HandedInv
<1>2. ASSUME Typed, ChainInv, ExportInv, HandedInv, [CliNext]_cli_vars
      PROVE  ExportInv' /\ HandedInv'
  <2>1. CASE UNCHANGED vars
    BY <1>2, <2>1, HandedStep DEF vars, export_vars, ExportInv
  <2> QED BY <1>2, <2>1, ExportStep, HandedStep, CommandSteps
<1> QED BY <1>1, <1>2, FileStays, PTL DEF CliSpec

\* cli.ts:38: a run that exits 0 left a clean last entry that the log tells of, and
\* unless something else changed the file a ledger that ends with it and verifies, or
\* one that fails at its last line alone, if the entry went onto an unterminated one;
\* an export that exits 0 hands back a chain that verifies, whatever ran, tore, was
\* killed or was changed before.
THEOREM ExitZeroStaysEarned == CliSpec => []ExitZeroIsEarned
<1>1. ASSUME Typed, ChainInv, ProcessInv, HandedInv
      PROVE  ExitZeroIsEarned
  <2>0. damage \in Nat /\ file \in Seq(Line) /\ (~altered => damage = 0)
    BY <1>1 DEF Typed, HistoryTells
  <2>1. ASSUME code = "0", ~altered, ~merged
        PROVE  VerifyLedger(file) = [ok |-> TRUE, at |-> Len(file)] /\ Last(file) = Last(acked)
    <3>1. Readable(file) /\ Last(file) = Last(acked)
      BY <1>1, <2>1 DEF ProcessInv, LastLine
    <3> QED BY <1>1, <2>0, <2>1, <3>1, Verdicts, VerdictSays
  <2>2. ASSUME ~altered, merged
        PROVE  VerifyLedger(file) = [ok |-> FALSE, at |-> Len(file)]
    <3>1. ~Readable(file)
      BY <1>1, <2>2 DEF Typed, HistoryTells
    <3> QED BY <1>1, <2>0, <2>2, <3>1, Verdicts, VerdictSays
  <2>3. code = "0" =>
          Len(acked) > before /\ Last(acked).data = "clean" /\ Last(log) = Last(acked)
    BY <1>1 DEF ProcessInv
  <2> QED BY <1>1, <2>1, <2>2, <2>3 DEF HandedInv, ExitZeroIsEarned
<1> QED BY <1>1, FileStays, RunStays, ExportStays, PTL

-----------------------------------------------------------------------------
(* The log                                                                 *)

\* The log tells of entries, in their order: not of the one that is about to be told.
Told == IF process.at = "appended" THEN Len(acked) - 1 ELSE Len(acked)

Tells(told) ==
  \E at \in [DOMAIN log -> 1..told] :
    /\ \A i, j \in DOMAIN log : i < j => at[i] < at[j]
    /\ \A i \in DOMAIN log : log[i] = acked[at[i]]

LogInv ==
  /\ process.at = "appended" => acked # <<>>
  /\ Tells(Told)
  /\ Told - Len(log) <= cut

\* Entries are added to those the log tells of, and one is left untold at most for a
\* process that is cut off.
LEMMA LogKeeps ==
  ASSUME Typed, RunTyped, LogInv, Typed', RunTyped', log' = log,
         process'.at = "appended" => acked' # <<>>,
         Told <= Told', Told' - Told <= cut' - cut,
         \A i \in 1..Told : acked'[i] = acked[i]
  PROVE  LogInv'
<1>0. Told \in Nat /\ Told' \in Nat /\ Len(log) \in Nat /\ cut \in Nat /\ cut' \in Nat
  BY DEF Typed, RunTyped, Told, LogInv
<1>1. PICK at \in [DOMAIN log -> 1..Told] :
        /\ \A i, j \in DOMAIN log : i < j => at[i] < at[j]
        /\ \A i \in DOMAIN log : log[i] = acked[at[i]]
  BY DEF LogInv, Tells
<1>2. at \in [DOMAIN log -> 1..Told'] /\ \A i \in DOMAIN log : log[i] = acked'[at[i]]
  BY <1>0, <1>1
<1>3. Tells(Told)'
  BY <1>1, <1>2 DEF Tells
<1>4. Told' - Len(log') <= cut'
  <2>1. Told - Len(log) <= cut /\ Len(log') = Len(log)
    BY DEF LogInv
  <2>2. \A a, b, c, d, n \in Nat : b - a <= d - c /\ a - n <= c => b - n <= d
    OBVIOUS
  <2> QED BY <1>0, <2>1, <2>2
<1> QED BY <1>3, <1>4 DEF LogInv

\* The event of the last entry comes after those of the entries before it.
LEMMA LogTells ==
  ASSUME Typed, RunTyped, LogInv, Typed', RunTyped', Report
  PROVE  LogInv'
<1> DEFINE told == Len(acked)
           n == Len(log)
<1>0. /\ told \in Nat \ {0} /\ n \in Nat /\ cut \in Nat /\ log \in Seq(Entry)
      /\ acked' = acked /\ cut' = cut /\ Last(acked) = acked[told] /\ Told = told - 1
      /\ acked[told] \in Entry
  BY DEF Typed, RunTyped, LogInv, Report, vars, Last, Told
<1>1. log' = Append(log, acked[told])
  BY <1>0 DEF Report
<1>2. /\ Len(log') = n + 1 /\ DOMAIN log = 1..n /\ DOMAIN log' = 1..n+1
      /\ log'[n + 1] = acked[told] /\ \A i \in 1..n : log'[i] = log[i]
  BY <1>0, <1>1
<1>3. process'.at = AfterRound /\ AfterRound # "appended"
  BY CliAssumption DEF Report, AfterRound, RunTyped
<1>4. Told' = told
  BY <1>0, <1>3 DEF Told
<1>5. PICK at \in [1..n -> 1..told-1] :
        /\ \A i, j \in 1..n : i < j => at[i] < at[j]
        /\ \A i \in 1..n : log[i] = acked[at[i]]
  BY <1>0, <1>2 DEF LogInv, Tells
<1> DEFINE more == [i \in 1..n+1 |-> IF i = n + 1 THEN told ELSE at[i]]
<1> HIDE DEF told, n
<1>6. \A i \in 1..n+1 : i = n + 1 \/ i \in 1..n
  BY <1>0
<1>7. more \in [1..n+1 -> 1..told]
  BY <1>0, <1>5, <1>6
<1>8. ASSUME NEW i \in 1..n+1, NEW j \in 1..n+1, i < j
      PROVE  more[i] < more[j]
  <2>1. i \in 1..n
    BY <1>0, <1>8
  <2>2. at[i] \in 1..told-1 /\ more[i] = at[i]
    BY <1>0, <1>5, <2>1
  <2>3. CASE j = n + 1
    BY <1>0, <2>2, <2>3
  <2>4. CASE j \in 1..n
    BY <1>0, <1>5, <1>8, <2>1, <2>2, <2>4
  <2> QED BY <1>6, <2>3, <2>4
<1>9. \A i \in 1..n+1 : log'[i] = acked[more[i]]
  BY <1>0, <1>2, <1>5, <1>6
<1>10. Tells(Told)'
  BY <1>0, <1>2, <1>4, <1>7, <1>8, <1>9 DEF Tells
<1>11. Told' - Len(log') <= cut'
  BY <1>0, <1>2, <1>4 DEF LogInv, n
<1> QED BY <1>0, <1>3, <1>10, <1>11 DEF LogInv

LEMMA LogStep ==
  ASSUME Typed, RunTyped, LogInv, Typed', RunTyped', [CliNext]_cli_vars
  PROVE  LogInv'
<1>0. /\ acked \in Seq(Entry) /\ Len(acked) \in Nat /\ cut \in Nat
      /\ process \in [at : Phases, resume : BOOLEAN, round : Nat, left : Data]
  BY DEF Typed, RunTyped
<1>1. ASSUME log' = log, acked' = acked, cut' \in Nat, cut' >= cut,
             process'.at # "appended", process.at = "appended" => cut' = cut + 1
      PROVE  LogInv'
  <2>1. Told' = Len(acked)
    BY <1>1 DEF Told
  <2>2. Told = (IF process.at = "appended" THEN Len(acked) - 1 ELSE Len(acked))
    BY DEF Told
  <2>3. Told <= Told' /\ Told' - Told <= cut' - cut
    <3>1. CASE process.at = "appended"
      BY <1>0, <1>1, <2>1, <2>2, <3>1
    <3>2. CASE process.at # "appended"
      <4>1. Told = Len(acked) /\ Told' = Len(acked)
        BY <2>1, <2>2, <3>2
      <4>2. \A t, c, d \in Nat : d >= c => t <= t /\ t - t <= d - c
        OBVIOUS
      <4> QED BY <1>0, <1>1, <4>1, <4>2
    <3> QED BY <3>1, <3>2
  <2> QED BY <1>1, <2>3, LogKeeps
<1>2. ASSUME NEW with \in {"0", "1", "2", "none"}, Exits(with), log' = log, acked' = acked,
             process.at = "appended" => with \in {"2", "none"}
      PROVE  LogInv'
  BY <1>0, <1>1, <1>2 DEF Exits, NoProcess
<1>3. ASSUME NEW resume \in BOOLEAN, Launch(resume)
      PROVE  LogInv'
  <2>1. log' = log /\ acked' = acked /\ process.at # "appended"
    BY <1>3 DEF Launch, Running, vars
  <2>2. CASE Exits("2")
    BY <1>2, <2>1, <2>2
  <2>3. CASE cut' = cut /\ process' = [NoProcess EXCEPT !.at = "start", !.resume = resume]
    <3>1. process'.at = "start"
      BY <2>3 DEF NoProcess
    <3> QED BY <1>0, <1>1, <2>1, <2>3, <3>1
  <2> QED BY <1>3, <2>2, <2>3 DEF Launch
<1>4. CASE Start
  <2>1. log' = log /\ acked' = acked /\ cut' = cut /\ process.at = "start"
        /\ process'.at # "appended"
    BY <1>0, <1>4 DEF Start, vars
  <2> QED BY <1>0, <1>1, <2>1
<1>5. ASSUME NEW data \in Data, AppendRound(data)
      PROVE  LogInv'
  <2>1. /\ Len(acked') = Len(acked) + 1 /\ \A i \in 1..Len(acked) : acked'[i] = acked[i]
    BY <1>5, <1>0, AppendLeaves DEF AppendRound
  <2>2. process.at = "round" /\ process'.at = "appended" /\ log' = log /\ cut' = cut
    BY <1>0, <1>5 DEF AppendRound
  <2>3. Told = Len(acked) /\ Told' = Len(acked) /\ acked' # <<>>
    BY <1>0, <2>1, <2>2 DEF Told
  <2> QED BY <1>0, <2>1, <2>2, <2>3, LogKeeps
<1>6. ASSUME NEW data \in Data, NEW how \in TornWrites, NEW with \in {"2", "none"},
             AppendRoundTorn(data, how, with)
      PROVE  LogInv'
  <2>1. Exits(with) /\ log' = log /\ acked' = acked
    BY <1>6 DEF AppendRoundTorn, AppendTorn
  <2> QED BY <1>2, <2>1
<1>7. CASE Report
  BY <1>7, LogTells
<1>8. CASE Finish
  <2>1. EXIT_BY_REASON[process.at] \in {"0", "1"} /\ process.at # "appended"
    BY <1>8 DEF Finish, EXIT_BY_REASON, Reasons
  <2> QED BY <1>2, <1>8, <2>1 DEF Finish, vars
<1>9. CASE Throws \/ Killed
  BY <1>2, <1>9 DEF Throws, Killed, vars
<1>10. ASSUME UNCHANGED run_vars, acked' = acked
       PROVE  LogInv'
  BY <1>10 DEF run_vars, LogInv, Told, Tells
<1>11. CASE UNCHANGED cli_vars
  BY <1>10, <1>11 DEF cli_vars, vars
<1>12. CASE ExportCommandVerifies \/ ExportCommandReads
  BY <1>10, <1>12 DEF ExportCommandVerifies, ExportCommandReads, ExportVerifies, ExportReads
<1>13. ASSUME NEW i \in 1..MaxRounds, DamageLine(i)
       PROVE  LogInv'
  <2>1. acked' = acked
    BY <1>13 DEF DamageLine, ReplaceLine, InsertLine, RemoveLine, Alters
  <2> QED BY <1>10, <1>13, <2>1 DEF DamageLine
<1> QED BY <1>3, <1>4, <1>5, <1>6, <1>7, <1>8, <1>9, <1>11, <1>12, <1>13 DEF CliNext

\* jsonl.ts:13: the log tells of entries of the ledger's history only, in their order,
\* and misses one at most for each process that was cut off.
THEOREM LogStaysBehindLedger == CliSpec => []LogFollowsLedger
<1>1. CliInit => LogInv
  <2> SUFFICES ASSUME CliInit PROVE LogInv
    OBVIOUS
  <2>1. process.at = "none" /\ log = <<>> /\ acked = <<>> /\ cut = 0
    BY DEF CliInit, Init, NoProcess
  <2>2. Tells(0)
    <3>1. DOMAIN log = {} /\ <<>> \in [{} -> 1..0]
      BY <2>1
    <3> QED BY <3>1 DEF Tells
  <2>3. Told = 0
    BY <2>1 DEF Told
  <2> QED BY <2>1, <2>2, <2>3 DEF LogInv
<1>2. ASSUME Typed, RunTyped, LogInv
      PROVE  LogFollowsLedger
  <2>0. Len(acked) \in Nat /\ Len(log) \in Nat /\ cut \in Nat
    BY <1>2 DEF Typed, RunTyped
  <2>1. \A i \in 1..Told : i \in DOMAIN acked
    BY <1>2, <2>0 DEF Told, Typed
  <2>2. \E at \in [DOMAIN log -> DOMAIN acked] :
          /\ \A i, j \in DOMAIN log : i < j => at[i] < at[j]
          /\ \A i \in DOMAIN log : log[i] = acked[at[i]]
    BY <1>2, <2>1 DEF LogInv, Tells
  <2>3. Len(acked) - Len(log) <= cut + (IF process.at = "appended" THEN 1 ELSE 0)
    BY <1>2, <2>0 DEF LogInv, Told
  <2> QED BY <2>2, <2>3 DEF LogFollowsLedger
<1>3. ASSUME Typed, RunTyped, LogInv, Typed', RunTyped', [CliNext]_cli_vars
      PROVE  LogInv'
  BY <1>3, LogStep
<1> QED BY <1>1, <1>2, <1>3, FileStays, RunStays, PTL DEF CliSpec
=============================================================================
