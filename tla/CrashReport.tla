----------------------------- MODULE CrashReport -----------------------------
(***************************************************************************)
(* What a crash is told apart by: the report parsers of                    *)
(* src/src/detection/crash-report.ts and src/src/detection/jazzer-js.ts.   *)
(*                                                                         *)
(* What an engine prints is a sequence of lines.  A line names the failure *)
(* (one of the engine's Shapes, with the kind it names, or NoKind if no    *)
(* kind can be made of it), is a frame of a stack (its number, function,   *)
(* and whether it is the reporting runtime's own), or is any other text.   *)
(***************************************************************************)
EXTENDS Selection

NoKind == "no kind"
NoReport == <<>>   \* a report nobody can read has no signature

SIGNATURE_FRAMES == 3

Engines == {"libfuzzer", "jazzer.js"}

\* The lines that name a failure, the ones an engine is believed first, first.
Shapes ==
  [kind \in Engines |-> IF kind = "libfuzzer" THEN <<"sanitizer", "libfuzzer", "summary">>
                          ELSE <<"libfuzzer", "uncaught", "reported">>]

Says(shape, kind) == [line |-> shape, kind |-> kind]
Frame(at, function) == [line |-> "frame", at |-> at, function |-> function, runtime |-> FALSE]
RuntimeFrame(at, function) == [Frame(at, function) EXCEPT !.runtime = TRUE]
Text == [line |-> "text"]

IsFrame(line) == line.line = "frame"

CrashKind(engine, stderr) ==
  LET Of(shape) == {i \in DOMAIN stderr : stderr[i].line = shape}
      found == {n \in DOMAIN Shapes[engine] : Of(Shapes[engine][n]) # {}}
  IN  IF found = {} THEN NoKind ELSE stderr[Min(Of(Shapes[engine][Min(found)]))].kind

\* The part of a sequence from the first of some places to before the next.
FromTo(seq, starts, ends) ==
  IF starts = {} THEN <<>>
  ELSE LET first == Min(starts)
       IN  SubSeq(seq, first, Min({e \in ends : e > first} \cup {Len(seq) + 1}) - 1)

Frames(lines) == Among(lines, {line \in ToSet(lines) : IsFrame(line)})

\* Mutant: the stacks that follow are read too.
ParseFrames_EveryStack(engine, stderr) == Frames(stderr)

\* The first stack.  A sanitizer numbers its frames, and another stack starts
\* at #0 again; V8 prints them in a row.
ParseFrames(engine, stderr) ==
  LET frames == {i \in DOMAIN stderr : IsFrame(stderr[i])}
      zeros == {i \in frames : stderr[i].at = 0}
  IN  IF engine = "libfuzzer" THEN Frames(FromTo(stderr, zeros, zeros))
      ELSE FromTo(stderr, frames, DOMAIN stderr \ frames)

\* crashReportOf: the kind, and the names of the top frames that are the target's.
SignatureOf(kind, stack) ==
  LET app == Among(stack, {frame \in ToSet(stack) : ~frame.runtime})
      frames == IF app # <<>> THEN app ELSE stack
      top == SubSeq(frames, 1, Min({SIGNATURE_FRAMES, Len(frames)}))
  IN  <<kind>> \o [i \in DOMAIN top |-> top[i].function]

ParseReport(engine, stderr) ==
  LET kind == CrashKind(engine, stderr)
  IN  IF kind = NoKind THEN NoReport ELSE SignatureOf(kind, ParseFrames(engine, stderr))

-----------------------------------------------------------------------------
(* What engines print of a failure, in terms of the lines there are and    *)
(* not of how they are read                                                *)

\* Its kind is on the first line of its shape, and the engine is believed for no
\* other line more.
NamesKind(engine, stderr, kind) ==
  \E n \in DOMAIN Shapes[engine], i \in DOMAIN stderr :
    /\ stderr[i] = Says(Shapes[engine][n], kind)
    /\ \A j \in DOMAIN stderr :
         /\ j < i => stderr[j].line # Shapes[engine][n]
         /\ \A m \in DOMAIN Shapes[engine] : m < n => stderr[j].line # Shapes[engine][m]

\* Another stack starts with a frame numbered 0, or after another line.
AnotherFrom(engine, stderr, place) ==
  IF engine = "libfuzzer"
  THEN \A i \in place .. Len(stderr) :
         IsFrame(stderr[i]) => \E j \in place..i : IsFrame(stderr[j]) /\ stderr[j].at = 0
  ELSE place > Len(stderr) \/ ~IsFrame(stderr[place])

\* Its stack has the first frames there are, and others may follow; frames that
\* are printed before it would be read for it.
ShowsStack(engine, stderr, stack) ==
  \/ stack = <<>> /\ \A i \in DOMAIN stderr : ~IsFrame(stderr[i])
  \/ \E first \in DOMAIN stderr :
       LET last == first + Len(stack) - 1
       IN  /\ stack # <<>> /\ last <= Len(stderr) /\ stack = SubSeq(stderr, first, last)
           /\ \A i \in DOMAIN stack :
                IsFrame(stack[i]) /\ (engine = "libfuzzer" => (stack[i].at = 0 <=> i = 1))
           /\ \A i \in 1 .. first - 1 : ~IsFrame(stderr[i])
           /\ AnotherFrom(engine, stderr, last + 1)

\* The failure is told plainly: nothing that reads like it comes before it.
Tells(engine, stderr, failure) ==
  /\ stderr \in Seq(ToSet(stderr))
  /\ NamesKind(engine, stderr, failure.kind)
  /\ ShowsStack(engine, stderr, failure.stack)

=============================================================================
