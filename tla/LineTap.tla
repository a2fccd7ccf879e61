-------------------------------- MODULE LineTap --------------------------------
(***************************************************************************)
(* The line splitter of the traffic tap: lineSplitter of                   *)
(* src/src/transport/tap.ts, one per direction of an agent's connection.   *)
(*                                                                         *)
(* It is given a stream in chunks that may end anywhere, also between the  *)
(* bytes of one character.  A message is a line of one character m of two  *)
(* bytes, <<1, m>> and <<2, m>>: enough for a chunk to end in a character, *)
(* before a newline and after it.  White space and newlines are bytes of   *)
(* their own.  A decoded character is its last byte.                       *)
(***************************************************************************)
EXTENDS Selection

NL == <<0>>
WS == <<3>>
Garbled == <<4>>   \* what the decoder makes of half a character

\* What an agent writes for a message, and for a line that says nothing.
Encode(m) == <<<<1, m>>, <<2, m>>, NL>>
BlankLine == <<WS, NL>>

\* half: the byte the decoder holds back.  buffered: the text since the newline.
EmptySplitter == [half |-> <<>>, buffered |-> <<>>]

Trim(text) ==
  LET solid == {i \in DOMAIN text : text[i] # WS}
  IN  IF solid = {} THEN <<>> ELSE SubSeq(text, Min(solid), Max(solid))

\* Blank lines are not handed on.
Handed(text) == IF Trim(text) = <<>> THEN <<>> ELSE <<Trim(text)>>

\* One byte more, in a splitter that also holds the lines of this chunk.
Feed(s, byte) ==
  CASE byte = NL    -> [s EXCEPT !.buffered = <<>>, !.lines = @ \o Handed(s.buffered)]
    [] byte = WS    -> [s EXCEPT !.buffered = Append(@, WS)]
    [] byte[1] = 1  -> [s EXCEPT !.half = <<byte>>]
    [] OTHER        -> [s EXCEPT !.half = <<>>,
                          !.buffered = Append(@, IF s.half = <<>> THEN Garbled ELSE byte)]

\* The bytes of a chunk, fed one after the other.
Feeding(s, chunk) ==
  LET upTo[n \in 0..Len(chunk)] == IF n = 0 THEN s ELSE Feed(upTo[n - 1], chunk[n])
  IN  upTo[Len(chunk)]

\* Mutant: each chunk is decoded by itself.
Push_PerChunk(splitter, chunk) ==
  Feeding([half |-> <<>>, buffered |-> splitter.buffered, lines |-> <<>>], chunk)

\* push: the splitter after a chunk, with the lines the chunk completed.
Push(splitter, chunk) ==
  Feeding([half |-> splitter.half, buffered |-> splitter.buffered, lines |-> <<>>], chunk)

Rest(pushed) == [half |-> pushed.half, buffered |-> pushed.buffered]

\* flush: what the stream ended in the middle of.  The decoder is not flushed.
Flush(splitter) == Handed(splitter.buffered)

\* The messages of lines that hold one.
MessagesOf(lines) ==
  LET whole == Among(lines, {line \in ToSet(lines) : Len(line) = 1 /\ line[1][1] = 2})
  IN  [i \in DOMAIN whole |-> whole[i][1][2]]

-----------------------------------------------------------------------------
(* The reference: the lines of a whole stream, with no chunks and no state *)

\* A stream without white space and without what characters begin with.
Solid(bytes) == Among(bytes, {byte \in ToSet(bytes) : byte[1] \in {0, 2}})

\* Where the lines of a text end, and the first begins.
Ends(text) == <<0>> \o Among([i \in DOMAIN text |-> i], {i \in DOMAIN text : text[i] = NL})

\* The text between them.
Cut(text) ==
  [n \in 1..Len(Ends(text)) - 1 |-> SubSeq(text, Ends(text)[n] + 1, Ends(text)[n+1] - 1)]

LinesOf(bytes) ==
  LET cut == Cut(Solid(bytes)) IN Among(cut, ToSet(cut) \ {<<>>})

=============================================================================
