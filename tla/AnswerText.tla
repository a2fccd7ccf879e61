----------------------------- MODULE AnswerText -----------------------------
(***************************************************************************)
(* How the broker finds an agent's answer in what the agent said:          *)
(* parseAgentJson and jsonObjectsIn of src/src/broker/parse.ts, one action *)
(* per character of the text.                                              *)
(*                                                                         *)
(* Five characters are told apart.  "word" is prose that is no JSON.  The  *)
(* punctuation and the literals between an object's members are left out,  *)
(* so an object is braces around strings and objects.                      *)
(***************************************************************************)
EXTENDS Naturals, Sequences

CONSTANT MaxLength   \* bound: characters of the text

Char == {"{", "}", "quote", "backslash", "word"}

VARIABLES
  text,       \* what was read so far
  depth,      \* braces open outside strings
  start,      \* where the outermost open brace is
  inString, escaped,
  objects     \* the balanced regions so far, as pairs of first and last place

vars == <<text, depth, start, inString, escaped, objects>>

Init ==
  /\ text = <<>> /\ depth = 0 /\ start = 0
  /\ inString = FALSE /\ escaped = FALSE /\ objects = <<>>

Index == Len(text) + 1

Read(char) == Index <= MaxLength /\ text' = Append(text, char)

\* A backslash hides the next character; an unhidden quote ends the string.
ReadInString(char) ==
  /\ inString /\ Read(char)
  /\ escaped' = (~escaped /\ char = "backslash")
  /\ inString' = (escaped \/ char # "quote")
  /\ UNCHANGED <<depth, start, objects>>

\* A quote opens a string wherever it stands, in an object or in prose.
ReadQuote ==
  /\ ~inString /\ Read("quote")
  /\ inString' = TRUE
  /\ UNCHANGED <<depth, start, escaped, objects>>

ReadOpen ==
  /\ ~inString /\ Read("{")
  /\ start' = IF depth = 0 THEN Index ELSE start
  /\ depth' = depth + 1
  /\ UNCHANGED <<inString, escaped, objects>>

\* The brace that brings the depth to zero ends a region; one too many is prose.
ReadClose ==
  /\ ~inString /\ Read("}")
  /\ depth' = IF depth > 0 THEN depth - 1 ELSE 0
  /\ objects' = IF depth = 1 THEN Append(objects, <<start, Index>>) ELSE objects
  /\ UNCHANGED <<start, inString, escaped>>

ReadOther(char) ==
  /\ ~inString /\ char \in {"backslash", "word"} /\ Read(char)
  /\ UNCHANGED <<depth, start, inString, escaped, objects>>

Next ==
  \/ \E char \in Char : ReadInString(char) \/ ReadOther(char)
  \/ ReadQuote \/ ReadOpen \/ ReadClose

Spec == Init /\ [][Next]_vars

-----------------------------------------------------------------------------
(* JSON, by its grammar and not by the scan above                          *)

\* The places from i to j hold one string: its quotes, and nothing between them
\* that ends it sooner.
IsString(i, j) ==
  LET Hidden[k \in i..j] == k > i + 1 /\ text[k - 1] = "backslash" /\ ~Hidden[k - 1]
  IN  /\ i < j /\ text[i] = "quote" /\ text[j] = "quote" /\ ~Hidden[j]
      /\ \A k \in i+1 .. j-1 : text[k] = "quote" => Hidden[k]

\* An object is a brace, strings and objects, and a brace.
IsObject(first, last) ==
  LET Members[i \in first..last, j \in first - 1 .. last] ==
        \/ j < i
        \/ \E k \in i..j :
             /\ \/ IsString(i, k)
                \/ text[i] = "{" /\ text[k] = "}" /\ i < k /\ Members[i + 1, k - 1]
             /\ k = j \/ Members[k + 1, j]
  IN  /\ first < last /\ text[first] = "{" /\ text[last] = "}"
      /\ Members[first + 1, last - 1]

Parsed(region) == IsObject(region[1], region[2])

\* What parseAgentJson goes on with: the last region that JSON.parse takes, and
\* <<>> for a turn that has none, which is an error.
Answer ==
  LET readable == SelectSeq(objects, Parsed)
  IN  IF readable = <<>> THEN <<>> ELSE readable[Len(readable)]

\* parse.ts:9-14: "the answer is the last well formed JSON object in it", and "an
\* earlier object is never substituted for a final one that does not" satisfy the
\* schema: when a turn's text ends in a JSON object, no object that ended before it is
\* taken for the answer, whatever the schema says of either.
NoEarlierAnswer ==
  \A i \in 1..Len(text) :
    IsObject(i, Len(text)) => Answer = <<>> \/ Answer[2] = Len(text)

=============================================================================
