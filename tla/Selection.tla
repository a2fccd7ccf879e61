------------------------------ MODULE Selection ------------------------------
(***************************************************************************)
(* What a sequence has of a set: filter, as the parsers and the tap use    *)
(* it.  SelectSeq, with a set for its test: the library's is a RECURSIVE   *)
(* operator, and cannot be proved about.                                   *)
(***************************************************************************)
EXTENDS Naturals, SequencesExt

\* In its order.
Among(seq, S) ==
  LET upTo[n \in 0..Len(seq)] ==
        IF n = 0 THEN <<>>
        ELSE IF seq[n] \in S THEN Append(upTo[n - 1], seq[n]) ELSE upTo[n - 1]
  IN  upTo[Len(seq)]

=============================================================================
