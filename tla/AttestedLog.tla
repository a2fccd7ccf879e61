----------------------------- MODULE AttestedLog -----------------------------
(***************************************************************************)
(* What the ledger is for, in the abstract: a log that only grows at its   *)
(* end, until something breaks it.  From then on what came before the      *)
(* break is all there will ever be, and nobody is handed any of it.        *)
(* Something other than the writer may meddle with it, once: what does not *)
(* break the log by that is a change to its last entry.                    *)
(***************************************************************************)
EXTENDS Naturals, SequencesExt

VARIABLES
  entries,   \* what is attested
  intact,    \* nothing has broken it
  meddled,   \* something other than the writer has changed it
  handed     \* what the last reader got

log_vars == <<entries, intact, meddled, handed>>

Init == entries = <<>> /\ intact = TRUE /\ meddled = FALSE /\ handed = <<>>

Write ==
  /\ intact /\ intact' = TRUE
  /\ IsStrictPrefix(entries, entries') /\ Len(entries') = Len(entries) + 1
  /\ UNCHANGED <<meddled, handed>>

Break ==
  /\ intact /\ intact' = FALSE
  /\ IsPrefix(entries', entries)
  /\ UNCHANGED <<meddled, handed>>

Read ==
  /\ handed' = <<>> \/ (intact /\ handed' = entries)
  /\ UNCHANGED <<entries, intact, meddled>>

\* The first n entries stay, and one at most comes after them.
Meddle ==
  /\ intact /\ ~meddled /\ meddled' = TRUE /\ intact' \in BOOLEAN
  /\ \E n \in 0..Len(entries) :
       /\ SubSeq(entries', 1, n) = SubSeq(entries, 1, n)
       /\ Len(entries') \in {n, n + 1}
       /\ intact' => n + 1 >= Len(entries)
  /\ UNCHANGED handed

Next == Write \/ Break \/ Meddle \/ Read

Spec == Init /\ [][Next]_log_vars
=============================================================================
