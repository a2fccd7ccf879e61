----------------------------- MODULE RepairLoop -----------------------------
(***************************************************************************)
(* What a series of broker runs on one ledger promises, told without       *)
(* phases, turns or gates.  A run attests rounds; a round settles some of  *)
(* the findings it took up, may write others off as minor, and leaves the  *)
(* rest owed; what is owed is taken up again by every later round of the   *)
(* run; a run may call itself clean only in a round that settled all it    *)
(* took up; the cap bounds the rounds of all runs.                         *)
(***************************************************************************)
EXTENDS Naturals

CONSTANTS
  Finding, Cap,
  Lenient    \* whether a round may write a finding off

VARIABLES
  rounds,   \* rounds attested, over all runs
  taken,    \* findings the last round of this run took up
  owed,     \* those of them it neither settled nor wrote off
  phase     \* "running", or how the run ended

vars == <<rounds, taken, owed, phase>>

Init == rounds = 0 /\ taken = {} /\ owed = {} /\ phase = "running"

Attest(batch, settled, minor, next) ==
  /\ phase = "running" /\ rounds < Cap
  /\ owed \subseteq batch /\ settled \subseteq batch
  /\ minor \subseteq batch /\ (minor # {} => Lenient)
  /\ next = "clean" => settled = batch
  /\ rounds' = rounds + 1
  /\ taken' = batch
  /\ owed' = batch \ (settled \cup minor)
  /\ phase' = next

\* The cap, an abort, a throw or a crash.
Stop ==
  /\ phase = "running"
  /\ phase' = "stopped"
  /\ UNCHANGED <<rounds, taken, owed>>

\* A new run on the same ledger inherits the round count and no finding.
Launch ==
  /\ phase # "running"
  /\ phase' = "running" /\ taken' = {} /\ owed' = {}
  /\ UNCHANGED rounds

Next ==
  \/ \E batch \in SUBSET Finding :
       \E settled \in SUBSET batch : \E minor \in SUBSET batch :
         \E next \in {"running", "clean", "regressed"} :
           Attest(batch, settled, minor, next)
  \/ Stop
  \/ Launch

Spec == Init /\ [][Next]_vars
=============================================================================
