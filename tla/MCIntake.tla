------------------------------ MODULE MCIntake ------------------------------
(* Intake for TLC: a file of two words that are alike, two rules. *)
EXTENDS Intake

MCRuleSeverity == [r \in Rules |-> IF r = "rule a" THEN 1 ELSE 3]
MCSource == <<"x", "x">>
MCSignatureSeverity == [s \in Signatures |-> 3]
MCOpenIds == {<<"fuzz", "sig a">>}

=============================================================================
