------------------------------ MODULE MCBroker ------------------------------
(* Broker for TLC: severities are low (1) and high (3) around a bar of 2. *)
EXTENDS BrokerRefinement

CONSTANTS c1, l1, l2, h1

\* The second lead is reported below the bar.
MCDetectorSeverity == [f \in Crashes \cup Leads |-> IF f = l2 THEN 1 ELSE 3]

=============================================================================
