------------------------------ MODULE MCLedger ------------------------------
(***************************************************************************)
(* Cli over a ledger of up to three lines: enough for a changed line to    *)
(* have lines before and after it and a later append.                      *)
(***************************************************************************)
EXTENDS Cli
=============================================================================
