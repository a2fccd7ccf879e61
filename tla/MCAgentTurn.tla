----------------------------- MODULE MCAgentTurn -----------------------------
(***************************************************************************)
(* AgentTurn with a few turns, so that one can follow an abort that fired  *)
(* after another, and a queue that holds text and a stop at once.          *)
(***************************************************************************)
EXTENDS AgentTurn
=============================================================================
