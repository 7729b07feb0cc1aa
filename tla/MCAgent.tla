------------------------------- MODULE MCAgent -------------------------------
(* The agent with one orchestrator session id, used again after a restart. *)
EXTENDS Agent

CONSTANTS s1, s2
==============================================================================
