--------------------------- MODULE MCAgentSession ---------------------------
(* Model values for checking AgentSession: see the configurations. *)
EXTENDS AgentSession
=============================================================================
