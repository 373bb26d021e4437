---------------------------- MODULE MCAgentQuery ----------------------------
(* Model values for checking AgentQuery: two plain tools, a guarded one and *)
(* a name that is not registered.                                           *)
EXTENDS AgentQuery
==============================================================================
