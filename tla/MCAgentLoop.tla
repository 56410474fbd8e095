---------------------------- MODULE MCAgentLoop ----------------------------
(* AgentLoop for TLC.  The configurations give the constants their values. *)
EXTENDS AgentLoop

=============================================================================
