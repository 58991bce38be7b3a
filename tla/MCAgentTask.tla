---------------------------- MODULE MCAgentTask -----------------------------
(* Instances of AgentTask for TLC. *)
EXTENDS AgentTask, TLC

CONSTANTS t1, j1, j2

AllCallers == Tasks \cup Jobs \cup Embeds
=============================================================================
