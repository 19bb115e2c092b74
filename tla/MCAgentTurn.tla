----------------------------- MODULE MCAgentTurn -----------------------------
(* Instances of AgentTurn for TLC.                                         *)
EXTENDS AgentTurn

(* Every combination of the two options.                                   *)
AllBuilds == SUBSET {"isolated", "agent-guard"}
=============================================================================
