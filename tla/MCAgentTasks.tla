---------------------------- MODULE MCAgentTasks ----------------------------
(* A small instance of AgentTasks: two tasks, two poll slots.              *)
EXTENDS AgentTasks

\* The younger task has the higher priority, so it overtakes.
MCPriority == [t \in Tasks |-> t]

=============================================================================
