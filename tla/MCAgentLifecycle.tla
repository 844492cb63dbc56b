-------------------------- MODULE MCAgentLifecycle --------------------------
(* A small instance of AgentLifecycle.                                     *)
EXTENDS AgentLifecycle

\* The bound on Pids holds up no start.
StartsHavePids ==
    (\E c \in Calls : call[c].pc = "starting" /\ tracked = NoProcess)
    \/ (\E w \in watch : HasExited(w) /\ ExitState(w) = "restarts" /\ record.state # "errored")
    \/ (recovery.pc = "copied" /\ tracked = NoProcess)
    => \E p \in Pids : Fresh(p)
=============================================================================
