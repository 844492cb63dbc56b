--------------------------- MODULE SerialExecutor ---------------------------
(***************************************************************************)
(* What an Agent's task pipeline promises: a serial executor with run      *)
(* tickets.  A task may be run only against a ticket; a ticket is issued   *)
(* when the task is submitted, when something resumes it, and when the     *)
(* boot sweep re-queues it; every run uses one up; and at most one task is *)
(* being executed at any time.  Starting a run is the only step that turns *)
(* a ticket into an execution, so no interleaving of pollers, inbound      *)
(* replies, timeout sweeps and restarts may run a task it was not asked to *)
(* run.                                                                    *)
(***************************************************************************)
EXTENDS Naturals

CONSTANT Tasks

VARIABLES
    tickets,    \* [Tasks -> Nat], runs each task is still owed
    executing   \* the set of tasks whose run is in progress

vars == <<tickets, executing>>

Init ==
    /\ tickets = [t \in Tasks |-> 0]
    /\ executing = {}

\* A submission, a resume or a re-queue entitles a task to one more run.
Grant(t) ==
    /\ tickets' = [tickets EXCEPT ![t] = @ + 1]
    /\ UNCHANGED executing

\* A run begins: nothing else is executing and a ticket pays for it.
Start(t) ==
    /\ executing = {}
    /\ tickets[t] > 0
    /\ tickets' = [tickets EXCEPT ![t] = @ - 1]
    /\ executing' = {t}

\* The run in progress ends, or the process that ran it does.
Stop ==
    /\ executing # {}
    /\ executing' = {}
    /\ UNCHANGED tickets

Next ==
    \/ \E t \in Tasks : Grant(t) \/ Start(t)
    \/ Stop

Spec == Init /\ [][Next]_vars

=============================================================================
