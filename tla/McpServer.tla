----------------------------- MODULE McpServer -----------------------------
(***************************************************************************)
(* One external MCP server of an Agent, as its restart manager keeps it    *)
(* running: the first launch, the callback of a connection that closes,    *)
(* the restart loop with its backoff and its notifications, and stop.      *)
(***************************************************************************)
EXTENDS Integers

CONSTANTS
    Children,     \* server processes that can exist at once
    ImportantAt,  \* NOTIFY_IMPORTANT_AT_FAILURES
    MaxFaults     \* bound: crashes, failed launches and failed notifications

None == 0

ASSUME McpAssumption ==
    /\ Children \subseteq Nat \ {None}
    /\ ImportantAt \in Nat \ {0, 1} /\ MaxFaults \in Nat

VARIABLES
    child,     \* [Children -> ChildStates]
    attached,  \* the processes whose close still calls the manager's onclose
    current,   \* currentHandle, or None
    failures,  \* consecutiveFailures
    stopped,
    start,     \* the progress of start()
    loop,      \* the progress of restartLoop(); "none": no restartPromise
    stop,      \* the progress of stop()
    started,   \* the process that start() launches or has launched, or None
    next,      \* the process that the loop launches, or None
    closing,   \* the process that stop() closes, or None
    told,      \* history: [Tiers -> notifications] of this row of failures
    unwritten, \* history: one of them could not be written
    early,     \* history: stop() was called while start() was launching
    faults     \* bound counter

handles == <<started, next, closing>>
vars == <<child, attached, current, failures, stopped, start, loop, stop, handles,
          told, unwritten, early, faults>>

\* "gone" as well: not launched yet.
ChildStates == {"gone", "launching", "live"}
Tiers == {"passive", "important"}
NothingTold == [t \in Tiers |-> 0]

Init ==
    /\ child = [c \in Children |-> "gone"] /\ attached = {} /\ current = None
    /\ failures = 0 /\ stopped = FALSE
    /\ start = "new" /\ loop = "none" /\ stop = "no"
    /\ started = None /\ next = None /\ closing = None
    /\ told = NothingTold /\ unwritten = FALSE /\ early = FALSE /\ faults = 0

Fault == faults < MaxFaults /\ faults' = faults + 1

Existing == {c \in Children : child[c] # "gone"}
Fresh(c) == c \notin Existing \cup attached \cup {current, started, next, closing}
Dies(c) == child' = [child EXCEPT ![c] = "gone"]

-----------------------------------------------------------------------------
(* start().                                                                *)

Start ==
    /\ start = "new" /\ stop = "no"
    /\ \E c \in Children :
          /\ Fresh(c) /\ started' = c
          /\ child' = [child EXCEPT ![c] = "launching"]
    /\ start' = "launching"
    /\ UNCHANGED <<attached, current, failures, stopped, loop, stop, next, closing,
                   told, unwritten, early, faults>>

\* The handle and its listener are in place in one go: nothing is awaited
\* between the last answer of the launch and them.
StartSucceeds ==
    /\ start = "launching" /\ start' = "done"
    /\ child' = [child EXCEPT ![started] = "live"]
    /\ current' = started /\ attached' = attached \cup {started}
    /\ started' = None
    /\ UNCHANGED <<failures, stopped, loop, stop, next, closing, told, unwritten,
                   early, faults>>

\* A launch that fails has closed what it began.  The Agent's start then
\* ends and stops all managers.
StartFails ==
    /\ start = "launching" /\ Fault
    /\ start' = "failed" /\ Dies(started) /\ started' = None
    /\ UNCHANGED <<attached, current, failures, stopped, loop, stop, next, closing,
                   told, unwritten, early>>

-----------------------------------------------------------------------------
(* A close, and the restart loop.                                          *)

Crash(c) ==
    /\ child[c] = "live" /\ Fault
    /\ Dies(c)
    /\ UNCHANGED <<attached, current, failures, stopped, start, loop, stop, handles,
                   told, unwritten, early>>

\* The top of the loop's body.
Round == loop' = "telling" /\ failures' = failures + 1

OnClose(c) ==
    /\ c \in attached /\ child[c] = "gone"
    /\ attached' = attached \ {c}
    /\ IF stopped
       THEN UNCHANGED <<current, loop, failures>>
       ELSE /\ current' = None
            /\ IF loop = "none" THEN Round ELSE UNCHANGED <<loop, failures>>
    /\ UNCHANGED <<child, stopped, start, stop, handles, told, unwritten, early, faults>>

\* MUTANT of TiersFor: the counter has to pass the threshold.
TiersForLate(n) == IF n = 1 THEN {"passive"} ELSE IF n = ImportantAt + 1 THEN {"important"} ELSE {}

\* notificationTierForAttempt.
TiersFor(n) == IF n = 1 THEN {"passive"} ELSE IF n = ImportantAt THEN {"important"} ELSE {}

\* A notification that cannot be written does not keep the loop.
Tell ==
    /\ loop = "telling" /\ loop' = "asleep"
    /\ \/ /\ told' = [t \in Tiers |-> told[t] + IF t \in TiersFor(failures) THEN 1 ELSE 0]
          /\ UNCHANGED <<unwritten, faults>>
       \/ /\ TiersFor(failures) # {} /\ Fault
          /\ unwritten' = TRUE /\ UNCHANGED told
    /\ UNCHANGED <<child, attached, current, failures, stopped, start, stop, handles,
                   early>>

\* The backoff is over.
Wake ==
    /\ loop = "asleep"
    /\ IF stopped
       THEN loop' = "none" /\ UNCHANGED <<child, next>>
       ELSE /\ loop' = "launching"
            /\ \E c \in Children :
                  /\ Fresh(c) /\ next' = c
                  /\ child' = [child EXCEPT ![c] = "launching"]
    /\ UNCHANGED <<attached, current, failures, stopped, start, stop, started, closing,
                   told, unwritten, early, faults>>

\* MUTANT of Unwanted: whether stop was called meanwhile is not looked at.
UnwantedNever == FALSE

Unwanted == stopped

\* MUTANT of Attached: only the first server's close is listened to.
AttachedFirst(c) == attached

Attached(c) == attached \cup {c}

\* MUTANT of AfterSuccess: the loop goes round again.
AfterSuccessGoesOn == "asleep"

AfterSuccess == "none"

Launched ==
    /\ loop = "launching"
    /\ child' = [child EXCEPT ![next] = "live"]
    /\ IF Unwanted
       THEN /\ loop' = "closing"
            /\ UNCHANGED <<attached, current, failures, next, told, unwritten>>
       ELSE /\ loop' = AfterSuccess /\ next' = None
            /\ current' = next /\ attached' = Attached(next)
            /\ failures' = 0 /\ told' = NothingTold /\ unwritten' = FALSE
    /\ UNCHANGED <<stopped, start, stop, started, closing, early, faults>>

\* The unwanted server is closed.
Closed ==
    /\ loop = "closing" /\ loop' = "none"
    /\ Dies(next) /\ next' = None
    /\ UNCHANGED <<attached, current, failures, stopped, start, stop, started, closing,
                   told, unwritten, early, faults>>

\* MUTANT of AfterFailure: the first failed launch ends the loop.
AfterFailureEnds == "none"

\* The loop's condition.
AfterFailure == IF stopped THEN "none" ELSE "telling"

LaunchFails ==
    /\ loop = "launching" /\ Fault
    /\ Dies(next) /\ next' = None
    /\ loop' = AfterFailure
    /\ failures' = IF loop' = "telling" THEN failures + 1 ELSE failures
    /\ UNCHANGED <<attached, current, stopped, start, stop, started, closing, told,
                   unwritten, early>>

-----------------------------------------------------------------------------
(* stop().                                                                 *)

Stop ==
    /\ stop = "no"
    /\ stopped' = TRUE
    /\ closing' = current /\ current' = None
    /\ stop' = "closing"
    /\ early' = (start = "launching")
    /\ UNCHANGED <<child, attached, failures, start, loop, started, next, told,
                   unwritten, faults>>

\* The handle is closed; then the pending restart is waited for.
StopCloses ==
    /\ stop = "closing" /\ stop' = "waiting"
    /\ child' = [c \in Children |-> IF c = closing THEN "gone" ELSE child[c]]
    /\ closing' = None
    /\ UNCHANGED <<attached, current, failures, stopped, start, loop, started, next,
                   told, unwritten, early, faults>>

Waited == loop = "none"

StopReturns ==
    /\ stop = "waiting" /\ Waited
    /\ stop' = "returned"
    /\ UNCHANGED <<child, attached, current, failures, stopped, start, loop, handles,
                   told, unwritten, early, faults>>

LoopStep == Tell \/ Wake \/ Launched \/ Closed \/ LaunchFails
StopStep == StopCloses \/ StopReturns
Next ==
    \/ Start \/ StartSucceeds \/ StartFails
    \/ \E c \in Children : Crash(c) \/ OnClose(c)
    \/ LoopStep \/ Stop \/ StopStep

Spec == Init /\ [][Next]_vars

\* Callbacks are called, sleeps end, launches end, with a failure if need be.
Fairness ==
    /\ WF_vars(LoopStep) /\ WF_vars(StopStep)
    /\ WF_vars(\E c \in Children : OnClose(c))
FairSpec == Spec /\ Fairness

-----------------------------------------------------------------------------
TypeOK ==
    /\ child \in [Children -> ChildStates] /\ attached \subseteq Children
    /\ current \in Children \cup {None}
    /\ failures \in Nat /\ stopped \in BOOLEAN
    /\ start \in {"new", "launching", "done", "failed"}
    /\ loop \in {"none", "telling", "asleep", "launching", "closing"}
    /\ stop \in {"no", "closing", "waiting", "returned"}
    /\ {started, next, closing} \subseteq Children \cup {None}
    /\ told \in [Tiers -> 0..1] /\ unwritten \in BOOLEAN
    /\ early \in BOOLEAN /\ faults \in 0..MaxFaults

\* Once stop() has returned no server process is left and none will be
\* launched, whatever the restart loop was doing when it was called; a first
\* launch still under way is not waited for.
NoneLeft == stop = "returned" /\ ~early => Existing = {}

\* The manager keeps the contract of SingleServer: whatever the close callback,
\* the restart loop and stop() do in between, a process is launched only when
\* there is none, and never once stop() has been called.
Contract == INSTANCE SingleServer WITH servers <- Existing, wanted <- ~stopped
ImplementsContract == Contract!Spec

\* The death of the server that tool calls are routed to is always noticed,
\* until stop.
DeathIsHeard == current # None /\ ~stopped /\ child[current] = "gone" => current \in attached

\* A row of failed launches that goes on past the threshold has been told to
\* the operator as important, and the row's beginning as passive, each once.
RowIsTold ==
    loop = "asleep" /\ ~unwritten =>
        told["passive"] = 1 /\ told["important"] = IF failures >= ImportantAt THEN 1 ELSE 0

\* A server that has died comes up again, unless it is stopped.
Down == start = "done" /\ current = None /\ ~stopped
ComesBack == Down ~> ~Down
=============================================================================
