----------------------------- MODULE AgentTasks -----------------------------
(***************************************************************************)
(* The task pipeline of one Agent: the task files on disk, the Agent       *)
(* process that polls them and runs one loop at a time, and the writers in *)
(* the supervisor process that put parked tasks back in the queue.         *)
(*                                                                         *)
(* A task file is never locked.  TaskStore.update and updateRecord read    *)
(* the file, compute the new record and write it back, and every caller of *)
(* them awaits in between, so each such write is two actions here: one     *)
(* that copies the file's record ("get") and one that writes the mutated   *)
(* copy ("save").  Scans of the directory (pickPending, findWaiting,       *)
(* findExpiredWaits, list) are one action each.                            *)
(***************************************************************************)
EXTENDS Integers

CONSTANTS
    Tasks,        \* task ids, in the order in which the tasks are created
    Destructive,  \* the tasks whose idempotency is 'destructive'
    Priority,     \* [Tasks -> Nat], frontmatter.priority
    Slots,        \* poll ticks that may be somewhere in tickTaskPoll at once
    SlowPolls,    \* TRUE: a poll tick may still await pickPending when the
                  \* next one fires
    Handlers,     \* the resuming writers that exist, of KnownHandlers
    MaxBlocks,    \* bound: how often runs park or trip in all
    MaxExits      \* bound: how often the Agent or the supervisor exits

NoTask == 0
KnownHandlers == {"chat", "wake", "sweep", "resume"}

ASSUME TasksAssumption ==
    /\ Tasks \subseteq Nat \ {NoTask}
    /\ Destructive \subseteq Tasks
    /\ Priority \in [Tasks -> Nat]
    /\ Slots \subseteq Nat
    /\ SlowPolls \in BOOLEAN
    /\ Handlers \subseteq KnownHandlers
    /\ MaxBlocks \in Nat
    /\ MaxExits \in Nat

VARIABLES
    disk,      \* [Tasks -> TaskFile], the files under agents/<name>/tasks/
    expired,   \* the tasks whose wait_for.expires_at has passed
    proc,      \* the Agent process: "down", "booting" (orphan sweep) or "up"
    machine,   \* AgentStateMachine.state, in the Agent process
    inFlight,  \* AgentProcess.taskInFlight
    slot,      \* [Slots -> the progress of one tickTaskPoll call]
    orphan,    \* the progress of reconcileOrphanedTasks
    handler,   \* [Handlers -> the progress of one resuming writer]
    starts,    \* history: [Tasks -> Nat], runs begun
    resumes,   \* history: [Tasks -> Nat], resuming writes
    requeues,  \* history: [Tasks -> Nat], re-queues by the orphan sweep
    parked,    \* history: tasks whose run returned blocked_on_user
    blocks,    \* bound counter of MaxBlocks
    exits      \* bound counter of MaxExits

vars == <<disk, expired, proc, machine, inFlight, slot, orphan, handler,
          starts, resumes, requeues, parked, blocks, exits>>

history == <<starts, resumes, requeues, parked>>

TaskStates == {"absent", "pending", "running", "blocked_on_agent",
               "blocked_on_detector", "done", "errored"}

\* A task file: its state, and whether frontmatter.wait_for is non-null.
TaskFile == [state : TaskStates, wait : BOOLEAN]

MachineStates == {"stopped", "running", "errored", "waiting",
                  "blocked_on_user", "blocked_on_agent", "blocked_on_detector"}

BlockedStates == {"blocked_on_user", "blocked_on_agent", "blocked_on_detector"}

\* The transitions AgentStateMachine accepts; it throws on any other.
Transitions ==
    {<<"stopped", "running">>}
    \cup ({"running"} \X (MachineStates \ {"running"}))
    \cup ((MachineStates \ {"stopped", "running"}) \X {"running", "stopped"})

\* machine.transition(to) inside a try whose catch ignores the refusal.
TryTransition(to) ==
    machine' = IF <<machine, to>> \in Transitions THEN to ELSE machine

Absent == [state |-> "absent", wait |-> FALSE]

SlotPcs == {"idle", "polling", "claimed", "writing", "running",
            "awaiting", "tripped", "recorded"}

\* task and base mean something while a write or a run is in progress; `to`
\* is the state the write in progress puts on disk.
IdleSlot == [pc |-> "idle", task |-> NoTask, to |-> "absent", base |-> Absent]
IdleOrphan == [todo |-> {}, task |-> NoTask, base |-> Absent]
IdleHandler == [found |-> {}, task |-> NoTask, base |-> Absent]

Init ==
    /\ disk = [t \in Tasks |-> Absent]
    /\ expired = {}
    /\ proc = "down"
    /\ machine = "stopped"
    /\ inFlight = FALSE
    /\ slot = [s \in Slots |-> IdleSlot]
    /\ orphan = IdleOrphan
    /\ handler = [k \in Handlers |-> IdleHandler]
    /\ starts = [t \in Tasks |-> 0]
    /\ resumes = [t \in Tasks |-> 0]
    /\ requeues = [t \in Tasks |-> 0]
    /\ parked = {}
    /\ blocks = 0
    /\ exits = 0

InState(st) == {t \in Tasks : disk[t].state = st}

-----------------------------------------------------------------------------
(* Submissions: cli.task.submit, a chat message or an inbound that matches *)
(* no wait, a fired schedule, a delegation from a peer.  Each saves a new  *)
(* pending file.                                                           *)

Submit(t) ==
    /\ t \in InState("absent")
    /\ \A u \in InState("absent") : t <= u
    /\ disk' = [disk EXCEPT ![t] = [state |-> "pending", wait |-> FALSE]]
    /\ UNCHANGED <<expired, proc, machine, inFlight, slot, orphan, handler,
                   starts, resumes, requeues, parked, blocks, exits>>

\* Time reaches a wait's expires_at.
Expire(t) ==
    /\ disk[t].state = "blocked_on_agent"
    /\ disk[t].wait
    /\ t \notin expired
    /\ expired' = expired \cup {t}
    /\ UNCHANGED <<disk, proc, machine, inFlight, slot, orphan, handler,
                   history, blocks, exits>>

-----------------------------------------------------------------------------
(* AgentProcess.tickTaskPoll and recordResult.                             *)

\* MUTANT of MayPoll: the guard on taskInFlight is gone.
MayPollAnyway == TRUE

\* The guard at the top of the tick.
MayPoll == ~inFlight

\* The timer fires and the guard passes: not shutting down, nothing in
\* flight.  The tick then awaits pickPending.  A poll that answers within
\* the interval is over before the next tick (~SlowPolls).  Slots only name
\* the calls in progress, so a tick takes the first free one.
PollBegin(s) ==
    /\ proc = "up"
    /\ MayPoll
    /\ slot[s].pc = "idle"
    /\ \A u \in Slots : slot[u].pc = "idle" => s <= u
    /\ SlowPolls \/ \A u \in Slots : slot[u].pc # "polling"
    /\ slot' = [slot EXCEPT ![s].pc = "polling"]
    /\ UNCHANGED <<disk, expired, proc, machine, inFlight, orphan, handler,
                   history, blocks, exits>>

\* MUTANT of Picked: a task that waits for a reply counts as pending.
PickedWaiting(t) == t \in InState("pending") \cup InState("blocked_on_agent")

\* pickPending: the highest priority, the oldest among equals.
Picked(t) ==
    /\ t \in InState("pending")
    /\ \A u \in InState("pending") :
          \/ Priority[u] < Priority[t]
          \/ Priority[u] = Priority[t] /\ t <= u

\* pickPending found nothing: the tick returns.
PollEmpty(s) ==
    /\ slot[s].pc = "polling"
    /\ InState("pending") = {}
    /\ slot' = [slot EXCEPT ![s] = IdleSlot]
    /\ UNCHANGED <<disk, expired, proc, machine, inFlight, orphan, handler,
                   history, blocks, exits>>

\* pickPending answered: raise taskInFlight and clear a blocked_* machine.
PollClaim(s) ==
    /\ slot[s].pc = "polling"
    /\ \E t \in Tasks :
          /\ Picked(t)
          /\ slot' = [slot EXCEPT ![s] = [IdleSlot EXCEPT !.pc = "claimed",
                                                          !.task = t]]
    /\ inFlight' = TRUE
    /\ IF machine \in BlockedStates THEN TryTransition("running")
                                    ELSE UNCHANGED machine
    /\ UNCHANGED <<disk, expired, proc, orphan, handler, history, blocks, exits>>

\* What a slot may write next, and from where: the mark as running, then
\* task_await_response, a detector trip (also right after that tool, whose
\* call is followed by an evaluation), or the end of the run.
MayWrite(pc, to) ==
    \/ pc = "claimed" /\ to = "running"
    \/ pc = "running" /\ to \in {"done", "errored"}
    \/ pc = "running" /\ to = "blocked_on_agent" /\ blocks < MaxBlocks
    \/ pc \in {"running", "awaiting"} /\ to = "blocked_on_detector"
                                      /\ blocks < MaxBlocks

\* taskStore.update, first half: read the record that will be mutated.
SlotGet(s) ==
    /\ \E to \in TaskStates :
          /\ MayWrite(slot[s].pc, to)
          /\ slot' = [slot EXCEPT ![s].pc = "writing", ![s].to = to,
                                  ![s].base = disk[slot[s].task]]
          /\ blocks' = IF to \in BlockedStates THEN blocks + 1 ELSE blocks
    /\ UNCHANGED <<disk, expired, proc, machine, inFlight, orphan, handler,
                   history, exits>>

AfterWrite(to) ==
    CASE to = "running" -> "running"
      [] to = "blocked_on_agent" -> "awaiting"
      [] to = "blocked_on_detector" -> "tripped"
      [] OTHER -> "recorded"

\* taskStore.update, second half.  Only the await writes wait_for; every
\* other update keeps what the copy held.
SlotSave(s) ==
    LET t == slot[s].task
        to == slot[s].to
    IN /\ slot[s].pc = "writing"
       /\ disk' = [disk EXCEPT ![t] =
                     [state |-> to, wait |-> slot[s].base.wait \/ to = "blocked_on_agent"]]
       /\ expired' = IF to = "blocked_on_agent" THEN expired \ {t} ELSE expired
       /\ starts' = IF to = "running" THEN [starts EXCEPT ![t] = @ + 1] ELSE starts
       /\ slot' = [slot EXCEPT ![s].pc = AfterWrite(to), ![s].to = "absent",
                               ![s].base = Absent]
       /\ UNCHANGED <<proc, machine, inFlight, orphan, handler, resumes,
                      requeues, parked, blocks, exits>>

\* MUTANT of Release: taskInFlight stays up.
ReleaseKeepsFlag(s) ==
    /\ slot' = [slot EXCEPT ![s] = IdleSlot]
    /\ UNCHANGED inFlight

\* The `finally` of the tick.
Release(s) ==
    /\ slot' = [slot EXCEPT ![s] = IdleSlot]
    /\ inFlight' = FALSE

\* recordResult mirrors a park or a trip to the state machine; done and
\* errored leave it; then the tick is over.
Return(s) ==
    /\ slot[s].pc \in {"awaiting", "tripped", "recorded"}
    /\ CASE slot[s].pc = "awaiting" -> TryTransition("blocked_on_agent")
         [] slot[s].pc = "tripped" -> TryTransition("blocked_on_detector")
         [] slot[s].pc = "recorded" -> UNCHANGED machine
    /\ Release(s)
    /\ UNCHANGED <<disk, expired, proc, orphan, handler, history, blocks, exits>>

\* The loop returned blocked_on_user: recordResult writes no file, so the
\* task stays `running` on disk.
ReturnBlockedOnUser(s) ==
    /\ slot[s].pc = "running"
    /\ parked' = parked \cup {slot[s].task}
    /\ TryTransition("blocked_on_user")
    /\ Release(s)
    /\ UNCHANGED <<disk, expired, proc, orphan, handler, starts, resumes,
                   requeues, blocks, exits>>

-----------------------------------------------------------------------------
(* Process exits and boots.                                                *)

\* The Agent process dies, or reaches the end of a shutdown that has stopped
\* its timers first: its memory goes, a run in progress with it, and the
\* files stay.  The wake source lives in this process.
AgentExit ==
    /\ proc # "down"
    /\ exits < MaxExits
    /\ exits' = exits + 1
    /\ proc' = "down"
    /\ machine' = "stopped"
    /\ inFlight' = FALSE
    /\ slot' = [s \in Slots |-> IdleSlot]
    /\ orphan' = IdleOrphan
    /\ handler' = [k \in Handlers |-> IF k = "wake" THEN IdleHandler ELSE handler[k]]
    /\ UNCHANGED <<disk, expired, history, blocks>>

\* The supervisor exits; an Agent that survives it goes on polling.
SupervisorExit ==
    /\ exits < MaxExits
    /\ \E k \in Handlers \ {"wake"} : handler[k] # IdleHandler
    /\ exits' = exits + 1
    /\ handler' = [k \in Handlers |-> IF k = "wake" THEN handler[k] ELSE IdleHandler]
    /\ UNCHANGED <<disk, expired, proc, machine, inFlight, slot, orphan,
                   history, blocks>>

\* MUTANT of Leftovers: the boot sweep finds nothing to reclaim.
LeftoversNone == {}

Leftovers == InState("running")

\* start(): registered, running, and the orphan sweep lists the tasks a dead
\* process left running.
AgentStart ==
    /\ proc = "down"
    /\ proc' = "booting"
    /\ TryTransition("running")
    /\ orphan' = [IdleOrphan EXCEPT !.todo = Leftovers]
    /\ UNCHANGED <<disk, expired, inFlight, slot, handler, history, blocks, exits>>

OrphanGet ==
    /\ proc = "booting"
    /\ orphan.task = NoTask
    /\ \E t \in orphan.todo :
          orphan' = [todo |-> orphan.todo \ {t}, task |-> t, base |-> disk[t]]
    /\ UNCHANGED <<disk, expired, proc, machine, inFlight, slot, handler,
                   history, blocks, exits>>

\* MUTANT of Requeues: the idempotency of the task is not looked at.
RequeuesAny(t, stale) == ~stale

Requeues(t, stale) == t \notin Destructive /\ ~stale

\* A destructive or stale orphan is closed as errored, any other re-queued.
\* Staleness (older than MAX_REQUEUE_AGE_MS) may be either.
OrphanSave ==
    LET t == orphan.task IN
    /\ proc = "booting"
    /\ t # NoTask
    /\ \E stale \in BOOLEAN :
          LET requeue == Requeues(t, stale) IN
          /\ disk' = [disk EXCEPT ![t] =
                        [state |-> IF requeue THEN "pending" ELSE "errored",
                         wait |-> orphan.base.wait]]
          /\ requeues' = IF requeue THEN [requeues EXCEPT ![t] = @ + 1] ELSE requeues
    /\ orphan' = [orphan EXCEPT !.task = NoTask, !.base = Absent]
    /\ parked' = parked \ {t}
    /\ UNCHANGED <<expired, proc, machine, inFlight, slot, handler, starts,
                   resumes, blocks, exits>>

\* The sweep is over: the poll timer and the wake sources start.
BootDone ==
    /\ proc = "booting"
    /\ orphan = IdleOrphan
    /\ proc' = "up"
    /\ UNCHANGED <<disk, expired, machine, inFlight, slot, orphan, handler,
                   history, blocks, exits>>

-----------------------------------------------------------------------------
(* The writers that resume a task.  None checks, when it writes, that the  *)
(* task is still in the state it was found in.                             *)

\* An inbound message (chat and connector in the supervisor, pub in the
\* Agent) matches an open wait.  Which of several matching waits it is
\* depends on sender and age, which are not modelled.
ReplyFind(k) ==
    /\ k \in Handlers \cap {"chat", "wake"}
    /\ k = "wake" => proc = "up"
    /\ handler[k] = IdleHandler
    /\ \E t \in InState("blocked_on_agent") \ expired :
          /\ disk[t].wait
          /\ handler' = [handler EXCEPT ![k].found = {t}]
    /\ UNCHANGED <<disk, expired, proc, machine, inFlight, slot, orphan,
                   history, blocks, exits>>

\* MUTANT of Due: the comparison with expires_at is the wrong way round.
DueTooEarly == {t \in InState("blocked_on_agent") \ expired : disk[t].wait}

\* findExpiredWaits.
Due == {t \in InState("blocked_on_agent") \cap expired : disk[t].wait}

\* sweepWaitForOnce takes every task whose wait has expired.
SweepFind ==
    /\ "sweep" \in Handlers
    /\ handler["sweep"] = IdleHandler
    /\ Due # {}
    /\ handler' = [handler EXCEPT !["sweep"].found = Due]
    /\ UNCHANGED <<disk, expired, proc, machine, inFlight, slot, orphan,
                   history, blocks, exits>>

\* cli.agent.resume: the first blocked_on_detector task of a list that is
\* sorted newest first.
ResumeFind ==
    /\ "resume" \in Handlers
    /\ handler["resume"] = IdleHandler
    /\ \E t \in InState("blocked_on_detector") :
          /\ \A u \in InState("blocked_on_detector") : u <= t
          /\ handler' = [handler EXCEPT !["resume"].found = {t}]
    /\ UNCHANGED <<disk, expired, proc, machine, inFlight, slot, orphan,
                   history, blocks, exits>>

HandlerGet(k) ==
    /\ handler[k].task = NoTask
    /\ \E t \in handler[k].found :
          handler' = [handler EXCEPT ![k] =
                        [found |-> @.found \ {t}, task |-> t, base |-> disk[t]]]
    /\ UNCHANGED <<disk, expired, proc, machine, inFlight, slot, orphan,
                   history, blocks, exits>>

\* A reply or a timeout clears wait_for; an operator's resume keeps it.
HandlerSave(k) ==
    LET t == handler[k].task IN
    /\ t # NoTask
    /\ disk' = [disk EXCEPT ![t] =
                  [state |-> "pending",
                   wait |-> k = "resume" /\ handler[k].base.wait]]
    /\ resumes' = [resumes EXCEPT ![t] = @ + 1]
    /\ handler' = [handler EXCEPT ![k].task = NoTask, ![k].base = Absent]
    /\ UNCHANGED <<expired, proc, machine, inFlight, slot, orphan, starts,
                   requeues, parked, blocks, exits>>

-----------------------------------------------------------------------------

SlotStep(s) ==
    \/ PollEmpty(s)
    \/ PollClaim(s)
    \/ SlotGet(s)
    \/ SlotSave(s)
    \/ Return(s)
    \/ ReturnBlockedOnUser(s)

BootStep == AgentStart \/ OrphanGet \/ OrphanSave \/ BootDone

HandlerStep(k) == HandlerGet(k) \/ HandlerSave(k)

Next ==
    \/ \E t \in Tasks : Submit(t) \/ Expire(t)
    \/ \E s \in Slots : PollBegin(s) \/ SlotStep(s)
    \/ \E k \in Handlers : ReplyFind(k) \/ HandlerStep(k)
    \/ SweepFind
    \/ ResumeFind
    \/ BootStep
    \/ AgentExit
    \/ SupervisorExit

Spec == Init /\ [][Next]_vars

\* Timers fire, awaited I/O answers, a run ends (max iterations and per-call
\* timeouts), time passes, and the supervisor restarts an Agent that exited.
\* Nothing obliges a message to arrive or an operator to resume.
Fairness ==
    /\ WF_vars(\E s \in Slots : PollBegin(s))
    /\ WF_vars(\E s \in Slots : SlotStep(s))
    /\ WF_vars(\E k \in Handlers : HandlerStep(k))
    /\ WF_vars(SweepFind)
    /\ WF_vars(\E t \in Tasks : Expire(t))
    /\ WF_vars(BootStep)

FairSpec == Spec /\ Fairness

-----------------------------------------------------------------------------
(* Properties.                                                             *)

\* A slot whose run has begun and whose result is not yet recorded.
Executes(s) ==
    \/ slot[s].pc \in {"running", "awaiting", "tripped", "recorded"}
    \/ slot[s].pc = "writing" /\ slot[s].to # "running"

\* A slot that has claimed a task: between raising and lowering taskInFlight.
Claims(s) == slot[s].pc \notin {"idle", "polling"}

SlotType == [pc : SlotPcs, task : Tasks \cup {NoTask}, to : TaskStates, base : TaskFile]
OrphanType == [todo : SUBSET Tasks, task : Tasks \cup {NoTask}, base : TaskFile]
HandlerType == [found : SUBSET Tasks, task : Tasks \cup {NoTask}, base : TaskFile]

\* Every variable has the type its declaration names, and a slot that has
\* claimed has a task.
TypeOK ==
    /\ disk \in [Tasks -> TaskFile]
    /\ expired \subseteq Tasks
    /\ proc \in {"down", "booting", "up"}
    /\ machine \in MachineStates
    /\ inFlight \in BOOLEAN
    /\ slot \in [Slots -> SlotType]
    /\ \A s \in Slots : Claims(s) => slot[s].task \in Tasks
    /\ orphan \in OrphanType
    /\ handler \in [Handlers -> HandlerType]
    /\ starts \in [Tasks -> Nat]
    /\ resumes \in [Tasks -> Nat]
    /\ requeues \in [Tasks -> Nat]
    /\ parked \subseteq Tasks
    /\ blocks \in Nat
    /\ exits \in Nat

\* "v1 is single-task; only one task runs at a time per Agent": the comment
\* on tickTaskPoll.  The guard reads taskInFlight before an await and the
\* claim raises it after, so this depends on polls not overlapping.
SingleFlight ==
    \A s, u \in Slots : Claims(s) /\ Claims(u) => s = u

\* A destructive task is begun once for its submission and once for each
\* resuming write, whatever exits, sweeps and stale writers do in between.
DestructiveRunsAreAsked ==
    \A t \in Destructive : starts[t] <= 1 + resumes[t]

\* A task is `running` on disk only while a run owns it, while the sweep of
\* a boot has still to reclaim it, or when its run returned blocked_on_user.
RunningIsOwned ==
    \A t \in InState("running") :
        \/ \E s \in Slots : Executes(s) /\ slot[s].task = t
        \/ proc = "down"
        \/ t \in orphan.todo \cup {orphan.task}
        \/ t \in parked

\* The pipeline is a serial executor: no run without a submission, resume or
\* re-queue to pay for it, and never two runs at once.
Tickets ==
    [t \in Tasks |-> (IF disk[t].state = "absent" THEN 0 ELSE 1)
                       + resumes[t] + requeues[t] - starts[t]]
Executing == {slot[s].task : s \in {u \in Slots : Executes(u)}}
Executor == INSTANCE SerialExecutor WITH tickets <- Tickets, executing <- Executing
ImplementsExecutor == Executor!Spec

\* A pending task is picked up, whatever its priority.
PendingIsPicked ==
    \A t \in Tasks : (disk[t].state = "pending") ~> (disk[t].state # "pending")

\* A task parked on a peer's reply does not stay parked: the reply or the
\* timeout sweep puts it back in the queue.
WaitEnds ==
    \A t \in Tasks :
        (disk[t].state = "blocked_on_agent") ~> (disk[t].state # "blocked_on_agent")

\* "the supervisor will tick the loop again on the next poll": recordResult's
\* comment on the task that it leaves `running` because the run returned
\* blocked_on_user.
ParkedIsTicked ==
    \A t \in Tasks :
        (t \in parked /\ disk[t].state = "running")
            ~> (\E s \in Slots : Claims(s) /\ slot[s].task = t)

=============================================================================
