# A TLA+ verification of 2200

2200 hosts a fleet of always-on Agents. One *supervisor* (the daemon) starts a
Node process per Agent, routes messages to it, keeps its schedules and its
credentials, and answers the command line and the web application; each *Agent*
process polls a directory of task files and runs one model-and-tool loop at a
time. Nearly all state is files, one writer replacing a file atomically, and
there is next to no locking. What makes the system hard is that two processes
and many asynchronous calls read a file, wait, and write it back, and that any
of them may exit in between.

Paths below are relative to `src/src/runtime/` unless they start with `src/`.

## 1. Inventory

### Components with a protocol of their own

| Component | State | Operations | What it has to get right |
|---|---|---|---|
| **Agent task pipeline**: `agent/process.ts`, `agent/task/`, `agent/orphaned-tasks.ts`, `agent/state-machine.ts`, resuming handlers in `supervisor/supervisor.ts` | one file per task (state, `wait_for`); in the Agent's memory `taskInFlight` and the state machine | submit, poll tick, loop outcomes, `recordResult`, boot sweep of orphans, inbound reply, timeout sweep, operator's resume | one run at a time; no run nobody asked for, above all of a destructive task; no task lost by a crash; waits end |
| **Agent loop and detectors**: `agent/loop.ts`, `agent/blockers.ts`, `agent/detectors/` | fields that a run resets (nudges, kick-backs) and fields that live as long as the process (iteration, events, blockers) | one iteration: ceiling, gates, model call, detectors, batch of tools, nudge, audit, done | gates silence model and tools; storms are cut; done is not claimed unbacked or silent |
| **Agent lifecycle**: `supervisor/supervisor.ts`, `lifecycle.ts`, `process-lock.ts`, `state.ts`, `agent/bootstrap.ts` | records in `supervisor.json`, tracked processes, intentional stops, restart counters, a lock directory and a pid file per Agent | start, stop, restart, exit, adopt, evict, liveness scan, shutdown | never two processes of an Agent; a death is noticed, a stop is not undone; every call ends |
| **Budget tracker**: `agent/budget-tracker.ts` | spend of the day, warned and blocked flags, state file, telemetry file, override | replay, record, isBlocked, override | no task over the cap, none refused below it, one warning and one block a day |
| **Credential requests**: `credentials/requests.ts`, `tools/baseline/credential.ts`, handlers in `http/server.ts`, sweeps in the supervisor | one file per request, a lock file per name, the rate file, the vault | ask, wait, fulfil, decline, expire (three ways) | one card per name; fulfilled means sealed; every request and call ends |
| **OAuth refresh and sign-in**: `oauth/refresh-service.ts`, subscription sessions in `http/server.ts`, commands in `src/src/cli/main.ts` | access and refresh entries, cooldowns, sign-in sessions | tick, refresh, store both, login, device poll, logout | a rotated refresh token is kept; both entries are of one sign-in; completed means stored |
| **MCP servers**: `mcp/restart-manager.ts`, `mcp/client.ts` | current handle, failures in a row, stopped, restart promise | launch, close, backoff, relaunch, notify, stop | one server at a time; stop leaves none; deaths are heard |
| **Pub messaging**: `pub/` | connection, message cache, ids sent and processed, parked task | connect, receive, wake, route, sweep, resume | each message wakes once; none is marked handled and lost; missed ones are swept up |
| **Scheduler**: `scheduler/service.ts`, `scheduler/schedule.ts`, `extensions/schedules.ts` | schedule files with `next_fire_at`; a map of timer handles | start/reload, stop, fire, `recordFired`, add, remove, enable, disable | an enabled schedule stays armed, fires again, and not early |

### Components that are storage, translation or transport

| Component | Note |
|---|---|
| Pulse and audit (`agent/pulse`, `agent/audit`) | describe a run; the claim audit's verdict is a choice in `AgentLoop` |
| Control plane (`control-plane/`) | JSON-RPC, one reply per request; its handlers are modelled where the state they change is |
| HTTP API (`http/`) | routes over the other components' state, likewise |
| Connectors (`connectors/`, `mcp/connector/`, `src/apps/*-connector`) | inbound messages resume or submit tasks as the chat does |
| Vault and keystore (`credentials/vault.ts`, `identity/keystore.ts`) | seal and unseal; a set of names in `CredentialRequests`, two entries in `TokenRefresh` |
| Brain, notifications (`brain/`, `notifications/`) | notes with a search index; append, list, mark |
| Identity, onboarding, migration, install, upgrade | parsers, wizards and one-shot scripts for one operator |
| LLM providers, tools, skills, extensions | requests to outside services; work inside a loop's turn |
| Tunnel, telemetry, configuration, storage layout, utilities | no protocol; `util/atomic-write.ts` is why replacing a file is one action everywhere |
| Command line and web application (`src/src/cli`, `src/apps/web`) | clients of the two interfaces |

`PROJECT.json` lists all of them with their sources and status.

### Interactions and the behaviours that are hard

- Supervisor and Agent share the **task files**. The supervisor submits tasks
  and resumes parked ones; the Agent polls, runs and parks them. Both use
  `TaskStore.update`, which reads, awaits and writes with no lock.
- The **loop** decides how a run of the pipeline ends. `AgentTasks` takes the
  outcome as a choice; `AgentLoop` says which outcome comes when. A loop that
  meets a pending credential request (`agent/loop.ts:900`) returns
  `blocked_on_user`, the outcome of the run `tasks_parked`.
- The Agent **creates** a credential request and polls its file; the supervisor
  **ends** it. Either can exit in between, and while it is pending no task of the
  Agent runs.
- A **pub message** becomes a task or resumes a parked one. `PubWake` has the ways
  a message takes to the task file, `AgentTasks` (its writer `wake`) what such a
  write does to the pipeline.
- Agent processes and supervisor exit at any point; files stay. The exits of
  `AgentTasks`, `CredentialRequests`, `BudgetTracker` and `PubWake` are those whose
  handling `AgentLifecycle` models.
- The scheduler **saves task files**, or runs an extension's hook, from timer
  callbacks that overlap the operator's changes and reloads.
- The tracker's **gate** stands before each run of the loop, its record after each
  model call; telemetry and state file are two writes.

The hazards this leaves, each at its line, are the `hazards` list of
`PROJECT.json`; section 4 says which properties stand against which.

## 2. Modules

| Module | Role | Proofs |
|---|---|---|
| `SerialExecutor` | abstract specification of a task pipeline: run tickets and at most one execution | |
| `AgentTasks` | the pipeline; `Executor == INSTANCE SerialExecutor` is its refinement mapping | `AgentTasksProofs` |
| `AgentLoop` | one run after another in one process: gates, model, batches, detectors, nudges | `AgentProcessProofs` |
| `AgentLifecycle` | one Agent's record, processes, lock, and all that start, stop and bury them | `AgentLifecycleProofs` |
| `BudgetTracker` | the daily cap | `BudgetTrackerProofs` |
| `CredentialRequests` | the tool, the operator's handlers and the sweeps | `CredentialRequestsProofs` |
| `Scheduler` | timers, callbacks, changes, reloads | `SchedulerProofs` |
| `TokenRefresh` | one OAuth credential and all its writers | `TokenRefreshProofs` |
| `SingleServer` | abstract specification of a restart manager: one process, none launched when it is not wanted | |
| `McpServer` | one MCP server's restart manager; `Contract == INSTANCE SingleServer` is its refinement mapping | `McpServerProofs` |
| `PubWake` | one pub's messages on their way to the task files | `AgentProcessProofs` |

`AgentProcessProofs` is about two modules, the loop and the wake source, which run in
one process but share no state that either models; so that one module can extend
both, `PubWake` has names with `Pub` (`PubSpec`, `PubNext`) where `AgentLoop` has plain
ones.

Each has an `MC` module with the instance's values for TLC. `PROJECT.json` `map`
gives the source lines of every definition. Operators whose comment begins with
*Mutant* or *MUTANT of* are plausible bugs: each is substituted for the
definition it stands beside, to see that a property notices.

History variables (`own`, `blurred`, `wiped`, `crossed`, ...) are read by properties
only, never by a guard of an action that models code.

### AgentTasks

- A task file is `[state, wait]`: `frontmatter.state` and whether `wait_for` is
  set. `disk` is the directory; `expired` the waits whose `expires_at` is past.
- `slot[s]` is one call of `tickTaskPoll`. A tick checks the guard
  (`PollBegin`), awaits `pickPending` (`PollEmpty`, `PollClaim`), marks the task
  running, runs the loop and records the outcome. Every `taskStore.update` on
  the way is `SlotGet` (the copy is read) and `SlotSave` (it is written), so a
  copy may be stale. Slots only name the calls in progress: the first free one
  is taken.
- What the loop does is a choice of outcomes: done, errored, a wait for a peer
  (`task_await_response`, which writes the file from inside the run and lets the
  state machine follow when the run has returned), a detector trip, or
  `blocked_on_user`, for which `recordResult` writes no file.
- `AgentStart`, `OrphanGet`, `OrphanSave`, `BootDone` are
  `reconcileOrphanedTasks`, which runs before the poll timer and the wake source
  start. Staleness of an orphan may go either way.
- `handler[k]` is one resuming writer: `chat` (a chat or connector message, in
  the supervisor), `wake` (a pub message, in the Agent), `sweep`
  (`sweepWaitForOnce`) and `resume` (`cli.agent.resume`). Each finds tasks, then
  for each reads and writes the file; none checks at the write that the task is
  still as it was found. Which wait a message matches is not modelled: two
  handlers that find the same wait stand for two messages from one peer or for a
  reply and the timeout.
- `AgentExit` loses the Agent's memory and the wake source's progress,
  `SupervisorExit` that of the other writers. A shutdown stops the timers first
  and then waits or gives up, so it is an exit at some other moment.
- `SlowPolls` says whether a tick may still await `pickPending` when the next one
  fires. `pickPending` reads every task file and the interval is fixed, so
  nothing in the code rules it out; but it takes a scan longer than the interval.

### AgentLoop

- One `AgentLoop` object serves all tasks of a process. The state is split the way
  the object's fields are: `count` and `lastClaimAudit` are reset by `run()`
  (`Begin`), `iteration`, `events`, `blockers` and `awaitingNudges` are not.
  `Begin` only drops `external_response`.
- `pc`: `top` is the head of an iteration (`Ceiling`, then `Gate`: blockers first,
  request files second), `model` the awaited call (`ModelFails`, `ModelTrips`, or an
  answer), `batch` the tool calls of one response. An answer is `Empty`, `Calls(n)`
  or a text; a text goes, in this order, through `WakeNudge`, `PlanningRetry`,
  `KickBack` and `Done`.
- `ToolCall` is one call of a batch with the checks behind it: the ring buffer,
  the detectors, the gates that the tool may have raised, `awaiting_completion`.
  A tool is its name and outcome; what `tool_repetition` compares (tool and
  arguments) is the name.
- The audit's verdict, the model's answers and the tools' outcomes are choices.
- `own` is what this run really did; the properties are about it and not about
  the counters that the guards read.

### AgentLifecycle

- `record` is the Agent's entry of `supervisor.json`, `tracked`, `watch`, `flag`
  and `recent` the supervisor's maps for it: the tracked process, exit promises
  that have not been handled, `intentionalStops`, `restartHistory`.
- `proc[p]` is a process from the fork through bootstrap (`booting`), the lock
  (`locked`), registration (`up`) to its end; `lock` the process whose lock directory
  looks fresh and `pidFile` what the pid file says. A process killed with its lock
  leaves it fresh until `Stale`. Pids are used again once nothing remembers them.
- `call[c]` is an operator's start, stop or restart, a boot's eviction or a
  shutdown, step by step over their awaits: wait for the exit, SIGKILL, orphan
  handling, clean-up of the lock (`CleanUp`, which may take a living process's).
- `HandleAgentExit`, `ScanBegin`/`ScanEnd`, `RecoverCopies` and the three ends of a
  recovery are the other parties, each with its early returns.
- `wiped`, `mistaken`, `crossed`, `stopped` record that a cleanup took a living
  process's lock, a scan or a recovery misjudged one (the recovery also when a start call
  has marked the record errored before the adoption), a call met another one or the
  recovery, and what a stop has signalled.

### BudgetTracker

- The tracker's fields, the day's telemetry sum, the state file, the override.
  `Boot` replays the telemetry (`Replayed`); `Admit` is the gate; a model call is
  `ModelCall`, `Telemetry` (append, which may fail), `Record`, `Notify`; `Exit` may
  come between any two. `Midnight` begins a day whose files do not exist.
- `blurred` says that today's tracker and telemetry count apart: a line that could
  not be appended, or a midnight between the line and the record.

### CredentialRequests

- `rec[i]` is a request's file, `given` its `fulfilled_at`. `call[c]` walks
  through `doCredentialRequest`: list of this Agent's records, vault, pending
  list and rate cap, lock file, creation, unlock, wait. The rate cap may refuse
  any call, so its arithmetic is left out.
- A second call for a name in flight joins the first one's promise, so there is
  no step for it (`MayCall`).
- A transition is a read (`FulfilGet`, `DeclineGet`, `SweepGet`, `TimeoutGet`) and
  a write (`Save`, `TimeoutSave`). The fulfilling handler seals the value in
  between its own check and the transition (`Seal`).
- The `crash` sweep runs when an Agent is found gone, so it may begin only while
  it is down, and may go on when it is up again; the `timeout` sweep at any time.
- `Expire` is time. The tool's own timeout adds slack to `expires_at`, the model
  lets it follow at once, which only adds behaviours.

### Scheduler

- Time is relative: `next`, `rem` and `left` are ticks still to go, so the state
  space is finite without bounding the clock. `Tick` may be late for any timer,
  and a timer never fires before its delay is over.
- A timer lives in `timer[n]` from `setTimeout` through its callback; `handle` is
  the scheduler's map. A timer that is armed but in no `handle` is one that no
  `stop()` can clear. The two places (`Timers`) are a bound: `ArmSeen` waits for a
  free one.
- A change is `ChangeGet` and `ChangeSave`, then the reload: `Stop`, `Scan`,
  `ArmSeen`, with an await between each two. Arming a whole scan is one action
  because nothing in that loop awaits.
- `kind` fixes whether a callback runs an extension's hook or saves an Agent's
  task (they differ on failure, and nothing disables an extension's schedule) and
  whether the timing is an interval or a cron expression (they differ in where
  the next instant lies after a reload). Extensions have cron timing only.
- Adding a schedule that is gone stands for a new one, whose file has a fresh id;
  nothing in the code carries over from the old one.
- `Delay` is `setTimeout`: a delay beyond `MaxDelay` fires at once.

### TokenRefresh

- One credential in either shape: `vault` (two files, the access entry and its
  `-refresh` companion, written one after the other) or `fleet` (one file).
- `job[j]` is a writer: a tick of the refresh service, `oauth refresh`, `oauth
  login`. It reads the stored token, exchanges it (`Exchange`, at a provider that
  may rotate and then honours only the newest), stores the answer (`Store`,
  `StoreCompanion`). `GivesUp` is a failed write or a command that exits.
- `open`, `terminal`, `poll` are the sign-in sessions of the HTTP server and the
  status requests of browsers, which overlap: the terminal check is made before
  the provider answers.
- Tokens are numbered by sign-in and generation, so "the one the provider
  honours" is a comparison.
- `lost` is raised when a rotated token is dropped, `crossed` when two writers of
  the credential overlap; a later sign-in stored with nobody else writing clears
  both.

### McpServer

- `child[c]` is a server process, `attached` those whose close still calls the
  manager, `current` the handle calls are routed to. `start`, `loop` and `stop` are
  the progress of `start()`, `restartLoop()` and `stop()`.
- `Round` is the head of the loop's body: the counter goes up, the notification of
  that attempt's tier is written (`Tell`, which may fail), then backoff (`Wake`),
  launch, and either `Launched`, which looks at `stopped` again, or `LaunchFails`.

### PubWake

- The room is a sequence of messages, each by this Agent, a peer or a human, and a
  mention, a reply or chatter. `seen` is how far a `room_state` has told this
  client; the cache is the last `CacheSize` of those. A message arrives as a
  `room_state` and then as a `conversation_event`, which may be lost.
- Each message has a worker, its live handler; two more are the wake source's sweep
  and the supervisor's sweep of expired waits, which writes the same task file.
  A worker finds (`Find`: resume, directed or neither), asks the router (`Route`, a
  choice), and enqueues a task, or reads and saves the parked one (`Get`, `Save`).
- `processed` is `processedMessageIds`: seeded at boot from the tasks' bodies
  (`Seeded`), added to after a successful write (`Recorded`), looked at only by the
  sweep.
- `met` and `crossed` exclude from the properties what the code does not promise
  (section 5): a message whose live handler had not ended when the sweep came to
  it, and a continuation written while another writer held an older copy.

## 3. Runs

| Run | Instance | States | Asks |
|---|---|---|---|
| `tasks` | 2 tasks (the first destructive, the second of higher priority), 2 slots, fast polls, writers `wake`, `sweep` and `resume`, 2 parks, 1 exit | 328310 | `SingleFlight`, `DestructiveRunsAreAsked`, `RunningIsOwned`, `ImplementsExecutor`, `PendingIsPicked`, `WaitEnds` |
| `loop` | ceiling 4, detectors and buffer of 2, 1 nudge, 2 kick-backs, batches of 2 | 422983 | `QuietWhenGated`, `StormIsCut`, `DoneOrTold`, `RoomIsAnswered` |
| `lifecycle` | 6 pids, 2 calls at once, 1 restart, 2 events | 1305945 | `OneHolder`, `TrackedIsWatched`, `FlagHasOwner`, `StopSticks` |
| `lifecycle_live` | 6 pids, 1 call, no restart, 2 events | 58862 | `DeathIsNoticed`, `DoublesEnd`, `CallsEnd` |
| `budget` | cap 3, warning at 2, calls that cost 0, 1 or 2, a day's sum to 5 | 13480 | `AdmittedUnderCap`, `RefusedToday`, `ToldOnce` |
| `credentials` | one name, 2 requests, 2 calls, 2 exits | 134202 | `OneCardPerName`, `FulfilledIsSealed`, `SealedIsNotReasked`, `PendingEnds`, `CallEnds` |
| `schedules` | one schedule of any kind, period 2, 2 timers, 2 loaders, 2 changes, a failure, an exit | 524644 | `Spaced`, `EnabledIsArmed`, `EnabledFires` |
| `tokens` | both shapes, 2 ticks, 2 polls, 2 sign-ins, 3 generations, 1 fault | 401203 | `LineageKept`, `OnePair`, `CompletedIsSaved`, `KeptAlive` |
| `mcp` | 3 processes, threshold 5, 8 faults | 2282 | `NoneLeft`, `DeathIsHeard`, `RowIsTold`, `ImplementsContract`, `ComesBack` |
| `pub` | 2 messages, cache of 2, 1 fault, any number of restarts and sweeps | 573822 | `OneTaskPerMessage`, `ProcessedIsKept`, `OwedIsHandled` |
| `tasks_parked` | the pipeline with all four writers | | `ParkedIsTicked`: violated |
| `budget_day` | as `budget` | | `RefusedOverCap`: violated |

### Why the bounds are enough

- `tasks`. *Two tasks* are what it takes for one to be picked over the other, for
  the sweep of a boot to have one done and one to do, and for two writers to be
  about different tasks. *Two slots* are what overlap takes, and when polls are fast
  the proofs show that only one is ever in use. *Two parks* let a task be parked,
  resumed and parked again under a slow writer. *One exit* puts a crash at each
  point of each call, and the proofs cover any number.
- `loop`. Four iterations are enough for a task to be kicked back twice and answer,
  or for one task to end and the next to begin with what the first left behind.
  A buffer as long as the detectors look is the shortest that `StormsAreCut` allows.
- `lifecycle`. Two calls give every pair of operations an overlap; two events a
  crash during the restart of a crash, or an exit of the daemon during a stop. With six
  pids there is always a free one (checked as an invariant), so no start waits for
  a number. `lifecycle_live` leaves out the second call, which
  liveness makes too large; its faults are the same.
- `budget`. Cap 3 and warning 2 with costs of 0, 1 and 2 let a call cross one
  threshold, the other, or both. A sum of 5 lets a call go over the cap. Days are not
  counted: every day looks the same, so the run has any number.
- `credentials`. Names do not interact; two requests and two calls give one name a
  past and a present, two exits one for each process or two for the Agent.
- `schedules`. Schedules share nothing but the reload, which treats each alone.
  *Period 2* tells "not yet" from "now" and from "just fired". *Two changes* make
  two reloads overlap, one of them possibly after a callback began.
- `tokens`. Two sign-ins are an old and a new; three generations two rotations; two
  ticks and two polls what an overlap takes; one fault at every place.
- `mcp`. Eight faults carry a row of failures over the threshold of 5, with a death
  before it and a failed notification. With three places
  there is always a free one (checked as an invariant), so no launch waits.
- `pub`. Two messages are one of the Agent's own and a reply to it, or two answers
  of a peer to one parked task; one fault loses one of them at every place.
- Deadlock is checked where the program goes on by itself (`tasks`, `loop`,
  `budget`). It is not in the others: when all requests, changes, exits, pids or
  messages are used up, the bounded system rests.

### Fairness

- `AgentTasks`: timers and awaited I/O answer, a run ends (its iterations have a
  ceiling and each call a timeout), time passes, and an Agent that exited is
  started again by the supervisor or the operator. Messages and the operator's resume owe
  nothing. `PollBegin` is only weakly fair: it is an interval timer.
- `AgentLifecycle`: processes get on with their boot and their heartbeats, timers
  fire, promises settle, a lock that nobody refreshes goes stale. No process need
  end on SIGTERM, crash or be started, and the daemon need not exit or boot.
- `CredentialRequests`: each call and the writers in progress go on, the timeout
  sweep's interval fires and time passes. The operator, the crash sweep and a
  restart owe nothing.
- `Scheduler`: time passes, callbacks and reloads go on, the daemon is booted
  again. Changes owe nothing.
- `TokenRefresh`: the service's timer fires, cooldowns run out, providers and files
  answer, if only with a failure. Commands, sign-ins and logouts owe nothing.
- `McpServer`: callbacks are called, backoffs and launches end, if only with a
  failure. Crashes and `stop` owe nothing.
- `PubWake`: the sweep's interval fires and its awaits return. Nothing else is asked
  for: events may be lost, live handlers may hang, and nothing need reconnect, post
  or boot; the sweep alone makes up for it.

### What the violated runs show

Each quotes, in `findings`, the sentence of the code it contradicts.

- `tasks_parked`: a run that returns `blocked_on_user` leaves its file `running`,
  and no poll looks at running files.
- `budget_day`: the block is lifted in `record()` only, and a blocked Agent records
  nothing; it stays blocked after midnight.

## 4. Properties and the hazards they stand against

| Property | Against |
|---|---|
| `SingleFlight` | two ticks between guard and flag |
| `DestructiveRunsAreAsked`, `ImplementsExecutor` | a crash, a boot sweep or a stale write that runs a task again; the repository's README promises that destructive tasks wait for the operator (`src/README.md:59`) |
| `RunningIsOwned` | a file left `running` that nobody will reclaim |
| `PendingIsPicked`, `WaitEnds` | a flag never lowered, a sweep that misses an expired wait |
| `QuietWhenGated` | a gate raised in the middle of a batch, or left by an earlier run |
| `StormIsCut` | failures spread over batches and model calls that slip past the detectors |
| `DoneOrTold`, `RoomIsAnswered` | counters that outlive a run or a kick-back, so that a later task ends with a flagged claim or in silence |
| `OneHolder`, `DoublesEnd` | a cleanup, a restart or a start between the look at a lock and its removal |
| `TrackedIsWatched`, `DeathIsNoticed` | an exit handled under the name of another process, a scan on an old copy |
| `FlagHasOwner`, `StopSticks` | an `intentionalStops` mark left over, which hides a crash, or consumed too early, which undoes a stop |
| `CallsEnd` | a call that waits for a process, or for the lock of one, that does not go |
| `AdmittedUnderCap`, `RefusedToday` | an exit between the telemetry line and the record, a state file behind the telemetry, midnights |
| `ToldOnce` | a restart or midnight that crosses a threshold again |
| `OneCardPerName` | two calls between their lists and the creation |
| `FulfilledIsSealed`, `SealedIsNotReasked` | a lost transition around the sealing of a value |
| `PendingEnds`, `CallEnds` | a request nobody ends after exits of either process |
| `Spaced` | re-arming that fires early, missed firings made up for |
| `EnabledIsArmed`, `EnabledFires` | a reload, change or callback that loses a timer |
| `LineageKept`, `OnePair` | two writes of one answer, two refreshes of one token |
| `CompletedIsSaved` | overlapping polls, a store that fails |
| `KeptAlive` | a cooldown that never ends |
| `NoneLeft`, `ImplementsContract` | `stop()` during a launch, two restart loops |
| `DeathIsHeard`, `ComesBack` | a death before the listener is on, a loop that gives up |
| `RowIsTold` | tiers told at exactly one attempt number each |
| `OneTaskPerMessage` | a restart that forgets what was handled |
| `ProcessedIsKept`, `OwedIsHandled` | a lost event, a failed write, a message marked before it is written |

`ImplementsExecutor` deserves a word. `SerialExecutor` has tickets: a submission, a
resume and a re-queue each grant a task one, a run takes one and may only begin
when nothing executes. The mapping computes a task's tickets from the history
variables. No stale write may therefore run a task without something that
asked for it, in any order of the writers.

`ImplementsContract` maps the manager to `SingleServer`: the processes there are, and
whether `stop()` has been called. The contract launches only when there is none and
nobody has called; so a loop that goes round again, or one that does not look at
`stopped`, is a step the contract does not have.

## 5. What the code does not promise

Behaviour the models have because the code has it. Where a property would forbid
it, the property names the exclusion, and the exclusion was seen to be needed:
without it TLC finds the property violated.

*Task pipeline.* With `SlowPolls` two runs start, possibly of one task. Two writers
that found one wait both write: a task that has ended meanwhile runs again.
Continuations appended from one copy lose one of them.

*Loop.* `iteration` and `events` are the object's, not the run's
(`agent/loop.ts:466`, `:842`): a long-lived process reaches the ceiling "per task"
with a fresh task, and a task may trip on its first calls together with the last
task's. `awaitingNudges` and `awaiting_completion` are not reset either. A
`credential_request` whose wait throws leaves its `human_gate` up, and the Agent
answers every task with `blocked_on_user` until it restarts.

*Lifecycle.* The liveness scan may mark an Agent errored that has just been started
and does not hold its lock yet. A start call that loses the lock to a living process
may use up the restart budget and mark the record errored while the recovery is about
to adopt that process: it adopts it and leaves the record. In both cases the stop of
the process leaves its mark behind, since `handleAgentExit` returns for an errored
record before it takes the mark away (`supervisor/supervisor.ts:4200`; the field's
comment, `:406`, says "remove after the post-stop state update"), and the mark then
hides the next crash. Calls that overlap may restart what one of them has stopped. The cleanup may take a living
process's lock (`supervisor.ts:2748`); the process notices at its next refresh. A
killed adopted process that ignores SIGTERM makes the stop throw.

*Budget.* After midnight a blocked Agent still refuses (`budget_day`). When
yesterday's sum was already over a threshold the warning of the new day may be
skipped, and a block that a restart finds is not announced again.

*Credentials.* Two transitions that read the same pending record both write, so a
terminal state may be replaced by another one. A lock file left by an exit refuses
its name for ever.

*Scheduler.* A period longer than `setTimeout` can wait fires at once, again and
again (`Waitable` is the theorem's assumption). Overlapping reloads leave a schedule
with two timers, one of which no `stop()` reaches. `recordFired` writes an old copy
over the operator's change.

*Tokens.* An exit between the exchange and the write loses a rotated token. A
refresh in flight undoes a logout (`src/src/cli/main.ts:3693`). Overlapping polls may
turn `completed` into `failed` (`http/server.ts:896`). Two start routes leave two
sessions. A token without `expires_in` is never renewed (`oauth/refresh-service.ts:131`).

*MCP.* `stop()` waits for a loop that sleeps, up to the longest backoff
(`mcp/restart-manager.ts:203`); called during the first launch it leaves the server.
A server that comes up and dies at once is restarted every 200 ms, since a success
resets the counter. "failed 5 consecutive restarts" is told when four have.

*Pub.* The live handler does not look at `processedMessageIds`, although the sweep's
comment calls it idempotent against the live path: a message that the sweep takes
before its handler has ended gets two tasks. A peer's old message, found by a sweep
or arriving late, resumes a task that was parked after it, since no times are
compared; the timeout's write may un-park a later wait; and a message that was a
continuation is not seeded at a restart, so a sweep handles it again. A dropped
connection is reopened only by the Agent's own sending, and a failed connect at boot
leaves the Agent without a wake source.

## 6. Proofs

Every theorem is for any value of the constants and rests on the named `ASSUME` of
its module (ranges of the constants, no more) and on what its statement assumes.

| Module | Theorem | Statement |
|---|---|---|
| `AgentTasksProofs` | `TypeCorrect` | `Spec => []TypeOK` |
| | `OneTaskAtATime` | `~SlowPolls /\ Spec => []SingleFlight` |
| | `Inductive` | `~SlowPolls /\ Spec => []IInv` |
| | `DestructiveTasksAskedFor` | `~SlowPolls /\ Spec => []DestructiveRunsAreAsked` |
| | `PipelineIsExecutor` | `~SlowPolls /\ Spec => ImplementsExecutor` |
| | `RunningTasksAreOwned` | `Spec => []RunningIsOwned` |
| `AgentProcessProofs` | `Inductive`, `TypeCorrect` | `Spec => []IInv`, `Spec => []TypeOK` |
| | `GateHolds` | `Spec => []QuietWhenGated` |
| | `ClaimsAreKickedBack`, `RoomIsHeard` | `Spec => DoneOrTold`, `Spec => RoomIsAnswered` |
| | `StormsAreCut` | `BufferHolds /\ Spec => []StormIsCut` |
| | `PubInductive`, `PubTypeCorrect` | `PubSpec => []PInv`, `PubSpec => []PubTypeOK` |
| | `MessageIsOneTask`, `NothingProcessedIsLost` | `PubSpec => []OneTaskPerMessage`, `[]ProcessedIsKept` |
| `AgentLifecycleProofs` | `TypeCorrect`, `AllWatched`, `LockExcludes` | `Spec => []TypeOK`, `[]TrackedIsWatched`, `[]OneHolder` |
| | `FlagIsOwned`, `StoppedStaysStopped` | `Spec => []FlagHasOwner`, `Spec => StopSticks` |
| `BudgetTrackerProofs` | `Inductive`, `TypeCorrect` | `Spec => []IInv`, `[]TypeOK` |
| | `CapHolds`, `NoneRefusedBelow`, `OperatorToldOnce` | `Spec => AdmittedUnderCap`, `[]RefusedToday`, `[]ToldOnce` |
| `CredentialRequestsProofs` | `Inductive`, `TypeCorrect` | `Spec => []IInv`, `[]TypeOK` |
| | `OneCard`, `FulfilledMeansSealed`, `NotReasked` | `Spec => []OneCardPerName`, `[]FulfilledIsSealed`, `[]SealedIsNotReasked` |
| `SchedulerProofs` | `Confined`, `TypeCorrect` | `Spec => []IInv`, `[]TypeOK` |
| | `FiringsAreSpaced` | `Waitable /\ Spec => []Spaced` |
| | `EnabledSchedulesAreArmed` | `Spec => []EnabledIsArmed` |
| `McpServerProofs` | `Inductive`, `TypeCorrect` | `Spec => []IInv`, `[]TypeOK` |
| | `StopLeavesNothing`, `OneServer`, `DeathNoticed`, `RowTold` | `Spec => []NoneLeft`, `[]OneChild`, `[]DeathIsHeard`, `[]RowIsTold` |
| | `ManagerKeepsContract` | `Spec => ImplementsContract` |
| `TokenRefreshProofs` | `Inductive`, `TypeCorrect` | `Spec => []IInv`, `[]TypeOK` |
| | `LineHolds`, `PairHolds`, `CompletedMeansSaved` | `Spec => []LineageKept`, `[]OnePair`, `[]CompletedIsSaved` |
| | `ResultStands` | `Spec => TerminalSticks` |

The inductive invariants, and why the properties need them:

- **AgentTasks.** `Alone`: at most one tick is anywhere in `tickTaskPoll`, polling
  included; `SingleFlight` speaks of claimed ticks only, and a second tick still
  polling would claim next. `FlagRaised` keeps a new tick out from claim to return.
  `Held`: ids held by ticks, sweep and writers stand for files that exist. `Owed`:
  every pending file, and every claim whose run has not begun, is covered by a
  ticket; a stale writer may overwrite a file at any time, but only with `pending`,
  and then it grants a ticket. `NoDestructiveRequeue`: the boot sweep never re-queued
  a destructive task. The proof sorts steps by what they do to tickets: `StepKinds`
  shows that each grants one, begins a run, or changes none and makes no file pending.
  `RunningIsKept` strengthens `RunningIsOwned`: the owner of a `running` file is a run
  that has not written its result, not just one in progress. A run that has written
  it would pass as owner of a file that another slot has marked since; with the
  distinction the property is inductive with overlapping polls too.
- **AgentLoop.** `Mirrors`: what a run has really done agrees with the counters the
  guards read, since `Begin` resets both; without a proper reset it breaks with
  the second task. `StormIsCut` needs a second invariant about the tail of the ring
  buffer, which is why it assumes that the buffer holds what the detectors look at.
- **AgentLifecycle.** `OneHolder` says of every process that works as the Agent that
  it has the lock, not just that there is one; that makes it inductive, given the
  types. `TrackedIsWatched` is inductive with the types alone. The mark of an intended
  stop needs two accounts. `Matched`, until a living process is misjudged: nothing is
  waited for but the tracked process, the record does not call it errored, and what a
  stop has signalled is still waited for; so the exit that is handled next takes the
  mark away. `Marked`, until calls meet: a stop that looks for an orphan is alone, and
  the mark stands as long as a signalled child does. The attempt to prove it found the
  adopted process with an errored record of section 5, which needs more events than the
  run has; `mistaken` now counts it, and `FlagHasOwner` names the process whose exit
  will take the mark away.
- **BudgetTracker.** `Places` (what each place in a call implies), `FileIsToday`,
  `BlockedAtCap`, `Covered` (the tracker counts no less than the telemetry, up to the
  call between its two writes), `Counted` (nor more), and for the notifications `WarnKept`, `BlockKept` and
  `Once`: a written notification is remembered by the flag or by the state file that
  the next boot reads.
- **CredentialRequests.** `Deduped` (a name in flight has one call), `ClearStays` (a call
  that saw no pending request still sees none when it creates one), `SealedFirst` (a
  fulfilling write comes after its seal), `HadIsThere`.
- **Scheduler.** `InTime`, `OneEach`, `TimersInTime` and `Alone` hold until two reloads
  overlap (`overlapped`): a schedule has one timer, which does not fire before the
  stored instant. `EnabledIsCovered` holds with overlapping reloads as well: an enabled
  schedule has a timer or callback, or a reload whose scan is still to come or has
  seen it, or it was dropped by a failure. A change to the file always has a reload
  behind it, and a scan in the past does not count.
- **McpServer.** `StartPlace`, `LoopPlace` and `StopPlace` say which of the three may hold
  a process; `Placed` that each existing process is held by one; `Heard` that the current
  one's close, and no other's, is listened to; `Row` counts what was told. The refinement
  sorts the steps into three: a launch, when the places leave none that exists; the end
  of the one there is; and a launched process that comes up, which changes nothing
  (`Starting`: it cannot have died before).
- **PubWake.** `Claimed` adds up, for each message, the tasks made of it, its one event
  or live handler (`Live`) and the sweep when it is at it (`Swept`): one in all, two if
  the sweep came upon the handler. `OneEvent` says that the event, its arrival and the
  handler exclude each other and that none comes back, `Known` that a message with a
  task is in the memory of the process, so no sweep begins on it. For `ProcessedIsKept`
  the strengthening is `Agree`: every copy of the parked task's body that will be
  written is, but for what crossed, the body on disk. That the sweep's `Min` is a member
  of its backlog (`LeastIsIn`) comes from the well-foundedness of `<`.
- **TokenRefresh.** `Alone` (without overlap one writer at most) and `Answers` (its copy
  is what is stored, its answer what the provider honours) as long as nothing has
  crossed; `Fresh` (a code is exchanged once and its tokens are nowhere else until
  they are stored), on which the healing by a new sign-in rests; `Held`, the
  properties while a writer still owes the store its answer.

Every invariant and every action property of the passing runs is a theorem. Only
model-checked is what is out of the prover's reach, everything under fairness:
`PendingIsPicked`, `WaitEnds`, `PendingEnds`, `CallEnds`, `EnabledFires`, `DeathIsNoticed`,
`DoublesEnd`, `CallsEnd`, `KeptAlive`, `ComesBack`, `OwedIsHandled`.
Nothing is claimed about `ENABLED`, and no module has a recursive definition.

## 7. Not modelled

- Failures of a write (a full disk), except where the code handles one; files edited
  by hand.
- Message contents, task bodies beyond which continuations they hold, prompts and
  histories; the router's choice.
- `cost_burst` and `no_progress` of the detectors, which read money and clocks: they
  can trip a run wherever `ModelTrips` may.
- The operator deleting a value from the vault; the credential rate cap's count.
- Run-once and cron expressions without a next instant; a Node timer that fires
  before its delay.
- Archiving, deleting and provisioning of an Agent; the self-restarting part of an
  Agent's boot before it takes its lock.
- MCP servers over HTTP, which are not restarted; the loopback sign-in's redirect
  server.
- The components of the second table of section 1: their state is not shared
  between concurrent steps, or the step that shares it is in a module above. They
  are most of the repository's lines: the web application, the command line, the
  routes, the wizards and the providers' translations.

## 8. Plan

1. Proofs: a contract for a credential request and one for an Agent's process, as
   abstract specifications like `SerialExecutor`, and that the modules implement them.
2. The pub bridge's watermark and the connectors' inbound queue.
3. Composition of `AgentLoop` with `AgentTasks` in one instance, so that which outcome
   ends a run is no longer a choice.
