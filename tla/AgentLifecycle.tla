--------------------------- MODULE AgentLifecycle ---------------------------
(***************************************************************************)
(* One Agent as the supervisor keeps it: the record in supervisor.json,    *)
(* the process it tracks, the lock by which a process shows that it is     *)
(* alive, and the parties that start, stop, restart, adopt and bury its    *)
(* processes: operators' calls, the exit handler, the boot-time recovery,  *)
(* the liveness scan, the shutdown and the processes themselves.           *)
(*                                                                         *)
(* All of it is keyed by the Agent's name and no operation reads another   *)
(* Agent's entry, so one Agent stands for each.                            *)
(***************************************************************************)
EXTENDS Integers, FiniteSets

CONSTANTS
    Pids,         \* processes that can exist or be remembered at once
    Calls,        \* stop, start and restart calls in progress at once
    Budget,       \* automatic restarts allowed within a minute
    MaxEvents     \* bound: calls, processes that die on their own, and exits
                  \* of the supervisor, all together

None == 0

ASSUME LifecycleAssumption ==
    /\ Pids \subseteq Nat \ {None}
    /\ Calls \subseteq Nat
    /\ {Budget, MaxEvents} \subseteq Nat

VARIABLES
    record,   \* the Agent's entry of supervisor.json
    up,       \* the supervisor runs
    closing,  \* isShuttingDown
    tracked,  \* the tracked process, or NoProcess
    watch,    \* the processes whose exit still has to be handled
    flag,     \* the Agent's name is in intentionalStops
    recent,   \* restarts of the last minute in restartHistory
    recovery, \* the progress of recoverFromState
    scan,     \* the progress of the liveness scan
    call,     \* [Calls -> the progress of one call]
    proc,     \* [Pids -> ProcStates]
    lock,     \* the process whose lock directory looks fresh, or None
    pidFile,  \* what the pid file says, or None when there is none
    wiped,    \* history: a cleanup removed the lock of a living process
    mistaken, \* history: a scan took a living process for dead, or a recovery
              \* adopted one past a tracked one or an errored record
    stopped,  \* history: processes a stop of this supervisor has signalled
    crossed,  \* history: a call met another one or the recovery
    events    \* bound counter

sup == <<up, closing, tracked, watch, flag, recent>>
os == <<proc, lock, pidFile>>
history == <<wiped, mistaken, stopped, crossed>>
vars == <<record, sup, recovery, scan, call, os, history, events>>

\* waiting is reported like running; the three blocked states are alike.
RecordStates == {"running", "blocked", "stopped", "errored"}
Record == [state : RecordStates, pid : Pids \cup {None}]
Entry(s, p) == [state |-> s, pid |-> p]

\* adopted: found alive at boot, watched by its lock instead of as a child.
Process == [pid : Pids, adopted : BOOLEAN]
NoProcess == [pid |-> None, adopted |-> FALSE]

\* "lost": up, its connection broken; "failed": dead by another status or
\* signal than 0 or SIGTERM, as long as an exit promise will tell of it.
ProcStates == {"gone", "booting", "locked", "up", "lost", "ending", "failed"}
Holding == {"locked", "up", "lost", "ending"}
Living == Holding \cup {"booting"}

Ops == {"start", "stop", "restart", "evict", "shutdown"}
CallPcs == {"idle", "starting", "waiting", "leaving", "killed",
            "orphan", "polling", "cleanup"}
IdleCall == [op |-> "start", pc |-> "idle", target |-> NoProcess]

\* pid: of the record's copy; "copied": the copy is to be revived.
RecoveryPcs == {"done", "waiting", "copied"}
Recovered == [pc |-> "done", pid |-> None]

\* A host that has just come up: no process lives, what the last shutdown
\* left of the record has no pid.
Init ==
    /\ record \in {Entry("running", None), Entry("stopped", None)}
    /\ up = FALSE /\ closing = FALSE
    /\ tracked = NoProcess /\ watch = {} /\ flag = FALSE /\ recent = 0
    /\ recovery = Recovered /\ scan = FALSE
    /\ call = [c \in Calls |-> IdleCall]
    /\ proc = [p \in Pids |-> "gone"]
    /\ lock = None /\ pidFile = None
    /\ wiped = FALSE /\ mistaken = FALSE /\ stopped = {} /\ crossed = FALSE
    /\ events = 0

Happens == events < MaxEvents /\ events' = events + 1

Lives(p) == p # None /\ proc[p] \in Living
LivePids == {p \in Pids : proc[p] \in Living}
Holders == {p \in Pids : proc[p] \in Holding}

\* isLockHeld: it tells neither who holds the lock nor whether he lives.
IsLockHeld == lock # None

\* AdoptedAgentImpl.isAlive; the process table only where no pid file is.
IsAlive(p) == IsLockHeld \/ (pidFile = None /\ Lives(p))

-----------------------------------------------------------------------------
(* Processes.                                                              *)

\* A pid is used again once nothing remembers it.
Remembered ==
    {w.pid : w \in watch} \cup {call[c].target.pid : c \in Calls}
    \cup {tracked.pid, lock, pidFile, record.pid, recovery.pid}
Fresh(p) ==
    LET free == {q \in Pids : proc[q] \notin Living} \ Remembered
    IN  p \in free /\ \A q \in free : p <= q

Failed(p) == IF [pid |-> p, adopted |-> FALSE] \in watch THEN "failed" ELSE "gone"

\* SIGTERM: fatal until the bootstrap installs its handler.
Term(p) ==
    IF proc[p] = "booting" THEN "gone"
    ELSE IF proc[p] \in {"locked", "up", "lost"} THEN "ending" ELSE proc[p]
Kill(p) == IF proc[p] \in Living THEN Failed(p) ELSE proc[p]

\* MUTANT of TryLock: the lock is taken without a look at its holder.
TryLockAnyway(p) ==
    /\ proc[p] = "booting"
    /\ pidFile' = p /\ lock' = p
    /\ proc' = [proc EXCEPT ![p] = "locked"]
    /\ UNCHANGED <<record, sup, recovery, scan, call, history, events>>

\* acquireProcessLock writes the pid file before it tries the lock; a
\* process that does not get the lock exits with 75.
TryLock(p) ==
    /\ proc[p] = "booting"
    /\ pidFile' = p
    /\ IF IsLockHeld
       THEN /\ proc' = [proc EXCEPT ![p] = Failed(p)]
            /\ UNCHANGED lock
       ELSE /\ proc' = [proc EXCEPT ![p] = "locked"]
            /\ lock' = p
    /\ UNCHANGED <<record, sup, recovery, scan, call, history, events>>

\* The exit hook removes the lock directory, whoever made it.
Unlocked(p) == IF proc[p] \in Holding THEN None ELSE lock

\* AgentProcess.start: without a supervisor to register with, it exits.
Register(p) ==
    /\ proc[p] = "locked"
    /\ IF up /\ ~closing
       THEN /\ proc' = [proc EXCEPT ![p] = "up"]
            /\ record' = Entry("running", p)
            /\ UNCHANGED lock
       ELSE /\ proc' = [proc EXCEPT ![p] = Failed(p)]
            /\ lock' = Unlocked(p)
            /\ UNCHANGED record
    /\ UNCHANGED <<sup, recovery, scan, call, pidFile, history, events>>

\* A heartbeat carries the machine's state and no pid; when it fails, the
\* process connects and registers again.
Heartbeat(p) ==
    /\ up
    /\ \/ /\ proc[p] = "up"
          /\ \E s \in {"running", "blocked"} : record' = [record EXCEPT !.state = s]
          /\ UNCHANGED proc
       \/ /\ proc[p] = "lost" /\ ~closing
          /\ record' = Entry("running", p)
          /\ proc' = [proc EXCEPT ![p] = "up"]
    /\ UNCHANGED <<sup, recovery, scan, call, lock, pidFile, history, events>>

\* The graceful end after SIGTERM.
Finish(p) ==
    /\ proc[p] = "ending"
    /\ proc' = [proc EXCEPT ![p] = "gone"]
    /\ lock' = Unlocked(p)
    /\ UNCHANGED <<record, sup, recovery, scan, call, pidFile, history, events>>

\* A crash runs the exit hook; a kill from outside leaves the lock.
Crash(p) ==
    /\ proc[p] \in Living /\ Happens
    /\ proc' = [proc EXCEPT ![p] = Failed(p)]
    /\ lock' \in {lock, Unlocked(p)}
    /\ UNCHANGED <<record, sup, recovery, scan, call, pidFile, history>>

\* The lock of a dead process is stale ten seconds after its last refresh,
\* at least five after its death, which is longer than stop waits for it.
Stale ==
    /\ IsLockHeld /\ ~Lives(lock)
    /\ \A c \in Calls : call[c].pc # "killed"
    /\ lock' = None
    /\ UNCHANGED <<record, sup, recovery, scan, call, proc, pidFile,
                   history, events>>

\* MUTANT of Compromised: a failed refresh is swallowed.
CompromisedQuietly(p) == proc[p] \in Holding /\ lock # p /\ UNCHANGED vars

\* The refresh of a lock that is gone or another's throws out of a timer.
Compromised(p) ==
    /\ proc[p] \in Holding /\ lock # p
    /\ proc' = [proc EXCEPT ![p] = Failed(p)]
    /\ UNCHANGED <<record, sup, recovery, scan, call, lock, pidFile, history, events>>

-----------------------------------------------------------------------------
(* Start and exit.                                                         *)

\* startAgent up to the spawn and the record; nothing is awaited between.
StartAgent(p, table) ==
    /\ Fresh(p)
    /\ proc' = [table EXCEPT ![p] = "booting"]
    /\ tracked' = [pid |-> p, adopted |-> FALSE]
    /\ record' = Entry("running", p)

\* The exit promise of a process: a child's resolves when it has died, an
\* adopted one's when its lock does not look held.
HasExited(w) == IF w.adopted THEN ~IsAlive(w.pid) ELSE ~Lives(w.pid)

\* MUTANT of ExitState: the flag is not looked at.
ExitStateForgetsFlag(w) ==
    IF closing THEN IF proc[w.pid] = "failed" /\ ~w.adopted THEN "errored" ELSE record.state
    ELSE IF recent >= Budget THEN "errored" ELSE "restarts"

\* What handleAgentExit makes of the record.
ExitState(w) ==
    IF flag THEN "stopped"
    ELSE IF closing THEN IF proc[w.pid] = "failed" /\ ~w.adopted THEN "errored" ELSE record.state
    ELSE IF recent >= Budget THEN "errored" ELSE "restarts"

Buried(w) == IF proc[w.pid] = "failed" /\ ~w.adopted
             THEN [proc EXCEPT ![w.pid] = "gone"] ELSE proc

\* handleAgentExit knows the name, not the process: whatever is tracked is
\* untracked.  An errored record ends it before the flag is consumed.
HandleAgentExit(w) ==
    /\ w \in watch /\ up /\ HasExited(w)
    /\ stopped' = stopped \ {w.pid}
    /\ IF record.state = "errored"
       THEN /\ tracked' = NoProcess /\ watch' = watch \ {w}
            /\ proc' = Buried(w)
            /\ UNCHANGED <<record, flag, recent>>
       ELSE /\ flag' = FALSE
            /\ IF ExitState(w) = "restarts"
               THEN /\ recent' = recent + 1
                    /\ \E p \in Pids : /\ StartAgent(p, Buried(w))
                                       /\ watch' = (watch \ {w}) \cup {tracked'}
               ELSE /\ record' = Entry(ExitState(w), None)
                    /\ tracked' = NoProcess /\ watch' = watch \ {w}
                    /\ proc' = Buried(w)
                    /\ UNCHANGED recent
    /\ UNCHANGED <<up, closing, recovery, scan, call, lock, pidFile,
                   wiped, mistaken, crossed, events>>

\* Restarts drop out of the history a minute later.
Forget ==
    /\ recent > 0
    /\ recent' = recent - 1
    /\ UNCHANGED <<record, up, closing, tracked, watch, flag, recovery, scan, call,
                   os, history, events>>

-----------------------------------------------------------------------------
(* stopAgent, startAgent and restartAgent as operators and the Agent       *)
(* itself call them; the eviction at boot and the shutdown wait alike.     *)

ActiveCalls == {c \in Calls : call[c].pc # "idle"}
Vacant(c) == c \notin ActiveCalls /\ \A d \in Calls \ ActiveCalls : c <= d
MayCall(c) == up /\ Vacant(c)

\* The stop of a tracked process: SIGTERM, or nothing when it is dead; an
\* adopted process that is dead while its lock looks held is not waited for.
Terminate(c, op, w) ==
    /\ call' = [call EXCEPT ![c] =
          [op |-> op, target |-> w,
           pc |-> IF w.adopted /\ IsAlive(w.pid) /\ ~Lives(w.pid)
                  THEN "leaving" ELSE "waiting"]]
    /\ proc' = [proc EXCEPT ![w.pid] = Term(w.pid)]

\* cli.agent.start, cli.agent.stop, restart_self and their HTTP forms.
CallArrives(c, op) ==
    /\ MayCall(c) /\ Happens
    /\ crossed' = (crossed \/ recovery.pc # "done" \/ ActiveCalls # {})
    /\ IF op = "start"
       THEN /\ call' = [call EXCEPT ![c] = [IdleCall EXCEPT !.op = op, !.pc = "starting"]]
            /\ UNCHANGED <<flag, proc, stopped>>
       ELSE /\ flag' = TRUE
            /\ IF tracked # NoProcess
               THEN /\ Terminate(c, op, tracked)
                    /\ stopped' = stopped \cup {tracked.pid}
               ELSE /\ call' = [call EXCEPT ![c] = [IdleCall EXCEPT !.op = op, !.pc = "orphan"]]
                    /\ UNCHANGED <<proc, stopped>>
    /\ UNCHANGED <<record, up, closing, tracked, watch, recent, recovery, scan,
                   lock, pidFile, wiped, mistaken>>

\* MUTANT of StopKill: SIGTERM is sent a second time instead.
StopKillAgain(c) ==
    /\ call[c].pc = "waiting" /\ Lives(call[c].target.pid)
    /\ proc' = [proc EXCEPT ![call[c].target.pid] = Term(call[c].target.pid)]
    /\ UNCHANGED <<record, sup, recovery, scan, call, lock, pidFile, history, events>>

\* After five seconds: SIGKILL.  A child's exit is then awaited, an adopted
\* process is given three seconds to lose its lock, one already dead is not.
StopKill(c) ==
    LET w == call[c].target
    IN  /\ call[c].pc = "waiting" /\ (Lives(w.pid) \/ (w.adopted /\ IsAlive(w.pid)))
        /\ proc' = [proc EXCEPT ![w.pid] = Kill(w.pid)]
        /\ call' = [call EXCEPT ![c].pc = IF ~w.adopted THEN "waiting"
                                         ELSE IF Lives(w.pid) THEN "killed" ELSE "leaving"]
        /\ UNCHANGED <<record, sup, recovery, scan, lock, pidFile, history, events>>

\* The promise of an eviction has no handler.
HasEnded(c) ==
    \/ call[c].pc = "leaving"
    \/ /\ call[c].pc \in {"waiting", "killed"}
       /\ \/ call[c].op = "evict" /\ HasExited(call[c].target)
          \/ call[c].op # "evict" /\ call[c].target \notin watch

\* A restart goes on to start; the others are done.
Next1(op) == IF op \in {"restart", "evict"} THEN "starting" ELSE "idle"
Resume(c, pc) ==
    call' = [call EXCEPT ![c] = [IdleCall EXCEPT !.pc = pc,
                                   !.op = IF pc = "idle" THEN "start" ELSE call[c].op]]

\* The process is gone: the record says stopped whatever it said.
StopReturns(c) ==
    /\ up /\ call[c].op \in {"stop", "restart", "evict"} /\ HasEnded(c)
    /\ record' = IF call[c].op = "evict" THEN record ELSE Entry("stopped", None)
    /\ Resume(c, Next1(call[c].op))
    /\ UNCHANGED <<sup, recovery, scan, os, history, events>>

\* A killed process whose lock still looks held: the stop throws.
StopThrows(c) ==
    /\ up /\ call[c].pc = "killed" /\ ~HasEnded(c) /\ IsAlive(call[c].target.pid)
    /\ flag' = IF call[c].op \in {"stop", "restart"} THEN FALSE ELSE flag
    /\ Resume(c, IF call[c].op = "evict" THEN "starting" ELSE "idle")
    /\ call[c].op # "shutdown"
    /\ UNCHANGED <<record, up, closing, tracked, watch, recent, recovery, scan, os,
                   wiped, mistaken, stopped, crossed, events>>

\* killOrphanedAgentIfAny: the lock is looked at, then the pid file names
\* the process to signal.
StopOrphan(c) ==
    /\ up /\ call[c].pc = "orphan"
    /\ IF IsLockHeld /\ pidFile # None
       THEN /\ call' = [call EXCEPT ![c].pc = "polling",
                                    ![c].target = [NoProcess EXCEPT !.pid = pidFile]]
            /\ proc' = [proc EXCEPT ![pidFile] = Term(pidFile)]
       ELSE /\ call' = [call EXCEPT ![c].pc = "cleanup"]
            /\ UNCHANGED proc
    /\ UNCHANGED <<record, sup, recovery, scan, lock, pidFile, history, events>>

\* The lock has come free, or two seconds have passed and SIGKILL is sent.
PollOrphan(c) ==
    /\ up /\ call[c].pc = "polling"
    /\ proc' = IF IsLockHeld THEN [proc EXCEPT ![call[c].target.pid] = Kill(call[c].target.pid)]
                              ELSE proc
    /\ call' = [call EXCEPT ![c].pc = "cleanup"]
    /\ UNCHANGED <<record, sup, recovery, scan, lock, pidFile, history, events>>

\* MUTANT of CleanUp: the flag of a stop that found nothing to stop stays up.
CleanUpKeepsFlag(c) ==
    /\ up /\ call[c].pc = "cleanup"
    /\ lock' = None /\ pidFile' = None
    /\ wiped' = (wiped \/ Lives(lock))
    /\ record' = Entry("stopped", None)
    /\ Resume(c, Next1(call[c].op))
    /\ UNCHANGED <<sup, recovery, scan, proc, mistaken, stopped, crossed, events>>

\* cleanupStaleAgentLock removes the lock and the pid file unseen; then the
\* flag goes down and the record says stopped.
CleanUp(c) ==
    /\ up /\ call[c].pc = "cleanup"
    /\ lock' = None /\ pidFile' = None
    /\ wiped' = (wiped \/ Lives(lock))
    /\ flag' = FALSE
    /\ record' = Entry("stopped", None)
    /\ Resume(c, Next1(call[c].op))
    /\ UNCHANGED <<up, closing, tracked, watch, recent, recovery, scan, proc,
                   mistaken, stopped, crossed, events>>

\* startAgent throws when a process is tracked.
StartStep(c) ==
    /\ up /\ call[c].pc = "starting"
    /\ Resume(c, "idle")
    /\ IF tracked # NoProcess
       THEN UNCHANGED <<record, tracked, watch, proc>>
       ELSE \E p \in Pids : StartAgent(p, proc) /\ watch' = watch \cup {tracked'}
    /\ UNCHANGED <<up, closing, flag, recent, recovery, scan, lock, pidFile,
                   history, events>>

-----------------------------------------------------------------------------
(* The liveness scan.                                                      *)

\* MUTANT of ScanBegin: only a tracked process is asked after.
ScanBeginTracked ==
    /\ up /\ ~closing /\ ~scan
    /\ record.state = "running" /\ record.pid # None /\ tracked # NoProcess
    /\ scan' = TRUE
    /\ UNCHANGED <<record, sup, recovery, call, os, history, events>>

\* scanAgentLiveness reads the record and asks after the lock.
ScanBegin ==
    /\ up /\ ~closing /\ ~scan
    /\ record.state = "running" /\ record.pid # None
    /\ scan' = TRUE
    /\ UNCHANGED <<record, sup, recovery, call, os, history, events>>

\* The answer is applied to whatever is tracked and recorded by now.
ScanEnd ==
    /\ up /\ scan
    /\ scan' = FALSE
    /\ IF IsLockHeld
       THEN UNCHANGED <<record, tracked, mistaken>>
       ELSE /\ record' = Entry("errored", None)
            /\ tracked' = NoProcess
            /\ mistaken' = (mistaken \/ LivePids # {} \/ watch # {})
    /\ UNCHANGED <<up, closing, watch, flag, recent, recovery, call, os, wiped,
                   stopped, crossed, events>>

-----------------------------------------------------------------------------
(* The supervisor's boot and its end.                                      *)

Boot ==
    /\ ~up
    /\ up' = TRUE
    /\ recovery' = [Recovered EXCEPT !.pc = "waiting"]
    /\ UNCHANGED <<record, closing, tracked, watch, flag, recent, scan, call, os,
                   history, events>>

\* recoverFromState has the listener and the timers up before it begins.
\* It takes its copies of all records and then goes through them.
RecoverCopies ==
    /\ up /\ recovery.pc = "waiting"
    /\ recovery' = IF record.state \in {"running", "blocked"}
                   THEN [pc |-> "copied", pid |-> record.pid] ELSE Recovered
    /\ UNCHANGED <<record, sup, scan, call, os, history, events>>

Recovering == up /\ recovery.pc = "copied"

\* MUTANT of RecoverAdopts: nobody waits for the adopted process to end.
RecoverAdoptsUnwatched ==
    /\ Recovering /\ IsLockHeld /\ recovery.pid # None /\ Lives(recovery.pid)
    /\ tracked' = [pid |-> recovery.pid, adopted |-> TRUE]
    /\ mistaken' = (mistaken \/ tracked # NoProcess \/ record.state = "errored")
    /\ recovery' = Recovered
    /\ crossed' = (crossed \/ ActiveCalls # {})
    /\ UNCHANGED <<record, up, closing, watch, flag, recent, scan, call, os, wiped,
                   stopped, events>>

\* A process of the current code that holds the lock is adopted.
RecoverAdopts ==
    LET w == [pid |-> recovery.pid, adopted |-> TRUE]
    IN  /\ Recovering /\ IsLockHeld /\ w.pid # None /\ Lives(w.pid)
        /\ tracked' = w
        /\ watch' = watch \cup {w}
        /\ mistaken' = (mistaken \/ tracked # NoProcess \/ record.state = "errored")
        /\ recovery' = Recovered
        /\ UNCHANGED <<record, up, closing, flag, recent, scan, call, os, wiped,
                       stopped, events>>
        /\ crossed' = (crossed \/ ActiveCalls # {})

\* A process of older code, or a pid that is not an Agent, is terminated
\* and a new one started.
RecoverEvicts(c) ==
    /\ Recovering /\ IsLockHeld /\ recovery.pid # None
    /\ Vacant(c)
    /\ Terminate(c, "evict", [pid |-> recovery.pid, adopted |-> TRUE])
    /\ recovery' = Recovered
    /\ crossed' = (crossed \/ ActiveCalls # {})
    /\ UNCHANGED <<record, sup, scan, lock, pidFile, wiped, mistaken, stopped,
                   events>>

RecoverStarts ==
    /\ Recovering /\ ~(IsLockHeld /\ recovery.pid # None)
    /\ recovery' = Recovered
    /\ IF tracked # NoProcess
       THEN UNCHANGED <<record, tracked, watch, proc>>
       ELSE \E p \in Pids : StartAgent(p, proc) /\ watch' = watch \cup {tracked'}
    /\ crossed' = (crossed \/ ActiveCalls # {})
    /\ UNCHANGED <<up, closing, flag, recent, scan, call, lock, pidFile,
                   wiped, mistaken, stopped, events>>

\* The supervisor is gone and with it all it kept in memory; its children
\* live on.
GoesDown ==
    /\ up' = FALSE /\ closing' = FALSE
    /\ tracked' = NoProcess /\ watch' = {} /\ flag' = FALSE /\ recent' = 0
    /\ recovery' = Recovered /\ scan' = FALSE
    /\ call' = [c \in Calls |-> IdleCall]
    /\ proc' = [p \in Pids |-> IF proc[p] = "up" THEN "lost"
                              ELSE IF proc[p] = "failed" THEN "gone" ELSE proc[p]]
    /\ stopped' = {}

\* A crash, or a restart that preserves the fleet.
SupervisorExit ==
    /\ up /\ Happens
    /\ GoesDown
    /\ UNCHANGED <<record, lock, pidFile, wiped, mistaken, crossed>>

\* shutdown: the tracked process is terminated, no flag is raised.
Shutdown(c) ==
    /\ MayCall(c) /\ ~closing /\ Happens
    /\ closing' = TRUE
    /\ IF tracked # NoProcess
       THEN Terminate(c, "shutdown", tracked)
       ELSE /\ call' = [call EXCEPT ![c] = [IdleCall EXCEPT !.op = "shutdown", !.pc = "leaving"]]
            /\ UNCHANGED <<proc>>
    /\ UNCHANGED <<record, up, tracked, watch, flag, recent, recovery, scan, lock,
                   pidFile, history>>

ShutdownEnds(c) ==
    /\ up /\ call[c].op = "shutdown"
    /\ HasEnded(c) \/ call[c].pc = "killed"
    /\ GoesDown
    /\ UNCHANGED <<record, lock, pidFile, wiped, mistaken, crossed, events>>

-----------------------------------------------------------------------------
ProcessStep ==
    \E p \in Pids : TryLock(p) \/ Register(p) \/ Heartbeat(p) \/ Finish(p)
                    \/ Crash(p) \/ Compromised(p)
CallStep ==
    \E c \in Calls :
        \/ \E op \in {"start", "stop", "restart"} : CallArrives(c, op)
        \/ StopKill(c) \/ StopReturns(c) \/ StopThrows(c) \/ StartStep(c)
        \/ StopOrphan(c) \/ PollOrphan(c) \/ CleanUp(c)
        \/ RecoverEvicts(c) \/ Shutdown(c) \/ ShutdownEnds(c)
Next ==
    \/ ProcessStep \/ CallStep \/ Stale \/ Forget
    \/ \E w \in watch : HandleAgentExit(w)
    \/ ScanBegin \/ ScanEnd
    \/ Boot \/ RecoverCopies \/ RecoverAdopts \/ RecoverStarts
    \/ SupervisorExit

Spec == Init /\ [][Next]_vars

\* Processes run, timers fire, promises settle.  A process need not end on
\* SIGTERM, crash, or be started; the supervisor need not exit or boot.
Fairness ==
    /\ \A p \in Pids : WF_vars(TryLock(p)) /\ WF_vars(Register(p))
                      /\ WF_vars(Heartbeat(p)) /\ WF_vars(Compromised(p))
    /\ \A c \in Calls : WF_vars(StopKill(c) \/ StopReturns(c) \/ StopThrows(c)
                                \/ StartStep(c) \/ StopOrphan(c) \/ PollOrphan(c)
                                \/ CleanUp(c) \/ ShutdownEnds(c))
    /\ WF_vars(\E w \in watch : HandleAgentExit(w))
    /\ WF_vars(Stale) /\ WF_vars(ScanBegin) /\ WF_vars(ScanEnd)
    /\ WF_vars(RecoverCopies \/ RecoverAdopts \/ RecoverStarts
               \/ \E c \in Calls : RecoverEvicts(c))
FairSpec == Spec /\ Fairness

-----------------------------------------------------------------------------
\* Every variable keeps its type; in particular the restarts counted in a
\* minute never exceed the budget.
TypeOK ==
    /\ record \in Record
    /\ up \in BOOLEAN /\ closing \in BOOLEAN /\ flag \in BOOLEAN
    /\ tracked \in Process \cup {NoProcess} /\ watch \subseteq Process
    /\ recent \in 0..Budget
    /\ recovery \in [pc : RecoveryPcs, pid : Pids \cup {None}] /\ scan \in BOOLEAN
    /\ call \in [Calls -> [op : Ops, pc : CallPcs,
                           target : [pid : Pids \cup {None}, adopted : BOOLEAN]]]
    /\ proc \in [Pids -> ProcStates]
    /\ lock \in Pids \cup {None} /\ pidFile \in Pids \cup {None}
    /\ wiped \in BOOLEAN /\ mistaken \in BOOLEAN /\ crossed \in BOOLEAN
    /\ stopped \subseteq Pids
    /\ events \in 0..MaxEvents

\* As long as no cleanup took the lock of a living process, at most one
\* process holds it or believes to.
OneHolder == ~wiped => \A p \in Holders : lock = p

\* Whatever the supervisor tracks, somebody waits for its exit: no path that
\* starts or adopts a process leaves its death to the scan alone.
TrackedIsWatched == tracked # NoProcess => tracked \in watch

\* The mark of an intended stop stands only while a stop looks for an orphan,
\* or until the exit of a process that a stop has signalled is handled; left
\* over, it would hide the next crash.  It can be left when the record of a
\* living process says errored, from a scan that misjudged it or from before
\* the recovery adopted it: handleAgentExit returns before it consumes it.
FlagHasOwner ==
    flag /\ ~mistaken =>
        \/ \E c \in Calls : call[c].pc \in {"orphan", "polling", "cleanup"}
        \/ \E w \in watch : w.pid \in stopped

\* When a child that a stop has signalled exits, it is not taken for a crash:
\* the exit starts no other.  An adopted process is left out: killed, its
\* lock may look held for longer than the stop waits, and the stop throws.
Restarts(w) == w \in watch /\ w \notin watch' /\ recent' > recent
StopSticks ==
    [][~mistaken /\ ~crossed =>
         \A w \in watch : ~w.adopted /\ w.pid \in stopped => ~Restarts(w)]_vars

\* The record says running and nothing runs.
Dead == up /\ record.state = "running" /\ LivePids = {}

\* A record that says running, with a pid, of an Agent of which no process
\* lives does not say so for ever while the supervisor is up: the exit
\* handler, the recovery or the scan corrects it.
DeathIsNoticed == (Dead /\ record.pid # None) ~> ~Dead

\* Two processes that both believe to hold the lock (a cleanup took it from
\* one of them) do not both go on: the refresh finds the lock gone.
DoublesEnd == (Cardinality(Holders) > 1) ~> (Cardinality(Holders) <= 1)

\* Each stop, start, restart, eviction and shutdown comes to an end, also of a
\* process that ignores SIGTERM and of one that dies with its lock held.
CallsEnd == \A c \in Calls : (call[c].pc # "idle") ~> (call[c].pc = "idle")
=============================================================================
