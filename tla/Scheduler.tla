------------------------------ MODULE Scheduler ------------------------------
(***************************************************************************)
(* The supervisor's Scheduler: schedule files on disk, one timer per       *)
(* enabled schedule, the callback that enqueues a task and re-arms, and    *)
(* the operators' changes, each of which rewrites a file and reloads.      *)
(*                                                                         *)
(* Scheduler.start() clears every timer it knows, awaits a scan of the     *)
(* files and then arms what the scan saw; nothing keeps two reloads, or a  *)
(* reload and a callback that is still awaiting, apart.                    *)
(*                                                                         *)
(* Time is relative: a clock tick takes one from every time that is still  *)
(* to come, so a time is the number of ticks until it, 0 when it has come. *)
(***************************************************************************)
EXTENDS Integers

CONSTANTS
    Schedules,
    Period,       \* ticks between two firings
    MaxDelay,     \* the longest delay setTimeout can wait
    Timers,       \* timers that can exist at once, known to the map or not
    Loaders,      \* reload() calls that can be in progress at once
    MaxChanges,   \* bound: changes by operators, plain reloads included
    MaxFailures,  \* bound: callbacks whose enqueue or hook fails
    MaxExits      \* bound: exits of the supervisor

Null == -1
NoTimer == 0
NoSchedule == "none"

ASSUME SchedulerAssumption ==
    /\ NoSchedule \notin Schedules
    /\ Period \in Nat \ {0}
    /\ MaxDelay \in Nat
    /\ Timers \subseteq Nat \ {NoTimer}
    /\ Loaders \subseteq Nat
    /\ {MaxChanges, MaxFailures, MaxExits} \subseteq Nat

VARIABLES
    kind,       \* [Schedules -> Kind], what no operation changes
    entry,      \* [Schedules -> Entry], the schedule files
    left,       \* [Schedules -> 1..Period], ticks to the next cron instant
    up,         \* the supervisor runs
    timer,      \* [Timers -> a timer, or the callback it became]
    handle,     \* [Schedules -> Timers \cup {NoTimer}], the map of handles
    loader,     \* [Loaders -> the progress of one change and reload]
    recent,     \* history: ticks until the schedule may fire again
    early,      \* history: schedules enqueued before that, nothing overlapping
    overlapped, \* history: a reload or change met another or a callback
    dropped,    \* history: schedules whose callback failed before re-arming
    changes, failures, exits   \* bound counters

vars == <<kind, entry, left, up, timer, handle, loader, recent, early,
          overlapped, dropped, changes, failures, exits>>

\* hook: the callback runs an extension's tick hook, where an Agent's saves
\* a task.  interval: the timing is interval_seconds, not cron, which is all
\* an extension has.
Kind == {k \in [hook : BOOLEAN, interval : BOOLEAN] : ~(k.hook /\ k.interval)}

EntryStates == {"gone", "off", "on"}

\* next: ticks to next_fire_at, or Null.
Entry == [state : EntryStates, next : 0..Period \cup {Null}]

TimerPcs == {"free", "armed", "read", "enqueued", "recording"}
FreeTimer == [pc |-> "free", s |-> NoSchedule, rem |-> 0,
              base |-> [state |-> "gone", next |-> Null]]

LoaderPcs == {"idle", "changing", "changed", "scanning", "arming"}

\* want: the state a change is about to write; seen: the scan's copies.
IdleLoader == [pc |-> "idle", s |-> NoSchedule, want |-> "gone", seen |-> {}]

\* What an earlier supervisor left: a file just written by createSchedule,
\* which computes the first firing, a disabled one, or none.
Init ==
    /\ kind \in [Schedules -> Kind]
    /\ entry \in [Schedules -> {[state |-> "on", next |-> Period],
                              [state |-> "off", next |-> Null],
                              [state |-> "gone", next |-> Null]}]
    /\ \A s \in Schedules : kind[s].hook => entry[s].state # "off"
    /\ left = [s \in Schedules |-> Period]
    /\ up = FALSE
    /\ timer = [n \in Timers |-> FreeTimer]
    /\ handle = [s \in Schedules |-> NoTimer]
    /\ loader = [r \in Loaders |-> IdleLoader]
    /\ recent = [s \in Schedules |-> 0]
    /\ early = {}
    /\ overlapped = FALSE
    /\ dropped = {}
    /\ changes = 0 /\ failures = 0 /\ exits = 0

\* nextFireTime from now.
NextFire(s) == IF kind[s].interval THEN Period ELSE left[s]

Free == {n \in Timers : timer[n].pc = "free"}
Firing == {n \in Timers : timer[n].pc \in {"read", "enqueued", "recording"}}
Loading == {r \in Loaders : loader[r].pc # "idle"}

\* A new call takes the first free place.
MayLoad(r) == loader[r].pc = "idle" /\ \A q \in Loaders \ Loading : r <= q

\* setTimeout: a delay beyond its range fires at once.
Delay(d) == IF d > MaxDelay THEN 0 ELSE d

\* arm's delay for an entry: a firing that was missed is skipped.
ArmDelay(s, e) == Delay(IF e.next \in {Null, 0} THEN NextFire(s) ELSE e.next)

Armed(s, e) == [FreeTimer EXCEPT !.pc = "armed", !.s = s, !.rem = ArmDelay(s, e)]

-----------------------------------------------------------------------------
(* Time.                                                                   *)

Less(t) == IF t > 0 THEN t - 1 ELSE t

Tick ==
    /\ entry' = [s \in Schedules |-> [entry[s] EXCEPT !.next = Less(@)]]
    /\ left' = [s \in Schedules |-> IF left[s] = 1 THEN Period ELSE left[s] - 1]
    /\ timer' = [n \in Timers |-> [timer[n] EXCEPT !.rem = Less(@), !.base.next = Less(@)]]
    /\ loader' = [r \in Loaders |-> [loader[r] EXCEPT !.seen =
                    {[s |-> x.s, e |-> [x.e EXCEPT !.next = Less(@)]] : x \in @}]]
    /\ recent' = [s \in Schedules |-> Less(recent[s])]
    /\ UNCHANGED <<kind, up, handle, early, overlapped, dropped, changes, failures, exits>>

-----------------------------------------------------------------------------
(* The timer callback: fire and fireExtension.                             *)

\* The callback deletes whatever handle the map has for the schedule, and
\* reads the file: a schedule that is gone or disabled is skipped.
Fire(n) ==
    LET s == timer[n].s IN
    /\ timer[n].pc = "armed"
    /\ timer[n].rem = 0
    /\ handle' = [handle EXCEPT ![s] = NoTimer]
    /\ timer' = [timer EXCEPT ![n] =
                    IF entry[s].state = "on"
                    THEN [FreeTimer EXCEPT !.pc = "read", !.s = s]
                    ELSE FreeTimer]
    /\ overlapped' = (overlapped \/ Loading # {})
    /\ UNCHANGED <<kind, entry, left, up, loader, recent, early, dropped,
                   changes, failures, exits>>

\* The task is saved, or the hook has run.
Enqueue(n) ==
    LET s == timer[n].s IN
    /\ timer[n].pc = "read"
    /\ timer' = [timer EXCEPT ![n].pc = "enqueued"]
    /\ recent' = [recent EXCEPT ![s] = NextFire(s)]
    /\ early' = IF recent[s] > 0 /\ ~overlapped THEN early \cup {s} ELSE early
    /\ UNCHANGED <<kind, entry, left, up, handle, loader, overlapped, dropped,
                   changes, failures, exits>>

\* MUTANT of EnqueueFails: a failed hook skips the re-arming too.
EnqueueFailsForAll(n) ==
    /\ timer[n].pc = "read"
    /\ failures < MaxFailures
    /\ failures' = failures + 1
    /\ timer' = [timer EXCEPT ![n] = FreeTimer]
    /\ UNCHANGED <<kind, entry, left, up, handle, loader, recent, early, overlapped,
                   dropped, changes, exits>>

\* It throws: an extension's schedule goes on to recordFired, an Agent's is
\* only logged, and is armed again by the next reload at the earliest.
EnqueueFails(n) ==
    LET s == timer[n].s IN
    /\ timer[n].pc = "read"
    /\ failures < MaxFailures
    /\ failures' = failures + 1
    /\ IF kind[s].hook
       THEN /\ timer' = [timer EXCEPT ![n].pc = "enqueued"]
            /\ UNCHANGED dropped
       ELSE /\ timer' = [timer EXCEPT ![n] = FreeTimer]
            /\ dropped' = dropped \cup {s}
    /\ UNCHANGED <<kind, entry, left, up, handle, loader, recent, early, overlapped,
                   changes, exits>>

\* recordFired reads the file (it throws when it is gone) ...
RecordGet(n) ==
    LET s == timer[n].s IN
    /\ timer[n].pc = "enqueued"
    /\ timer' = [timer EXCEPT ![n] =
                    IF entry[s].state = "gone"
                    THEN FreeTimer
                    ELSE [@ EXCEPT !.pc = "recording",
                                   !.base = [entry[s] EXCEPT !.next = NextFire(s)]]]
    /\ UNCHANGED <<kind, entry, left, up, handle, loader, recent, early, overlapped,
                   dropped, changes, failures, exits>>

\* ... and writes it back with a new next_fire_at; an enabled one is armed.
RecordSave(n) ==
    LET s == timer[n].s
        e == timer[n].base
    IN
    /\ timer[n].pc = "recording"
    /\ entry' = [entry EXCEPT ![s] = e]
    /\ timer' = [timer EXCEPT ![n] = IF e.state = "on" THEN Armed(s, e) ELSE FreeTimer]
    /\ handle' = IF e.state = "on" THEN [handle EXCEPT ![s] = n] ELSE handle
    /\ UNCHANGED <<kind, left, up, loader, recent, early, overlapped, dropped,
                   changes, failures, exits>>

-----------------------------------------------------------------------------
(* Operators' changes and reloads.                                         *)

\* cli.schedule.set-enabled, remove or add, or their HTTP twins, or the
\* install of an extension, whose schedules nothing can disable.  A change
\* of an existing file reads it first.
ChangeGet(r, s, want) ==
    /\ up
    /\ MayLoad(r)
    /\ changes < MaxChanges
    /\ changes' = changes + 1
    /\ want = "off" => entry[s].state # "gone" /\ ~kind[s].hook
    /\ loader' = [loader EXCEPT ![r] = [IdleLoader EXCEPT !.pc = "changing", !.s = s,
                                                          !.want = want]]
    /\ overlapped' = (overlapped \/ Loading # {} \/ Firing # {})
    /\ UNCHANGED <<kind, entry, left, up, timer, handle, recent, early, dropped, failures, exits>>

\* Enabling recomputes next_fire_at, disabling clears it.
ChangeSave(r) ==
    LET s == loader[r].s
        want == loader[r].want
    IN
    /\ loader[r].pc = "changing"
    /\ entry' = [entry EXCEPT ![s] = [state |-> want,
                                      next |-> IF want = "on" THEN NextFire(s) ELSE Null]]
    /\ loader' = [loader EXCEPT ![r].pc = "changed"]
    /\ UNCHANGED <<kind, left, up, timer, handle, recent, early, overlapped, dropped,
                   changes, failures, exits>>

\* A reload with no change before it: cli.scheduler.reload, an archive.
Reload(r) ==
    /\ up
    /\ MayLoad(r)
    /\ changes < MaxChanges
    /\ changes' = changes + 1
    /\ loader' = [loader EXCEPT ![r].pc = "changed"]
    /\ overlapped' = (overlapped \/ Loading # {} \/ Firing # {})
    /\ UNCHANGED <<kind, entry, left, up, timer, handle, recent, early, dropped, failures, exits>>

\* MUTANT of Cleared: the handles are dropped without clearTimeout.
ClearedNot == timer

\* clearTimeout on every handle of the map.
Cleared ==
    [n \in Timers |-> IF timer[n].pc = "armed" /\ \E s \in Schedules : handle[s] = n
                      THEN FreeTimer ELSE timer[n]]

\* start(): stop, then the scan begins.
Stop(r) ==
    /\ loader[r].pc = "changed"
    /\ timer' = Cleared
    /\ handle' = [s \in Schedules |-> NoTimer]
    /\ loader' = [loader EXCEPT ![r].pc = "scanning"]
    /\ UNCHANGED <<kind, entry, left, up, recent, early, overlapped, dropped,
                   changes, failures, exits>>

\* MUTANT of Scan: nothing is found.
ScanNothing(r) ==
    /\ loader[r].pc = "scanning"
    /\ loader' = [loader EXCEPT ![r].pc = "arming"]
    /\ UNCHANGED <<kind, entry, left, up, timer, handle, recent, early, overlapped,
                   dropped, changes, failures, exits>>

\* The scan takes a copy of every enabled entry.
Scan(r) ==
    /\ loader[r].pc = "scanning"
    /\ loader' = [loader EXCEPT ![r].pc = "arming",
                     ![r].seen = {[s |-> s, e |-> entry[s]] :
                                    s \in {u \in Schedules : entry[u].state = "on"}}]
    /\ UNCHANGED <<kind, entry, left, up, timer, handle, recent, early, overlapped,
                   dropped, changes, failures, exits>>

\* Where the timers of a set of schedules may go: a free place each, a bound.
Places(set) == {f \in [set -> Free] : \A s, u \in set : f[s] = f[u] => s = u}

\* Everything the scan saw is armed in one go; a handle that the map has by
\* then is overwritten, and its timer can never be cleared again.
ArmSeen(r) ==
    LET seen == loader[r].seen
        found == {x.s : x \in seen}
        place == CHOOSE f \in Places(found) : TRUE
    IN
    /\ loader[r].pc = "arming"
    /\ Places(found) # {}
    /\ timer' = [n \in Timers |-> IF \E x \in seen : place[x.s] = n
                                 THEN LET x == CHOOSE y \in seen : place[y.s] = n
                                      IN Armed(x.s, x.e)
                                 ELSE timer[n]]
    /\ handle' = [s \in Schedules |-> IF s \in found THEN place[s] ELSE handle[s]]
    /\ dropped' = dropped \ found
    /\ loader' = [loader EXCEPT ![r] = IdleLoader]
    /\ UNCHANGED <<kind, entry, left, up, recent, early, overlapped,
                   changes, failures, exits>>

-----------------------------------------------------------------------------
(* The supervisor.                                                         *)

\* Timers, callbacks and calls die with the process.
Exit ==
    /\ up
    /\ exits < MaxExits
    /\ exits' = exits + 1
    /\ up' = FALSE
    /\ timer' = [n \in Timers |-> FreeTimer]
    /\ handle' = [s \in Schedules |-> NoTimer]
    /\ loader' = [r \in Loaders |-> IdleLoader]
    /\ UNCHANGED <<kind, entry, left, recent, early, overlapped, dropped, changes, failures>>

\* The boot calls scheduler.start().
Boot ==
    /\ ~up
    /\ up' = TRUE
    /\ \E r \in Loaders : MayLoad(r) /\ loader' = [loader EXCEPT ![r].pc = "changed"]
    /\ UNCHANGED <<kind, entry, left, timer, handle, recent, early, overlapped, dropped,
                   changes, failures, exits>>

-----------------------------------------------------------------------------

CallbackStep(n) ==
    \/ Fire(n)
    \/ Enqueue(n)
    \/ EnqueueFails(n)
    \/ RecordGet(n)
    \/ RecordSave(n)

LoaderStep(r) == ChangeSave(r) \/ Stop(r) \/ Scan(r) \/ ArmSeen(r)

Next ==
    \/ Tick
    \/ \E n \in Timers : CallbackStep(n)
    \/ \E r \in Loaders :
          \/ \E s \in Schedules, want \in EntryStates : ChangeGet(r, s, want)
          \/ Reload(r)
          \/ LoaderStep(r)
    \/ Exit
    \/ Boot

Spec == Init /\ [][Next]_vars

\* Time passes, due timers call back, awaited I/O answers, and the daemon is
\* started again.  Operators need do nothing.
Fairness ==
    /\ WF_vars(Tick)
    /\ \A n \in Timers : WF_vars(CallbackStep(n))
    /\ \A r \in Loaders : WF_vars(LoaderStep(r))
    /\ WF_vars(Boot)

FairSpec == Spec /\ Fairness

-----------------------------------------------------------------------------
(* Properties.                                                             *)

\* Every variable has the type its declaration names.
TypeOK ==
    /\ kind \in [Schedules -> Kind]
    /\ entry \in [Schedules -> Entry]
    /\ left \in [Schedules -> 1..Period]
    /\ up \in BOOLEAN
    /\ timer \in [Timers -> [pc : TimerPcs, s : Schedules \cup {NoSchedule},
                             rem : 0..Period, base : Entry]]
    /\ handle \in [Schedules -> Timers \cup {NoTimer}]
    /\ loader \in [Loaders -> [pc : LoaderPcs, s : Schedules \cup {NoSchedule}, want : EntryStates,
                               seen : SUBSET [s : Schedules, e : Entry]]]
    /\ recent \in [Schedules -> 0..Period]
    /\ early \subseteq Schedules
    /\ overlapped \in BOOLEAN
    /\ dropped \subseteq Schedules
    /\ {changes, failures, exits} \subseteq Nat

\* "every N seconds", and missed firings are skipped, not made up for: once
\* fired, a schedule does not fire before its next time, through restarts,
\* reloads, failures and late timers, as long as no reload or change met
\* another one or a callback.
Spaced == early = {}

\* Whenever nothing is in progress, every enabled schedule is armed, unless
\* its last callback failed: no order of reloads, changes and callbacks
\* silently loses one.
EnabledIsArmed ==
    up /\ Loading = {} /\ Firing = {} =>
        \A s \in Schedules : entry[s].state = "on" =>
            \/ \E n \in Timers : timer[n].pc = "armed" /\ timer[n].s = s
            \/ s \in dropped

\* A schedule that is left enabled fires, again and again.
EnabledFires ==
    \A s \in Schedules :
        []<>(entry[s].state # "on" \/ recent[s] > 0 \/ s \in dropped)

=============================================================================
