--------------------------- MODULE SchedulerProofs ---------------------------
(***************************************************************************)
(* The scheduler of the supervisor, for any number of schedules, timers,   *)
(* reloads, changes, failures and exits.  The spacing of a schedule's      *)
(* firings rests on one timer per schedule, which is there only as long as *)
(* no reload or change meets another one or a callback, and on periods     *)
(* that setTimeout can wait.                                               *)
(***************************************************************************)
EXTENDS Scheduler, TLAPS

TimerType == [pc : TimerPcs, s : Schedules \cup {NoSchedule}, rem : 0..Period, base : Entry]
LoaderType == [pc : LoaderPcs, s : Schedules \cup {NoSchedule}, want : EntryStates,
               seen : SUBSET [s : Schedules, e : Entry]]

\* Whatever is in progress is about a schedule.
About ==
    /\ \A n \in Timers : timer[n].pc # "free" => timer[n].s \in Schedules
    /\ \A r \in Loaders : loader[r].pc = "changing" => loader[r].s \in Schedules

\* Nothing of it survives the process.
DownIsIdle ==
    ~up => /\ \A n \in Timers : timer[n].pc = "free"
           /\ \A r \in Loaders : loader[r].pc = "idle"

\* No time of firing lies before the end of what the last firing spaces out.
NotBefore(s, next) == next > 0 => next >= recent[s]
InTime ==
    \A s \in Schedules : recent[s] <= NextFire(s) /\ NotBefore(s, entry[s].next)

\* One timer, known to the map, for each schedule.
OneEach ==
    /\ \A m, n \in Timers : timer[m].pc # "free" /\ timer[n].pc # "free" /\ timer[m].s = timer[n].s
                            => m = n
    /\ \A n \in Timers : timer[n].pc = "armed" => handle[timer[n].s] = n

\* What each of its states says of the times.
TimersInTime ==
    \A n \in Timers :
        LET s == timer[n].s IN
        /\ timer[n].pc = "armed" => timer[n].rem >= recent[s]
        /\ timer[n].pc = "armed" /\ Loading = {} => timer[n].rem >= entry[s].next
        /\ timer[n].pc = "read" => recent[s] = 0
        /\ timer[n].pc \in {"read", "enqueued"} => entry[s].next <= 0
        /\ timer[n].pc = "recording" => NotBefore(s, timer[n].base.next)

\* A reload has the scheduler to itself, and its copies are what the files say.
Alone ==
    /\ \A q, r \in Loading : q = r
    /\ Loading # {} => Firing = {}
    /\ \A r \in Loaders : loader[r].pc \in {"scanning", "arming"} =>
          \A n \in Timers : timer[n].pc = "free"
    /\ \A r \in Loaders : loader[r].pc = "arming" =>
          \A x \in loader[r].seen : x.e = entry[x.s]

Undisturbed == ~overlapped => InTime /\ OneEach /\ TimersInTime /\ Alone
IInv == TypeOK /\ About /\ DownIsIdle
SInv == IInv /\ Undisturbed /\ Spaced

\* Types by part.
FilesOK ==
    /\ kind \in [Schedules -> Kind] /\ entry \in [Schedules -> Entry]
    /\ left \in [Schedules -> 1..Period]
TimersOK ==
    /\ timer \in [Timers -> TimerType]
    /\ \A n \in Timers : timer[n].pc # "free" => timer[n].s \in Schedules
LoadersOK ==
    /\ loader \in [Loaders -> LoaderType]
    /\ \A r \in Loaders : loader[r].pc = "changing" => loader[r].s \in Schedules
MapOK ==
    /\ handle \in [Schedules -> Timers \cup {NoTimer}]
    /\ recent \in [Schedules -> 0..Period] /\ early \subseteq Schedules /\ dropped \subseteq Schedules
    /\ {changes, failures, exits} \subseteq Nat
BitsOK == up \in BOOLEAN /\ overlapped \in BOOLEAN

LEMMA Parts == TypeOK /\ About <=> FilesOK /\ TimersOK /\ LoadersOK /\ MapOK /\ BitsOK
  BY Zenon DEF TypeOK, About, FilesOK, TimersOK, LoadersOK, MapOK, BitsOK, TimerType, LoaderType

LEMMA Idle ==
    /\ FreeTimer \in TimerType /\ FreeTimer.pc = "free"
    /\ IdleLoader \in LoaderType /\ IdleLoader.pc = "idle"
  BY SchedulerAssumption DEF FreeTimer, TimerType, TimerPcs, Entry, EntryStates, IdleLoader,
      LoaderType,
     LoaderPcs, SchedulerAssumption

\* A clock tick keeps types and order.
LEMMA Lessens ==
    /\ \A t \in 0..Period \cup {Null} : Less(t) \in 0..Period \cup {Null}
    /\ \A t \in 0..Period : Less(t) \in 0..Period
    /\ \A t, u \in 0..Period \cup {Null} : t >= u => Less(t) >= Less(u)
    /\ \A t \in 0..Period \cup {Null} : Less(t) > 0 => t > 0
  BY SchedulerAssumption DEF Less, Null, SchedulerAssumption

LEMMA Fires == ASSUME FilesOK, NEW s \in Schedules PROVE NextFire(s) \in 1..Period
  BY SchedulerAssumption DEF FilesOK, NextFire, SchedulerAssumption

LEMMA Arms ==
    ASSUME FilesOK, NEW s \in Schedules, NEW e \in Entry
    PROVE  /\ Armed(s, e) \in TimerType /\ Armed(s, e).pc = "armed" /\ Armed(s, e).s = s
           /\ Armed(s, e).rem = ArmDelay(s, e)
  <1>1. ArmDelay(s, e) \in 0..Period
    BY Fires, SchedulerAssumption DEF ArmDelay, Delay, Entry, Null, SchedulerAssumption
  <1> HIDE DEF ArmDelay
  <1> QED BY <1>1, Idle DEF Armed, FreeTimer, TimerType, TimerPcs

\* What ArmSeen does with the timers it finds places for.
Found(r) == {x.s : x \in loader[r].seen}
Place(r) == CHOOSE f \in Places(Found(r)) : TRUE

LEMMA Arming ==
    ASSUME LoadersOK, TimersOK, NEW r \in Loaders, ArmSeen(r)
    PROVE  /\ \A s \in Found(r) : s \in Schedules /\ Place(r)[s] \in Free
           /\ \A s, u \in Found(r) : Place(r)[s] = Place(r)[u] => s = u
           /\ \A n \in Timers :
                 \/ timer'[n] = timer[n] /\ ~\E x \in loader[r].seen : Place(r)[x.s] = n
                 \/ \E x \in loader[r].seen : Place(r)[x.s] = n /\ timer'[n] = Armed(x.s, x.e)
           /\ DOMAIN timer' = Timers
           /\ handle' = [s \in Schedules |-> IF s \in Found(r) THEN Place(r)[s] ELSE handle[s]]
           /\ \A x \in loader[r].seen : x \in [s : Schedules, e : Entry]
  <1>1. Place(r) \in Places(Found(r))
    BY DEF ArmSeen, Found, Place
  <1>2. Place(r) \in [Found(r) -> Free] /\ \A s, u \in Found(r) : Place(r)[s] = Place(r)[u] => s = u
    BY <1>1 DEF Places
  <1>3. \A x \in loader[r].seen : x \in [s : Schedules, e : Entry]
    BY DEF LoadersOK, LoaderType
  <1>4. \A s \in Found(r) : s \in Schedules
    BY <1>3 DEF Found
  <1>5. timer' = [n \in Timers |-> IF \E x \in loader[r].seen : Place(r)[x.s] = n
                                 THEN LET x == CHOOSE y \in loader[r].seen : Place(r)[y.s] = n
                                      IN Armed(x.s, x.e)
                                 ELSE timer[n]]
    BY DEF ArmSeen, Found, Place
  <1>6. handle' = [s \in Schedules |-> IF s \in Found(r) THEN Place(r)[s] ELSE handle[s]]
    BY DEF ArmSeen, Found, Place
  <1>7. ASSUME NEW n \in Timers
        PROVE  \/ timer'[n] = timer[n] /\ ~\E x \in loader[r].seen : Place(r)[x.s] = n
               \/ \E x \in loader[r].seen : Place(r)[x.s] = n /\ timer'[n] = Armed(x.s, x.e)
    <2>1. CASE ~\E x \in loader[r].seen : Place(r)[x.s] = n
      BY <1>5, <2>1
    <2>2. CASE \E x \in loader[r].seen : Place(r)[x.s] = n
      <3> DEFINE x == CHOOSE y \in loader[r].seen : Place(r)[y.s] = n
      <3>1. x \in loader[r].seen /\ Place(r)[x.s] = n
        BY <2>2
      <3>2. timer'[n] = Armed(x.s, x.e)
        BY <1>5, <2>2
      <3> QED BY <3>1, <3>2
    <2> QED BY <2>1, <2>2
  <1> QED BY <1>2, <1>3, <1>4, <1>5, <1>6, <1>7

LEMMA InitInv == Init => SInv
  <1> SUFFICES ASSUME Init PROVE SInv
    OBVIOUS
  <1> USE Idle, SchedulerAssumption DEF Init
  <1>1. FilesOK /\ LoadersOK /\ TimersOK
    BY DEF FilesOK, Entry, EntryStates, LoadersOK, TimersOK, SchedulerAssumption
  <1>2. MapOK /\ BitsOK
    <2>1. MapOK
      BY DEF MapOK, SchedulerAssumption
    <2>2. BitsOK
      BY Zenon DEF BitsOK
    <2> QED BY <2>1, <2>2
  <1>3. (\A n \in Timers : timer[n].pc = "free") /\ \A r \in Loaders : loader[r].pc = "idle"
    OBVIOUS
  <1>4. Undisturbed
    <2>1. InTime
      <3> SUFFICES ASSUME NEW s \in Schedules PROVE recent[s] <= NextFire(s) /\ NotBefore(s, entry[s].next)
        BY DEF InTime
      <3>1. NextFire(s) \in 1..Period /\ entry[s].next \in 0..Period \cup {Null} /\ recent[s] = 0
        BY <1>1, Fires DEF FilesOK, Entry
      <3> QED BY <3>1 DEF NotBefore, SchedulerAssumption, Null
    <2>2. OneEach /\ TimersInTime /\ Alone
      BY <1>3 DEF OneEach, TimersInTime, Alone, Loading
    <2> QED BY <2>1, <2>2 DEF Undisturbed
  <1> QED BY <1>1, <1>2, <1>3, <1>4, Parts DEF IInv, SInv, DownIsIdle, Spaced

\* The files and the clock.
LEMMA NextFiles == IInv /\ [Next]_vars => FilesOK'
  <1> SUFFICES ASSUME IInv, [Next]_vars PROVE FilesOK'
    OBVIOUS
  <1>a. FilesOK /\ TimersOK /\ LoadersOK
    BY Parts DEF IInv
  <1>k. UNCHANGED <<kind, entry, left>> => FilesOK'
    BY <1>a DEF FilesOK
  <1>1. CASE Tick
    <2>1. \A s \in Schedules : [entry[s] EXCEPT !.next = Less(@)] \in Entry
      BY <1>a, Lessens DEF FilesOK, Entry
    <2>2. entry' \in [Schedules -> Entry] /\ kind' = kind
      BY <1>1, <2>1 DEF Tick
    <2>3. left' \in [Schedules -> 1..Period]
      <3>1. left' = [s \in Schedules |-> IF left[s] = 1 THEN Period ELSE left[s] - 1]
        BY <1>1 DEF Tick
      <3>2. \A s \in Schedules : (IF left[s] = 1 THEN Period ELSE left[s] - 1) \in 1..Period
        BY <1>a, SchedulerAssumption DEF FilesOK, SchedulerAssumption
      <3> QED BY <3>1, <3>2
    <2> QED BY <1>a, <2>2, <2>3 DEF FilesOK
  <1>2. ASSUME NEW n \in Timers, RecordSave(n) PROVE FilesOK'
    BY <1>a, <1>2 DEF RecordSave, FilesOK, TimersOK, TimerType
  <1>3. ASSUME NEW r \in Loaders, ChangeSave(r) PROVE FilesOK'
    <2> DEFINE s == loader[r].s
               e == [state |-> loader[r].want, next |-> IF loader[r].want = "on" THEN NextFire(s) ELSE Null]
    <2>1. e \in Entry
      BY <1>a, <1>3, Fires DEF ChangeSave, LoadersOK, LoaderType, Entry
    <2> QED BY <1>a, <1>3, <2>1 DEF ChangeSave, FilesOK
  <1>4. CASE (\E n \in Timers : Fire(n)) \/ (\E n \in Timers : Enqueue(n))
             \/ (\E n \in Timers : EnqueueFails(n)) \/ (\E n \in Timers : RecordGet(n))
             \/ (\E r \in Loaders, s \in Schedules, want \in EntryStates : ChangeGet(r, s, want))
             \/ (\E r \in Loaders : Reload(r)) \/ (\E r \in Loaders : Stop(r))
             \/ (\E r \in Loaders : Scan(r)) \/ (\E r \in Loaders : ArmSeen(r)) \/ Exit \/ Boot
    BY <1>k, <1>4 DEF Fire, Enqueue, EnqueueFails, RecordGet, ChangeGet, Reload, Stop, Scan,
                      ArmSeen, Exit, Boot
  <1>5. CASE UNCHANGED vars
    BY <1>5, <1>k DEF vars
  <1> QED
    BY <1>1, <1>2, <1>3, <1>4, <1>5
       DEF Next, CallbackStep, LoaderStep

\* The timers and callbacks.
LEMMA NextTimers == IInv /\ [Next]_vars => TimersOK'
  <1> SUFFICES ASSUME IInv, [Next]_vars PROVE TimersOK'
    OBVIOUS
  <1>a. FilesOK /\ TimersOK /\ LoadersOK
    BY Parts DEF IInv
  <1>k. UNCHANGED timer => TimersOK'
    BY <1>a DEF TimersOK
  <1>x. \A n \in Timers, x \in TimerType :
          timer' = [timer EXCEPT ![n] = x] /\ (x.pc # "free" => x.s \in Schedules) => TimersOK'
    BY <1>a DEF TimersOK
  <1>f. \A n \in Timers : timer' = [timer EXCEPT ![n] = FreeTimer] => TimersOK'
    BY <1>x, Idle
  <1>p. \A n \in Timers, pc \in TimerPcs :
          timer' = [timer EXCEPT ![n].pc = pc] /\ timer[n].pc # "free" => TimersOK'
    BY <1>a DEF TimersOK, TimerType
  <1>1. CASE Tick
    <2> DEFINE new(n) == [timer[n] EXCEPT !.rem = Less(@), !.base.next = Less(@)]
    <2>1. ASSUME NEW n \in Timers PROVE new(n) \in TimerType /\ new(n).pc = timer[n].pc /\ new(n).s = timer[n].s
      <3>1. timer[n] \in TimerType
        BY <1>a DEF TimersOK
      <3>2. Less(timer[n].rem) \in 0..Period /\ Less(timer[n].base.next) \in 0..Period \cup {Null}
        BY <3>1, Lessens DEF TimerType, Entry
      <3> HIDE DEF Less
      <3> QED BY <3>1, <3>2 DEF TimerType, Entry
    <2>2. timer' = [n \in Timers |-> new(n)]
      BY <1>1 DEF Tick
    <2> HIDE DEF new
    <2> QED BY <1>a, <2>1, <2>2 DEF TimersOK
  <1>2. ASSUME NEW n \in Timers, Fire(n) PROVE TimersOK'
    <2> DEFINE new == [FreeTimer EXCEPT !.pc = "read", !.s = timer[n].s]
    <2>1. new \in TimerType /\ new.s \in Schedules
      BY <1>a, <1>2, Idle DEF Fire, TimersOK, FreeTimer, TimerType, TimerPcs
    <2> HIDE DEF new
    <2>2. timer' = [timer EXCEPT ![n] = new] \/ timer' = [timer EXCEPT ![n] = FreeTimer]
      BY <1>2 DEF Fire, new
    <2> QED BY <1>x, <1>f, <2>1, <2>2
  <1>3. CASE (\E n \in Timers : Enqueue(n)) \/ (\E n \in Timers : EnqueueFails(n))
    BY <1>p, <1>f, <1>3 DEF Enqueue, EnqueueFails, TimerPcs
  <1>4. ASSUME NEW n \in Timers, RecordGet(n) PROVE TimersOK'
    <2> DEFINE b == [entry[timer[n].s] EXCEPT !.next = NextFire(timer[n].s)]
               new == [timer[n] EXCEPT !.pc = "recording", !.base = b]
    <2>1. timer[n].s \in Schedules /\ timer[n] \in TimerType
      BY <1>a, <1>4 DEF RecordGet, TimersOK
    <2>2. b \in Entry
      BY <1>a, <2>1, Fires DEF FilesOK, Entry
    <2> HIDE DEF b
    <2>3. new \in TimerType /\ new.s = timer[n].s
      BY <2>1, <2>2 DEF TimerType, TimerPcs
    <2>4. timer' = [timer EXCEPT ![n] = new] \/ timer' = [timer EXCEPT ![n] = FreeTimer]
      BY <1>a, <1>4 DEF RecordGet, TimersOK, b
    <2> HIDE DEF new
    <2> QED BY <1>x, <1>f, <2>1, <2>3, <2>4
  <1>5. ASSUME NEW n \in Timers, RecordSave(n) PROVE TimersOK'
    <2>1. timer[n].s \in Schedules /\ timer[n].base \in Entry
      BY <1>a, <1>5 DEF RecordSave, TimersOK, TimerType
    <2> QED BY <1>a, <1>x, <1>f, <1>5, <2>1, Arms DEF RecordSave
  <1>6. ASSUME NEW r \in Loaders, Stop(r) PROVE TimersOK'
    BY <1>a, <1>6, Idle DEF Stop, Cleared, TimersOK
  <1>7. ASSUME NEW r \in Loaders, ArmSeen(r) PROVE TimersOK'
    <2>1. ASSUME NEW n \in Timers PROVE timer'[n] \in TimerType /\ (timer'[n].pc # "free" => timer'[n].s \in Schedules)
      <3>1. CASE timer'[n] = timer[n]
        BY <1>a, <3>1 DEF TimersOK
      <3>2. CASE \E x \in loader[r].seen : timer'[n] = Armed(x.s, x.e)
        BY <1>a, <1>7, <3>2, Arming, Arms
      <3> QED BY <1>a, <1>7, <3>1, <3>2, Arming
    <2>2. timer' = [n \in Timers |-> timer'[n]]
      BY <1>7 DEF ArmSeen
    <2> QED BY <2>1, <2>2 DEF TimersOK
  <1>8. CASE Exit
    BY <1>8, Idle DEF Exit, TimersOK
  <1>9. CASE (\E r \in Loaders, s \in Schedules, want \in EntryStates : ChangeGet(r, s, want))
             \/ (\E r \in Loaders : Reload(r)) \/ (\E r \in Loaders : ChangeSave(r))
             \/ (\E r \in Loaders : Scan(r)) \/ Boot
    BY <1>k, <1>9 DEF ChangeGet, Reload, ChangeSave, Scan, Boot
  <1>10. CASE UNCHANGED vars
    BY <1>10, <1>k DEF vars
  <1> QED
    BY <1>1, <1>2, <1>3, <1>4, <1>5, <1>6, <1>7, <1>8, <1>9, <1>10
       DEF Next, CallbackStep, LoaderStep

\* The changes and reloads.
LEMMA NextLoaders == IInv /\ [Next]_vars => LoadersOK'
  <1> SUFFICES ASSUME IInv, [Next]_vars PROVE LoadersOK'
    OBVIOUS
  <1>a. FilesOK /\ LoadersOK
    BY Parts DEF IInv
  <1>k. UNCHANGED loader => LoadersOK'
    BY <1>a DEF LoadersOK
  <1>x. \A r \in Loaders, x \in LoaderType :
          loader' = [loader EXCEPT ![r] = x] /\ (x.pc = "changing" => x.s \in Schedules) => LoadersOK'
    BY <1>a DEF LoadersOK
  <1>p. \A r \in Loaders, pc \in LoaderPcs \ {"changing"} :
          loader' = [loader EXCEPT ![r].pc = pc] => LoadersOK'
    BY <1>a DEF LoadersOK, LoaderType
  <1>1. CASE Tick
    <2> DEFINE seen(r) == {[s |-> x.s, e |-> [x.e EXCEPT !.next = Less(@)]] : x \in loader[r].seen}
               new(r) == [loader[r] EXCEPT !.seen = seen(r)]
    <2>1. ASSUME NEW r \in Loaders PROVE new(r) \in LoaderType /\ new(r).pc = loader[r].pc /\ new(r).s = loader[r].s
      <3>1. loader[r] \in LoaderType
        BY <1>a DEF LoadersOK
      <3>2. \A x \in loader[r].seen : x \in [s : Schedules, e : Entry]
        BY <3>1 DEF LoaderType
      <3>3. \A e \in Entry : [e EXCEPT !.next = Less(@)] \in Entry
        BY Lessens DEF Entry
      <3>4. \A x \in loader[r].seen : [s |-> x.s, e |-> [x.e EXCEPT !.next = Less(@)]] \in [s : Schedules, e : Entry]
        BY <3>2, <3>3
      <3>5. seen(r) \subseteq [s : Schedules, e : Entry]
        BY <3>4
      <3> HIDE DEF seen
      <3> QED BY <3>1, <3>5 DEF LoaderType
    <2>2. loader' = [r \in Loaders |-> new(r)]
      BY <1>1 DEF Tick
    <2> HIDE DEF new
    <2> QED BY <1>a, <2>1, <2>2 DEF LoadersOK
  <1>2. ASSUME NEW r \in Loaders, NEW s \in Schedules, NEW want \in EntryStates, ChangeGet(r, s, want) PROVE LoadersOK'
    <2> DEFINE new == [IdleLoader EXCEPT !.pc = "changing", !.s = s, !.want = want]
    <2>1. new \in LoaderType /\ new.s = s
      BY DEF IdleLoader, LoaderType, LoaderPcs
    <2>2. loader' = [loader EXCEPT ![r] = new]
      BY <1>2 DEF ChangeGet
    <2> HIDE DEF new
    <2> QED BY <1>x, <2>1, <2>2
  <1>3. CASE (\E r \in Loaders : Reload(r)) \/ (\E r \in Loaders : ChangeSave(r))
             \/ (\E r \in Loaders : Stop(r)) \/ Boot
    <2>1. \E r \in Loaders, pc \in {"changed", "scanning"} : loader' = [loader EXCEPT ![r].pc = pc]
      BY <1>3 DEF Reload, ChangeSave, Stop, Boot
    <2>2. {"changed", "scanning"} \subseteq LoaderPcs \ {"changing"}
      BY DEF LoaderPcs
    <2> QED BY <1>p, <2>1, <2>2
  <1>4. ASSUME NEW r \in Loaders, Scan(r) PROVE LoadersOK'
    <2> DEFINE seen == {[s |-> s, e |-> entry[s]] : s \in {u \in Schedules : entry[u].state = "on"}}
               new == [loader[r] EXCEPT !.pc = "arming", !.seen = seen]
    <2>1. seen \subseteq [s : Schedules, e : Entry]
      BY <1>a DEF FilesOK
    <2> HIDE DEF seen
    <2>2. new \in LoaderType /\ new.pc = "arming"
      BY <1>a, <2>1 DEF LoadersOK, LoaderType, LoaderPcs
    <2>3. loader' = [loader EXCEPT ![r] = new]
      BY <1>a, <1>4 DEF Scan, LoadersOK, seen
    <2> HIDE DEF new
    <2> QED BY <1>x, <2>2, <2>3
  <1>5. ASSUME NEW r \in Loaders, ArmSeen(r) PROVE LoadersOK'
    BY <1>x, <1>5, Idle DEF ArmSeen
  <1>6. CASE Exit
    BY <1>6, Idle DEF Exit, LoadersOK
  <1>7. CASE (\E n \in Timers : Fire(n)) \/ (\E n \in Timers : Enqueue(n))
             \/ (\E n \in Timers : EnqueueFails(n)) \/ (\E n \in Timers : RecordGet(n))
             \/ (\E n \in Timers : RecordSave(n))
    BY <1>k, <1>7 DEF Fire, Enqueue, EnqueueFails, RecordGet, RecordSave
  <1>8. CASE UNCHANGED vars
    BY <1>8, <1>k DEF vars
  <1> QED
    BY <1>1, <1>2, <1>3, <1>4, <1>5, <1>6, <1>7, <1>8
       DEF Next, CallbackStep, LoaderStep

\* The map of handles, the bounds and what is remembered.
LEMMA NextMap == IInv /\ [Next]_vars => MapOK'
  <1> SUFFICES ASSUME IInv, [Next]_vars PROVE MapOK'
    OBVIOUS
  <1>a. FilesOK /\ TimersOK /\ LoadersOK /\ MapOK
    BY Parts DEF IInv
  <1>k. UNCHANGED <<handle, recent, early, dropped, changes, failures, exits>> => MapOK'
    BY <1>a DEF MapOK
  <1>1. CASE Tick
    <2>1. recent' \in [Schedules -> 0..Period]
      BY <1>a, <1>1, Lessens DEF Tick, MapOK
    <2> QED BY <1>a, <1>1, <2>1 DEF Tick, MapOK
  <1>2. ASSUME NEW n \in Timers, Fire(n) PROVE MapOK'
    BY <1>a, <1>2 DEF Fire, MapOK
  <1>3. ASSUME NEW n \in Timers, Enqueue(n) PROVE MapOK'
    <2>1. timer[n].s \in Schedules
      BY <1>a, <1>3 DEF Enqueue, TimersOK
    <2>2. NextFire(timer[n].s) \in 0..Period
      BY <1>a, <2>1, Fires
    <2> QED BY <1>a, <1>3, <2>1, <2>2 DEF Enqueue, MapOK
  <1>4. ASSUME NEW n \in Timers, EnqueueFails(n) PROVE MapOK'
    <2>1. timer[n].s \in Schedules
      BY <1>a, <1>4 DEF EnqueueFails, TimersOK
    <2> QED BY <1>a, <1>4, <2>1 DEF EnqueueFails, MapOK
  <1>5. ASSUME NEW n \in Timers, RecordSave(n) PROVE MapOK'
    BY <1>a, <1>5 DEF RecordSave, MapOK, TimersOK
  <1>6. CASE (\E r \in Loaders, s \in Schedules, want \in EntryStates : ChangeGet(r, s, want))
             \/ (\E r \in Loaders : Reload(r))
    <2>1. changes' = changes + 1 /\ UNCHANGED <<handle, recent, early, dropped, failures, exits>>
      BY <1>6 DEF ChangeGet, Reload
    <2> QED BY <1>a, <2>1 DEF MapOK
  <1>7. ASSUME NEW r \in Loaders, Stop(r) PROVE MapOK'
    BY <1>a, <1>7 DEF Stop, MapOK
  <1>8. ASSUME NEW r \in Loaders, ArmSeen(r) PROVE MapOK'
    <2>1. \A s \in Found(r) : s \in Schedules /\ Place(r)[s] \in Timers
      BY <1>a, <1>8, Arming DEF Free
    <2>2. handle' \in [Schedules -> Timers \cup {NoTimer}]
      BY <1>a, <1>8, <2>1, Arming DEF MapOK
    <2>3. dropped' \subseteq Schedules
      BY <1>a, <1>8 DEF ArmSeen, MapOK
    <2> QED BY <1>a, <1>8, <2>2, <2>3 DEF ArmSeen, MapOK
  <1>9. CASE Exit
    BY <1>a, <1>9 DEF Exit, MapOK
  <1>10. CASE (\E n \in Timers : RecordGet(n)) \/ (\E r \in Loaders : ChangeSave(r))
             \/ (\E r \in Loaders : Scan(r)) \/ Boot
    BY <1>k, <1>10 DEF RecordGet, ChangeSave, Scan, Boot
  <1>11. CASE UNCHANGED vars
    BY <1>11, <1>k DEF vars
  <1> QED
    BY <1>1, <1>2, <1>3, <1>4, <1>5, <1>6, <1>7, <1>8, <1>9, <1>10, <1>11
       DEF Next, CallbackStep, LoaderStep

LEMMA NextBits == IInv /\ [Next]_vars => BitsOK'
  <1> SUFFICES ASSUME IInv, [Next]_vars PROVE BitsOK'
    OBVIOUS
  <1>a. BitsOK
    BY Parts DEF IInv
  <1>1. up' \in BOOLEAN
    BY <1>a, Zenon DEF BitsOK, Next, CallbackStep, LoaderStep, vars, Tick, Fire, Enqueue,
        EnqueueFails, RecordGet,
       RecordSave, ChangeGet, Reload, ChangeSave, Stop, Scan, ArmSeen, Exit, Boot
  <1>2. overlapped' \in BOOLEAN
    <2>1. overlapped' = overlapped \/ overlapped' = (overlapped \/ Loading # {})
          \/ overlapped' = (overlapped \/ Loading # {} \/ Firing # {})
      BY Zenon DEF Next, CallbackStep, LoaderStep, vars, Tick, Fire, Enqueue, EnqueueFails,
          RecordGet,
       RecordSave, ChangeGet, Reload, ChangeSave, Stop, Scan, ArmSeen, Exit, Boot
    <2> QED BY <1>a, <2>1, Zenon DEF BitsOK
  <1> QED BY <1>1, <1>2, Zenon DEF BitsOK

\* Without a process nothing moves.
LEMMA NextDown == IInv /\ [Next]_vars => DownIsIdle'
  <1> SUFFICES ASSUME IInv, [Next]_vars PROVE DownIsIdle'
    OBVIOUS
  <1>a. DownIsIdle /\ TimersOK /\ LoadersOK
    BY Parts DEF IInv
  <1>k. UNCHANGED <<up, timer, loader>> => DownIsIdle'
    BY <1>a DEF DownIsIdle
  <1>1. CASE Tick
    <2>1. \A n \in Timers : timer'[n].pc = timer[n].pc
      BY <1>a, <1>1 DEF Tick, TimersOK, TimerType
    <2>2. \A r \in Loaders : loader'[r].pc = loader[r].pc
      BY <1>a, <1>1 DEF Tick, LoadersOK, LoaderType
    <2> QED BY <1>a, <1>1, <2>1, <2>2 DEF Tick, DownIsIdle
  <1>2. CASE (\E n \in Timers : Fire(n)) \/ (\E n \in Timers : Enqueue(n))
             \/ (\E n \in Timers : EnqueueFails(n)) \/ (\E n \in Timers : RecordGet(n))
             \/ (\E n \in Timers : RecordSave(n))
    BY <1>a, <1>2 DEF Fire, Enqueue, EnqueueFails, RecordGet, RecordSave, DownIsIdle
  <1>3. CASE (\E r \in Loaders : ChangeSave(r)) \/ (\E r \in Loaders : Stop(r))
             \/ (\E r \in Loaders : Scan(r)) \/ (\E r \in Loaders : ArmSeen(r))
    BY <1>a, <1>3 DEF ChangeSave, Stop, Scan, ArmSeen, DownIsIdle
  <1>4. CASE Exit
    BY <1>4, Idle DEF Exit, DownIsIdle
  <1>5. ASSUME NEW r \in Loaders, NEW s \in Schedules, NEW want \in EntryStates, ChangeGet(r, s, want) PROVE DownIsIdle'
    <2>1. up'
      BY <1>5, Zenon DEF ChangeGet
    <2> QED BY <2>1 DEF DownIsIdle
  <1>6. ASSUME NEW r \in Loaders, Reload(r) PROVE DownIsIdle'
    <2>1. up'
      BY <1>6, Zenon DEF Reload
    <2> QED BY <2>1 DEF DownIsIdle
  <1>7. CASE Boot
    <2>1. up'
      BY <1>7, Zenon DEF Boot
    <2> QED BY <2>1 DEF DownIsIdle
  <1>8. CASE UNCHANGED vars
    BY <1>8, <1>k DEF vars
  <1> QED
    BY <1>1, <1>2, <1>3, <1>4, <1>5, <1>6, <1>7, <1>8
       DEF Next, CallbackStep, LoaderStep

\* Type correctness; nothing that is in progress outlives the supervisor.
THEOREM Confined == Spec => []IInv
  <1>1. IInv /\ [Next]_vars => IInv'
    <2> SUFFICES ASSUME IInv, [Next]_vars PROVE IInv'
      OBVIOUS
    <2>1. FilesOK' /\ TimersOK' /\ LoadersOK' /\ MapOK' /\ BitsOK'
      BY NextFiles, NextTimers, NextLoaders, NextMap, NextBits
    <2>2. TypeOK' /\ About'
      BY <2>1, Zenon DEF TypeOK, About, FilesOK, TimersOK, LoadersOK, MapOK, BitsOK, TimerType,
          LoaderType
    <2> QED BY <2>2, NextDown DEF IInv
  <1>2. Init => IInv
    BY InitInv DEF SInv
  <1> QED BY <1>1, <1>2, PTL DEF Spec

\* Types of schedules, timers, reloads and the daemon, as a part of IInv.
THEOREM TypeCorrect == Spec => []TypeOK
  <1>1. IInv => TypeOK
    BY DEF IInv
  <1> QED BY <1>1, Confined, PTL

-----------------------------------------------------------------------------
(* The spacing, as long as nothing overlaps.                               *)

\* setTimeout can wait for a whole period.
Waitable == Period <= MaxDelay

LEMMA ArmsInTime ==
    ASSUME Waitable, FilesOK, MapOK, NEW s \in Schedules, NEW e \in Entry,
           recent[s] <= NextFire(s), NotBefore(s, e.next)
    PROVE  Armed(s, e).rem >= recent[s] /\ Armed(s, e).rem >= e.next
  <1>1. NextFire(s) \in 1..Period /\ e.next \in 0..Period \cup {Null} /\ recent[s] \in 0..Period
    BY Fires DEF Entry, MapOK
  <1>2. Period \in Nat /\ MaxDelay \in Nat
    BY SchedulerAssumption DEF SchedulerAssumption
  <1>3. ArmDelay(s, e) = IF e.next \in {Null, 0} THEN NextFire(s) ELSE e.next
    <2>1. (IF e.next \in {Null, 0} THEN NextFire(s) ELSE e.next) \in 0..Period
      BY <1>1 DEF Null
    <2> QED BY <1>2, <2>1 DEF ArmDelay, Delay, Waitable
  <1> HIDE DEF ArmDelay
  <1>4. ArmDelay(s, e) >= recent[s] /\ ArmDelay(s, e) >= e.next
    BY <1>1, <1>2, <1>3 DEF NotBefore, Null
  <1> QED BY <1>4, Arms

\* What holds before a step after which nothing has overlapped.
LEMMA Before ==
    ASSUME SInv, [Next]_vars, ~overlapped'
    PROVE  /\ ~overlapped /\ InTime /\ OneEach /\ TimersInTime /\ Alone
           /\ FilesOK /\ TimersOK /\ LoadersOK /\ MapOK
  <1>1. ~overlapped
    BY DEF Next, CallbackStep, LoaderStep, vars, Tick, Fire, Enqueue, EnqueueFails, RecordGet,
       RecordSave, ChangeGet, Reload, ChangeSave, Stop, Scan, ArmSeen, Exit, Boot
  <1> QED BY <1>1, Parts DEF SInv, IInv, Undisturbed

\* A clock tick changes no state and keeps every order.
LEMMA Ticks ==
    ASSUME FilesOK, TimersOK, LoadersOK, MapOK, Tick
    PROVE  /\ \A n \in Timers : /\ timer'[n].pc = timer[n].pc /\ timer'[n].s = timer[n].s
                               /\ timer'[n].rem = Less(timer[n].rem)
                               /\ timer'[n].base.next = Less(timer[n].base.next)
           /\ \A r \in Loaders : loader'[r].pc = loader[r].pc
           /\ \A s \in Schedules : /\ entry'[s].next = Less(entry[s].next)
                                  /\ recent'[s] = Less(recent[s])
           /\ Loading' = Loading /\ Firing' = Firing
  <1>1. \A n \in Timers : /\ timer'[n].pc = timer[n].pc /\ timer'[n].s = timer[n].s
                        /\ timer'[n].rem = Less(timer[n].rem)
                        /\ timer'[n].base.next = Less(timer[n].base.next)
    BY DEF Tick, TimersOK, TimerType, Entry
  <1>2. \A r \in Loaders : loader'[r].pc = loader[r].pc
    BY DEF Tick, LoadersOK, LoaderType
  <1>3. \A s \in Schedules : entry'[s].next = Less(entry[s].next) /\ recent'[s] = Less(recent[s])
    BY DEF Tick, FilesOK, Entry, MapOK
  <1>4. Loading' = Loading /\ Firing' = Firing
    BY <1>1, <1>2 DEF Loading, Firing
  <1> QED BY <1>1, <1>2, <1>3, <1>4

\* Where a reload stops the timers, none is left.
LEMMA StopsAll ==
    ASSUME OneEach, Alone, TimersOK, NEW r \in Loaders, Stop(r)
    PROVE  \A n \in Timers : timer'[n].pc = "free"
  <1>1. Firing = {}
    BY DEF Alone, Stop, Loading
  <1> SUFFICES ASSUME NEW n \in Timers PROVE timer'[n].pc = "free"
    OBVIOUS
  <1>2. timer[n].pc \in {"free", "armed"}
    BY <1>1 DEF Firing, TimersOK, TimerType, TimerPcs
  <1>3. timer'[n] = IF timer[n].pc = "armed" /\ \E s \in Schedules : handle[s] = n THEN FreeTimer ELSE timer[n]
    BY DEF Stop, Cleared
  <1>4. timer[n].pc = "armed" => \E s \in Schedules : handle[s] = n
    BY DEF OneEach, TimersOK
  <1> QED BY <1>2, <1>3, <1>4, Idle

LEMMA NextInTime == SInv /\ Waitable /\ ~overlapped' /\ [Next]_vars => InTime'
  <1> SUFFICES ASSUME SInv, Waitable, ~overlapped', [Next]_vars PROVE InTime'
    OBVIOUS
  <1>a. /\ ~overlapped /\ InTime /\ OneEach /\ TimersInTime /\ Alone
        /\ FilesOK /\ TimersOK /\ LoadersOK /\ MapOK
    BY Before
  <1>k. UNCHANGED <<kind, entry, left, recent>> => InTime'
    BY <1>a DEF InTime, NotBefore, NextFire
  <1>n. \A s \in Schedules : NextFire(s) \in 1..Period /\ recent[s] \in 0..Period
                           /\ entry[s].next \in 0..Period \cup {Null}
    BY <1>a, Fires DEF MapOK, FilesOK, Entry
  <1>1. CASE Tick
    <2> SUFFICES ASSUME NEW s \in Schedules
                 PROVE  recent'[s] <= NextFire(s)' /\ (entry'[s].next > 0 => entry'[s].next >= recent'[s])
      BY DEF InTime, NotBefore
    <2>1. recent[s] <= NextFire(s) /\ (entry[s].next > 0 => entry[s].next >= recent[s])
      BY <1>a DEF InTime, NotBefore
    <2>2. entry'[s].next = Less(entry[s].next) /\ recent'[s] = Less(recent[s])
      BY <1>a, <1>1, Ticks
    <2>3. entry'[s].next > 0 => entry'[s].next >= recent'[s]
      BY <1>n, <2>1, <2>2, Lessens
    <2>4. NextFire(s)' = IF kind[s].interval THEN Period ELSE IF left[s] = 1 THEN Period ELSE left[s] - 1
      BY <1>1 DEF Tick, NextFire
    <2>5. left[s] \in 1..Period /\ Period \in Nat
      BY <1>a, SchedulerAssumption DEF FilesOK, SchedulerAssumption
    <2>6. recent'[s] <= NextFire(s)'
      BY <1>n, <2>1, <2>2, <2>4, <2>5 DEF Less, NextFire
    <2> QED BY <2>3, <2>6
  <1>2. ASSUME NEW n \in Timers, Enqueue(n) PROVE InTime'
    <2>1. timer[n].s \in Schedules /\ entry[timer[n].s].next <= 0
      BY <1>a, <1>2 DEF Enqueue, TimersInTime, TimersOK
    <2>2. recent' = [recent EXCEPT ![timer[n].s] = NextFire(timer[n].s)] /\ UNCHANGED <<kind, entry, left>>
      BY <1>2 DEF Enqueue
    <2>3. ASSUME NEW s \in Schedules PROVE recent'[s] <= NextFire(s) /\ (entry[s].next > 0 => entry[s].next >= recent'[s])
      <3>1. CASE s = timer[n].s
        <4>1. recent'[s] = NextFire(s)
          BY <1>a, <2>1, <2>2, <3>1 DEF MapOK
        <4>2. entry[s].next <= 0
          BY <2>1, <3>1
        <4> QED BY <1>n, <4>1, <4>2 DEF Null
      <3>2. CASE s # timer[n].s
        BY <1>a, <2>2, <3>2 DEF MapOK, InTime, NotBefore
      <3> QED BY <3>1, <3>2
    <2> QED BY <2>2, <2>3 DEF InTime, NotBefore, NextFire
  <1>3. ASSUME NEW n \in Timers, RecordSave(n) PROVE InTime'
    <2>1. timer[n].s \in Schedules /\ NotBefore(timer[n].s, timer[n].base.next)
      BY <1>a, <1>3 DEF RecordSave, TimersInTime, TimersOK
    <2>2. entry' = [entry EXCEPT ![timer[n].s] = timer[n].base] /\ UNCHANGED <<kind, left, recent>>
      BY <1>3 DEF RecordSave
    <2>3. ASSUME NEW s \in Schedules PROVE NotBefore(s, entry'[s].next)
      BY <1>a, <2>1, <2>2 DEF FilesOK, InTime
    <2> QED BY <1>a, <2>2, <2>3 DEF InTime, NotBefore, NextFire
  <1>4. ASSUME NEW r \in Loaders, ChangeSave(r) PROVE InTime'
    <2> DEFINE u == loader[r].s
               next == IF loader[r].want = "on" THEN NextFire(u) ELSE Null
    <2>1. u \in Schedules
      BY <1>a, <1>4 DEF ChangeSave, LoadersOK
    <2>2. entry' = [entry EXCEPT ![u] = [state |-> loader[r].want, next |-> next]] /\ UNCHANGED <<kind, left, recent>>
      BY <1>4 DEF ChangeSave
    <2>3. next > 0 => next >= recent[u]
      BY <1>a, <1>n, <2>1 DEF InTime, Null
    <2> HIDE DEF next
    <2>4. ASSUME NEW s \in Schedules PROVE NotBefore(s, entry'[s].next)
      BY <1>a, <2>1, <2>2, <2>3 DEF FilesOK, InTime, NotBefore
    <2> QED BY <1>a, <2>2, <2>4 DEF InTime, NotBefore, NextFire
  <1>5. CASE (\E n \in Timers : Fire(n)) \/ (\E n \in Timers : EnqueueFails(n))
             \/ (\E n \in Timers : RecordGet(n))
             \/ (\E r \in Loaders, s \in Schedules, want \in EntryStates : ChangeGet(r, s, want))
             \/ (\E r \in Loaders : Reload(r)) \/ (\E r \in Loaders : Stop(r))
             \/ (\E r \in Loaders : Scan(r)) \/ (\E r \in Loaders : ArmSeen(r)) \/ Exit \/ Boot
    BY <1>k, <1>5 DEF Fire, EnqueueFails, RecordGet, ChangeGet, Reload, Stop, Scan, ArmSeen,
                      Exit, Boot
  <1>6. CASE UNCHANGED vars
    BY <1>6, <1>k DEF vars
  <1> QED
    BY <1>1, <1>2, <1>3, <1>4, <1>5, <1>6
       DEF Next, CallbackStep, LoaderStep

LEMMA NextOneEach == SInv /\ Waitable /\ ~overlapped' /\ [Next]_vars => OneEach'
  <1> SUFFICES ASSUME SInv, Waitable, ~overlapped', [Next]_vars PROVE OneEach'
    OBVIOUS
  <1>a. /\ ~overlapped /\ InTime /\ OneEach /\ TimersInTime /\ Alone
        /\ FilesOK /\ TimersOK /\ LoadersOK /\ MapOK
    BY Before
  <1>k. UNCHANGED <<timer, handle>> => OneEach'
    BY <1>a DEF OneEach
  <1>e. (\A n \in Timers : timer'[n].pc = "free") => OneEach'
    BY DEF OneEach
  <1>p. ASSUME NEW n \in Timers, timer[n].pc # "free", UNCHANGED handle, timer'[n].s = timer[n].s,
               timer'[n].pc # "armed", \A m \in Timers \ {n} : timer'[m] = timer[m]
        PROVE  OneEach'
    <2>1. \A m \in Timers : timer'[m].s = timer[m].s /\ (timer'[m].pc # "free" => timer[m].pc # "free")
                         /\ (timer'[m].pc = "armed" => timer[m].pc = "armed")
      BY <1>p
    <2> QED BY <1>a, <1>p, <2>1 DEF OneEach
  <1>1. CASE Tick
    <2>1. \A n \in Timers : timer'[n].pc = timer[n].pc /\ timer'[n].s = timer[n].s
      BY <1>a, <1>1, Ticks
    <2>2. handle' = handle
      BY <1>1 DEF Tick
    <2> QED BY <1>a, <2>1, <2>2 DEF OneEach
  <1>2. ASSUME NEW n \in Timers, Fire(n) PROVE OneEach'
    <2>1. /\ timer[n].pc # "free" /\ timer[n].s \in Schedules
          /\ (timer'[n].pc = "read" /\ timer'[n].s = timer[n].s) \/ timer'[n].pc = "free"
          /\ \A m \in Timers \ {n} : timer'[m] = timer[m]
          /\ handle' = [handle EXCEPT ![timer[n].s] = NoTimer]
      BY <1>a, <1>2, Idle DEF Fire, TimersOK, FreeTimer
    <2>2. \A m \in Timers \ {n} : timer[m].pc = "armed" => handle'[timer[m].s] = m
      BY <1>a, <2>1 DEF OneEach, TimersOK, MapOK
    <2> QED BY <1>a, <2>1, <2>2 DEF OneEach
  <1>3. CASE (\E n \in Timers : Enqueue(n)) \/ (\E n \in Timers : EnqueueFails(n))
             \/ (\E n \in Timers : RecordGet(n))
    <2> PICK n \in Timers : Enqueue(n) \/ EnqueueFails(n) \/ RecordGet(n)
      BY <1>3
    <2>1. /\ timer[n].pc # "free" /\ UNCHANGED handle /\ \A m \in Timers \ {n} : timer'[m] = timer[m]
      BY <1>a DEF Enqueue, EnqueueFails, RecordGet, TimersOK
    <2>2. timer'[n].pc = "free" \/ (timer'[n].s = timer[n].s /\ timer'[n].pc # "armed")
      BY <1>a, Idle DEF Enqueue, EnqueueFails, RecordGet, TimersOK, TimerType
    <2>3. CASE timer'[n].pc = "free"
      BY <1>a, <2>1, <2>3 DEF OneEach
    <2> QED BY <1>p, <2>1, <2>2, <2>3
  <1>4. ASSUME NEW n \in Timers, RecordSave(n) PROVE OneEach'
    <2>1. timer[n].pc # "free" /\ timer[n].s \in Schedules /\ timer[n].base \in Entry
          /\ \A m \in Timers \ {n} : timer'[m] = timer[m]
      BY <1>a, <1>4 DEF RecordSave, TimersOK, TimerType
    <2>2. CASE timer[n].base.state = "on"
      <3>1. timer'[n].s = timer[n].s /\ timer'[n].pc = "armed" /\ handle'[timer[n].s] = n
        BY <1>a, <1>4, <2>1, <2>2, Arms DEF RecordSave, TimersOK, MapOK
      <3>2. handle' = [handle EXCEPT ![timer[n].s] = n]
        BY <1>4, <2>2 DEF RecordSave
      <3>3. \A m \in Timers \ {n} : timer[m].pc = "armed" => handle'[timer[m].s] = m
        BY <1>a, <2>1, <3>2 DEF OneEach, TimersOK, MapOK
      <3> QED BY <1>a, <2>1, <3>1, <3>3 DEF OneEach
    <2>3. CASE timer[n].base.state # "on"
      <3>1. timer'[n].pc = "free" /\ UNCHANGED handle
        BY <1>a, <1>4, <2>3, Idle DEF RecordSave, TimersOK
      <3> QED BY <1>a, <2>1, <3>1 DEF OneEach
    <2> QED BY <2>2, <2>3
  <1>5. ASSUME NEW r \in Loaders, Stop(r) PROVE OneEach'
    BY <1>a, <1>e, <1>5, StopsAll
  <1>6. ASSUME NEW r \in Loaders, ArmSeen(r) PROVE OneEach'
    <2>1. \A n \in Timers : timer[n].pc = "free"
      BY <1>a, <1>6 DEF Alone, ArmSeen
    <2>2. ASSUME NEW n \in Timers, timer'[n].pc # "free"
          PROVE  timer'[n].s \in Found(r) /\ Place(r)[timer'[n].s] = n
      <3> PICK x \in loader[r].seen : Place(r)[x.s] = n /\ timer'[n] = Armed(x.s, x.e)
        BY <1>a, <1>6, <2>1, <2>2, Arming
      <3>1. x.s \in Schedules /\ x.e \in Entry /\ x.s \in Found(r)
        BY <1>a, <1>6, Arming DEF Found
      <3> QED BY <1>a, <3>1, Arms
    <2>3. \A s \in Found(r) : s \in Schedules /\ handle'[s] = Place(r)[s]
      BY <1>a, <1>6, Arming
    <2> QED BY <2>2, <2>3 DEF OneEach
  <1>7. CASE Exit
    BY <1>e, <1>7, Idle DEF Exit
  <1>8. CASE (\E r \in Loaders, s \in Schedules, want \in EntryStates : ChangeGet(r, s, want))
             \/ (\E r \in Loaders : Reload(r)) \/ (\E r \in Loaders : ChangeSave(r))
             \/ (\E r \in Loaders : Scan(r)) \/ Boot
    BY <1>k, <1>8 DEF ChangeGet, Reload, ChangeSave, Scan, Boot
  <1>9. CASE UNCHANGED vars
    BY <1>9, <1>k DEF vars
  <1> QED
    BY <1>1, <1>2, <1>3, <1>4, <1>5, <1>6, <1>7, <1>8, <1>9
       DEF Next, CallbackStep, LoaderStep

LEMMA NextAlone == SInv /\ Waitable /\ ~overlapped' /\ [Next]_vars => Alone'
  <1> SUFFICES ASSUME SInv, Waitable, ~overlapped', [Next]_vars PROVE Alone'
    OBVIOUS
  <1>a. /\ ~overlapped /\ InTime /\ OneEach /\ TimersInTime /\ Alone
        /\ FilesOK /\ TimersOK /\ LoadersOK /\ MapOK
    BY Before
  <1>k. UNCHANGED <<timer, loader, entry>> => Alone'
    BY <1>a DEF Alone, Loading, Firing
  <1>e. Loading' = {} => Alone'
    BY DEF Alone, Loading
  <1>o. \A r \in Loaders : /\ Loading' = {r} /\ Firing' = {}
                         /\ loader'[r].pc \notin {"scanning", "arming"}
                         => Alone'
    BY DEF Alone, Loading
  <1>1. CASE Tick
    <2>1. \A r \in Loaders : loader'[r].pc = "arming" => \A x \in loader'[r].seen : x.e = entry'[x.s]
      <3> SUFFICES ASSUME NEW r \in Loaders, loader'[r].pc = "arming", NEW x \in loader'[r].seen
                   PROVE  x.e = entry'[x.s]
        OBVIOUS
      <3>1. loader'[r].seen = {[s |-> y.s, e |-> [y.e EXCEPT !.next = Less(@)]] : y \in loader[r].seen}
        BY <1>a, <1>1 DEF Tick, LoadersOK, LoaderType
      <3>2. PICK y \in loader[r].seen : x = [s |-> y.s, e |-> [y.e EXCEPT !.next = Less(@)]]
        BY <3>1
      <3>3. y.e = entry[y.s] /\ y.s \in Schedules
        BY <1>a, <1>1, Ticks DEF Alone, LoadersOK, LoaderType
      <3>4. entry'[y.s] = [entry[y.s] EXCEPT !.next = Less(@)]
        BY <1>1, <3>3 DEF Tick
      <3> QED BY <3>2, <3>3, <3>4
    <2> QED BY <1>a, <1>1, <2>1, Ticks DEF Alone
  <1>2. ASSUME NEW n \in Timers, Fire(n) PROVE Alone'
    <2>1. Loading = {} /\ loader' = loader
      BY <1>2 DEF Fire
    <2> QED BY <1>e, <2>1 DEF Loading
  <1>3. CASE (\E n \in Timers : Enqueue(n)) \/ (\E n \in Timers : EnqueueFails(n))
             \/ (\E n \in Timers : RecordGet(n)) \/ (\E n \in Timers : RecordSave(n))
    <2>1. Firing # {} /\ loader' = loader
      BY <1>3 DEF Enqueue, EnqueueFails, RecordGet, RecordSave, Firing
    <2> QED BY <1>a, <1>e, <2>1 DEF Loading, Alone
  <1>4. CASE (\E r \in Loaders, s \in Schedules, want \in EntryStates : ChangeGet(r, s, want))
             \/ (\E r \in Loaders : Reload(r))
    <2> PICK r \in Loaders : \/ \E s \in Schedules, want \in EntryStates : ChangeGet(r, s, want)
                             \/ Reload(r)
      BY <1>4
    <2>1. Loading = {} /\ Firing = {} /\ timer' = timer
      BY DEF ChangeGet, Reload
    <2>2. \A q \in Loaders \ {r} : loader'[q] = loader[q]
      BY <1>a DEF ChangeGet, Reload, LoadersOK
    <2>3. loader'[r].pc \in {"changing", "changed"}
      <3>1. CASE Reload(r)
        BY <1>a, <3>1 DEF Reload, LoadersOK, LoaderType
      <3>2. ASSUME NEW s \in Schedules, NEW want \in EntryStates, ChangeGet(r, s, want)
            PROVE  loader'[r].pc = "changing"
        BY <1>a, <3>2 DEF ChangeGet, LoadersOK, IdleLoader
      <3> QED BY <3>1, <3>2
    <2> QED BY <1>o, <2>1, <2>2, <2>3 DEF Loading, Firing
  <1>5. ASSUME NEW r \in Loaders, ChangeSave(r) PROVE Alone'
    <2>1. r \in Loading /\ timer' = timer
      BY <1>5 DEF ChangeSave, Loading
    <2>2. loader'[r].pc = "changed" /\ \A q \in Loaders \ {r} : loader'[q] = loader[q]
      BY <1>a, <1>5 DEF ChangeSave, LoadersOK, LoaderType
    <2>3. \A q \in Loaders \ {r} : loader[q].pc = "idle"
      BY <1>a, <2>1 DEF Alone, Loading
    <2> QED BY <1>a, <1>o, <2>1, <2>2, <2>3 DEF Alone, Loading, Firing
  <1>6. ASSUME NEW r \in Loaders, Stop(r) PROVE Alone'
    <2>1. r \in Loading /\ \A n \in Timers : timer'[n].pc = "free"
      BY <1>a, <1>6, StopsAll DEF Stop, Loading
    <2>2. loader'[r].pc = "scanning" /\ \A q \in Loaders \ {r} : loader'[q] = loader[q]
      BY <1>a, <1>6 DEF Stop, LoadersOK, LoaderType
    <2>3. \A q \in Loaders \ {r} : loader[q].pc = "idle"
      BY <1>a, <2>1 DEF Alone, Loading
    <2> QED BY <2>1, <2>2, <2>3 DEF Alone, Loading, Firing
  <1>7. ASSUME NEW r \in Loaders, Scan(r) PROVE Alone'
    <2>1. r \in Loading /\ timer' = timer /\ entry' = entry /\ \A n \in Timers : timer[n].pc = "free"
      BY <1>a, <1>7 DEF Scan, Loading, Alone
    <2>2. loader'[r].pc = "arming" /\ (\A x \in loader'[r].seen : x.e = entry[x.s])
          /\ \A q \in Loaders \ {r} : loader'[q] = loader[q]
      BY <1>a, <1>7 DEF Scan, LoadersOK, LoaderType
    <2>3. \A q \in Loaders \ {r} : loader[q].pc = "idle"
      BY <1>a, <2>1 DEF Alone, Loading
    <2> QED BY <2>1, <2>2, <2>3 DEF Alone, Loading, Firing
  <1>8. ASSUME NEW r \in Loaders, ArmSeen(r) PROVE Alone'
    <2>1. r \in Loading /\ loader' = [loader EXCEPT ![r] = IdleLoader]
      BY <1>8 DEF ArmSeen, Loading
    <2>2. \A q \in Loaders \ {r} : loader[q].pc = "idle"
      BY <1>a, <2>1 DEF Alone, Loading
    <2>3. Loading' = {}
      BY <1>a, <2>1, <2>2, Idle DEF Loading, LoadersOK
    <2> QED BY <1>e, <2>3
  <1>9. CASE Exit
    <2>1. Loading' = {}
      BY <1>9, Idle DEF Exit, Loading
    <2> QED BY <1>e, <2>1
  <1>10. CASE Boot
    <2>1. (\A n \in Timers : timer[n].pc = "free") /\ \A r \in Loaders : loader[r].pc = "idle"
      BY <1>10 DEF SInv, IInv, DownIsIdle, Boot
    <2>2. PICK r \in Loaders : loader' = [loader EXCEPT ![r].pc = "changed"]
      BY <1>10 DEF Boot
    <2>3. loader'[r].pc = "changed" /\ \A q \in Loaders \ {r} : loader'[q] = loader[q]
      BY <1>a, <2>2 DEF LoadersOK, LoaderType
    <2> QED BY <1>o, <1>10, <2>1, <2>3 DEF Boot, Loading, Firing
  <1>11. CASE UNCHANGED vars
    BY <1>11, <1>k DEF vars
  <1> QED
    BY <1>1, <1>2, <1>3, <1>4, <1>5, <1>6, <1>7, <1>8, <1>9, <1>10, <1>11
       DEF Next, CallbackStep, LoaderStep

LEMMA NextTimersInTime == SInv /\ Waitable /\ ~overlapped' /\ [Next]_vars => TimersInTime'
  <1> SUFFICES ASSUME SInv, Waitable, ~overlapped', [Next]_vars PROVE TimersInTime'
    OBVIOUS
  <1>a. /\ ~overlapped /\ InTime /\ OneEach /\ TimersInTime /\ Alone
        /\ FilesOK /\ TimersOK /\ LoadersOK /\ MapOK
    BY Before
  <1>n. \A s \in Schedules : NextFire(s) \in 1..Period /\ recent[s] \in 0..Period
                           /\ entry[s].next \in 0..Period \cup {Null}
    BY <1>a, Fires DEF MapOK, FilesOK, Entry
  <1> DEFINE Good(n) ==
          LET s == timer[n].s IN
          /\ timer[n].pc = "armed" => timer[n].rem >= recent[s]
          /\ timer[n].pc = "armed" /\ Loading = {} => timer[n].rem >= entry[s].next
          /\ timer[n].pc = "read" => recent[s] = 0
          /\ timer[n].pc \in {"read", "enqueued"} => entry[s].next <= 0
          /\ timer[n].pc = "recording" => NotBefore(s, timer[n].base.next)
  <1>d. TimersInTime' <=> \A n \in Timers : Good(n)'
    BY DEF TimersInTime
  <1>g. \A n \in Timers : Good(n)
    BY <1>a DEF TimersInTime
  <1>i. \A n \in Timers : timer'[n].pc = "free" => Good(n)'
    OBVIOUS
  <1>s. ASSUME NEW n \in Timers, timer'[n] = timer[n],
               timer[n].pc # "free" => recent'[timer[n].s] = recent[timer[n].s]
                                       /\ entry'[timer[n].s] = entry[timer[n].s],
               Loading' = Loading
        PROVE  Good(n)'
    BY <1>g, <1>s DEF NotBefore
  <1>u. \A m, n \in Timers : m # n /\ timer[m].pc # "free" /\ timer[n].pc # "free" => timer[m].s # timer[n].s
    BY <1>a DEF OneEach
  <1> HIDE DEF Good
  <1>k. UNCHANGED <<timer, recent, entry>> /\ Loading' = Loading => TimersInTime'
    BY <1>d, <1>s
  <1>1. CASE Tick
    <2> SUFFICES ASSUME NEW n \in Timers PROVE Good(n)'
      BY <1>d
    <2> DEFINE s == timer[n].s
    <2>1. CASE timer[n].pc = "free"
      BY <1>a, <1>i, <1>1, <2>1, Ticks
    <2>2. CASE timer[n].pc # "free"
      <3>1. s \in Schedules /\ timer[n].rem \in 0..Period /\ timer[n].base.next \in 0..Period \cup {Null}
        BY <1>a, <2>2 DEF TimersOK, TimerType, Entry
      <3>2. /\ timer'[n].pc = timer[n].pc /\ timer'[n].s = s /\ timer'[n].rem = Less(timer[n].rem)
            /\ timer'[n].base.next = Less(timer[n].base.next)
            /\ entry'[s].next = Less(entry[s].next) /\ recent'[s] = Less(recent[s]) /\ Loading' = Loading
        BY <1>a, <1>1, <3>1, Ticks
      <3>3. Less(0) = 0
        BY DEF Less
      <3>4. timer[n].pc = "armed" => Less(timer[n].rem) >= Less(recent[s])
        BY <1>g, <1>n, <3>1, Lessens DEF Good
      <3>5. timer[n].pc = "armed" /\ Loading = {} => Less(timer[n].rem) >= Less(entry[s].next)
        BY <1>g, <1>n, <3>1, Lessens DEF Good
      <3>6. timer[n].pc = "read" => Less(recent[s]) = 0
        BY <1>g, <3>3 DEF Good
      <3>7. timer[n].pc \in {"read", "enqueued"} => Less(entry[s].next) <= 0
        BY <1>g, <1>n, <3>1 DEF Good, Less, Null
      <3>8. timer[n].pc = "recording" =>
              (Less(timer[n].base.next) > 0 => Less(timer[n].base.next) >= Less(recent[s]))
        BY <1>g, <1>n, <3>1, Lessens DEF Good, NotBefore
      <3> HIDE DEF s
      <3> QED BY <3>2, <3>4, <3>5, <3>6, <3>7, <3>8 DEF Good, NotBefore, s
    <2> QED BY <2>1, <2>2
  <1>2. ASSUME NEW n \in Timers, Fire(n) PROVE TimersInTime'
    <2> SUFFICES ASSUME NEW m \in Timers PROVE Good(m)'
      BY <1>d
    <2>1. Loading = {} /\ Loading' = {} /\ UNCHANGED <<entry, recent>>
      BY <1>2 DEF Fire, Loading
    <2>2. CASE m # n
      BY <1>a, <1>2, <1>s, <2>1, <2>2 DEF Fire, TimersOK
    <2>3. CASE m = n
      <3>1. timer[n].s \in Schedules /\ timer[n].rem = 0 /\ timer[n].pc = "armed"
        BY <1>a, <1>2 DEF Fire, TimersOK
      <3>2. recent[timer[n].s] = 0 /\ entry[timer[n].s].next <= 0
        BY <1>g, <1>n, <2>1, <3>1 DEF Good
      <3>3. (timer'[n].pc = "read" /\ timer'[n].s = timer[n].s) \/ timer'[n].pc = "free"
        BY <1>a, <1>2, Idle DEF Fire, TimersOK, FreeTimer
      <3> QED BY <1>i, <2>1, <2>3, <3>2, <3>3 DEF Good
    <2> QED BY <2>2, <2>3
  <1>3. ASSUME NEW n \in Timers, Enqueue(n) PROVE TimersInTime'
    <2> SUFFICES ASSUME NEW m \in Timers PROVE Good(m)'
      BY <1>d
    <2>1. Loading' = Loading /\ entry' = entry /\ recent' = [recent EXCEPT ![timer[n].s] = NextFire(timer[n].s)]
      BY <1>3 DEF Enqueue, Loading
    <2>2. CASE m # n
      BY <1>a, <1>3, <1>s, <1>u, <2>1, <2>2 DEF Enqueue, TimersOK, MapOK
    <2>3. CASE m = n
      <3>1. timer'[n].pc = "enqueued" /\ timer'[n].s = timer[n].s /\ timer[n].pc = "read"
        BY <1>a, <1>3 DEF Enqueue, TimersOK, TimerType
      <3> QED BY <1>g, <2>1, <2>3, <3>1 DEF Good
    <2> QED BY <2>2, <2>3
  <1>4. ASSUME NEW n \in Timers, EnqueueFails(n) PROVE TimersInTime'
    <2> SUFFICES ASSUME NEW m \in Timers PROVE Good(m)'
      BY <1>d
    <2>1. Loading' = Loading /\ UNCHANGED <<entry, recent>>
      BY <1>4 DEF EnqueueFails, Loading
    <2>2. CASE m # n
      BY <1>a, <1>4, <1>s, <2>1, <2>2 DEF EnqueueFails, TimersOK
    <2>3. CASE m = n
      <3>1. (timer'[n].pc = "enqueued" /\ timer'[n].s = timer[n].s) \/ timer'[n].pc = "free"
        BY <1>a, <1>4, Idle DEF EnqueueFails, TimersOK, TimerType
      <3>2. timer[n].pc = "read"
        BY <1>4 DEF EnqueueFails
      <3> QED BY <1>g, <1>i, <2>1, <2>3, <3>1, <3>2 DEF Good
    <2> QED BY <2>2, <2>3
  <1>5. ASSUME NEW n \in Timers, RecordGet(n) PROVE TimersInTime'
    <2> SUFFICES ASSUME NEW m \in Timers PROVE Good(m)'
      BY <1>d
    <2>1. Loading' = Loading /\ UNCHANGED <<entry, recent>>
      BY <1>5 DEF RecordGet, Loading
    <2>2. CASE m # n
      BY <1>a, <1>5, <1>s, <2>1, <2>2 DEF RecordGet, TimersOK
    <2>3. CASE m = n
      <3>1. timer[n].s \in Schedules
        BY <1>a, <1>5 DEF RecordGet, TimersOK
      <3>2. timer'[n].pc = "free" \/ (/\ timer'[n].pc = "recording" /\ timer'[n].s = timer[n].s
                                      /\ timer'[n].base.next = NextFire(timer[n].s))
        BY <1>a, <1>5, <3>1, Idle DEF RecordGet, TimersOK, TimerType, FilesOK, Entry
      <3>3. NextFire(timer[n].s) >= recent[timer[n].s]
        BY <1>a, <1>n, <3>1 DEF InTime
      <3> QED BY <1>i, <2>1, <2>3, <3>2, <3>3 DEF Good, NotBefore
    <2> QED BY <2>2, <2>3
  <1>6. ASSUME NEW n \in Timers, RecordSave(n) PROVE TimersInTime'
    <2> SUFFICES ASSUME NEW m \in Timers PROVE Good(m)'
      BY <1>d
    <2> DEFINE s == timer[n].s
               e == timer[n].base
    <2>1. /\ Loading' = Loading /\ recent' = recent /\ entry' = [entry EXCEPT ![s] = e]
          /\ timer[n].pc = "recording"
      BY <1>6 DEF RecordSave, Loading
    <2>2. s \in Schedules /\ e \in Entry /\ NotBefore(s, e.next)
      BY <1>a, <1>g, <1>6, <2>1 DEF TimersOK, TimerType, Good
    <2>3. CASE m # n
      BY <1>a, <1>6, <1>s, <1>u, <2>1, <2>2, <2>3 DEF RecordSave, TimersOK, FilesOK
    <2>4. CASE m = n /\ e.state = "on"
      <3>1. timer'[n] = Armed(s, e) /\ entry'[s] = e
        BY <1>a, <1>6, <2>1, <2>2, <2>4 DEF RecordSave, TimersOK, FilesOK
      <3>2. Armed(s, e).rem >= recent[s] /\ Armed(s, e).rem >= e.next
        BY <1>a, <2>2, ArmsInTime DEF InTime
      <3>3. Armed(s, e).pc = "armed" /\ Armed(s, e).s = s
        BY <1>a, <2>2, Arms
      <3> HIDE DEF s, e
      <3> QED BY <2>1, <2>4, <3>1, <3>2, <3>3 DEF Good
    <2>5. CASE m = n /\ e.state # "on"
      BY <1>a, <1>i, <1>6, <2>5, Idle DEF RecordSave, TimersOK
    <2> QED BY <2>3, <2>4, <2>5
  <1>7. ASSUME NEW r \in Loaders, ChangeSave(r) PROVE TimersInTime'
    <2> SUFFICES ASSUME NEW m \in Timers PROVE Good(m)'
      BY <1>d
    <2>1. Firing = {} /\ UNCHANGED <<timer, recent>>
      BY <1>a, <1>7 DEF ChangeSave, Alone, Loading
    <2>2. loader'[r].pc = "changed"
      BY <1>a, <1>7 DEF ChangeSave, LoadersOK, LoaderType
    <2>3. Loading' # {} /\ timer[m].pc \notin {"read", "enqueued", "recording"}
      BY <2>1, <2>2 DEF Loading, Firing
    <2> QED BY <1>g, <2>1, <2>3 DEF Good
  <1>8. CASE (\E r \in Loaders, s \in Schedules, want \in EntryStates : ChangeGet(r, s, want))
             \/ (\E r \in Loaders : Reload(r)) \/ Boot
    <2>1. UNCHANGED <<timer, recent, entry>>
      BY <1>8 DEF ChangeGet, Reload, Boot
    <2>2. Loading' # {}
      <3>1. \E r \in Loaders : loader'[r].pc \in {"changing", "changed"}
        <4>1. CASE Boot \/ \E r \in Loaders : Reload(r)
          BY <1>a, <4>1 DEF Boot, Reload, LoadersOK, LoaderType
        <4>2. ASSUME NEW r \in Loaders, NEW s \in Schedules, NEW want \in EntryStates, ChangeGet(r, s, want)
              PROVE  loader'[r].pc = "changing"
          BY <1>a, <4>2 DEF ChangeGet, LoadersOK, IdleLoader
        <4> QED BY <1>8, <4>1, <4>2
      <3> QED BY <3>1 DEF Loading
    <2> QED BY <1>d, <1>g, <2>1, <2>2 DEF Good, NotBefore
  <1>9. ASSUME NEW r \in Loaders, Stop(r) PROVE TimersInTime'
    BY <1>a, <1>d, <1>i, <1>9, StopsAll
  <1>10. ASSUME NEW r \in Loaders, Scan(r) PROVE TimersInTime'
    <2>1. \A n \in Timers : timer'[n].pc = "free"
      BY <1>a, <1>10 DEF Scan, Alone
    <2> QED BY <1>d, <1>i, <2>1
  <1>11. ASSUME NEW r \in Loaders, ArmSeen(r) PROVE TimersInTime'
    <2> SUFFICES ASSUME NEW n \in Timers PROVE Good(n)'
      BY <1>d
    <2>1. timer[n].pc = "free" /\ \A x \in loader[r].seen : x.e = entry[x.s]
      BY <1>a, <1>11 DEF Alone, ArmSeen
    <2>2. CASE timer'[n] = timer[n]
      BY <1>i, <2>1, <2>2
    <2>3. CASE timer'[n] # timer[n]
      <3> PICK x \in loader[r].seen : timer'[n] = Armed(x.s, x.e)
        BY <1>a, <1>11, <2>3, Arming
      <3>1. x.s \in Schedules /\ x.e \in Entry /\ x.e = entry[x.s]
        BY <1>a, <1>11, <2>1, Arming
      <3>2. Armed(x.s, x.e).rem >= recent[x.s] /\ Armed(x.s, x.e).rem >= entry[x.s].next
        BY <1>a, <3>1, ArmsInTime DEF InTime
      <3>3. Armed(x.s, x.e).pc = "armed" /\ Armed(x.s, x.e).s = x.s
        BY <1>a, <3>1, Arms
      <3>4. UNCHANGED <<recent, entry>>
        BY <1>11 DEF ArmSeen
      <3> QED BY <3>2, <3>3, <3>4 DEF Good
    <2> QED BY <2>2, <2>3
  <1>12. CASE Exit
    <2>1. \A n \in Timers : timer'[n].pc = "free"
      BY <1>12, Idle DEF Exit
    <2> QED BY <1>d, <1>i, <2>1
  <1>13. CASE UNCHANGED vars
    BY <1>13, <1>k DEF vars, Loading
  <1> QED
    BY <1>1, <1>2, <1>3, <1>4, <1>5, <1>6, <1>7, <1>8, <1>9, <1>10, <1>11, <1>12, <1>13
       DEF Next, CallbackStep, LoaderStep

LEMMA NextSpaced == SInv /\ [Next]_vars => Spaced'
  <1> SUFFICES ASSUME SInv, [Next]_vars PROVE Spaced'
    OBVIOUS
  <1>1. ASSUME NEW n \in Timers, Enqueue(n) PROVE Spaced'
    <2>1. TimersOK /\ MapOK
      BY Parts DEF SInv, IInv
    <2>2. ~overlapped => recent[timer[n].s] = 0
      BY <1>1 DEF SInv, Undisturbed, TimersInTime, Enqueue
    <2> QED BY <1>1, <2>1, <2>2 DEF Enqueue, SInv, Spaced
  <1>2. CASE UNCHANGED early
    BY <1>2 DEF SInv, Spaced
  <1> QED
    BY <1>1, <1>2 DEF Next, CallbackStep, LoaderStep, vars, Tick, Fire, Enqueue, EnqueueFails,
        RecordGet,
       RecordSave, ChangeGet, Reload, ChangeSave, Stop, Scan, ArmSeen, Exit, Boot

\* No firing comes before its time: missed firings are skipped, restarts,
\* failures and late timers move nothing forward, as long as no reload or
\* change met another one or a callback and setTimeout can wait a period.
THEOREM FiringsAreSpaced == Waitable /\ Spec => []Spaced
  <1> SUFFICES ASSUME Waitable PROVE Spec => []Spaced
    OBVIOUS
  <1>1. SInv /\ [Next]_vars => SInv'
    <2> SUFFICES ASSUME SInv, [Next]_vars PROVE SInv'
      OBVIOUS
    <2>1. IInv'
      <3>1. FilesOK' /\ TimersOK' /\ LoadersOK' /\ MapOK' /\ BitsOK' /\ DownIsIdle'
        BY NextFiles, NextTimers, NextLoaders, NextMap, NextBits, NextDown DEF SInv
      <3> QED
        BY <3>1, Zenon DEF IInv, TypeOK, About, FilesOK, TimersOK, LoadersOK, MapOK, BitsOK,
            TimerType, LoaderType
    <2>2. ~overlapped' => InTime' /\ OneEach' /\ TimersInTime' /\ Alone'
      BY NextInTime, NextOneEach, NextTimersInTime, NextAlone
    <2>3. Undisturbed'
      BY <2>2 DEF Undisturbed
    <2> QED BY <2>1, <2>3, NextSpaced DEF SInv
  <1>2. SInv => Spaced
    BY DEF SInv
  <1> QED BY <1>1, <1>2, InitInv, PTL DEF Spec

-----------------------------------------------------------------------------
(* No enabled schedule is lost, whatever overlaps.                         *)

\* What will arm a schedule, or has armed it: its timer or callback, a reload
\* whose scan is still to come, or one whose scan has seen it.
Timed(s) == \E n \in Timers : timer[n].pc # "free" /\ timer[n].s = s
Awaited(s) ==
    \/ \E r \in Loaders : loader[r].pc \in {"changed", "scanning"}
    \/ \E r \in Loaders : loader[r].pc = "arming" /\ s \in Found(r)
Covered(s) == Timed(s) \/ Awaited(s) \/ s \in dropped

EnabledIsCovered == up => \A s \in Schedules : entry[s].state = "on" => Covered(s)

\* A callback that ends without a new timer leaves a schedule that is not
\* enabled, or drops it.
LEMMA CallbackCovers ==
    ASSUME IInv, EnabledIsCovered, NEW n \in Timers, CallbackStep(n)
    PROVE  EnabledIsCovered'
  <1> DEFINE s == timer[n].s
  <1>a. FilesOK /\ TimersOK /\ LoadersOK
    BY Parts DEF IInv
  <1>b. s \in Schedules /\ timer[n] \in TimerType /\ UNCHANGED <<up, loader>>
    BY <1>a DEF CallbackStep, Fire, Enqueue, EnqueueFails, RecordGet, RecordSave, TimersOK
  <1>c. \A u \in Schedules : Awaited(u) => Awaited(u)'
    BY <1>b DEF Awaited, Found
  <1>1. ASSUME NEW x \in TimerType, timer' = [timer EXCEPT ![n] = x],
               x.pc # "free" => x.s = s,
               \A u \in Schedules \ {s} : entry'[u] = entry[u],
               dropped \subseteq dropped',
               x.pc # "free" \/ entry'[s].state # "on" \/ s \in dropped'
        PROVE  EnabledIsCovered'
    <2>1. \A m \in Timers \ {n} : timer'[m] = timer[m]
      BY <1>1, <1>a DEF TimersOK
    <2>2. timer'[n] = x
      BY <1>1, <1>a DEF TimersOK
    <2>3. ASSUME NEW u \in Schedules, u # s, Covered(u) PROVE Covered(u)'
      BY <1>1, <1>c, <2>1, <2>3 DEF Covered, Timed
    <2>4. ASSUME NEW u \in Schedules, u = s, entry'[u].state = "on" PROVE Covered(u)'
      BY <1>1, <1>b, <2>2, <2>4 DEF Covered, Timed
    <2> QED BY <1>1, <1>b, <2>3, <2>4 DEF EnabledIsCovered
  <1>2. CASE Fire(n)
    <2> DEFINE x == IF entry[s].state = "on" THEN [FreeTimer EXCEPT !.pc = "read", !.s = s]
                                             ELSE FreeTimer
    <2>1. x \in TimerType /\ (x.pc # "free" => x.s = s) /\ (entry[s].state = "on" => x.pc = "read")
      BY <1>b, Idle DEF FreeTimer, TimerType, TimerPcs
    <2>2. timer' = [timer EXCEPT ![n] = x] /\ UNCHANGED <<entry, dropped>>
      BY <1>2 DEF Fire
    <2> HIDE DEF x
    <2> QED BY <1>1, <2>1, <2>2
  <1>3. CASE Enqueue(n)
    <2> DEFINE x == [timer[n] EXCEPT !.pc = "enqueued"]
    <2>1. x \in TimerType /\ x.pc = "enqueued" /\ x.s = s
      BY <1>b DEF TimerType, TimerPcs
    <2>2. timer' = [timer EXCEPT ![n] = x] /\ UNCHANGED <<entry, dropped>>
      BY <1>3 DEF Enqueue
    <2> HIDE DEF x
    <2> QED BY <1>1, <2>1, <2>2
  <1>4. CASE EnqueueFails(n)
    <2> DEFINE x == IF kind[s].hook THEN [timer[n] EXCEPT !.pc = "enqueued"] ELSE FreeTimer
    <2>1. x \in TimerType /\ (x.pc # "free" => x.s = s) /\ (kind[s].hook => x.pc # "free")
      BY <1>b, Idle DEF TimerType, TimerPcs
    <2>2. /\ timer' = [timer EXCEPT ![n] = x] /\ UNCHANGED entry
          /\ dropped \subseteq dropped' /\ (~kind[s].hook => s \in dropped')
      BY <1>4 DEF EnqueueFails
    <2> HIDE DEF x
    <2> QED BY <1>1, <2>1, <2>2
  <1>5. CASE RecordGet(n)
    <2> DEFINE b == [entry[s] EXCEPT !.next = NextFire(s)]
               x == IF entry[s].state = "gone" THEN FreeTimer
                    ELSE [timer[n] EXCEPT !.pc = "recording", !.base = b]
    <2>1. b \in Entry
      BY <1>a, <1>b, Fires DEF FilesOK, Entry
    <2>2. timer' = [timer EXCEPT ![n] = x] /\ UNCHANGED <<entry, dropped>>
      BY <1>5 DEF RecordGet
    <2> HIDE DEF b
    <2>3. x \in TimerType /\ (x.pc # "free" => x.s = s) /\ (entry[s].state # "gone" => x.pc # "free")
      BY <1>b, <2>1, Idle DEF TimerType, TimerPcs
    <2> HIDE DEF x
    <2> QED BY <1>1, <2>2, <2>3
  <1>6. CASE RecordSave(n)
    <2> DEFINE e == timer[n].base
               x == IF e.state = "on" THEN Armed(s, e) ELSE FreeTimer
    <2>1. e \in Entry
      BY <1>b DEF TimerType
    <2>2. x \in TimerType /\ (x.pc # "free" => x.s = s) /\ (e.state = "on" => x.pc # "free")
      BY <1>a, <1>b, <2>1, Arms, Idle
    <2>3. timer' = [timer EXCEPT ![n] = x] /\ entry' = [entry EXCEPT ![s] = e] /\ UNCHANGED dropped
      BY <1>6 DEF RecordSave
    <2>4. (\A u \in Schedules \ {s} : entry'[u] = entry[u]) /\ entry'[s] = e
      BY <1>a, <1>b, <2>3 DEF FilesOK
    <2> HIDE DEF x
    <2> QED BY <1>1, <2>2, <2>3, <2>4
  <1> QED BY <1>2, <1>3, <1>4, <1>5, <1>6 DEF CallbackStep

\* A reload that has cleared the timers has the files still to scan, and arms
\* what it has seen; only its end takes that away.
LEMMA LoaderCovers ==
    ASSUME IInv, EnabledIsCovered, NEW r \in Loaders, LoaderStep(r)
    PROVE  EnabledIsCovered'
  <1>a. FilesOK /\ TimersOK /\ LoadersOK
    BY Parts DEF IInv
  <1>1. CASE ChangeSave(r) \/ Stop(r)
    <2>1. loader'[r].pc \in {"changed", "scanning"}
      BY <1>1, <1>a DEF ChangeSave, Stop, LoadersOK, LoaderType
    <2> QED BY <2>1 DEF EnabledIsCovered, Covered, Awaited
  <1>2. CASE Scan(r)
    <2> DEFINE seen == {[s |-> s, e |-> entry[s]] : s \in {u \in Schedules : entry[u].state = "on"}}
    <2>1. loader'[r].pc = "arming" /\ loader'[r].seen = seen /\ entry' = entry
      BY <1>2, <1>a DEF Scan, LoadersOK, LoaderType
    <2>2. ASSUME NEW s \in Schedules, entry[s].state = "on"
          PROVE  \E x \in seen : x.s = s
      <3>1. [s |-> s, e |-> entry[s]] \in seen
        BY <2>2
      <3> QED BY <3>1
    <2> HIDE DEF seen
    <2>3. \A s \in Schedules : entry'[s].state = "on" => s \in Found(r)'
      BY <2>1, <2>2 DEF Found
    <2> QED BY <2>1, <2>3 DEF EnabledIsCovered, Covered, Awaited
  <1>3. CASE ArmSeen(r)
    <2>1. /\ UNCHANGED <<entry, up>>
          /\ dropped' = dropped \ Found(r)
          /\ \A q \in Loaders \ {r} : loader'[q] = loader[q]
          /\ loader[r].pc = "arming"
      BY <1>3, <1>a DEF ArmSeen, Found, LoadersOK
    <2>2. ASSUME NEW s \in Found(r) PROVE Timed(s)'
      <3>1. PICK x \in loader[r].seen : x.s = s
        BY DEF Found
      <3>2. Place(r)[s] \in Timers
        BY <1>a, <1>3, Arming DEF Free
      <3>3. PICK y \in loader[r].seen :
              Place(r)[y.s] = Place(r)[s] /\ timer'[Place(r)[s]] = Armed(y.s, y.e)
        BY <1>a, <1>3, <3>1, <3>2, Arming
      <3>4. y.s = s
        BY <1>a, <1>3, <3>3, Arming DEF Found
      <3>5. y.s \in Schedules /\ y.e \in Entry
        BY <1>a, <1>3, Arming
      <3> QED BY <1>a, <3>2, <3>3, <3>4, <3>5, Arms DEF Timed
    <2>3. ASSUME NEW s \in Schedules, Timed(s) PROVE Timed(s)'
      <3>1. PICK n \in Timers : timer[n].pc # "free" /\ timer[n].s = s
        BY <2>3 DEF Timed
      <3>2. \A x \in loader[r].seen : Place(r)[x.s] # n
        BY <1>a, <1>3, <3>1, Arming DEF Free, Found
      <3>3. timer'[n] = timer[n]
        BY <1>a, <1>3, <3>2, Arming
      <3> QED BY <3>1, <3>3 DEF Timed
    <2>4. ASSUME NEW s \in Schedules, Awaited(s), s \notin Found(r) PROVE Awaited(s)'
      BY <2>1, <2>4 DEF Awaited, Found
    <2>5. ASSUME NEW s \in Schedules, Covered(s) PROVE Covered(s)'
      BY <2>1, <2>2, <2>3, <2>4, <2>5 DEF Covered
    <2> QED BY <2>1, <2>5 DEF EnabledIsCovered
  <1> QED BY <1>1, <1>2, <1>3 DEF LoaderStep

\* Every step keeps each enabled schedule covered.
LEMMA NextCovered == IInv /\ EnabledIsCovered /\ [Next]_vars => EnabledIsCovered'
  <1> SUFFICES ASSUME IInv, EnabledIsCovered, [Next]_vars PROVE EnabledIsCovered'
    OBVIOUS
  <1>a. FilesOK /\ TimersOK /\ LoadersOK
    BY Parts DEF IInv
  <1>1. ASSUME NEW r \in Loaders, loader'[r].pc = "changed" PROVE EnabledIsCovered'
    BY <1>1 DEF EnabledIsCovered, Covered, Awaited
  <1>2. CASE Tick
    <2>1. \A n \in Timers : timer'[n].pc = timer[n].pc /\ timer'[n].s = timer[n].s
      BY <1>a, <1>2 DEF Tick, TimersOK, TimerType
    <2>2. \A s \in Schedules : entry'[s].state = entry[s].state
      BY <1>a, <1>2 DEF Tick, FilesOK, Entry
    <2>3. ASSUME NEW r \in Loaders PROVE loader'[r].pc = loader[r].pc /\ Found(r)' = Found(r)
      <3> DEFINE older(x) == [s |-> x.s, e |-> [x.e EXCEPT !.next = Less(@)]]
      <3>1. loader'[r] = [loader[r] EXCEPT !.seen = {older(x) : x \in loader[r].seen}]
        BY <1>2 DEF Tick
      <3>2. loader'[r].pc = loader[r].pc /\ loader'[r].seen = {older(x) : x \in loader[r].seen}
        BY <1>a, <3>1 DEF LoadersOK, LoaderType
      <3>3. \A x : older(x).s = x.s
        OBVIOUS
      <3> HIDE DEF older
      <3>4. {y.s : y \in {older(x) : x \in loader[r].seen}} = {x.s : x \in loader[r].seen}
        BY <3>3
      <3> QED BY <3>2, <3>4 DEF Found
    <2>4. UNCHANGED <<up, dropped>>
      BY <1>2 DEF Tick
    <2>5. ASSUME NEW s \in Schedules, Covered(s) PROVE Covered(s)'
      BY <2>1, <2>3, <2>4, <2>5 DEF Covered, Timed, Awaited
    <2> QED BY <2>2, <2>4, <2>5 DEF EnabledIsCovered
  <1>3. ASSUME NEW r \in Loaders, NEW s \in Schedules, NEW want \in EntryStates,
               ChangeGet(r, s, want)
        PROVE  EnabledIsCovered'
    <2>1. loader[r].pc = "idle" /\ \A q \in Loaders \ {r} : loader'[q] = loader[q]
      BY <1>3, <1>a DEF ChangeGet, MayLoad, LoadersOK
    <2>2. UNCHANGED <<up, entry, timer, dropped>>
      BY <1>3 DEF ChangeGet
    <2>3. ASSUME NEW u \in Schedules, Covered(u) PROVE Covered(u)'
      BY <2>1, <2>2, <2>3 DEF Covered, Timed, Awaited, Found
    <2> QED BY <2>2, <2>3 DEF EnabledIsCovered
  <1>4. CASE (\E r \in Loaders : Reload(r)) \/ Boot
    <2>1. PICK r \in Loaders : loader' = [loader EXCEPT ![r].pc = "changed"]
      BY <1>4 DEF Reload, Boot
    <2>2. loader'[r].pc = "changed"
      BY <1>a, <2>1 DEF LoadersOK, LoaderType
    <2> QED BY <1>1, <2>2
  <1>5. CASE Exit
    <2>1. ~up'
      BY <1>5, Zenon DEF Exit
    <2> QED BY <2>1 DEF EnabledIsCovered
  <1>6. CASE UNCHANGED vars
    BY <1>6 DEF vars, EnabledIsCovered, Covered, Timed, Awaited, Found
  <1> QED
    BY <1>2, <1>3, <1>4, <1>5, <1>6, CallbackCovers, LoaderCovers DEF Next

\* When no reload, change or callback is in progress, every enabled schedule
\* has an armed timer, unless its last callback failed: no order of reloads,
\* changes, firings, exits and boots loses one silently.
THEOREM EnabledSchedulesAreArmed == Spec => []EnabledIsArmed
  <1>1. Init => EnabledIsCovered
    BY Zenon DEF Init, EnabledIsCovered
  <1>2. IInv /\ EnabledIsCovered => EnabledIsArmed
    <2> SUFFICES ASSUME IInv, EnabledIsCovered, up, Loading = {}, Firing = {},
                        NEW s \in Schedules, entry[s].state = "on"
                 PROVE  (\E n \in Timers : timer[n].pc = "armed" /\ timer[n].s = s) \/ s \in dropped
      BY DEF EnabledIsArmed
    <2>1. \A r \in Loaders : loader[r].pc = "idle"
      BY DEF Loading
    <2>2. \A n \in Timers : timer[n].pc \in {"free", "armed"}
      BY Parts DEF IInv, Firing, TimersOK, TimerType, TimerPcs
    <2>3. Covered(s)
      BY DEF EnabledIsCovered
    <2> QED BY <2>1, <2>2, <2>3 DEF Covered, Timed, Awaited
  <1> QED BY <1>1, <1>2, NextCovered, Confined, PTL DEF Spec

=============================================================================
