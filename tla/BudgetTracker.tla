--------------------------- MODULE BudgetTracker ---------------------------
(***************************************************************************)
(* The daily cost cap of one Agent: the tracker in the Agent's memory, the *)
(* day's telemetry file and the day's state file it is rebuilt from after  *)
(* a restart, the operator's override, and the two callers in the loop:    *)
(* the gate before a task and the record after each model call.            *)
(*                                                                         *)
(* Days are relative: Midnight begins a day whose files do not exist yet.  *)
(***************************************************************************)
EXTENDS Integers, FiniteSets

CONSTANTS
    Cap,       \* daily_cap_usd
    Warn,      \* the cap times warn_at_pct
    Costs,     \* what a model call may cost; 0: its price is unknown
    MaxSpend   \* bound: no call is made when a day's sum has come this far

ASSUME BudgetAssumption ==
    /\ Cap \in Nat \ {0} /\ Warn \in 1..Cap
    /\ Costs \subseteq Nat
    /\ MaxSpend \in Nat

VARIABLES
    up,          \* the Agent's process runs
    cumulative,  \* the tracker's fields
    warnedToday,
    blocked,
    lastDay,     \* the day of lastRecordedAt: "never", "today", "before"
    spent,       \* the sum of today's telemetry file
    file,        \* today's state file, or NoFile
    override,    \* an override that has not expired
    pc,          \* where the loop is between two tasks
    cost,        \* the cost of the model call in progress
    notes,       \* notifications of record still to be written
    sent,        \* history: notifications written today, 2 for more
    blurred      \* history: today's tracker and telemetry count apart

tracker == <<cumulative, warnedToday, blocked, lastDay>>
files == <<spent, file, override>>
loop == <<pc, cost, notes>>
vars == <<up, tracker, files, loop, sent, blurred>>

Days == {"never", "today", "before"}
NoFile == [warned |-> FALSE, last |-> "none"]
StateFile == [warned : BOOLEAN, last : Days]
Notes == {"warn", "block"}
LoopPcs == {"idle", "running", "called", "charged", "notifying"}

Init ==
    /\ up = FALSE
    /\ cumulative = 0 /\ warnedToday = FALSE /\ blocked = FALSE /\ lastDay = "never"
    /\ spent = 0 /\ file = NoFile /\ override = FALSE
    /\ pc = "idle" /\ cost = 0 /\ notes = {}
    /\ sent = [n \in Notes |-> 0] /\ blurred = FALSE

-----------------------------------------------------------------------------
(* Start and exit of the process.                                          *)

\* MUTANT of Replayed: the stored sum is trusted, and a day without a state
\* file is taken for a day without costs.
ReplayedIfStored == IF file = NoFile THEN 0 ELSE spent

\* replayTelemetry: the file counts what the state file may lack.
Replayed == spent

\* init: the sum comes from telemetry, the rest from today's state file, and
\* what results is saved.
Boot ==
    /\ ~up /\ up' = TRUE
    /\ cumulative' = Replayed
    /\ warnedToday' = file.warned
    /\ lastDay' = IF file = NoFile THEN "never" ELSE file.last
    /\ blocked' = (Replayed >= Cap)
    /\ file' = [warned |-> warnedToday', last |-> lastDay']
    /\ UNCHANGED <<spent, override, loop, sent, blurred>>

\* The files stay, the tracker and the rest of a call are lost.
Exit ==
    /\ up /\ up' = FALSE
    /\ cumulative' = 0 /\ warnedToday' = FALSE /\ blocked' = FALSE /\ lastDay' = "never"
    /\ pc' = "idle" /\ cost' = 0 /\ notes' = {}
    /\ UNCHANGED <<files, sent, blurred>>

-----------------------------------------------------------------------------
(* The loop's calls.                                                       *)

IsBlocked == blocked /\ ~override

\* The gate at the top of run(); a task it refuses leaves all this as it is.
Admit ==
    /\ up /\ pc = "idle" /\ ~IsBlocked
    /\ pc' = "running"
    /\ UNCHANGED <<up, tracker, files, cost, notes, sent, blurred>>

\* A model call, to the return of the provider; the task may end instead.
ModelCall ==
    /\ pc = "running" /\ spent < MaxSpend /\ cumulative < MaxSpend
    /\ cost' \in Costs
    /\ pc' = "called"
    /\ UNCHANGED <<up, tracker, files, notes, sent, blurred>>

TaskEnds ==
    /\ pc = "running" /\ pc' = "idle"
    /\ UNCHANGED <<up, tracker, files, cost, notes, sent, blurred>>

\* recordTelemetry appends to the file of the day on which the call
\* returned; a failure to write is logged and the run goes on.
Telemetry ==
    /\ pc = "called" /\ pc' = "charged"
    /\ \/ spent' = spent + cost /\ UNCHANGED blurred
       \/ UNCHANGED spent /\ blurred' = (blurred \/ cost > 0)
    /\ UNCHANGED <<up, tracker, file, override, cost, notes, sent>>

\* MUTANT of Base: midnight is not noticed.
BaseOfEver == [sum |-> cumulative, warned |-> warnedToday, blocked |-> blocked]

\* The rollover: a charge on a new day starts from nothing.
Base ==
    IF lastDay = "before" THEN [sum |-> 0, warned |-> FALSE, blocked |-> FALSE]
    ELSE [sum |-> cumulative, warned |-> warnedToday, blocked |-> blocked]

\* MUTANT of CrossesWarn: without the flag.
CrossesWarnAgain == Base.sum + cost >= Warn

\* The earlier sum is read before the rollover.
CrossesWarn == ~Base.warned /\ cumulative < Warn /\ Base.sum + cost >= Warn
CrossesCap == ~Base.blocked /\ Base.sum + cost >= Cap

\* record, up to the save of the state file.  A save that fails ends it with
\* the fields changed and nothing announced.
Record ==
    /\ pc = "charged" /\ cost > 0
    /\ cumulative' = Base.sum + cost
    /\ warnedToday' = (Base.warned \/ CrossesWarn)
    /\ blocked' = (Base.blocked \/ CrossesCap)
    /\ lastDay' = "today"
    /\ cost' = 0
    /\ \/ /\ file' = [warned |-> warnedToday', last |-> "today"]
          /\ notes' = {n \in Notes : IF n = "warn" THEN CrossesWarn ELSE CrossesCap}
          /\ pc' = "notifying"
       \/ /\ pc' = "running"
          /\ UNCHANGED <<file, notes>>
    /\ UNCHANGED <<up, spent, override, sent, blurred>>

\* An unknown price is no charge.
RecordNothing ==
    /\ pc = "charged" /\ cost = 0
    /\ pc' = "running"
    /\ UNCHANGED <<up, tracker, files, cost, notes, sent, blurred>>

\* fireNotification, the warning first.
Notify ==
    /\ pc = "notifying"
    /\ IF notes = {}
       THEN pc' = "running" /\ UNCHANGED <<notes, sent>>
       ELSE LET n == IF "warn" \in notes THEN "warn" ELSE "block"
            IN  /\ sent' = [sent EXCEPT ![n] = IF @ < 2 THEN @ + 1 ELSE 2]
                /\ notes' = notes \ {n}
                /\ UNCHANGED pc
    /\ UNCHANGED <<up, tracker, files, cost, blurred>>

-----------------------------------------------------------------------------
(* Time and the operator.                                                  *)

\* Today's files are yesterday's.  A call that returned before midnight and
\* is recorded after it, and a sum that no record has dated, count on the
\* wrong day.
Midnight ==
    /\ spent' = 0 /\ file' = NoFile
    /\ lastDay' = IF lastDay = "today" THEN "before" ELSE lastDay
    /\ sent' = [n \in Notes |-> 0]
    /\ blurred' = (pc \in {"charged", "notifying"}
                   \/ (lastDay = "never" /\ cumulative > 0))
    /\ UNCHANGED <<up, cumulative, warnedToday, blocked, override, loop>>

\* `2200 agent budget override`, and its expiry.
Override == override' = ~override /\ UNCHANGED <<up, tracker, spent, file, loop, sent, blurred>>

Next ==
    \/ Boot \/ Exit \/ Admit \/ ModelCall \/ TaskEnds \/ Telemetry
    \/ Record \/ RecordNothing \/ Notify \/ Midnight \/ Override

Spec == Init /\ [][Next]_vars

-----------------------------------------------------------------------------
TypeOK ==
    /\ up \in BOOLEAN /\ cumulative \in Nat /\ spent \in Nat
    /\ warnedToday \in BOOLEAN /\ blocked \in BOOLEAN /\ lastDay \in Days
    /\ file \in StateFile \cup {NoFile} /\ override \in BOOLEAN
    /\ pc \in LoopPcs /\ cost \in Costs \cup {0} /\ notes \subseteq Notes
    /\ sent \in [Notes -> 0..2] /\ blurred \in BOOLEAN

\* No task begins on a day whose telemetry has reached the cap, unless the
\* operator's override stands: not after a restart at any point of a call,
\* nor after a save or an append that failed.
Admits == pc = "idle" /\ pc' = "running"
AdmittedUnderCap == [][Admits => spent < Cap \/ override]_vars

\* A task is refused only when today's telemetry has reached the cap, as
\* long as tracker and telemetry count the same.
RefusedOverCap == up /\ pc = "idle" /\ IsBlocked /\ ~blurred => spent >= Cap

\* The same once the day's first charge has been recorded.
RefusedToday == lastDay = "today" => RefusedOverCap

\* The operator is warned once a day and told of the block once a day,
\* through restarts, as long as tracker and telemetry count the same.
ToldOnce == ~blurred => \A n \in Notes : sent[n] <= 1
=============================================================================
