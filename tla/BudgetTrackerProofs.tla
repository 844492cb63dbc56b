----------------------- MODULE BudgetTrackerProofs -----------------------
(***************************************************************************)
(* What the daily cap promises, for every cap, warning and cost: the       *)
(* tracker counts no less than the day's telemetry does, so that the gate  *)
(* lets no task past the cap, and, as long as both count the same, no      *)
(* more, so that it refuses none below it and tells the operator once.     *)
(***************************************************************************)
EXTENDS BudgetTracker, TLAPS

\* The cost that telemetry has and the tracker has not: between the two
\* writes of one model call.
Due == IF pc = "charged" THEN cost ELSE 0

\* The loop is between calls while the process is down, and a note waits
\* only behind the record that made it.
Places == (~up => pc = "idle") /\ (notes # {} => pc = "notifying")

\* The day's state file is not yesterday's.
FileIsToday == file.last # "before"

BlockedAtCap == up => (blocked <=> cumulative >= Cap)

\* Telemetry is covered by the tracker.
Covered ==
    up => IF lastDay = "before" THEN spent <= Due ELSE spent <= cumulative + Due

\* The tracker is covered by telemetry.
Counted ==
    up /\ ~blurred =>
        IF lastDay = "before" THEN Due <= spent ELSE cumulative + Due <= spent

\* What the operator was told, or is about to be, is remembered: across an
\* exit the warning by the state file, the block by telemetry.
Told(n) == sent[n] > 0 \/ n \in notes
WarnKept ==
    ~blurred /\ Told("warn") => file.warned /\ (up => warnedToday /\ lastDay # "before")
BlockKept ==
    ~blurred /\ Told("block") => spent >= Cap /\ (up => blocked /\ lastDay # "before")
Once == ~blurred => \A n \in Notes : sent[n] <= 1 /\ (n \in notes => sent[n] = 0)

IInv ==
    /\ TypeOK /\ Places /\ FileIsToday /\ BlockedAtCap
    /\ Covered /\ Counted /\ WarnKept /\ BlockKept /\ Once

-----------------------------------------------------------------------------
LEMMA FileFields ==
    ASSUME NEW f \in StateFile \cup {NoFile}
    PROVE  f.warned \in BOOLEAN /\ (f # NoFile => f.last \in Days)
  <1>1. CASE f = NoFile
    BY <1>1 DEF NoFile
  <1>2. CASE f \in StateFile
    BY <1>2 DEF StateFile
  <1> QED BY <1>1, <1>2

LEMMA Saved ==
    ASSUME NEW w \in BOOLEAN, NEW d \in Days
    PROVE  [warned |-> w, last |-> d] \in StateFile
  BY DEF StateFile

\* What a charge starts from.
LEMMA BaseFields ==
    ASSUME cumulative \in Nat, warnedToday \in BOOLEAN, blocked \in BOOLEAN
    PROVE  /\ lastDay = "before" => Base.sum = 0 /\ ~Base.warned /\ ~Base.blocked
           /\ lastDay # "before" =>
                 /\ Base.sum = cumulative
                 /\ Base.warned <=> warnedToday
                 /\ Base.blocked <=> blocked
           /\ Base.sum \in Nat /\ Base.warned \in BOOLEAN /\ Base.blocked \in BOOLEAN
  BY DEF Base

LEMMA InitType == Init => TypeOK
  <1> SUFFICES ASSUME Init PROVE TypeOK
    OBVIOUS
  <1>1. sent \in [Notes -> 0..2]
    BY DEF Init
  <1>2. file \in StateFile \cup {NoFile}
    BY DEF Init
  <1> QED BY <1>1, <1>2 DEF Init, TypeOK, Days, LoopPcs

\* Types alone: every action but those that write the state file keeps them
\* by inspection.
LEMMA NextType == TypeOK /\ [Next]_vars => TypeOK'
  <1> SUFFICES ASSUME TypeOK, [Next]_vars PROVE TypeOK'
    OBVIOUS
  <1> USE BudgetAssumption DEF BudgetAssumption, TypeOK, LoopPcs, tracker, files, loop
  <1>1. CASE Boot
    <2>1. warnedToday' \in BOOLEAN /\ lastDay' \in Days
      BY <1>1, FileFields DEF Boot, Days
    <2>2. file' \in StateFile
      BY <1>1, <2>1, Saved DEF Boot
    <2>3. blocked' \in BOOLEAN /\ cumulative' \in Nat
      BY <1>1 DEF Boot, Replayed
    <2> QED BY <1>1, <2>1, <2>2, <2>3 DEF Boot
  <1>2. CASE Exit
    BY <1>2 DEF Exit, Days
  <1>3. CASE Admit
    BY <1>3 DEF Admit
  <1>4. CASE ModelCall
    BY <1>4 DEF ModelCall
  <1>5. CASE TaskEnds
    BY <1>5 DEF TaskEnds
  <1>6. CASE Telemetry
    <2>1. blurred' \in BOOLEAN
      BY <1>6 DEF Telemetry
    <2>2. spent' \in Nat
      BY <1>6 DEF Telemetry
    <2> QED BY <1>6, <2>1, <2>2 DEF Telemetry
  <1>7. CASE Record
    <2>1. warnedToday' \in BOOLEAN /\ blocked' \in BOOLEAN
      BY <1>7, BaseFields, Zenon DEF Record, CrossesWarn, CrossesCap
    <2>2. cumulative' \in Nat
      BY <1>7, BaseFields DEF Record
    <2>3. lastDay' \in Days
      BY <1>7 DEF Record, Days
    <2>4. file' \in StateFile \cup {NoFile}
      BY <1>7, <2>1, <2>3, Saved DEF Record
    <2>5. notes' \subseteq Notes
      BY <1>7 DEF Record
    <2>6. pc' \in LoopPcs /\ cost' \in Costs \cup {0}
      BY <1>7 DEF Record
    <2> QED BY <1>7, <2>1, <2>2, <2>3, <2>4, <2>5, <2>6 DEF Record
  <1>8. CASE RecordNothing
    BY <1>8 DEF RecordNothing
  <1>9. CASE Notify
    <2>1. sent' \in [Notes -> 0..2] /\ notes' \subseteq Notes
      BY <1>9 DEF Notify
    <2> QED BY <1>9, <2>1 DEF Notify
  <1>10. CASE Midnight
    <2>1. blurred' \in BOOLEAN
      BY <1>10 DEF Midnight
    <2>2. sent' \in [Notes -> 0..2]
      BY <1>10 DEF Midnight
    <2> QED BY <1>10, <2>1, <2>2 DEF Midnight, Days
  <1>11. CASE Override
    BY <1>11 DEF Override
  <1>12. CASE UNCHANGED vars
    BY <1>12 DEF vars
  <1> QED
    BY <1>1, <1>2, <1>3, <1>4, <1>5, <1>6, <1>7, <1>8, <1>9, <1>10, <1>11, <1>12 DEF Next

\* Type correctness of the tracker, its files and the loop's place.
THEOREM TypeCorrect == Spec => []TypeOK
  <1> QED BY InitType, NextType, PTL DEF Spec

-----------------------------------------------------------------------------
\* The invariant, one lemma per conjunct.

LEMMA InitInv == Init => IInv
  <1> SUFFICES ASSUME Init PROVE IInv
    OBVIOUS
  <1>1. TypeOK
    BY InitType
  <1>2. Places /\ FileIsToday /\ BlockedAtCap /\ Covered /\ Counted
    BY DEF Init, Places, FileIsToday, NoFile, BlockedAtCap, Covered, Counted
  <1>3. \A n \in Notes : sent[n] = 0 /\ n \notin notes
    BY DEF Init
  <1>4. WarnKept /\ BlockKept /\ Once
    BY <1>3 DEF WarnKept, BlockKept, Once, Told, Notes
  <1> QED BY <1>1, <1>2, <1>4 DEF IInv

LEMMA NextPlaces == IInv /\ [Next]_vars => Places' /\ FileIsToday'
  <1> SUFFICES ASSUME IInv, [Next]_vars PROVE Places' /\ FileIsToday'
    OBVIOUS
  <1> USE DEF IInv, TypeOK, Places, FileIsToday, NoFile, tracker, files, loop
  <1>1. CASE Boot      BY <1>1 DEF Boot
  <1>2. CASE Exit      BY <1>2 DEF Exit
  <1>3. CASE Admit     BY <1>3 DEF Admit
  <1>4. CASE ModelCall BY <1>4 DEF ModelCall
  <1>5. CASE TaskEnds  BY <1>5 DEF TaskEnds
  <1>6. CASE Telemetry BY <1>6 DEF Telemetry
  <1>7. CASE Record    BY <1>7 DEF Record
  <1>8. CASE RecordNothing BY <1>8 DEF RecordNothing
  <1>9. CASE Notify    BY <1>9 DEF Notify
  <1>10. CASE Midnight BY <1>10 DEF Midnight
  <1>11. CASE Override BY <1>11 DEF Override
  <1>12. CASE UNCHANGED vars BY <1>12 DEF vars
  <1> QED
    BY <1>1, <1>2, <1>3, <1>4, <1>5, <1>6, <1>7, <1>8, <1>9, <1>10, <1>11, <1>12 DEF Next

\* A charge keeps what the flag says of the sum: from a sum at the cap, or
\* over it by this charge.
LEMMA RecordBlocks ==
    ASSUME IInv, Record
    PROVE  BlockedAtCap'
  <1> USE BudgetAssumption DEF BudgetAssumption
  <1>1. cost \in Nat /\ cost > 0 /\ up
    BY DEF Record, IInv, TypeOK, Places
  <1>2. cumulative \in Nat /\ warnedToday \in BOOLEAN /\ blocked \in BOOLEAN
    BY DEF IInv, TypeOK
  <1>3. Base.blocked <=> Base.sum >= Cap
    <2>1. blocked <=> cumulative >= Cap
      BY <1>1 DEF IInv, BlockedAtCap
    <2>2. CASE lastDay = "before"
      BY <1>2, <2>2, BaseFields
    <2>3. CASE lastDay # "before"
      BY <1>2, <2>1, <2>3, BaseFields
    <2> QED BY <2>2, <2>3
  <1>4. Base.sum \in Nat
    BY <1>2, BaseFields
  <1>5. blocked' <=> (Base.blocked \/ Base.sum + cost >= Cap)
    BY DEF Record, CrossesCap
  <1>6. cumulative' = Base.sum + cost
    BY DEF Record
  <1> QED BY <1>1, <1>3, <1>4, <1>5, <1>6 DEF BlockedAtCap

LEMMA NextBlockedAtCap == IInv /\ [Next]_vars => BlockedAtCap'
  <1> SUFFICES ASSUME IInv, [Next]_vars PROVE BlockedAtCap'
    OBVIOUS
  <1> USE DEF tracker, files, loop
  <1>1. CASE Boot
    BY <1>1 DEF Boot, Replayed, BlockedAtCap
  <1>2. CASE Record
    BY <1>2, RecordBlocks
  <1>3. CASE Exit
    BY <1>3 DEF Exit, BlockedAtCap
  <1>4. CASE UNCHANGED <<up, cumulative, blocked>>
    BY <1>4 DEF IInv, BlockedAtCap
  <1> QED
    BY <1>1, <1>2, <1>3, <1>4
    DEF Next, Admit, ModelCall, TaskEnds, Telemetry, RecordNothing, Notify, Midnight,
        Override, vars

LEMMA NextCovered == IInv /\ [Next]_vars => Covered'
  <1> SUFFICES ASSUME IInv, [Next]_vars PROVE Covered'
    OBVIOUS
  <1>0. /\ cumulative \in Nat /\ cost \in Nat /\ spent \in Nat /\ Due \in Nat
        /\ warnedToday \in BOOLEAN /\ blocked \in BOOLEAN
    BY BudgetAssumption DEF BudgetAssumption, IInv, TypeOK, Due
  <1> USE <1>0 DEF IInv, Places, FileIsToday, Covered, Due, tracker, files, loop
  <1>1. CASE Boot
    <2>1. lastDay' # "before" /\ cumulative' = spent /\ spent' = spent /\ pc' = "idle"
      BY <1>1 DEF Boot, Replayed
    <2> QED BY <2>1
  <1>2. CASE Exit      BY <1>2 DEF Exit
  <1>3. CASE Admit     BY <1>3 DEF Admit
  <1>4. CASE ModelCall BY <1>4 DEF ModelCall
  <1>5. CASE TaskEnds  BY <1>5 DEF TaskEnds
  <1>6. CASE Telemetry BY <1>6 DEF Telemetry
  <1>7. CASE Record
    <2>1. lastDay' = "today" /\ cumulative' = Base.sum + cost /\ spent' = spent
          /\ pc = "charged" /\ pc' # "charged" /\ up
      BY <1>7 DEF Record
    <2>2. spent <= Base.sum + cost
      BY <2>1, BaseFields
    <2> QED BY <2>1, <2>2, BaseFields
  <1>8. CASE RecordNothing BY <1>8 DEF RecordNothing
  <1>9. CASE Notify    BY <1>9 DEF Notify
  <1>10. CASE Midnight BY <1>10 DEF Midnight
  <1>11. CASE Override BY <1>11 DEF Override
  <1>12. CASE UNCHANGED vars BY <1>12 DEF vars
  <1> QED
    BY <1>1, <1>2, <1>3, <1>4, <1>5, <1>6, <1>7, <1>8, <1>9, <1>10, <1>11, <1>12 DEF Next

LEMMA NextCounted == IInv /\ [Next]_vars => Counted'
  <1> SUFFICES ASSUME IInv, [Next]_vars PROVE Counted'
    OBVIOUS
  <1>0. /\ cumulative \in Nat /\ cost \in Nat /\ spent \in Nat /\ Due \in Nat
        /\ warnedToday \in BOOLEAN /\ blocked \in BOOLEAN
    BY BudgetAssumption DEF BudgetAssumption, IInv, TypeOK, Due
  <1> USE <1>0 DEF IInv, Places, FileIsToday, Counted, Due, tracker, files, loop
  <1>1. CASE Boot
    <2>1. lastDay' # "before" /\ cumulative' = spent /\ spent' = spent /\ pc' = "idle"
      BY <1>1 DEF Boot, Replayed
    <2> QED BY <2>1
  <1>2. CASE Exit      BY <1>2 DEF Exit
  <1>3. CASE Admit     BY <1>3 DEF Admit
  <1>4. CASE ModelCall BY <1>4 DEF ModelCall
  <1>5. CASE TaskEnds  BY <1>5 DEF TaskEnds
  <1>6. CASE Telemetry
    <2>1. pc # "charged" /\ pc' = "charged" /\ cost' = cost
          /\ UNCHANGED <<up, cumulative, lastDay>>
      BY <1>6 DEF Telemetry
    <2>2. CASE spent' = spent + cost /\ UNCHANGED blurred
      BY <2>1, <2>2
    <2>3. CASE UNCHANGED spent /\ blurred' = (blurred \/ cost > 0)
      <3>1. ~blurred' => ~blurred /\ ~(cost > 0)
        BY <2>3, Zenon
      <3> QED BY <2>1, <2>3, <3>1
    <2> QED BY <1>6, <2>2, <2>3 DEF Telemetry
  <1>7. CASE Record
    <2>1. lastDay' = "today" /\ cumulative' = Base.sum + cost /\ spent' = spent
          /\ pc = "charged" /\ pc' # "charged" /\ up /\ blurred' = blurred
      BY <1>7 DEF Record
    <2>2. CASE lastDay = "before"
      BY <2>1, <2>2, BaseFields
    <2>3. CASE lastDay # "before"
      BY <2>1, <2>3, BaseFields
    <2> QED BY <2>2, <2>3
  <1>8. CASE RecordNothing BY <1>8 DEF RecordNothing
  <1>9. CASE Notify    BY <1>9 DEF Notify
  <1>10. CASE Midnight
    <2>1. ~blurred' => /\ pc \notin {"charged", "notifying"}
                       /\ ~(lastDay = "never" /\ cumulative > 0)
      BY <1>10, Zenon DEF Midnight
    <2>2. lastDay \in Days
      BY DEF TypeOK
    <2> QED BY <1>10, <2>1, <2>2 DEF Midnight, Days
  <1>11. CASE Override BY <1>11 DEF Override
  <1>12. CASE UNCHANGED vars BY <1>12 DEF vars
  <1> QED
    BY <1>1, <1>2, <1>3, <1>4, <1>5, <1>6, <1>7, <1>8, <1>9, <1>10, <1>11, <1>12 DEF Next

\* What the record announces and remembers.
LEMMA RecordNotes ==
    ASSUME IInv, Record
    PROVE  /\ notes = {} /\ up /\ pc = "charged" /\ UNCHANGED <<sent, blurred>>
           /\ Base.warned => warnedToday'
           /\ Base.blocked => blocked'
           /\ "warn" \in notes' => ~Base.warned /\ file'.warned /\ warnedToday'
           /\ "block" \in notes' => ~Base.blocked /\ blocked'
           /\ file.warned /\ Base.warned => file'.warned
  <1> USE DEF Record
  <1>1. /\ notes = {} /\ up /\ pc = "charged" /\ UNCHANGED <<sent, blurred>>
    BY DEF IInv, Places
  <1>2. (Base.warned => warnedToday') /\ (Base.blocked => blocked')
    BY Zenon
  <1>3. CASE /\ file' = [warned |-> warnedToday', last |-> "today"]
             /\ notes' = {n \in Notes : IF n = "warn" THEN CrossesWarn ELSE CrossesCap}
    <2>1. "warn" \in notes' => CrossesWarn
      BY <1>3
    <2>2. "block" \in notes' => CrossesCap
      BY <1>3
    <2>3. CrossesWarn => ~Base.warned /\ warnedToday'
      BY Zenon DEF CrossesWarn
    <2>4. CrossesCap => ~Base.blocked /\ blocked'
      BY Zenon DEF CrossesCap
    <2>5. file'.warned = warnedToday'
      BY <1>3
    <2>6. "warn" \in notes' => ~Base.warned /\ file'.warned /\ warnedToday'
      BY <2>1, <2>3, <2>5, Zenon
    <2>7. file.warned /\ Base.warned => file'.warned
      BY <1>2, <2>5, Zenon
    <2> QED BY <1>1, <1>2, <2>2, <2>4, <2>6, <2>7, Zenon
  <1>4. CASE UNCHANGED <<file, notes>>
    <2>1. "warn" \notin notes' /\ "block" \notin notes' /\ file' = file
      BY <1>1, <1>4
    <2> QED BY <1>1, <1>2, <2>1, Zenon
  <1> QED BY <1>3, <1>4

\* A notification is written for a note that waits, or nothing changes.
LEMMA NotifyOne ==
    ASSUME TypeOK, Notify, NEW n \in Notes
    PROVE  \/ sent'[n] = sent[n] /\ (n \in notes' => n \in notes)
           \/ n \in notes /\ n \notin notes' /\ sent'[n] = IF sent[n] < 2 THEN sent[n] + 1 ELSE 2
  <1> DEFINE m == IF "warn" \in notes THEN "warn" ELSE "block"
  <1>1. CASE notes = {}
    BY <1>1 DEF Notify
  <1>2. CASE notes # {}
    <2>1. m \in notes /\ m \in Notes
      BY <1>2 DEF TypeOK, Notes
    <2>2. sent' = [sent EXCEPT ![m] = IF @ < 2 THEN @ + 1 ELSE 2] /\ notes' = notes \ {m}
      BY <1>2 DEF Notify
    <2> HIDE DEF m
    <2>3. CASE n = m
      BY <2>1, <2>2, <2>3 DEF TypeOK
    <2>4. CASE n # m
      BY <2>1, <2>2, <2>4 DEF TypeOK
    <2> QED BY <2>3, <2>4
  <1> QED BY <1>1, <1>2

LEMMA NextWarnKept == IInv /\ [Next]_vars => WarnKept'
  <1> SUFFICES ASSUME IInv, [Next]_vars, ~blurred', Told("warn")'
               PROVE  file'.warned /\ (up' => warnedToday' /\ lastDay' # "before")
    BY DEF WarnKept
  <1> USE DEF IInv, WarnKept, Told, tracker, files, loop
  <1>1. CASE Boot
    <2>1. file.warned /\ lastDay' # "before"
      BY <1>1 DEF Boot, NoFile, FileIsToday
    <2>2. warnedToday' = file.warned /\ file'.warned = warnedToday'
      BY <1>1 DEF Boot
    <2> QED BY <2>1, <2>2
  <1>2. CASE Exit
    BY <1>2 DEF Exit
  <1>3. CASE Record
    <2>1. "warn" \notin notes' => file.warned /\ Base.warned
      BY <1>3, RecordNotes, BaseFields DEF TypeOK
    <2>2. lastDay' = "today"
      BY <1>3 DEF Record
    <2> QED BY <1>3, <2>1, <2>2, RecordNotes
  <1>4. CASE Telemetry
    <2>1. ~blurred
      BY <1>4 DEF Telemetry
    <2> QED BY <1>4, <2>1 DEF Telemetry
  <1>5. CASE Notify
    <2>1. Told("warn")
      BY <1>5, NotifyOne DEF Notes
    <2>2. UNCHANGED <<blurred, file, up, warnedToday, lastDay>>
      BY <1>5 DEF Notify
    <2> QED BY <2>1, <2>2
  <1>6. CASE Midnight
    <2>1. pc \notin {"charged", "notifying"}
      BY <1>6, Zenon DEF Midnight
    <2>2. "warn" \in Notes
      BY DEF Notes
    <2> QED BY <1>6, <2>1, <2>2 DEF Midnight, Places
  <1>7. CASE UNCHANGED <<blurred, sent, notes, file, up, warnedToday, lastDay>>
    BY <1>7
  <1> QED
    BY <1>1, <1>2, <1>3, <1>4, <1>5, <1>6, <1>7
    DEF Next, Admit, ModelCall, TaskEnds, RecordNothing, Override, vars

LEMMA RecordCounted ==
    ASSUME IInv, Record, ~blurred'
    PROVE  cumulative' \in Nat /\ spent' \in Nat /\ cumulative' <= spent'
  <1>1. Counted' /\ TypeOK'
    BY NextCounted, NextType DEF Next, IInv
  <1>2. up' /\ lastDay' = "today" /\ pc' # "charged"
    BY DEF Record, IInv, Places
  <1>3. cumulative' \in Nat /\ spent' \in Nat
    BY <1>1 DEF TypeOK
  <1>4. cumulative' + (IF pc' = "charged" THEN cost' ELSE 0) <= spent'
    BY <1>1, <1>2 DEF Counted, Due
  <1>5. cumulative' + 0 <= spent'
    BY <1>2, <1>4
  <1>6. \A x \in Nat : x + 0 = x
    OBVIOUS
  <1> QED BY <1>3, <1>5, <1>6, Zenon

LEMMA NextBlockKept == IInv /\ [Next]_vars => BlockKept'
  <1> SUFFICES ASSUME IInv, [Next]_vars, ~blurred', Told("block")'
               PROVE  spent' >= Cap /\ (up' => blocked' /\ lastDay' # "before")
    BY DEF BlockKept
  <1>0. Cap \in Nat /\ spent \in Nat /\ cost \in Nat /\ cumulative \in Nat
    BY BudgetAssumption DEF BudgetAssumption, IInv, TypeOK
  <1> USE <1>0 DEF IInv, BlockKept, Told, tracker, files, loop
  <1>1. CASE Boot
    <2>1. spent >= Cap /\ lastDay' # "before"
      BY <1>1 DEF Boot, NoFile, FileIsToday
    <2>2. blocked' <=> spent >= Cap
      BY <1>1 DEF Boot, Replayed
    <2>3. spent' = spent
      BY <1>1 DEF Boot
    <2> QED BY <2>1, <2>2, <2>3
  <1>2. CASE Exit
    BY <1>2 DEF Exit
  <1>3. CASE Record
    <2>1. CASE "block" \in notes'
      <3>1. blocked' /\ lastDay' = "today" /\ up' /\ pc' # "charged"
        BY <1>3, <2>1, RecordNotes DEF Record
      <3>2. cumulative' >= Cap
        BY <1>3, <3>1, RecordBlocks DEF BlockedAtCap
      <3>3. cumulative' \in Nat /\ spent' \in Nat /\ cumulative' <= spent'
        BY <1>3, RecordCounted
      <3> QED BY <3>1, <3>2, <3>3
    <2>2. CASE "block" \notin notes'
      <3>1. spent >= Cap /\ blocked /\ lastDay # "before"
        BY <1>3, <2>2, RecordNotes
      <3>2. Base.blocked
        BY <3>1, BaseFields DEF TypeOK
      <3> QED BY <1>3, <3>1, <3>2, RecordNotes DEF Record
    <2> QED BY <2>1, <2>2
  <1>4. CASE Telemetry
    <2>1. ~blurred
      BY <1>4 DEF Telemetry
    <2> QED BY <1>4, <2>1 DEF Telemetry
  <1>5. CASE Notify
    <2>1. Told("block")
      BY <1>5, NotifyOne DEF Notes
    <2>2. UNCHANGED <<blurred, spent, up, blocked, lastDay>>
      BY <1>5 DEF Notify
    <2> QED BY <2>1, <2>2
  <1>6. CASE Midnight
    <2>1. pc \notin {"charged", "notifying"}
      BY <1>6, Zenon DEF Midnight
    <2>2. "block" \in Notes
      BY DEF Notes
    <2> QED BY <1>6, <2>1, <2>2 DEF Midnight, Places
  <1>7. CASE UNCHANGED <<blurred, sent, notes, spent, up, blocked, lastDay>>
    BY <1>7
  <1> QED
    BY <1>1, <1>2, <1>3, <1>4, <1>5, <1>6, <1>7
    DEF Next, Admit, ModelCall, TaskEnds, RecordNothing, Override, vars

LEMMA NextOnce == IInv /\ [Next]_vars => Once'
  <1> SUFFICES ASSUME IInv, [Next]_vars, ~blurred', NEW n \in Notes
               PROVE  sent'[n] <= 1 /\ (n \in notes' => sent'[n] = 0)
    BY DEF Once
  <1>0. sent \in [Notes -> 0..2]
    BY DEF IInv, TypeOK
  <1> USE <1>0 DEF IInv, Once, tracker, files, loop
  <1>1. CASE Exit
    BY <1>1 DEF Exit
  <1>2. CASE Record
    <2>1. Told(n) => IF n = "warn" THEN Base.warned ELSE Base.blocked
      <3>1. warnedToday \in BOOLEAN /\ blocked \in BOOLEAN /\ cumulative \in Nat
        BY DEF TypeOK
      <3>2. Told(n) => IF n = "warn" THEN warnedToday /\ lastDay # "before"
                                     ELSE blocked /\ lastDay # "before"
        BY <1>2, RecordNotes DEF WarnKept, BlockKept, Notes
      <3> QED BY <3>1, <3>2, BaseFields
    <2>2. n \in notes' => ~Told(n)
      BY <1>2, <2>1, RecordNotes DEF Notes
    <2> QED BY <1>2, <2>2, RecordNotes DEF Told
  <1>3. CASE Telemetry
    <2>1. ~blurred
      BY <1>3 DEF Telemetry
    <2> QED BY <1>3, <2>1 DEF Telemetry
  <1>4. CASE Notify
    <2>1. blurred' = blurred
      BY <1>4 DEF Notify
    <2> QED BY <1>4, <2>1, NotifyOne
  <1>5. CASE Midnight
    <2>1. pc \notin {"charged", "notifying"}
      BY <1>5, Zenon DEF Midnight
    <2> QED BY <1>5, <2>1 DEF Midnight, Places
  <1>6. CASE UNCHANGED <<blurred, sent, notes>>
    BY <1>6
  <1> QED
    BY <1>1, <1>2, <1>3, <1>4, <1>5, <1>6
    DEF Next, Boot, Admit, ModelCall, TaskEnds, RecordNothing, Override, vars

-----------------------------------------------------------------------------
\* The invariant that ties tracker, telemetry, state file and notifications.
THEOREM Inductive == Spec => []IInv
  <1>1. Init => IInv
    BY InitInv
  <1>2. IInv /\ [Next]_vars => IInv'
    <2> SUFFICES ASSUME IInv, [Next]_vars PROVE IInv'
      OBVIOUS
    <2>1. TypeOK'
      BY NextType DEF IInv
    <2> QED
      BY <2>1, NextPlaces, NextBlockedAtCap, NextCovered, NextCounted, NextWarnKept,
         NextBlockKept, NextOnce DEF IInv
  <1> QED BY <1>1, <1>2, PTL DEF Spec

\* No task begins on a day whose telemetry has reached the cap, unless the
\* operator's override stands: whatever exits and failed writes come between.
THEOREM CapHolds == Spec => AdmittedUnderCap
  <1>1. IInv /\ [Next]_vars => [Admits => spent < Cap \/ override]_vars
    <2> SUFFICES ASSUME IInv, Next, pc = "idle", pc' = "running"
                 PROVE  spent < Cap \/ override
      BY DEF Admits
    <2>0. Cap \in Nat /\ spent \in Nat /\ cumulative \in Nat /\ Cap > 0
      BY BudgetAssumption DEF BudgetAssumption, IInv, TypeOK
    <2>1. Admit
      BY DEF Next, Boot, Exit, ModelCall, TaskEnds, Telemetry, Record, RecordNothing, Notify,
             Midnight, Override, loop
    <2>2. up /\ (~blocked \/ override)
      BY <2>1 DEF Admit, IsBlocked
    <2>3. ~blocked => cumulative < Cap
      BY <2>0, <2>2 DEF IInv, BlockedAtCap
    <2>4. spent <= cumulative
      BY <2>0, <2>2 DEF IInv, Covered, Due
    <2> QED BY <2>0, <2>2, <2>3, <2>4
  <1> QED BY <1>1, Inductive, PTL DEF Spec, AdmittedUnderCap

\* Once the day's first charge is recorded, a task is refused only when the
\* day's telemetry has reached the cap, as long as both count the same.
THEOREM NoneRefusedBelow == Spec => []RefusedToday
  <1>1. IInv => RefusedToday
    <2> SUFFICES ASSUME IInv, lastDay = "today", up, pc = "idle", IsBlocked, ~blurred
                 PROVE  spent >= Cap
      BY DEF RefusedToday, RefusedOverCap
    <2>1. cumulative >= Cap
      BY DEF IInv, BlockedAtCap, IsBlocked
    <2>2. cumulative <= spent
      BY DEF IInv, Counted, Due, TypeOK
    <2> QED BY <2>1, <2>2, BudgetAssumption DEF IInv, TypeOK, BudgetAssumption
  <1> QED BY <1>1, Inductive, PTL

\* The operator is told of the warning once a day and of the block once a
\* day, through restarts, as long as both count the same.
THEOREM OperatorToldOnce == Spec => []ToldOnce
  <1>1. IInv => ToldOnce
    BY DEF IInv, Once, ToldOnce
  <1> QED BY <1>1, Inductive, PTL

=============================================================================
