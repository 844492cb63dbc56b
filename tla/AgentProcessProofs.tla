------------------------- MODULE AgentProcessProofs -------------------------
(***************************************************************************)
(* The two things an Agent's process does, each on its own.  Its loop:     *)
(* what a run promises for any ceiling, budgets and detector settings; it  *)
(* is quiet behind a gate, a storm is cut, and a claim or a silence is not *)
(* let through before the budget of nudges is used up.  Its pub wake       *)
(* source: a message becomes one task and, once processed, is not lost,    *)
(* for any number of messages, cache size and faults.                      *)
(***************************************************************************)
EXTENDS AgentLoop, PubWake, SequenceTheorems, WellFoundedInduction, TLAPS

(***************************************************************************)
(* The loop (AgentLoop).                                                   *)
(***************************************************************************)

\* What the run has done is what its counters say.
Mirrors ==
    pc # "idle" =>
        /\ own.kicks = count.kicks /\ own.wakes = count.wake
        /\ own.acted <=> count.workedSince
        /\ own.pubbed <=> count.pubCalls

\* A batch is left with its last call.
CallsLeft == pc = "batch" => batch > 0

IInv == TypeOK /\ CallsLeft /\ QuietWhenGated /\ Mirrors

-----------------------------------------------------------------------------
LEMMA PushType ==
    ASSUME events \in Seq(Event), Len(events) <= BufferSize, NEW e \in Event
    PROVE  Push(e) \in Seq(Event) /\ Len(Push(e)) <= BufferSize
  <1> DEFINE all == Append(events, e)
  <1>1. all \in Seq(Event) /\ Len(all) = Len(events) + 1 /\ all # <<>>
    BY AppendProperties
  <1>2. Tail(all) \in Seq(Event) /\ Len(Tail(all)) = Len(all) - 1
    BY <1>1, HeadTailProperties
  <1>3. Len(events) \in Nat /\ BufferSize \in Nat
    BY LoopAssumption, LenProperties DEF LoopAssumption
  <1> QED BY <1>1, <1>2, <1>3 DEF Push

CountType == [empty : 0..Nudges, wake : 0..Nudges, planning : 0..Nudges,
              kicks : 0..MaxKicks, pubCalls : BOOLEAN, worked : BOOLEAN,
              workedSince : BOOLEAN]
OwnType == [failing : Nat, same : Nat, kicks : Nat,
            wakes : Nat, pubbed : BOOLEAN, acted : BOOLEAN]

LEMMA Starts ==
    NoCount \in CountType /\ NothingDone \in OwnType
  BY LoopAssumption DEF NoCount, CountType, NothingDone, OwnType, LoopAssumption

LEMMA InitInv == Init => IInv
  <1> SUFFICES ASSUME Init PROVE IInv
    OBVIOUS
  <1> USE LoopAssumption DEF LoopAssumption, Init
  <1>1. events \in Seq(Event) /\ Len(events) <= BufferSize
    BY EmptySeq
  <1>2. task \in Task /\ pc \in Pcs /\ lastClaimAudit \in Audits /\ result \in Results
    BY DEF Task, Pcs, Audits, Results
  <1>3. count \in CountType /\ own \in OwnType
    BY Starts
  <1>4. batch \in 0..MaxBatch /\ iteration \in 0..MaxIterations /\ awaitingNudges \in 0..Nudges
    OBVIOUS
  <1>7. blockers \subseteq Kinds /\ pending \in BOOLEAN
    OBVIOUS
  <1>5. CallsLeft /\ QuietWhenGated /\ Mirrors
    BY DEF CallsLeft, QuietWhenGated, Mirrors
  <1>6. TypeOK
    BY <1>1, <1>2, <1>3, <1>4, <1>7, Zenon DEF TypeOK, CountType, OwnType
  <1> QED BY <1>5, <1>6 DEF IInv

\* The parts of the type invariant that the steps of a run disturb; the rest
\* is what each step leaves alone.
PlaceOK == pc \in Pcs /\ result \in Results /\ batch \in 0..MaxBatch
FieldsOK ==
    /\ iteration \in 0..MaxIterations /\ events \in Seq(Event) /\ Len(events) <= BufferSize
    /\ blockers \subseteq Kinds /\ awaitingNudges \in 0..Nudges
RunOK == count \in CountType /\ own \in OwnType /\ lastClaimAudit \in Audits
WorldOK == task \in Task /\ pending \in BOOLEAN

LEMMA TypeParts == TypeOK <=> PlaceOK /\ FieldsOK /\ RunOK /\ WorldOK
  BY Zenon DEF TypeOK, PlaceOK, FieldsOK, RunOK, WorldOK, CountType, OwnType

LEMMA NextPlace == TypeOK /\ CallsLeft /\ [Next]_vars => PlaceOK' /\ CallsLeft'
  <1> SUFFICES ASSUME TypeOK, CallsLeft, [Next]_vars PROVE PlaceOK' /\ CallsLeft'
    OBVIOUS
  <1> USE LoopAssumption DEF LoopAssumption, TypeOK, PlaceOK, CallsLeft, Pcs, Results, Ends, Goes
  <1>1. ASSUME NEW t \in Task, Begin(t) PROVE PlaceOK' /\ CallsLeft'
    BY <1>1 DEF Begin
  <1>2. CASE Ceiling
    BY <1>2 DEF Ceiling
  <1>3. CASE Gate
    BY <1>3 DEF Gate
  <1>4. CASE ModelFails \/ ModelTrips
    BY <1>4 DEF ModelFails, ModelTrips
  <1>5. CASE Empty
    <2>1. (pc' = "top" /\ UNCHANGED <<batch, result>>) \/ Ends("errored")
      BY <1>5 DEF Empty
    <2> QED BY <2>1
  <1>6. ASSUME NEW n \in 0..MaxBatch, Calls(n) PROVE PlaceOK' /\ CallsLeft'
    BY <1>6 DEF Calls
  <1>7. CASE WakeNudge \/ PlanningRetry
    BY <1>7 DEF WakeNudge, PlanningRetry
  <1>8. ASSUME NEW a \in AuditOf, KickBack(a) \/ Done(a) PROVE PlaceOK' /\ CallsLeft'
    <2>1. (pc' = "top" /\ UNCHANGED <<batch, result>>) \/ Ends("done")
      BY <1>8 DEF KickBack, Done
    <2> QED BY <2>1
  <1>9. ASSUME NEW tool \in Tools, NEW o \in Outcomes, ToolCall(tool, o) PROVE PlaceOK' /\ CallsLeft'
    <2> DEFINE after == AfterCall(events', blockers', batch)
    <2>1. after \in {"tripped", "blocked_on_user", "blocked_on_agent_response", "top", "batch"}
          /\ (after = "batch" => batch # 1)
      BY DEF AfterCall
    <2>2. IF after \in Pcs
          THEN Goes(after) /\ batch' = IF after = "top" THEN 0 ELSE batch - 1
          ELSE Ends(after)
      BY <1>9 DEF ToolCall
    <2> HIDE DEF after
    <2>3. pc = "batch" /\ batch \in 1..MaxBatch
      BY <1>9 DEF ToolCall
    <2>4. CASE after = "batch"
      BY <2>1, <2>2, <2>3, <2>4
    <2>5. CASE after = "top"
      BY <2>1, <2>2, <2>3, <2>5
    <2>6. CASE after \notin Pcs
      BY <2>1, <2>2, <2>3, <2>6
    <2> QED BY <2>1, <2>4, <2>5, <2>6
  <1>10. CASE RequestEnds
    BY <1>10 DEF RequestEnds
  <1>11. CASE Restart
    BY <1>11 DEF Restart
  <1>12. CASE UNCHANGED vars
    BY <1>12 DEF vars
  <1> QED
    BY <1>1, <1>2, <1>3, <1>4, <1>5, <1>6, <1>7, <1>8, <1>9, <1>10, <1>11, <1>12
    DEF Next, RunStep

LEMMA NextFields == TypeOK /\ [Next]_vars => FieldsOK'
  <1> SUFFICES ASSUME TypeOK, [Next]_vars PROVE FieldsOK'
    OBVIOUS
  <1> USE LoopAssumption DEF LoopAssumption, TypeOK, FieldsOK, process
  <1>1. ASSUME NEW t \in Task, Begin(t) PROVE FieldsOK'
    BY <1>1 DEF Begin
  <1>2. CASE Gate
    BY <1>2 DEF Gate, AtCeiling, Counted
  <1>3. ASSUME NEW n \in 0..MaxBatch, Calls(n) PROVE FieldsOK'
    BY <1>3 DEF Calls
  <1>4. ASSUME NEW a \in AuditOf, Done(a) PROVE FieldsOK'
    BY <1>4 DEF Done
  <1>5. ASSUME NEW tool \in Tools, NEW o \in Outcomes, ToolCall(tool, o) PROVE FieldsOK'
    <2>1. events' \in Seq(Event) /\ Len(events') <= BufferSize
      <3>1. [tool |-> tool, outcome |-> o] \in Event
        BY DEF Event
      <3> QED BY <1>5, <3>1, PushType DEF ToolCall
    <2>2. blockers' \subseteq Kinds
      BY <1>5 DEF ToolCall, Registers, Kinds
    <2> QED BY <1>5, <2>1, <2>2 DEF ToolCall
  <1>6. CASE Restart
    BY <1>6, EmptySeq DEF Restart
  <1>7. CASE UNCHANGED process
    BY <1>7
  <1> QED
    BY <1>1, <1>2, <1>3, <1>4, <1>5, <1>6, <1>7
    DEF Next, RunStep, Ceiling, ModelFails, ModelTrips, Empty, WakeNudge, PlanningRetry,
        KickBack, RequestEnds, vars

\* What a call leaves in the run's counters and history.
LEMMA CallRecords ==
    ASSUME RunOK, NEW tool \in Tools, NEW o \in Outcomes, ToolCall(tool, o)
    PROVE  /\ count' \in CountType /\ own' \in OwnType
           /\ own'.kicks = own.kicks /\ own'.wakes = own.wakes
           /\ count'.kicks = count.kicks /\ count'.wake = count.wake
           /\ own'.acted = (own.acted \/ Works(tool, o = "ok"))
           /\ count'.workedSince = (count.workedSince \/ Works(tool, o = "ok"))
           /\ own'.pubbed = (own.pubbed \/ (o = "ok" /\ tool = "pub"))
           /\ count'.pubCalls = (count.pubCalls \/ (o = "ok" /\ tool = "pub"))
  <1> DEFINE last == events[Len(events)]
             f == IF o = "ok" THEN 0
                  ELSE IF own.failing > 0 /\ last.outcome = o THEN own.failing + 1 ELSE 1
             m == IF own.same > 0 /\ last.tool = tool THEN own.same + 1 ELSE 1
  <1>1. f \in Nat /\ m \in Nat
    BY DEF RunOK, OwnType
  <1>2. own' = [own EXCEPT !.same = m, !.failing = f,
                           !.pubbed = own.pubbed \/ (o = "ok" /\ tool = "pub"),
                           !.acted = own.acted \/ Works(tool, o = "ok")]
    BY DEF ToolCall
  <1>3. count' = [count EXCEPT !.pubCalls = count.pubCalls \/ (o = "ok" /\ tool = "pub"),
                               !.worked = count.worked \/ Works(tool, o = "ok"),
                               !.workedSince = count.workedSince \/ Works(tool, o = "ok")]
    BY DEF ToolCall
  <1> HIDE DEF f, m
  <1>4. own' \in OwnType /\ count' \in CountType
    BY <1>1, <1>2, <1>3 DEF RunOK, OwnType, CountType
  <1>5. /\ own'.kicks = own.kicks /\ own'.wakes = own.wakes
        /\ count'.kicks = count.kicks /\ count'.wake = count.wake
    BY <1>2, <1>3 DEF RunOK, OwnType, CountType
  <1>6. /\ own'.acted = (own.acted \/ Works(tool, o = "ok"))
        /\ count'.workedSince = (count.workedSince \/ Works(tool, o = "ok"))
    BY <1>2, <1>3 DEF RunOK, OwnType, CountType
  <1>7. /\ own'.pubbed = (own.pubbed \/ (o = "ok" /\ tool = "pub"))
        /\ count'.pubCalls = (count.pubCalls \/ (o = "ok" /\ tool = "pub"))
    BY <1>2, <1>3 DEF RunOK, OwnType, CountType
  <1> QED BY <1>4, <1>5, <1>6, <1>7

LEMMA NextRun == TypeOK /\ [Next]_vars => RunOK'
  <1> SUFFICES ASSUME TypeOK, [Next]_vars PROVE RunOK'
    OBVIOUS
  <1>0. RunOK
    BY TypeParts
  <1> USE <1>0, LoopAssumption DEF LoopAssumption, RunOK
  <1>1. ASSUME NEW t \in Task, Begin(t) PROVE RunOK'
    <2>1. count' \in CountType /\ lastClaimAudit' \in Audits
      BY <1>1, Starts DEF Begin, Reset, Audits
    <2>2. own' \in OwnType
      BY <1>1, Starts DEF Begin
    <2> QED BY <2>1, <2>2
  <1>2. CASE Empty
    BY <1>2 DEF Empty, CountType
  <1>3. CASE WakeNudge
    BY <1>3 DEF WakeNudge, OwesRoom, CountType, OwnType
  <1>4. CASE PlanningRetry
    BY <1>4 DEF PlanningRetry, CountType
  <1>5. ASSUME NEW a \in AuditOf, KickBack(a) PROVE RunOK'
    <2>1. lastClaimAudit' \in Audits
      BY <1>5 DEF KickBack, AuditOf, Audits
    <2>2. count' \in CountType
      <3>1. count' = [count EXCEPT !.kicks = count.kicks + 1, !.workedSince = FALSE]
        BY <1>5 DEF KickBack, KickedBack
      <3>2. count.kicks + 1 \in 0..MaxKicks
        BY <1>5 DEF KickBack, MustKick, CountType
      <3> QED BY <3>1, <3>2 DEF CountType
    <2>3. own' \in OwnType
      <3>1. own' = [own EXCEPT !.kicks = own.kicks + 1, !.acted = FALSE]
        BY <1>5 DEF KickBack
      <3>2. own.kicks + 1 \in Nat
        BY DEF OwnType
      <3> QED BY <3>1, <3>2 DEF OwnType
    <2> QED BY <2>1, <2>2, <2>3
  <1>6. ASSUME NEW a \in AuditOf, Done(a) PROVE RunOK'
    BY <1>6 DEF Done, AuditOf, Audits
  <1>7. ASSUME NEW tool \in Tools, NEW o \in Outcomes, ToolCall(tool, o) PROVE RunOK'
    BY <1>7, CallRecords DEF ToolCall
  <1>8. CASE Restart
    BY <1>8, Starts DEF Restart, Audits
  <1>9. CASE UNCHANGED <<count, own, lastClaimAudit>>
    BY <1>9
  <1> QED
    BY <1>1, <1>2, <1>3, <1>4, <1>5, <1>6, <1>7, <1>8, <1>9
    DEF Next, RunStep, Ceiling, Gate, ModelFails, ModelTrips, Calls, RequestEnds, vars

LEMMA NextWorld == TypeOK /\ [Next]_vars => WorldOK'
  <1> SUFFICES ASSUME TypeOK, [Next]_vars PROVE WorldOK'
    OBVIOUS
  <1> USE DEF TypeOK, WorldOK
  <1>1. ASSUME NEW t \in Task, Begin(t) PROVE WorldOK'
    BY <1>1 DEF Begin
  <1>2. ASSUME NEW tool \in Tools, NEW o \in Outcomes, ToolCall(tool, o) PROVE WorldOK'
    <2>1. task' = task
      BY <1>2 DEF ToolCall
    <2>2. pending' \in BOOLEAN
      BY <1>2 DEF ToolCall
    <2> QED BY <2>1, <2>2
  <1>3. CASE RequestEnds \/ Restart
    <2>1. task' \in Task
      <3>1. CASE task' = task
        BY <3>1
      <3>2. CASE task' = [wake |-> FALSE, audited |-> FALSE]
        BY <3>2 DEF Task
      <3> QED BY <1>3, <3>1, <3>2 DEF RequestEnds, Restart
    <2>2. pending' \in BOOLEAN
      BY <1>3 DEF RequestEnds, Restart
    <2> QED BY <2>1, <2>2
  <1>4. CASE UNCHANGED <<task, pending>>
    BY <1>4
  <1> QED
    BY <1>1, <1>2, <1>3, <1>4
    DEF Next, RunStep, Ceiling, Gate, ModelFails, ModelTrips, Empty, Calls, WakeNudge,
        PlanningRetry, KickBack, Done, vars

LEMMA NextQuiet == IInv /\ [Next]_vars => QuietWhenGated'
  <1> SUFFICES ASSUME IInv, [Next]_vars PROVE QuietWhenGated'
    OBVIOUS
  <1> USE DEF IInv, QuietWhenGated, Gates, Goes, Ends, process
  <1>1. CASE Gate
    BY <1>1 DEF Gate, TypeOK, Kinds
  <1>2. ASSUME NEW n \in 0..MaxBatch, Calls(n) PROVE QuietWhenGated'
    BY <1>2 DEF Calls, Answers
  <1>3. ASSUME NEW tool \in Tools, NEW o \in Outcomes, ToolCall(tool, o) PROVE QuietWhenGated'
    <2> DEFINE after == AfterCall(events', blockers', batch)
    <2>1. after = "batch" => blockers' \cap Gates = {}
      BY DEF AfterCall
    <2>2. after # "model"
      BY DEF AfterCall
    <2>3. IF after \in Pcs
          THEN Goes(after) /\ batch' = IF after = "top" THEN 0 ELSE batch - 1
          ELSE Ends(after)
      BY <1>3 DEF ToolCall
    <2> HIDE DEF after
    <2> QED BY <2>1, <2>2, <2>3 DEF Pcs
  <1>4. CASE pc' \in {"idle", "top"}
    BY <1>4
  <1>5. CASE UNCHANGED <<pc, blockers>>
    BY <1>5
  <1> QED
    BY <1>1, <1>2, <1>3, <1>4, <1>5
    DEF Next, RunStep, Begin, Ceiling, ModelFails, ModelTrips, Empty, WakeNudge, PlanningRetry,
        KickBack, Done, RequestEnds, Restart, vars

LEMMA NextMirrors == IInv /\ [Next]_vars => Mirrors'
  <1> SUFFICES ASSUME IInv, [Next]_vars PROVE Mirrors'
    OBVIOUS
  <1>0. count \in CountType /\ own \in OwnType
    BY TypeParts DEF IInv, RunOK
  <1> USE <1>0 DEF IInv, Mirrors, process
  <1>1. ASSUME NEW t \in Task, Begin(t) PROVE Mirrors'
    BY <1>1, Starts DEF Begin, Reset, NoCount, NothingDone, OwnType
  <1>2. CASE Empty
    BY <1>2 DEF Empty, Answers, CountType
  <1>3. CASE WakeNudge
    BY <1>3 DEF WakeNudge, Answers, CountType, OwnType
  <1>4. CASE PlanningRetry
    BY <1>4 DEF PlanningRetry, Answers, CountType
  <1>5. ASSUME NEW a \in AuditOf, KickBack(a) PROVE Mirrors'
    BY <1>5 DEF KickBack, KickedBack, Answers, CountType, OwnType
  <1>6. ASSUME NEW tool \in Tools, NEW o \in Outcomes, ToolCall(tool, o) PROVE Mirrors'
    <2>1. pc = "batch"
      BY <1>6 DEF ToolCall
    <2> QED BY <1>6, <2>1, CallRecords, TypeParts
  <1>7. CASE pc' = "idle"
    BY <1>7
  <1>8. CASE UNCHANGED <<count, own>> /\ pc # "idle"
    BY <1>8
  <1>9. CASE UNCHANGED <<pc, count, own>>
    BY <1>9
  <1> QED
    BY <1>1, <1>2, <1>3, <1>4, <1>5, <1>6, <1>7, <1>8, <1>9
    DEF Next, RunStep, Ceiling, Gate, ModelFails, ModelTrips, Answers, Calls, Done, Ends,
        RequestEnds, Restart, vars

-----------------------------------------------------------------------------
\* IInv, gates and the mirrored counters included, holds in every state of the loop.
THEOREM Inductive == Spec => []IInv
  <1>1. IInv /\ [Next]_vars => IInv'
    <2> SUFFICES ASSUME IInv, [Next]_vars PROVE IInv'
      OBVIOUS
    <2>1. TypeOK /\ CallsLeft
      BY DEF IInv
    <2>2. PlaceOK' /\ FieldsOK' /\ RunOK' /\ WorldOK' /\ CallsLeft'
      BY <2>1, NextPlace, NextFields, NextRun, NextWorld
    <2>3. TypeOK'
      BY <2>2, TypeParts, PTL
    <2> QED BY <2>2, <2>3, NextQuiet, NextMirrors DEF IInv
  <1> QED BY InitInv, <1>1, PTL DEF Spec

\* Types, and every counter within its budget.
THEOREM TypeCorrect == Spec => []TypeOK
  <1>1. IInv => TypeOK
    BY DEF IInv
  <1> QED BY <1>1, Inductive, PTL

\* Behind a gate no model is called and no tool of a batch dispatched.
THEOREM GateHolds == Spec => []QuietWhenGated
  <1>1. IInv => QuietWhenGated
    BY DEF IInv
  <1> QED BY <1>1, Inductive, PTL

\* Only Done ends a run as done.
LEMMA FinishIsDone ==
    ASSUME Next, Finishes
    PROVE  \E a \in AuditOf : Done(a)
  BY DEF Finishes, Next, RunStep, Begin, Ceiling, Gate, ModelFails, ModelTrips, Empty, Calls,
         WakeNudge, PlanningRetry, KickBack, ToolCall, RequestEnds, Restart, Ends, Goes

\* A run ends done with a flagged claim, or kicked back and neither working
\* nor refusing, only when its kick-backs are used up or the audit failed.
THEOREM ClaimsAreKickedBack == Spec => DoneOrTold
  <1>1. IInv /\ [Next]_vars =>
           [Finishes /\ task.audited /\ lastClaimAudit' # "thrown" =>
              \/ own.kicks = MaxKicks
              \/ /\ lastClaimAudit' # "flagged"
                 /\ own.kicks = 0 \/ own.acted \/ lastClaimAudit' = "refused"]_vars
    <2> SUFFICES ASSUME IInv, Next, Finishes, task.audited, lastClaimAudit' # "thrown"
                 PROVE  \/ own.kicks = MaxKicks
                        \/ /\ lastClaimAudit' # "flagged"
                           /\ own.kicks = 0 \/ own.acted \/ lastClaimAudit' = "refused"
      OBVIOUS
    <2>1. PICK a \in AuditOf : Done(a)
      BY FinishIsDone
    <2>2. lastClaimAudit' = a /\ ~MustKick(a)
      BY <2>1 DEF Done
    <2>3. /\ own.kicks = count.kicks /\ (own.acted <=> count.workedSince)
          /\ count.kicks \in 0..MaxKicks
      BY TypeParts DEF IInv, Mirrors, Finishes, RunOK, CountType
    <2> QED BY <2>2, <2>3, LoopAssumption DEF MustKick, LoopAssumption
  <1> QED BY <1>1, Inductive, PTL DEF Spec, DoneOrTold

\* A task that a message woke ends done only with an answer to the room, or
\* after as many reminders as the budget has.
THEOREM RoomIsHeard == Spec => RoomIsAnswered
  <1>1. IInv /\ [Next]_vars =>
           [Finishes /\ task.wake => own.pubbed \/ own.wakes = Nudges]_vars
    <2> SUFFICES ASSUME IInv, Next, Finishes, task.wake
                 PROVE  own.pubbed \/ own.wakes = Nudges
      OBVIOUS
    <2>1. PICK a \in AuditOf : Done(a)
      BY FinishIsDone
    <2>2. ~OwesRoom
      BY <2>1 DEF Done
    <2>3. /\ own.wakes = count.wake /\ (own.pubbed <=> count.pubCalls)
          /\ count.wake \in 0..Nudges
      BY TypeParts DEF IInv, Mirrors, Finishes, RunOK, CountType
    <2> QED BY <2>2, <2>3, LoopAssumption DEF OwesRoom, LoopAssumption
  <1> QED BY <1>1, Inductive, PTL DEF Spec, RoomIsAnswered

-----------------------------------------------------------------------------
(* The detectors against what the run has done.  The buffer outlives the   *)
(* run and forgets its oldest call, so a row of calls is counted from the  *)
(* buffer's end.                                                           *)

Recent(s, j) == s[Len(s) - j]
FailingRow(s, f) ==
    /\ f \in 0..Len(s)
    /\ \A j \in 0..(f - 1) : Recent(s, j).outcome = Recent(s, 0).outcome
                             /\ Recent(s, j).outcome # "ok"
SameRow(s, m) ==
    /\ m \in 0..Len(s)
    /\ \A j \in 0..(m - 1) : Recent(s, j).tool = Recent(s, 0).tool

Rows ==
    pc # "idle" =>
        /\ own.failing < StormN /\ FailingRow(events, own.failing)
        /\ own.same < RepeatN /\ SameRow(events, own.same)

\* What the buffer keeps of its end when a call is pushed.
LEMMA PushKeeps ==
    ASSUME events \in Seq(Event), Len(events) <= BufferSize, NEW e \in Event,
           NEW k \in 0..Len(events), k < BufferSize
    PROVE  /\ Len(Push(e)) \in Nat /\ k + 1 <= Len(Push(e))
           /\ Recent(Push(e), 0) = e
           /\ \A j \in 1..k : Recent(Push(e), j) = Recent(events, j - 1)
  <1> DEFINE all == Append(events, e)
             n == Len(events)
  <1>0. n \in Nat /\ BufferSize \in Nat \ {0}
    BY LoopAssumption, LenProperties DEF LoopAssumption
  <1>1. /\ all \in Seq(Event) /\ Len(all) = n + 1 /\ all # <<>> /\ all[n + 1] = e
        /\ \A i \in 1..n : all[i] = events[i]
    BY AppendProperties
  <1>2. CASE n + 1 > BufferSize
    <2>1. Push(e) = Tail(all)
      BY <1>1, <1>2 DEF Push
    <2>2. /\ Tail(all) \in Seq(Event) /\ Len(Tail(all)) = n
          /\ \A i \in 1..n : Tail(all)[i] = all[i + 1]
      BY <1>0, <1>1, HeadTailProperties
    <2>3. Recent(Push(e), 0) = e
      BY <1>0, <1>1, <1>2, <2>1, <2>2 DEF Recent
    <2>4. ASSUME NEW j \in 1..k PROVE Recent(Push(e), j) = Recent(events, j - 1)
      <3>1. n - j \in 1..n /\ n - (j - 1) = (n - j) + 1 /\ n - j + 1 \in 1..n
        BY <1>0, <1>2
      <3>2. Tail(all)[n - j] = events[n - j + 1]
        BY <1>1, <2>2, <3>1
      <3> QED BY <2>1, <2>2, <3>1, <3>2 DEF Recent
    <2> QED BY <1>0, <1>2, <2>1, <2>2, <2>3, <2>4
  <1>3. CASE ~(n + 1 > BufferSize)
    <2>1. Push(e) = all
      BY <1>1, <1>3 DEF Push
    <2>2. Recent(Push(e), 0) = e
      BY <1>0, <1>1, <2>1 DEF Recent
    <2>3. ASSUME NEW j \in 1..k PROVE Recent(Push(e), j) = Recent(events, j - 1)
      <3>1. n + 1 - j \in 1..n /\ n - (j - 1) = n + 1 - j
        BY <1>0
      <3> QED BY <1>1, <2>1, <3>1 DEF Recent
    <2> QED BY <1>0, <1>1, <2>1, <2>2, <2>3
  <1> QED BY <1>2, <1>3

\* A row of failures that is long enough is a storm, a row of one call a
\* repetition.
LEMMA RowsTrip ==
    ASSUME NEW s \in Seq(Event)
    PROVE  /\ FailingRow(s, StormN) => Storms(s)
           /\ SameRow(s, RepeatN) => Repeats(s)
  <1>0. Len(s) \in Nat /\ StormN \in Nat \ {0} /\ RepeatN \in Nat \ {0}
    BY LoopAssumption, LenProperties DEF LoopAssumption
  <1>1. ASSUME FailingRow(s, StormN) PROVE Storms(s)
    <2> DEFINE i == Len(s) - StormN + 1
    <2>1. i \in 1..(Len(s) - StormN + 1) /\ i + StormN - 1 = Len(s)
      BY <1>0, <1>1 DEF FailingRow
    <2>2. ASSUME NEW j \in i..Len(s)
          PROVE  s[j].outcome = Recent(s, 0).outcome /\ s[j].outcome # "ok"
      <3>1. Len(s) - j \in 0..(StormN - 1) /\ j = Len(s) - (Len(s) - j)
        BY <1>0, <2>1
      <3>2. s[j] = Recent(s, Len(s) - j)
        BY <3>1 DEF Recent
      <3> QED BY <1>1, <3>1, <3>2 DEF FailingRow
    <2>3. i \in i..Len(s)
      BY <1>0, <2>1
    <2>4. s[i].outcome # "ok" /\ \A j \in i..Len(s) : s[j].outcome = s[i].outcome
      BY <2>2, <2>3
    <2> HIDE DEF i
    <2> QED BY <2>1, <2>4 DEF Storms
  <1>2. ASSUME SameRow(s, RepeatN) PROVE Repeats(s)
    <2>1. ASSUME NEW j \in (Len(s) - RepeatN + 1)..Len(s) PROVE s[j].tool = s[Len(s)].tool
      <3>1. Len(s) - j \in 0..(RepeatN - 1) /\ j = Len(s) - (Len(s) - j)
        BY <1>0
      <3>2. s[j] = Recent(s, Len(s) - j) /\ s[Len(s)] = Recent(s, 0)
        BY <1>0, <3>1 DEF Recent
      <3> QED BY <1>2, <3>1, <3>2 DEF SameRow
    <2>2. Len(s) >= RepeatN
      BY <1>0, <1>2 DEF SameRow
    <2> QED BY <2>1, <2>2 DEF Repeats
  <1> QED BY <1>1, <1>2

\* The detectors look at no more calls than the buffer holds.
BufferHolds == StormN <= BufferSize /\ RepeatN <= BufferSize

LEMMA FailingGrows ==
    ASSUME TypeOK, Rows, pc # "idle", BufferHolds, NEW e \in Event
    PROVE  LET f == IF e.outcome = "ok" THEN 0
                    ELSE IF own.failing > 0 /\ events[Len(events)].outcome = e.outcome
                         THEN own.failing + 1 ELSE 1
           IN  f \in 0..StormN /\ FailingRow(Push(e), f)
  <1> DEFINE k == own.failing
             s == Push(e)
  <1>0. /\ events \in Seq(Event) /\ Len(events) <= BufferSize /\ Len(events) \in Nat
        /\ StormN \in Nat \ {0, 1} /\ BufferSize \in Nat /\ StormN <= BufferSize
    BY LoopAssumption, LenProperties DEF LoopAssumption, TypeOK, BufferHolds
  <1>1. k \in 0..Len(events) /\ k < StormN /\ FailingRow(events, k)
    BY DEF Rows, FailingRow
  <1>2. /\ Len(s) \in Nat /\ k + 1 <= Len(s) /\ Recent(s, 0) = e
        /\ \A j \in 1..k : Recent(s, j) = Recent(events, j - 1)
    BY <1>0, <1>1, PushKeeps
  <1> HIDE DEF s
  <1>3. CASE e.outcome = "ok"
    <2>1. FailingRow(s, 0)
      BY <1>2 DEF FailingRow
    <2> QED BY <1>0, <1>3, <2>1 DEF s
  <1>4. CASE e.outcome # "ok" /\ k > 0 /\ events[Len(events)].outcome = e.outcome
    <2>1. ASSUME NEW j \in 0..k
          PROVE  Recent(s, j).outcome = Recent(s, 0).outcome /\ Recent(s, j).outcome # "ok"
      <3>1. CASE j = 0
        BY <1>2, <1>4, <3>1
      <3>2. CASE j # 0
        <4>1. j \in 1..k /\ j - 1 \in 0..(k - 1) /\ Recent(events, 0) = events[Len(events)]
          BY <1>0, <1>1, <3>2 DEF Recent
        <4>2. Recent(s, j).outcome = events[Len(events)].outcome
          BY <1>1, <1>2, <4>1 DEF FailingRow
        <4> QED BY <1>2, <1>4, <4>2
      <3> QED BY <3>1, <3>2
    <2>2. FailingRow(s, k + 1)
      BY <1>1, <1>2, <2>1 DEF FailingRow
    <2>3. k + 1 \in 0..StormN
      BY <1>0, <1>1
    <2> QED BY <1>4, <2>2, <2>3 DEF s
  <1>5. CASE e.outcome # "ok" /\ ~(k > 0 /\ events[Len(events)].outcome = e.outcome)
    <2>1. FailingRow(s, 1)
      BY <1>1, <1>2, <1>5 DEF FailingRow
    <2> QED BY <1>0, <1>5, <2>1 DEF s
  <1> QED BY <1>3, <1>4, <1>5

LEMMA SameGrows ==
    ASSUME TypeOK, Rows, pc # "idle", BufferHolds, NEW e \in Event
    PROVE  LET m == IF own.same > 0 /\ events[Len(events)].tool = e.tool
                    THEN own.same + 1 ELSE 1
           IN  m \in 0..RepeatN /\ SameRow(Push(e), m)
  <1> DEFINE k == own.same
             s == Push(e)
  <1>0. /\ events \in Seq(Event) /\ Len(events) <= BufferSize /\ Len(events) \in Nat
        /\ RepeatN \in Nat \ {0, 1} /\ BufferSize \in Nat /\ RepeatN <= BufferSize
    BY LoopAssumption, LenProperties DEF LoopAssumption, TypeOK, BufferHolds
  <1>1. k \in 0..Len(events) /\ k < RepeatN /\ SameRow(events, k)
    BY DEF Rows, SameRow
  <1>2. /\ Len(s) \in Nat /\ k + 1 <= Len(s) /\ Recent(s, 0) = e
        /\ \A j \in 1..k : Recent(s, j) = Recent(events, j - 1)
    BY <1>0, <1>1, PushKeeps
  <1> HIDE DEF s
  <1>3. CASE k > 0 /\ events[Len(events)].tool = e.tool
    <2>1. ASSUME NEW j \in 0..k PROVE Recent(s, j).tool = Recent(s, 0).tool
      <3>1. CASE j = 0
        BY <3>1
      <3>2. CASE j # 0
        <4>1. j \in 1..k /\ j - 1 \in 0..(k - 1) /\ Recent(events, 0) = events[Len(events)]
          BY <1>0, <1>1, <3>2 DEF Recent
        <4>2. Recent(s, j).tool = events[Len(events)].tool
          BY <1>1, <1>2, <4>1 DEF SameRow
        <4> QED BY <1>2, <1>3, <4>2
      <3> QED BY <3>1, <3>2
    <2>2. SameRow(s, k + 1)
      BY <1>1, <1>2, <2>1 DEF SameRow
    <2>3. k + 1 \in 0..RepeatN
      BY <1>0, <1>1
    <2> QED BY <1>3, <2>2, <2>3 DEF s
  <1>4. CASE ~(k > 0 /\ events[Len(events)].tool = e.tool)
    <2>1. SameRow(s, 1)
      BY <1>1, <1>2 DEF SameRow
    <2> QED BY <1>0, <1>4, <2>1 DEF s
  <1> QED BY <1>3, <1>4

\* A call that leaves the run going has tripped neither detector.
LEMMA CallKeepsRows ==
    ASSUME IInv, Rows, BufferHolds, NEW tool \in Tools, NEW o \in Outcomes,
           ToolCall(tool, o), pc' # "idle"
    PROVE  Rows'
  <1> DEFINE e == [tool |-> tool, outcome |-> o]
             f == IF o = "ok" THEN 0
                  ELSE IF own.failing > 0 /\ events[Len(events)].outcome = o
                       THEN own.failing + 1 ELSE 1
             m == IF own.same > 0 /\ events[Len(events)].tool = tool
                  THEN own.same + 1 ELSE 1
             after == AfterCall(events', blockers', batch)
  <1>1. e \in Event /\ events' = Push(e) /\ TypeOK /\ pc # "idle"
    BY DEF Event, ToolCall, IInv
  <1>2. f \in 0..StormN /\ FailingRow(Push(e), f) /\ m \in 0..RepeatN /\ SameRow(Push(e), m)
    BY <1>1, FailingGrows, SameGrows
  <1>3. own'.failing = f /\ own'.same = m
    <2>1. own' = [own EXCEPT !.same = m, !.failing = f,
                             !.pubbed = own.pubbed \/ (o = "ok" /\ tool = "pub"),
                             !.acted = own.acted \/ Works(tool, o = "ok")]
      BY DEF ToolCall
    <2> HIDE DEF f, m
    <2> QED BY <1>1, <2>1, TypeParts DEF RunOK, OwnType
  <1> HIDE DEF e, f, m
  <1>4. ~Trips(events')
    <2>1. IF after \in Pcs
          THEN Goes(after) /\ batch' = IF after = "top" THEN 0 ELSE batch - 1
          ELSE Ends(after)
      BY DEF ToolCall
    <2>2. Trips(events') => after = "tripped"
      BY DEF AfterCall
    <2> HIDE DEF after
    <2> QED BY <2>1, <2>2 DEF Ends, Pcs
  <1>5. events' \in Seq(Event)
    BY <1>1, PushType DEF TypeOK
  <1>6. f # StormN /\ m # RepeatN
    BY <1>1, <1>2, <1>4, <1>5, RowsTrip DEF Trips
  <1>7. f < StormN /\ m < RepeatN
    BY <1>2, <1>6, LoopAssumption DEF LoopAssumption
  <1> QED BY <1>1, <1>2, <1>3, <1>7 DEF Rows

LEMMA NextRows == BufferHolds /\ IInv /\ Rows /\ [Next]_vars => Rows'
  <1> SUFFICES ASSUME BufferHolds, IInv, Rows, [Next]_vars, pc' # "idle" PROVE Rows'
    BY DEF Rows
  <1>0. own \in OwnType
    BY TypeParts DEF IInv, RunOK
  <1>1. ASSUME NEW t \in Task, Begin(t) PROVE Rows'
    <2>1. own'.failing = 0 /\ own'.same = 0 /\ events' = events
      BY <1>1 DEF Begin, NothingDone, process
    <2>2. Len(events) \in Nat
      BY LenProperties DEF IInv, TypeOK
    <2> QED BY <2>1, <2>2, LoopAssumption DEF Rows, FailingRow, SameRow, LoopAssumption
  <1>2. ASSUME NEW tool \in Tools, NEW o \in Outcomes, ToolCall(tool, o) PROVE Rows'
    BY <1>2, CallKeepsRows
  <1>3. CASE UNCHANGED events /\ own'.failing = own.failing /\ own'.same = own.same /\ pc # "idle"
    BY <1>3 DEF Rows
  <1>4. CASE WakeNudge \/ \E a \in AuditOf : KickBack(a)
    <2>1. UNCHANGED events /\ own'.failing = own.failing /\ own'.same = own.same /\ pc # "idle"
      BY <1>0, <1>4 DEF WakeNudge, KickBack, Answers, OwnType, process
    <2> QED BY <1>3, <2>1
  <1>5. CASE UNCHANGED <<pc, events, own>>
    BY <1>5 DEF Rows
  <1> QED
    BY <1>1, <1>2, <1>3, <1>4, <1>5
    DEF Next, RunStep, Ceiling, Gate, ModelFails, ModelTrips, Answers, Empty, Calls,
        PlanningRetry, Done, Ends, RequestEnds, Restart, process, vars

\* A storm and a repetition are cut before the next call, provided the
\* buffer holds as many calls as the detectors look at.
THEOREM StormsAreCut == BufferHolds /\ Spec => []StormIsCut
  <1> SUFFICES ASSUME BufferHolds PROVE Spec => []StormIsCut
    OBVIOUS
  <1>1. Init => Rows
    BY DEF Init, Rows
  <1>2. Rows => StormIsCut
    BY DEF Rows, StormIsCut
  <1>3. IInv /\ Rows /\ [Next]_vars => Rows'
    BY NextRows
  <1> QED BY <1>1, <1>2, <1>3, Inductive, PTL DEF Spec

-----------------------------------------------------------------------------
(***************************************************************************)
(* The pub wake source (PubWake).  The invariant counts, for a message,    *)
(* the tasks made of it and who may still make one: its event and its      *)
(* handler, of which there is one in all, and the sweep when it is at this *)
(* message.                                                                *)
(***************************************************************************)

PubPcs == {"idle", "next", "find", "route", "get", "save", "enqueue"}

\* What a process that is not up does not have.
Presence ==
    /\ connected => up
    /\ event # None => connected
    /\ ~up => backlog = {} /\ \A w \in Workers \ {Timeout} : worker[w].pc = "idle"

\* Where the two sweeps can be, and what is left for the sweep to look at.
Places ==
    /\ worker[Timeout].pc \in {"idle", "get", "save"}
    /\ worker[Sweep].pc # "route"
    /\ worker[Sweep].pc \notin {"idle", "next"} => backlog # {}
    /\ backlog \subseteq 1..seen

\* A message that has become a task is in the memory of the process.
Known == up => \A m \in Messages : tasks[m] > 0 => m \in processed

\* A message's one event is to come, is on its way, or has its handler.
Coming(m) == m > posted \/ (connected /\ m > seen)
OneEvent ==
    \A m \in Messages :
        /\ Coming(m) => event # m /\ worker[m].pc = "idle"
        /\ event = m => worker[m].pc = "idle"

\* Who may still make a task of the message, together with the tasks made.
Live(m) == Coming(m) \/ event = m \/ worker[m].pc # "idle"
Swept(m) == worker[Sweep].pc \notin {"idle", "next"} /\ Subject(Sweep) = m
Claims(m) == tasks[m] + (IF Live(m) THEN 1 ELSE 0) + (IF Swept(m) THEN 1 ELSE 0)
Allowed(m) == IF m \in met THEN 2 ELSE 1
Claimed == \A m \in Messages : Claims(m) <= Allowed(m)

\* A copy of the parked task's body differs from the file only in what crossed.
Agree ==
    \A w \in Workers : worker[w].pc = "save" => worker[w].copy \ crossed = body \ crossed

PInv == PubTypeOK /\ Presence /\ Places /\ Known /\ OneEvent /\ Claimed /\ Agree /\ ProcessedIsKept

-----------------------------------------------------------------------------
\* Min, on the sets of messages that the sweep takes it of.
LEMMA LeastIsIn ==
    ASSUME NEW S \in SUBSET Nat, S # {}
    PROVE  Min(S) \in S
  <1> DEFINE Less == {ss \in Nat \X Nat : ss[1] < ss[2]}
  <1>1. IsWellFoundedOn(Less, Nat)
    BY NatLessThanWellFounded DEF OpToRel
  <1>2. PICK x \in S : \A y \in S : ~(<<y, x>> \in Less)
    <2> HIDE DEF Less
    <2> QED BY <1>1, WFMin, Zenon
  <1>3. \A y \in S : x <= y
    <2> SUFFICES ASSUME NEW y \in S PROVE x <= y
      OBVIOUS
    <2>1. ~(y < x)
      BY <1>2
    <2> QED BY <2>1
  <1> QED BY <1>2, <1>3 DEF Min

LEMMA SubjectFacts ==
    ASSUME PubTypeOK, Places, NEW w \in Workers, worker[w].pc \notin {"idle", "next"}
    PROVE  /\ w = Timeout => Subject(w) = Timeout /\ Timeout \notin Messages
           /\ w # Timeout => Subject(w) \in Messages
           /\ w = Sweep => Subject(w) \in backlog
           /\ w # Sweep => Subject(w) = w
  <1>1. MaxMessages \in Nat /\ Messages \subseteq Nat \ {0} /\ Sweep # Timeout
        /\ Timeout \notin Messages /\ Sweep \notin Messages
    BY PubWakeAssumption DEF PubWakeAssumption, Messages, Timeout, Sweep
  <1>2. CASE w = Sweep
    <2>1. backlog # {} /\ backlog \in SUBSET Nat /\ backlog \subseteq Messages
      BY <1>1, <1>2 DEF Places, PubTypeOK
    <2> QED BY <1>1, <1>2, <2>1, LeastIsIn DEF Subject
  <1>3. CASE w # Sweep
    BY <1>1, <1>3 DEF Subject, Workers
  <1> QED BY <1>2, <1>3

WorkerType == [pc : PubPcs, copy : SUBSET Messages]

LEMMA MovesTo ==
    ASSUME PubTypeOK, NEW w \in Workers, NEW to \in PubPcs, Moves(w, to)
    PROVE  /\ worker' \in [Workers -> WorkerType]
           /\ worker'[w].pc = to
           /\ \A v \in Workers : v # w => worker'[v] = worker[v]
  BY DEF PubTypeOK, Moves, WorkerType, PubPcs

\* A handler ends, the sweep goes on.
LEMMA PassesTo ==
    ASSUME PubTypeOK, NEW w \in Workers, Passes(w)
    PROVE  /\ worker' \in [Workers -> WorkerType]
           /\ worker'[w].pc = IF w = Sweep THEN "next" ELSE "idle"
           /\ \A v \in Workers : v # w => worker'[v] = worker[v]
           /\ backlog' \subseteq backlog
           /\ w # Sweep => backlog' = backlog
  <1>1. "next" \in PubPcs /\ "idle" \in PubPcs
    BY DEF PubPcs
  <1>2. CASE w = Sweep
    <2>1. Moves(w, "next") /\ backlog' \subseteq backlog
      BY <1>2 DEF Passes
    <2> QED BY <1>1, <1>2, <2>1, MovesTo
  <1>3. CASE w # Sweep
    <2>1. Moves(w, "idle") /\ backlog' = backlog
      BY <1>3 DEF Passes
    <2> QED BY <1>1, <1>3, <2>1, MovesTo
  <1> QED BY <1>2, <1>3

LEMMA FaultType ==
    ASSUME faults \in 0..MaxFaults, Fault \/ UNCHANGED faults
    PROVE  faults' \in 0..MaxFaults
  BY PubWakeAssumption DEF PubWakeAssumption, Fault

-----------------------------------------------------------------------------
\* PubTypeOK without the tasks, whose bound is a matter of Claimed.
RoomType ==
    /\ posted \in 0..MaxMessages /\ msg \in [Messages -> Message]
    /\ connected \in BOOLEAN /\ up \in BOOLEAN
    /\ seen \in 0..posted /\ event \in Messages \cup {None}
MemoryType ==
    /\ sent \subseteq Messages /\ processed \subseteq Messages
    /\ wait \in {"none", "waiting", "expired"} /\ body \subseteq Messages
    /\ backlog \subseteq Messages /\ met \subseteq Messages
    /\ crossed \subseteq Messages /\ faults \in 0..MaxFaults
TasksType == tasks \in [Messages -> 0..2]

LEMMA PubTypeParts ==
    PubTypeOK <=> RoomType /\ MemoryType /\ TasksType /\ worker \in [Workers -> WorkerType]
  BY DEF PubTypeOK, RoomType, MemoryType, TasksType, WorkerType, PubPcs

LEMMA NextRoom == PubTypeOK /\ [PubNext]_pubVars => RoomType'
  <1> SUFFICES ASSUME PubTypeOK, [PubNext]_pubVars PROVE RoomType'
    OBVIOUS
  <1>0. RoomType /\ MaxMessages \in Nat
    BY PubTypeParts, PubWakeAssumption DEF PubWakeAssumption
  <1>1. CASE Post
    <2>1. PICK new \in Talk : msg' = [msg EXCEPT ![posted + 1] = new]
      BY <1>1 DEF Post
    <2>2. new \in Message
      BY PubWakeAssumption DEF PubWakeAssumption
    <2>3. msg' \in [Messages -> Message]
      BY <1>0, <2>1, <2>2 DEF RoomType
    <2>4. posted' \in 0..MaxMessages /\ posted' = posted + 1
      BY <1>0, <1>1 DEF Post, RoomType
    <2>5. UNCHANGED <<connected, seen, event, up>>
      BY <1>1 DEF Post, client, memory
    <2> QED BY <1>0, <2>3, <2>4, <2>5 DEF RoomType
  <1>2. CASE RoomState
    <2>1. seen' \in 0..posted' /\ seen' \in Messages
      BY <1>0, <1>2 DEF RoomState, RoomType, Messages, room
    <2> QED BY <1>0, <1>2, <2>1 DEF RoomState, RoomType, room
  <1>3. CASE ConversationEvent \/ LoseEvent \/ Disconnect \/ Reconnect \/ Boot \/ Exit
    <2>1. UNCHANGED <<posted, msg>> /\ seen' \in {seen, posted, 0}
      BY <1>3 DEF ConversationEvent, LoseEvent, Disconnect, Reconnect, Boot, Exit, room
    <2>2. event' \in {event, None} /\ connected' \in BOOLEAN /\ up' \in BOOLEAN
      BY <1>0, <1>3
      DEF ConversationEvent, LoseEvent, Disconnect, Reconnect, Boot, Exit, RoomType, memory
    <2> QED BY <1>0, <2>1, <2>2 DEF RoomType
  <1>4. CASE UNCHANGED <<room, client, up>>
    BY <1>0, <1>4 DEF RoomType, room, client
  <1> QED
    BY <1>1, <1>2, <1>3, <1>4
    DEF PubNext, Step, SweepBegins, SweepNext, Park, Expires, TimeoutBegins, Find, Route, Get,
        Save, Enqueue, memory, pubVars

LEMMA WindowType ==
    ASSUME NEW n \in 0..posted, posted \in 0..MaxMessages
    PROVE  Window(n) \subseteq 1..n /\ Mine(Window(n)) \subseteq Messages
  BY PubWakeAssumption DEF PubWakeAssumption, Window, Mine, Messages

LEMMA NextMemory == PubTypeOK /\ Places /\ [PubNext]_pubVars => MemoryType'
  <1> SUFFICES ASSUME PubTypeOK, Places, [PubNext]_pubVars PROVE MemoryType'
    OBVIOUS
  <1>0. MemoryType /\ RoomType /\ TasksType /\ worker \in [Workers -> WorkerType]
    BY PubTypeParts
  <1>1. CASE Post \/ ConversationEvent
    BY <1>0, <1>1 DEF Post, ConversationEvent, MemoryType, memory, store, history
  <1>2. CASE RoomState
    <2>1. seen' \in 0..posted
      BY <1>0, <1>2 DEF RoomState, RoomType
    <2>2. Mine(Window(seen')) \subseteq Messages
      BY <1>0, <2>1, WindowType DEF RoomType
    <2> QED BY <1>0, <1>2, <2>2 DEF RoomState, MemoryType, store, history
  <1>3. CASE LoseEvent \/ Disconnect
    BY <1>0, <1>3, FaultType DEF LoseEvent, Disconnect, MemoryType, memory, store, history
  <1>4. CASE Reconnect \/ Boot
    <2>1. Mine(Window(posted)) \subseteq Messages
      BY <1>0, WindowType DEF RoomType
    <2>2. Seeded \subseteq Messages
      BY DEF Seeded
    <2> QED BY <1>0, <1>4, <2>1, <2>2 DEF Reconnect, Boot, MemoryType, store, history
  <1>5. CASE Exit
    BY <1>0, <1>5 DEF Exit, MemoryType, store, history
  <1>6. CASE SweepBegins
    <2>1. Window(seen) \subseteq Messages
      <3>1. Window(seen) \subseteq 1..seen /\ MaxMessages \in Nat
        BY <1>0, WindowType, PubWakeAssumption DEF RoomType, PubWakeAssumption
      <3> QED BY <1>0, <3>1 DEF RoomType, Messages
    <2> QED BY <1>0, <1>6, <2>1 DEF SweepBegins, Cache, MemoryType, memory, store, history
  <1>7. CASE SweepNext
    <2>1. backlog' \subseteq backlog
      BY <1>7 DEF SweepNext
    <2>2. met' \subseteq Messages
      <3>1. CASE met' = met
        BY <1>0, <3>1 DEF MemoryType
      <3>2. CASE backlog # {} /\ met' = met \cup {Min(backlog)}
        <4>1. backlog \in SUBSET Nat /\ backlog \subseteq Messages
          BY <1>0 DEF MemoryType, Messages
        <4> QED BY <1>0, <3>2, <4>1, LeastIsIn DEF MemoryType
      <3> QED BY <1>7, <3>1, <3>2 DEF SweepNext
    <2> QED BY <1>0, <1>7, <2>1, <2>2 DEF SweepNext, MemoryType, memory, store
  <1>8. CASE Park \/ Expires \/ TimeoutBegins
    BY <1>0, <1>8 DEF Park, Expires, TimeoutBegins, MemoryType, memory, store, history
  <1>9. ASSUME NEW w \in Workers, Find(w) PROVE MemoryType'
    <2>1. backlog' \subseteq backlog
      BY <1>9, PassesTo DEF Find
    <2> QED BY <1>0, <1>9, <2>1 DEF Find, MemoryType, memory, store, history
  <1>10. ASSUME NEW w \in Workers, Route(w) \/ Get(w) PROVE MemoryType'
    <2>1. faults' \in 0..MaxFaults
      BY <1>0, <1>10, FaultType DEF Route, Get, Happens, MemoryType
    <2> QED BY <1>0, <1>10, <2>1 DEF Route, Get, MemoryType, memory, store, history
  <1>11. ASSUME NEW w \in Workers, Save(w) PROVE MemoryType'
    <2>1. PICK ok \in BOOLEAN :
            /\ Happens(ok)
            /\ IF ok THEN body' = worker[w].copy \cup (Messages \cap {Subject(w)}) /\ wait' = "none"
                     ELSE UNCHANGED <<body, wait>>
            /\ processed' = IF w = Timeout THEN processed ELSE Recorded(ok, Subject(w))
            /\ IF ok \/ w # Sweep THEN Passes(w)
                                  ELSE Moves(w, "idle") /\ backlog' = {}
      BY <1>11 DEF Save
    <2>2. faults' \in 0..MaxFaults
      BY <1>0, <2>1, FaultType DEF Happens, MemoryType
    <2>3. worker[w].copy \subseteq Messages
      BY <1>0 DEF WorkerType
    <2>4. processed' \subseteq Messages
      BY <1>0, <1>11, <2>1, SubjectFacts DEF Save, Recorded, MemoryType
    <2>5. backlog' \subseteq backlog
      BY <2>1, PassesTo
    <2>6. body' \subseteq Messages /\ wait' \in {"none", "waiting", "expired"}
      BY <1>0, <2>1, <2>3 DEF MemoryType
    <2>7. crossed' \subseteq Messages /\ UNCHANGED <<sent, met>>
      BY <1>0, <1>11 DEF Save, MemoryType
    <2> QED BY <1>0, <2>2, <2>4, <2>5, <2>6, <2>7 DEF MemoryType
  <1>12. ASSUME NEW w \in Workers, Enqueue(w) PROVE MemoryType'
    <2>1. faults' \in 0..MaxFaults
      BY <1>0, <1>12, FaultType DEF Enqueue, Happens, MemoryType
    <2>2. processed' \subseteq Messages
      <3>1. Subject(w) \in Messages
        BY <1>12, SubjectFacts DEF Enqueue, Places
      <3> QED BY <1>0, <1>12, <3>1 DEF Enqueue, Recorded, MemoryType
    <2>3. backlog' \subseteq backlog
      BY <1>12, PassesTo DEF Enqueue
    <2> QED BY <1>0, <1>12, <2>1, <2>2, <2>3 DEF Enqueue, MemoryType, history
  <1>13. CASE UNCHANGED pubVars
    BY <1>0, <1>13 DEF pubVars, MemoryType, memory, store, history
  <1> QED
    BY <1>1, <1>2, <1>3, <1>4, <1>5, <1>6, <1>7, <1>8, <1>9, <1>10, <1>11, <1>12, <1>13
    DEF PubNext, Step

-----------------------------------------------------------------------------
\* What a step of a handler or of a sweep can do to the rest.
LEMMA StepMoves ==
    ASSUME PubTypeOK, Places, NEW w \in Workers, Step(w)
    PROVE  /\ worker[w].pc \notin {"idle", "next"}
           /\ worker' \in [Workers -> WorkerType]
           /\ \A v \in Workers : v # w => worker'[v] = worker[v]
           /\ backlog' \subseteq backlog /\ (w # Sweep => backlog' = backlog)
           /\ UNCHANGED <<posted, msg, connected, seen, event, up, sent, met>>
           /\ w = Timeout => worker'[w].pc \in {"idle", "get", "save"}
           /\ w = Sweep => \/ worker'[w].pc \in {"idle", "next"}
                           \/ worker'[w].pc # "route" /\ backlog' = backlog
  <1>0. {"idle", "next", "find", "route", "get", "save", "enqueue"} \subseteq PubPcs
    BY DEF PubPcs
  <1>1. w = Timeout => worker[w].pc \in {"idle", "get", "save"} /\ w # Sweep
    BY DEF Places, Timeout, Sweep
  <1>2. w = Sweep => worker[w].pc # "route"
    BY DEF Places
  <1>3. CASE Find(w)
    <2>1. worker[w].pc = "find" /\ w # Timeout
      BY <1>1, <1>3 DEF Find
    <2>2. \/ Moves(w, "get") /\ backlog' = backlog
          \/ Moves(w, "enqueue") /\ backlog' = backlog
          \/ w = Sweep /\ Passes(w)
          \/ w # Sweep /\ Moves(w, "route") /\ backlog' = backlog
      BY <1>3 DEF Find
    <2> QED BY <1>0, <1>3, <2>1, <2>2, MovesTo, PassesTo
        DEF Find, room, client, memory, store, history
  <1>4. CASE Route(w)
    <2>1. worker[w].pc = "route" /\ w # Timeout /\ w # Sweep
      BY <1>1, <1>2, <1>4 DEF Route
    <2>2. backlog' = backlog /\ (Moves(w, "idle") \/ Moves(w, "enqueue"))
      BY <1>4 DEF Route
    <2> QED BY <1>0, <1>4, <2>1, <2>2, MovesTo DEF Route, room, client, memory, store, history
  <1>5. CASE Get(w)
    <2>1. worker[w].pc = "get" /\ backlog' = backlog
          /\ worker' = [worker EXCEPT ![w] = [pc |-> "save", copy |-> body]]
          /\ UNCHANGED <<posted, msg, connected, seen, event, up, sent, met>>
      BY <1>5 DEF Get, room, client, memory, store, history
    <2>2. worker' \in [Workers -> WorkerType] /\ worker'[w].pc = "save"
      BY <1>0, <2>1 DEF PubTypeOK, WorkerType, PubPcs
    <2> QED BY <2>1, <2>2 DEF PubTypeOK
  <1>6. CASE Save(w)
    <2>1. worker[w].pc = "save"
          /\ (Passes(w) \/ (w = Sweep /\ Moves(w, "idle") /\ backlog' = {}))
      BY <1>6 DEF Save
    <2> QED BY <1>0, <1>1, <1>6, <2>1, MovesTo, PassesTo DEF Save, room, client
  <1>7. CASE Enqueue(w)
    <2>1. worker[w].pc = "enqueue" /\ w # Timeout /\ Passes(w)
      BY <1>1, <1>7 DEF Enqueue
    <2> QED BY <1>0, <1>7, <2>1, PassesTo DEF Enqueue, room, client, history
  <1> QED BY <1>3, <1>4, <1>5, <1>6, <1>7 DEF Step

LEMMA NextWorkers ==
    PubTypeOK /\ Places /\ [PubNext]_pubVars => worker' \in [Workers -> WorkerType]
  <1> SUFFICES ASSUME PubTypeOK, Places, [PubNext]_pubVars
               PROVE  worker' \in [Workers -> WorkerType]
    OBVIOUS
  <1>0. worker \in [Workers -> WorkerType] /\ {"idle", "next", "find", "get"} \subseteq PubPcs
        /\ Sweep \in Workers /\ Timeout \in Workers /\ Messages \subseteq Workers
    BY PubTypeParts DEF PubPcs, Workers
  <1>1. CASE ConversationEvent
    <2>1. event \in Messages
      BY <1>1 DEF PubTypeOK, ConversationEvent
    <2>2. [worker EXCEPT ![event].pc = "find"] \in [Workers -> WorkerType]
      BY <1>0, <2>1 DEF WorkerType
    <2> QED BY <1>0, <1>1, <2>2 DEF ConversationEvent
  <1>2. CASE Exit
    BY <1>0, <1>2 DEF Exit, Idle, WorkerType
  <1>3. CASE SweepBegins
    BY <1>0, <1>3, MovesTo DEF SweepBegins
  <1>4. CASE SweepNext
    <2>1. Moves(Sweep, "idle") \/ Moves(Sweep, "find") \/ UNCHANGED worker
      BY <1>4 DEF SweepNext
    <2> QED BY <1>0, <2>1, MovesTo
  <1>5. CASE TimeoutBegins
    BY <1>0, <1>5, MovesTo DEF TimeoutBegins
  <1>6. ASSUME NEW w \in Workers, Step(w) PROVE worker' \in [Workers -> WorkerType]
    BY <1>6, StepMoves
  <1>7. CASE UNCHANGED worker
    BY <1>0, <1>7
  <1> QED
    BY <1>1, <1>2, <1>3, <1>4, <1>5, <1>6, <1>7
    DEF PubNext, Post, RoomState, LoseEvent, Disconnect, Reconnect, Boot, Park, Expires, pubVars

LEMMA NextPresence ==
    PubTypeOK /\ Presence /\ Places /\ [PubNext]_pubVars => Presence' /\ Places'
  <1> SUFFICES ASSUME PubTypeOK, Presence, Places, [PubNext]_pubVars PROVE Presence' /\ Places'
    OBVIOUS
  <1>0. /\ Sweep \in Workers /\ Timeout \in Workers /\ Messages \subseteq Workers
        /\ Sweep # Timeout /\ Sweep \notin Messages /\ Timeout \notin Messages
        /\ worker \in [Workers -> WorkerType] /\ seen \in 0..posted /\ posted \in Nat
    BY PubTypeParts, PubWakeAssumption
    DEF PubWakeAssumption, Workers, Messages, Sweep, Timeout, RoomType
  <1> USE <1>0
  <1>1. CASE Post \/ RoomState \/ LoseEvent \/ Disconnect \/ Reconnect \/ Park \/ Expires
    <2>1. UNCHANGED <<worker, backlog, up>> /\ seen' \in Nat /\ seen <= seen'
      BY <1>1
      DEF Post, RoomState, LoseEvent, Disconnect, Reconnect, Park, Expires, client, memory, room
    <2>2. (connected' => up') /\ (event' # None => connected')
      BY <1>1, <2>1
      DEF Post, RoomState, LoseEvent, Disconnect, Reconnect, Park, Expires, client, Presence
    <2>3. backlog' \subseteq 1..seen'
      BY <2>1 DEF Places
    <2> QED BY <2>1, <2>2, <2>3 DEF Presence, Places
  <1>2. CASE ConversationEvent
    <2>1. event \in Messages /\ connected /\ up
      BY <1>2 DEF ConversationEvent, Presence, PubTypeOK
    <2>2. worker' = [worker EXCEPT ![event].pc = "find"]
      BY <1>2, <2>1 DEF ConversationEvent
    <2>3. worker'[Sweep] = worker[Sweep] /\ worker'[Timeout] = worker[Timeout]
      BY <2>1, <2>2
    <2> QED BY <1>2, <2>1, <2>3 DEF ConversationEvent, Presence, Places, memory
  <1>3. CASE Boot
    <2>1. backlog = {} /\ UNCHANGED <<worker, backlog>> /\ up' /\ event' = None
      BY <1>3 DEF Boot, Presence
    <2> QED BY <1>3, <2>1 DEF Presence, Places
  <1>4. CASE Exit
    <2>1. \A w \in Workers : worker'[w] = IF w = Timeout THEN worker[w] ELSE Idle
      BY <1>4 DEF Exit
    <2> QED BY <1>4, <2>1 DEF Exit, Presence, Places, Idle
  <1>5. CASE SweepBegins
    <2>1. up /\ backlog' = Window(seen) /\ Moves(Sweep, "next") /\ UNCHANGED <<client, memory>>
      BY <1>5 DEF SweepBegins, Cache
    <2>2. Window(seen) \subseteq 1..seen
      BY DEF Window
    <2>3. /\ worker'[Sweep].pc = "next"
          /\ \A v \in Workers : v # Sweep => worker'[v] = worker[v]
      BY <2>1, MovesTo, "next" \in PubPcs DEF PubPcs
    <2> QED BY <2>1, <2>2, <2>3 DEF Presence, Places, client, memory
  <1>6. CASE SweepNext
    <2>1. worker[Sweep].pc = "next" /\ up /\ UNCHANGED <<connected, seen, event, up>>
      BY <1>6 DEF SweepNext, Presence, client, memory
    <2>2. /\ worker'[Sweep].pc \in {"idle", "next"} \/ (worker'[Sweep].pc = "find" /\ backlog' # {})
          /\ \A v \in Workers : v # Sweep => worker'[v] = worker[v]
          /\ backlog' \subseteq backlog
      <3>1. \/ Moves(Sweep, "idle") /\ backlog' = backlog
            \/ UNCHANGED worker /\ backlog' \subseteq backlog
            \/ Moves(Sweep, "find") /\ backlog' = backlog /\ backlog # {}
        BY <1>6 DEF SweepNext
      <3> QED BY <2>1, <3>1, MovesTo, {"idle", "find"} \subseteq PubPcs DEF PubPcs
    <2> QED BY <2>1, <2>2 DEF Presence, Places
  <1>7. CASE TimeoutBegins
    <2>1. Moves(Timeout, "get") /\ UNCHANGED <<client, memory, backlog>>
      BY <1>7 DEF TimeoutBegins
    <2>2. /\ worker'[Timeout].pc = "get"
          /\ \A v \in Workers : v # Timeout => worker'[v] = worker[v]
      BY <2>1, MovesTo, "get" \in PubPcs DEF PubPcs
    <2> QED BY <2>1, <2>2 DEF Presence, Places, client, memory
  <1>8. ASSUME NEW w \in Workers, Step(w) PROVE Presence' /\ Places'
    <2>1. /\ worker[w].pc \notin {"idle", "next"}
          /\ \A v \in Workers : v # w => worker'[v] = worker[v]
          /\ backlog' \subseteq backlog /\ (w # Sweep => backlog' = backlog)
          /\ UNCHANGED <<connected, seen, event, up>>
          /\ w = Timeout => worker'[w].pc \in {"idle", "get", "save"}
          /\ w = Sweep => \/ worker'[w].pc \in {"idle", "next"}
                          \/ worker'[w].pc # "route" /\ backlog' = backlog
      BY <1>8, StepMoves
    <2>2. w # Timeout => up
      BY <2>1 DEF Presence
    <2>3. Presence'
      BY <2>1, <2>2 DEF Presence
    <2>4. Places'
      BY <2>1 DEF Places
    <2> QED BY <2>3, <2>4
  <1>9. CASE UNCHANGED pubVars
    BY <1>9 DEF pubVars, client, memory, Presence, Places
  <1> QED BY <1>1, <1>2, <1>3, <1>4, <1>5, <1>6, <1>7, <1>8, <1>9 DEF PubNext

LEMMA NextKnown ==
    PubTypeOK /\ Places /\ Known /\ [PubNext]_pubVars => Known'
  <1> SUFFICES ASSUME PubTypeOK, Places, Known, [PubNext]_pubVars PROVE Known'
    OBVIOUS
  <1>1. CASE Boot
    BY <1>1 DEF Boot, Seeded, Known, store
  <1>2. CASE Exit
    BY <1>2 DEF Exit, Known
  <1>3. ASSUME NEW w \in Workers, Save(w) PROVE Known'
    <2>1. processed \subseteq processed' /\ UNCHANGED <<up, tasks>>
      BY <1>3 DEF Save, Recorded
    <2> QED BY <2>1 DEF Known
  <1>4. ASSUME NEW w \in Workers, Enqueue(w) PROVE Known'
    <2>1. PICK ok \in BOOLEAN :
            /\ tasks' = [tasks EXCEPT ![Subject(w)] = IF ok THEN @ + 1 ELSE @]
            /\ processed' = Recorded(ok, Subject(w))
      BY <1>4 DEF Enqueue
    <2> QED BY <1>4, <2>1 DEF Enqueue, Recorded, Known, PubTypeOK
  <1>5. CASE UNCHANGED <<up, processed, tasks>>
    BY <1>5 DEF Known
  <1> QED
    BY <1>1, <1>2, <1>3, <1>4, <1>5
    DEF PubNext, Step, Post, RoomState, ConversationEvent, LoseEvent, Disconnect, Reconnect,
        SweepBegins, SweepNext, Park, Expires, TimeoutBegins, Find, Route, Get, memory, store,
        pubVars

-----------------------------------------------------------------------------
\* A message has one event and one handler: neither comes back.
LEMMA NextEvent ==
    PubTypeOK /\ Presence /\ Places /\ OneEvent /\ [PubNext]_pubVars =>
        OneEvent' /\ \A m \in Messages : Live(m)' => Live(m)
  <1> SUFFICES ASSUME PubTypeOK, Presence, Places, OneEvent, [PubNext]_pubVars
               PROVE  OneEvent' /\ \A m \in Messages : Live(m)' => Live(m)
    OBVIOUS
  <1> DEFINE Goal == OneEvent' /\ \A m \in Messages : Live(m)' => Live(m)
  <1>0. /\ Sweep \in Workers /\ Timeout \in Workers /\ Messages \subseteq Workers
        /\ Sweep \notin Messages /\ Timeout \notin Messages
        /\ posted \in Nat /\ seen \in 0..posted /\ Messages \subseteq Nat \ {0} /\ None = 0
        /\ worker \in [Workers -> WorkerType]
    BY PubTypeParts, PubWakeAssumption
    DEF PubWakeAssumption, Workers, Messages, Sweep, Timeout, RoomType, None
  <1> USE <1>0 DEF OneEvent, Live, Coming
  <1>1. CASE Post
    BY <1>1 DEF Post, client
  <1>2. CASE RoomState
    <2>1. /\ connected /\ connected' /\ seen < posted /\ seen' = seen + 1 /\ event = None
          /\ event' \in {None, seen'} /\ UNCHANGED <<posted, worker>>
      BY <1>2 DEF RoomState, room
    <2> QED BY <2>1
  <1>3. CASE ConversationEvent
    <2>1. event \in Messages /\ up
      BY <1>3 DEF ConversationEvent, Presence, PubTypeOK
    <2>2. /\ worker' = [worker EXCEPT ![event].pc = "find"]
          /\ event' = None /\ UNCHANGED <<posted, connected, seen>>
      BY <1>3, <2>1 DEF ConversationEvent, room
    <2>3. worker'[event].pc = "find" /\ \A v \in Workers : v # event => worker'[v] = worker[v]
      BY <2>1, <2>2 DEF WorkerType
    <2> QED BY <2>1, <2>2, <2>3
  <1>4. CASE LoseEvent
    BY <1>4 DEF LoseEvent, room
  <1>5. CASE Disconnect
    BY <1>5 DEF Disconnect, room
  <1>6. CASE Reconnect
    <2>1. ~connected /\ connected' /\ seen' = posted /\ UNCHANGED <<posted, worker, event>>
      BY <1>6 DEF Reconnect, room
    <2> QED BY <2>1
  <1>7. CASE Boot
    <2>1. ~connected /\ connected' /\ seen' = posted /\ event' = None /\ UNCHANGED <<posted, worker>>
      BY <1>7 DEF Boot, room, Presence
    <2> QED BY <2>1
  <1>8. CASE Exit
    <2>1. \A m \in Messages : worker'[m].pc = "idle"
      BY <1>8 DEF Exit, Idle
    <2> QED BY <1>8, <2>1 DEF Exit, room
  <1>9. CASE SweepBegins \/ SweepNext \/ TimeoutBegins
    <2>1. /\ UNCHANGED <<posted, connected, seen, event>>
          /\ \/ UNCHANGED worker
             \/ \E w \in {Sweep, Timeout}, to \in PubPcs : Moves(w, to)
      BY <1>9, {"idle", "next", "find", "get"} \subseteq PubPcs
      DEF SweepBegins, SweepNext, TimeoutBegins, room, client, PubPcs
    <2>2. \A m \in Messages : worker'[m] = worker[m]
      BY <2>1, MovesTo
    <2> QED BY <2>1, <2>2
  <1>10. ASSUME NEW w \in Workers, Step(w) PROVE Goal
    <2>1. /\ worker[w].pc # "idle" /\ \A v \in Workers : v # w => worker'[v] = worker[v]
          /\ UNCHANGED <<posted, connected, seen, event>>
      BY <1>10, StepMoves
    <2> QED BY <2>1
  <1>11. CASE UNCHANGED <<posted, connected, seen, event, worker>>
    BY <1>11
  <1> QED
    BY <1>1, <1>2, <1>3, <1>4, <1>5, <1>6, <1>7, <1>8, <1>9, <1>10, <1>11
    DEF PubNext, Park, Expires, pubVars, room, client

\* The sweep turns to a message only in SweepNext.
LEMMA NextSwept ==
    ASSUME PubTypeOK, Presence, Places, [PubNext]_pubVars, ~SweepNext,
           NEW m \in Messages, Swept(m)'
    PROVE  Swept(m)
  <1>0. /\ Sweep \in Workers /\ Timeout \in Workers /\ Messages \subseteq Workers
        /\ Sweep \notin Messages /\ Timeout # Sweep /\ worker \in [Workers -> WorkerType]
    BY PubTypeParts, PubWakeAssumption
    DEF PubWakeAssumption, Workers, Messages, Sweep, Timeout, RoomType, None
  <1>1. worker'[Sweep].pc \notin {"idle", "next"} /\ Min(backlog') = m
    BY DEF Swept, Subject
  <1>2. SUFFICES worker[Sweep].pc \notin {"idle", "next"} /\ backlog' = backlog
    BY <1>1, <1>2 DEF Swept, Subject
  <1>3. CASE ConversationEvent
    <2>1. event \in Messages /\ up
      BY <1>3 DEF ConversationEvent, Presence, PubTypeOK
    <2> QED BY <1>0, <1>1, <1>3, <2>1 DEF ConversationEvent
  <1>4. CASE Exit
    BY <1>0, <1>1, <1>4 DEF Exit, Idle
  <1>5. CASE SweepBegins
    BY <1>0, <1>1, <1>5, MovesTo, "next" \in PubPcs DEF SweepBegins, PubPcs
  <1>6. CASE TimeoutBegins
    BY <1>0, <1>1, <1>6, MovesTo, "get" \in PubPcs DEF TimeoutBegins, PubPcs
  <1>7. ASSUME NEW w \in Workers, Step(w)
        PROVE  worker[Sweep].pc \notin {"idle", "next"} /\ backlog' = backlog
    BY <1>0, <1>1, <1>7, StepMoves
  <1>8. CASE UNCHANGED <<worker, backlog>>
    BY <1>1, <1>8
  <1> QED
    BY <1>3, <1>4, <1>5, <1>6, <1>7, <1>8
    DEF PubNext, Post, RoomState, LoseEvent, Disconnect, Reconnect, Boot, Park, Expires, pubVars

LEMMA NextClaimed ==
    PubTypeOK /\ Presence /\ Places /\ Known /\ OneEvent /\ Claimed /\ [PubNext]_pubVars =>
        Claimed' /\ TasksType'
  <1> SUFFICES ASSUME PubTypeOK, Presence, Places, Known, OneEvent, Claimed, [PubNext]_pubVars
               PROVE  Claimed' /\ tasks' \in [Messages -> Nat]
    BY DEF Claimed, Claims, Allowed, TasksType
  <1>0. /\ tasks \in [Messages -> 0..2] /\ \A m \in Messages : Live(m)' => Live(m)
        /\ Sweep \in Workers /\ Sweep \notin Messages /\ worker \in [Workers -> WorkerType]
    BY PubTypeParts, NextEvent, PubWakeAssumption
    DEF TasksType, Workers, PubWakeAssumption, Sweep, Messages
  <1>1. ASSUME UNCHANGED tasks, met \subseteq met', \A m \in Messages : Swept(m)' => Swept(m)
        PROVE  Claimed' /\ tasks' \in [Messages -> Nat]
    BY <1>0, <1>1 DEF Claimed, Claims, Allowed
  <1>2. CASE SweepNext
    <2>1. UNCHANGED tasks /\ met \subseteq met' /\ worker[Sweep].pc = "next"
      BY <1>2 DEF SweepNext, store
    <2>2. CASE worker'[Sweep].pc \in {"idle", "next"}
      <3>1. \A m \in Messages : ~Swept(m)'
        BY <2>2 DEF Swept
      <3> QED BY <1>1, <2>1, <3>1
    <2>3. CASE worker'[Sweep].pc \notin {"idle", "next"}
      <3>0. /\ backlog # {} /\ backlog \in SUBSET Nat /\ backlog \subseteq 1..seen
            /\ backlog \subseteq Messages /\ seen \in 0..posted /\ posted \in Nat
        <4>1. backlog # {}
          <5>1. CASE backlog = {}
            BY <1>0, <1>2, <2>1, <2>3, <5>1, MovesTo, "idle" \in PubPcs DEF SweepNext, PubPcs
          <5> QED BY <5>1
        <4>2. MaxMessages \in Nat
          BY PubWakeAssumption DEF PubWakeAssumption
        <4> QED BY <4>1, <4>2 DEF Places, PubTypeOK, Messages
      <3>2. PICK n \in Messages : n = Min(backlog) /\ n \in backlog
        BY <3>0, LeastIsIn
      <3>1. /\ backlog # {} /\ ~Skipped(n) /\ Moves(Sweep, "find") /\ UNCHANGED backlog
            /\ met' = IF event = n \/ worker[n].pc # "idle" THEN met \cup {n} ELSE met
        <4>1. ~Moves(Sweep, "idle")
          BY <2>3, <1>0, MovesTo, "idle" \in PubPcs DEF PubPcs
        <4> QED BY <1>2, <2>1, <2>3, <3>0, <3>2, <4>1 DEF SweepNext
      <3>3. ~Coming(n) /\ up
        BY <3>0, <3>2 DEF Coming, Presence
      <3>4. tasks[n] = 0
        BY <1>0, <3>1, <3>2, <3>3 DEF Known, Skipped
      <3>5. \A m \in Messages : m # n => ~Swept(m)'
        BY <3>1, <3>2 DEF Swept, Subject
      <3>6. Live(n) => n \in met'
        BY <3>1, <3>3 DEF Live
      <3>7. \A m \in Messages : Claims(m)' <= Allowed(m)'
        <4>1. Claims(n)' <= Allowed(n)'
          BY <1>0, <2>1, <3>2, <3>4, <3>6 DEF Claims, Allowed
        <4>2. ASSUME NEW m \in Messages, m # n PROVE Claims(m)' <= Allowed(m)'
          BY <1>0, <2>1, <3>5, <4>2 DEF Claims, Allowed, Claimed
        <4> QED BY <4>1, <4>2
      <3> QED BY <1>0, <2>1, <3>7 DEF Claimed
    <2> QED BY <2>2, <2>3
  <1>3. ASSUME NEW w \in Workers, Enqueue(w), ~SweepNext
        PROVE  Claimed' /\ tasks' \in [Messages -> Nat]
    <2>1. worker[w].pc = "enqueue" /\ Passes(w) /\ met' = met
          /\ UNCHANGED <<posted, connected, seen, event>>
      BY <1>3 DEF Enqueue, room, client, history
    <2>2. PICK n \in Messages : n = Subject(w) /\ (w # Sweep => n = w)
      BY <2>1, SubjectFacts DEF Places
    <2>3. worker'[w].pc = IF w = Sweep THEN "next" ELSE "idle"
      BY <2>1, PassesTo
    <2>4. \A m \in Messages : Swept(m)' => Swept(m)
      BY <1>3, NextSwept
    <2>5. tasks' = tasks \/ tasks' = [tasks EXCEPT ![n] = @ + 1]
      BY <1>0, <1>3, <2>2 DEF Enqueue
    <2>6. CASE tasks' = tasks
      BY <1>1, <2>1, <2>4, <2>6
    <2>7. CASE tasks' = [tasks EXCEPT ![n] = @ + 1]
      <3>1. \/ Live(n) /\ ~Live(n)'
            \/ Swept(n) /\ ~Swept(n)'
        <4>1. CASE w = Sweep
          BY <2>1, <2>2, <2>3, <4>1 DEF Swept
        <4>2. CASE w # Sweep
          <5>1. Live(n) /\ ~Coming(n) /\ event # n
            BY <2>1, <2>2, <4>2 DEF Live, OneEvent
          <5>2. ~Live(n)'
            BY <2>1, <2>2, <2>3, <4>2, <5>1 DEF Live, Coming
          <5> QED BY <5>1, <5>2
        <4> QED BY <4>1, <4>2
      <3>2. tasks' \in [Messages -> Nat] /\ tasks'[n] = tasks[n] + 1
            /\ \A m \in Messages : m # n => tasks'[m] = tasks[m]
        BY <1>0, <2>2, <2>7
      <3>3. Claims(n)' <= Allowed(n)'
        BY <1>0, <2>1, <2>2, <2>4, <3>1, <3>2 DEF Claims, Allowed, Claimed
      <3>4. ASSUME NEW m \in Messages, m # n PROVE Claims(m)' <= Allowed(m)'
        BY <1>0, <2>1, <2>4, <3>2, <3>4 DEF Claims, Allowed, Claimed
      <3> QED BY <3>2, <3>3, <3>4 DEF Claimed
    <2> QED BY <2>5, <2>6, <2>7
  <1>4. CASE ~SweepNext /\ UNCHANGED tasks /\ met' = met
    <2>1. \A m \in Messages : Swept(m)' => Swept(m)
      BY <1>4, NextSwept
    <2> QED BY <1>1, <1>4, <2>1
  <1> QED
    BY <1>2, <1>3, <1>4
    DEF PubNext, Step, Post, RoomState, ConversationEvent, LoseEvent, Disconnect, Reconnect,
        Boot, Exit, SweepBegins, Park, Expires, TimeoutBegins, Find, Route, Get, Save, store,
        history, pubVars

\* A write with an older copy loses only what crossed it.
LEMMA NextKept ==
    PubTypeOK /\ Presence /\ Places /\ Agree /\ ProcessedIsKept /\ [PubNext]_pubVars =>
        Agree' /\ ProcessedIsKept'
  <1> SUFFICES ASSUME PubTypeOK, Presence, Places, Agree, ProcessedIsKept, [PubNext]_pubVars
               PROVE  Agree' /\ ProcessedIsKept'
    OBVIOUS
  <1>0. worker \in [Workers -> WorkerType] /\ body \subseteq Messages
        /\ processed \subseteq Messages /\ tasks \in [Messages -> 0..2]
        /\ Messages \subseteq Workers
    BY PubTypeParts DEF PubTypeOK, Workers
  <1>1. ASSUME NEW w \in Workers, Get(w) PROVE Agree' /\ ProcessedIsKept'
    <2>1. /\ worker' = [worker EXCEPT ![w] = [pc |-> "save", copy |-> body]]
          /\ UNCHANGED <<body, crossed, processed, tasks>>
      BY <1>1 DEF Get, memory, store, history
    <2> QED BY <1>0, <2>1 DEF Agree, ProcessedIsKept
  <1>2. ASSUME NEW w \in Workers, Save(w) PROVE Agree' /\ ProcessedIsKept'
    <2> DEFINE s == Messages \cap {Subject(w)}
    <2>1. PICK ok \in BOOLEAN :
            /\ IF ok THEN body' = worker[w].copy \cup s ELSE UNCHANGED body
            /\ processed' = IF w = Timeout THEN processed ELSE Recorded(ok, Subject(w))
      BY <1>2 DEF Save
    <2>2. /\ worker[w].pc = "save" /\ tasks' = tasks
          /\ crossed' = IF \E v \in Workers \ {w} : worker[v].pc = "save"
                        THEN crossed \cup s ELSE crossed
      BY <1>2 DEF Save
    <2>3. worker'[w].pc \in {"idle", "next"} /\ \A v \in Workers : v # w => worker'[v] = worker[v]
      <3>1. Passes(w) \/ Moves(w, "idle")
        BY <1>2 DEF Save
      <3> QED BY <3>1, MovesTo, PassesTo, "idle" \in PubPcs DEF PubPcs
    <2>4. Subject(w) \in Messages \/ w = Timeout
      BY <2>2, SubjectFacts
    <2>5. worker[w].copy \ crossed = body \ crossed
      BY <2>2 DEF Agree
    <2>6. crossed \subseteq crossed'
      BY <2>2
    <2>7. Agree'
      <3> SUFFICES ASSUME NEW v \in Workers, worker'[v].pc = "save"
                   PROVE  worker'[v].copy \ crossed' = body' \ crossed'
        BY DEF Agree
      <3>1. v # w /\ worker'[v] = worker[v] /\ worker[v].copy \ crossed = body \ crossed
        BY <2>3 DEF Agree
      <3>2. crossed' = crossed \cup s
        BY <2>2, <3>1
      <3> HIDE DEF s
      <3> QED BY <2>1, <2>5, <3>1, <3>2
    <2>8. ProcessedIsKept'
      <3> SUFFICES ASSUME NEW m \in processed' \ crossed' PROVE tasks[m] > 0 \/ m \in body'
        BY <2>2 DEF ProcessedIsKept
      <3>1. CASE m \in processed
        BY <2>1, <2>5, <2>6, <3>1 DEF ProcessedIsKept
      <3>2. CASE m \notin processed
        BY <2>1, <2>4, <3>2 DEF Recorded
      <3> QED BY <3>1, <3>2
    <2> QED BY <2>7, <2>8
  <1>3. ASSUME NEW w \in Workers, Enqueue(w) PROVE Agree' /\ ProcessedIsKept'
    <2>1. PICK ok \in BOOLEAN :
            /\ tasks' = [tasks EXCEPT ![Subject(w)] = IF ok THEN @ + 1 ELSE @]
            /\ processed' = Recorded(ok, Subject(w))
      BY <1>3 DEF Enqueue
    <2>2. worker[w].pc = "enqueue" /\ Passes(w) /\ UNCHANGED <<body, crossed>>
      BY <1>3 DEF Enqueue, history
    <2>3. Subject(w) \in Messages
      BY <2>2, SubjectFacts DEF Places
    <2>4. worker'[w].pc \in {"idle", "next"} /\ \A v \in Workers : v # w => worker'[v] = worker[v]
      BY <2>2, PassesTo
    <2>5. Agree'
      BY <2>2, <2>4 DEF Agree
    <2>6. ProcessedIsKept'
      BY <1>0, <2>1, <2>2, <2>3 DEF ProcessedIsKept, Recorded
    <2> QED BY <2>5, <2>6
  <1>4. ASSUME UNCHANGED <<body, crossed, tasks>>, processed' \subseteq processed \cup Seeded,
               \A v \in Workers : worker'[v].pc = "save" => worker'[v] = worker[v]
        PROVE  Agree' /\ ProcessedIsKept'
    BY <1>0, <1>4 DEF Agree, ProcessedIsKept, Seeded
  <1>5. CASE Boot
    BY <1>4, <1>5 DEF Boot, store, history
  <1>6. CASE Exit
    <2>1. \A v \in Workers : worker'[v].pc = "save" => worker'[v] = worker[v]
      BY <1>6 DEF Exit, Idle
    <2> QED BY <1>4, <1>6, <2>1 DEF Exit, store, history
  <1>7. CASE ConversationEvent
    <2>1. event \in Messages
      BY <1>7 DEF ConversationEvent, PubTypeOK
    <2>2. \A v \in Workers : worker'[v].pc = "save" => worker'[v] = worker[v]
      BY <1>0, <1>7, <2>1 DEF ConversationEvent, WorkerType
    <2> QED BY <1>4, <1>7, <2>2 DEF ConversationEvent, memory, store, history
  <1>8. CASE SweepBegins \/ SweepNext \/ TimeoutBegins \/ \E w \in Workers : Find(w) \/ Route(w)
    <2>1. /\ UNCHANGED <<body, crossed, tasks, processed>>
          /\ \/ UNCHANGED worker
             \/ \E w \in Workers, to \in PubPcs \ {"save"} : Moves(w, to)
      <3>1. {"idle", "next", "find", "route", "get", "enqueue"} \subseteq PubPcs \ {"save"}
            /\ Sweep \in Workers /\ Timeout \in Workers
        BY DEF PubPcs, Workers
      <3>2. UNCHANGED <<body, crossed, tasks, processed>>
        BY <1>8 DEF SweepBegins, SweepNext, TimeoutBegins, Find, Route, memory, store, history
      <3> QED BY <1>8, <3>1, <3>2
          DEF SweepBegins, SweepNext, TimeoutBegins, Find, Route, Passes
    <2>2. \A v \in Workers : worker'[v].pc = "save" => worker'[v] = worker[v]
      <3>1. CASE UNCHANGED worker
        BY <3>1
      <3>2. ASSUME NEW w \in Workers, NEW to \in PubPcs \ {"save"}, Moves(w, to)
            PROVE  \A v \in Workers : worker'[v].pc = "save" => worker'[v] = worker[v]
        BY <3>2, MovesTo
      <3> QED BY <2>1, <3>1, <3>2
    <2> QED BY <1>4, <2>1, <2>2
  <1>9. CASE UNCHANGED <<worker, body, crossed, tasks, processed>>
    BY <1>4, <1>9
  <1> QED
    BY <1>1, <1>2, <1>3, <1>5, <1>6, <1>7, <1>8, <1>9
    DEF PubNext, Step, Post, RoomState, LoseEvent, Disconnect, Reconnect, Park, Expires,
        memory, store, history, pubVars

LEMMA InitPub == PubInit => PInv
  <1> SUFFICES ASSUME PubInit PROVE PInv
    OBVIOUS
  <1>0. MaxMessages \in Nat /\ MaxFaults \in Nat /\ Messages \subseteq Nat \ {0}
        /\ Sweep \in Workers /\ Timeout \in Workers /\ Messages \subseteq Workers
    BY PubWakeAssumption DEF PubWakeAssumption, Messages, Workers
  <1>1. \A w \in Workers : worker[w] = Idle
    BY DEF PubInit
  <1>2. PubTypeOK
    <2>1. NoMessage \in Message /\ Idle \in WorkerType
      BY DEF NoMessage, Message, Idle, WorkerType, PubPcs
    <2>2. RoomType
      <3>1. msg \in [Messages -> Message]
        BY <2>1 DEF PubInit
      <3>2. connected \in BOOLEAN /\ up \in BOOLEAN
        BY DEF PubInit
      <3>3. posted \in 0..MaxMessages /\ seen \in 0..posted /\ event \in Messages \cup {None}
        BY <1>0 DEF PubInit
      <3> QED BY <3>1, <3>2, <3>3 DEF RoomType
    <2>3. MemoryType
      BY <1>0 DEF PubInit, MemoryType
    <2>4. TasksType
      BY DEF PubInit, TasksType
    <2>5. worker \in [Workers -> WorkerType]
      BY <2>1 DEF PubInit
    <2> QED BY <2>2, <2>3, <2>4, <2>5, PubTypeParts
  <1>3. Presence /\ Places /\ Known /\ Agree /\ ProcessedIsKept
    BY <1>0, <1>1 DEF PubInit, Presence, Places, Known, Agree, ProcessedIsKept, Idle
  <1>4. OneEvent
    BY <1>0, <1>1 DEF PubInit, OneEvent, Idle, None
  <1>5. Claimed
    <2>1. \A m \in Messages : tasks[m] = 0 /\ ~Swept(m)
      BY <1>0, <1>1 DEF PubInit, Swept, Idle
    <2> QED BY <2>1 DEF Claimed, Claims, Allowed
  <1> QED BY <1>2, <1>3, <1>4, <1>5 DEF PInv

\* PInv holds in every state: what has been claimed for each message, and that
\* copies of the parked task's body agree with it but for what crossed.
THEOREM PubInductive == PubSpec => []PInv
  <1>1. PInv /\ [PubNext]_pubVars => PInv'
    <2> SUFFICES ASSUME PInv, [PubNext]_pubVars PROVE PInv'
      OBVIOUS
    <2>0. /\ PubTypeOK /\ Presence /\ Places /\ Known /\ OneEvent /\ Claimed /\ Agree
          /\ ProcessedIsKept
      BY DEF PInv
    <2>1. Presence' /\ Places' /\ Known' /\ OneEvent' /\ Claimed' /\ TasksType' /\ Agree'
          /\ ProcessedIsKept'
      BY <2>0, NextPresence, NextKnown, NextEvent, NextClaimed, NextKept
    <2>2. RoomType' /\ MemoryType' /\ worker' \in [Workers -> WorkerType]
      BY <2>0, NextRoom, NextMemory, NextWorkers
    <2>3. PubTypeOK'
      BY <2>1, <2>2 DEF PubTypeOK, RoomType, MemoryType, TasksType, WorkerType, PubPcs
    <2> QED BY <2>1, <2>3 DEF PInv
  <1> QED BY InitPub, <1>1, PTL DEF PubSpec

\* A message becomes one task: by its handler, by the sweep or by a sweep of a
\* later process, unless the sweep came to it while its handler was at work.
THEOREM MessageIsOneTask == PubSpec => []OneTaskPerMessage
  <1>1. PInv => OneTaskPerMessage
    <2> SUFFICES ASSUME PInv, NEW m \in Messages \ met PROVE tasks[m] <= 1
      BY DEF OneTaskPerMessage
    <2>1. tasks[m] \in 0..2 /\ Claims(m) <= 1
      BY DEF PInv, PubTypeOK, Claimed, Allowed
    <2> QED BY <2>1 DEF Claims
  <1> QED BY <1>1, PubInductive, PTL

\* A message no sweep will look at again has reached the Agent, as a task or
\* in the body of the parked task, unless two continuations crossed.
THEOREM NothingProcessedIsLost == PubSpec => []ProcessedIsKept
  <1>1. PInv => ProcessedIsKept
    BY DEF PInv
  <1> QED BY <1>1, PubInductive, PTL

\* Type correctness; no message ever becomes more than two tasks.
THEOREM PubTypeCorrect == PubSpec => []PubTypeOK
  <1>1. PInv => PubTypeOK
    BY DEF PInv
  <1> QED BY <1>1, PubInductive, PTL
=============================================================================
