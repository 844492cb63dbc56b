-------------------------- MODULE AgentTasksProofs --------------------------
(***************************************************************************)
(* Theorems about AgentTasks, for every set of tasks and slots and every   *)
(* bound.  The ones about concurrency assume what the run `tasks` assumes: *)
(* a poll tick is over before the next one fires (~SlowPolls).             *)
(***************************************************************************)
EXTENDS AgentTasks, TLAPS

WrittenStates == {"running", "blocked_on_agent", "blocked_on_detector",
                  "done", "errored"}

\* A write in progress has a task and one of the states updates write.
WritesOK ==
    \A s \in Slots : slot[s].pc = "writing" => slot[s].to \in WrittenStates

\* At most one tick is anywhere in tickTaskPoll.
Alone ==
    \A s, u \in Slots : slot[s].pc # "idle" /\ slot[u].pc # "idle" => s = u

\* The flag is up from the claim to the return.
FlagRaised == \A s \in Slots : Claims(s) => inFlight

\* Nobody holds the id of a task that does not exist.
Exists(t) == disk[t].state # "absent"
SlotsHold == \A s \in Slots : Claims(s) => Exists(slot[s].task)
OrphanHolds ==
    /\ \A t \in orphan.todo : Exists(t)
    /\ orphan.task # NoTask => Exists(orphan.task)
HandlersHold ==
    \A k \in Handlers :
        /\ \A t \in handler[k].found : Exists(t)
        /\ handler[k].task # NoTask => Exists(handler[k].task)
Held == SlotsHold /\ OrphanHolds /\ HandlersHold

\* A run that has been claimed and has not begun.
Opening(s) ==
    \/ slot[s].pc = "claimed"
    \/ slot[s].pc = "writing" /\ slot[s].to = "running"

\* Every pending file and every claim is covered by a ticket.
Owed ==
    /\ \A t \in Tasks : Tickets[t] \in Nat
    /\ \A t \in Tasks : disk[t].state = "pending" => Tickets[t] > 0
    /\ \A s \in Slots : Opening(s) => Tickets[slot[s].task] > 0

\* The orphan sweep never re-queued a destructive task.
NoDestructiveRequeue == \A t \in Destructive : requeues[t] = 0

IInv ==
    /\ TypeOK
    /\ WritesOK
    /\ Alone
    /\ FlagRaised
    /\ Held
    /\ Owed
    /\ NoDestructiveRequeue

-----------------------------------------------------------------------------

\* The records the actions build, field by field, so that no proof below has
\* to open TaskFile.
LEMMA Files ==
    /\ Absent \in TaskFile
    /\ \A st \in TaskStates, w \in BOOLEAN : [state |-> st, wait |-> w] \in TaskFile
    /\ \A f \in TaskFile : f.state \in TaskStates /\ f.wait \in BOOLEAN
    /\ {"absent", "pending"} \cup WrittenStates \subseteq TaskStates
  BY DEF Absent, TaskFile, TaskStates, WrittenStates

\* The progress records of whoever does nothing are well-formed.
LEMMA Idles ==
    /\ IdleSlot \in SlotType
    /\ IdleOrphan \in OrphanType
    /\ IdleHandler \in HandlerType
  BY Files DEF IdleSlot, IdleOrphan, IdleHandler, SlotType, OrphanType, HandlerType, SlotPcs

\* A counter per task, counted up.
LEMMA Bump ==
    ASSUME NEW f \in [Tasks -> Nat], NEW t \in Tasks
    PROVE  [f EXCEPT ![t] = f[t] + 1] \in [Tasks -> Nat]
  OBVIOUS

\* The initial files, processes and handlers are well-formed.
LEMMA InitTypeOK == Init => TypeOK /\ WritesOK
<1> SUFFICES ASSUME Init PROVE TypeOK /\ WritesOK
    OBVIOUS
<1>1. slot \in [Slots -> SlotType] /\ orphan \in OrphanType /\ handler \in [Handlers -> HandlerType]
      BY Idles DEF Init
<1>2. \A s \in Slots : slot[s].pc = "idle"
      BY DEF Init, IdleSlot
<1>3. disk \in [Tasks -> TaskFile]
      BY Files DEF Init
<1> QED
    BY <1>1, <1>2, <1>3 DEF Init, TypeOK, WritesOK, Claims, MachineStates

\* A step that replaces one slot by a well-formed one.
LEMMA SlotReplaced ==
    ASSUME slot \in [Slots -> SlotType], NEW s \in Slots, NEW r \in SlotType,
           slot' = [slot EXCEPT ![s] = r],
           \A u \in Slots : Claims(u) => slot[u].task \in Tasks,
           r.pc \notin {"idle", "polling"} => r.task \in Tasks,
           WritesOK, r.pc = "writing" => r.to \in WrittenStates
    PROVE  /\ slot' \in [Slots -> SlotType]
           /\ \A u \in Slots : Claims(u)' => slot'[u].task \in Tasks
           /\ WritesOK'
  BY DEF Claims, WritesOK

\* Every action keeps every variable in its type.
LEMMA NextTypeOK == TypeOK /\ WritesOK /\ [Next]_vars => TypeOK' /\ WritesOK'
<1> SUFFICES ASSUME TypeOK, WritesOK, [Next]_vars
             PROVE  TypeOK' /\ WritesOK'
    OBVIOUS
<1> USE TasksAssumption, Files, Idles
<1> DEFINE Slotted(s, r) ==
      /\ r \in SlotType
      /\ r.pc \notin {"idle", "polling"} => r.task \in Tasks
      /\ r.pc = "writing" => r.to \in WrittenStates
      /\ slot' = [slot EXCEPT ![s] = r]
<1> DEFINE SlotsOK == /\ slot' \in [Slots -> SlotType]
                      /\ \A u \in Slots : Claims(u)' => slot'[u].task \in Tasks
                      /\ WritesOK'
<1>a. ASSUME NEW s \in Slots, NEW r, Slotted(s, r) PROVE SlotsOK
      BY <1>a, SlotReplaced DEF TypeOK
<1>b. ASSUME UNCHANGED slot PROVE SlotsOK
      BY <1>b DEF TypeOK, WritesOK, Claims
<1>c. ASSUME NEW to \in MachineStates, TryTransition(to) PROVE machine' \in MachineStates
      BY <1>c DEF TryTransition, TypeOK
<1> HIDE DEF SlotsOK
<1>d. {"running", "stopped"} \cup BlockedStates \subseteq MachineStates
      BY DEF BlockedStates, MachineStates
<1>1. ASSUME NEW t \in Tasks, Submit(t) PROVE TypeOK' /\ WritesOK'
      BY <1>1, <1>b DEF Submit, TypeOK, SlotsOK, Claims
<1>2. ASSUME NEW t \in Tasks, Expire(t) PROVE TypeOK' /\ WritesOK'
      BY <1>2, <1>b DEF Expire, TypeOK, SlotsOK, Claims, history
<1>3. ASSUME NEW s \in Slots, PollBegin(s) PROVE TypeOK' /\ WritesOK'
  <2>1. Slotted(s, [slot[s] EXCEPT !.pc = "polling"])
        BY <1>3 DEF PollBegin, MayPoll, SlotType, SlotPcs, TypeOK
  <2> QED
      BY <1>3, <1>a, <2>1 DEF PollBegin, MayPoll, TypeOK, SlotsOK, Claims, history
<1>4. ASSUME NEW s \in Slots, PollEmpty(s) PROVE TypeOK' /\ WritesOK'
  <2>1. Slotted(s, IdleSlot)
        BY <1>4 DEF PollEmpty, IdleSlot
  <2> QED
      BY <1>4, <1>a, <2>1 DEF PollEmpty, TypeOK, SlotsOK, Claims, history
<1>5. ASSUME NEW s \in Slots, PollClaim(s) PROVE TypeOK' /\ WritesOK'
  <2>1. PICK t \in Tasks : slot' = [slot EXCEPT ![s] = [IdleSlot EXCEPT !.pc = "claimed",
                                                                       !.task = t]]
        BY <1>5 DEF PollClaim
  <2>2. Slotted(s, [IdleSlot EXCEPT !.pc = "claimed", !.task = t])
        BY <2>1 DEF IdleSlot, SlotType, SlotPcs
  <2>3. machine' \in MachineStates
        BY <1>5, <1>c, <1>d DEF PollClaim, TypeOK
  <2> QED
      BY <1>5, <1>a, <2>2, <2>3 DEF PollClaim, TypeOK, SlotsOK, Claims, history
<1>6. ASSUME NEW s \in Slots, SlotGet(s) PROVE TypeOK' /\ WritesOK'
  <2>1. PICK to \in TaskStates :
          /\ MayWrite(slot[s].pc, to)
          /\ slot' = [slot EXCEPT ![s].pc = "writing", ![s].to = to,
                                  ![s].base = disk[slot[s].task]]
          /\ blocks' = IF to \in BlockedStates THEN blocks + 1 ELSE blocks
        BY <1>6 DEF SlotGet
  <2>2. to \in WrittenStates /\ slot[s].task \in Tasks
        BY <2>1 DEF MayWrite, WrittenStates, TypeOK, Claims
  <2>3. Slotted(s, [slot[s] EXCEPT !.pc = "writing", !.to = to, !.base = disk[slot[s].task]])
        BY <2>1, <2>2 DEF TypeOK, SlotType, SlotPcs
  <2>4. blocks' \in Nat
        BY <2>1 DEF TypeOK
  <2> QED
      BY <1>6, <1>a, <2>3, <2>4 DEF SlotGet, TypeOK, SlotsOK, Claims, history
<1>7. ASSUME NEW s \in Slots, SlotSave(s) PROVE TypeOK' /\ WritesOK'
  <2> DEFINE t == slot[s].task
             to == slot[s].to
  <2>1. t \in Tasks /\ to \in WrittenStates /\ slot[s].base \in TaskFile
        BY <1>7 DEF SlotSave, TypeOK, Claims, WritesOK, SlotType
  <2>2. Slotted(s, [slot[s] EXCEPT !.pc = AfterWrite(to), !.to = "absent", !.base = Absent])
    <3>1. AfterWrite(to) \in SlotPcs \ {"writing"}
          BY <2>1 DEF AfterWrite, SlotPcs, WrittenStates
    <3> QED
        BY <1>7, <2>1, <3>1 DEF SlotSave, TypeOK, SlotType
  <2>3. disk' \in [Tasks -> TaskFile]
    <3>1. [state |-> to, wait |-> slot[s].base.wait \/ to = "blocked_on_agent"] \in TaskFile
          BY <2>1
    <3> QED
        BY <1>7, <3>1 DEF SlotSave, TypeOK
  <2>4. expired' \subseteq Tasks /\ starts' \in [Tasks -> Nat]
        BY <1>7, <2>1 DEF SlotSave, TypeOK
  <2> QED
      BY <1>7, <1>a, <2>2, <2>3, <2>4 DEF SlotSave, TypeOK, SlotsOK, Claims
<1>8. ASSUME NEW s \in Slots, Return(s) PROVE TypeOK' /\ WritesOK'
  <2>1. Slotted(s, IdleSlot)
        BY <1>8 DEF Return, Release, IdleSlot
  <2>2. machine' \in MachineStates
        BY <1>8, <1>c, <1>d DEF Return, Release, TypeOK, BlockedStates
  <2> QED
      BY <1>8, <1>a, <2>1, <2>2 DEF Return, Release, TypeOK, SlotsOK, Claims, history
<1>9. ASSUME NEW s \in Slots, ReturnBlockedOnUser(s) PROVE TypeOK' /\ WritesOK'
  <2>1. Slotted(s, IdleSlot)
        BY <1>9 DEF ReturnBlockedOnUser, Release, IdleSlot
  <2>2. machine' \in MachineStates
        BY <1>9, <1>c, <1>d DEF ReturnBlockedOnUser, BlockedStates
  <2>3. slot[s].task \in Tasks
        BY <1>9 DEF ReturnBlockedOnUser, TypeOK, Claims
  <2> QED
      BY <1>9, <1>a, <2>1, <2>2, <2>3 DEF ReturnBlockedOnUser, Release, TypeOK, SlotsOK, Claims
<1>10. ASSUME NEW k \in Handlers, ReplyFind(k) PROVE TypeOK' /\ WritesOK'
  <2>1. handler' \in [Handlers -> HandlerType]
        BY <1>10 DEF ReplyFind, TypeOK, HandlerType, InState
  <2> QED
      BY <1>10, <1>b, <2>1 DEF ReplyFind, TypeOK, SlotsOK, Claims, history
<1>11. ASSUME NEW k \in Handlers, HandlerGet(k) PROVE TypeOK' /\ WritesOK'
  <2>1. handler' \in [Handlers -> HandlerType]
        BY <1>11 DEF HandlerGet, TypeOK, HandlerType
  <2> QED
      BY <1>11, <1>b, <2>1 DEF HandlerGet, TypeOK, SlotsOK, Claims, history
<1>12. ASSUME NEW k \in Handlers, HandlerSave(k) PROVE TypeOK' /\ WritesOK'
  <2> DEFINE t == handler[k].task
  <2>1. t \in Tasks /\ handler[k].base \in TaskFile
        BY <1>12 DEF HandlerSave, TypeOK, HandlerType
  <2>2. handler' \in [Handlers -> HandlerType]
        BY <1>12 DEF HandlerSave, TypeOK, HandlerType, NoTask
  <2>3. [state |-> "pending", wait |-> k = "resume" /\ handler[k].base.wait] \in TaskFile
        BY <2>1
  <2>4. disk' \in [Tasks -> TaskFile] /\ resumes' \in [Tasks -> Nat]
        BY <1>12, <2>1, <2>3 DEF HandlerSave, TypeOK
  <2> QED
      BY <1>12, <1>b, <2>2, <2>4 DEF HandlerSave, TypeOK, SlotsOK, Claims
<1>13. ASSUME SweepFind PROVE TypeOK' /\ WritesOK'
  <2>1. handler' \in [Handlers -> HandlerType]
        BY <1>13 DEF SweepFind, Due, TypeOK, HandlerType, InState
  <2> QED
      BY <1>13, <1>b, <2>1 DEF SweepFind, Due, TypeOK, SlotsOK, Claims, history
<1>14. ASSUME ResumeFind PROVE TypeOK' /\ WritesOK'
  <2>1. handler' \in [Handlers -> HandlerType]
        BY <1>14 DEF ResumeFind, TypeOK, HandlerType, InState
  <2> QED
      BY <1>14, <1>b, <2>1 DEF ResumeFind, TypeOK, SlotsOK, Claims, history
<1>15. ASSUME AgentStart PROVE TypeOK' /\ WritesOK'
  <2>1. orphan' \in OrphanType
        BY <1>15 DEF AgentStart, Leftovers, OrphanType, IdleOrphan, InState
  <2> QED
      BY <1>15, <1>b, <1>c, <1>d, <2>1 DEF AgentStart, Leftovers, TypeOK, SlotsOK, Claims, history
<1>16. ASSUME OrphanGet PROVE TypeOK' /\ WritesOK'
  <2>1. orphan' \in OrphanType
        BY <1>16 DEF OrphanGet, OrphanType, TypeOK
  <2> QED
      BY <1>16, <1>b, <2>1 DEF OrphanGet, TypeOK, SlotsOK, Claims, history
<1>17. ASSUME OrphanSave PROVE TypeOK' /\ WritesOK'
  <2> DEFINE t == orphan.task
  <2>1. t \in Tasks /\ orphan.base \in TaskFile
        BY <1>17 DEF OrphanSave, TypeOK, OrphanType
  <2>2. orphan' \in OrphanType
        BY <1>17 DEF OrphanSave, TypeOK, OrphanType, NoTask
  <2>3. PICK requeue \in BOOLEAN :
          /\ disk' = [disk EXCEPT ![t] =
                        [state |-> IF requeue THEN "pending" ELSE "errored",
                         wait |-> orphan.base.wait]]
          /\ requeues' = IF requeue THEN [requeues EXCEPT ![t] = @ + 1] ELSE requeues
        BY <1>17 DEF OrphanSave
  <2>4. [state |-> IF requeue THEN "pending" ELSE "errored",
         wait |-> orphan.base.wait] \in TaskFile
        BY <2>1 DEF WrittenStates
  <2>5. disk' \in [Tasks -> TaskFile]
        BY <2>1, <2>3, <2>4 DEF TypeOK
  <2>6. requeues' \in [Tasks -> Nat]
    <3>1. [requeues EXCEPT ![t] = requeues[t] + 1] \in [Tasks -> Nat]
          BY <2>1, Bump DEF TypeOK
    <3>2. requeues \in [Tasks -> Nat]
          BY DEF TypeOK
    <3> QED
        BY <2>3, <3>1, <3>2
  <2> QED
      BY <1>17, <1>b, <2>2, <2>5, <2>6 DEF OrphanSave, TypeOK, SlotsOK, Claims
<1>18. ASSUME BootDone PROVE TypeOK' /\ WritesOK'
      BY <1>18, <1>b DEF BootDone, TypeOK, SlotsOK, Claims, history
<1>19. ASSUME AgentExit PROVE TypeOK' /\ WritesOK'
  <2>1. handler' \in [Handlers -> HandlerType]
        BY <1>19 DEF AgentExit, TypeOK
  <2>2. SlotsOK
    <3>1. slot' = [s \in Slots |-> IdleSlot]
          BY <1>19 DEF AgentExit
    <3> QED
        BY <3>1 DEF SlotsOK, WritesOK, Claims, IdleSlot
  <2>3. exits' \in Nat
        BY <1>19 DEF AgentExit, TypeOK
  <2> QED
      BY <1>19, <1>d, <2>1, <2>2, <2>3 DEF AgentExit, TypeOK, SlotsOK, Claims, history
<1>20. ASSUME SupervisorExit PROVE TypeOK' /\ WritesOK'
  <2>1. handler' \in [Handlers -> HandlerType]
        BY <1>20 DEF SupervisorExit, TypeOK
  <2> QED
      BY <1>20, <1>b, <2>1 DEF SupervisorExit, TypeOK, SlotsOK, Claims, history
<1>21. CASE UNCHANGED vars
      BY <1>21, <1>b DEF vars, TypeOK, SlotsOK, Claims
<1> QED
    BY <1>1, <1>2, <1>3, <1>4, <1>5, <1>6, <1>7, <1>8, <1>9, <1>10, <1>11, <1>12,
       <1>13, <1>14, <1>15, <1>16, <1>17, <1>18, <1>19, <1>20, <1>21
    DEF Next, SlotStep, BootStep, HandlerStep

\* The state of the files, the processes and the history variables is always
\* of its declared type, however many tasks, polls and writers there are.
THEOREM TypeCorrect == Spec => []TypeOK
<1>1. Spec => [](TypeOK /\ WritesOK)
      BY InitTypeOK, NextTypeOK, PTL DEF Spec
<1> QED
    BY <1>1, PTL

-----------------------------------------------------------------------------
\* One tick at a time: the guard on taskInFlight and the claim that raises it
\* are two steps, and they exclude each other because no tick is polling when
\* the next one passes the guard.
LEMMA NextAlone ==
    ASSUME ~SlowPolls, TypeOK, Alone, FlagRaised, [Next]_vars
    PROVE  Alone' /\ FlagRaised'
<1> USE DEF Alone, FlagRaised, Claims
<1>t. slot \in [Slots -> SlotType]
      BY DEF TypeOK
<1>1. ASSUME NEW s \in Slots, PollBegin(s) PROVE Alone' /\ FlagRaised'
  <2>1. \A u \in Slots : slot[u].pc = "idle"
        BY <1>1 DEF PollBegin, MayPoll
  <2>2. \A u \in Slots : u # s => slot'[u] = slot[u]
        BY <1>1, <1>t DEF PollBegin, MayPoll
  <2>3. slot'[s].pc = "polling"
        BY <1>1, <1>t DEF PollBegin, MayPoll, SlotType
  <2> QED
      BY <2>1, <2>2, <2>3
<1>2. ASSUME NEW s \in Slots, NEW r, slot' = [slot EXCEPT ![s] = r],
             slot[s].pc # "idle"
      PROVE  /\ Alone'
             /\ \A u \in Slots : u # s => slot'[u].pc = "idle"
             /\ slot'[s] = r
      BY <1>2, <1>t
<1>3. ASSUME NEW s \in Slots, PollEmpty(s) PROVE Alone' /\ FlagRaised'
      BY <1>3, <1>2 DEF PollEmpty, IdleSlot
<1>4. ASSUME NEW s \in Slots, PollClaim(s) PROVE Alone' /\ FlagRaised'
  <2>1. PICK t \in Tasks : slot' = [slot EXCEPT ![s] = [IdleSlot EXCEPT !.pc = "claimed",
                                                                       !.task = t]]
        BY <1>4 DEF PollClaim
  <2> QED
      BY <1>4, <2>1, <1>2 DEF PollClaim
<1>5. ASSUME NEW s \in Slots, SlotGet(s) PROVE Alone' /\ FlagRaised'
  <2>1. PICK to \in TaskStates :
          /\ MayWrite(slot[s].pc, to)
          /\ slot' = [slot EXCEPT ![s] = [slot[s] EXCEPT !.pc = "writing", !.to = to,
                                                        !.base = disk[slot[s].task]]]
        BY <1>5 DEF SlotGet
  <2>2. slot[s].pc \notin {"idle", "polling"}
        BY <2>1 DEF MayWrite
  <2> QED
      BY <1>5, <2>1, <2>2, <1>2 DEF SlotGet
<1>6. ASSUME NEW s \in Slots, SlotSave(s) PROVE Alone' /\ FlagRaised'
  <2>1. /\ slot[s].pc = "writing"
        /\ slot' = [slot EXCEPT ![s] = [slot[s] EXCEPT !.pc = AfterWrite(slot[s].to),
                                                      !.to = "absent", !.base = Absent]]
        /\ UNCHANGED inFlight
        BY <1>6 DEF SlotSave
  <2> QED
      BY <2>1, <1>2
<1>7. ASSUME NEW s \in Slots, Return(s) \/ ReturnBlockedOnUser(s) PROVE Alone' /\ FlagRaised'
  <2>1. slot[s].pc # "idle" /\ slot' = [slot EXCEPT ![s] = IdleSlot]
        BY <1>7 DEF Return, Release, ReturnBlockedOnUser
  <2>2. slot'[s] = IdleSlot /\ \A u \in Slots : u # s => slot'[u].pc = "idle"
        BY <2>1, <1>2
  <2>3. \A u \in Slots : slot'[u].pc = "idle"
        BY <2>2 DEF IdleSlot
  <2> QED
      BY <2>3
<1>8. CASE AgentExit
  <2>1. slot' = [s \in Slots |-> IdleSlot]
        BY <1>8 DEF AgentExit
  <2> QED
      BY <2>1 DEF IdleSlot
<1>9. CASE UNCHANGED <<slot, inFlight>>
      BY <1>9
<1>10. ASSUME Next
       PROVE  \/ \E s \in Slots : PollBegin(s) \/ SlotStep(s)
              \/ AgentExit
              \/ UNCHANGED <<slot, inFlight>>
       BY <1>10 DEF Next, Submit, Expire, ReplyFind, SweepFind, ResumeFind, HandlerStep,
          HandlerGet, HandlerSave, BootStep, AgentStart, OrphanGet, OrphanSave, BootDone,
          SupervisorExit
<1> QED
    BY <1>1, <1>3, <1>4, <1>5, <1>6, <1>7, <1>8, <1>9, <1>10 DEF SlotStep, vars

\* Only one task runs at a time per Agent, for any number of tasks, resuming
\* writers, restarts and bounds, provided a poll tick is over before the next
\* one fires.
THEOREM OneTaskAtATime == ~SlowPolls /\ Spec => []SingleFlight
<1>1. Init => Alone /\ FlagRaised
      BY DEF Init, Alone, FlagRaised, Claims, IdleSlot
<1>2. Alone => SingleFlight
      BY DEF Alone, SingleFlight, Claims
<1>3. CASE SlowPolls
      BY <1>3
<1>4. CASE ~SlowPolls
  <2>1. TypeOK /\ Alone /\ FlagRaised /\ [Next]_vars => Alone' /\ FlagRaised'
        BY <1>4, NextAlone
  <2> QED
      BY <2>1, <1>1, <1>2, TypeCorrect, PTL DEF Spec
<1> QED
    BY <1>3, <1>4

-----------------------------------------------------------------------------
\* A file, once created, exists for ever.
LEMMA FilesStay ==
    ASSUME TypeOK, WritesOK, [Next]_vars
    PROVE  \A t \in Tasks : Exists(t) => Exists(t)'
<1> USE DEF Exists
<1>t. /\ disk \in [Tasks -> TaskFile]
      /\ "absent" \notin WrittenStates
      BY DEF TypeOK, WrittenStates
<1>1. ASSUME NEW t, NEW st, NEW w, st # "absent",
             disk' = [disk EXCEPT ![t] = [state |-> st, wait |-> w]]
      PROVE  \A u \in Tasks : Exists(u) => Exists(u)'
      BY <1>1, <1>t
<1>2. ASSUME NEW t \in Tasks, Submit(t) PROVE \A u \in Tasks : Exists(u) => Exists(u)'
      BY <1>2, <1>1 DEF Submit
<1>3. ASSUME NEW s \in Slots, SlotSave(s) PROVE \A u \in Tasks : Exists(u) => Exists(u)'
      BY <1>3, <1>1, <1>t DEF SlotSave, WritesOK
<1>4. ASSUME NEW k \in Handlers, HandlerSave(k) PROVE \A u \in Tasks : Exists(u) => Exists(u)'
      BY <1>4, <1>1 DEF HandlerSave
<1>5. ASSUME OrphanSave PROVE \A u \in Tasks : Exists(u) => Exists(u)'
      BY <1>5, <1>1 DEF OrphanSave
<1>6. CASE UNCHANGED disk
      BY <1>6
<1> QED
    BY <1>2, <1>3, <1>4, <1>5, <1>6
    DEF Next, vars, history, Expire, PollBegin, SlotStep, PollEmpty, PollClaim, SlotGet, Return,
        ReturnBlockedOnUser, ReplyFind, SweepFind, ResumeFind, HandlerStep, HandlerGet,
        BootStep, AgentStart, OrphanGet, BootDone, AgentExit, SupervisorExit

\* Only ids read from existing files are held by a slot ...
LEMMA NextSlotsHold ==
    ASSUME TypeOK, WritesOK, SlotsHold, [Next]_vars
    PROVE  SlotsHold'
<1> USE DEF SlotsHold, Claims
<1>t. /\ slot \in [Slots -> SlotType]
      /\ \A s \in Slots : Claims(s) => slot[s].task \in Tasks
      /\ \A t \in Tasks : Exists(t) => Exists(t)'
      BY FilesStay DEF TypeOK
<1>1. ASSUME NEW s \in Slots, NEW r, slot' = [slot EXCEPT ![s] = r],
             r.pc \notin {"idle", "polling"} => Exists(r.task)'
      PROVE  SlotsHold'
      BY <1>1, <1>t
<1>2. ASSUME NEW s \in Slots, PollBegin(s) PROVE SlotsHold'
  <2>1. slot' = [slot EXCEPT ![s] = [slot[s] EXCEPT !.pc = "polling"]]
        BY <1>2 DEF PollBegin, MayPoll
  <2>2. [slot[s] EXCEPT !.pc = "polling"].pc = "polling"
        BY <1>t DEF SlotType
  <2> QED
      BY <2>1, <2>2, <1>1
<1>3. ASSUME NEW s \in Slots, PollClaim(s) PROVE SlotsHold'
  <2>1. PICK t \in Tasks : /\ Picked(t)
                           /\ slot' = [slot EXCEPT ![s] = [IdleSlot EXCEPT !.pc = "claimed",
                                                                          !.task = t]]
        BY <1>3 DEF PollClaim
  <2>2. Exists(t)
        BY <2>1 DEF Picked, InState, Exists
  <2>3. [IdleSlot EXCEPT !.pc = "claimed", !.task = t].task = t
        BY DEF IdleSlot
  <2> QED
      BY <2>1, <2>2, <2>3, <1>1, <1>t
<1>4. ASSUME NEW s \in Slots, SlotGet(s) PROVE SlotsHold'
  <2>1. PICK to \in TaskStates :
          /\ MayWrite(slot[s].pc, to)
          /\ slot' = [slot EXCEPT ![s] = [slot[s] EXCEPT !.pc = "writing", !.to = to,
                                                        !.base = disk[slot[s].task]]]
        BY <1>4 DEF SlotGet
  <2>2. Exists(slot[s].task)'
        BY <2>1, <1>t DEF MayWrite
  <2>3. [slot[s] EXCEPT !.pc = "writing", !.to = to,
                        !.base = disk[slot[s].task]].task = slot[s].task
        BY <1>t DEF SlotType
  <2> QED
      BY <2>1, <2>2, <2>3, <1>1
<1>5. ASSUME NEW s \in Slots, SlotSave(s) PROVE SlotsHold'
  <2>1. /\ slot[s].pc = "writing"
        /\ slot' = [slot EXCEPT ![s] = [slot[s] EXCEPT !.pc = AfterWrite(slot[s].to),
                                                      !.to = "absent", !.base = Absent]]
        BY <1>5 DEF SlotSave
  <2>2. Exists(slot[s].task)'
        BY <2>1, <1>t
  <2>3. [slot[s] EXCEPT !.pc = AfterWrite(slot[s].to), !.to = "absent",
                        !.base = Absent].task = slot[s].task
        BY <1>t DEF SlotType
  <2> QED
      BY <2>1, <2>2, <2>3, <1>1
<1>6. ASSUME NEW s \in Slots, PollEmpty(s) \/ Return(s) \/ ReturnBlockedOnUser(s)
      PROVE  SlotsHold'
  <2>1. slot' = [slot EXCEPT ![s] = IdleSlot]
        BY <1>6 DEF PollEmpty, Return, ReturnBlockedOnUser, Release
  <2>2. IdleSlot.pc = "idle"
        BY DEF IdleSlot
  <2> QED
      BY <2>1, <2>2, <1>1
<1>7. CASE AgentExit
      BY <1>7 DEF AgentExit, IdleSlot
<1>8. CASE UNCHANGED slot
      BY <1>8, <1>t
<1> QED
    BY <1>2, <1>3, <1>4, <1>5, <1>6, <1>7, <1>8
    DEF Next, vars, history, Submit, Expire, SlotStep, ReplyFind, SweepFind, ResumeFind,
        HandlerStep, HandlerGet, HandlerSave, BootStep, AgentStart, OrphanGet, OrphanSave,
        BootDone, SupervisorExit

\* ... the orphan sweep ...
LEMMA NextOrphanHolds ==
    ASSUME TypeOK, WritesOK, OrphanHolds, [Next]_vars
    PROVE  OrphanHolds'
<1> USE DEF OrphanHolds
<1>t. /\ orphan \in OrphanType
      /\ \A t \in Tasks : Exists(t) => Exists(t)'
      BY FilesStay DEF TypeOK
<1>i. IdleOrphan.todo = {} /\ IdleOrphan.task = NoTask
      BY DEF IdleOrphan
<1>1. CASE AgentStart
  <2>1. /\ orphan' = [IdleOrphan EXCEPT !.todo = Leftovers]
        /\ UNCHANGED disk
        BY <1>1 DEF AgentStart, Leftovers
  <2>2. orphan'.todo = Leftovers /\ orphan'.task = NoTask
        BY <2>1, <1>i DEF IdleOrphan
  <2> QED
      BY <2>1, <2>2 DEF Leftovers, InState, Exists
<1>2. CASE OrphanGet
      BY <1>2, <1>t DEF OrphanGet, OrphanType
<1>3. CASE OrphanSave
      BY <1>3, <1>t DEF OrphanSave, OrphanType
<1>4. CASE AgentExit
      BY <1>4, <1>i DEF AgentExit
<1>5. CASE UNCHANGED orphan
      BY <1>5, <1>t DEF OrphanType
<1> QED
    BY <1>1, <1>2, <1>3, <1>4, <1>5
    DEF Next, vars, history, Submit, Expire, PollBegin, SlotStep, PollEmpty, PollClaim, SlotGet,
        SlotSave, Return, ReturnBlockedOnUser, ReplyFind, SweepFind, ResumeFind, HandlerStep,
        HandlerGet, HandlerSave, BootStep, BootDone, SupervisorExit

\* ... or a resuming handler.
LEMMA NextHandlersHold ==
    ASSUME TypeOK, WritesOK, HandlersHold, [Next]_vars
    PROVE  HandlersHold'
<1> DEFINE Fine(h) == /\ \A t \in h.found : disk'[t].state # "absent"
                      /\ h.task # NoTask => disk'[h.task].state # "absent"
<1>t. /\ handler \in [Handlers -> HandlerType]
      /\ \A t \in Tasks : Exists(t) => disk'[t].state # "absent"
      BY FilesStay DEF TypeOK, Exists
<1>i. Fine(IdleHandler)
      BY DEF IdleHandler
<1>h. \A k \in Handlers : Fine(handler[k])
      BY <1>t DEF HandlersHold, HandlerType, Exists
<1>1. ASSUME NEW k \in Handlers, NEW h, Fine(h), handler' = [handler EXCEPT ![k] = h]
      PROVE  HandlersHold'
      BY <1>1, <1>t, <1>h DEF HandlersHold, Exists
<1>2. ASSUME NEW k \in Handlers, NEW found \in SUBSET Tasks, \A t \in found : Exists(t),
             handler[k] = IdleHandler,
             handler' = [handler EXCEPT ![k].found = found]
      PROVE  HandlersHold'
  <2>1. handler' = [handler EXCEPT ![k] = [IdleHandler EXCEPT !.found = found]]
        BY <1>2, <1>t
  <2>2. Fine([IdleHandler EXCEPT !.found = found])
        BY <1>2, <1>t DEF IdleHandler
  <2> QED
      BY <2>1, <2>2, <1>1
<1>3. ASSUME NEW k \in Handlers, ReplyFind(k) PROVE HandlersHold'
  <2>1. PICK t \in InState("blocked_on_agent") \ expired :
               handler' = [handler EXCEPT ![k].found = {t}]
        BY <1>3 DEF ReplyFind
  <2>2. {t} \in SUBSET Tasks /\ \A u \in {t} : Exists(u)
        BY <2>1 DEF InState, Exists
  <2>3. handler[k] = IdleHandler
        BY <1>3 DEF ReplyFind
  <2> QED
      BY <2>1, <2>2, <2>3, <1>2
<1>4. CASE SweepFind
  <2>1. Due \in SUBSET Tasks /\ \A t \in Due : Exists(t)
        BY DEF Due, InState, Exists
  <2>2. "sweep" \in Handlers /\ handler["sweep"] = IdleHandler
        /\ handler' = [handler EXCEPT !["sweep"].found = Due]
        BY <1>4 DEF SweepFind
  <2> QED
      BY <2>1, <2>2, <1>2
<1>5. CASE ResumeFind
  <2>1. PICK t \in InState("blocked_on_detector") :
               handler' = [handler EXCEPT !["resume"].found = {t}]
        BY <1>5 DEF ResumeFind
  <2>2. {t} \in SUBSET Tasks /\ \A u \in {t} : Exists(u)
        BY <2>1 DEF InState, Exists
  <2>3. "resume" \in Handlers /\ handler["resume"] = IdleHandler
        BY <1>5 DEF ResumeFind
  <2> QED
      BY <2>1, <2>2, <2>3, <1>2
<1>6. ASSUME NEW k \in Handlers, HandlerGet(k) PROVE HandlersHold'
  <2>1. PICK t \in handler[k].found :
               handler' = [handler EXCEPT ![k] =
                             [found |-> handler[k].found \ {t}, task |-> t, base |-> disk[t]]]
        BY <1>6, <1>t DEF HandlerGet
  <2>2. Fine([found |-> handler[k].found \ {t}, task |-> t, base |-> disk[t]])
        BY <2>1, <1>h
  <2> QED
      BY <2>1, <2>2, <1>1
<1>7. ASSUME NEW k \in Handlers, HandlerSave(k) PROVE HandlersHold'
  <2>1. handler' = [handler EXCEPT ![k] = [handler[k] EXCEPT !.task = NoTask, !.base = Absent]]
        BY <1>7 DEF HandlerSave
  <2>2. Fine([handler[k] EXCEPT !.task = NoTask, !.base = Absent])
        BY <1>h, <1>t DEF HandlerType
  <2> QED
      BY <2>1, <2>2, <1>1
<1>8. CASE AgentExit \/ SupervisorExit
  <2>1. \A k \in Handlers : handler'[k] \in {IdleHandler, handler[k]}
        BY <1>8 DEF AgentExit, SupervisorExit
  <2>2. \A k \in Handlers : Fine(handler'[k])
        BY <2>1, <1>i, <1>h
  <2> QED
      BY <2>2 DEF HandlersHold, Exists
<1>9. CASE UNCHANGED handler
  <2>1. \A k \in Handlers : Fine(handler'[k])
        BY <1>9, <1>h
  <2> QED
      BY <2>1 DEF HandlersHold, Exists
<1> QED
    BY <1>3, <1>4, <1>5, <1>6, <1>7, <1>8, <1>9
    DEF Next, vars, history, Submit, Expire, PollBegin, SlotStep, PollEmpty, PollClaim, SlotGet,
        SlotSave, Return, ReturnBlockedOnUser, HandlerStep, BootStep, AgentStart, OrphanGet,
        OrphanSave, BootDone

-----------------------------------------------------------------------------
\* How each step changes the tickets: a submission, a resume or a re-queue
\* adds one, a start takes one away, and nothing else touches them.
Granted(t) ==
    /\ Tickets' = [Tickets EXCEPT ![t] = Tickets[t] + 1]
    /\ \A u \in Tasks \ {t} : disk'[u] = disk[u]
    /\ UNCHANGED slot

Started(s) ==
    /\ slot[s].pc = "writing"
    /\ slot[s].to = "running"
    /\ slot' = [slot EXCEPT ![s] = [slot[s] EXCEPT !.pc = "running", !.to = "absent",
                                                   !.base = Absent]]
    /\ Tickets' = [Tickets EXCEPT ![slot[s].task] = Tickets[slot[s].task] - 1]
    /\ \A u \in Tasks \ {slot[s].task} : disk'[u] = disk[u]
    /\ disk'[slot[s].task].state = "running"

NothingQueued ==
    /\ Tickets' = Tickets
    /\ \A t \in Tasks : disk'[t] = disk[t] \/ disk'[t].state # "pending"

\* Two functions that differ by d in one place.
LEMMA Adjusted ==
    ASSUME NEW f \in [Tasks -> Int], NEW g \in [Tasks -> Int], NEW t \in Tasks, NEW d \in Int,
           g[t] = f[t] + d, \A u \in Tasks \ {t} : g[u] = f[u]
    PROVE  g = [f EXCEPT ![t] = f[t] + d]
  OBVIOUS

\* Tickets are counted in integers (that they are naturals is Owed).
LEMMA TicketsInt == TypeOK => Tickets \in [Tasks -> Int]
<1> SUFFICES ASSUME TypeOK, NEW t \in Tasks
             PROVE  (IF disk[t].state = "absent" THEN 0 ELSE 1)
                      + resumes[t] + requeues[t] - starts[t] \in Int
    BY DEF Tickets
<1>1. resumes[t] \in Int /\ requeues[t] \in Int /\ starts[t] \in Int
      BY DEF TypeOK
<1> QED
    BY <1>1

\* A submission adds a ticket for its task.
LEMMA SubmitGrants ==
    ASSUME TypeOK, TypeOK', NEW t \in Tasks, Submit(t)
    PROVE  Granted(t)
<1>t. disk \in [Tasks -> TaskFile] /\ starts \in [Tasks -> Nat]
      /\ resumes \in [Tasks -> Nat] /\ requeues \in [Tasks -> Nat]
      BY DEF TypeOK
<1>z. Tickets \in [Tasks -> Int] /\ (Tickets \in [Tasks -> Int])'
      BY TicketsInt, PTL
<1>1. /\ disk[t].state = "absent"
      /\ disk' = [disk EXCEPT ![t] = [state |-> "pending", wait |-> FALSE]]
      /\ UNCHANGED <<starts, resumes, requeues, slot>>
      BY DEF Submit, InState
<1>p. Tickets'[t] = Tickets[t] + 1
      BY <1>1, <1>t DEF Tickets
<1>q. \A u \in Tasks \ {t} : Tickets'[u] = Tickets[u]
      BY <1>1, <1>t DEF Tickets
<1>u. \A u \in Tasks \ {t} : disk'[u] = disk[u]
      BY <1>1, <1>t
<1> QED
    BY <1>1, <1>p, <1>q, <1>u, <1>z, Adjusted DEF Granted

\* A resuming write adds a ticket, whatever state it overwrites.
LEMMA HandlerGrants ==
    ASSUME TypeOK, TypeOK', Held, NEW k \in Handlers, HandlerSave(k)
    PROVE  Granted(handler[k].task)
<1> DEFINE t == handler[k].task
<1>t. disk \in [Tasks -> TaskFile] /\ starts \in [Tasks -> Nat]
      /\ resumes \in [Tasks -> Nat] /\ requeues \in [Tasks -> Nat]
      BY DEF TypeOK
<1>z. Tickets \in [Tasks -> Int] /\ (Tickets \in [Tasks -> Int])'
      BY TicketsInt, PTL
<1>1. t \in Tasks /\ disk[t].state # "absent"
      BY DEF HandlerSave, Held, HandlersHold, Exists, TypeOK, HandlerType
<1>2. /\ disk'[t].state # "absent"
      /\ \A u \in Tasks \ {t} : disk'[u] = disk[u]
      /\ resumes' = [resumes EXCEPT ![t] = resumes[t] + 1]
      /\ UNCHANGED <<starts, requeues, slot>>
      BY <1>1, <1>t DEF HandlerSave
<1> HIDE DEF t
<1>p. Tickets'[t] = Tickets[t] + 1
      BY <1>1, <1>2, <1>t DEF Tickets
<1>q. \A u \in Tasks \ {t} : Tickets'[u] = Tickets[u]
      BY <1>1, <1>2, <1>t DEF Tickets
<1>3. Granted(t)
      BY <1>1, <1>2, <1>p, <1>q, <1>z, Adjusted DEF Granted
<1> QED
    BY <1>3 DEF t

\* The orphan sweep adds a ticket when it re-queues a task and queues
\* nothing when it closes it; a destructive task is only ever closed.
LEMMA OrphanGrants ==
    ASSUME TypeOK, TypeOK', Held, NoDestructiveRequeue, OrphanSave
    PROVE  /\ NoDestructiveRequeue'
           /\ UNCHANGED slot
           /\ Granted(orphan.task) \/ NothingQueued
<1> DEFINE t == orphan.task
<1>t. disk \in [Tasks -> TaskFile] /\ starts \in [Tasks -> Nat]
      /\ resumes \in [Tasks -> Nat] /\ requeues \in [Tasks -> Nat]
      BY DEF TypeOK
<1>z. Tickets \in [Tasks -> Int] /\ (Tickets \in [Tasks -> Int])'
      BY TicketsInt, PTL
<1>1. t \in Tasks /\ disk[t].state # "absent"
      BY DEF OrphanSave, Held, OrphanHolds, Exists, TypeOK, OrphanType
<1>2. PICK requeue \in BOOLEAN :
        /\ requeue => t \notin Destructive
        /\ disk' = [disk EXCEPT ![t] = [state |-> IF requeue THEN "pending" ELSE "errored",
                                        wait |-> orphan.base.wait]]
        /\ requeues' = IF requeue THEN [requeues EXCEPT ![t] = requeues[t] + 1] ELSE requeues
      BY DEF OrphanSave, Requeues
<1>3. UNCHANGED <<starts, resumes, slot>>
      BY DEF OrphanSave
<1> HIDE DEF t
<1>4. CASE requeue
  <2>1. disk'[t].state = "pending" /\ \A u \in Tasks \ {t} : disk'[u] = disk[u]
        BY <1>4, <1>1, <1>2, <1>t
  <2>2. requeues' = [requeues EXCEPT ![t] = requeues[t] + 1]
        BY <1>4, <1>2
  <2>p. Tickets'[t] = Tickets[t] + 1
        BY <2>1, <2>2, <1>1, <1>3, <1>t DEF Tickets
  <2>q. \A u \in Tasks \ {t} : Tickets'[u] = Tickets[u]
        BY <2>1, <2>2, <1>1, <1>3, <1>t DEF Tickets
  <2>3. Granted(t)
        BY <2>1, <1>1, <1>3, <2>p, <2>q, <1>z, Adjusted DEF Granted
  <2>4. NoDestructiveRequeue'
        BY <2>2, <1>4, <1>1, <1>2, <1>t, TasksAssumption DEF NoDestructiveRequeue
  <2> QED
      BY <2>3, <2>4, <1>3 DEF t
<1>5. CASE ~requeue
  <2>1. disk'[t].state = "errored" /\ \A u \in Tasks \ {t} : disk'[u] = disk[u]
        BY <1>5, <1>1, <1>2, <1>t
  <2>2. requeues' = requeues
        BY <1>5, <1>2
  <2>3. NothingQueued
        BY <2>1, <2>2, <1>1, <1>3, <1>t DEF NothingQueued, Tickets
  <2> QED
      BY <2>2, <2>3, <1>3 DEF NoDestructiveRequeue
<1> QED
    BY <1>4, <1>5

\* A write by a tick starts a run or queues nothing.
LEMMA SaveStarts ==
    ASSUME TypeOK, TypeOK', WritesOK, Held, NEW s \in Slots, SlotSave(s)
    PROVE  \/ Started(s)
           \/ slot[s].to # "running" /\ NothingQueued
<1> DEFINE t == slot[s].task
           to == slot[s].to
<1>t. disk \in [Tasks -> TaskFile] /\ starts \in [Tasks -> Nat]
      /\ resumes \in [Tasks -> Nat] /\ requeues \in [Tasks -> Nat]
      BY DEF TypeOK
<1>z. Tickets \in [Tasks -> Int] /\ (Tickets \in [Tasks -> Int])'
      BY TicketsInt, PTL
<1>1. t \in Tasks /\ disk[t].state # "absent" /\ to \in WrittenStates /\ slot[s].pc = "writing"
      BY DEF SlotSave, Held, SlotsHold, Exists, TypeOK, Claims, WritesOK
<1>2. /\ disk'[t].state = to
      /\ \A u \in Tasks \ {t} : disk'[u] = disk[u]
      /\ starts' = IF to = "running" THEN [starts EXCEPT ![t] = starts[t] + 1] ELSE starts
      /\ slot' = [slot EXCEPT ![s] = [slot[s] EXCEPT !.pc = AfterWrite(to), !.to = "absent",
                                                     !.base = Absent]]
      /\ UNCHANGED <<resumes, requeues>>
      BY <1>1, <1>t DEF SlotSave
<1>3. to \notin {"absent", "pending"}
      BY <1>1 DEF WrittenStates
<1>4. CASE to = "running"
  <2>1. AfterWrite(to) = "running"
        BY <1>4 DEF AfterWrite
  <2>2. starts' = [starts EXCEPT ![t] = starts[t] + 1]
        BY <1>4, <1>2
  <2>3. Tickets' = [Tickets EXCEPT ![t] = Tickets[t] - 1]
    <3> HIDE DEF t, to
    <3>p. Tickets'[t] = Tickets[t] + (-1)
          BY <2>2, <1>1, <1>2, <1>3, <1>t DEF Tickets
    <3>q. \A u \in Tasks \ {t} : Tickets'[u] = Tickets[u]
          BY <2>2, <1>1, <1>2, <1>3, <1>t DEF Tickets
    <3>1. Tickets' = [Tickets EXCEPT ![t] = Tickets[t] + (-1)]
          BY <1>1, <3>p, <3>q, <1>z, Adjusted
    <3> QED
        BY <3>1, <1>1, <1>z
  <2> QED
      BY <2>1, <2>3, <1>1, <1>2, <1>4 DEF Started
<1>5. CASE to # "running"
  <2>1. starts' = starts
        BY <1>5, <1>2
  <2>2. NothingQueued
    <3> HIDE DEF t, to
    <3> QED
        BY <2>1, <1>1, <1>2, <1>3, <1>t DEF NothingQueued, Tickets
  <2> QED
      BY <2>2, <1>5
<1> QED
    BY <1>4, <1>5


\* What a step that neither grants nor starts may do to one slot: nothing is
\* claimed that is not pending, and what executes goes on or ends.
Passing(s, r) ==
    /\ slot' = [slot EXCEPT ![s] = r]
    /\ slot[s].pc # "idle" \/ r.pc = "polling"
    /\ NothingQueued
    /\ r.pc = "claimed" => disk'[r.task].state = "pending"
    /\ r.pc = "writing" /\ r.to = "running" =>
          Opening(s) /\ slot[s].task = r.task
    /\ (\/ r.pc \in {"running", "awaiting", "tripped", "recorded"}
        \/ r.pc = "writing" /\ r.to # "running")
       => Executes(s) /\ slot[s].task = r.task

\* Every step is one of these.
LEMMA StepKinds ==
    ASSUME TypeOK, TypeOK', WritesOK, Held, NoDestructiveRequeue, [Next]_vars
    PROVE  \/ \E t \in Tasks : Granted(t)
           \/ \E s \in Slots : Started(s)
           \/ \E s \in Slots : \E r \in SlotType : Passing(s, r)
           \/ NothingQueued /\ (UNCHANGED slot \/ slot' = [s \in Slots |-> IdleSlot])
<1>t. slot \in [Slots -> SlotType]
      BY DEF TypeOK
<1>n. ASSUME UNCHANGED <<disk, starts, resumes, requeues>> PROVE NothingQueued
      BY <1>n DEF NothingQueued, Tickets
<1>1. ASSUME NEW t \in Tasks, Submit(t) PROVE Granted(t)
      BY <1>1, SubmitGrants
<1>2. ASSUME NEW k \in Handlers, HandlerSave(k) PROVE \E t \in Tasks : Granted(t)
  <2>1. handler[k].task \in Tasks
        BY <1>2 DEF HandlerSave, TypeOK, HandlerType
  <2> QED
      BY <1>2, <2>1, HandlerGrants
<1>3. ASSUME OrphanSave
      PROVE  \/ \E t \in Tasks : Granted(t)
             \/ NothingQueued /\ UNCHANGED slot
  <2>1. orphan.task \in Tasks
        BY <1>3 DEF OrphanSave, TypeOK, OrphanType
  <2> QED
      BY <1>3, <2>1, OrphanGrants
<1>4. ASSUME NEW s \in Slots, SlotSave(s)
      PROVE  Started(s) \/ \E r \in SlotType : Passing(s, r)
  <2> DEFINE r == [slot[s] EXCEPT !.pc = AfterWrite(slot[s].to), !.to = "absent",
                                  !.base = Absent]
  <2>1. CASE Started(s)
        BY <2>1
  <2>2. CASE slot[s].to # "running" /\ NothingQueued
    <3>1. slot[s].pc = "writing" /\ slot' = [slot EXCEPT ![s] = r]
          BY <1>4 DEF SlotSave
    <3>2. slot[s].to \in WrittenStates \ {"running"}
          BY <2>2, <3>1 DEF WritesOK
    <3>3. AfterWrite(slot[s].to) \in {"awaiting", "tripped", "recorded"}
          BY <3>2 DEF AfterWrite, WrittenStates
    <3>4. /\ r \in SlotType
          /\ r.pc \in {"awaiting", "tripped", "recorded"}
          /\ r.task = slot[s].task
          BY <3>3, <1>t, Files DEF SlotType, SlotPcs
    <3> HIDE DEF r
    <3> QED
        BY <2>2, <3>1, <3>4 DEF Passing, Executes
  <2> QED
      BY <1>4, <2>1, <2>2, SaveStarts
<1>5. ASSUME NEW s \in Slots, SlotGet(s) PROVE \E r \in SlotType : Passing(s, r)
  <2>1. PICK to \in TaskStates :
          /\ MayWrite(slot[s].pc, to)
          /\ slot' = [slot EXCEPT ![s] = [slot[s] EXCEPT !.pc = "writing", !.to = to,
                                                        !.base = disk[slot[s].task]]]
        BY <1>5 DEF SlotGet
  <2> DEFINE r == [slot[s] EXCEPT !.pc = "writing", !.to = to, !.base = disk[slot[s].task]]
  <2>2. slot[s].task \in Tasks /\ slot[s].pc # "idle"
        BY <2>1 DEF MayWrite, TypeOK, Claims
  <2>3. r \in SlotType /\ r.pc = "writing" /\ r.to = to /\ r.task = slot[s].task
        BY <2>2, <1>t DEF SlotType, SlotPcs, TypeOK
  <2>4. to = "running" => Opening(s)
    <3>1. to = "running" => slot[s].pc = "claimed"
          BY <2>1 DEF MayWrite
    <3> QED
        BY <3>1 DEF Opening
  <2>5. NothingQueued
        BY <1>5, <1>n DEF SlotGet, history
  <2>6. slot' = [slot EXCEPT ![s] = r]
        BY <2>1
  <2>7. to # "running" => Executes(s)
        BY <2>1 DEF MayWrite, Executes
  <2> HIDE DEF r
  <2>8. Passing(s, r)
        BY <2>2, <2>3, <2>4, <2>5, <2>6, <2>7 DEF Passing
  <2> QED
      BY <2>3, <2>8
<1>6. ASSUME NEW s \in Slots, PollClaim(s) PROVE \E r \in SlotType : Passing(s, r)
  <2>1. PICK t \in Tasks : /\ Picked(t)
                           /\ slot' = [slot EXCEPT ![s] = [IdleSlot EXCEPT !.pc = "claimed",
                                                                          !.task = t]]
        BY <1>6 DEF PollClaim
  <2> DEFINE r == [IdleSlot EXCEPT !.pc = "claimed", !.task = t]
  <2>2. r \in SlotType /\ r.pc = "claimed" /\ r.task = t
        BY Idles DEF IdleSlot, SlotType, SlotPcs
  <2>3. NothingQueued /\ slot[s].pc = "polling" /\ disk'[t].state = "pending"
        BY <1>6, <2>1, <1>n DEF PollClaim, history, Picked, InState
  <2>4. slot' = [slot EXCEPT ![s] = r]
        BY <2>1
  <2> HIDE DEF r
  <2> QED
      BY <2>2, <2>3, <2>4 DEF Passing
<1>7. ASSUME NEW s \in Slots, PollBegin(s) PROVE \E r \in SlotType : Passing(s, r)
  <2> DEFINE r == [slot[s] EXCEPT !.pc = "polling"]
  <2>1. r \in SlotType /\ r.pc = "polling"
        BY <1>t DEF SlotType, SlotPcs
  <2>2. NothingQueued /\ slot' = [slot EXCEPT ![s] = r]
        BY <1>7, <1>n DEF PollBegin, MayPoll, history
  <2> HIDE DEF r
  <2> QED
      BY <2>1, <2>2 DEF Passing
<1>8. ASSUME NEW s \in Slots, PollEmpty(s) \/ Return(s) \/ ReturnBlockedOnUser(s)
      PROVE  \E r \in SlotType : Passing(s, r)
  <2>1. NothingQueued /\ slot[s].pc # "idle" /\ slot' = [slot EXCEPT ![s] = IdleSlot]
        BY <1>8, <1>n DEF PollEmpty, Return, ReturnBlockedOnUser, Release, history
  <2>2. IdleSlot.pc = "idle"
        BY DEF IdleSlot
  <2> QED
      BY <2>1, <2>2, Idles DEF Passing
<1>9. CASE AgentExit
      BY <1>9, <1>n DEF AgentExit, history
<1>10. CASE UNCHANGED <<disk, starts, resumes, requeues, slot>>
       BY <1>10, <1>n
<1> QED
    BY <1>1, <1>2, <1>3, <1>4, <1>5, <1>6, <1>7, <1>8, <1>9, <1>10
    DEF Next, vars, history, Expire, SlotStep, ReplyFind, SweepFind, ResumeFind,
        HandlerStep, HandlerGet, BootStep, AgentStart, OrphanGet, BootDone, SupervisorExit

\* Every pending file and every claim stays covered by a ticket.
LEMMA NextOwed ==
    ASSUME TypeOK, TypeOK', WritesOK, Alone, Held, Owed, NoDestructiveRequeue, [Next]_vars
    PROVE  Owed'
<1> USE DEF Owed
<1>t. /\ slot \in [Slots -> SlotType]
      /\ \A s \in Slots : Opening(s) => slot[s].task \in Tasks
      /\ \A s \in Slots : Opening(s)' => slot'[s].task \in Tasks
      BY DEF TypeOK, Claims, Opening
<1>z. Tickets \in [Tasks -> Int]
      BY TicketsInt
<1>1. ASSUME NEW t \in Tasks, Granted(t) PROVE Owed'
  <2>1. /\ \A u \in Tasks : Tickets'[u] \in Nat /\ Tickets'[u] >= Tickets[u]
        /\ Tickets'[t] > 0
        BY <1>1, <1>z DEF Granted
  <2> QED
      BY <1>1, <2>1, <1>t, <1>z DEF Granted, Opening
<1>2. ASSUME NEW s \in Slots, Started(s) PROVE Owed'
  <2> DEFINE t == slot[s].task
  <2>1. t \in Tasks /\ Tickets[t] > 0
        BY <1>2, <1>t DEF Started, Opening
  <2>2. \A u \in Slots : ~Opening(u)'
    <3>1. \A u \in Slots : slot'[u].pc \in {"idle", "running"}
          BY <1>2, <1>t DEF Started, Alone, SlotType
    <3> QED
        BY <3>1 DEF Opening
  <2>3. /\ \A u \in Tasks : Tickets'[u] \in Nat
        /\ \A u \in Tasks \ {t} : Tickets'[u] = Tickets[u]
        BY <1>2, <2>1, <1>z DEF Started
  <2>4. \A u \in Tasks : disk'[u].state = "pending" => u # t /\ disk[u].state = "pending"
        BY <1>2, <2>1 DEF Started
  <2> QED
      BY <2>2, <2>3, <2>4
<1>3. ASSUME NothingQueued
      PROVE  /\ \A t \in Tasks : Tickets'[t] \in Nat
             /\ \A t \in Tasks : disk'[t].state = "pending" => Tickets'[t] > 0
      BY <1>3 DEF NothingQueued
<1>4. ASSUME NEW s \in Slots, NEW r \in SlotType, Passing(s, r) PROVE Owed'
  <2>1. \A u \in Slots : Opening(u)' =>
           \/ Opening(u) /\ slot'[u].task = slot[u].task
           \/ disk'[slot'[u].task].state = "pending"
        BY <1>4, <1>t DEF Passing, Opening
  <2> QED
      BY <1>4, <1>3, <2>1, <1>t DEF Passing, NothingQueued
<1>5. ASSUME NothingQueued, UNCHANGED slot PROVE Owed'
      BY <1>5, <1>3, <1>t DEF Opening, NothingQueued
<1>6. ASSUME NothingQueued, slot' = [s \in Slots |-> IdleSlot] PROVE Owed'
      BY <1>6, <1>3 DEF Opening, IdleSlot
<1> QED
    BY <1>1, <1>2, <1>4, <1>5, <1>6, StepKinds

\* Only the orphan sweep re-queues, and it looks at the idempotency.
LEMMA NextNoDestructiveRequeue ==
    ASSUME TypeOK, TypeOK', Held, NoDestructiveRequeue, [Next]_vars
    PROVE  NoDestructiveRequeue'
<1>1. CASE OrphanSave
      BY <1>1, OrphanGrants
<1>2. CASE UNCHANGED requeues
      BY <1>2 DEF NoDestructiveRequeue
<1> QED
    BY <1>1, <1>2
    DEF Next, vars, history, Submit, Expire, PollBegin, SlotStep, PollEmpty, PollClaim, SlotGet,
        SlotSave, Return, ReturnBlockedOnUser, ReplyFind, SweepFind, ResumeFind, HandlerStep,
        HandlerGet, HandlerSave, BootStep, AgentStart, OrphanGet, BootDone, AgentExit,
        SupervisorExit

-----------------------------------------------------------------------------

\* No file, no tick, no handler: nothing is held and nothing is owed.
LEMMA InitIInv == Init => IInv
<1> SUFFICES ASSUME Init PROVE IInv
    OBVIOUS
<1>1. TypeOK /\ WritesOK
      BY InitTypeOK
<1>2. \A s \in Slots : slot[s].pc = "idle"
      BY DEF Init, IdleSlot
<1>3. Alone /\ FlagRaised /\ SlotsHold
      BY <1>2 DEF Alone, FlagRaised, SlotsHold, Claims
<1>4. OrphanHolds /\ HandlersHold
      BY DEF Init, OrphanHolds, HandlersHold, IdleOrphan, IdleHandler
<1>5. ASSUME NEW t \in Tasks
      PROVE  disk[t].state = "absent" /\ Tickets[t] = 0
  <2>1. disk[t].state = "absent"
        BY DEF Init, Absent
  <2>2. resumes[t] = 0 /\ requeues[t] = 0 /\ starts[t] = 0
        BY DEF Init
  <2>3. Tickets[t] = 0 + 0 + 0 - 0
        BY <2>1, <2>2 DEF Tickets
  <2> QED
      BY <2>1, <2>3
<1>6. Owed
      BY <1>2, <1>5 DEF Owed, Opening
<1>7. NoDestructiveRequeue
      BY TasksAssumption DEF Init, NoDestructiveRequeue
<1> QED
    BY <1>1, <1>3, <1>4, <1>6, <1>7 DEF IInv, Held

\* Every step keeps the inductive invariant when polls do not overlap.
LEMMA NextIInv ==
    ASSUME ~SlowPolls, IInv, [Next]_vars
    PROVE  IInv'
<1>1. TypeOK' /\ WritesOK'
      BY NextTypeOK DEF IInv
<1>2. Alone' /\ FlagRaised'
      BY NextAlone DEF IInv
<1>3. Held'
      BY NextSlotsHold, NextOrphanHolds, NextHandlersHold DEF IInv, Held
<1>4. Owed' /\ NoDestructiveRequeue'
      BY <1>1, NextOwed, NextNoDestructiveRequeue DEF IInv
<1> QED
    BY <1>1, <1>2, <1>3, <1>4 DEF IInv

\* The inductive invariant of the pipeline: while polls do not overlap, one
\* tick at a time is in tickTaskPoll with the flag up, ids held stand for
\* files that exist, and a ticket covers every pending file and every claim.
THEOREM Inductive == ~SlowPolls /\ Spec => []IInv
<1>1. CASE SlowPolls
      BY <1>1
<1>2. CASE ~SlowPolls
  <2>1. IInv /\ [Next]_vars => IInv'
        BY <1>2, NextIInv
  <2> QED
      BY <2>1, InitIInv, PTL DEF Spec
<1> QED
    BY <1>1, <1>2

\* A destructive task is begun at most once for its submission and once for
\* each resuming write: no crash, sweep or stale write makes up for a ticket.
THEOREM DestructiveTasksAskedFor == ~SlowPolls /\ Spec => []DestructiveRunsAreAsked
<1>1. IInv => DestructiveRunsAreAsked
  <2> SUFFICES ASSUME IInv, NEW t \in Destructive
               PROVE  starts[t] <= 1 + resumes[t]
      BY DEF DestructiveRunsAreAsked
  <2>1. t \in Tasks
        BY TasksAssumption
  <2>2. starts[t] \in Nat /\ resumes[t] \in Nat /\ requeues[t] = 0
        BY <2>1 DEF IInv, TypeOK, NoDestructiveRequeue
  <2>3. Tickets[t] \in Nat
        BY <2>1 DEF IInv, Owed
  <2> QED
      BY <2>1, <2>2, <2>3 DEF Tickets
<1> QED
    BY <1>1, Inductive, PTL

-----------------------------------------------------------------------------
\* A step of the pipeline grants a ticket, starts a run against one, ends the
\* run in progress, or is invisible to the serial executor.
LEMMA ExecutorStep ==
    ASSUME IInv, TypeOK', [Next]_vars
    PROVE  [Executor!Next]_(Executor!vars)
<1>t. slot \in [Slots -> SlotType] /\ Alone
      BY DEF IInv, TypeOK
<1>1. ASSUME NEW t \in Tasks, Granted(t) PROVE Executor!Grant(t)
  <2>1. UNCHANGED Executing
        BY <1>1 DEF Granted, Executing, Executes
  <2> QED
      BY <1>1, <2>1 DEF Granted, Executor!Grant
<1>2. ASSUME NEW s \in Slots, Started(s)
      PROVE  slot[s].task \in Tasks /\ Executor!Start(slot[s].task)
  <2>1. slot[s].task \in Tasks /\ Tickets[slot[s].task] > 0
        BY <1>2 DEF Started, IInv, TypeOK, Claims, Owed, Opening
  <2>2. \A u \in Slots : ~Executes(u)
        BY <1>2, <1>t DEF Started, Alone, Executes
  <2>3. \A u \in Slots : Executes(u)' <=> u = s
        BY <1>2, <1>t, <2>2 DEF Started, Executes, SlotType
  <2>4. slot'[s].task = slot[s].task
        BY <1>2, <1>t DEF Started, SlotType
  <2>5. Executing = {}
        BY <2>2 DEF Executing
  <2>6. Executing' = {slot[s].task}
        BY <2>3, <2>4 DEF Executing
  <2> QED
      BY <1>2, <2>1, <2>5, <2>6 DEF Started, Executor!Start
<1>3. ASSUME Tickets' = Tickets, Executing' = Executing \/ Executing' = {}
      PROVE  [Executor!Next]_(Executor!vars)
      BY <1>3 DEF Executor!Next, Executor!Stop, Executor!vars
<1>4. ASSUME NEW s \in Slots, NEW r \in SlotType, Passing(s, r)
      PROVE  Executing' = Executing \/ Executing' = {}
  <2>1. slot' = [slot EXCEPT ![s] = r]
        BY <1>4 DEF Passing
  <2>2. CASE slot[s].pc = "idle"
    <3>1. r.pc = "polling" /\ ~Executes(s)
          BY <1>4, <2>2 DEF Passing, Executes
    <3>2. \A u \in Slots : /\ Executes(u)' <=> Executes(u)
                           /\ Executes(u) => slot'[u].task = slot[u].task
          BY <2>1, <3>1, <1>t DEF Executes
    <3> QED
        BY <3>2 DEF Executing
  <2>3. CASE slot[s].pc # "idle"
    <3>1. \A u \in Slots : u # s => ~Executes(u) /\ ~Executes(u)'
          BY <2>1, <2>3, <1>t DEF Alone, Executes
    <3>2. Executes(s)' => Executes(s) /\ slot'[s].task = slot[s].task
          BY <1>4, <2>1, <1>t DEF Passing, Executes
    <3> QED
        BY <3>1, <3>2 DEF Executing
  <2> QED
      BY <2>2, <2>3
<1>5. ASSUME UNCHANGED slot PROVE Executing' = Executing
      BY <1>5 DEF Executing, Executes
<1>6. ASSUME slot' = [s \in Slots |-> IdleSlot] PROVE Executing' = {}
      BY <1>6 DEF Executing, Executes, IdleSlot
<1>7. \A s \in Slots, r \in SlotType : Passing(s, r) => Tickets' = Tickets
      BY DEF Passing, NothingQueued
<1>8. NothingQueued => Tickets' = Tickets
      BY DEF NothingQueued
<1> QED
    BY <1>1, <1>2, <1>3, <1>4, <1>5, <1>6, <1>7, <1>8, StepKinds DEF IInv, Executor!Next

\* The pipeline implements the serial executor: every run is paid for by a
\* submission, a resume or a re-queue, and runs never overlap.
THEOREM PipelineIsExecutor == ~SlowPolls /\ Spec => ImplementsExecutor
<1>1. Init => Executor!Init
  <2> SUFFICES ASSUME Init PROVE Executor!Init
      OBVIOUS
  <2>1. Tickets = [t \in Tasks |-> 0]
        BY DEF Init, Tickets, Absent
  <2>2. Executing = {}
        BY DEF Init, Executing, Executes, IdleSlot
  <2> QED
      BY <2>1, <2>2 DEF Executor!Init
<1>2. IInv /\ IInv' /\ [Next]_vars => [Executor!Next]_(Executor!vars)
      BY ExecutorStep DEF IInv
<1> QED
    BY <1>1, <1>2, Inductive, PTL DEF Spec, ImplementsExecutor, Executor!Spec

-----------------------------------------------------------------------------
\* A run that has not written its result: its next write takes `running` off
\* the file, and its return without a write parks the task.
Runs(s) ==
    \/ slot[s].pc = "running"
    \/ slot[s].pc = "writing" /\ slot[s].to # "running"

Kept(t) ==
    \/ \E s \in Slots : Runs(s) /\ slot[s].task = t
    \/ proc = "down"
    \/ t \in orphan.todo \cup {orphan.task}
    \/ t \in parked

\* RunningIsOwned without the slots that have written their result: when
\* polls overlap, such a slot may see the `running` of another one.
RunningIsKept == \A t \in InState("running") : Kept(t)

\* Only a save takes away a run's claim to its file, and it overwrites the
\* `running`; whatever else ends a run parks the task or ends the process.
LEMMA NextRunningIsKept ==
    ASSUME TypeOK, WritesOK, RunningIsKept, [Next]_vars
    PROVE  RunningIsKept'
<1>t. /\ slot \in [Slots -> SlotType]
      /\ disk \in [Tasks -> TaskFile]
      BY DEF TypeOK
<1>k. \A t \in Tasks : disk[t].state = "running" => Kept(t)
      BY DEF RunningIsKept, InState
<1>g. ASSUME \A t \in Tasks : disk'[t].state = "running" => Kept(t)'
      PROVE  RunningIsKept'
      BY <1>g DEF RunningIsKept, InState
<1>w. ASSUME NEW t, NEW st, NEW w, st # "running",
             disk' = [disk EXCEPT ![t] = [state |-> st, wait |-> w]],
             UNCHANGED <<slot, proc, orphan, parked>>
      PROVE  RunningIsKept'
  <2>1. \A u \in Tasks : disk'[u].state = "running" => disk[u].state = "running"
        BY <1>w, <1>t
  <2> QED
      BY <1>w, <2>1, <1>k, <1>g DEF Kept, Runs
<1>1. ASSUME NEW t \in Tasks, Submit(t) PROVE RunningIsKept'
      BY <1>1, <1>w DEF Submit
<1>2. ASSUME NEW k \in Handlers, HandlerSave(k) PROVE RunningIsKept'
  <2>1. UNCHANGED <<slot, proc, orphan, parked>>
        BY <1>2 DEF HandlerSave
  <2>2. PICK w : disk' = [disk EXCEPT ![handler[k].task] = [state |-> "pending", wait |-> w]]
        BY <1>2, Zenon DEF HandlerSave
  <2> QED
      BY <2>1, <2>2, <1>w
<1>3. ASSUME NEW s \in Slots, NEW r \in SlotType, slot' = [slot EXCEPT ![s] = r],
             Runs(s) => \/ r.pc = "writing" /\ r.to # "running"
                        \/ slot[s].task \in parked',
             Runs(s) => r.task = slot[s].task \/ slot[s].task \in parked',
             parked \subseteq parked',
             UNCHANGED <<disk, proc, orphan>>
      PROVE  RunningIsKept'
  <2>1. \A u \in Slots : Runs(u) /\ u # s => Runs(u)' /\ slot'[u] = slot[u]
        BY <1>3, <1>t DEF Runs
  <2>2. Runs(s) => (Runs(s)' /\ slot'[s].task = slot[s].task) \/ slot[s].task \in parked'
        BY <1>3, <1>t DEF Runs
  <2>3. ASSUME NEW t \in Tasks, Kept(t) PROVE Kept(t)'
        BY <1>3, <2>1, <2>2, <2>3 DEF Kept
  <2> QED
      BY <1>3, <2>3, <1>k, <1>g
<1>4. ASSUME NEW s \in Slots, PollBegin(s) PROVE RunningIsKept'
  <2> DEFINE r == [slot[s] EXCEPT !.pc = "polling"]
  <2>1. r \in SlotType
        BY <1>t DEF SlotType, SlotPcs
  <2>2. slot' = [slot EXCEPT ![s] = r] /\ ~Runs(s) /\ UNCHANGED <<disk, proc, orphan, parked>>
        BY <1>4 DEF PollBegin, MayPoll, Runs, history
  <2> HIDE DEF r
  <2> QED
      BY <2>1, <2>2, <1>3
<1>5. ASSUME NEW s \in Slots, PollEmpty(s) \/ Return(s) PROVE RunningIsKept'
  <2>1. /\ slot' = [slot EXCEPT ![s] = IdleSlot]
        /\ ~Runs(s)
        /\ UNCHANGED <<disk, proc, orphan, parked>>
        BY <1>5 DEF PollEmpty, Return, Release, Runs, history
  <2> QED
      BY <2>1, <1>3, Idles
<1>6. ASSUME NEW s \in Slots, PollClaim(s) PROVE RunningIsKept'
  <2>1. PICK t \in Tasks : slot' = [slot EXCEPT ![s] = [IdleSlot EXCEPT !.pc = "claimed",
                                                                       !.task = t]]
        BY <1>6 DEF PollClaim
  <2>2. [IdleSlot EXCEPT !.pc = "claimed", !.task = t] \in SlotType
        BY Idles DEF SlotType, SlotPcs
  <2>3. ~Runs(s) /\ UNCHANGED <<disk, proc, orphan, parked>>
        BY <1>6 DEF PollClaim, Runs, history
  <2> QED
      BY <2>1, <2>2, <2>3, <1>3
<1>7. ASSUME NEW s \in Slots, SlotGet(s) PROVE RunningIsKept'
  <2>1. PICK to \in TaskStates :
          /\ MayWrite(slot[s].pc, to)
          /\ slot' = [slot EXCEPT ![s] = [slot[s] EXCEPT !.pc = "writing", !.to = to,
                                                        !.base = disk[slot[s].task]]]
        BY <1>7 DEF SlotGet
  <2> DEFINE r == [slot[s] EXCEPT !.pc = "writing", !.to = to, !.base = disk[slot[s].task]]
  <2>2. slot[s].task \in Tasks
        BY <2>1 DEF MayWrite, TypeOK, Claims
  <2>3. r \in SlotType /\ r.pc = "writing" /\ r.to = to /\ r.task = slot[s].task
        BY <2>2, <1>t DEF SlotType, SlotPcs
  <2>4. Runs(s) => to # "running"
        BY <2>1 DEF Runs, MayWrite
  <2>5. UNCHANGED <<disk, proc, orphan, parked>>
        BY <1>7 DEF SlotGet, history
  <2>6. slot' = [slot EXCEPT ![s] = r]
        BY <2>1
  <2> HIDE DEF r
  <2> QED
      BY <2>3, <2>4, <2>5, <2>6, <1>3
<1>8. ASSUME NEW s \in Slots, SlotSave(s) PROVE RunningIsKept'
  <2> DEFINE t == slot[s].task
             to == slot[s].to
             r == [slot[s] EXCEPT !.pc = AfterWrite(to), !.to = "absent", !.base = Absent]
  <2>1. /\ slot[s].pc = "writing"
        /\ disk' = [disk EXCEPT ![t] =
                      [state |-> to, wait |-> slot[s].base.wait \/ to = "blocked_on_agent"]]
        /\ slot' = [slot EXCEPT ![s] = r]
        /\ UNCHANGED <<proc, orphan, parked>>
        BY <1>8 DEF SlotSave
  <2>2. t \in Tasks
        BY <2>1 DEF TypeOK, Claims
  <2>3. /\ \A u \in Tasks : u # t => disk'[u] = disk[u]
        /\ disk'[t].state = to
        BY <2>1, <2>2, <1>t
  <2>4. \A u \in Slots : u # s /\ Runs(u) => Runs(u)' /\ slot'[u] = slot[u]
        BY <2>1, <1>t DEF Runs
  <2>5. to = "running" => Runs(s)' /\ slot'[s].task = t
        BY <2>1, <1>t DEF Runs, AfterWrite, SlotType
  <2>6. ASSUME NEW u \in Tasks, u # t, Kept(u) PROVE Kept(u)'
        BY <2>1, <2>4, <2>6 DEF Kept
  <2>7. \A u \in Tasks : u = t /\ to = "running" => Kept(u)'
        BY <2>5 DEF Kept
  <2>8. ASSUME NEW u \in Tasks, disk'[u].state = "running" PROVE Kept(u)'
    <3>1. CASE u = t
          BY <3>1, <2>3, <2>7, <2>8
    <3>2. CASE u # t
          BY <3>2, <2>3, <2>6, <2>8, <1>k
    <3> QED
        BY <3>1, <3>2
  <2> QED
      BY <2>8, <1>g
<1>9. ASSUME NEW s \in Slots, ReturnBlockedOnUser(s) PROVE RunningIsKept'
  <2>1. /\ slot' = [slot EXCEPT ![s] = IdleSlot]
        /\ parked' = parked \cup {slot[s].task}
        /\ UNCHANGED <<disk, proc, orphan>>
        BY <1>9 DEF ReturnBlockedOnUser, Release
  <2> QED
      BY <2>1, <1>3, Idles
<1>10. CASE AgentExit
  <2>1. proc' = "down"
        BY <1>10 DEF AgentExit
  <2> QED
      BY <2>1, <1>g DEF Kept
<1>11. CASE AgentStart
  <2>1. orphan'.todo = InState("running") /\ disk' = disk
        BY <1>11 DEF AgentStart, Leftovers, IdleOrphan
  <2> QED
      BY <2>1, <1>g DEF Kept, InState
<1>12. CASE OrphanGet
  <2>1. PICK t \in orphan.todo :
          orphan' = [todo |-> orphan.todo \ {t}, task |-> t, base |-> disk[t]]
        BY <1>12 DEF OrphanGet
  <2>2. /\ orphan'.todo \cup {orphan'.task} = orphan.todo
        /\ orphan.task = NoTask
        /\ UNCHANGED <<disk, slot, proc, parked>>
        BY <1>12, <2>1 DEF OrphanGet, history
  <2>3. ASSUME NEW u \in Tasks, Kept(u) PROVE Kept(u)'
        BY <2>2, <2>3, TasksAssumption DEF Kept, Runs
  <2> QED
      BY <2>2, <2>3, <1>k, <1>g
<1>13. CASE OrphanSave
  <2> DEFINE t == orphan.task
  <2>1. PICK st \in {"pending", "errored"} :
          disk' = [disk EXCEPT ![t] = [state |-> st, wait |-> orphan.base.wait]]
        BY <1>13 DEF OrphanSave
  <2>2. /\ UNCHANGED <<slot, proc>>
        /\ orphan' = [orphan EXCEPT !.task = NoTask, !.base = Absent]
        /\ parked' = parked \ {t}
        BY <1>13 DEF OrphanSave
  <2>3. orphan'.todo = orphan.todo
        BY <2>2 DEF TypeOK, OrphanType
  <2>4. \A u \in Tasks : disk'[u].state = "running" => u # t /\ disk[u].state = "running"
        BY <2>1, <1>t
  <2>5. ASSUME NEW u \in Tasks, u # t, Kept(u) PROVE Kept(u)'
        BY <2>2, <2>3, <2>5 DEF Kept, Runs
  <2> QED
      BY <2>4, <2>5, <1>k, <1>g
<1>14. CASE BootDone
  <2>1. /\ orphan.todo = {} /\ orphan.task = NoTask
        /\ proc # "down"
        /\ UNCHANGED <<disk, slot, orphan, parked>>
        BY <1>14 DEF BootDone, IdleOrphan, history
  <2>2. ASSUME NEW u \in Tasks, Kept(u) PROVE Kept(u)'
        BY <2>1, <2>2, TasksAssumption DEF Kept, Runs
  <2> QED
      BY <2>1, <2>2, <1>k, <1>g
<1>15. CASE UNCHANGED <<disk, slot, proc, orphan, parked>>
       BY <1>15, <1>k, <1>g DEF Kept, Runs
<1> QED
    BY <1>1, <1>2, <1>4, <1>5, <1>6, <1>7, <1>8, <1>9, <1>10, <1>11, <1>12, <1>13, <1>14, <1>15
    DEF Next, vars, history, Expire, SlotStep, ReplyFind, SweepFind, ResumeFind,
        HandlerStep, HandlerGet, BootStep, SupervisorExit

\* A task is `running` on disk only while a run owns it, the boot has still
\* to reclaim it, or its run returned blocked_on_user: no exit, sweep, resume
\* or overlap of polls (SlowPolls may be TRUE) leaves a file marked with
\* nobody to take the mark off.
THEOREM RunningTasksAreOwned == Spec => []RunningIsOwned
<1>1. Init => RunningIsKept
  <2> SUFFICES ASSUME Init PROVE RunningIsKept
      OBVIOUS
  <2>1. \A t \in Tasks : disk[t].state = "absent"
        BY DEF Init, Absent
  <2> QED
      BY <2>1 DEF RunningIsKept, InState
<1>2. TypeOK /\ WritesOK /\ RunningIsKept /\ [Next]_vars => RunningIsKept'
      BY NextRunningIsKept
<1>3. RunningIsKept => RunningIsOwned
      BY DEF RunningIsKept, RunningIsOwned, Kept, Runs, Executes
<1>4. Spec => [](TypeOK /\ WritesOK)
      BY InitTypeOK, NextTypeOK, PTL DEF Spec
<1> QED
    BY <1>1, <1>2, <1>3, <1>4, PTL DEF Spec

=============================================================================
