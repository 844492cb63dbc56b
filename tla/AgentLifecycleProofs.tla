----------------------- MODULE AgentLifecycleProofs -----------------------
(***************************************************************************)
(* An Agent's lock excludes a second process as long as no cleanup removes *)
(* it from a living one, and whatever the supervisor tracks is waited for: *)
(* for any number of processes, calls, restarts and exits.                 *)
(***************************************************************************)
EXTENDS AgentLifecycle, TLAPS

\* The parts of the type invariant, and where each of them comes from.
RecordOK == record \in Record
MindOK ==
    /\ up \in BOOLEAN /\ closing \in BOOLEAN /\ flag \in BOOLEAN
    /\ tracked \in Process \cup {NoProcess} /\ watch \subseteq Process
    /\ recent \in 0..Budget
    /\ recovery \in [pc : RecoveryPcs, pid : Pids \cup {None}] /\ scan \in BOOLEAN
CallType == [op : Ops, pc : CallPcs, target : [pid : Pids \cup {None}, adopted : BOOLEAN]]
CallsOK == call \in [Calls -> CallType]
HostOK ==
    /\ proc \in [Pids -> ProcStates]
    /\ lock \in Pids \cup {None} /\ pidFile \in Pids \cup {None}
PastOK ==
    /\ wiped \in BOOLEAN /\ mistaken \in BOOLEAN /\ crossed \in BOOLEAN
    /\ stopped \subseteq Pids /\ events \in 0..MaxEvents

LEMMA TypeParts == TypeOK <=> RecordOK /\ MindOK /\ CallsOK /\ HostOK /\ PastOK
  BY Zenon DEF TypeOK, RecordOK, MindOK, CallsOK, CallType, HostOK, PastOK

-----------------------------------------------------------------------------
LEMMA ProcessTypes ==
    /\ \A w \in Process : w.pid \in Pids /\ w.adopted \in BOOLEAN
    /\ \A p \in Pids, a \in BOOLEAN : [pid |-> p, adopted |-> a] \in Process
    /\ \A w \in Process \cup {NoProcess} : w \in [pid : Pids \cup {None}, adopted : BOOLEAN]
  <1>1. \A w \in Process : w.pid \in Pids /\ w.adopted \in BOOLEAN
    BY DEF Process
  <1>2. \A p \in Pids, a \in BOOLEAN : [pid |-> p, adopted |-> a] \in Process
    BY DEF Process
  <1>3. Process \subseteq [pid : Pids \cup {None}, adopted : BOOLEAN]
    BY DEF Process
  <1>4. NoProcess \in [pid : Pids \cup {None}, adopted : BOOLEAN]
    BY DEF NoProcess
  <1> QED BY <1>1, <1>2, <1>3, <1>4, Zenon

LEMMA Entries ==
    ASSUME NEW s \in RecordStates, NEW p \in Pids \cup {None}
    PROVE  Entry(s, p) \in Record
  BY DEF Entry, Record

\* What a signal or an end makes of a process.
LEMMA Signals ==
    ASSUME HostOK, NEW p \in Pids
    PROVE  /\ Term(p) \in ProcStates /\ Kill(p) \in ProcStates /\ Failed(p) \in {"failed", "gone"}
           /\ Term(p) \in Holding => proc[p] \in Holding
           /\ Kill(p) \notin Holding
  BY DEF HostOK, Term, Kill, Failed, ProcStates, Holding, Living

LEMMA InitType == Init => TypeOK
  <1> SUFFICES ASSUME Init PROVE RecordOK /\ MindOK /\ CallsOK /\ HostOK /\ PastOK
    BY TypeParts
  <1> USE LifecycleAssumption DEF LifecycleAssumption, Init
  <1>1. RecordOK
    BY Entries DEF RecordOK, RecordStates
  <1>2. MindOK
    <2>1. recovery \in [pc : RecoveryPcs, pid : Pids \cup {None}]
      BY DEF Recovered, RecoveryPcs
    <2>2. recent \in 0..Budget /\ tracked \in Process \cup {NoProcess} /\ watch \subseteq Process
      OBVIOUS
    <2>3. up \in BOOLEAN /\ closing \in BOOLEAN /\ flag \in BOOLEAN /\ scan \in BOOLEAN
      OBVIOUS
    <2> QED BY <2>1, <2>2, <2>3, Zenon DEF MindOK
  <1>3. CallsOK
    <2>1. IdleCall \in CallType
      BY DEF IdleCall, CallType, NoProcess, CallPcs, Ops
    <2> QED BY <2>1 DEF CallsOK
  <1>4. HostOK
    BY DEF HostOK, ProcStates
  <1>5. PastOK
    <2>1. events \in 0..MaxEvents /\ stopped \subseteq Pids
      OBVIOUS
    <2>2. wiped \in BOOLEAN /\ mistaken \in BOOLEAN /\ crossed \in BOOLEAN
      OBVIOUS
    <2> QED BY <2>1, <2>2, Zenon DEF PastOK
  <1> QED BY <1>1, <1>2, <1>3, <1>4, <1>5

-----------------------------------------------------------------------------
(* Type correctness, part by part.                                         *)

LEMMA Started ==
    ASSUME TypeOK, NEW p \in Pids, NEW table \in [Pids -> ProcStates], StartAgent(p, table)
    PROVE  /\ RecordOK' /\ tracked' \in Process
           /\ proc' \in [Pids -> ProcStates]
           /\ \A q \in Pids : proc'[q] \in Holding => table[q] \in Holding
  BY Entries, ProcessTypes DEF StartAgent, RecordOK, RecordStates, ProcStates, Holding

LEMMA NextRecord == TypeOK /\ [Next]_vars => RecordOK'
  <1> SUFFICES ASSUME TypeOK, [Next]_vars PROVE RecordOK'
    OBVIOUS
  <1>k. UNCHANGED record => RecordOK'
    BY TypeParts DEF RecordOK
  <1>s. \A st \in RecordStates, q \in Pids \cup {None} : record' = Entry(st, q) => RecordOK'
    BY Entries DEF RecordOK
  <1>p. record \in Record /\ proc \in [Pids -> ProcStates]
    BY DEF TypeOK
  <1>1. CASE ProcessStep
    <2> PICK p \in Pids : TryLock(p) \/ Register(p) \/ Heartbeat(p) \/ Finish(p)
                          \/ Crash(p) \/ Compromised(p)
      BY <1>1 DEF ProcessStep
    <2>1. CASE TryLock(p) \/ Finish(p) \/ Crash(p) \/ Compromised(p)
      BY <1>k, <2>1 DEF TryLock, Finish, Crash, Compromised
    <2>2. CASE Register(p)
      BY <1>k, <1>s, <2>2 DEF Register, RecordStates
    <2>3. CASE Heartbeat(p)
      BY <1>p, <1>s, <2>3 DEF Heartbeat, RecordStates, Record, RecordOK
    <2> QED BY <2>1, <2>2, <2>3
  <1>2. CASE CallStep
    <2> PICK c \in Calls :
          \/ \E op \in {"start", "stop", "restart"} : CallArrives(c, op)
          \/ StopKill(c) \/ StopReturns(c) \/ StopThrows(c) \/ StartStep(c)
          \/ StopOrphan(c) \/ PollOrphan(c) \/ CleanUp(c)
          \/ RecoverEvicts(c) \/ Shutdown(c) \/ ShutdownEnds(c)
      BY <1>2 DEF CallStep
    <2>1. CASE \E op \in {"start", "stop", "restart"} : CallArrives(c, op)
      BY <1>k, <2>1 DEF CallArrives
    <2>2. CASE StopKill(c) \/ StopThrows(c) \/ StopOrphan(c) \/ PollOrphan(c)
      BY <1>k, <2>2 DEF StopKill, StopThrows, StopOrphan, PollOrphan
    <2>3. CASE StopReturns(c) \/ CleanUp(c)
      BY <1>k, <1>s, <2>3 DEF StopReturns, CleanUp, RecordStates
    <2>4. CASE StartStep(c)
      BY <1>k, <1>p, <2>4, Started DEF StartStep
    <2>5. CASE RecoverEvicts(c) \/ Shutdown(c) \/ ShutdownEnds(c)
      BY <1>k, <2>5 DEF RecoverEvicts, Shutdown, ShutdownEnds
    <2> QED BY <2>1, <2>2, <2>3, <2>4, <2>5
  <1>3. CASE Stale \/ Forget
    BY <1>k, <1>3 DEF Stale, Forget
  <1>4. ASSUME NEW w \in watch, HandleAgentExit(w) PROVE RecordOK'
    <2>1. CASE record.state = "errored"
      BY <1>k, <1>4, <2>1 DEF HandleAgentExit
    <2>2. CASE record.state # "errored" /\ ExitState(w) = "restarts"
      <3>1. PICK p \in Pids : StartAgent(p, Buried(w))
        BY <1>4, <2>2 DEF HandleAgentExit
      <3> QED BY <1>s, <3>1 DEF StartAgent, RecordStates
    <2>3. CASE record.state # "errored" /\ ExitState(w) # "restarts"
      <3>1. record' = Entry(ExitState(w), None)
        BY <1>4, <2>3 DEF HandleAgentExit
      <3>2. ExitState(w) \in RecordStates
        BY <1>p, <2>3 DEF ExitState, RecordStates, Record
      <3> QED BY <1>s, <3>1, <3>2
    <2> QED BY <2>1, <2>2, <2>3
  <1>5. CASE ScanBegin \/ ScanEnd
    BY <1>k, <1>s, <1>5 DEF ScanBegin, ScanEnd, RecordStates
  <1>6. CASE Boot \/ RecoverCopies
    BY <1>k, <1>6 DEF Boot, RecoverCopies
  <1>7. CASE RecoverAdopts
    BY <1>k, <1>7 DEF RecoverAdopts
  <1>8. CASE RecoverStarts
    BY <1>k, <1>p, <1>8, Started DEF RecoverStarts
  <1>9. CASE SupervisorExit
    BY <1>k, <1>9 DEF SupervisorExit
  <1>10. CASE UNCHANGED vars
    BY <1>k, <1>10 DEF vars
  <1> QED
    BY <1>1, <1>2, <1>3, <1>4, <1>5, <1>6, <1>7, <1>8, <1>9, <1>10 DEF Next

\* A signal, a burial or an end leaves the table of processes one.
LEMMA NextHost == TypeOK /\ [Next]_vars => HostOK'
  <1> SUFFICES ASSUME TypeOK, [Next]_vars PROVE HostOK'
    OBVIOUS
  <1>h. HostOK
    BY TypeParts
  <1>k. UNCHANGED os => HostOK'
    BY <1>h DEF os, HostOK
  <1>l. UNCHANGED <<lock, pidFile>> /\ proc' \in [Pids -> ProcStates] => HostOK'
    BY <1>h DEF HostOK
  <1>t. \A p : p \in Pids =>
           /\ [proc EXCEPT ![p] = Term(p)] \in [Pids -> ProcStates]
           /\ [proc EXCEPT ![p] = Kill(p)] \in [Pids -> ProcStates]
           /\ [proc EXCEPT ![p] = Failed(p)] \in [Pids -> ProcStates]
    BY <1>h, Signals DEF HostOK, ProcStates
  <1>o. \A p : p \notin Pids => \A x : [proc EXCEPT ![p] = x] = proc
    BY <1>h DEF HostOK
  <1>p. proc \in [Pids -> ProcStates] /\ watch \subseteq Process
        /\ tracked \in Process \cup {NoProcess} /\ call \in [Calls -> CallType]
        /\ pidFile \in Pids \cup {None}
    BY DEF TypeOK, CallType
  <1>1. CASE ProcessStep
    <2> PICK p \in Pids : TryLock(p) \/ Register(p) \/ Heartbeat(p) \/ Finish(p)
                          \/ Crash(p) \/ Compromised(p)
      BY <1>1 DEF ProcessStep
    <2>1. CASE TryLock(p)
      BY <1>h, <1>t, <2>1 DEF TryLock, HostOK, ProcStates
    <2>2. CASE Register(p)
      BY <1>h, <1>t, <2>2 DEF Register, HostOK, ProcStates, Unlocked
    <2>3. CASE Heartbeat(p)
      BY <1>h, <2>3 DEF Heartbeat, HostOK, ProcStates
    <2>4. CASE Finish(p)
      BY <1>h, <2>4 DEF Finish, HostOK, ProcStates, Unlocked
    <2>5. CASE Crash(p)
      BY <1>h, <1>t, <2>5 DEF Crash, HostOK, Unlocked
    <2>6. CASE Compromised(p)
      BY <1>l, <1>t, <2>6 DEF Compromised
    <2> QED BY <2>1, <2>2, <2>3, <2>4, <2>5, <2>6
  <1>2. CASE CallStep
    <2> PICK c \in Calls :
          \/ \E op \in {"start", "stop", "restart"} : CallArrives(c, op)
          \/ StopKill(c) \/ StopReturns(c) \/ StopThrows(c) \/ StartStep(c)
          \/ StopOrphan(c) \/ PollOrphan(c) \/ CleanUp(c)
          \/ RecoverEvicts(c) \/ Shutdown(c) \/ ShutdownEnds(c)
      BY <1>2 DEF CallStep
    <2>t. call[c].target.pid \in Pids \cup {None}
      BY <1>p DEF CallType
    <2>1. CASE \E op \in {"start", "stop", "restart"} : CallArrives(c, op)
      <3>1. CASE UNCHANGED proc
        BY <1>l, <1>p, <2>1, <3>1 DEF CallArrives
      <3>2. CASE proc' = [proc EXCEPT ![tracked.pid] = Term(tracked.pid)]
        BY <1>l, <1>o, <1>p, <1>t, <2>1, <3>2 DEF CallArrives
      <3> QED BY <2>1, <3>1, <3>2 DEF CallArrives, Terminate
    <2>2. CASE StopKill(c)
      BY <1>l, <1>o, <1>p, <1>t, <2>2 DEF StopKill
    <2>3. CASE StopReturns(c) \/ StopThrows(c)
      BY <1>k, <2>3 DEF StopReturns, StopThrows
    <2>4. CASE StartStep(c)
      BY <1>l, <1>p, <2>4, Started DEF StartStep
    <2>5. CASE StopOrphan(c)
      BY <1>l, <1>o, <1>p, <1>t, <2>5 DEF StopOrphan
    <2>6. CASE PollOrphan(c)
      BY <1>l, <1>o, <1>p, <1>t, <2>6 DEF PollOrphan
    <2>7. CASE CleanUp(c)
      BY <1>h, <2>7 DEF CleanUp, HostOK
    <2>8. CASE RecoverEvicts(c)
      BY <1>l, <1>o, <1>p, <1>t, <2>8 DEF RecoverEvicts, Terminate
    <2>9. CASE Shutdown(c)
      <3>1. CASE UNCHANGED proc
        BY <1>l, <1>p, <2>9, <3>1 DEF Shutdown
      <3>2. CASE proc' = [proc EXCEPT ![tracked.pid] = Term(tracked.pid)]
        BY <1>l, <1>o, <1>p, <1>t, <2>9, <3>2 DEF Shutdown
      <3> QED BY <2>9, <3>1, <3>2 DEF Shutdown, Terminate
    <2>10. CASE ShutdownEnds(c)
      BY <1>l, <1>p, <2>10 DEF ShutdownEnds, GoesDown, ProcStates
    <2> QED BY <2>1, <2>2, <2>3, <2>4, <2>5, <2>6, <2>7, <2>8, <2>9, <2>10
  <1>3. CASE Stale \/ Forget
    BY <1>h, <1>k, <1>3 DEF Stale, Forget, HostOK
  <1>4. ASSUME NEW w \in watch, HandleAgentExit(w) PROVE HostOK'
    <2>1. Buried(w) \in [Pids -> ProcStates]
      BY <1>p DEF Buried, ProcStates
    <2>2. proc' = Buried(w) \/ \E p \in Pids : StartAgent(p, Buried(w))
      BY <1>4 DEF HandleAgentExit
    <2>3. UNCHANGED <<lock, pidFile>>
      BY <1>4 DEF HandleAgentExit
    <2> QED BY <1>l, <2>1, <2>2, <2>3, Started
  <1>5. CASE ScanBegin \/ ScanEnd
    BY <1>k, <1>5 DEF ScanBegin, ScanEnd
  <1>6. CASE Boot \/ RecoverCopies
    BY <1>k, <1>6 DEF Boot, RecoverCopies
  <1>7. CASE RecoverAdopts
    BY <1>k, <1>7 DEF RecoverAdopts
  <1>8. CASE RecoverStarts
    BY <1>l, <1>p, <1>8, Started DEF RecoverStarts
  <1>9. CASE SupervisorExit
    BY <1>l, <1>p, <1>9 DEF SupervisorExit, GoesDown, ProcStates
  <1>10. CASE UNCHANGED vars
    BY <1>k, <1>10 DEF vars
  <1> QED
    BY <1>1, <1>2, <1>3, <1>4, <1>5, <1>6, <1>7, <1>8, <1>9, <1>10 DEF Next

LEMMA NextCalls == TypeOK /\ [Next]_vars => CallsOK'
  <1> SUFFICES ASSUME TypeOK, [Next]_vars PROVE CallsOK'
    OBVIOUS
  <1>c. call \in [Calls -> CallType]
    BY TypeParts DEF CallsOK
  <1>k. UNCHANGED call => CallsOK'
    BY <1>c DEF CallsOK
  <1>x. \A c \in Calls, x \in CallType : call' = [call EXCEPT ![c] = x] => CallsOK'
    BY <1>c DEF CallsOK
  <1>i. \A op \in Ops, pc \in CallPcs :
          [IdleCall EXCEPT !.op = op, !.pc = pc] \in CallType
    BY ProcessTypes DEF IdleCall, CallType
  <1>i2. \A op \in Ops, pc \in CallPcs :
          [IdleCall EXCEPT !.pc = pc, !.op = op] \in CallType
    BY ProcessTypes DEF IdleCall, CallType
  <1>w. tracked \in Process \cup {NoProcess} /\ pidFile \in Pids \cup {None}
        /\ recovery.pid \in Pids \cup {None}
    BY DEF TypeOK
  <1>t. ASSUME NEW c \in Calls, NEW op \in Ops, NEW w \in [pid : Pids \cup {None}, adopted : BOOLEAN],
               Terminate(c, op, w)
        PROVE  CallsOK'
    <2> DEFINE pc == IF w.adopted /\ IsAlive(w.pid) /\ ~Lives(w.pid) THEN "leaving" ELSE "waiting"
    <2>1. pc \in CallPcs
      BY DEF CallPcs
    <2>2. call' = [call EXCEPT ![c] = [op |-> op, target |-> w, pc |-> pc]]
      BY <1>t DEF Terminate
    <2>3. [op |-> op, target |-> w, pc |-> pc] \in CallType
      BY <2>1 DEF CallType
    <2> QED BY <1>x, <2>2, <2>3
  <1>g. \A c \in Calls : call[c].op \in Ops /\ call[c].target \in [pid : Pids \cup {None}, adopted : BOOLEAN]
    BY <1>c DEF CallType
  <1>r. ASSUME NEW c \in Calls, NEW pc \in CallPcs, Resume(c, pc) PROVE CallsOK'
    <2> DEFINE op == IF pc = "idle" THEN "start" ELSE call[c].op
    <2>1. op \in Ops
      BY <1>g DEF Ops
    <2>2. call' = [call EXCEPT ![c] = [IdleCall EXCEPT !.pc = pc, !.op = op]]
      BY <1>r DEF Resume
    <2>3. [IdleCall EXCEPT !.pc = pc, !.op = op] \in CallType
      BY <1>i2, <2>1
    <2> QED BY <1>x, <2>2, <2>3
  <1>e. \A c \in Calls, pc \in CallPcs : call' = [call EXCEPT ![c].pc = pc] => CallsOK'
    BY <1>c DEF CallsOK, CallType
  <1>1. CASE ProcessStep
    BY <1>1, <1>k DEF ProcessStep, TryLock, Register, Heartbeat, Finish, Crash, Compromised
  <1>2. CASE CallStep
    <2> PICK c \in Calls :
          \/ \E op \in {"start", "stop", "restart"} : CallArrives(c, op)
          \/ StopKill(c) \/ StopReturns(c) \/ StopThrows(c) \/ StartStep(c)
          \/ StopOrphan(c) \/ PollOrphan(c) \/ CleanUp(c)
          \/ RecoverEvicts(c) \/ Shutdown(c) \/ ShutdownEnds(c)
      BY <1>2 DEF CallStep
    <2>1. ASSUME NEW op \in {"start", "stop", "restart"}, CallArrives(c, op) PROVE CallsOK'
      <3>0. op \in Ops /\ {"starting", "orphan"} \subseteq CallPcs
        BY DEF Ops, CallPcs
      <3>1. CASE op = "start" \/ tracked = NoProcess
        <4>1. \E pc \in {"starting", "orphan"} :
                call' = [call EXCEPT ![c] = [IdleCall EXCEPT !.op = op, !.pc = pc]]
          BY <2>1, <3>1 DEF CallArrives
        <4> QED BY <1>i, <1>x, <3>0, <4>1
      <3>2. CASE op # "start" /\ tracked # NoProcess
        <4>1. Terminate(c, op, tracked)
          BY <2>1, <3>2 DEF CallArrives
        <4> QED BY <1>t, <1>w, <3>0, <4>1, ProcessTypes
      <3> QED BY <3>1, <3>2
    <2>2. CASE StopKill(c)
      <3>1. \E pc \in {"waiting", "killed", "leaving"} : call' = [call EXCEPT ![c].pc = pc]
        BY <2>2 DEF StopKill
      <3>2. {"waiting", "killed", "leaving"} \subseteq CallPcs
        BY DEF CallPcs
      <3> QED BY <1>e, <3>1, <3>2
    <2>3. CASE StopReturns(c) \/ StopThrows(c) \/ CleanUp(c) \/ StartStep(c)
      <3>1. \E pc \in {"starting", "idle"} : Resume(c, pc)
        BY <2>3 DEF StopReturns, StopThrows, CleanUp, StartStep, Next1
      <3>2. {"starting", "idle"} \subseteq CallPcs
        BY DEF CallPcs
      <3> QED BY <1>r, <3>1, <3>2
    <2>4. CASE StopOrphan(c)
      <3>1. CASE IsLockHeld /\ pidFile # None
        <4>1. call' = [call EXCEPT ![c].pc = "polling", ![c].target = [NoProcess EXCEPT !.pid = pidFile]]
          BY <2>4, <3>1 DEF StopOrphan
        <4>2. call' = [call EXCEPT ![c] = [call[c] EXCEPT !.pc = "polling",
                                             !.target = [NoProcess EXCEPT !.pid = pidFile]]]
          BY <1>c, <4>1 DEF CallType
        <4>3. [call[c] EXCEPT !.pc = "polling", !.target = [NoProcess EXCEPT !.pid = pidFile]] \in CallType
          BY <1>c, <1>w DEF CallType, CallPcs, NoProcess
        <4> QED BY <1>x, <4>2, <4>3
      <3>2. CASE ~(IsLockHeld /\ pidFile # None)
        BY <1>e, <2>4, <3>2 DEF StopOrphan, CallPcs
      <3> QED BY <3>1, <3>2
    <2>5. CASE PollOrphan(c)
      BY <1>e, <2>5 DEF PollOrphan, CallPcs
    <2>6. CASE RecoverEvicts(c)
      <3>1. recovery.pid \in Pids
        BY <1>w, <2>6 DEF RecoverEvicts
      <3>2. [pid |-> recovery.pid, adopted |-> TRUE] \in [pid : Pids \cup {None}, adopted : BOOLEAN]
        BY <3>1
      <3> QED BY <1>t, <2>6, <3>2 DEF RecoverEvicts, Ops
    <2>7. CASE Shutdown(c)
      <3>1. CASE tracked # NoProcess
        BY <1>t, <1>w, <2>7, <3>1, ProcessTypes DEF Shutdown, Ops
      <3>2. CASE tracked = NoProcess
        BY <1>i, <1>x, <2>7, <3>2 DEF Shutdown, Ops, CallPcs
      <3> QED BY <3>1, <3>2
    <2>8. CASE ShutdownEnds(c)
      <3>1. IdleCall \in CallType
        BY ProcessTypes DEF IdleCall, CallType, Ops, CallPcs
      <3> QED BY <2>8, <3>1 DEF ShutdownEnds, GoesDown, CallsOK
    <2> QED BY <2>1, <2>2, <2>3, <2>4, <2>5, <2>6, <2>7, <2>8
  <1>3. CASE Stale \/ Forget
    BY <1>k, <1>3 DEF Stale, Forget
  <1>4. ASSUME NEW w \in watch, HandleAgentExit(w) PROVE CallsOK'
    BY <1>k, <1>4 DEF HandleAgentExit
  <1>5. CASE ScanBegin \/ ScanEnd
    BY <1>k, <1>5 DEF ScanBegin, ScanEnd
  <1>6. CASE Boot \/ RecoverCopies
    BY <1>k, <1>6 DEF Boot, RecoverCopies
  <1>7. CASE RecoverAdopts
    BY <1>k, <1>7 DEF RecoverAdopts
  <1>8. CASE RecoverStarts
    BY <1>k, <1>8 DEF RecoverStarts
  <1>9. CASE SupervisorExit
    <2>1. IdleCall \in CallType
      BY ProcessTypes DEF IdleCall, CallType, Ops, CallPcs
    <2> QED BY <1>9, <2>1 DEF SupervisorExit, GoesDown, CallsOK
  <1>10. CASE UNCHANGED vars
    BY <1>k, <1>10 DEF vars
  <1> QED
    BY <1>1, <1>2, <1>3, <1>4, <1>5, <1>6, <1>7, <1>8, <1>9, <1>10 DEF Next

\* What the supervisor keeps in memory.
LEMMA NextMind == TypeOK /\ [Next]_vars => MindOK'
  <1> SUFFICES ASSUME TypeOK, [Next]_vars PROVE MindOK'
    OBVIOUS
  <1> DEFINE Bits == up \in BOOLEAN /\ closing \in BOOLEAN /\ flag \in BOOLEAN /\ scan \in BOOLEAN
             Kept == tracked \in Process \cup {NoProcess} /\ watch \subseteq Process
             Counted == recent \in 0..Budget
             Revived == recovery \in [pc : RecoveryPcs, pid : Pids \cup {None}]
  <1>m. MindOK <=> Bits /\ Kept /\ Counted /\ Revived
    BY Zenon DEF MindOK
  <1>a. Bits /\ Kept /\ Counted /\ Revived
    BY <1>m, TypeParts
  <1>m2. MindOK' <=> Bits' /\ Kept' /\ Counted' /\ Revived'
    BY <1>m, Zenon DEF MindOK
  <1>b. Budget \in Nat
    BY LifecycleAssumption DEF LifecycleAssumption
  <1>r. record.pid \in Pids \cup {None} /\ proc \in [Pids -> ProcStates]
    BY DEF TypeOK, Record
  <1>1. up' \in BOOLEAN /\ closing' \in BOOLEAN
    <2>1. up' \in BOOLEAN
      BY <1>a, Zenon DEF Next, ProcessStep, CallStep, vars, sup, TryLock, Register,
           Heartbeat, Finish, Crash, Compromised, CallArrives, StopKill, StopReturns, StopThrows,
           StartStep, StopOrphan, PollOrphan, CleanUp, RecoverEvicts, Shutdown, ShutdownEnds,
           Stale, Forget, HandleAgentExit, ScanBegin, ScanEnd, Boot, RecoverCopies,
           RecoverAdopts, RecoverStarts, SupervisorExit, GoesDown
    <2>2. closing' \in BOOLEAN
      BY <1>a, Zenon DEF Next, ProcessStep, CallStep, vars, sup, TryLock, Register,
           Heartbeat, Finish, Crash, Compromised, CallArrives, StopKill, StopReturns, StopThrows,
           StartStep, StopOrphan, PollOrphan, CleanUp, RecoverEvicts, Shutdown, ShutdownEnds,
           Stale, Forget, HandleAgentExit, ScanBegin, ScanEnd, Boot, RecoverCopies,
           RecoverAdopts, RecoverStarts, SupervisorExit, GoesDown
    <2> QED BY <2>1, <2>2
  <1>2. flag' \in BOOLEAN /\ scan' \in BOOLEAN
    BY <1>a, ZenonT(60) DEF Next, ProcessStep, CallStep, vars, sup, TryLock, Register,
         Heartbeat, Finish, Crash, Compromised, CallArrives, StopKill, StopReturns, StopThrows,
         StartStep, StopOrphan, PollOrphan, CleanUp, RecoverEvicts, Shutdown, ShutdownEnds,
         Stale, Forget, HandleAgentExit, ScanBegin, ScanEnd, Boot, RecoverCopies,
         RecoverAdopts, RecoverStarts, SupervisorExit, GoesDown
  <1>3. recent' = recent \/ recent' = 0 \/ (recent > 0 /\ recent' = recent - 1)
        \/ \E w \in watch : ExitState(w) = "restarts" /\ recent' = recent + 1
    BY Zenon DEF Next, ProcessStep, CallStep, vars, sup, TryLock, Register,
         Heartbeat, Finish, Crash, Compromised, CallArrives, StopKill, StopReturns, StopThrows,
         StartStep, StopOrphan, PollOrphan, CleanUp, RecoverEvicts, Shutdown, ShutdownEnds,
         Stale, Forget, HandleAgentExit, ScanBegin, ScanEnd, Boot, RecoverCopies,
         RecoverAdopts, RecoverStarts, SupervisorExit, GoesDown
  <1>4. Counted'
    <2>1. ASSUME NEW w \in watch, ExitState(w) = "restarts" PROVE recent < Budget
      <3>1. record.state \in RecordStates /\ "restarts" \notin RecordStates
        BY DEF TypeOK, Record, RecordStates
      <3>2. ~(recent >= Budget)
        BY <2>1, <3>1 DEF ExitState
      <3> QED BY <1>a, <1>b, <3>2
    <2> QED BY <1>3, <1>a, <1>b, <2>1
  <1>5. Kept'
    <2>1. UNCHANGED <<tracked, watch>> => Kept'
      BY <1>a
    <2>2. \A w : tracked' = NoProcess /\ watch' \in {watch, watch \ {w}, {}} => Kept'
      BY <1>a
    <2>3. \A p \in Pids : \A w, table :
            StartAgent(p, table) /\ watch' \in {watch \cup {tracked'}, (watch \ {w}) \cup {tracked'}}
            => Kept'
      BY <1>a, ProcessTypes DEF StartAgent
    <2>4. CASE \E w \in watch : HandleAgentExit(w)
      <3> PICK w \in watch : HandleAgentExit(w)
        BY <2>4
      <3>1. CASE tracked' = NoProcess /\ watch' = watch \ {w}
        BY <2>2, <3>1
      <3>2. CASE ~(tracked' = NoProcess /\ watch' = watch \ {w})
        BY <2>3, <3>2 DEF HandleAgentExit
      <3> QED BY <3>1, <3>2
    <2>5. CASE RecoverAdopts
      <3>1. [pid |-> recovery.pid, adopted |-> TRUE] \in Process
        BY <1>a, <2>5, ProcessTypes DEF RecoverAdopts
      <3> QED BY <1>a, <2>5, <3>1 DEF RecoverAdopts
    <2>6. CASE RecoverStarts \/ \E c \in Calls : StartStep(c)
      BY <2>1, <2>3, <2>6 DEF RecoverStarts, StartStep
    <2>7. CASE ScanEnd \/ SupervisorExit \/ \E c \in Calls : ShutdownEnds(c)
      BY <2>1, <2>2, <2>7 DEF ScanEnd, SupervisorExit, ShutdownEnds, GoesDown
    <2>8. CASE UNCHANGED <<tracked, watch>>
      BY <2>1, <2>8
    <2> QED
      BY <2>4, <2>5, <2>6, <2>7, <2>8, Zenon DEF Next, ProcessStep, CallStep, vars, sup, TryLock,
         Register, Heartbeat, Finish, Crash, Compromised, CallArrives, StopKill, StopReturns,
         StopThrows, StopOrphan, PollOrphan, CleanUp, RecoverEvicts, Shutdown, Stale, Forget,
         ScanBegin, Boot, RecoverCopies
  <1>6. Revived'
    <2>1. UNCHANGED recovery => Revived'
      BY <1>a
    <2>2. recovery' = Recovered \/ recovery' = [Recovered EXCEPT !.pc = "waiting"]
          \/ recovery' = [pc |-> "copied", pid |-> record.pid] => Revived'
      BY <1>r DEF Recovered, RecoveryPcs
    <2> QED
      BY <2>1, <2>2, Zenon DEF Next, ProcessStep, CallStep, vars, sup, TryLock, Register,
         Heartbeat, Finish, Crash, Compromised, CallArrives, StopKill, StopReturns, StopThrows,
         StartStep, StopOrphan, PollOrphan, CleanUp, RecoverEvicts, Shutdown, ShutdownEnds,
         Stale, Forget, HandleAgentExit, ScanBegin, ScanEnd, Boot, RecoverCopies,
         RecoverAdopts, RecoverStarts, SupervisorExit, GoesDown
  <1> HIDE DEF Bits, Kept, Counted, Revived
  <1>7. Bits'
    BY <1>1, <1>2, Zenon DEF Bits
  <1> QED BY <1>4, <1>5, <1>6, <1>7, <1>m2, Zenon

LEMMA NextPast == TypeOK /\ [Next]_vars => PastOK'
  <1> SUFFICES ASSUME TypeOK, [Next]_vars PROVE PastOK'
    OBVIOUS
  <1>a. PastOK
    BY TypeParts
  <1>1. wiped' \in BOOLEAN /\ mistaken' \in BOOLEAN
    <2>1. wiped' = wiped \/ wiped' = (wiped \/ Lives(lock))
      BY Zenon DEF Next, ProcessStep, CallStep, vars, sup, TryLock, Register,
         Heartbeat, Finish, Crash, Compromised, CallArrives, StopKill, StopReturns, StopThrows,
         StartStep, StopOrphan, PollOrphan, CleanUp, RecoverEvicts, Shutdown, ShutdownEnds,
         Stale, Forget, HandleAgentExit, ScanBegin, ScanEnd, Boot, RecoverCopies,
         RecoverAdopts, RecoverStarts, SupervisorExit, GoesDown, history
    <2>2. mistaken' = mistaken \/ mistaken' = (mistaken \/ LivePids # {} \/ watch # {})
          \/ mistaken' = (mistaken \/ tracked # NoProcess \/ record.state = "errored")
      BY Zenon DEF Next, ProcessStep, CallStep, vars, sup, TryLock, Register,
         Heartbeat, Finish, Crash, Compromised, CallArrives, StopKill, StopReturns, StopThrows,
         StartStep, StopOrphan, PollOrphan, CleanUp, RecoverEvicts, Shutdown, ShutdownEnds,
         Stale, Forget, HandleAgentExit, ScanBegin, ScanEnd, Boot, RecoverCopies,
         RecoverAdopts, RecoverStarts, SupervisorExit, GoesDown, history
    <2> QED BY <1>a, <2>1, <2>2, Zenon DEF PastOK
  <1>2. crossed' \in BOOLEAN
    <2>1. crossed' = crossed \/ crossed' = (crossed \/ ActiveCalls # {})
          \/ crossed' = (crossed \/ recovery.pc # "done" \/ ActiveCalls # {})
      BY Zenon DEF Next, ProcessStep, CallStep, vars, sup, TryLock, Register,
         Heartbeat, Finish, Crash, Compromised, CallArrives, StopKill, StopReturns, StopThrows,
         StartStep, StopOrphan, PollOrphan, CleanUp, RecoverEvicts, Shutdown, ShutdownEnds,
         Stale, Forget, HandleAgentExit, ScanBegin, ScanEnd, Boot, RecoverCopies,
         RecoverAdopts, RecoverStarts, SupervisorExit, GoesDown, history
    <2> QED BY <1>a, <2>1, Zenon DEF PastOK
  <1>3. events' \in 0..MaxEvents
    <2>1. UNCHANGED events \/ Happens
      BY Zenon DEF Next, ProcessStep, CallStep, vars, sup, TryLock, Register,
         Heartbeat, Finish, Crash, Compromised, CallArrives, StopKill, StopReturns, StopThrows,
         StartStep, StopOrphan, PollOrphan, CleanUp, RecoverEvicts, Shutdown, ShutdownEnds,
         Stale, Forget, HandleAgentExit, ScanBegin, ScanEnd, Boot, RecoverCopies,
         RecoverAdopts, RecoverStarts, SupervisorExit, GoesDown
    <2> QED BY <1>a, <2>1, LifecycleAssumption DEF PastOK, Happens, LifecycleAssumption
  <1>4. stopped' \subseteq Pids
    <2>1. UNCHANGED stopped \/ stopped' = {} \/ (\E w : stopped' = stopped \ {w})
          \/ (stopped' = stopped \cup {tracked.pid} /\ tracked # NoProcess)
      BY Zenon DEF Next, ProcessStep, CallStep, vars, sup, TryLock, Register,
         Heartbeat, Finish, Crash, Compromised, CallArrives, StopKill, StopReturns, StopThrows,
         StartStep, StopOrphan, PollOrphan, CleanUp, RecoverEvicts, Shutdown, ShutdownEnds,
         Stale, Forget, HandleAgentExit, ScanBegin, ScanEnd, Boot, RecoverCopies,
         RecoverAdopts, RecoverStarts, SupervisorExit, GoesDown, history
    <2>2. tracked # NoProcess => tracked.pid \in Pids
      BY ProcessTypes DEF TypeOK
    <2> QED BY <1>a, <2>1, <2>2 DEF PastOK
  <1> QED BY <1>1, <1>2, <1>3, <1>4, Zenon DEF PastOK

\* Type correctness; the automatic restarts of a minute stay in the budget.
THEOREM TypeCorrect == Spec => []TypeOK
  <1>1. TypeOK /\ [Next]_vars => TypeOK'
    <2> SUFFICES ASSUME TypeOK, [Next]_vars PROVE TypeOK'
      OBVIOUS
    <2>1. RecordOK' /\ MindOK' /\ CallsOK' /\ HostOK' /\ PastOK'
      BY NextRecord, NextMind, NextCalls, NextHost, NextPast
    <2> QED
      BY <2>1, Zenon DEF TypeOK, RecordOK, MindOK, CallsOK, CallType, HostOK, PastOK
  <1> QED BY <1>1, InitType, PTL DEF Spec

-----------------------------------------------------------------------------
(* The supervisor tracks no process that nobody waits for.                 *)

LEMMA InitWatched == Init => TrackedIsWatched
  BY DEF Init, TrackedIsWatched

LEMMA StartWatched ==
    ASSUME NEW p \in Pids, NEW table, NEW rest,
           StartAgent(p, table), watch' = rest \cup {tracked'}
    PROVE  TrackedIsWatched'
  BY DEF TrackedIsWatched

LEMMA NextWatched == TrackedIsWatched /\ [Next]_vars => TrackedIsWatched'
  <1> SUFFICES ASSUME TrackedIsWatched, [Next]_vars PROVE TrackedIsWatched'
    OBVIOUS
  <1>0. UNCHANGED <<tracked, watch>> => TrackedIsWatched'
    BY DEF TrackedIsWatched
  <1>1. CASE ProcessStep
    BY <1>0, <1>1 DEF ProcessStep, TryLock, Register, Heartbeat, Finish, Crash,
                      Compromised, sup
  <1>2. CASE CallStep
    <2> PICK c \in Calls :
          \/ \E op \in {"start", "stop", "restart"} : CallArrives(c, op)
          \/ StopKill(c) \/ StopReturns(c) \/ StopThrows(c) \/ StartStep(c)
          \/ StopOrphan(c) \/ PollOrphan(c) \/ CleanUp(c)
          \/ RecoverEvicts(c) \/ Shutdown(c) \/ ShutdownEnds(c)
      BY <1>2 DEF CallStep
    <2>1. CASE \E op \in {"start", "stop", "restart"} : CallArrives(c, op)
      BY <1>0, <2>1 DEF CallArrives
    <2>2. CASE StopKill(c) \/ StopReturns(c) \/ StopThrows(c)
      BY <1>0, <2>2 DEF StopKill, StopReturns, StopThrows, sup
    <2>3. CASE StartStep(c)
      BY <1>0, <2>3, StartWatched DEF StartStep
    <2>4. CASE StopOrphan(c) \/ PollOrphan(c) \/ CleanUp(c)
      BY <1>0, <2>4 DEF StopOrphan, PollOrphan, CleanUp, sup
    <2>5. CASE RecoverEvicts(c) \/ Shutdown(c)
      BY <1>0, <2>5 DEF RecoverEvicts, Shutdown, sup
    <2>6. CASE ShutdownEnds(c)
      BY <2>6 DEF ShutdownEnds, GoesDown, TrackedIsWatched
    <2> QED BY <2>1, <2>2, <2>3, <2>4, <2>5, <2>6
  <1>3. CASE Stale \/ Forget
    BY <1>0, <1>3 DEF Stale, Forget, sup
  <1>4. ASSUME NEW w \in watch, HandleAgentExit(w) PROVE TrackedIsWatched'
    <2>1. CASE tracked' = NoProcess
      BY <2>1 DEF TrackedIsWatched
    <2>2. CASE tracked' # NoProcess
      <3>1. \E p \in Pids : StartAgent(p, Buried(w)) /\ watch' = (watch \ {w}) \cup {tracked'}
        BY <1>4, <2>2 DEF HandleAgentExit
      <3> QED BY <3>1, StartWatched
    <2> QED BY <2>1, <2>2
  <1>5. CASE ScanBegin \/ ScanEnd
    BY <1>0, <1>5 DEF ScanBegin, ScanEnd, sup, TrackedIsWatched
  <1>6. CASE Boot \/ RecoverCopies
    BY <1>0, <1>6 DEF Boot, RecoverCopies, sup
  <1>7. CASE RecoverAdopts
    BY <1>7 DEF RecoverAdopts, TrackedIsWatched
  <1>8. CASE RecoverStarts
    BY <1>0, <1>8, StartWatched DEF RecoverStarts
  <1>9. CASE SupervisorExit
    BY <1>9 DEF SupervisorExit, GoesDown, TrackedIsWatched
  <1>10. CASE UNCHANGED vars
    BY <1>0, <1>10 DEF vars, sup
  <1> QED
    BY <1>1, <1>2, <1>3, <1>4, <1>5, <1>6, <1>7, <1>8, <1>9, <1>10 DEF Next

\* Whatever process the supervisor tracks, its exit will be handled: true of
\* every path of supervisor.ts that starts or adopts one.
THEOREM AllWatched == Spec => []TrackedIsWatched
  BY InitWatched, NextWatched, PTL DEF Spec

-----------------------------------------------------------------------------
(* The lock.                                                               *)

\* A step that leaves the lock alone and makes nobody hold it keeps it so.
LEMMA HolderStep ==
    ASSUME OneHolder, lock' = lock, wiped' = wiped,
           \A q \in Pids : proc'[q] \in Holding => proc[q] \in Holding
    PROVE  OneHolder'
  BY DEF OneHolder, Holders

LEMMA InitHolder == Init => OneHolder
  BY DEF Init, OneHolder, Holders, Holding

LEMMA NextHolder == TypeOK /\ OneHolder /\ [Next]_vars => OneHolder'
  <1> SUFFICES ASSUME TypeOK, OneHolder, [Next]_vars PROVE OneHolder'
    OBVIOUS
  <1>h. HostOK
    BY TypeParts
  <1>p. proc \in [Pids -> ProcStates] /\ None \notin Pids /\ wiped \in BOOLEAN
    BY LifecycleAssumption DEF TypeOK, LifecycleAssumption
  <1>k. UNCHANGED <<lock, wiped, proc>> => OneHolder'
    BY HolderStep
  <1>t. \A p : UNCHANGED <<lock, wiped>>
               /\ proc' \in {proc, [proc EXCEPT ![p] = Term(p)], [proc EXCEPT ![p] = Kill(p)],
                            [proc EXCEPT ![p] = Failed(p)]} => OneHolder'
    <2> SUFFICES ASSUME NEW p, UNCHANGED <<lock, wiped>>,
                        proc' \in {proc, [proc EXCEPT ![p] = Term(p)], [proc EXCEPT ![p] = Kill(p)],
                                  [proc EXCEPT ![p] = Failed(p)]}
                 PROVE  OneHolder'
      OBVIOUS
    <2>1. CASE p \notin Pids
      BY <1>k, <1>p, <2>1
    <2>2. CASE p \in Pids
      <3>1. (Term(p) \in Holding => proc[p] \in Holding) /\ Kill(p) \notin Holding
            /\ Failed(p) \notin Holding
        BY <1>h, <2>2, Signals DEF Holding
      <3>2. \A q \in Pids : proc'[q] \in Holding => proc[q] \in Holding
        BY <1>p, <3>1
      <3> QED BY <3>2, HolderStep
    <2> QED BY <2>1, <2>2
  <1>n. (lock = None \/ ~Lives(lock)) /\ ~wiped => Holders = {}
    BY <1>p DEF OneHolder, Holders, Lives, Living
  <1>s. \A p \in Pids, table \in [Pids -> ProcStates] :
          /\ UNCHANGED <<lock, wiped>> /\ StartAgent(p, table)
          /\ \A q \in Pids : table[q] \in Holding => proc[q] \in Holding
          => OneHolder'
    BY HolderStep, Started
  <1>1. CASE ProcessStep
    <2> PICK p \in Pids : TryLock(p) \/ Register(p) \/ Heartbeat(p) \/ Finish(p)
                          \/ Crash(p) \/ Compromised(p)
      BY <1>1 DEF ProcessStep
    <2>o. ~wiped /\ p \in Holders => \A q \in Holders : q = p
      BY DEF OneHolder
    <2>e. ~wiped /\ p \in Holders /\ UNCHANGED wiped
          /\ proc' \in {[proc EXCEPT ![p] = Failed(p)], [proc EXCEPT ![p] = "gone"]} => Holders' = {}
      BY <1>h, <1>p, <2>o, Signals DEF Holders, Holding
    <2>1. CASE TryLock(p)
      <3>1. CASE IsLockHeld
        BY <1>t, <2>1, <3>1 DEF TryLock, history
      <3>2. CASE ~IsLockHeld
        <4>1. proc' = [proc EXCEPT ![p] = "locked"] /\ lock' = p /\ wiped' = wiped
          BY <2>1, <3>2 DEF TryLock, history
        <4>2. ~wiped => Holders = {}
          BY <1>n, <3>2 DEF IsLockHeld
        <4> QED BY <1>p, <4>1, <4>2 DEF OneHolder, Holders
      <3> QED BY <3>1, <3>2
    <2>2. CASE Register(p)
      <3>1. CASE up /\ ~closing
        <4>1. proc' = [proc EXCEPT ![p] = "up"] /\ UNCHANGED <<lock, wiped>> /\ proc[p] = "locked"
          BY <2>2, <3>1 DEF Register, history
        <4> QED BY <1>p, <4>1, HolderStep DEF Holding
      <3>2. CASE ~(up /\ ~closing)
        <4>1. proc' = [proc EXCEPT ![p] = Failed(p)] /\ wiped' = wiped /\ p \in Holders
          BY <2>2, <3>2 DEF Register, history, Holders, Holding
        <4> QED BY <2>e, <4>1 DEF OneHolder
      <3> QED BY <3>1, <3>2
    <2>3. CASE Heartbeat(p)
      <3>1. \A q \in Pids : proc'[q] \in Holding => proc[q] \in Holding
        BY <1>p, <2>3 DEF Heartbeat, Holding
      <3> QED BY <2>3, <3>1, HolderStep DEF Heartbeat, history
    <2>4. CASE Finish(p)
      <3>1. proc' = [proc EXCEPT ![p] = "gone"] /\ wiped' = wiped /\ p \in Holders
        BY <2>4 DEF Finish, history, Holders, Holding
      <3> QED BY <2>e, <3>1 DEF OneHolder
    <2>5. CASE Crash(p)
      <3>1. proc' = [proc EXCEPT ![p] = Failed(p)] /\ wiped' = wiped
        BY <2>5 DEF Crash, history
      <3>2. CASE proc[p] \in Holding
        BY <2>e, <3>1, <3>2 DEF OneHolder, Holders
      <3>3. CASE proc[p] \notin Holding
        BY <1>t, <2>5, <3>1, <3>3 DEF Crash, Unlocked
      <3> QED BY <3>2, <3>3
    <2>6. CASE Compromised(p)
      BY <1>t, <2>6 DEF Compromised, history
    <2> QED BY <2>1, <2>2, <2>3, <2>4, <2>5, <2>6
  <1>2. CASE CallStep
    <2> PICK c \in Calls :
          \/ \E op \in {"start", "stop", "restart"} : CallArrives(c, op)
          \/ StopKill(c) \/ StopReturns(c) \/ StopThrows(c) \/ StartStep(c)
          \/ StopOrphan(c) \/ PollOrphan(c) \/ CleanUp(c)
          \/ RecoverEvicts(c) \/ Shutdown(c) \/ ShutdownEnds(c)
      BY <1>2 DEF CallStep
    <2>1. CASE \E op \in {"start", "stop", "restart"} : CallArrives(c, op)
      BY <1>t, <2>1 DEF CallArrives, Terminate
    <2>2. CASE StopKill(c)
      BY <1>t, <2>2 DEF StopKill, history
    <2>3. CASE StopReturns(c) \/ StopThrows(c)
      BY <1>k, <2>3 DEF StopReturns, StopThrows, os, history
    <2>4. CASE StartStep(c)
      BY <1>k, <1>p, <1>s, <2>4 DEF StartStep, history
    <2>5. CASE StopOrphan(c)
      BY <1>t, <2>5 DEF StopOrphan, history
    <2>6. CASE PollOrphan(c)
      BY <1>t, <2>6 DEF PollOrphan, history
    <2>7. CASE CleanUp(c)
      <3>1. UNCHANGED proc /\ wiped' = (wiped \/ Lives(lock))
        BY <2>7 DEF CleanUp
      <3>2. ~wiped' => ~wiped /\ ~Lives(lock)
        BY <3>1
      <3>3. ~wiped' => Holders = {}
        BY <1>n, <3>2
      <3> QED BY <3>1, <3>3 DEF OneHolder, Holders
    <2>8. CASE RecoverEvicts(c) \/ Shutdown(c)
      BY <1>t, <2>8 DEF RecoverEvicts, Shutdown, Terminate, history
    <2>9. CASE ShutdownEnds(c)
      <3>1. \A q \in Pids : proc'[q] \in Holding => proc[q] \in Holding
        BY <1>p, <2>9 DEF ShutdownEnds, GoesDown, Holding
      <3> QED BY <2>9, <3>1, HolderStep DEF ShutdownEnds
    <2> QED BY <2>1, <2>2, <2>3, <2>4, <2>5, <2>6, <2>7, <2>8, <2>9
  <1>3. CASE Stale
    <2>1. ~wiped => Holders = {}
      BY <1>n, <1>3 DEF Stale
    <2> QED BY <1>3, <2>1 DEF Stale, history, OneHolder, Holders
  <1>4. ASSUME NEW w \in watch, HandleAgentExit(w) PROVE OneHolder'
    <2>1. Buried(w) \in [Pids -> ProcStates]
          /\ \A q \in Pids : Buried(w)[q] \in Holding => proc[q] \in Holding
      BY <1>p DEF Buried, ProcStates, Holding
    <2>2. UNCHANGED <<lock, wiped>>
          /\ (proc' = Buried(w) \/ \E p \in Pids : StartAgent(p, Buried(w)))
      BY <1>4 DEF HandleAgentExit
    <2> QED BY <1>s, <2>1, <2>2, HolderStep
  <1>5. CASE Forget \/ ScanBegin \/ ScanEnd \/ Boot \/ RecoverCopies \/ RecoverAdopts
    BY <1>k, <1>5 DEF Forget, ScanBegin, ScanEnd, Boot, RecoverCopies, RecoverAdopts, os, history
  <1>6. CASE RecoverStarts
    BY <1>k, <1>p, <1>s, <1>6 DEF RecoverStarts
  <1>7. CASE SupervisorExit
    <2>1. \A q \in Pids : proc'[q] \in Holding => proc[q] \in Holding
      BY <1>p, <1>7 DEF SupervisorExit, GoesDown, Holding
    <2> QED BY <1>7, <2>1, HolderStep DEF SupervisorExit
  <1>8. CASE UNCHANGED vars
    BY <1>k, <1>8 DEF vars, os, history
  <1> QED
    BY <1>1, <1>2, <1>3, <1>4, <1>5, <1>6, <1>7, <1>8 DEF Next

\* The lock excludes a second process until a cleanup takes it from a living
\* one (supervisor.ts:2806-2822): every other removal finds its owner dead.
THEOREM LockExcludes == Spec => []OneHolder
  <1>1. TypeOK /\ OneHolder /\ [Next]_vars => OneHolder'
    BY NextHolder
  <1> QED BY <1>1, InitHolder, TypeCorrect, PTL DEF Spec

-----------------------------------------------------------------------------
(* The mark of an intended stop.                                           *)

\* A stop that found no tracked process looks for an orphan.
Looking(c) == call[c].pc \in {"orphan", "polling", "cleanup"}

\* Only an adopted process is killed by a stop that goes on without its exit.
KillsAdopted == \A c \in Calls : call[c].pc = "killed" => call[c].target.adopted

\* While no living process was misjudged, no process is waited for but the
\* tracked one, the record does not call it errored, and whatever a stop has
\* signalled is still waited for.
Matched ==
    /\ \A w \in watch : w = tracked
    /\ watch # {} => record.state # "errored"
    /\ \A p \in stopped : \E w \in watch : w.pid = p

\* While calls keep apart too, a stop that looks for an orphan is alone, and
\* the mark stands as long as a child that was signalled.
Marked ==
    /\ \A c \in Calls : Looking(c) => stopped = {}
    /\ \A w \in watch : ~w.adopted /\ w.pid \in stopped => flag

MInv ==
    /\ KillsAdopted
    /\ ~mistaken => Matched
    /\ FlagHasOwner
    /\ ~mistaken /\ ~crossed => Marked

LInv == TypeOK /\ TrackedIsWatched /\ MInv

LEMMA InitMarks == Init => MInv
  BY DEF Init, MInv, KillsAdopted, Matched, FlagHasOwner, Marked, Looking, IdleCall

\* None is no process.
LEMMA NoneIsNoProcess == NoProcess \notin Process
  BY ProcessTypes, LifecycleAssumption DEF NoProcess, LifecycleAssumption

\* A step that leaves alone what the supervisor tracks, waits for and has
\* marked, and in which no stop begins or ends its look for an orphan.
QuietStep ==
    /\ UNCHANGED <<tracked, watch, flag, stopped>>
    /\ mistaken => mistaken'
    /\ crossed => crossed'
    /\ record'.state = "errored" => record.state = "errored"
    /\ \A c \in Calls : Looking(c)' <=> Looking(c)
    /\ KillsAdopted'

LEMMA QuietKeeps == MInv /\ QuietStep => MInv'
  <1> SUFFICES ASSUME MInv, QuietStep PROVE MInv'
    OBVIOUS
  <1>1. ~mistaken' => Matched'
    BY DEF MInv, QuietStep, Matched
  <1>2. FlagHasOwner'
    BY DEF MInv, QuietStep, FlagHasOwner, Looking
  <1>3. ~mistaken' /\ ~crossed' => Marked'
    BY DEF MInv, QuietStep, Marked
  <1> QED BY <1>1, <1>2, <1>3 DEF MInv, QuietStep

\* A call's progress is replaced, and only its own.
LEMMA CallReplaced ==
    ASSUME CallsOK, KillsAdopted, NEW c \in Calls, NEW x, call' = [call EXCEPT ![c] = x],
           x.pc = "killed" => x.target.adopted
    PROVE  /\ KillsAdopted'
           /\ \A d \in Calls \ {c} : Looking(d)' <=> Looking(d)
           /\ Looking(c)' <=> x.pc \in {"orphan", "polling", "cleanup"}
  <1>1. call'[c] = x /\ \A d \in Calls \ {c} : call'[d] = call[d]
    BY DEF CallsOK
  <1> QED BY <1>1 DEF KillsAdopted, Looking

\* A call that terminates a process waits for its exit, or leaves.
LEMMA Terminates ==
    ASSUME NEW c, NEW op, NEW w, Terminate(c, op, w)
    PROVE  \E x : call' = [call EXCEPT ![c] = x] /\ x.pc \in {"leaving", "waiting"}
  <1> DEFINE pc == IF w.adopted /\ IsAlive(w.pid) /\ ~Lives(w.pid) THEN "leaving" ELSE "waiting"
             x == [op |-> op, target |-> w, pc |-> pc]
  <1>1. call' = [call EXCEPT ![c] = x]
    BY DEF Terminate
  <1>2. x.pc \in {"leaving", "waiting"}
    OBVIOUS
  <1> QED BY <1>1, <1>2

\* A process is started when none is tracked.
LEMMA StartKeeps ==
    ASSUME LInv, tracked = NoProcess, NEW p \in Pids, NEW table, StartAgent(p, table),
           watch' = watch \cup {tracked'}, UNCHANGED <<flag, stopped, mistaken>>,
           crossed => crossed', \A c \in Calls : Looking(c)' <=> Looking(c), KillsAdopted'
    PROVE  MInv'
  <1>1. ~mistaken => watch = {} /\ stopped = {}
    BY NoneIsNoProcess DEF LInv, MInv, Matched, TypeOK
  <1>2. ~mistaken' => Matched'
    <2>1. record'.state # "errored"
      BY DEF StartAgent, Entry
    <2> QED BY <1>1, <2>1 DEF Matched
  <1>3. FlagHasOwner'
    BY <1>1 DEF LInv, MInv, FlagHasOwner, Looking
  <1>4. ~mistaken' /\ ~crossed' => Marked'
    BY <1>1 DEF Marked
  <1> QED BY <1>2, <1>3, <1>4 DEF MInv

\* The supervisor that goes down forgets everything.
LEMMA DownKeeps == GoesDown => MInv'
  <1> SUFFICES ASSUME GoesDown PROVE MInv'
    OBVIOUS
  <1>1. watch' = {} /\ stopped' = {} /\ flag' = FALSE
    BY DEF GoesDown
  <1>2. \A c \in Calls : call'[c].pc = "idle"
    BY DEF GoesDown, IdleCall
  <1> QED BY <1>1, <1>2 DEF MInv, KillsAdopted, Matched, FlagHasOwner, Marked, Looking

\* The exit of the one process that is waited for consumes the mark, and with
\* it every signal; the process that is started instead is a new one.
LEMMA ExitKeeps ==
    ASSUME LInv, NEW w \in watch, HandleAgentExit(w)
    PROVE  MInv'
  <1>1. UNCHANGED <<call, mistaken, crossed>> /\ stopped' = stopped \ {w.pid}
    BY DEF HandleAgentExit
  <1>2. ~mistaken => watch = {w} /\ stopped' = {} /\ record.state # "errored"
    BY <1>1 DEF LInv, MInv, Matched
  <1>3. record.state # "errored" =>
          /\ flag' = FALSE
          /\ \/ watch' = watch \ {w}
             \/ /\ watch' = (watch \ {w}) \cup {tracked'}
                /\ record'.state = "running"
    BY DEF HandleAgentExit, StartAgent, Entry
  <1>4. KillsAdopted'
    BY <1>1 DEF LInv, MInv, KillsAdopted
  <1>5. ~mistaken' => Matched'
    BY <1>1, <1>2, <1>3 DEF Matched
  <1>6. FlagHasOwner'
    BY <1>1, <1>2, <1>3 DEF FlagHasOwner
  <1>7. ~mistaken' /\ ~crossed' => Marked'
    BY <1>1, <1>2 DEF Marked
  <1> QED BY <1>4, <1>5, <1>6, <1>7 DEF MInv

\* A call that arrives raises the mark, and signals what is tracked or goes
\* to look for an orphan.
LEMMA ArrivalKeeps ==
    ASSUME LInv, NEW c \in Calls, NEW op \in {"start", "stop", "restart"}, CallArrives(c, op)
    PROVE  MInv'
  <1>a. CallsOK /\ MInv /\ TrackedIsWatched /\ watch \subseteq Process
    BY TypeParts DEF LInv, TypeOK
  <1>b. call[c].pc = "idle"
    BY DEF CallArrives, MayCall, Vacant, ActiveCalls
  <1>c. UNCHANGED <<record, tracked, watch, mistaken>>
        /\ (~crossed' => ~crossed /\ \A d \in Calls : call[d].pc = "idle")
    BY DEF CallArrives, ActiveCalls
  <1>1. CASE op = "start"
    <2> DEFINE x == [IdleCall EXCEPT !.op = op, !.pc = "starting"]
    <2>1. call' = [call EXCEPT ![c] = x] /\ UNCHANGED <<flag, stopped>>
      BY <1>1 DEF CallArrives
    <2>2. x.pc = "starting"
      BY DEF IdleCall
    <2> HIDE DEF x
    <2>3. KillsAdopted' /\ \A d \in Calls : Looking(d)' <=> Looking(d)
      BY <1>a, <1>b, <2>1, <2>2, CallReplaced DEF MInv, Looking
    <2> QED BY <1>a, <1>c, <2>1, <2>3, QuietKeeps DEF QuietStep
  <1>2. CASE op # "start" /\ tracked # NoProcess
    <2>1. /\ flag' = TRUE /\ stopped' = stopped \cup {tracked.pid}
          /\ Terminate(c, op, tracked)
      BY <1>2 DEF CallArrives
    <2>2. PICK x : call' = [call EXCEPT ![c] = x] /\ x.pc \in {"leaving", "waiting"}
      BY <2>1, Terminates
    <2>3. KillsAdopted' /\ \A d \in Calls : Looking(d)' => Looking(d)
      BY <1>a, <2>2, CallReplaced DEF MInv
    <2>4. tracked \in watch
      BY <1>2, <1>a DEF TrackedIsWatched
    <2>5. ~mistaken' => Matched'
      BY <1>a, <1>c, <2>1, <2>4 DEF MInv, Matched
    <2>6. FlagHasOwner'
      BY <1>c, <2>1, <2>4 DEF FlagHasOwner
    <2>7. ~mistaken' /\ ~crossed' => Marked'
      BY <1>c, <2>1, <2>3 DEF Marked, Looking
    <2> QED BY <2>3, <2>5, <2>6, <2>7 DEF MInv
  <1>3. CASE op # "start" /\ tracked = NoProcess
    <2> DEFINE x == [IdleCall EXCEPT !.op = op, !.pc = "orphan"]
    <2>1. call' = [call EXCEPT ![c] = x] /\ flag' = TRUE /\ UNCHANGED stopped
      BY <1>3 DEF CallArrives
    <2>2. x.pc = "orphan"
      BY DEF IdleCall
    <2> HIDE DEF x
    <2>3. KillsAdopted' /\ Looking(c)'
      BY <1>a, <2>1, <2>2, CallReplaced DEF MInv
    <2>4. ~mistaken => watch = {} /\ stopped = {}
      BY <1>3, <1>a, NoneIsNoProcess DEF MInv, Matched
    <2>5. ~mistaken' => Matched'
      BY <1>a, <1>c, <2>1 DEF MInv, Matched
    <2>6. FlagHasOwner'
      BY <2>3 DEF FlagHasOwner, Looking
    <2>7. ~mistaken' /\ ~crossed' => Marked'
      BY <1>c, <2>1, <2>4 DEF Marked
    <2> QED BY <2>3, <2>5, <2>6, <2>7 DEF MInv
  <1> QED BY <1>1, <1>2, <1>3

\* The recovery adopts a process.
LEMMA AdoptionKeeps == LInv /\ RecoverAdopts => MInv'
  <1> SUFFICES ASSUME LInv, RecoverAdopts PROVE MInv'
    OBVIOUS
  <1> DEFINE w == [pid |-> recovery.pid, adopted |-> TRUE]
  <1>1. /\ tracked' = w /\ watch' = watch \cup {w}
        /\ UNCHANGED <<record, flag, stopped, call>>
    BY DEF RecoverAdopts
  <1>2. ~mistaken' => ~mistaken /\ tracked = NoProcess /\ record.state # "errored"
    BY DEF RecoverAdopts
  <1>3. ~mistaken' => watch = {} /\ stopped = {}
    BY <1>2, NoneIsNoProcess DEF LInv, MInv, Matched, TypeOK
  <1>4. KillsAdopted'
    BY <1>1 DEF LInv, MInv, KillsAdopted
  <1>5. ~mistaken' => Matched'
    BY <1>1, <1>2, <1>3 DEF Matched
  <1>6. FlagHasOwner'
    BY <1>1, <1>2, <1>3 DEF LInv, MInv, FlagHasOwner
  <1>7. ~mistaken' /\ ~crossed' => Marked'
    BY <1>1, <1>3 DEF Marked
  <1> QED BY <1>4, <1>5, <1>6, <1>7 DEF MInv

\* The scan finds the lock free.
LEMMA ScanKeeps == LInv /\ ScanEnd => MInv'
  <1> SUFFICES ASSUME LInv, ScanEnd PROVE MInv'
    OBVIOUS
  <1>1. UNCHANGED <<watch, flag, stopped, call, crossed>>
    BY DEF ScanEnd
  <1>2. KillsAdopted' /\ \A c \in Calls : Looking(c)' <=> Looking(c)
    BY <1>1 DEF LInv, MInv, KillsAdopted, Looking
  <1>3. CASE IsLockHeld
    <2>1. UNCHANGED <<record, tracked, mistaken>>
      BY <1>3 DEF ScanEnd
    <2> QED BY <1>1, <1>2, <2>1, QuietKeeps DEF QuietStep, LInv
  <1>4. CASE ~IsLockHeld
    <2>1. ~mistaken' => ~mistaken /\ watch = {}
      BY <1>4 DEF ScanEnd
    <2>2. ~mistaken' => stopped = {}
      BY <2>1 DEF LInv, MInv, Matched
    <2>3. FlagHasOwner'
      BY <1>1, <2>1 DEF LInv, MInv, FlagHasOwner
    <2> QED BY <1>1, <1>2, <2>1, <2>2, <2>3 DEF MInv, Matched, Marked
  <1> QED BY <1>3, <1>4

\* The steps of calls in progress.  The two that lower the mark do it for an
\* adopted process, or for none.
LEMMA CallKeeps ==
    ASSUME LInv, NEW c \in Calls,
           \/ StopKill(c) \/ StopReturns(c) \/ StopThrows(c) \/ StartStep(c)
           \/ StopOrphan(c) \/ PollOrphan(c) \/ CleanUp(c)
           \/ RecoverEvicts(c) \/ Shutdown(c)
    PROVE  MInv'
  <1>a. CallsOK /\ MInv /\ KillsAdopted /\ watch \subseteq Process /\ call[c] \in CallType
    BY TypeParts DEF LInv, TypeOK, MInv, CallsOK
  <1>q. ASSUME NEW x, call' = [call EXCEPT ![c] = x],
               x.pc = "killed" => x.target.adopted,
               Looking(c) <=> x.pc \in {"orphan", "polling", "cleanup"},
               UNCHANGED <<tracked, watch, flag, stopped, mistaken>>, crossed => crossed',
               record'.state = "errored" => record.state = "errored"
        PROVE  MInv'
    <2>1. KillsAdopted' /\ \A d \in Calls : Looking(d)' <=> Looking(d)
      BY <1>a, <1>q, CallReplaced
    <2> QED BY <1>a, <1>q, <2>1, QuietKeeps DEF QuietStep
  <1>r. ASSUME NEW pc, Resume(c, pc)
        PROVE  \E x : call' = [call EXCEPT ![c] = x] /\ x.pc = pc
    <2> DEFINE x == [IdleCall EXCEPT !.pc = pc, !.op = IF pc = "idle" THEN "start" ELSE call[c].op]
    <2>1. x.pc = pc /\ call' = [call EXCEPT ![c] = x]
      BY <1>r DEF Resume, IdleCall
    <2> QED BY <2>1
  <1>1. CASE StopKill(c)
    <2> DEFINE w == call[c].target
               pc == IF ~w.adopted THEN "waiting" ELSE IF Lives(w.pid) THEN "killed" ELSE "leaving"
               x == [call[c] EXCEPT !.pc = pc]
    <2>1. x.pc = pc /\ x.target = w
      BY <1>a DEF CallType
    <2>2. call' = [call EXCEPT ![c] = x] /\ ~Looking(c)
          /\ UNCHANGED <<tracked, watch, flag, stopped, mistaken, crossed, record>>
      BY <1>1 DEF StopKill, Looking, sup, history
    <2> HIDE DEF x
    <2> QED BY <1>q, <2>1, <2>2
  <1>2. CASE StopReturns(c)
    <2>1. Next1(call[c].op) \in {"starting", "idle"}
      BY DEF Next1
    <2>2. ~Looking(c) /\ (record'.state = "errored" => record.state = "errored")
          /\ UNCHANGED <<tracked, watch, flag, stopped, mistaken, crossed>>
      BY <1>2 DEF StopReturns, HasEnded, Looking, Entry, sup, history
    <2>3. PICK x : call' = [call EXCEPT ![c] = x] /\ x.pc = Next1(call[c].op)
      BY <1>2, <1>r DEF StopReturns
    <2> QED BY <1>q, <2>1, <2>2, <2>3
  <1>3. CASE StopThrows(c)
    <2>1. call[c].pc = "killed" /\ UNCHANGED <<record, tracked, watch, stopped, mistaken, crossed>>
          /\ call[c].target.adopted
      BY <1>3, <1>a DEF StopThrows, KillsAdopted
    <2> DEFINE pc == IF call[c].op = "evict" THEN "starting" ELSE "idle"
    <2>2. PICK x : call' = [call EXCEPT ![c] = x] /\ x.pc = pc
      BY <1>3, <1>r DEF StopThrows
    <2>3. CASE call[c].op \notin {"stop", "restart"}
      <3>1. flag' = flag
        BY <1>3, <2>3 DEF StopThrows
      <3> QED BY <1>q, <2>1, <2>2, <3>1 DEF Looking
    <2>4. CASE call[c].op \in {"stop", "restart"}
      <3>1. flag' = FALSE /\ call[c].target \in watch
        BY <1>3, <2>1, <2>4 DEF StopThrows, HasEnded
      <3>2. ~mistaken => \A w \in watch : w.adopted
        BY <1>a, <2>1, <3>1 DEF MInv, Matched
      <3>3. KillsAdopted' /\ \A d \in Calls : Looking(d)' <=> Looking(d)
        BY <1>a, <2>1, <2>2, CallReplaced DEF Looking
      <3>4. ~mistaken' => Matched'
        BY <1>a, <2>1 DEF MInv, Matched
      <3>5. ~mistaken' /\ ~crossed' => Marked'
        BY <1>a, <2>1, <3>2, <3>3 DEF MInv, Marked
      <3> QED BY <3>1, <3>3, <3>4, <3>5 DEF MInv, FlagHasOwner
    <2> QED BY <2>3, <2>4
  <1>4. CASE StartStep(c)
    <2>1. UNCHANGED <<flag, stopped, mistaken, crossed>> /\ ~Looking(c)
      BY <1>4 DEF StartStep, Looking, history
    <2>2. PICK x : call' = [call EXCEPT ![c] = x] /\ x.pc = "idle"
      BY <1>4, <1>r DEF StartStep
    <2>3. KillsAdopted' /\ \A d \in Calls : Looking(d)' <=> Looking(d)
      BY <1>a, <2>1, <2>2, CallReplaced
    <2>4. CASE tracked # NoProcess
      BY <1>4, <1>q, <2>1, <2>2, <2>4 DEF StartStep
    <2>5. CASE tracked = NoProcess
      <3>1. PICK p \in Pids : StartAgent(p, proc) /\ watch' = watch \cup {tracked'}
        BY <1>4, <2>5 DEF StartStep
      <3> QED BY <2>1, <2>3, <2>5, <3>1, StartKeeps
    <2> QED BY <2>4, <2>5
  <1>5. CASE StopOrphan(c) \/ PollOrphan(c)
    <2>1. /\ call[c].pc \in {"orphan", "polling"}
          /\ UNCHANGED <<record, tracked, watch, flag, stopped, mistaken, crossed>>
      BY <1>5 DEF StopOrphan, PollOrphan, sup, history
    <2>2. \/ call' = [call EXCEPT ![c] = [call[c] EXCEPT !.pc = "cleanup"]]
          \/ call' = [call EXCEPT ![c] = [call[c] EXCEPT !.pc = "polling",
                                            !.target = [NoProcess EXCEPT !.pid = pidFile]]]
      BY <1>5 DEF StopOrphan, PollOrphan
    <2> DEFINE y == [call[c] EXCEPT !.pc = "cleanup"]
               z == [call[c] EXCEPT !.pc = "polling", !.target = [NoProcess EXCEPT !.pid = pidFile]]
    <2>y. y.pc = "cleanup" /\ z.pc = "polling"
      BY <1>a DEF CallType
    <2>3. \E x : call' = [call EXCEPT ![c] = x] /\ x.pc \in {"polling", "cleanup"}
      <3>1. call' = [call EXCEPT ![c] = y] \/ call' = [call EXCEPT ![c] = z]
        BY <2>2
      <3> HIDE DEF y, z
      <3> QED BY <2>y, <3>1
    <2> QED BY <1>q, <2>1, <2>3 DEF Looking
  <1>6. CASE CleanUp(c)
    <2>1. /\ call[c].pc = "cleanup" /\ flag' = FALSE /\ record' = Entry("stopped", None)
          /\ UNCHANGED <<tracked, watch, stopped, mistaken, crossed>>
      BY <1>6 DEF CleanUp
    <2>2. Next1(call[c].op) \in {"starting", "idle"}
      BY DEF Next1
    <2>3. PICK x : call' = [call EXCEPT ![c] = x] /\ x.pc = Next1(call[c].op)
      BY <1>6, <1>r DEF CleanUp
    <2>4. KillsAdopted' /\ \A d \in Calls : Looking(d)' => Looking(d)
      BY <1>a, <2>2, <2>3, CallReplaced
    <2>5. ~mistaken' => Matched'
      BY <1>a, <2>1 DEF MInv, Matched, Entry
    <2>6. ~mistaken /\ ~crossed => stopped = {}
      BY <1>a, <2>1 DEF MInv, Marked, Looking
    <2>7. ~mistaken' /\ ~crossed' => Marked'
      BY <2>1, <2>6 DEF Marked
    <2> QED BY <2>1, <2>4, <2>5, <2>7 DEF MInv, FlagHasOwner
  <1>7. CASE RecoverEvicts(c) \/ Shutdown(c)
    <2>1. /\ call[c].pc = "idle" /\ (crossed => crossed')
          /\ UNCHANGED <<record, tracked, watch, flag, stopped, mistaken>>
      <3>1. Vacant(c)
        BY <1>7 DEF RecoverEvicts, Shutdown, MayCall
      <3>2. call[c].pc = "idle"
        BY <3>1 DEF Vacant, ActiveCalls
      <3>3. UNCHANGED <<record, tracked, watch, flag, stopped, mistaken>>
        BY <1>7, Zenon DEF RecoverEvicts, Shutdown, sup, history
      <3>4. crossed => crossed'
        BY <1>7, Zenon DEF RecoverEvicts, Shutdown, history
      <3> QED BY <3>2, <3>3, <3>4
    <2>2. (\E op, w : Terminate(c, op, w))
          \/ call' = [call EXCEPT ![c] = [IdleCall EXCEPT !.op = "shutdown", !.pc = "leaving"]]
      BY <1>7 DEF RecoverEvicts, Shutdown
    <2> DEFINE y == [IdleCall EXCEPT !.op = "shutdown", !.pc = "leaving"]
    <2>y. y.pc = "leaving"
      BY DEF IdleCall
    <2>3. \E x : call' = [call EXCEPT ![c] = x] /\ x.pc \in {"leaving", "waiting"}
      <3>1. (\E op, w : Terminate(c, op, w)) \/ call' = [call EXCEPT ![c] = y]
        BY <2>2
      <3> HIDE DEF y
      <3> QED BY <2>y, <3>1, Terminates
    <2> QED BY <1>q, <2>1, <2>3 DEF Looking
  <1> QED BY <1>1, <1>2, <1>3, <1>4, <1>5, <1>6, <1>7

LEMMA NextMarks == LInv /\ [Next]_vars => MInv'
  <1> SUFFICES ASSUME LInv, [Next]_vars PROVE MInv'
    OBVIOUS
  <1>q. ASSUME UNCHANGED <<tracked, watch, flag, stopped, call>>, mistaken => mistaken',
               crossed => crossed', record'.state = "errored" => record.state = "errored"
        PROVE  MInv'
    <2>1. KillsAdopted' /\ \A c \in Calls : Looking(c)' <=> Looking(c)
      BY <1>q DEF LInv, MInv, KillsAdopted, Looking
    <2> QED BY <1>q, <2>1, QuietKeeps DEF LInv, QuietStep
  <1>1. CASE ProcessStep
    <2>1. UNCHANGED <<tracked, watch, flag, stopped, call, mistaken, crossed>>
      BY <1>1 DEF ProcessStep, TryLock, Register, Heartbeat, Finish, Crash, Compromised,
                  sup, history
    <2>2. record'.state = "errored" => record.state = "errored"
      <3>1. record \in Record
        BY DEF LInv, TypeOK
      <3> QED BY <1>1, <3>1 DEF ProcessStep, TryLock, Register, Heartbeat, Finish, Crash,
                              Compromised, Entry, Record
    <2> QED BY <1>q, <2>1, <2>2
  <1>2. CASE CallStep
    <2> PICK c \in Calls :
          \/ \E op \in {"start", "stop", "restart"} : CallArrives(c, op)
          \/ StopKill(c) \/ StopReturns(c) \/ StopThrows(c) \/ StartStep(c)
          \/ StopOrphan(c) \/ PollOrphan(c) \/ CleanUp(c)
          \/ RecoverEvicts(c) \/ Shutdown(c) \/ ShutdownEnds(c)
      BY <1>2 DEF CallStep
    <2>1. CASE ShutdownEnds(c)
      BY <2>1, DownKeeps DEF ShutdownEnds
    <2> QED BY <2>1, ArrivalKeeps, CallKeeps
  <1>3. CASE Stale \/ Forget \/ ScanBegin \/ Boot \/ RecoverCopies
    BY <1>3, <1>q DEF Stale, Forget, ScanBegin, Boot, RecoverCopies, sup, history
  <1>4. CASE \E w \in watch : HandleAgentExit(w)
    BY <1>4, ExitKeeps
  <1>5. CASE ScanEnd
    BY <1>5, ScanKeeps
  <1>6. CASE RecoverAdopts
    BY <1>6, AdoptionKeeps
  <1>7. CASE RecoverStarts
    <2>1. UNCHANGED <<flag, stopped, call, mistaken>> /\ (crossed => crossed')
      BY <1>7 DEF RecoverStarts
    <2>2. CASE tracked # NoProcess
      BY <1>7, <1>q, <2>1, <2>2 DEF RecoverStarts
    <2>3. CASE tracked = NoProcess
      <3>1. PICK p \in Pids : StartAgent(p, proc) /\ watch' = watch \cup {tracked'}
        BY <1>7, <2>3 DEF RecoverStarts
      <3>2. KillsAdopted' /\ \A c \in Calls : Looking(c)' <=> Looking(c)
        BY <2>1 DEF LInv, MInv, KillsAdopted, Looking
      <3> QED BY <2>1, <2>3, <3>1, <3>2, StartKeeps
    <2> QED BY <2>2, <2>3
  <1>8. CASE SupervisorExit
    BY <1>8, DownKeeps DEF SupervisorExit
  <1>9. CASE UNCHANGED vars
    BY <1>9, <1>q DEF vars, sup, history
  <1> QED
    BY <1>1, <1>2, <1>3, <1>4, <1>5, <1>6, <1>7, <1>8, <1>9 DEF Next

\* The account the supervisor keeps of its processes: no one is waited for
\* but the tracked one, and the mark of an intended stop belongs to a stop.
LEMMA Accounted == Spec => []LInv
  <1>1. TrackedIsWatched /\ [Next]_vars => TrackedIsWatched'
    BY NextWatched
  <1>2. LInv /\ [Next]_vars => MInv'
    BY NextMarks
  <1> QED BY <1>1, <1>2, InitWatched, InitMarks, TypeCorrect, PTL DEF Spec, LInv

\* The mark of an intended stop outlives neither the look for an orphan nor
\* the exit of the process that was signalled, as long as no living process
\* was taken for dead or errored: it never hides a later crash.
THEOREM FlagIsOwned == Spec => []FlagHasOwner
  <1>1. LInv => FlagHasOwner
    BY DEF LInv, MInv
  <1> QED BY <1>1, Accounted, PTL

\* A child that a stop has signalled is not started again when it exits, as
\* long as nothing is misjudged and calls meet neither each other nor the
\* recovery: the mark still stands when handleAgentExit looks for it.
THEOREM StoppedStaysStopped == Spec => StopSticks
  <1>1. ASSUME LInv, [Next]_vars, ~mistaken, ~crossed,
               NEW w \in watch, ~w.adopted, w.pid \in stopped
        PROVE  ~Restarts(w)
    <2>1. flag = TRUE /\ watch = {w} /\ recent \in Nat
      BY <1>1, LifecycleAssumption
         DEF LInv, MInv, Matched, Marked, TypeOK, LifecycleAssumption
    <2>2. CASE recent' \in {recent, recent - 1, 0}
      BY <2>1, <2>2 DEF Restarts
    <2>3. HandleAgentExit(w) => UNCHANGED recent
      <3>1. ExitState(w) = "stopped"
        BY <2>1 DEF ExitState
      <3> QED BY <3>1 DEF HandleAgentExit
    <2>4. (\E v \in watch : HandleAgentExit(v)) \/ recent' \in {recent, recent - 1, 0}
      BY <1>1 DEF Next, ProcessStep, CallStep, vars, sup, TryLock, Register, Heartbeat,
         Finish, Crash, Compromised, CallArrives, StopKill, StopReturns, StopThrows, StartStep,
         StopOrphan, PollOrphan, CleanUp, RecoverEvicts, Shutdown, ShutdownEnds, Stale, Forget,
         ScanBegin, ScanEnd, Boot, RecoverCopies, RecoverAdopts, RecoverStarts, SupervisorExit,
         GoesDown
    <2> QED BY <2>1, <2>2, <2>3, <2>4
  <1>2. LInv /\ [Next]_vars =>
          [~mistaken /\ ~crossed =>
             \A w \in watch : ~w.adopted /\ w.pid \in stopped => ~Restarts(w)]_vars
    BY <1>1
  <1> QED BY <1>2, Accounted, PTL DEF Spec, StopSticks
=============================================================================
