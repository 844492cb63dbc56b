-------------------------- MODULE McpServerProofs --------------------------
(***************************************************************************)
(* The restart manager keeps one process at a time, hears of its death,    *)
(* tells the operator of a row of failures, and leaves nothing behind      *)
(* after stop: for any number of processes and faults.                     *)
(***************************************************************************)
EXTENDS McpServer, FiniteSetTheorems, TLAPS

\* Each of the manager's places for a process: who holds it, and when.
StartPlace ==
    /\ start = "launching" <=> started # None
    /\ start \in {"new", "failed"} => current = None /\ closing = None
    /\ start # "done" => loop = "none" /\ current = None /\ closing = None /\ attached = {}
LoopPlace ==
    /\ loop \in {"launching", "closing"} <=> next # None
    /\ loop # "none" => current = None /\ closing = None
    /\ loop = "closing" => stopped
StopPlace ==
    /\ closing # None => stop = "closing" /\ current = None
    /\ stop # "no" <=> stopped
    /\ stop \in {"no", "closing", "waiting", "returned"}
    /\ stop = "returned" => loop = "none"
    /\ stopped /\ current # None => early
    /\ stopped /\ start = "launching" => early

\* Every process there is has its place.
Placed == \A c \in Children : child[c] # "gone" => c \in {started, next, closing, current}

Heard ==
    /\ current # None /\ ~stopped => current \in attached
    /\ ~stopped => attached \subseteq {current}

\* What has been told of the row so far: in front of Tell, and after it.
ToldOf(n) == [t \in Tiers |-> IF t = "passive" THEN IF n >= 1 THEN 1 ELSE 0
                              ELSE IF n >= ImportantAt THEN 1 ELSE 0]
Row ==
    /\ loop = "none" /\ ~stopped => failures = 0 /\ told = NothingTold /\ ~unwritten
    /\ loop \in {"telling", "asleep", "launching"} => failures >= 1
    /\ loop = "telling" => \A t \in Tiers : told[t] <= ToldOf(failures - 1)[t]
    /\ loop = "telling" /\ ~unwritten => told = ToldOf(failures - 1)
    /\ loop # "telling" => \A t \in Tiers : told[t] <= ToldOf(failures)[t]
    /\ loop \in {"asleep", "launching"} /\ ~unwritten => told = ToldOf(failures)

IInv == TypeOK /\ StartPlace /\ LoopPlace /\ StopPlace /\ Placed /\ Heard /\ Row

-----------------------------------------------------------------------------
LEMMA ToldOfFacts ==
    ASSUME NEW n \in Nat
    PROVE  /\ ToldOf(n) \in [Tiers -> 0..1]
           /\ ToldOf(0) = NothingTold
           /\ \A t \in Tiers : ToldOf(n)[t] <= ToldOf(n + 1)[t]
           /\ ToldOf(n + 1) = [t \in Tiers |->
                  ToldOf(n)[t] + IF t \in TiersFor(n + 1) THEN 1 ELSE 0]
  BY McpAssumption DEF ToldOf, NothingTold, Tiers, TiersFor, McpAssumption

LEMMA InitInv == Init => IInv
  <1> SUFFICES ASSUME Init PROVE IInv
    OBVIOUS
  <1> USE McpAssumption DEF McpAssumption, Init, None
  <1>1. child \in [Children -> ChildStates] /\ told \in [Tiers -> 0..1]
    BY DEF ChildStates, NothingTold
  <1>2. TypeOK
    <2>1. /\ attached \subseteq Children /\ current \in Children \cup {None}
          /\ {started, next, closing} \subseteq Children \cup {None}
          /\ failures \in Nat /\ faults \in 0..MaxFaults
      OBVIOUS
    <2>2. /\ stopped \in BOOLEAN /\ unwritten \in BOOLEAN /\ early \in BOOLEAN
          /\ start \in {"new", "launching", "done", "failed"}
          /\ loop \in {"none", "telling", "asleep", "launching", "closing"}
          /\ stop \in {"no", "closing", "waiting", "returned"}
      OBVIOUS
    <2> QED BY <1>1, <2>1, <2>2, Zenon DEF TypeOK
  <1>3. StartPlace /\ LoopPlace /\ StopPlace /\ Placed /\ Heard
    BY DEF StartPlace, LoopPlace, StopPlace, Placed, Heard
  <1>4. told = ToldOf(0)
    BY ToldOfFacts
  <1>5. Row
    BY <1>1, <1>4 DEF Row
  <1> QED BY <1>2, <1>3, <1>5 DEF IInv

\* A notification brings the row's count from one number of failures to
\* the next.
LEMMA TellKeeps ==
    ASSUME IInv, loop = "telling",
           told' = [t \in Tiers |-> told[t] + IF t \in TiersFor(failures) THEN 1 ELSE 0]
    PROVE  /\ told' \in [Tiers -> 0..1]
           /\ \A t \in Tiers : told'[t] <= ToldOf(failures)[t]
           /\ ~unwritten => told' = ToldOf(failures)
  <1> DEFINE n == failures - 1
  <1>1. n \in Nat /\ failures = n + 1
    BY DEF IInv, TypeOK, Row
  <1>2. told \in [Tiers -> 0..1] /\ \A t \in Tiers : told[t] <= ToldOf(n)[t]
    BY DEF IInv, TypeOK, Row
  <1>3. ~unwritten => told = ToldOf(n)
    BY DEF IInv, Row
  <1> HIDE DEF n
  <1>4. ToldOf(n) \in [Tiers -> 0..1] /\ ToldOf(n + 1) \in [Tiers -> 0..1]
    BY <1>1, ToldOfFacts, n + 1 \in Nat
  <1>5. ToldOf(n + 1) = [t \in Tiers |-> ToldOf(n)[t] + IF t \in TiersFor(n + 1) THEN 1 ELSE 0]
    BY <1>1, ToldOfFacts
  <1>6. \A t \in Tiers : /\ told'[t] \in 0..1
                         /\ told'[t] <= ToldOf(n + 1)[t]
                         /\ ~unwritten => told'[t] = ToldOf(n + 1)[t]
    BY <1>1, <1>2, <1>3, <1>4, <1>5
  <1> QED BY <1>1, <1>4, <1>5, <1>6

LEMMA NextType == IInv /\ [Next]_vars => TypeOK'
  <1> SUFFICES ASSUME IInv, [Next]_vars PROVE TypeOK'
    OBVIOUS
  <1> USE McpAssumption DEF McpAssumption, IInv, TypeOK, handles, Fault, Dies, ChildStates, None
  <1>1. CASE Start
    BY <1>1 DEF Start
  <1>2. CASE StartSucceeds
    BY <1>2 DEF StartSucceeds, StartPlace
  <1>3. CASE StartFails
    <2>1. child' \in [Children -> ChildStates]
      BY <1>3 DEF StartFails
    <2>2. faults' \in 0..MaxFaults
      BY <1>3 DEF StartFails
    <2> QED BY <1>3, <2>1, <2>2 DEF StartFails
  <1>4. ASSUME NEW c \in Children, Crash(c) PROVE TypeOK'
    BY <1>4 DEF Crash
  <1>5. ASSUME NEW c \in Children, OnClose(c) PROVE TypeOK'
    BY <1>5 DEF OnClose, Round
  <1>6. CASE Tell
    <2>1. faults' \in 0..MaxFaults
      BY <1>6 DEF Tell
    <2>2. told' \in [Tiers -> 0..1]
      <3>1. CASE told' = told
        BY <3>1
      <3>2. CASE told' = [t \in Tiers |-> told[t] + IF t \in TiersFor(failures) THEN 1 ELSE 0]
        BY <3>2, <1>6, TellKeeps DEF Tell
      <3> QED BY <1>6, <3>1, <3>2 DEF Tell
    <2> QED BY <1>6, <2>1, <2>2 DEF Tell
  <1>7. CASE Wake
    BY <1>7 DEF Wake
  <1>8. CASE Launched
    <2>1. next \in Children
      BY <1>8 DEF Launched, LoopPlace
    <2>2. child' \in [Children -> ChildStates]
      BY <1>8, <2>1 DEF Launched
    <2>3. told' \in [Tiers -> 0..1] /\ failures' \in Nat
      BY <1>8 DEF Launched, NothingTold
    <2>4. attached' \subseteq Children /\ unwritten' \in BOOLEAN
      BY <1>8, <2>1 DEF Launched, Attached
    <2> QED BY <1>8, <2>1, <2>2, <2>3, <2>4 DEF Launched, AfterSuccess
  <1>9. CASE Closed
    BY <1>9 DEF Closed
  <1>10. CASE LaunchFails
    <2>1. child' \in [Children -> ChildStates]
      BY <1>10 DEF LaunchFails
    <2>2. failures' \in Nat
      BY <1>10 DEF LaunchFails
    <2>3. faults' \in 0..MaxFaults
      BY <1>10 DEF LaunchFails
    <2> QED BY <1>10, <2>1, <2>2, <2>3 DEF LaunchFails, AfterFailure
  <1>11. CASE Stop
    BY <1>11 DEF Stop
  <1>12. CASE StopCloses
    BY <1>12 DEF StopCloses
  <1>13. CASE StopReturns
    BY <1>13 DEF StopReturns
  <1>14. CASE UNCHANGED vars
    BY <1>14 DEF vars
  <1> QED
    BY <1>1, <1>2, <1>3, <1>4, <1>5, <1>6, <1>7, <1>8, <1>9, <1>10, <1>11, <1>12, <1>13, <1>14
    DEF Next, LoopStep, StopStep

\* The places, one action at a time.
LEMMA NextPlaces ==
    IInv /\ [Next]_vars => StartPlace' /\ LoopPlace' /\ StopPlace' /\ Placed' /\ Heard'
  <1> SUFFICES ASSUME IInv, [Next]_vars
               PROVE  StartPlace' /\ LoopPlace' /\ StopPlace' /\ Placed' /\ Heard'
    OBVIOUS
  <1>0. /\ child \in [Children -> ChildStates] /\ None \notin Children
        /\ {current, started, next, closing} \subseteq Children \cup {None}
        /\ attached \subseteq Children
    BY McpAssumption DEF McpAssumption, IInv, TypeOK
  <1> USE <1>0 DEF IInv, StartPlace, LoopPlace, StopPlace, Placed, Heard, handles, Dies
  <1>1. CASE Start
    BY <1>1 DEF Start
  <1>2. CASE StartSucceeds
    BY <1>2 DEF StartSucceeds
  <1>3. CASE StartFails
    BY <1>3 DEF StartFails
  <1>4. ASSUME NEW c \in Children, Crash(c)
        PROVE  StartPlace' /\ LoopPlace' /\ StopPlace' /\ Placed' /\ Heard'
    BY <1>4 DEF Crash
  <1>5. ASSUME NEW c \in Children, OnClose(c)
        PROVE  StartPlace' /\ LoopPlace' /\ StopPlace' /\ Placed' /\ Heard'
    <2>1. CASE stopped
      BY <1>5, <2>1 DEF OnClose
    <2>2. CASE ~stopped
      <3>1. /\ current' = None /\ loop' = IF loop = "none" THEN "telling" ELSE loop
            /\ child[c] = "gone" /\ start = "done" /\ attached' = attached \ {c}
            /\ UNCHANGED <<child, stopped, start, stop, handles, early>>
        BY <1>5, <2>2 DEF OnClose, Round
      <3>2. stop = "no" /\ closing = None /\ ~stopped'
        BY <2>2, <3>1
      <3>3. StartPlace' /\ Heard'
        BY <1>5, <2>2, <3>1 DEF OnClose
      <3>4. LoopPlace'
        BY <3>1, <3>2
      <3>5. StopPlace'
        BY <3>1, <3>2
      <3>6. Placed'
        <4>1. \A d \in Children : child[d] # "gone" => d \in {started, next, closing}
          BY <1>5, <2>2, <3>1 DEF OnClose
        <4> QED BY <3>1, <4>1
      <3> QED BY <3>3, <3>4, <3>5, <3>6
    <2> QED BY <2>1, <2>2
  <1>6. CASE Tell
    BY <1>6 DEF Tell
  <1>7. CASE Wake
    BY <1>7 DEF Wake
  <1>8. CASE Launched
    BY <1>8 DEF Launched, Unwanted, Attached, AfterSuccess
  <1>9. CASE Closed
    BY <1>9 DEF Closed
  <1>10. CASE LaunchFails
    BY <1>10 DEF LaunchFails, AfterFailure
  <1>11. CASE Stop
    BY <1>11 DEF Stop
  <1>12. CASE StopCloses
    BY <1>12 DEF StopCloses
  <1>13. CASE StopReturns
    BY <1>13 DEF StopReturns, Waited
  <1>14. CASE UNCHANGED vars
    BY <1>14 DEF vars
  <1> QED
    BY <1>1, <1>2, <1>3, <1>4, <1>5, <1>6, <1>7, <1>8, <1>9, <1>10, <1>11, <1>12, <1>13, <1>14
    DEF Next, LoopStep, StopStep

LEMMA NextRow == IInv /\ [Next]_vars => Row'
  <1> SUFFICES ASSUME IInv, [Next]_vars PROVE Row'
    OBVIOUS
  <1>0. failures \in Nat /\ Row /\ StopPlace /\ LoopPlace
    BY DEF IInv, TypeOK
  <1> USE <1>0 DEF Row, handles
  <1>1. ASSUME NEW c \in Children, OnClose(c) PROVE Row'
    <2>1. CASE loop = "none" /\ ~stopped
      <3>1. loop' = "telling" /\ failures' = 1 /\ told' = NothingTold
        BY <1>1, <2>1 DEF OnClose, Round
      <3>2. ToldOf(0) = NothingTold /\ ToldOf(0) \in [Tiers -> 0..1]
        BY ToldOfFacts, 0 \in Nat
      <3>3. failures' - 1 = 0 /\ \A t \in Tiers : told'[t] <= ToldOf(0)[t]
        BY <3>1, <3>2
      <3> QED BY <3>1, <3>2, <3>3
    <2>2. CASE ~(loop = "none" /\ ~stopped)
      BY <1>1, <2>2 DEF OnClose
    <2> QED BY <2>1, <2>2
  <1>2. CASE Tell
    <2>1. loop = "telling" /\ loop' = "asleep" /\ failures' = failures
      BY <1>2 DEF Tell
    <2>2. CASE told' = [t \in Tiers |-> told[t] + IF t \in TiersFor(failures) THEN 1 ELSE 0]
               /\ UNCHANGED unwritten
      BY <2>1, <2>2, TellKeeps
    <2>3. CASE unwritten' = TRUE /\ UNCHANGED told
      <3>1. failures - 1 \in Nat /\ failures = (failures - 1) + 1
        BY <2>1
      <3>2. \A t \in Tiers : ToldOf(failures - 1)[t] <= ToldOf(failures)[t]
        BY <3>1, ToldOfFacts
      <3>3. /\ told \in [Tiers -> 0..1] /\ ToldOf(failures - 1) \in [Tiers -> 0..1]
            /\ ToldOf(failures) \in [Tiers -> 0..1]
        BY <3>1, ToldOfFacts DEF IInv, TypeOK
      <3>4. \A t \in Tiers : told[t] <= ToldOf(failures)[t]
        BY <2>1, <3>2, <3>3
      <3> QED BY <2>1, <2>3, <3>4
    <2> QED BY <1>2, <2>2, <2>3 DEF Tell
  <1>3. CASE Wake
    BY <1>3 DEF Wake
  <1>4. CASE Launched
    <2>1. CASE stopped
      BY <1>4, <2>1 DEF Launched, Unwanted
    <2>2. CASE ~stopped
      <3>1. /\ loop' = "none" /\ failures' = 0 /\ told' = NothingTold /\ unwritten' = FALSE
        BY <1>4, <2>2 DEF Launched, Unwanted, AfterSuccess
      <3>2. ToldOf(0) = NothingTold /\ ToldOf(0) \in [Tiers -> 0..1]
        BY ToldOfFacts, 0 \in Nat
      <3>3. \A t \in Tiers : told'[t] <= ToldOf(0)[t]
        BY <3>1, <3>2
      <3> QED BY <3>1, <3>2, <3>3
    <2> QED BY <2>1, <2>2
  <1>5. CASE LaunchFails
    <2>1. CASE stopped
      BY <1>5, <2>1 DEF LaunchFails, AfterFailure
    <2>2. CASE ~stopped
      <3>1. /\ loop = "launching" /\ loop' = "telling" /\ failures' = failures + 1
            /\ UNCHANGED <<told, unwritten>>
        BY <1>5, <2>2 DEF LaunchFails, AfterFailure
      <3>2. failures' - 1 = failures
        BY <3>1
      <3> QED BY <3>1, <3>2
    <2> QED BY <2>1, <2>2
  <1>6. CASE Stop
    BY <1>6 DEF Stop
  <1>7. CASE Closed
    BY <1>7 DEF Closed, LoopPlace
  <1>8. CASE UNCHANGED <<loop, stopped, failures, told, unwritten>>
    BY <1>8
  <1> QED
    BY <1>1, <1>2, <1>3, <1>4, <1>5, <1>6, <1>7, <1>8
    DEF Next, LoopStep, StopStep, Start, StartSucceeds, StartFails, Crash, StopCloses,
        StopReturns, vars

\* IInv, the places of start, loop and stop and what each holds, holds in every state.
THEOREM Inductive == Spec => []IInv
  <1>1. IInv /\ [Next]_vars => IInv'
    BY NextType, NextPlaces, NextRow DEF IInv
  <1> QED BY InitInv, <1>1, PTL DEF Spec

\* Type correctness; the counts of notifications stay within one of each.
THEOREM TypeCorrect == Spec => []TypeOK
  <1>1. IInv => TypeOK
    BY DEF IInv
  <1> QED BY <1>1, Inductive, PTL

\* Once stop() has returned no server process is left and none is launched,
\* unless it was called during the first launch.
THEOREM StopLeavesNothing == Spec => []NoneLeft
  <1>1. IInv => NoneLeft
    <2> SUFFICES ASSUME IInv, stop = "returned", ~early, NEW c \in Children, child[c] # "gone"
                 PROVE  FALSE
      BY DEF NoneLeft, Existing
    <2>1. None \notin Children /\ c \in {started, next, closing, current}
      BY McpAssumption DEF McpAssumption, IInv, Placed
    <2>2. started = None /\ next = None /\ closing = None /\ current = None
      BY DEF IInv, StartPlace, LoopPlace, StopPlace
    <2> QED BY <2>1, <2>2
  <1> QED BY <1>1, Inductive, PTL

OneChild == Cardinality(Existing) <= 1

\* There is never more than one process of the server.
THEOREM OneServer == Spec => []OneChild
  <1>1. IInv => OneChild
    <2> SUFFICES ASSUME IInv PROVE OneChild
      OBVIOUS
    <2> DEFINE p == IF started # None THEN started ELSE IF next # None THEN next
                    ELSE IF closing # None THEN closing ELSE current
    <2>1. ASSUME NEW c \in Existing PROVE c = p
      <3>1. c # None /\ c \in {started, next, closing, current}
        BY McpAssumption DEF McpAssumption, IInv, Placed, Existing
      <3>2. /\ started # None => next = None /\ closing = None /\ current = None
            /\ next # None => closing = None /\ current = None
            /\ closing # None => current = None
        BY DEF IInv, StartPlace, LoopPlace, StopPlace
      <3> QED BY <3>1, <3>2
    <2>2. Existing \subseteq {p}
      BY <2>1
    <2> HIDE DEF p
    <2>3. Cardinality({p}) = 1 /\ IsFiniteSet({p})
      BY FS_Singleton
    <2>4. Cardinality(Existing) <= 1
      BY <2>2, <2>3, FS_Subset
    <2> QED BY <2>4 DEF OneChild
  <1> QED BY <1>1, Inductive, PTL

\* The death of the server that calls are routed to is noticed, until stop.
THEOREM DeathNoticed == Spec => []DeathIsHeard
  <1>1. IInv => DeathIsHeard
    BY DEF IInv, Heard, DeathIsHeard
  <1> QED BY <1>1, Inductive, PTL

\* A row of failures has been told once as it began, and once as important
\* when it reached the threshold.
THEOREM RowTold == Spec => []RowIsTold
  <1>1. IInv => RowIsTold
    <2> SUFFICES ASSUME IInv, loop = "asleep", ~unwritten
                 PROVE  /\ told["passive"] = 1
                        /\ told["important"] = IF failures >= ImportantAt THEN 1 ELSE 0
      BY DEF RowIsTold
    <2>1. told = ToldOf(failures) /\ failures >= 1
      BY DEF IInv, Row
    <2> QED BY <2>1 DEF ToldOf, Tiers
  <1> QED BY <1>1, Inductive, PTL

\* A process whose launch is awaited has not come up, and cannot crash yet.
Starting ==
    /\ start = "launching" => child[started] = "launching"
    /\ loop = "launching" => child[next] = "launching"

LEMMA NextStarting == IInv /\ Starting /\ [Next]_vars => Starting'
  <1> SUFFICES ASSUME IInv, Starting, [Next]_vars PROVE Starting'
    OBVIOUS
  <1>0. /\ child \in [Children -> ChildStates] /\ None \notin Children
        /\ {current, started, next, closing} \subseteq Children \cup {None}
    BY McpAssumption DEF McpAssumption, IInv, TypeOK
  <1> USE <1>0 DEF IInv, StartPlace, LoopPlace, StopPlace, Starting, handles, Dies
  <1>1. CASE Start \/ StartSucceeds \/ StartFails
    BY <1>1 DEF Start, StartSucceeds, StartFails
  <1>2. ASSUME NEW c \in Children, Crash(c) \/ OnClose(c) PROVE Starting'
    BY <1>2 DEF Crash, OnClose, Round
  <1>3. CASE Tell \/ Wake \/ Closed
    BY <1>3 DEF Tell, Wake, Closed
  <1>4. CASE Launched \/ LaunchFails
    BY <1>4 DEF Launched, LaunchFails, AfterSuccess, AfterFailure
  <1>5. CASE Stop \/ StopCloses \/ StopReturns
    BY <1>5 DEF Stop, StopCloses, StopReturns
  <1>6. CASE UNCHANGED vars
    BY <1>6 DEF vars
  <1> QED BY <1>1, <1>2, <1>3, <1>4, <1>5, <1>6 DEF Next, LoopStep, StopStep

\* Every step of the manager is a step of the contract, or changes neither the
\* processes nor whether they are wanted.
LEMMA NextContract ==
    IInv /\ Starting /\ [Next]_vars => [Contract!Next]_(Contract!vars)
  <1> DEFINE Same == Existing' = Existing /\ stopped' = stopped
  <1> SUFFICES ASSUME IInv, Starting, [Next]_vars PROVE Contract!Next \/ Same
    BY DEF Contract!vars
  <1>0. /\ child \in [Children -> ChildStates] /\ None \notin Children /\ stopped \in BOOLEAN
        /\ Existing \subseteq {started, next, closing, current} \cap Children
        /\ {current, started, next, closing} \subseteq Children \cup {None}
    BY McpAssumption DEF McpAssumption, IInv, TypeOK, Placed, Existing
  <1>p. StartPlace /\ LoopPlace /\ StopPlace
    BY DEF IInv
  \* A process is launched.
  <1>1. ASSUME NEW c \in Children, ~stopped, stopped' = stopped, Existing = {},
               child' = [child EXCEPT ![c] = "launching"]
        PROVE  Contract!Next
    <2>1. Existing' = {c}
      BY <1>0, <1>1 DEF Existing
    <2> QED BY <1>1, <2>1 DEF Contract!Next, Contract!Launch
  \* The only process is gone.
  <1>2. ASSUME NEW c, Existing \subseteq {c}, stopped' = stopped,
               \/ child' = [child EXCEPT ![c] = "gone"]
               \/ child' = [d \in Children |-> IF d = c THEN "gone" ELSE child[d]]
        PROVE  Contract!Next \/ Same
    <2>1. Existing' = {}
      BY <1>0, <1>2 DEF Existing
    <2> QED BY <1>2, <2>1 DEF Contract!Next, Contract!Ends
  \* A process that has been launched comes up.
  <1>3. ASSUME NEW c \in Children, child[c] = "launching", stopped' = stopped,
               child' = [child EXCEPT ![c] = "live"]
        PROVE  Same
    BY <1>0, <1>3 DEF Existing
  <1>4. CASE Start
    <2>1. ~stopped /\ stopped' = stopped /\ Existing = {}
      BY <1>0, <1>p, <1>4 DEF Start, StartPlace, LoopPlace, StopPlace
    <2> QED BY <1>1, <1>4, <2>1 DEF Start
  <1>5. CASE StartSucceeds
    <2>1. started \in Children /\ child[started] = "launching"
      BY <1>0, <1>p, <1>5 DEF StartSucceeds, StartPlace, Starting
    <2> QED BY <1>3, <1>5, <2>1 DEF StartSucceeds
  <1>6. CASE StartFails
    <2>1. Existing \subseteq {started}
      BY <1>0, <1>p, <1>6 DEF StartFails, StartPlace, LoopPlace
    <2> QED BY <1>2, <1>6, <2>1 DEF StartFails, Dies
  <1>7. ASSUME NEW c \in Children, Crash(c) PROVE Contract!Next \/ Same
    <2>1. c \in Existing
      BY <1>7 DEF Crash, Existing
    <2>2. Existing \subseteq {c}
      <3>1. /\ started # None => next = None /\ closing = None /\ current = None
            /\ next # None => closing = None /\ current = None
            /\ closing # None => current = None
        BY <1>p DEF StartPlace, LoopPlace, StopPlace
      <3> QED BY <1>0, <2>1, <3>1
    <2> QED BY <1>2, <1>7, <2>2 DEF Crash, Dies
  <1>8. CASE Wake
    <2>1. CASE stopped
      BY <1>8, <2>1 DEF Wake, Existing
    <2>2. CASE ~stopped
      <3>1. stopped' = stopped /\ Existing = {}
        BY <1>0, <1>p, <1>8 DEF Wake, StartPlace, LoopPlace, StopPlace
      <3> QED BY <1>1, <1>8, <2>2, <3>1 DEF Wake
    <2> QED BY <2>1, <2>2
  <1>9. CASE Launched
    <2>1. next \in Children /\ child[next] = "launching"
      BY <1>0, <1>p, <1>9 DEF Launched, LoopPlace, Starting
    <2> QED BY <1>3, <1>9, <2>1 DEF Launched
  <1>10. CASE Closed \/ LaunchFails
    <2>1. Existing \subseteq {next}
      BY <1>0, <1>p, <1>10 DEF Closed, LaunchFails, StartPlace, LoopPlace
    <2> QED BY <1>2, <1>10, <2>1 DEF Closed, LaunchFails, Dies
  <1>11. CASE Stop
    <2>1. Existing' = Existing /\ ~stopped /\ stopped'
      BY <1>0, <1>p, <1>11 DEF Stop, StopPlace, Existing
    <2> QED BY <2>1 DEF Contract!Next, Contract!Dismiss
  <1>12. CASE StopCloses
    <2>1. CASE closing = None
      <3>1. child' = child
        BY <1>0, <1>12, <2>1 DEF StopCloses
      <3> QED BY <1>12, <3>1 DEF StopCloses, Existing
    <2>2. CASE closing # None
      <3>1. Existing \subseteq {closing}
        BY <1>0, <1>p, <2>2 DEF StartPlace, LoopPlace, StopPlace
      <3> QED BY <1>2, <1>12, <3>1 DEF StopCloses
    <2> QED BY <2>1, <2>2
  <1>13. CASE UNCHANGED <<child, stopped>>
    BY <1>13 DEF Existing
  <1> QED
    BY <1>4, <1>5, <1>6, <1>7, <1>8, <1>9, <1>10, <1>11, <1>12, <1>13
    DEF Next, LoopStep, StopStep, OnClose, Tell, StopReturns, vars

\* The manager implements the contract: it never launches a second process, and
\* none once stop() has been called.
THEOREM ManagerKeepsContract == Spec => ImplementsContract
  <1>1. Init => Starting
    BY DEF Init, Starting
  <1>2. Init => Contract!Init
    BY DEF Init, Contract!Init, Existing
  <1>3. IInv /\ Starting /\ [Next]_vars => Starting' /\ [Contract!Next]_(Contract!vars)
    BY NextStarting, NextContract
  <1> QED BY <1>1, <1>2, <1>3, Inductive, PTL DEF Spec, ImplementsContract, Contract!Spec
=============================================================================
