---------------------- MODULE CredentialRequestsProofs ----------------------
(***************************************************************************)
(* The credential requests of one Agent, for any number of names, calls,   *)
(* exits and sweeps.  One card per name rests on the dedup map of the      *)
(* process, not on the lock file: between the look at the pending records  *)
(* and the new record no other call is about the same name.                *)
(***************************************************************************)
EXTENDS CredentialRequests, TLAPS

CallType == [pc : CallPcs, name : Names \cup {NoName}, id : Ids \cup {NoId}, had : BOOLEAN]
WriterType == [pc : WriterPcs, found : SUBSET Ids, id : Ids \cup {NoId}]

\* A record exists just when it has a name; a card that is shown has a record.
Named ==
    /\ \A i \in Ids : rec[i].state # "absent" <=> rec[i].name \in Names
    /\ \A c \in Callers : call[c].pc \in {"created", "waiting", "expiring"} => call[c].id \in Ids

Carded ==
    \A c \in Callers : call[c].pc \in {"created", "waiting", "expiring"} =>
        rec[call[c].id].name \in Names

\* The dedup map: no two calls in flight are about one name ...
Deduped ==
    \A c, d \in Callers :
        call[c].pc # "idle" /\ call[d].pc # "idle" /\ call[c].name = call[d].name => c = d
\* ... so what a call found pending is what is pending when it creates.
ClearStays ==
    \A c \in Callers : call[c].pc \in {"clear", "locked"} =>
        \A i \in Pending : rec[i].name # call[c].name

\* A fulfilment seals before it saves.
SealedFirst ==
    writer["fulfil"].pc \in {"sealed", "saving"} => rec[writer["fulfil"].id].name \in vault

\* The vault loses nothing between the begin of a call and its own look.
HadIsThere == \A c \in Callers : call[c].had /\ call[c].pc = "listed" => call[c].name \in vault

IInv == TypeOK /\ Named /\ Carded /\ Deduped /\ ClearStays /\ OneCardPerName
        /\ SealedFirst /\ FulfilledIsSealed /\ HadIsThere /\ SealedIsNotReasked

-----------------------------------------------------------------------------
LEMMA Idle ==
    /\ IdleCall \in CallType /\ IdleCall.pc = "idle" /\ ~IdleCall.had
    /\ IdleWriter \in WriterType /\ IdleWriter.pc = "idle"
    /\ NoRecord \in Record /\ NoRecord.state = "absent"
  BY DEF IdleCall, CallType, CallPcs, IdleWriter, WriterType, WriterPcs, NoRecord, Record,
         RecordStates

\* Types by part, with the names of records and the records of cards.
CallsOK ==
    /\ call \in [Callers -> CallType]
    /\ \A c \in Callers : call[c].pc # "idle" => call[c].name \in Names
    /\ \A c \in Callers : call[c].pc \in {"created", "waiting", "expiring"} => call[c].id \in Ids
RecsOK ==
    /\ rec \in [Ids -> Record]
    /\ \A i \in Ids : rec[i].state # "absent" <=> rec[i].name \in Names
Busy == {"sealing", "sealed", "saving"}
WritersOK ==
    /\ writer \in [Writers -> WriterType]
    /\ \A w \in Writers : writer[w].pc \in Busy => writer[w].id \in Ids
                                                 /\ rec[writer[w].id].name \in Names
RestOK == due \subseteq Ids /\ vault \subseteq Names /\ lock \subseteq Names /\ exits \in Nat

LEMMA Parts == TypeOK /\ Named <=> CallsOK /\ RecsOK /\ WritersOK /\ RestOK /\ up \in BOOLEAN
  BY Zenon DEF TypeOK, Named, CallsOK, RecsOK, WritersOK, RestOK, CallType, WriterType, Busy

LEMMA InitInv == Init => IInv
  <1> SUFFICES ASSUME Init PROVE IInv
    OBVIOUS
  <1> USE Idle DEF Init
  <1>1. TypeOK
    <2>1. call \in [Callers -> CallType] /\ writer \in [Writers -> WriterType] /\ rec \in [Ids -> Record]
      OBVIOUS
    <2>2. up \in BOOLEAN
      OBVIOUS
    <2>3. /\ \A c \in Callers : call[c].pc = "idle"
          /\ \A w \in Writers : writer[w].pc = "idle"
      OBVIOUS
    <2> QED BY <2>1, <2>2, <2>3 DEF TypeOK, CallType, WriterType
  <1>2. Named /\ Carded /\ Deduped /\ ClearStays /\ HadIsThere /\ SealedIsNotReasked
    <2>1. \A i \in Ids : rec[i].state = "absent" /\ rec[i].name \notin Names
      BY CredentialsAssumption DEF NoRecord, CredentialsAssumption
    <2>2. \A c \in Callers : call[c].pc = "idle" /\ ~call[c].had
      OBVIOUS
    <2> QED BY <2>1, <2>2 DEF Named, Carded, Deduped, ClearStays, HadIsThere, SealedIsNotReasked
  <1>3. SealedFirst
    BY DEF SealedFirst, Writers, Operator
  <1>4. OneCardPerName /\ FulfilledIsSealed
    BY DEF OneCardPerName, FulfilledIsSealed, Pending
  <1> QED BY <1>1, <1>2, <1>3, <1>4 DEF IInv

\* The calls.
LEMMA NextCalls == IInv /\ [Next]_vars => CallsOK'
  <1> SUFFICES ASSUME IInv, [Next]_vars PROVE CallsOK'
    OBVIOUS
  <1>a. CallsOK
    BY Parts DEF IInv
  <1>k. UNCHANGED call => CallsOK'
    BY <1>a DEF CallsOK
  <1>r. \A c \in Callers : Return(c) => CallsOK'
    BY <1>a, Idle DEF CallsOK, Return
  <1>g. \A c \in Callers, pc \in CallPcs :
          /\ Goto(c, pc) /\ call[c].pc # "idle"
          /\ pc \in {"created", "waiting", "expiring"} => call[c].id \in Ids
          => CallsOK'
    BY <1>a DEF CallsOK, Goto, CallType
  <1>1. ASSUME NEW c \in Callers, NEW n \in Names, Begin(c, n) PROVE CallsOK'
    <2>1. call' = [call EXCEPT ![c] = [IdleCall EXCEPT !.pc = "listed", !.name = n, !.had = n \in vault]]
      BY <1>1 DEF Begin
    <2> DEFINE new == [IdleCall EXCEPT !.pc = "listed", !.name = n, !.had = n \in vault]
    <2>2. new \in CallType
      <3>1. (n \in vault) \in BOOLEAN
        OBVIOUS
      <3>2. \A b \in BOOLEAN : [IdleCall EXCEPT !.pc = "listed", !.name = n, !.had = b] \in CallType
        BY DEF IdleCall, CallType, CallPcs
      <3> QED BY <3>1, <3>2, Zenon
    <2>3. new.pc = "listed" /\ new.name = n
      BY DEF IdleCall
    <2>4. call' = [call EXCEPT ![c] = new]
      BY <2>1
    <2> HIDE DEF new
    <2> QED BY <1>a, <2>2, <2>3, <2>4 DEF CallsOK
  <1>2. CASE (\E c \in Callers : CheckVault(c)) \/ (\E c \in Callers : CheckPending(c))
             \/ (\E c \in Callers : Lock(c))
    BY <1>r, <1>g, <1>2 DEF CheckVault, CheckPending, Lock, CallPcs
  <1>3. ASSUME NEW c \in Callers, Create(c) PROVE CallsOK'
    <2>1. \E i \in Ids : call' = [call EXCEPT ![c].pc = "created", ![c].id = i]
      BY <1>3 DEF Create
    <2> PICK i \in Ids : call' = [call EXCEPT ![c].pc = "created", ![c].id = i]
      BY <2>1
    <2>2. call[c].pc # "idle" /\ call[c] \in CallType
      BY <1>a, <1>3 DEF Create, CallsOK
    <2> DEFINE new == [call[c] EXCEPT !.pc = "created", !.id = i]
    <2>3. new \in CallType /\ new.pc = "created" /\ new.id = i /\ new.name = call[c].name
      BY <2>2 DEF CallType, CallPcs
    <2>4. call' = [call EXCEPT ![c] = new]
      BY <1>a DEF CallsOK
    <2> HIDE DEF new
    <2> QED BY <1>a, <2>2, <2>3, <2>4 DEF CallsOK
  <1>4. CASE (\E c \in Callers : Unlock(c)) \/ (\E c \in Callers : TimeoutGet(c))
    BY <1>a, <1>g, <1>4 DEF Unlock, TimeoutGet, CallPcs, CallsOK
  <1>5. CASE (\E c \in Callers : Observe(c)) \/ (\E c \in Callers : TimeoutSave(c))
    BY <1>r, <1>5 DEF Observe, TimeoutSave
  <1>6. CASE AgentExit
    BY <1>6, Idle DEF AgentExit, CallsOK
  <1>7. CASE (\E i \in Ids : FulfilBegin(i)) \/ (\E i \in Ids : DeclineGet(i))
             \/ (\E i \in Ids : Expire(i)) \/ (\E w \in Sweeps : SweepFind(w)) \/ Seal
             \/ FulfilGet \/ (\E w \in Sweeps : SweepGet(w))
             \/ (\E w \in Writers : Save(w)) \/ AgentStart \/ SupervisorExit
    BY <1>k, <1>7 DEF FulfilBegin, DeclineGet, Expire, SweepFind, Seal, FulfilGet, SweepGet, Save,
                      AgentStart, SupervisorExit
  <1>8. CASE UNCHANGED vars
    BY <1>8, <1>k DEF vars
  <1> QED
    BY <1>1, <1>2, <1>3, <1>4, <1>5, <1>6, <1>7, <1>8
       DEF Next, CallStep, WriterStep

\* The records; a name once given stays.
LEMMA NextRecs == IInv /\ [Next]_vars => RecsOK' /\ (\A i \in Ids : rec[i].name \in Names => rec'[i].name = rec[i].name)
  <1> SUFFICES ASSUME IInv, [Next]_vars PROVE RecsOK' /\ (\A i \in Ids : rec[i].name \in Names => rec'[i].name = rec[i].name)
    OBVIOUS
  <1> DEFINE Keeps == \A i \in Ids : rec[i].name \in Names => rec'[i].name = rec[i].name
  <1>a. RecsOK /\ CallsOK /\ WritersOK
    BY Parts DEF IInv
  <1>k. UNCHANGED rec => RecsOK' /\ Keeps
    BY <1>a DEF RecsOK
  <1>e. \A i \in Ids, st \in Terminal : rec[i].name \in Names /\ rec' = Ended(i, st) => RecsOK' /\ Keeps
    <2> SUFFICES ASSUME NEW i \in Ids, NEW st \in Terminal, rec[i].name \in Names, rec' = Ended(i, st)
                 PROVE RecsOK' /\ Keeps
      OBVIOUS
    <2> DEFINE new == [rec[i] EXCEPT !.state = st, !.given = (st = "fulfilled")]
    <2>1. new \in Record
      <3>1. (st = "fulfilled") \in BOOLEAN
        BY Zenon
      <3>2. rec[i] \in Record /\ st \in RecordStates
        BY <1>a DEF RecsOK, Terminal, RecordStates
      <3>3. \A b \in BOOLEAN : [rec[i] EXCEPT !.state = st, !.given = b] \in Record
        BY <3>2 DEF Record
      <3> QED BY <3>1, <3>3, Zenon
    <2>2. rec' = [rec EXCEPT ![i] = new] /\ new.name = rec[i].name /\ new.state # "absent"
      BY <1>a DEF Ended, RecsOK, Record, Terminal
    <2> HIDE DEF new
    <2> QED BY <1>a, <2>1, <2>2 DEF RecsOK
  <1>1. ASSUME NEW c \in Callers, Create(c) PROVE RecsOK' /\ (\A i \in Ids : rec[i].name \in Names => rec'[i].name = rec[i].name)
    <2>1. call[c].name \in Names
      BY <1>a, <1>1 DEF Create, CallsOK
    <2>2. PICK i \in Ids : rec[i].state = "absent" /\ rec' = [rec EXCEPT ![i] = [state |-> "pending", name |-> call[c].name, given |-> FALSE]]
      BY <1>1 DEF Create
    <2> QED BY <1>a, <2>1, <2>2 DEF RecsOK, Record, RecordStates
  <1>2. ASSUME NEW c \in Callers, TimeoutSave(c) PROVE RecsOK' /\ (\A i \in Ids : rec[i].name \in Names => rec'[i].name = rec[i].name)
    <2>1. call[c].id \in Ids /\ "expired" \in Terminal
      BY <1>a, <1>2 DEF TimeoutSave, CallsOK, Terminal
    <2>2. rec[call[c].id].name \in Names
      BY <1>2 DEF IInv, Carded, TimeoutSave
    <2> QED BY <1>e, <1>2, <2>1, <2>2 DEF TimeoutSave
  <1>3. ASSUME NEW w \in Writers, Save(w) PROVE RecsOK' /\ (\A i \in Ids : rec[i].name \in Names => rec'[i].name = rec[i].name)
    <2>1. writer[w].id \in Ids /\ rec[writer[w].id].name \in Names
      BY <1>a, <1>3 DEF Save, WritersOK, Busy
    <2>2. Outcome[w] \in Terminal
      BY DEF Outcome, Terminal
    <2> QED BY <1>e, <1>3, <2>1, <2>2 DEF Save
  <1>4. CASE (\E c \in Callers, n \in Names : Begin(c, n))
             \/ (\E c \in Callers : CheckVault(c)) \/ (\E c \in Callers : CheckPending(c))
             \/ (\E c \in Callers : Lock(c)) \/ (\E c \in Callers : Unlock(c))
             \/ (\E c \in Callers : Observe(c)) \/ (\E c \in Callers : TimeoutGet(c))
             \/ (\E i \in Ids : FulfilBegin(i)) \/ (\E i \in Ids : DeclineGet(i))
             \/ (\E i \in Ids : Expire(i)) \/ (\E w \in Sweeps : SweepFind(w)) \/ Seal
             \/ FulfilGet \/ (\E w \in Sweeps : SweepGet(w)) \/ AgentExit \/ AgentStart
             \/ SupervisorExit
    BY <1>k, <1>4 DEF Begin, CheckVault, CheckPending, Lock, Unlock, Observe, TimeoutGet,
          FulfilBegin, DeclineGet, Expire, SweepFind, Seal, FulfilGet, SweepGet,
          AgentExit, AgentStart, SupervisorExit
  <1>5. CASE UNCHANGED vars
    BY <1>5, <1>k DEF vars
  <1> QED
    BY <1>1, <1>2, <1>3, <1>4, <1>5
       DEF Next, CallStep, WriterStep

\* The handlers and sweeps.
LEMMA NextWriters == IInv /\ [Next]_vars => WritersOK'
  <1> SUFFICES ASSUME IInv, [Next]_vars PROVE WritersOK'
    OBVIOUS
  <1>a. RecsOK /\ WritersOK /\ "fulfil" \in Writers /\ "decline" \in Writers /\ Sweeps \subseteq Writers
    BY Parts DEF IInv, Writers, Operator
  <1>n. \A i \in Ids : rec[i].name \in Names => rec'[i].name \in Names
    BY NextRecs
  <1>p. \A i \in Pending : i \in Ids /\ rec[i].name \in Names
    BY <1>a DEF Pending, RecsOK
  <1>k. UNCHANGED writer => WritersOK'
    BY <1>a, <1>n DEF WritersOK
  <1>i. \A w \in Writers : writer' = [writer EXCEPT ![w] = IdleWriter] => WritersOK'
    BY <1>a, <1>n, Idle DEF WritersOK, Busy
  <1>x. \A w \in Writers, x \in WriterType :
          writer' = [writer EXCEPT ![w] = x] /\ (x.pc \in Busy => x.id \in Ids /\ rec[x.id].name \in Names)
          => WritersOK'
    BY <1>a, <1>n DEF WritersOK
  <1>1. ASSUME NEW i \in Ids, FulfilBegin(i) PROVE WritersOK'
    <2> DEFINE new == [IdleWriter EXCEPT !.pc = "sealing", !.id = i]
    <2>1. new \in WriterType /\ new.id = i
      BY DEF IdleWriter, WriterType, WriterPcs
    <2>2. writer' = [writer EXCEPT !["fulfil"] = new] /\ rec[i].name \in Names
      BY <1>1, <1>p DEF FulfilBegin
    <2> HIDE DEF new
    <2> QED BY <1>a, <1>x, <2>1, <2>2
  <1>2. ASSUME NEW i \in Ids, DeclineGet(i) PROVE WritersOK'
    <2> DEFINE new == [IdleWriter EXCEPT !.pc = "saving", !.id = i]
    <2>1. new \in WriterType /\ new.id = i
      BY DEF IdleWriter, WriterType, WriterPcs
    <2>2. writer' = [writer EXCEPT !["decline"] = new] /\ rec[i].name \in Names
      BY <1>2, <1>p DEF DeclineGet
    <2> HIDE DEF new
    <2> QED BY <1>a, <1>x, <2>1, <2>2
  <1>3. ASSUME NEW w \in Sweeps, SweepFind(w) PROVE WritersOK'
    <2>1. PICK found \in SUBSET Ids :
            writer' = [writer EXCEPT ![w] = [IdleWriter EXCEPT !.pc = "sweeping", !.found = found]]
      BY <1>3 DEF SweepFind, Overdue, Pending
    <2> DEFINE new == [IdleWriter EXCEPT !.pc = "sweeping", !.found = found]
    <2>2. new \in WriterType /\ new.pc \notin Busy
      BY DEF IdleWriter, WriterType, WriterPcs, Busy
    <2>3. writer' = [writer EXCEPT ![w] = new]
      BY <2>1
    <2> HIDE DEF new
    <2> QED BY <1>a, <1>x, <2>2, <2>3
  <1>4. CASE Seal
    <2> DEFINE new == [writer["fulfil"] EXCEPT !.pc = "sealed"]
    <2>1. new \in WriterType /\ new.id = writer["fulfil"].id /\ writer["fulfil"].pc \in Busy
      BY <1>a, <1>4 DEF Seal, WritersOK, WriterType, WriterPcs, Busy
    <2>2. writer' = [writer EXCEPT !["fulfil"] = new]
      BY <1>a, <1>4 DEF Seal, WritersOK
    <2> HIDE DEF new
    <2> QED BY <1>a, <1>x, <2>1, <2>2 DEF WritersOK
  <1>5. CASE FulfilGet
    <2> DEFINE new == [writer["fulfil"] EXCEPT !.pc = "saving"]
    <2>1. new \in WriterType /\ new.id = writer["fulfil"].id /\ writer["fulfil"].pc \in Busy
      BY <1>a, <1>5 DEF FulfilGet, WritersOK, WriterType, WriterPcs, Busy
    <2>2. writer' = [writer EXCEPT !["fulfil"] = new] \/ writer' = [writer EXCEPT !["fulfil"] = IdleWriter]
      BY <1>a, <1>5 DEF FulfilGet, WritersOK
    <2> HIDE DEF new
    <2> QED BY <1>a, <1>i, <1>x, <2>1, <2>2 DEF WritersOK
  <1>6. ASSUME NEW w \in Sweeps, SweepGet(w) PROVE WritersOK'
    <2>1. CASE writer' = [writer EXCEPT ![w] = IdleWriter]
      BY <1>a, <1>i, <2>1
    <2>2. CASE \E i \in writer[w].found :
                 writer' = [writer EXCEPT ![w].found = @ \ {i},
                                          ![w].id = IF i \in Pending THEN i ELSE NoId,
                                          ![w].pc = IF i \in Pending THEN "saving" ELSE "sweeping"]
      <3> PICK i \in writer[w].found :
                 writer' = [writer EXCEPT ![w].found = @ \ {i},
                                          ![w].id = IF i \in Pending THEN i ELSE NoId,
                                          ![w].pc = IF i \in Pending THEN "saving" ELSE "sweeping"]
        BY <2>2
      <3> DEFINE id == IF i \in Pending THEN i ELSE NoId
                 pc == IF i \in Pending THEN "saving" ELSE "sweeping"
                 new == [writer[w] EXCEPT !.found = @ \ {i}, !.id = id, !.pc = pc]
      <3>1. id \in Ids \cup {NoId} /\ pc \in WriterPcs
            /\ (pc \in Busy => id \in Ids /\ rec[id].name \in Names)
        BY <1>p DEF Busy, WriterPcs
      <3>2. writer' = [writer EXCEPT ![w] = new]
        BY <1>a DEF WritersOK, WriterType
      <3> HIDE DEF id, pc
      <3>3. new \in WriterType /\ new.id = id /\ new.pc = pc
        BY <1>a, <3>1 DEF WritersOK, WriterType
      <3> HIDE DEF new
      <3> QED BY <1>a, <1>x, <3>1, <3>2, <3>3
    <2> QED BY <1>6, <2>1, <2>2 DEF SweepGet
  <1>7. ASSUME NEW w \in Writers, Save(w) PROVE WritersOK'
    <2> DEFINE new == [writer[w] EXCEPT !.pc = "sweeping", !.id = NoId]
    <2>1. new \in WriterType /\ new.pc \notin Busy
      BY <1>a DEF WritersOK, WriterType, WriterPcs, Busy
    <2>2. writer' = [writer EXCEPT ![w] = new] \/ writer' = [writer EXCEPT ![w] = IdleWriter]
      BY <1>a, <1>7 DEF Save, WritersOK
    <2> HIDE DEF new
    <2> QED BY <1>i, <1>x, <2>1, <2>2
  <1>8. CASE SupervisorExit
    BY <1>8, <1>n, Idle DEF SupervisorExit, WritersOK, Busy
  <1>9. CASE (\E c \in Callers, n \in Names : Begin(c, n))
             \/ (\E c \in Callers : CheckVault(c)) \/ (\E c \in Callers : CheckPending(c))
             \/ (\E c \in Callers : Lock(c)) \/ (\E c \in Callers : Create(c))
             \/ (\E c \in Callers : Unlock(c)) \/ (\E c \in Callers : Observe(c))
             \/ (\E c \in Callers : TimeoutGet(c)) \/ (\E c \in Callers : TimeoutSave(c))
             \/ (\E i \in Ids : Expire(i)) \/ AgentExit \/ AgentStart
    BY <1>k, <1>9 DEF Begin, CheckVault, CheckPending, Lock, Create, Unlock, Observe, TimeoutGet,
          TimeoutSave, Expire, AgentExit, AgentStart
  <1>10. CASE UNCHANGED vars
    BY <1>10, <1>k DEF vars
  <1> QED
    BY <1>1, <1>2, <1>3, <1>4, <1>5, <1>6, <1>7, <1>8, <1>9, <1>10
       DEF Next, CallStep, WriterStep

\* The vault, the lock files, the clock.
LEMMA NextRest == IInv /\ [Next]_vars => RestOK' /\ up' \in BOOLEAN
  <1> SUFFICES ASSUME IInv, [Next]_vars PROVE RestOK' /\ up' \in BOOLEAN
    OBVIOUS
  <1>a. RestOK /\ up \in BOOLEAN /\ CallsOK /\ WritersOK /\ "fulfil" \in Writers
    BY Parts DEF IInv, Writers, Operator
  <1>k. UNCHANGED <<due, vault, lock, exits, up>> => RestOK' /\ up' \in BOOLEAN
    BY <1>a DEF RestOK
  <1>1. CASE (\E c \in Callers : Lock(c)) \/ (\E c \in Callers : Unlock(c))
    BY <1>a, <1>1 DEF Lock, Unlock, RestOK, CallsOK
  <1>2. CASE Seal
    BY <1>a, <1>2 DEF Seal, RestOK, WritersOK, Busy
  <1>3. ASSUME NEW i \in Ids, Expire(i) PROVE RestOK' /\ up' \in BOOLEAN
    BY <1>a, <1>3 DEF Expire, RestOK
  <1>4. CASE AgentExit \/ SupervisorExit
    <2>1. RestOK'
      BY <1>a, <1>4 DEF AgentExit, SupervisorExit, RestOK
    <2>2. up' \in BOOLEAN
      BY <1>a, <1>4, Zenon DEF AgentExit, SupervisorExit
    <2> QED BY <2>1, <2>2
  <1>5. CASE AgentStart
    BY <1>a, <1>5 DEF AgentStart, RestOK
  <1>6. CASE (\E c \in Callers, n \in Names : Begin(c, n))
             \/ (\E c \in Callers : CheckVault(c)) \/ (\E c \in Callers : CheckPending(c))
             \/ (\E c \in Callers : Create(c)) \/ (\E c \in Callers : Observe(c))
             \/ (\E c \in Callers : TimeoutGet(c)) \/ (\E c \in Callers : TimeoutSave(c))
             \/ (\E i \in Ids : FulfilBegin(i)) \/ (\E i \in Ids : DeclineGet(i))
             \/ (\E w \in Sweeps : SweepFind(w)) \/ FulfilGet
             \/ (\E w \in Sweeps : SweepGet(w)) \/ (\E w \in Writers : Save(w))
    BY <1>k, <1>6 DEF Begin, CheckVault, CheckPending, Create, Observe, TimeoutGet, TimeoutSave,
          FulfilBegin, DeclineGet, SweepFind, FulfilGet, SweepGet, Save
  <1>7. CASE UNCHANGED vars
    BY <1>7, <1>k DEF vars
  <1> QED
    BY <1>1, <1>2, <1>3, <1>4, <1>5, <1>6, <1>7
       DEF Next, CallStep, WriterStep

-----------------------------------------------------------------------------
(* One card per name.                                                      *)

\* The dedup map.
LEMMA NextDeduped == IInv /\ [Next]_vars => Deduped'
  <1> SUFFICES ASSUME IInv, [Next]_vars PROVE Deduped'
    OBVIOUS
  <1>a. CallsOK /\ Deduped
    BY Parts DEF IInv
  <1>k. UNCHANGED call => Deduped'
    BY <1>a DEF Deduped
  <1>r. \A c \in Callers : Return(c) => Deduped'
    BY <1>a, Idle DEF CallsOK, Return, Deduped
  <1>g. \A c \in Callers, pc \in CallPcs : Goto(c, pc) /\ call[c].pc # "idle" => Deduped'
    BY <1>a DEF CallsOK, CallType, Goto, Deduped
  <1>1. ASSUME NEW c \in Callers, NEW n \in Names, Begin(c, n) PROVE Deduped'
    <2>1. \A d \in Callers : call[d].pc # "idle" => call[d].name # n
      BY <1>1 DEF Begin, MayCall, InFlight
    <2>2. \A d \in Callers \ {c} : call'[d] = call[d]
      BY <1>a, <1>1 DEF Begin, CallsOK
    <2>3. call'[c].name = n
      BY <1>a, <1>1 DEF Begin, CallsOK, IdleCall
    <2> QED BY <1>a, <2>1, <2>2, <2>3 DEF Deduped
  <1>2. CASE (\E c \in Callers : CheckVault(c)) \/ (\E c \in Callers : CheckPending(c))
             \/ (\E c \in Callers : Lock(c))
    BY <1>r, <1>g, <1>2 DEF CheckVault, CheckPending, Lock, CallPcs
  <1>3. ASSUME NEW c \in Callers, Create(c) PROVE Deduped'
    <2>1. PICK i \in Ids : call' = [call EXCEPT ![c].pc = "created", ![c].id = i]
      BY <1>3 DEF Create
    <2>2. call'[c].name = call[c].name /\ call[c].pc # "idle"
      BY <1>a, <1>3, <2>1 DEF Create, CallsOK, CallType
    <2>3. \A d \in Callers \ {c} : call'[d] = call[d]
      BY <1>a, <2>1 DEF CallsOK
    <2> QED BY <1>a, <2>2, <2>3 DEF Deduped
  <1>4. CASE (\E c \in Callers : Unlock(c)) \/ (\E c \in Callers : TimeoutGet(c))
    BY <1>g, <1>4 DEF Unlock, TimeoutGet, CallPcs
  <1>5. CASE (\E c \in Callers : Observe(c)) \/ (\E c \in Callers : TimeoutSave(c))
    BY <1>r, <1>5 DEF Observe, TimeoutSave
  <1>6. CASE AgentExit
    BY <1>6, Idle DEF AgentExit, Deduped
  <1>7. CASE (\E i \in Ids : FulfilBegin(i)) \/ (\E i \in Ids : DeclineGet(i))
             \/ (\E i \in Ids : Expire(i)) \/ (\E w \in Sweeps : SweepFind(w)) \/ Seal
             \/ FulfilGet \/ (\E w \in Sweeps : SweepGet(w))
             \/ (\E w \in Writers : Save(w)) \/ AgentStart \/ SupervisorExit
    BY <1>k, <1>7 DEF FulfilBegin, DeclineGet, Expire, SweepFind, Seal, FulfilGet, SweepGet, Save,
                      AgentStart, SupervisorExit
  <1>8. CASE UNCHANGED vars
    BY <1>8, <1>k DEF vars
  <1> QED
    BY <1>1, <1>2, <1>3, <1>4, <1>5, <1>6, <1>7, <1>8
       DEF Next, CallStep, WriterStep

\* No transition makes a record pending.
LEMMA EndedPends ==
    ASSUME RecsOK, NEW i, NEW st \in Terminal, rec' = Ended(i, st)
    PROVE  Pending' \subseteq Pending /\ \A j \in Ids : rec'[j].name = rec[j].name
  BY DEF RecsOK, Record, Ended, Pending, Terminal

\* What is pending when a call creates a record.
LEMMA NextCards == IInv /\ [Next]_vars => ClearStays' /\ OneCardPerName'
  <1> SUFFICES ASSUME IInv, [Next]_vars PROVE ClearStays' /\ OneCardPerName'
    OBVIOUS
  <1>a. CallsOK /\ RecsOK /\ ClearStays /\ OneCardPerName /\ Deduped
    BY Parts DEF IInv
  <1>c. \A c \in Callers : \A x :
          /\ UNCHANGED rec /\ call' = [call EXCEPT ![c] = x]
          /\ x.pc \in {"clear", "locked"} => \A i \in Pending : rec[i].name # x.name
          => ClearStays' /\ OneCardPerName'
    BY <1>a DEF CallsOK, ClearStays, OneCardPerName, Pending
  <1>r. \A c \in Callers : Return(c) /\ UNCHANGED rec => ClearStays' /\ OneCardPerName'
    BY <1>c, Idle DEF Return
  <1>g. \A c \in Callers, pc \in CallPcs :
          /\ Goto(c, pc) /\ UNCHANGED rec
          /\ pc \in {"clear", "locked"} => \A i \in Pending : rec[i].name # call[c].name
          => ClearStays' /\ OneCardPerName'
    <2> SUFFICES ASSUME NEW c \in Callers, NEW pc \in CallPcs, Goto(c, pc), UNCHANGED rec,
                        pc \in {"clear", "locked"} => \A i \in Pending : rec[i].name # call[c].name
                 PROVE  ClearStays' /\ OneCardPerName'
      OBVIOUS
    <2>1. call' = [call EXCEPT ![c] = [call[c] EXCEPT !.pc = pc]]
      BY <1>a DEF Goto, CallsOK
    <2>2. [call[c] EXCEPT !.pc = pc].pc = pc /\ [call[c] EXCEPT !.pc = pc].name = call[c].name
      BY <1>a DEF CallsOK, CallType
    <2> QED BY <1>c, <2>1, <2>2
  <1>e. \A i, st : st \in Terminal /\ rec' = Ended(i, st)
               /\ (UNCHANGED call \/ \E c \in Callers : Return(c)) => ClearStays' /\ OneCardPerName'
    <2> SUFFICES ASSUME NEW i, NEW st \in Terminal, rec' = Ended(i, st),
                        UNCHANGED call \/ \E c \in Callers : Return(c)
                 PROVE  ClearStays' /\ OneCardPerName'
      OBVIOUS
    <2>1. Pending' \subseteq Pending /\ \A j \in Ids : rec'[j].name = rec[j].name
      BY <1>a, EndedPends
    <2>2. \A c \in Callers : call'[c] = call[c] \/ call'[c].pc = "idle"
      BY <1>a, Idle DEF Return, CallsOK
    <2>3. Pending \subseteq Ids
      BY DEF Pending
    <2> QED BY <1>a, <2>1, <2>2, <2>3 DEF ClearStays, OneCardPerName
  <1>k. UNCHANGED <<rec, call>> => ClearStays' /\ OneCardPerName'
    BY <1>a DEF ClearStays, OneCardPerName, Pending
  <1>1. ASSUME NEW c \in Callers, NEW n \in Names, Begin(c, n) PROVE ClearStays' /\ OneCardPerName'
    <2>1. call' = [call EXCEPT ![c] = [IdleCall EXCEPT !.pc = "listed", !.name = n, !.had = n \in vault]]
      BY <1>1 DEF Begin
    <2>2. [IdleCall EXCEPT !.pc = "listed", !.name = n, !.had = n \in vault].pc = "listed"
      BY DEF IdleCall
    <2> QED BY <1>c, <1>1, <2>1, <2>2 DEF Begin
  <1>2. CASE (\E c \in Callers : CheckVault(c)) \/ (\E c \in Callers : Unlock(c))
             \/ (\E c \in Callers : TimeoutGet(c)) \/ (\E c \in Callers : Observe(c))
    BY <1>r, <1>g, <1>2 DEF CheckVault, Unlock, TimeoutGet, Observe, CallPcs
  <1>3. ASSUME NEW c \in Callers, CheckPending(c) PROVE ClearStays' /\ OneCardPerName'
    <2>1. Of(call[c].name) \cap Pending = {} => \A i \in Pending : rec[i].name # call[c].name
      BY DEF Of, Pending
    <2> QED BY <1>r, <1>g, <1>3, <2>1 DEF CheckPending, CallPcs
  <1>4. ASSUME NEW c \in Callers, Lock(c) PROVE ClearStays' /\ OneCardPerName'
    BY <1>a, <1>r, <1>g, <1>4 DEF Lock, CallPcs, ClearStays
  <1>5. ASSUME NEW c \in Callers, Create(c) PROVE ClearStays' /\ OneCardPerName'
    <2> PICK i \in Ids :
            /\ rec' = [rec EXCEPT ![i] = [state |-> "pending", name |-> call[c].name, given |-> FALSE]]
            /\ call' = [call EXCEPT ![c].pc = "created", ![c].id = i]
      BY <1>5 DEF Create
    <2>1. call[c].pc = "locked" /\ \A j \in Pending : rec[j].name # call[c].name
      BY <1>a, <1>5 DEF Create, ClearStays
    <2>2. rec'[i].name = call[c].name /\ \A j \in Ids \ {i} : rec'[j] = rec[j]
      BY <1>a DEF RecsOK
    <2>3. Pending' = Pending \cup {i} /\ Pending \subseteq Ids
      BY <1>a DEF Pending, RecsOK
    <2>4. call'[c].pc = "created" /\ \A d \in Callers \ {c} : call'[d] = call[d]
      BY <1>a DEF CallsOK, CallType
    <2>5. \A d \in Callers \ {c} : call[d].pc # "idle" => call[d].name # call[c].name
      BY <1>a, <2>1 DEF Deduped
    <2>6. OneCardPerName'
      BY <1>a, <2>1, <2>2, <2>3 DEF OneCardPerName
    <2>7. ClearStays'
      <3> SUFFICES ASSUME NEW d \in Callers, call'[d].pc \in {"clear", "locked"}, NEW j \in Pending'
                   PROVE  rec'[j].name # call'[d].name
        BY DEF ClearStays
      <3>1. d # c /\ call'[d] = call[d] /\ call[d].pc # "idle"
        BY <2>4
      <3>2. CASE j = i
        BY <2>2, <2>5, <3>1, <3>2
      <3>3. CASE j # i
        BY <1>a, <2>2, <2>3, <3>1, <3>3 DEF ClearStays
      <3> QED BY <3>2, <3>3
    <2> QED BY <2>6, <2>7
  <1>6. ASSUME NEW c \in Callers, TimeoutSave(c) PROVE ClearStays' /\ OneCardPerName'
    BY <1>e, <1>6 DEF TimeoutSave, Terminal
  <1>7. ASSUME NEW w \in Writers, Save(w) PROVE ClearStays' /\ OneCardPerName'
    <2>1. Outcome[w] \in Terminal
      BY DEF Outcome, Terminal
    <2> QED BY <1>e, <1>7, <2>1 DEF Save
  <1>8. CASE AgentExit
    <2>1. \A c \in Callers : call'[c].pc = "idle"
      BY <1>8, Idle DEF AgentExit
    <2> QED BY <1>a, <1>8, <2>1 DEF AgentExit, ClearStays, OneCardPerName, Pending
  <1>9. CASE (\E i \in Ids : FulfilBegin(i)) \/ (\E i \in Ids : DeclineGet(i))
             \/ (\E i \in Ids : Expire(i)) \/ (\E w \in Sweeps : SweepFind(w)) \/ Seal
             \/ FulfilGet \/ (\E w \in Sweeps : SweepGet(w)) \/ AgentStart
             \/ SupervisorExit
    BY <1>k, <1>9 DEF FulfilBegin, DeclineGet, Expire, SweepFind, Seal, FulfilGet, SweepGet,
                      AgentStart, SupervisorExit
  <1>10. CASE UNCHANGED vars
    BY <1>10, <1>k DEF vars
  <1> QED
    BY <1>1, <1>2, <1>3, <1>4, <1>5, <1>6, <1>7, <1>8, <1>9, <1>10
       DEF Next, CallStep, WriterStep

\* The record of a card has a name.
LEMMA NextCarded == IInv /\ [Next]_vars => Carded'
  <1> SUFFICES ASSUME IInv, [Next]_vars PROVE Carded'
    OBVIOUS
  <1>a. CallsOK /\ RecsOK /\ Carded
    BY Parts DEF IInv
  <1>n. \A i \in Ids : rec[i].name \in Names => rec'[i].name = rec[i].name
    BY NextRecs
  <1> DEFINE Shown(c) == call[c].pc \in {"created", "waiting", "expiring"}
  <1>s. (\A c \in Callers : Shown(c)' => Shown(c) /\ call'[c].id = call[c].id) => Carded'
    BY <1>a, <1>n DEF Carded, CallsOK
  <1>r. \A c \in Callers : Return(c) => Carded'
    BY <1>a, <1>s, Idle DEF CallsOK, Return
  <1>g. \A c \in Callers, pc \in CallPcs :
          Goto(c, pc) /\ (pc \in {"created", "waiting", "expiring"} => Shown(c)) => Carded'
    BY <1>a, <1>s DEF CallsOK, CallType, Goto
  <1>k. UNCHANGED call => Carded'
    BY <1>s
  <1>1. ASSUME NEW c \in Callers, NEW n \in Names, Begin(c, n) PROVE Carded'
    <2>1. call'[c].pc = "listed" /\ \A d \in Callers \ {c} : call'[d] = call[d]
      BY <1>a, <1>1 DEF Begin, CallsOK, IdleCall
    <2> QED BY <1>s, <2>1
  <1>2. CASE (\E c \in Callers : CheckVault(c)) \/ (\E c \in Callers : CheckPending(c))
             \/ (\E c \in Callers : Lock(c))
    BY <1>r, <1>g, <1>2 DEF CheckVault, CheckPending, Lock, CallPcs
  <1>3. ASSUME NEW c \in Callers, Create(c) PROVE Carded'
    <2> PICK i \in Ids :
            /\ rec' = [rec EXCEPT ![i] = [state |-> "pending", name |-> call[c].name, given |-> FALSE]]
            /\ call' = [call EXCEPT ![c].pc = "created", ![c].id = i]
      BY <1>3 DEF Create
    <2>1. rec'[i].name \in Names
      BY <1>a, <1>3 DEF RecsOK, CallsOK, Create
    <2>2. call'[c].id = i /\ \A d \in Callers \ {c} : call'[d] = call[d]
      BY <1>a DEF CallsOK, CallType
    <2> QED BY <1>a, <1>n, <2>1, <2>2 DEF Carded, CallsOK
  <1>4. CASE (\E c \in Callers : Unlock(c)) \/ (\E c \in Callers : TimeoutGet(c))
    BY <1>g, <1>4 DEF Unlock, TimeoutGet, CallPcs
  <1>5. CASE (\E c \in Callers : Observe(c)) \/ (\E c \in Callers : TimeoutSave(c))
    BY <1>r, <1>5 DEF Observe, TimeoutSave
  <1>6. CASE AgentExit
    BY <1>s, <1>6, Idle DEF AgentExit
  <1>7. CASE (\E i \in Ids : FulfilBegin(i)) \/ (\E i \in Ids : DeclineGet(i))
             \/ (\E i \in Ids : Expire(i)) \/ (\E w \in Sweeps : SweepFind(w)) \/ Seal
             \/ FulfilGet \/ (\E w \in Sweeps : SweepGet(w))
             \/ (\E w \in Writers : Save(w)) \/ AgentStart \/ SupervisorExit
    BY <1>k, <1>7 DEF FulfilBegin, DeclineGet, Expire, SweepFind, Seal, FulfilGet, SweepGet, Save,
                      AgentStart, SupervisorExit
  <1>8. CASE UNCHANGED vars
    BY <1>8, <1>k DEF vars
  <1> QED
    BY <1>1, <1>2, <1>3, <1>4, <1>5, <1>6, <1>7, <1>8
       DEF Next, CallStep, WriterStep

-----------------------------------------------------------------------------
(* What is sealed.                                                         *)

LEMMA NextHad == IInv /\ [Next]_vars => HadIsThere' /\ SealedIsNotReasked'
  <1> SUFFICES ASSUME IInv, [Next]_vars PROVE HadIsThere' /\ SealedIsNotReasked'
    OBVIOUS
  <1>a. CallsOK /\ HadIsThere /\ SealedIsNotReasked /\ vault \subseteq vault'
    <2>1. vault \subseteq vault'
      BY DEF Next, CallStep, WriterStep, vars, Begin, CheckVault, CheckPending, Lock, Create,
          Unlock,
             Observe, TimeoutGet, TimeoutSave, FulfilBegin, DeclineGet, Expire, SweepFind, Seal,
             FulfilGet, SweepGet, Save, AgentExit, AgentStart, SupervisorExit
    <2> QED BY <2>1, Parts DEF IInv
  <1>s. (\A c \in Callers : call'[c] = call[c] \/ ~call'[c].had) => HadIsThere' /\ SealedIsNotReasked'
    BY <1>a DEF HadIsThere, SealedIsNotReasked
  <1>r. \A c \in Callers : Return(c) => HadIsThere' /\ SealedIsNotReasked'
    BY <1>a, <1>s, Idle DEF CallsOK, Return
  <1>g. \A c \in Callers, pc \in CallPcs : Goto(c, pc) /\ ~call[c].had => HadIsThere' /\ SealedIsNotReasked'
    BY <1>a, <1>s DEF CallsOK, CallType, Goto
  <1>h. \A c \in Callers : call[c].pc \notin {"idle", "listed"} => ~call[c].had
    BY <1>a DEF SealedIsNotReasked
  <1>1. ASSUME NEW c \in Callers, NEW n \in Names, Begin(c, n) PROVE HadIsThere' /\ SealedIsNotReasked'
    <2> DEFINE new == [IdleCall EXCEPT !.pc = "listed", !.name = n, !.had = n \in vault]
    <2>1. new.pc = "listed" /\ new.name = n /\ new.had = (n \in vault)
      BY DEF IdleCall
    <2>2. call'[c] = new /\ \A d \in Callers \ {c} : call'[d] = call[d]
      BY <1>a, <1>1 DEF Begin, CallsOK
    <2> HIDE DEF new
    <2> QED BY <1>a, <2>1, <2>2 DEF HadIsThere, SealedIsNotReasked
  <1>2. ASSUME NEW c \in Callers, CheckVault(c) PROVE HadIsThere' /\ SealedIsNotReasked'
    <2>1. CASE call[c].name \in vault
      BY <1>2, <1>r, <2>1 DEF CheckVault
    <2>2. CASE call[c].name \notin vault
      <3>1. ~call[c].had
        BY <1>2, <1>a, <2>2 DEF CheckVault, HadIsThere
      <3> QED BY <1>2, <1>g, <2>2, <3>1 DEF CheckVault, CallPcs
    <2> QED BY <2>1, <2>2
  <1>3. ASSUME NEW c \in Callers, CheckPending(c) \/ Lock(c) \/ Unlock(c) \/ Observe(c) \/ TimeoutGet(c)
                                  \/ TimeoutSave(c)
        PROVE  HadIsThere' /\ SealedIsNotReasked'
    BY <1>3, <1>r, <1>g, <1>h DEF CheckPending, Lock, Unlock, Observe, TimeoutGet, TimeoutSave,
        CallPcs
  <1>4. ASSUME NEW c \in Callers, Create(c) PROVE HadIsThere' /\ SealedIsNotReasked'
    <2>1. PICK i \in Ids : call' = [call EXCEPT ![c].pc = "created", ![c].id = i]
      BY <1>4 DEF Create
    <2>2. ~call[c].had
      BY <1>4, <1>h DEF Create
    <2>3. ~call'[c].had /\ \A d \in Callers \ {c} : call'[d] = call[d]
      BY <1>a, <2>1, <2>2 DEF CallsOK, CallType
    <2> QED BY <1>s, <2>3
  <1>5. CASE AgentExit
    BY <1>5, <1>s, Idle DEF AgentExit
  <1>6. CASE UNCHANGED call
    BY <1>6, <1>s
  <1> QED
    BY <1>1, <1>2, <1>3, <1>4, <1>5, <1>6 DEF Next, CallStep, WriterStep, vars, FulfilBegin,
        DeclineGet,
       Expire, SweepFind, Seal, FulfilGet, SweepGet, Save, AgentStart, SupervisorExit

LEMMA NextSealed == IInv /\ [Next]_vars => SealedFirst' /\ FulfilledIsSealed'
  <1> SUFFICES ASSUME IInv, [Next]_vars PROVE SealedFirst' /\ FulfilledIsSealed'
    OBVIOUS
  <1>a. RecsOK /\ CallsOK /\ WritersOK /\ SealedFirst /\ FulfilledIsSealed
        /\ "fulfil" \in Writers /\ "fulfil" \notin Sweeps /\ "decline" # "fulfil"
    BY Parts DEF IInv, Writers, Operator, Sweeps
  <1>n. \A i \in Ids : rec[i].name \in Names => rec'[i].name = rec[i].name
    BY NextRecs
  <1>v. vault \subseteq vault'
    BY DEF Next, CallStep, WriterStep, vars, Begin, CheckVault, CheckPending, Lock, Create, Unlock,
           Observe, TimeoutGet, TimeoutSave, FulfilBegin, DeclineGet, Expire, SweepFind, Seal,
           FulfilGet, SweepGet, Save, AgentExit, AgentStart, SupervisorExit
  <1>f. (\A i \in Ids : rec'[i].state = "fulfilled" => rec[i].state = "fulfilled") => FulfilledIsSealed'
    BY <1>a, <1>n, <1>v DEF FulfilledIsSealed, RecsOK
  <1>w. /\ writer'["fulfil"].pc \in {"sealed", "saving"} => writer["fulfil"].pc \in {"sealed", "saving"}
        /\ writer'["fulfil"].pc \in {"sealed", "saving"} => writer'["fulfil"].id = writer["fulfil"].id
        => SealedFirst'
    BY <1>a, <1>n, <1>v DEF SealedFirst, WritersOK, Busy
  <1>e. \A i, st : st \in Terminal \ {"fulfilled"} /\ rec' = Ended(i, st) => FulfilledIsSealed'
    BY <1>a, <1>f DEF Ended, RecsOK, Record
  <1>1. CASE Seal
    <2>1. writer'["fulfil"].id = writer["fulfil"].id /\ writer["fulfil"].pc \in Busy
      BY <1>1, <1>a DEF Seal, WritersOK, WriterType, Busy
    <2>2. SealedFirst'
      BY <1>1, <1>a, <2>1 DEF Seal, SealedFirst, WritersOK
    <2> QED BY <1>1, <1>f, <2>2 DEF Seal
  <1>2. CASE FulfilGet
    <2>1. writer'["fulfil"].pc = "idle" \/ writer'["fulfil"].id = writer["fulfil"].id
      BY <1>2, <1>a, Idle DEF FulfilGet, WritersOK, WriterType
    <2> QED BY <1>2, <1>f, <1>w, <2>1 DEF FulfilGet
  <1>3. ASSUME NEW w \in Writers, Save(w) PROVE SealedFirst' /\ FulfilledIsSealed'
    <2>1. CASE w = "fulfil"
      <3>1. rec[writer[w].id].name \in vault /\ writer[w].id \in Ids
        BY <1>3, <1>a, <2>1 DEF Save, SealedFirst, WritersOK, Busy
      <3>2. \A i \in Ids \ {writer[w].id} : rec'[i] = rec[i]
        BY <1>3, <1>a, <3>1 DEF Save, Ended, RecsOK
      <3>3. FulfilledIsSealed'
        BY <1>3, <1>a, <1>n, <1>v, <2>1, <3>1, <3>2 DEF FulfilledIsSealed, RecsOK, Save,
            WritersOK, Busy
      <3>4. writer'["fulfil"].pc = "idle"
        BY <1>3, <1>a, <2>1, Idle DEF Save, WritersOK
      <3> QED BY <1>w, <3>3, <3>4
    <2>2. CASE w # "fulfil"
      <3>1. Outcome[w] \in Terminal \ {"fulfilled"}
        BY <2>2 DEF Outcome, Terminal
      <3>2. writer'["fulfil"] = writer["fulfil"]
        BY <1>3, <1>a, <2>2 DEF Save, WritersOK
      <3> QED BY <1>3, <1>e, <1>w, <3>1, <3>2 DEF Save
    <2> QED BY <2>1, <2>2
  <1>4. ASSUME NEW c \in Callers, TimeoutSave(c) PROVE SealedFirst' /\ FulfilledIsSealed'
    BY <1>4, <1>e, <1>w DEF TimeoutSave, Terminal
  <1>5. ASSUME NEW c \in Callers, Create(c) PROVE SealedFirst' /\ FulfilledIsSealed'
    <2>1. \A i \in Ids : rec'[i].state = "fulfilled" => rec[i].state = "fulfilled"
      BY <1>5, <1>a DEF Create, RecsOK
    <2> QED BY <1>5, <1>f, <1>w, <2>1 DEF Create
  <1>6. ASSUME NEW i \in Ids, FulfilBegin(i) PROVE SealedFirst' /\ FulfilledIsSealed'
    <2>1. writer'["fulfil"].pc = "sealing"
      BY <1>6, <1>a DEF FulfilBegin, WritersOK, IdleWriter
    <2> QED BY <1>6, <1>f, <1>w, <2>1 DEF FulfilBegin
  <1>7. CASE SupervisorExit
    <2>1. writer'["fulfil"].pc = "idle"
      BY <1>7, <1>a, Idle DEF SupervisorExit
    <2> QED BY <1>7, <1>f, <1>w, <2>1 DEF SupervisorExit
  <1>8. CASE UNCHANGED <<rec, writer>>
    BY <1>8, <1>f, <1>w
  <1>9. CASE UNCHANGED rec /\ writer'["fulfil"] = writer["fulfil"]
    BY <1>9, <1>f, <1>w
  <1>10. ASSUME NEW w \in Sweeps, SweepFind(w) \/ SweepGet(w) PROVE UNCHANGED rec /\ writer'["fulfil"] = writer["fulfil"]
    BY <1>10, <1>a DEF SweepFind, SweepGet, WritersOK
  <1>11. ASSUME NEW i \in Ids, DeclineGet(i) PROVE UNCHANGED rec /\ writer'["fulfil"] = writer["fulfil"]
    BY <1>11, <1>a DEF DeclineGet, WritersOK
  <1> QED
    BY <1>1, <1>2, <1>3, <1>4, <1>5, <1>6, <1>7, <1>8, <1>9, <1>10, <1>11 DEF Next, CallStep,
        WriterStep,
       vars, Begin, CheckVault, CheckPending, Lock, Unlock, Observe, TimeoutGet, Expire,
       AgentExit, AgentStart

-----------------------------------------------------------------------------
\* IInv, what each call and writer in progress relies on, holds in every state.
THEOREM Inductive == Spec => []IInv
  <1>1. IInv /\ [Next]_vars => IInv'
    <2> SUFFICES ASSUME IInv, [Next]_vars PROVE IInv'
      OBVIOUS
    <2>1. CallsOK' /\ RecsOK' /\ WritersOK' /\ RestOK' /\ up' \in BOOLEAN
      BY NextCalls, NextRecs, NextWriters, NextRest
    <2>2. TypeOK' /\ Named'
      BY <2>1, Zenon DEF TypeOK, Named, CallsOK, RecsOK, WritersOK, RestOK, CallType, WriterType,
          Busy
    <2> QED
      BY <2>2, NextDeduped, NextCards, NextCarded, NextHad, NextSealed DEF IInv
  <1> QED BY <1>1, InitInv, PTL DEF Spec

\* Type correctness; whoever is in the middle of a transition knows a record.
THEOREM TypeCorrect == Spec => []TypeOK
  <1>1. IInv => TypeOK
    BY DEF IInv
  <1> QED BY <1>1, Inductive, PTL

\* A name never has two requests pending: credential.ts asks and creates
\* behind its dedup map, and no other party creates.
THEOREM OneCard == Spec => []OneCardPerName
  <1>1. IInv => OneCardPerName
    BY DEF IInv
  <1> QED BY <1>1, Inductive, PTL

\* A request that shows fulfilled has its value in the vault, whichever of
\* the transitions that overlap is saved last.
THEOREM FulfilledMeansSealed == Spec => []FulfilledIsSealed
  <1>1. IInv => FulfilledIsSealed
    BY DEF IInv
  <1> QED BY <1>1, Inductive, PTL

\* A value that was there when the call began is not asked for again.
THEOREM NotReasked == Spec => []SealedIsNotReasked
  <1>1. IInv => SealedIsNotReasked
    BY DEF IInv
  <1> QED BY <1>1, Inductive, PTL
=============================================================================
