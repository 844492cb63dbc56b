------------------------- MODULE CredentialRequests -------------------------
(***************************************************************************)
(* The life of one Agent's credential requests: the credential_request     *)
(* tool in the Agent process asks, the operator fulfils or declines over   *)
(* HTTP, and the supervisor expires what nobody answered.                  *)
(*                                                                         *)
(* CredentialRequestStore.transition reads the record, refuses when it is  *)
(* no longer pending, and writes the new record after another await.  So a *)
(* transition is two actions, and any of the four parties that may be in   *)
(* one at the same time can write last.                                    *)
(***************************************************************************)
EXTENDS Integers

CONSTANTS
    Names,      \* credential names
    Ids,        \* request ids, in the order in which they are drawn
    Callers,    \* credential_request calls that may be in progress at once
    MaxExits    \* bound: exits of the Agent and of the supervisor

NoId == 0
NoName == "none"

ASSUME CredentialsAssumption ==
    /\ NoName \notin Names
    /\ Ids \subseteq Nat \ {NoId}
    /\ MaxExits \in Nat

\* The parties outside the Agent that end a request: two HTTP handlers and
\* two sweeps.
Operator == {"fulfil", "decline"}
Sweeps == {"timeout", "crash"}
Writers == Operator \cup Sweeps

VARIABLES
    rec,      \* [Ids -> Record], the files of state/credential-requests
    due,      \* the requests whose expires_at has passed
    vault,    \* the names that have a value in the Agent's vault
    lock,     \* the names whose .lock- file exists
    up,       \* the Agent process runs
    call,     \* [Callers -> the progress of one doCredentialRequest]
    writer,   \* [Writers -> the progress of one handler or sweep]
    exits     \* bound counter of MaxExits

vars == <<rec, due, vault, lock, up, call, writer, exits>>

RecordStates == {"absent", "pending", "fulfilled", "declined", "expired"}
Terminal == {"fulfilled", "declined", "expired"}

\* given: fulfilled_at is set.
Record == [state : RecordStates, name : Names \cup {NoName}, given : BOOLEAN]
NoRecord == [state |-> "absent", name |-> NoName, given |-> FALSE]

CallPcs == {"idle", "listed", "missing", "clear", "locked", "created", "waiting", "expiring"}

\* had: the vault had a value for the name when the call began.
IdleCall == [pc |-> "idle", name |-> NoName, id |-> NoId, had |-> FALSE]

WriterPcs == {"idle", "sealing", "sealed", "sweeping", "saving"}
IdleWriter == [pc |-> "idle", found |-> {}, id |-> NoId]

Init ==
    /\ rec = [i \in Ids |-> NoRecord]
    /\ due = {}
    /\ vault = {}
    /\ lock = {}
    /\ up = TRUE
    /\ call = [c \in Callers |-> IdleCall]
    /\ writer = [w \in Writers |-> IdleWriter]
    /\ exits = 0

Pending == {i \in Ids : rec[i].state = "pending"}
Of(n) == {i \in Ids : rec[i].name = n}
InFlight(n) == \E c \in Callers : call[c].pc # "idle" /\ call[c].name = n

\* A transition's write: every terminal state sets its own stamp, and a
\* pending record, which is what the read saw, had none.
Ended(i, state) ==
    [rec EXCEPT ![i].state = state, ![i].given = (state = "fulfilled")]

-----------------------------------------------------------------------------
(* The tool: doCredentialRequest behind the in-process dedup map.          *)

Goto(c, pc) == call' = [call EXCEPT ![c].pc = pc]
Return(c) == call' = [call EXCEPT ![c] = IdleCall]

\* MUTANT of MayCall: no dedup map.
MayCallTwice(n) == TRUE

\* A second call for a name in flight joins the first one's promise.
MayCall(n) == ~InFlight(n)

\* The call lists this Agent's records; it is refused at once when the
\* operator has already given the value.  (An id left to draw is a bound.)
Begin(c, n) ==
    /\ up
    /\ call[c].pc = "idle"
    /\ MayCall(n)
    /\ \E i \in Ids : rec[i].state = "absent"
    /\ \A i \in Of(n) : ~rec[i].given
    /\ call' = [call EXCEPT ![c] = [IdleCall EXCEPT !.pc = "listed", !.name = n,
                                                    !.had = n \in vault]]
    /\ UNCHANGED <<rec, due, vault, lock, up, writer, exits>>

\* MUTANT of CheckVault: the vault is not asked.
CheckVaultNot(c) ==
    /\ call[c].pc = "listed"
    /\ Goto(c, "missing")
    /\ UNCHANGED <<rec, due, vault, lock, up, writer, exits>>

CheckVault(c) ==
    /\ call[c].pc = "listed"
    /\ IF call[c].name \in vault THEN Return(c) ELSE Goto(c, "missing")
    /\ UNCHANGED <<rec, due, vault, lock, up, writer, exits>>

\* The list of pending records, then the rate cap, which may refuse.
CheckPending(c) ==
    /\ call[c].pc = "missing"
    /\ IF Of(call[c].name) \cap Pending # {}
       THEN Return(c)                        \* concurrent_request_pending
       ELSE \/ Goto(c, "clear")
            \/ Return(c)                     \* rate_capped
    /\ UNCHANGED <<rec, due, vault, lock, up, writer, exits>>

\* open(lockPath, 'wx'): the file is only ever removed by its creator.
Lock(c) ==
    /\ call[c].pc = "clear"
    /\ IF call[c].name \in lock
       THEN Return(c) /\ UNCHANGED lock
       ELSE /\ Goto(c, "locked")
            /\ lock' = lock \cup {call[c].name}
    /\ UNCHANGED <<rec, due, vault, up, writer, exits>>

\* No guard is repeated under the lock.
Create(c) ==
    /\ call[c].pc = "locked"
    /\ \E i \in Ids :
          /\ rec[i].state = "absent"
          /\ \A j \in Ids : rec[j].state = "absent" => i <= j
          /\ rec' = [rec EXCEPT ![i] = [state |-> "pending", name |-> call[c].name,
                                        given |-> FALSE]]
          /\ call' = [call EXCEPT ![c].pc = "created", ![c].id = i]
    /\ UNCHANGED <<due, vault, lock, up, writer, exits>>

\* unlink, then the paste card and the human_gate blocker.
Unlock(c) ==
    /\ call[c].pc = "created"
    /\ lock' = lock \ {call[c].name}
    /\ Goto(c, "waiting")
    /\ UNCHANGED <<rec, due, vault, up, writer, exits>>

\* MUTANT of Observe: only a fulfilment ends the wait.
ObserveFulfilled(c) ==
    /\ call[c].pc = "waiting"
    /\ rec[call[c].id].state = "fulfilled"
    /\ Return(c)
    /\ UNCHANGED <<rec, due, vault, lock, up, writer, exits>>

\* waitForResolution saw the request ended, or the transition to expired
\* was refused and the record read again.
Observe(c) ==
    /\ call[c].pc = "waiting"
    /\ rec[call[c].id].state # "pending"
    /\ Return(c)
    /\ UNCHANGED <<rec, due, vault, lock, up, writer, exits>>

\* The local timeout (expires_at and some slack) with the record pending:
\* the transition to expired reads it ...
TimeoutGet(c) ==
    /\ call[c].pc = "waiting"
    /\ call[c].id \in due
    /\ rec[call[c].id].state = "pending"
    /\ Goto(c, "expiring")
    /\ UNCHANGED <<rec, due, vault, lock, up, writer, exits>>

\* ... and writes it.
TimeoutSave(c) ==
    /\ call[c].pc = "expiring"
    /\ rec' = Ended(call[c].id, "expired")
    /\ Return(c)
    /\ UNCHANGED <<due, vault, lock, up, writer, exits>>

-----------------------------------------------------------------------------
(* The operator's two handlers.                                            *)

\* The handler's own check of the record.
FulfilBegin(i) ==
    /\ writer["fulfil"].pc = "idle"
    /\ i \in Pending
    /\ writer' = [writer EXCEPT !["fulfil"] = [IdleWriter EXCEPT !.pc = "sealing", !.id = i]]
    /\ UNCHANGED <<rec, due, vault, lock, up, call, exits>>

\* MUTANT of Seal: the value is not sealed before the transition.
SealLater ==
    /\ writer["fulfil"].pc = "sealing"
    /\ writer' = [writer EXCEPT !["fulfil"].pc = "sealed"]
    /\ UNCHANGED <<rec, due, vault, lock, up, call, exits>>

\* vault.set, before the transition and whatever becomes of it.
Seal ==
    /\ writer["fulfil"].pc = "sealing"
    /\ vault' = vault \cup {rec[writer["fulfil"].id].name}
    /\ writer' = [writer EXCEPT !["fulfil"].pc = "sealed"]
    /\ UNCHANGED <<rec, due, lock, up, call, exits>>

\* store.transition(.., 'fulfilled'), first half.
FulfilGet ==
    LET i == writer["fulfil"].id IN
    /\ writer["fulfil"].pc = "sealed"
    /\ writer' = [writer EXCEPT !["fulfil"] =
                    IF i \in Pending THEN [@ EXCEPT !.pc = "saving"] ELSE IdleWriter]
    /\ UNCHANGED <<rec, due, vault, lock, up, call, exits>>

\* The handler's check and that of the transition; the second one counts.
DeclineGet(i) ==
    /\ writer["decline"].pc = "idle"
    /\ i \in Pending
    /\ writer' = [writer EXCEPT !["decline"] = [IdleWriter EXCEPT !.pc = "saving", !.id = i]]
    /\ UNCHANGED <<rec, due, vault, lock, up, call, exits>>

-----------------------------------------------------------------------------
(* The supervisor's sweeps.                                                *)

\* MUTANT of Overdue: expires_at is compared the wrong way round.
OverdueNot == Pending \ due

Overdue == Pending \cap due

\* sweepCredentialRequestsOnce lists what has timed out;
\* sweepCredentialRequestsForAgent all that a dead Agent left.
SweepFind(w) ==
    LET found == IF w = "timeout" THEN Overdue ELSE Pending IN
    /\ w = "crash" => ~up
    /\ writer[w].pc = "idle"
    /\ found # {}
    /\ writer' = [writer EXCEPT ![w] = [IdleWriter EXCEPT !.pc = "sweeping",
                                                          !.found = found]]
    /\ UNCHANGED <<rec, due, vault, lock, up, call, exits>>

\* The transition of the next one: refused unless it is still pending.
SweepGet(w) ==
    /\ writer[w].pc = "sweeping"
    /\ \/ /\ writer[w].found = {}
          /\ writer' = [writer EXCEPT ![w] = IdleWriter]
       \/ \E i \in writer[w].found :
             writer' = [writer EXCEPT ![w].found = @ \ {i},
                                      ![w].id = IF i \in Pending THEN i ELSE NoId,
                                      ![w].pc = IF i \in Pending THEN "saving" ELSE "sweeping"]
    /\ UNCHANGED <<rec, due, vault, lock, up, call, exits>>

Outcome == [w \in Writers |-> CASE w = "fulfil" -> "fulfilled"
                                [] w = "decline" -> "declined"
                                [] OTHER -> "expired"]

\* The second half of any writer's transition.
Save(w) ==
    /\ writer[w].pc = "saving"
    /\ rec' = Ended(writer[w].id, Outcome[w])
    /\ writer' = [writer EXCEPT ![w] =
                    IF w \in Sweeps THEN [@ EXCEPT !.pc = "sweeping", !.id = NoId]
                                    ELSE IdleWriter]
    /\ UNCHANGED <<due, vault, lock, up, call, exits>>

-----------------------------------------------------------------------------
(* Time and exits.                                                         *)

Expire(i) ==
    /\ i \in Pending \ due
    /\ due' = due \cup {i}
    /\ UNCHANGED <<rec, vault, lock, up, call, writer, exits>>

\* The calls die with the process; records and lock files stay.
AgentExit ==
    /\ up
    /\ exits < MaxExits
    /\ exits' = exits + 1
    /\ up' = FALSE
    /\ call' = [c \in Callers |-> IdleCall]
    /\ UNCHANGED <<rec, due, vault, lock, writer>>

AgentStart ==
    /\ ~up
    /\ up' = TRUE
    /\ UNCHANGED <<rec, due, vault, lock, call, writer, exits>>

SupervisorExit ==
    /\ exits < MaxExits
    /\ \E w \in Writers : writer[w] # IdleWriter
    /\ exits' = exits + 1
    /\ writer' = [w \in Writers |-> IdleWriter]
    /\ UNCHANGED <<rec, due, vault, lock, up, call>>

-----------------------------------------------------------------------------

CallStep(c) ==
    \/ CheckVault(c)
    \/ CheckPending(c)
    \/ Lock(c)
    \/ Create(c)
    \/ Unlock(c)
    \/ Observe(c)
    \/ TimeoutGet(c)
    \/ TimeoutSave(c)

WriterStep ==
    \/ Seal
    \/ FulfilGet
    \/ \E w \in Sweeps : SweepGet(w)
    \/ \E w \in Writers : Save(w)

Next ==
    \/ \E c \in Callers, n \in Names : Begin(c, n)
    \/ \E c \in Callers : CallStep(c)
    \/ \E i \in Ids : FulfilBegin(i) \/ DeclineGet(i) \/ Expire(i)
    \/ \E w \in Sweeps : SweepFind(w)
    \/ WriterStep
    \/ AgentExit
    \/ AgentStart
    \/ SupervisorExit

Spec == Init /\ [][Next]_vars

\* Awaited I/O answers, the poll and sweep timers fire and time passes.  The
\* operator owes nobody an answer and nobody need restart the Agent.
Fairness ==
    /\ \A c \in Callers : WF_vars(CallStep(c))
    /\ WF_vars(WriterStep)
    /\ WF_vars(SweepFind("timeout"))
    /\ \A i \in Ids : WF_vars(Expire(i))

FairSpec == Spec /\ Fairness

-----------------------------------------------------------------------------
(* Properties.                                                             *)

\* Every variable has the type its declaration names, and whoever is in the
\* middle of a transition or a wait knows a record that exists.
TypeOK ==
    /\ rec \in [Ids -> Record]
    /\ due \subseteq Ids
    /\ vault \subseteq Names
    /\ lock \subseteq Names
    /\ up \in BOOLEAN
    /\ call \in [Callers -> [pc : CallPcs, name : Names \cup {NoName},
                             id : Ids \cup {NoId}, had : BOOLEAN]]
    /\ \A c \in Callers : call[c].pc # "idle" => call[c].name \in Names
    /\ writer \in [Writers -> [pc : WriterPcs, found : SUBSET Ids, id : Ids \cup {NoId}]]
    /\ \A w \in Writers :
          writer[w].pc \in {"sealing", "sealed", "saving"} =>
             /\ writer[w].id \in Ids
             /\ rec[writer[w].id].name \in Names
    /\ exits \in Nat

\* "One paste card, one operator response": a name never has two requests
\* pending, whatever calls, crashes and restarts come together.
OneCardPerName ==
    \A i, j \in Pending : rec[i].name = rec[j].name => i = j

\* A request that shows fulfilled has its value sealed, even when another
\* transition overwrote or was overwritten by the operator's.
FulfilledIsSealed ==
    \A i \in Ids : rec[i].state = "fulfilled" => rec[i].name \in vault

\* The Agent never asks again for a value it had when the call began, even
\* when the record that says so was overwritten.
SealedIsNotReasked ==
    \A c \in Callers : call[c].had => call[c].pc \in {"idle", "listed"}

\* A call does not wait for ever: the human_gate blocker is lifted.
CallEnds == \A c \in Callers : call[c].pc # "idle" ~> call[c].pc = "idle"

\* No paste card stays live for ever: the tool, a sweep or the operator ends
\* every request, also one whose Agent died.
PendingEnds == \A i \in Ids : rec[i].state = "pending" ~> rec[i].state # "pending"

=============================================================================
