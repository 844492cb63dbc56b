----------------------------- MODULE AgentLoop -----------------------------
(***************************************************************************)
(* The loop that an Agent's process runs for one task after another: the   *)
(* gates before a model call, the response, the tool calls of a batch, the *)
(* detectors, and the nudges that keep a task from ending in silence or in *)
(* an unbacked claim.                                                      *)
(*                                                                         *)
(* One AgentLoop object lives as long as the process.  Some of its fields  *)
(* are reset when a run begins (count), the others are not (iteration,     *)
(* events, blockers, awaitingNudges): the properties are about runs, the   *)
(* state about the process.                                                *)
(***************************************************************************)
EXTENDS Integers, Sequences, FiniteSets

CONSTANTS
    MaxIterations, \* maxIterations
    RepeatN,       \* tool_repetition_n
    StormN,        \* error_storm_n
    BufferSize,    \* tool_call_end events that the ring buffer holds
    Nudges,        \* DEFAULT_INCOMPLETE_TURN_RETRY_BUDGET
    MaxKicks,      \* MAX_AUDIT_KICKBACKS
    MaxBatch       \* bound: tool calls in one response

ASSUME LoopAssumption ==
    /\ MaxIterations \in Nat \ {0}
    /\ RepeatN \in Nat \ {0, 1} /\ StormN \in Nat \ {0, 1}
    /\ BufferSize \in Nat \ {0}
    /\ Nudges \in Nat /\ MaxKicks \in Nat /\ MaxBatch \in Nat

VARIABLES
    pc,             \* where the run is; "idle" between two runs
    task,           \* [wake, audited] of the run's task
    iteration,      \* the object's fields that outlive a run
    events,
    blockers,
    awaitingNudges,
    count,          \* the fields that a run resets
    lastClaimAudit,
    batch,          \* tool calls of the response still to be dispatched
    pending,        \* a credential request of the Agent is pending on disk
    result,         \* how the last run ended
    own             \* history: what this run has done

process == <<iteration, events, blockers, awaitingNudges>>
vars == <<pc, task, process, count, lastClaimAudit, batch, pending, result, own>>

\* wake: a pub message started it; audited: it is not `pure`.
Task == [wake : BOOLEAN, audited : BOOLEAN]
Pcs == {"idle", "top", "model", "batch"}
Kinds == {"human_gate", "awaiting_completion", "external_response"}
Gates == {"human_gate", "external_response"}
Results == {"none", "done", "errored", "tripped", "blocked_on_user",
            "blocked_on_agent_response"}
\* "thrown": the audit failed, "none": it found nothing to look at.
Audits == {"none", "thrown", "clean", "flagged", "refused"}

\* plain stands for the tools with no part in the protocol; the tool with its
\* arguments is what tool_repetition compares.  skill.invoke only reads.
Tools == {"plain", "skill", "pub", "credential_has", "await_response",
          "credential_request"}
Works(tool, ok) == ok /\ tool # "skill"
Outcomes == {"ok", "error1", "error2"}
Event == [tool : Tools, outcome : Outcomes]

NoCount == [empty |-> 0, wake |-> 0, planning |-> 0, kicks |-> 0,
            pubCalls |-> FALSE, worked |-> FALSE, workedSince |-> FALSE]
NothingDone == [failing |-> 0, same |-> 0, kicks |-> 0,
                wakes |-> 0, pubbed |-> FALSE, acted |-> FALSE]

Init ==
    /\ pc = "idle" /\ task = [wake |-> FALSE, audited |-> FALSE]
    /\ iteration = 0 /\ events = <<>> /\ blockers = {} /\ awaitingNudges = 0
    /\ count = NoCount /\ lastClaimAudit = "none"
    /\ batch = 0 /\ pending = FALSE /\ result = "none" /\ own = NothingDone

Ends(how) == pc' = "idle" /\ batch' = 0 /\ result' = how

-----------------------------------------------------------------------------
(* The detectors.                                                          *)

Push(e) ==
    LET all == Append(events, e)
    IN  IF Len(all) > BufferSize THEN Tail(all) ELSE all

\* toolRepetition: the last calls are one and the same.
Repeats(s) ==
    /\ Len(s) >= RepeatN
    /\ \A i \in (Len(s) - RepeatN + 1)..Len(s) : s[i].tool = s[Len(s)].tool

\* errorStorm: anywhere in the buffer, failures of one class in a row.
Storms(s) ==
    \E i \in 1..(Len(s) - StormN + 1) :
        /\ s[i].outcome # "ok"
        /\ \A j \in i..(i + StormN - 1) : s[j].outcome = s[i].outcome

Trips(s) == Repeats(s) \/ Storms(s)

-----------------------------------------------------------------------------
(* A run begins; the pre-iteration checks.                                 *)

\* MUTANT of Reset: the nudges of the last task are not forgotten.
ResetButNudges == [NoCount EXCEPT !.wake = count.wake]

Reset == NoCount

\* run(), behind the budget's gate.
Begin(t) ==
    /\ pc = "idle" /\ pc' = "top"
    /\ task' = t
    /\ count' = Reset /\ lastClaimAudit' = "none"
    /\ blockers' = blockers \ {"external_response"}
    /\ own' = NothingDone
    /\ UNCHANGED <<iteration, events, awaitingNudges, batch, pending, result>>

AtCeiling == iteration >= MaxIterations

Ceiling ==
    /\ pc = "top" /\ AtCeiling
    /\ Ends("tripped")
    /\ UNCHANGED <<task, process, count, lastClaimAudit, pending, own>>

\* The counter is the process's: no run sets it back.
Counted == iteration + 1

\* Blockers first, then the request files.
Gate ==
    /\ pc = "top" /\ ~AtCeiling
    /\ iteration' = Counted
    /\ IF "human_gate" \in blockers THEN Ends("blocked_on_user")
       ELSE IF "external_response" \in blockers THEN Ends("blocked_on_agent_response")
       ELSE IF pending THEN Ends("blocked_on_user")
       ELSE pc' = "model" /\ UNCHANGED <<batch, result>>
    /\ UNCHANGED <<task, events, blockers, awaitingNudges, count, lastClaimAudit,
                   pending, own>>

-----------------------------------------------------------------------------
(* The model's response.                                                   *)

ModelFails ==
    /\ pc = "model"
    /\ Ends("errored")
    /\ UNCHANGED <<task, process, count, lastClaimAudit, pending, own>>

\* The detectors look before the response is acted on.
ModelTrips ==
    /\ pc = "model" /\ Trips(events)
    /\ Ends("tripped")
    /\ UNCHANGED <<task, process, count, lastClaimAudit, pending, own>>

Answers == pc = "model" /\ ~Trips(events)
Goes(on) == pc' = on /\ UNCHANGED result

\* Neither text nor calls.
Empty ==
    /\ Answers
    /\ IF count.empty >= Nudges
       THEN Ends("errored") /\ UNCHANGED count
       ELSE /\ count' = [count EXCEPT !.empty = @ + 1]
            /\ Goes("top") /\ UNCHANGED batch
    /\ UNCHANGED <<task, process, lastClaimAudit, pending, own>>

\* Tool calls, or with n = 0 only blocks that could not be parsed.  They are
\* dispatched even when the model was to speak, up to the budget.
Calls(n) ==
    /\ Answers
    /\ LET owed == "awaiting_completion" \in blockers
       IN  IF owed /\ awaitingNudges >= Nudges
           THEN Ends("errored") /\ UNCHANGED awaitingNudges
           ELSE /\ awaitingNudges' = IF owed THEN awaitingNudges + 1 ELSE awaitingNudges
                /\ batch' = n
                /\ Goes(IF n = 0 THEN "top" ELSE "batch")
    /\ UNCHANGED <<task, iteration, events, blockers, count, lastClaimAudit,
                   pending, own>>

\* A text.  First: a task that a message woke owes the room an answer.
OwesRoom == task.wake /\ ~count.pubCalls /\ count.wake < Nudges
WakeNudge ==
    /\ Answers /\ OwesRoom
    /\ count' = [count EXCEPT !.wake = @ + 1]
    /\ own' = [own EXCEPT !.wakes = @ + 1]
    /\ Goes("top")
    /\ UNCHANGED <<task, process, lastClaimAudit, batch, pending>>

\* A text that only plans, from a run that has done nothing yet.
PlanningRetry ==
    /\ Answers /\ ~OwesRoom
    /\ ~count.worked /\ count.planning < Nudges
    /\ count' = [count EXCEPT !.planning = @ + 1]
    /\ Goes("top")
    /\ UNCHANGED <<task, process, lastClaimAudit, batch, pending, own>>

\* MUTANT of KickedBack: the calls made before the kick-back still count.
KickedBackOnce == [count EXCEPT !.kicks = @ + 1]

KickedBack == [count EXCEPT !.kicks = @ + 1, !.workedSince = FALSE]

\* The claims are flagged, or the model has been kicked back before and has
\* neither worked since nor refused.
MustKick(audit) ==
    /\ task.audited /\ count.kicks < MaxKicks /\ audit # "thrown"
    /\ \/ audit = "flagged"
       \/ count.kicks > 0 /\ ~count.workedSince /\ audit # "refused"

AuditOf == IF task.audited THEN Audits ELSE {"none"}

KickBack(audit) ==
    /\ Answers /\ ~OwesRoom /\ MustKick(audit)
    /\ count' = KickedBack /\ lastClaimAudit' = audit
    /\ own' = [own EXCEPT !.kicks = @ + 1, !.acted = FALSE]
    /\ Goes("top")
    /\ UNCHANGED <<task, process, batch, pending>>

Done(audit) ==
    /\ Answers /\ ~OwesRoom /\ ~MustKick(audit)
    /\ lastClaimAudit' = audit
    /\ blockers' = blockers \ {"awaiting_completion"}
    /\ Ends("done")
    /\ UNCHANGED <<task, iteration, events, awaitingNudges, count, pending, own>>

-----------------------------------------------------------------------------
(* The tool calls of a batch.                                              *)

\* MUTANT of AfterCall: the detectors wait for the next response.
AfterCallUnseen(s, b, n) ==
    IF "human_gate" \in b THEN "blocked_on_user"
    ELSE IF "external_response" \in b THEN "blocked_on_agent_response"
    ELSE IF "awaiting_completion" \in b \/ n = 1 THEN "top" ELSE "batch"

\* MUTANT of AfterCall: an await_response does not cut the batch short.
AfterCallOpen(s, b, n) ==
    IF Trips(s) THEN "tripped"
    ELSE IF "human_gate" \in b THEN "blocked_on_user"
    ELSE IF "awaiting_completion" \in b \/ n = 1 THEN "top" ELSE "batch"

\* After the n-th call from the end: the run ends, looks at the model
\* again, or goes on with the batch.
AfterCall(s, b, n) ==
    IF Trips(s) THEN "tripped"
    ELSE IF "human_gate" \in b THEN "blocked_on_user"
    ELSE IF "external_response" \in b THEN "blocked_on_agent_response"
    ELSE IF "awaiting_completion" \in b \/ n = 1 THEN "top" ELSE "batch"

\* What a tool does to the blockers: await_response parks the task;
\* credential_has asks for a reply when a request for the name was ever
\* fulfilled; credential_request takes its gate down again unless its wait
\* throws, and then its file may still be pending.
Registers(tool, ok) ==
    CASE tool = "await_response" /\ ok -> {{"external_response"}}
      [] tool = "credential_has" /\ ok -> {{}, {"awaiting_completion"}}
      [] tool = "credential_request" /\ ~ok -> {{}, {"human_gate"}}
      [] OTHER -> {{}}

ToolCall(tool, outcome) ==
    LET ok == outcome = "ok"
        after == AfterCall(events', blockers', batch)
        last == events[Len(events)]
    IN  /\ pc = "batch"
        /\ events' = Push([tool |-> tool, outcome |-> outcome])
        /\ \E new \in Registers(tool, ok) :
              /\ blockers' = blockers \cup new
              /\ pending' \in {pending, pending \/ "human_gate" \in new}
        /\ count' = [count EXCEPT !.pubCalls = @ \/ (ok /\ tool = "pub"),
                                  !.worked = @ \/ Works(tool, ok),
                                  !.workedSince = @ \/ Works(tool, ok)]
        /\ own' = [own EXCEPT !.same = IF @ > 0 /\ last.tool = tool THEN @ + 1 ELSE 1,
                              !.failing = IF ok THEN 0
                                          ELSE IF @ > 0 /\ last.outcome = outcome
                                               THEN @ + 1 ELSE 1,
                              !.pubbed = @ \/ (ok /\ tool = "pub"),
                              !.acted = @ \/ Works(tool, ok)]
        /\ IF after \in Pcs
           THEN Goes(after) /\ batch' = IF after = "top" THEN 0 ELSE batch - 1
           ELSE Ends(after)
        /\ UNCHANGED <<task, iteration, awaitingNudges, lastClaimAudit>>

-----------------------------------------------------------------------------
(* The surroundings.                                                       *)

\* The operator or a sweep ends the pending request.
RequestEnds ==
    /\ pending /\ pending' = FALSE
    /\ UNCHANGED <<pc, task, process, count, lastClaimAudit, batch, result, own>>

\* The process exits and is started again; a credential_request it was in
\* leaves its file.
Restart ==
    /\ pc' = "idle" /\ task' = [wake |-> FALSE, audited |-> FALSE]
    /\ iteration' = 0 /\ events' = <<>> /\ blockers' = {} /\ awaitingNudges' = 0
    /\ count' = NoCount /\ lastClaimAudit' = "none" /\ batch' = 0
    /\ pending' \in {pending, pending \/ pc = "batch"}
    /\ result' = "none" /\ own' = NothingDone

RunStep ==
    \/ Ceiling \/ Gate \/ ModelFails \/ ModelTrips \/ Empty
    \/ \E n \in 0..MaxBatch : Calls(n)
    \/ WakeNudge \/ PlanningRetry
    \/ \E a \in AuditOf : KickBack(a) \/ Done(a)
    \/ \E tool \in Tools, o \in Outcomes : ToolCall(tool, o)

Next == (\E t \in Task : Begin(t)) \/ RunStep \/ RequestEnds \/ Restart

Spec == Init /\ [][Next]_vars

-----------------------------------------------------------------------------
\* Every variable keeps its type; the counters stay within their budgets.
TypeOK ==
    /\ pc \in Pcs /\ task \in Task /\ batch \in 0..MaxBatch
    /\ iteration \in 0..MaxIterations
    /\ events \in Seq(Event) /\ Len(events) <= BufferSize
    /\ blockers \subseteq Kinds /\ awaitingNudges \in 0..Nudges
    /\ count \in [empty : 0..Nudges, wake : 0..Nudges, planning : 0..Nudges,
                  kicks : 0..MaxKicks, pubCalls : BOOLEAN, worked : BOOLEAN,
                  workedSince : BOOLEAN]
    /\ lastClaimAudit \in Audits /\ pending \in BOOLEAN /\ result \in Results
    /\ own \in [failing : Nat, same : Nat, kicks : Nat,
                wakes : Nat, pubbed : BOOLEAN, acted : BOOLEAN]

\* While the operator or a peer is waited for, no model is called and no
\* further tool of the batch is dispatched.
QuietWhenGated == pc \in {"model", "batch"} => blockers \cap Gates = {}

\* No tool is dispatched once the run's last calls have all failed alike or
\* have all been the same, however they are spread over batches.
StormIsCut == pc = "batch" => own.failing < StormN /\ own.same < RepeatN

\* An audited task ends done only when its claims were not flagged and, once
\* kicked back, the model has since worked or refused; or this run's own
\* kick-backs are exhausted; or the audit failed.
Finishes == pc = "model" /\ pc' = "idle" /\ result' = "done"
DoneOrTold ==
    [][Finishes /\ task.audited /\ lastClaimAudit' # "thrown" =>
         \/ own.kicks = MaxKicks
         \/ /\ lastClaimAudit' # "flagged"
            /\ own.kicks = 0 \/ own.acted \/ lastClaimAudit' = "refused"]_vars

\* A task that a message woke ends done only when this run has answered the
\* room or has been told to as often as the budget allows.
RoomIsAnswered == [][Finishes /\ task.wake => own.pubbed \/ own.wakes = Nudges]_vars
=============================================================================
