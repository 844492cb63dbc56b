------------------------------ MODULE PubWake ------------------------------
(***************************************************************************)
(* How the messages of a pub wake an Agent: the client's connection and    *)
(* message cache, the wake source's live handler, its sweep for missed     *)
(* messages, and the parked task that a peer's message resumes, through    *)
(* lost events, dropped connections, failed writes and restarts.           *)
(* Each file is read and written with awaits in between, so live handlers, *)
(* the sweep and the supervisor's timeout sweep interleave.                *)
(* What AgentLoop defines too has a name with Pub here: both run in the    *)
(* Agent's process, and AgentProcessProofs is about the two of them.       *)
(***************************************************************************)
EXTENDS Integers, FiniteSetsExt

CONSTANTS
    Talk,         \* what members say that an instance looks at
    MaxMessages,  \* bound: messages of the room; they are numbered as posted
    CacheSize,    \* cacheSize of the client; the server's window is as long
    MaxFaults     \* bound: lost events, dropped connections, failed writes

\* "mention" stands for the rules on the message alone: a mention, @all, one
\* of the Agent's domains, a room of two.  "reply" answers the Agent's last
\* message.
Message == [from : {"me", "peer", "human"}, says : {"mention", "reply", "chatter"}]

ASSUME PubWakeAssumption ==
    /\ Talk \subseteq Message
    /\ MaxMessages \in Nat /\ CacheSize \in Nat \ {0} /\ MaxFaults \in Nat

Messages == 1..MaxMessages
Sweep == 0          \* the worker that is the wake source's sweep
Timeout == -1       \* the worker that is the supervisor's sweep of expired waits
Workers == Messages \cup {Sweep, Timeout}

VARIABLES
    posted,     \* how many messages the room has
    msg,        \* [Messages -> Message]
    connected,  \* the client's socket is open
    up,         \* the wake source is attached
    seen,       \* the last message a room_state has told this client of
    event,      \* the message whose conversation_event comes next, or None
    sent,       \* sentMessageIds
    processed,  \* processedMessageIds
    wait,       \* the wait_for on the peer that a task is parked with
    body,       \* the messages appended to that task
    tasks,      \* [Messages -> pub.handle tasks in the store]
    worker,     \* [Workers -> [pc, copy]]: handlers between two awaits
    backlog,    \* the messages that the sweep has not come to yet
    met,        \* history: swept before their live handler had ended
    crossed,    \* history: appended while another worker held an older copy
    faults      \* bound counter

None == 0
room == <<posted, msg>>
client == <<connected, seen, event>>
memory == <<up, sent, processed>>
store == <<wait, body, tasks>>
history == <<met, crossed>>
pubVars == <<room, client, memory, store, worker, backlog, history, faults>>

NoMessage == [from |-> "human", says |-> "chatter"]
Idle == [pc |-> "idle", copy |-> {}]
PubInit ==
    /\ posted = 0 /\ msg = [m \in Messages |-> NoMessage]
    /\ connected = FALSE /\ up = FALSE /\ seen = 0 /\ event = None
    /\ sent = {} /\ processed = {}
    /\ wait = "none" /\ body = {} /\ tasks = [m \in Messages |-> 0]
    /\ worker = [w \in Workers |-> Idle] /\ backlog = {}
    /\ met = {} /\ crossed = {} /\ faults = 0

Fault == faults < MaxFaults /\ faults' = faults + 1
Happens(ok) == IF ok THEN UNCHANGED faults ELSE Fault

\* readCached, and the server's conversation window, when n messages are told.
Window(n) == {m \in 1..n : m > n - CacheSize}
Cache == Window(seen)
Mine(ms) == {m \in ms : msg[m].from = "me"}
Answered(m) == Mine(1..(m - 1))

\* isDirectedTo
Directed(m) ==
    \/ msg[m].says = "mention"
    \/ msg[m].says = "reply" /\ Max(Answered(m)) \in sent

\* Mutant: only a directed message resumes the parked task.
ResumesDirected(m) == wait = "waiting" /\ msg[m].from = "peer" /\ Directed(m)
\* findWaiting: no time of the message is compared with the wait's.
Resumes(m) == wait = "waiting" /\ msg[m].from = "peer"

Subject(w) == IF w = Sweep THEN Min(backlog) ELSE w
Moves(w, pc) == worker' = [worker EXCEPT ![w] = [pc |-> pc, copy |-> {}]]
\* After a message the sweep goes on with the next one; a handler has ended.
Passes(w) ==
    IF w = Sweep
    THEN Moves(w, "next") /\ backlog' = backlog \ {Subject(w)}
    ELSE Moves(w, "idle") /\ UNCHANGED backlog

-----------------------------------------------------------------------------
(* The room and the connection.                                            *)

\* The Agent sends through its client, and only when connected.
Post ==
    /\ posted < MaxMessages
    /\ \E new \in Talk :
        /\ new.from = "me" => connected
        /\ new.says = "reply" => Answered(posted + 1) # {}
        /\ msg' = [msg EXCEPT ![posted + 1] = new]
    /\ posted' = posted + 1
    /\ UNCHANGED <<client, memory, store, worker, backlog, history, faults>>

\* A message is broadcast as a room_state, and then as a conversation_event to
\* all but its sender.
RoomState ==
    /\ connected /\ seen < posted /\ event = None
    /\ seen' = seen + 1
    /\ sent' = IF up THEN sent \cup Mine(Window(seen')) ELSE sent
    /\ event' = IF msg[seen'].from = "me" THEN None ELSE seen'
    /\ UNCHANGED <<room, connected, up, processed, store, worker, backlog, history, faults>>

\* The event starts a handler, whatever the sweep has processed.
ConversationEvent ==
    /\ event # None
    /\ worker' = IF up THEN [worker EXCEPT ![event].pc = "find"] ELSE worker
    /\ event' = None
    /\ UNCHANGED <<room, connected, seen, memory, store, backlog, history, faults>>

LoseEvent ==
    /\ event # None /\ Fault
    /\ event' = None
    /\ UNCHANGED <<room, connected, seen, memory, store, worker, backlog, history>>

\* onClose: nothing reconnects.
Disconnect ==
    /\ connected /\ Fault
    /\ connected' = FALSE /\ event' = None
    /\ UNCHANGED <<room, seen, memory, store, worker, backlog, history>>

\* Only a send or a reaction of the Agent calls connect again.  The server's
\* first room_state tells the window; missed events are not sent again.
Reconnect ==
    /\ up /\ ~connected
    /\ connected' = TRUE /\ seen' = posted
    /\ sent' = sent \cup Mine(Window(posted))
    /\ UNCHANGED <<room, event, up, processed, store, worker, backlog, history, faults>>

\* seedProcessedFromTaskStore, from the tasks' "Message id" lines.
\* Mutant: nothing is seeded.
SeededNone == {}
Seeded == {m \in Messages : tasks[m] > 0}

\* The Agent's process starts: connect, and then the wake source.  A connect
\* that returns on the welcome leaves the first room_state to the wake source,
\* one that returns on the room_state does not.
Boot ==
    /\ ~up
    /\ up' = TRUE /\ connected' = TRUE /\ seen' = posted /\ event' = None
    /\ sent' \in {{}, Mine(Window(posted))}
    /\ processed' = Seeded
    /\ UNCHANGED <<room, store, worker, backlog, history, faults>>

\* The process ends, at any point: its memory goes, the supervisor's sweep
\* does not.
Exit ==
    /\ up
    /\ up' = FALSE /\ connected' = FALSE /\ seen' = 0 /\ event' = None
    /\ sent' = {} /\ processed' = {} /\ backlog' = {}
    /\ worker' = [w \in Workers |-> IF w = Timeout THEN worker[w] ELSE Idle]
    /\ UNCHANGED <<room, store, history, faults>>

-----------------------------------------------------------------------------
(* sweepMissed, every sweepIntervalMs, over the cached messages.           *)

SweepBegins ==
    /\ up /\ worker[Sweep].pc = "idle" /\ Cache # {}
    /\ Moves(Sweep, "next") /\ backlog' = Cache
    /\ UNCHANGED <<room, client, memory, store, history, faults>>

Skipped(m) == msg[m].from = "me" \/ m \in processed
SweepNext ==
    /\ worker[Sweep].pc = "next"
    /\ IF backlog = {} THEN Moves(Sweep, "idle") /\ UNCHANGED <<backlog, met>>
       ELSE LET m == Min(backlog)
            IN IF Skipped(m)
               THEN backlog' = backlog \ {m} /\ UNCHANGED <<worker, met>>
               ELSE /\ Moves(Sweep, "find") /\ UNCHANGED backlog
                    /\ met' = IF event = m \/ worker[m].pc # "idle"
                              THEN met \cup {m} ELSE met
    /\ UNCHANGED <<room, client, memory, store, crossed, faults>>

-----------------------------------------------------------------------------
(* What a handler and the sweep do with a message.                         *)

\* tryResumeParked's findWaiting, and isDirectedTo when no task waits.  The
\* sweep does not ask the router.
Find(w) ==
    /\ worker[w].pc = "find"
    /\ LET m == Subject(w)
       IN IF Resumes(m) THEN Moves(w, "get") /\ UNCHANGED backlog
          ELSE IF Directed(m) THEN Moves(w, "enqueue") /\ UNCHANGED backlog
          ELSE IF w = Sweep THEN Passes(w)
          ELSE Moves(w, "route") /\ UNCHANGED backlog
    /\ UNCHANGED <<room, client, memory, store, history, faults>>

\* isAgentSender and the router: a peer is not routed, unless the roster could
\* not be read; the router may name this Agent or not, or fail.
Route(w) ==
    /\ worker[w].pc = "route"
    /\ \/ Moves(w, "idle") /\ UNCHANGED faults
       \/ Moves(w, "enqueue") /\ Happens(msg[w].from = "human")
    /\ UNCHANGED <<room, client, memory, store, backlog, history>>

\* updateRecord reads the task again...
Get(w) ==
    /\ worker[w].pc = "get"
    /\ worker' = [worker EXCEPT ![w] = [pc |-> "save", copy |-> body]]
    /\ UNCHANGED <<room, client, memory, store, backlog, history, faults>>

\* Mutant: the message is recorded although the save failed.
RecordedAnyway(ok, m) == processed \cup {m}
\* recordProcessed comes after the write.
Recorded(ok, m) == IF ok THEN processed \cup {m} ELSE processed

\* ...and saves its copy with the message appended, pending, its wait cleared.
Save(w) ==
    /\ worker[w].pc = "save"
    /\ \E ok \in BOOLEAN :
        /\ Happens(ok)
        /\ IF ok THEN body' = worker[w].copy \cup (Messages \cap {Subject(w)}) /\ wait' = "none"
                 ELSE UNCHANGED <<body, wait>>
        /\ processed' = IF w = Timeout THEN processed ELSE Recorded(ok, Subject(w))
        \* A failure ends the whole sweep.
        /\ IF ok \/ w # Sweep THEN Passes(w)
                              ELSE Moves(w, "idle") /\ backlog' = {}
    /\ crossed' = IF \E v \in Workers \ {w} : worker[v].pc = "save"
                  THEN crossed \cup (Messages \cap {Subject(w)}) ELSE crossed
    /\ UNCHANGED <<room, client, up, sent, tasks, met>>

\* enqueueSyntheticTask; a write that fails is caught.
Enqueue(w) ==
    /\ worker[w].pc = "enqueue"
    /\ \E ok \in BOOLEAN :
        /\ Happens(ok)
        /\ tasks' = [tasks EXCEPT ![Subject(w)] = IF ok THEN @ + 1 ELSE @]
        /\ processed' = Recorded(ok, Subject(w))
    /\ Passes(w)
    /\ UNCHANGED <<room, client, up, sent, wait, body, history>>

\* task_await_response
Park ==
    /\ up /\ wait = "none"
    /\ wait' = "waiting"
    /\ UNCHANGED <<room, client, memory, body, tasks, worker, backlog, history, faults>>

\* Time reaches the wait's expires_at.
Expires ==
    /\ wait = "waiting" /\ wait' = "expired"
    /\ UNCHANGED <<room, client, memory, body, tasks, worker, backlog, history, faults>>

\* The supervisor's sweep finds it; it does not look again before it saves.
TimeoutBegins ==
    /\ wait = "expired" /\ worker[Timeout].pc = "idle"
    /\ Moves(Timeout, "get")
    /\ UNCHANGED <<room, client, memory, store, backlog, history, faults>>

Step(w) == Find(w) \/ Route(w) \/ Get(w) \/ Save(w) \/ Enqueue(w)
PubNext ==
    \/ Post \/ RoomState \/ ConversationEvent \/ LoseEvent
    \/ Disconnect \/ Reconnect \/ Boot \/ Exit
    \/ SweepBegins \/ SweepNext
    \/ Park \/ Expires \/ TimeoutBegins
    \/ \E w \in Workers : Step(w)

PubSpec == PubInit /\ [][PubNext]_pubVars

\* The sweep's interval fires and its awaits return.  Nothing else is asked
\* for: no event, no live handler, no reconnection.
PubFairness == WF_pubVars(SweepBegins \/ SweepNext \/ Step(Sweep))
PubFairSpec == PubSpec /\ PubFairness

-----------------------------------------------------------------------------
PubTypeOK ==
    /\ posted \in 0..MaxMessages /\ msg \in [Messages -> Message]
    /\ connected \in BOOLEAN /\ up \in BOOLEAN
    /\ seen \in 0..posted /\ event \in Messages \cup {None}
    /\ sent \subseteq Messages /\ processed \subseteq Messages
    /\ wait \in {"none", "waiting", "expired"} /\ body \subseteq Messages
    /\ tasks \in [Messages -> 0..2]
    /\ worker \in [Workers -> [pc : {"idle", "next", "find", "route", "get", "save", "enqueue"},
                              copy : SUBSET Messages]]
    /\ backlog \subseteq Messages /\ met \subseteq Messages
    /\ crossed \subseteq Messages /\ faults \in 0..MaxFaults

\* A message is given to the Agent as one task, by its handler, by the sweep or
\* by the sweep of a later process, unless the sweep came to it before its
\* handler had ended.
OneTaskPerMessage == \A m \in Messages \ met : tasks[m] <= 1

\* A message that no sweep will look at again has reached the Agent: as a task
\* of its own or in the body of the parked task, unless two continuations
\* crossed.
ProcessedIsKept ==
    \A m \in processed \ crossed : tasks[m] > 0 \/ m \in body

\* A message in the cache that is directed to the Agent, or that its parked
\* task is waiting for, does not stay unanswered, although its event was lost.
Owed(m) ==
    /\ up /\ m \in Cache \ processed /\ msg[m].from # "me"
    /\ Directed(m) \/ (wait = "waiting" /\ msg[m].from = "peer")
OwedIsHandled == \A m \in Messages : Owed(m) ~> ~Owed(m)
=============================================================================
