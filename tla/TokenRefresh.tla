---------------------------- MODULE TokenRefresh ----------------------------
(***************************************************************************)
(* One OAuth credential and all that writes it.  A vault credential is two *)
(* files of an Agent's vault, the access token and its `-refresh`          *)
(* companion, written by the refresh service of the supervisor and by the  *)
(* commands `oauth login` and `oauth refresh`, which are other processes.  *)
(* A fleet credential, a subscription sign-in, is one file, written by the *)
(* service and by the sign-in sessions of the HTTP server and deleted by   *)
(* logout.                                                                 *)
(*                                                                         *)
(* A provider may rotate the refresh token with each exchange and then     *)
(* honours only the newest: what has been received and is not saved is     *)
(* lost.                                                                   *)
(***************************************************************************)
EXTENDS Integers, FiniteSets

CONSTANTS
    Shapes,     \* kinds of credential, of KnownShapes
    Ticks,      \* ticks of the service that can be under way at once
    Polls,      \* status requests of browsers that can be under way at once
    MaxLogins,  \* bound: sign-ins
    MaxGen,     \* bound: refresh tokens issued for one sign-in
    MaxFaults   \* bound: failures, and exits of the supervisor or a command

KnownShapes == {"vault", "fleet"}

ASSUME TokenAssumption ==
    /\ Shapes \subseteq KnownShapes
    /\ Ticks \cap Polls = {} /\ (Ticks \cup Polls) \cap {"refresh", "login"} = {}
    /\ MaxLogins \in Nat /\ MaxGen \in Nat \ {0} /\ MaxFaults \in Nat

VARIABLES
    shape,     \* the kind of the credential
    access,    \* the stored access token, or NoAccess
    refresh,   \* the stored refresh token, or NoToken
    honoured,  \* [Logins -> the generation the provider honours], 0: none
    up,        \* the supervisor runs
    cooldown,  \* the credential is in the service's cooldown
    job,       \* [Jobs -> the progress of one writer]
    open,      \* the sign-in sessions in the server's map
    starting,  \* sessions whose start route awaits the provider's code
    terminal,  \* [Logins -> the session's `completed`]
    code,      \* [Logins -> the device code of the session at the provider]
    poll,      \* [Polls -> the progress of one status request]
    saved,     \* history: sign-ins whose tokens have been stored
    lost,      \* history: a rotated or half-written token has been lost
    crossed,   \* history: other writers of the credential have overlapped
    late,      \* history: requests under way when their session ended
    faults     \* bound counter

store == <<access, refresh>>
sessions == <<open, starting, terminal, code, poll>>
history == <<saved, lost, crossed, late>>
vars == <<shape, store, honoured, up, cooldown, job, sessions, history, faults>>

\* A sign-in, and for a fleet credential its session, is numbered.
Logins == 1..MaxLogins
Token == [login : Logins, gen : 1..MaxGen]
NoToken == [login |-> 0, gen |-> 0]
\* due: it expires within the window, or has expired.
Access == [login : Logins, due : BOOLEAN]
NoAccess == [login |-> 0, due |-> FALSE]

Commands == {"refresh", "login"}
Jobs == Ticks \cup Commands
JobPcs == {"idle", "listed", "sending", "answered", "half"}
IdleJob == [pc |-> "idle", copy |-> NoToken, reply |-> NoToken]
PollPcs == {"idle", "asked", "completed", "failed"}
IdlePoll == [pc |-> "idle", session |-> 0]

Init ==
    /\ shape \in Shapes
    /\ access = NoAccess /\ refresh = NoToken
    /\ honoured = [l \in Logins |-> 0]
    /\ up = FALSE /\ cooldown = FALSE
    /\ job = [j \in Jobs |-> IdleJob]
    /\ open = {} /\ starting = {}
    /\ terminal = [l \in Logins |-> "none"] /\ code = [l \in Logins |-> "none"]
    /\ poll = [p \in Polls |-> IdlePoll]
    /\ saved = {} /\ lost = FALSE /\ crossed = FALSE /\ late = {} /\ faults = 0

Fails == faults < MaxFaults /\ faults' = faults + 1

\* Whoever holds tokens that are still to be stored, or a copy of stored ones.
Writing == {j \in Jobs : job[j].pc # "idle"} \cup {p \in Polls : poll[p].pc = "completed"}
Crosses == crossed' = (crossed \/ Writing # {})

\* A sign-in stored in one write while nobody else writes makes up for all.
Heals(p) == lost' = (lost /\ Writing # {p}) /\ crossed' = (crossed /\ Writing # {p})

To(j, pc) == job' = [job EXCEPT ![j].pc = pc]
Ends(j) == job' = [job EXCEPT ![j] = IdleJob]

-----------------------------------------------------------------------------
(* The refresh service and `oauth refresh`.                                *)

\* MUTANT of MayTick: a tick does not look whether another one runs.
MayTickTwice == up

\* `running` admits one tick at a time.
MayTick == up /\ \A t \in Ticks : job[t].pc = "idle"

\* An entry that is due, has a companion and is not in its cooldown.  A
\* fleet credential is read whole; of a vault only the names are listed.
Tick(t) ==
    /\ MayTick /\ job[t].pc = "idle"
    /\ access # NoAccess /\ access.due /\ refresh # NoToken /\ ~cooldown
    /\ job' = [job EXCEPT ![t] =
          IF shape = "fleet" THEN [IdleJob EXCEPT !.pc = "sending", !.copy = refresh]
                             ELSE [IdleJob EXCEPT !.pc = "listed"]]
    /\ crossed' = (crossed \/ Writing \ Ticks # {})
    /\ UNCHANGED <<shape, store, honoured, up, cooldown, sessions, saved, lost, late, faults>>

\* refreshOne begins with the companion as it is by now.
ReadCompanion(t) ==
    /\ job[t].pc = "listed"
    /\ job' = [job EXCEPT ![t].pc = "sending", ![t].copy = refresh]
    /\ UNCHANGED <<shape, store, honoured, up, cooldown, sessions, history, faults>>

RefreshCommand ==
    /\ shape = "vault" /\ job["refresh"].pc = "idle" /\ refresh # NoToken
    /\ job' = [job EXCEPT !["refresh"] = [IdleJob EXCEPT !.pc = "sending", !.copy = refresh]]
    /\ Crosses
    /\ UNCHANGED <<shape, store, honoured, up, cooldown, sessions, saved, lost, late, faults>>

\* What a tick's end does to the cooldown; a command knows none.
Cools(j, failed) == cooldown' = IF j \in Ticks THEN failed ELSE cooldown

\* The exchange, at the provider: a token that it no longer honours is
\* refused; else it may rotate.  The answer, rotated or not, can get lost.
Exchange(j) ==
    /\ job[j].pc = "sending"
    /\ LET old == job[j].copy
           gens == {g \in {old.gen, old.gen + 1} : g <= MaxGen}
       IN  IF old = NoToken \/ honoured[old.login] # old.gen
           THEN /\ Ends(j) /\ Cools(j, TRUE)
                /\ UNCHANGED <<honoured, lost, faults>>
           ELSE \E g \in gens :
                /\ honoured' = [honoured EXCEPT ![old.login] = g]
                /\ \/ /\ job' = [job EXCEPT ![j].pc = "answered", ![j].reply =
                                      [old EXCEPT !.gen = IF g = old.gen THEN 0 ELSE g]]
                      /\ UNCHANGED <<cooldown, lost, faults>>
                   \/ /\ Fails /\ Ends(j) /\ Cools(j, TRUE)
                      /\ lost' = (lost \/ g # old.gen)
    /\ UNCHANGED <<shape, store, up, sessions, saved, crossed, late>>

\* The provider has sent a refresh token with the access token.
Rotated(j) == job[j].reply.gen # 0

\* What a fleet credential keeps when none was sent: that of the copy.
Kept(j) == IF Rotated(j) THEN job[j].reply ELSE job[j].copy

\* The answer is stored: a fleet credential in one write, of a vault
\* credential the access token first.
Store(j) ==
    /\ job[j].pc = "answered"
    /\ access' = [login |-> job[j].reply.login, due |-> FALSE]
    /\ IF shape = "fleet"
       THEN refresh' = Kept(j) /\ Ends(j) /\ Cools(j, FALSE)
       ELSE /\ UNCHANGED refresh
            /\ IF Rotated(j) THEN To(j, "half") /\ UNCHANGED cooldown
                             ELSE Ends(j) /\ Cools(j, FALSE)
    /\ UNCHANGED <<shape, honoured, up, sessions, history, faults>>

\* MUTANT of Companion: an entry that is there is left alone.
CompanionOnce(j) == IF refresh = NoToken THEN job[j].reply ELSE refresh

Companion(j) == job[j].reply

\* ... and then its companion.
StoreCompanion(j) ==
    /\ job[j].pc = "half"
    /\ refresh' = Companion(j)
    /\ Ends(j) /\ Cools(j, FALSE)
    /\ lost' = (lost /\ (j # "login" \/ crossed))
    /\ UNCHANGED <<shape, access, honoured, up, sessions, saved, crossed, late, faults>>

\* What a writer leaves behind when it stops where it is: half a pair, or a
\* refresh token that only it has.
Spoils(j) ==
    \/ job[j].pc = "half"
    \/ job[j].pc = "answered" /\ Rotated(j) /\ job[j].copy # NoToken

\* A write fails, or the command's process exits.
GivesUp(j) ==
    /\ job[j].pc # "idle" /\ Fails
    /\ j \in Commands \/ job[j].pc \in {"answered", "half"}
    /\ lost' = (lost \/ Spoils(j))
    /\ Ends(j) /\ Cools(j, TRUE)
    /\ UNCHANGED <<shape, store, honoured, up, sessions, saved, crossed, late>>

\* MUTANT of CooldownEnds: an entry of the map holds the credential back
\* whatever its time.
CooldownStays == cooldown /\ UNCHANGED vars

CooldownEnds ==
    /\ cooldown /\ cooldown' = FALSE
    /\ UNCHANGED <<shape, store, honoured, up, job, sessions, history, faults>>

-----------------------------------------------------------------------------
(* Sign-in.                                                                *)

\* `oauth login`, from the exchange on: what it has is stored in two writes.
LoginCommand(l) ==
    /\ shape = "vault" /\ job["login"].pc = "idle"
    /\ honoured[l] = 0 /\ \A k \in 1..(l - 1) : honoured[k] # 0
    /\ job' = [job EXCEPT !["login"] = [IdleJob EXCEPT !.pc = "answered",
                              !.reply = [login |-> l, gen |-> 1]]]
    /\ honoured' = [honoured EXCEPT ![l] = 1]
    /\ Crosses
    /\ UNCHANGED <<shape, store, up, cooldown, sessions, saved, lost, late, faults>>

\* The start route tears down what sessions there are (removeBySlug) and
\* then asks for a device code.
StartSession(s) ==
    /\ shape = "fleet" /\ up
    /\ code[s] = "none" /\ s \notin starting /\ \A k \in 1..(s - 1) : code[k] # "none"
    /\ open' = {}
    /\ code' = [code EXCEPT ![s] = "waiting"]
    /\ starting' = starting \cup {s}
    /\ UNCHANGED <<shape, store, honoured, up, cooldown, job, terminal, poll,
                   history, faults>>

CreateSession(s) ==
    /\ s \in starting
    /\ starting' = starting \ {s}
    /\ open' = open \cup {s}
    /\ UNCHANGED <<shape, store, honoured, up, cooldown, job, terminal, code, poll,
                   history, faults>>

\* The operator consents, or refuses, at the provider.
Decide(s) ==
    /\ code[s] = "waiting" /\ s \in open
    /\ \E d \in {"approved", "spent"} : code' = [code EXCEPT ![s] = d]
    /\ UNCHANGED <<shape, store, honoured, up, cooldown, job, open, starting,
                   terminal, poll, history, faults>>

\* A terminal result is returned as it is; else the provider is asked.
Asks(s) == s \in open /\ terminal[s] = "none"

Poll(p, s) ==
    /\ poll[p].pc = "idle" /\ Asks(s)
    /\ poll' = [poll EXCEPT ![p] = [pc |-> "asked", session |-> s]]
    /\ UNCHANGED <<shape, store, honoured, up, cooldown, job, open, starting,
                   terminal, code, history, faults>>

\* An approved code yields tokens once.
Answer(p) ==
    LET s == poll[p].session
    IN  /\ poll[p].pc = "asked"
        /\ IF code[s] = "approved"
           THEN /\ poll' = [poll EXCEPT ![p].pc = "completed"]
                /\ code' = [code EXCEPT ![s] = "spent"]
                /\ honoured' = [honoured EXCEPT ![s] = 1]
                /\ Crosses
           ELSE /\ poll' = [poll EXCEPT ![p] = IF code[s] = "spent" THEN [@ EXCEPT !.pc = "failed"]
                                               ELSE IdlePoll]
                /\ UNCHANGED <<code, honoured, crossed>>
        /\ UNCHANGED <<shape, store, up, cooldown, job, open, starting, terminal,
                       saved, lost, late, faults>>

\* recordCompletion: nothing, when the session is out of the map.
Recorded(s, result) ==
    IF s \in open THEN [terminal EXCEPT ![s] = result] ELSE terminal

\* MUTANT of Told: a sign-in whose tokens could not be stored is reported.
ToldAnyway(ok) == "completed"

Told(ok) == IF ok THEN "completed" ELSE "failed"

\* saveSubscriptionTokens and recordCompletion; a failed save is a failed
\* sign-in.
EndPoll(p) ==
    LET s == poll[p].session
    IN  /\ \/ /\ poll[p].pc = "completed"
              /\ access' = [login |-> s, due |-> FALSE]
              /\ refresh' = [login |-> s, gen |-> 1]
              /\ saved' = saved \cup {s}
              /\ terminal' = Recorded(s, Told(TRUE))
              /\ Heals(p)
              /\ UNCHANGED faults
           \/ /\ poll[p].pc = "completed" /\ Fails
              /\ terminal' = Recorded(s, Told(FALSE))
              /\ UNCHANGED <<store, saved, lost, crossed>>
           \/ /\ poll[p].pc = "failed"
              /\ terminal' = Recorded(s, "failed")
              /\ UNCHANGED <<store, saved, lost, crossed, faults>>
        /\ poll' = [poll EXCEPT ![p] = IdlePoll]
        /\ late' = (late \ {p}) \cup {q \in Polls \ {p} : poll[q].session = s}
        /\ UNCHANGED <<shape, honoured, up, cooldown, job, open, starting, code>>

\* Sessions past their expiry are collected; the code has then expired too.
SessionExpires(s) ==
    /\ s \in open
    /\ open' = open \ {s}
    /\ code' = [code EXCEPT ![s] = "spent"]
    /\ UNCHANGED <<shape, store, honoured, up, cooldown, job, starting, terminal, poll,
                   history, faults>>

\* `oauth <provider> logout` and its route; `oauth revoke`, whose two unlinks
\* leave between them only a companion that no tick looks at.
Logout ==
    /\ access # NoAccess
    /\ access' = NoAccess /\ refresh' = NoToken
    /\ Crosses
    /\ UNCHANGED <<shape, honoured, up, cooldown, job, sessions, saved, lost, late, faults>>

-----------------------------------------------------------------------------
(* The surroundings.                                                       *)

\* Time passes, up to the window before the expiry and beyond.
ComesDue ==
    /\ access # NoAccess /\ ~access.due
    /\ access' = [access EXCEPT !.due = TRUE]
    /\ UNCHANGED <<shape, refresh, honoured, up, cooldown, job, sessions, history, faults>>

Boot ==
    /\ ~up /\ up' = TRUE
    /\ UNCHANGED <<shape, store, honoured, cooldown, job, sessions, history, faults>>

\* The service's ticks and cooldowns and the server's sessions and requests
\* end with the supervisor, the commands do not.
SupervisorExit ==
    /\ up /\ Fails
    /\ up' = FALSE /\ cooldown' = FALSE
    /\ job' = [j \in Jobs |-> IF j \in Ticks THEN IdleJob ELSE job[j]]
    /\ lost' = (lost \/ \E t \in Ticks : Spoils(t))
    /\ open' = {} /\ starting' = {}
    /\ poll' = [p \in Polls |-> IdlePoll] /\ late' = {}
    /\ UNCHANGED <<shape, store, honoured, terminal, code, saved, crossed>>

-----------------------------------------------------------------------------
JobStep(j) ==
    ReadCompanion(j) \/ Exchange(j) \/ Store(j) \/ StoreCompanion(j)
Next ==
    \/ \E t \in Ticks : Tick(t)
    \/ \E j \in Jobs : JobStep(j) \/ GivesUp(j)
    \/ RefreshCommand \/ CooldownEnds
    \/ \E s \in Logins :
          \/ LoginCommand(s) \/ StartSession(s) \/ CreateSession(s) \/ Decide(s) \/ SessionExpires(s)
          \/ \E p \in Polls : Poll(p, s)
    \/ \E p \in Polls : Answer(p) \/ EndPoll(p)
    \/ Logout \/ ComesDue \/ Boot \/ SupervisorExit

Spec == Init /\ [][Next]_vars

\* The service's timer fires, the cooldown runs out, files and providers
\* answer, with a failure if need be.
Fairness ==
    /\ WF_vars(\E t \in Ticks : Tick(t)) /\ WF_vars(CooldownEnds)
    /\ \A t \in Ticks : WF_vars(JobStep(t))
FairSpec == Spec /\ Fairness

-----------------------------------------------------------------------------
TypeOK ==
    /\ shape \in Shapes
    /\ access \in Access \cup {NoAccess} /\ refresh \in Token \cup {NoToken}
    /\ honoured \in [Logins -> 0..MaxGen]
    /\ up \in BOOLEAN /\ cooldown \in BOOLEAN
    /\ job \in [Jobs -> [pc : JobPcs, copy : Token \cup {NoToken},
                         reply : [login : 0..MaxLogins, gen : 0..MaxGen]]]
    /\ open \subseteq Logins /\ starting \subseteq Logins
    /\ terminal \in [Logins -> {"none", "completed", "failed"}]
    /\ code \in [Logins -> {"none", "waiting", "approved", "spent"}]
    /\ poll \in [Polls -> [pc : PollPcs, session : Logins \cup {0}]]
    /\ saved \subseteq Logins /\ lost \in BOOLEAN /\ crossed \in BOOLEAN
    /\ late \subseteq Polls /\ faults \in 0..MaxFaults

\* The stored refresh token is the one the provider honours, through any
\* number of rotations and however the service's ticks follow each other:
\* unless an exit, a failed write or a lost answer came between an exchange
\* and the write, or another writer did, and until the next sign-in.
Settled == \A j \in Jobs : job[j].pc \notin {"sending", "answered", "half"}
LineageKept ==
    refresh # NoToken /\ Settled /\ ~lost /\ ~crossed =>
        refresh.gen = honoured[refresh.login]

\* Access and refresh token are of one sign-in, in the two files of a vault
\* as well, under the same provisos.
OnePair ==
    access # NoAccess /\ refresh # NoToken /\ Settled /\ ~lost /\ ~crossed =>
        access.login = refresh.login

\* A browser that is told its sign-in is complete can rely on the tokens
\* having been stored.
CompletedIsSaved == \A s \in Logins : terminal[s] = "completed" => s \in saved

\* What a session has ended with is not taken back, except by a request that
\* was under way when it ended.
TerminalSticks ==
    [][\A s \in Logins : terminal[s] # "none" /\ terminal'[s] # terminal[s]
           => \E p \in late : poll[p].session = s]_vars

\* A due credential whose refresh token the provider honours is renewed,
\* whatever failed before.
Renewable ==
    /\ up /\ access # NoAccess /\ access.due
    /\ refresh # NoToken /\ honoured[refresh.login] = refresh.gen
KeptAlive == Renewable ~> ~Renewable
=============================================================================
