------------------------- MODULE TokenRefreshProofs -------------------------
(***************************************************************************)
(* The tokens of one credential, for any number of ticks, sign-ins, polls, *)
(* rotations and failures.                                                 *)
(***************************************************************************)
EXTENDS TokenRefresh, TLAPS

JobType == [pc : JobPcs, copy : Token \cup {NoToken}, reply : [login : 0..MaxLogins, gen : 0..MaxGen]]
PollType == [pc : PollPcs, session : Logins \cup {0}]

\* The tokens of an answer, the session of a request.
Filled ==
    /\ \A j \in Jobs : job[j].pc = "answered" => job[j].reply.login \in Logins
    /\ \A j \in Jobs : job[j].pc = "half" => job[j].reply \in Token
    /\ \A p \in Polls : poll[p].pc # "idle" => poll[p].session \in Logins

\* Only a request that was under way when its session ended asks for one
\* that has.
LateOnly ==
    \A p \in Polls : poll[p].pc # "idle" /\ terminal[poll[p].session] # "none" => p \in late

\* A vault credential has no sessions, a fleet credential no commands.
Shaped ==
    /\ shape = "vault" => \A p \in Polls : poll[p].pc = "idle"
    /\ shape = "vault" => open = {} /\ starting = {}
    /\ shape = "fleet" => \A j \in Commands : job[j].pc = "idle"

\* Without overlap one at most is writing.
Alone == ~crossed => \A x, y \in Writing : x = y

\* Tokens of this sign-in are neither stored nor under way.
Unused(s) ==
    refresh.login # s /\ \A j \in Jobs : job[j].copy.login # s /\ job[j].reply.login # s

\* A code is exchanged once, and what one request has got nobody else has
\* before it is stored: a sign-in that heals finds its token still honoured.
Fresh ==
    \A s \in Logins :
        /\ shape = "fleet" /\ code[s] # "spent" => honoured[s] = 0 /\ Unused(s)
        /\ \A p \in Polls : poll[p].pc = "completed" /\ poll[p].session = s =>
              /\ code[s] = "spent" /\ honoured[s] = 1 /\ Unused(s)
              /\ \A q \in Polls : poll[q].pc = "completed" /\ poll[q].session = s => q = p

\* Without overlap a writer's copy is what is stored, and its answer what
\* the provider honours.
AnswerOf(j) ==
    /\ job[j].pc = "sending" => job[j].copy = refresh
    /\ job[j].pc = "answered" /\ ~Rotated(j) =>
          /\ job[j].copy = refresh /\ job[j].copy \in Token
          /\ job[j].reply.login = refresh.login /\ honoured[refresh.login] = refresh.gen
    /\ job[j].pc \in {"answered", "half"} /\ Rotated(j) =>
          honoured[job[j].reply.login] = job[j].reply.gen
    /\ job[j].pc = "half" => access.login = job[j].reply.login
Answers == ~crossed => \A j \in Jobs : AnswerOf(j)

\* A writer that has been given a new token in exchange for the stored one.
Owes(j) == job[j].pc \in {"answered", "half"} /\ Rotated(j) /\ job[j].copy # NoToken

\* Nothing lost and no overlap: what is stored is honoured, and one pair.
Held ==
    ~lost /\ ~crossed /\ refresh # NoToken =>
        /\ (\A j \in Jobs : ~Owes(j)) => honoured[refresh.login] = refresh.gen
        /\ access # NoAccess /\ (\A j \in Jobs : job[j].pc # "half") => access.login = refresh.login

IInv ==
    /\ TypeOK /\ Filled /\ LateOnly /\ CompletedIsSaved
    /\ Shaped /\ Alone /\ Fresh /\ Answers /\ Held

\* Types by part.
StoreOK == access \in Access \cup {NoAccess} /\ refresh \in Token \cup {NoToken}
                                              /\ honoured \in [Logins -> 0..MaxGen]
JobsOK ==
    /\ job \in [Jobs -> JobType]
    /\ \A j \in Jobs : job[j].pc = "answered" => job[j].reply.login \in Logins
    /\ \A j \in Jobs : job[j].pc = "half" => job[j].reply \in Token
PollsOK ==
    /\ poll \in [Polls -> PollType]
    /\ \A p \in Polls : poll[p].pc # "idle" => poll[p].session \in Logins
SessionsOK ==
    /\ open \subseteq Logins /\ starting \subseteq Logins
    /\ terminal \in [Logins -> {"none", "completed", "failed"}]
    /\ code \in [Logins -> {"none", "waiting", "approved", "spent"}]
PastOK == saved \subseteq Logins /\ late \subseteq Polls /\ faults \in 0..MaxFaults
BitsOK == up \in BOOLEAN /\ cooldown \in BOOLEAN /\ lost \in BOOLEAN /\ crossed \in BOOLEAN

LEMMA Parts ==
    TypeOK /\ Filled <=> shape \in Shapes /\ StoreOK /\ JobsOK /\ PollsOK /\ SessionsOK /\ PastOK /\ BitsOK
  BY Zenon DEF TypeOK, Filled, StoreOK, JobsOK, PollsOK, SessionsOK, PastOK, BitsOK, JobType,
      PollType

LEMMA Idle ==
    /\ IdleJob \in JobType /\ IdleJob.pc = "idle" /\ IdleJob.copy = NoToken
    /\ IdlePoll \in PollType /\ IdlePoll.pc = "idle"
  BY TokenAssumption DEF IdleJob, JobType, JobPcs, NoToken, IdlePoll, PollType, PollPcs,
      TokenAssumption

LEMMA InitInv == Init => IInv
  <1> SUFFICES ASSUME Init PROVE IInv
    OBVIOUS
  <1> USE Idle, TokenAssumption DEF Init
  <1>1. StoreOK /\ JobsOK /\ PollsOK
    BY DEF StoreOK, JobsOK, PollsOK, TokenAssumption
  <1>2. SessionsOK /\ PastOK
    BY DEF SessionsOK, PastOK, TokenAssumption
  <1>3. BitsOK
    BY Zenon DEF BitsOK
  <1>4. (\A p \in Polls : poll[p].pc = "idle") /\ \A s \in Logins : terminal[s] = "none"
    OBVIOUS
  <1>5. LateOnly /\ CompletedIsSaved
    BY <1>4 DEF LateOnly, CompletedIsSaved
  <1>6. TypeOK /\ Filled
    BY <1>1, <1>2, <1>3, Parts
  <1>7. (\A j \in Jobs : job[j].pc = "idle" /\ job[j].copy.login = 0 /\ job[j].reply.login = 0)
        /\ refresh.login = 0 /\ Writing = {}
    BY <1>4 DEF IdleJob, NoToken, Writing
  <1>8. Shaped /\ Alone /\ Answers /\ Held
    BY <1>4, <1>7 DEF Shaped, Alone, Answers, AnswerOf, Held, Commands, Jobs
  <1>9. Fresh
    BY <1>4, <1>7 DEF Fresh, Unused, Logins
  <1> QED BY <1>5, <1>6, <1>8, <1>9 DEF IInv

\* What is stored, and what the provider honours.
LEMMA NextStore == IInv /\ [Next]_vars => StoreOK'
  <1> SUFFICES ASSUME IInv, [Next]_vars PROVE StoreOK'
    OBVIOUS
  <1>a. StoreOK /\ JobsOK /\ PollsOK
    BY Parts DEF IInv
  <1>k. UNCHANGED <<access, refresh, honoured>> => StoreOK'
    BY <1>a DEF StoreOK
  <1>m. MaxGen \in Nat \ {0} /\ MaxLogins \in Nat /\ 1 \in 1..MaxGen
    BY TokenAssumption DEF TokenAssumption
  <1>1. ASSUME NEW j \in Jobs, Exchange(j) PROVE StoreOK'
    <2>1. CASE UNCHANGED honoured
      BY <1>a, <1>1, <2>1 DEF Exchange, StoreOK, store
    <2>2. CASE \E g \in {job[j].copy.gen, job[j].copy.gen + 1} :
                 g <= MaxGen /\ honoured' = [honoured EXCEPT ![job[j].copy.login] = g]
                 /\ job[j].copy # NoToken
      <3>1. job[j].copy \in Token
        BY <1>a, <2>2 DEF JobsOK, JobType
      <3>2. honoured' \in [Logins -> 0..MaxGen]
        BY <1>a, <1>m, <2>2, <3>1 DEF StoreOK, Token
      <3> QED BY <1>a, <1>1, <3>2 DEF Exchange, StoreOK, store
    <2> QED BY <1>1, <2>1, <2>2 DEF Exchange
  <1>2. ASSUME NEW j \in Jobs, Store(j) PROVE StoreOK'
    <2>1. job[j].reply.login \in Logins /\ job[j] \in JobType
      BY <1>a, <1>2 DEF Store, JobsOK
    <2>2. access' \in Access
      BY <1>2, <2>1 DEF Store, Access
    <2>3. Kept(j) \in Token \cup {NoToken}
      <3>1. CASE Rotated(j)
        BY <1>m, <2>1, <3>1 DEF Kept, Rotated, JobType, Token
      <3>2. CASE ~Rotated(j)
        BY <2>1, <3>2 DEF Kept, JobType
      <3> QED BY <3>1, <3>2
    <2>4. refresh' = Kept(j) \/ refresh' = refresh
      BY <1>2 DEF Store
    <2>5. honoured' = honoured
      BY <1>2 DEF Store
    <2> QED BY <1>a, <2>2, <2>3, <2>4, <2>5 DEF StoreOK
  <1>3. ASSUME NEW j \in Jobs, StoreCompanion(j) PROVE StoreOK'
    BY <1>a, <1>3 DEF StoreCompanion, Companion, StoreOK, JobsOK
  <1>4. ASSUME NEW s \in Logins, LoginCommand(s) PROVE StoreOK'
    BY <1>a, <1>m, <1>4 DEF LoginCommand, StoreOK, store
  <1>5. ASSUME NEW p \in Polls, Answer(p) PROVE StoreOK'
    BY <1>a, <1>m, <1>5 DEF Answer, StoreOK, store
  <1>6. ASSUME NEW p \in Polls, EndPoll(p) PROVE StoreOK'
    <2>1. poll[p].session \in Logins
      BY <1>a, <1>6 DEF EndPoll, PollsOK
    <2>2. [login |-> poll[p].session, due |-> FALSE] \in Access /\ [login |-> poll[p].session, gen |-> 1] \in Token
      BY <1>m, <2>1 DEF Access, Token
    <2> QED BY <1>a, <1>6, <2>2 DEF EndPoll, StoreOK, store
  <1>7. CASE Logout
    BY <1>a, <1>7 DEF Logout, StoreOK
  <1>8. CASE ComesDue
    BY <1>a, <1>8 DEF ComesDue, StoreOK, Access
  <1>9. CASE (\E t \in Ticks : Tick(t)) \/ (\E j \in Jobs : ReadCompanion(j))
             \/ (\E j \in Jobs : GivesUp(j)) \/ RefreshCommand \/ CooldownEnds
             \/ (\E s \in Logins : StartSession(s)) \/ (\E s \in Logins : CreateSession(s))
             \/ (\E s \in Logins : Decide(s)) \/ (\E s \in Logins : SessionExpires(s))
             \/ (\E s \in Logins, p \in Polls : Poll(p, s)) \/ Boot \/ SupervisorExit
    BY <1>k, <1>9 DEF Tick, ReadCompanion, GivesUp, RefreshCommand, CooldownEnds, StartSession,
          CreateSession, Decide, SessionExpires, Poll, Boot, SupervisorExit, store
  <1>10. CASE UNCHANGED vars
    BY <1>10, <1>k DEF vars, store, sessions, history
  <1> QED
    BY <1>1, <1>2, <1>3, <1>4, <1>5, <1>6, <1>7, <1>8, <1>9, <1>10
       DEF Next, JobStep

\* The writers.
LEMMA NextJobs == IInv /\ [Next]_vars => JobsOK'
  <1> SUFFICES ASSUME IInv, [Next]_vars PROVE JobsOK'
    OBVIOUS
  <1>a. StoreOK /\ JobsOK
    BY Parts DEF IInv
  <1>m. MaxGen \in Nat \ {0} /\ MaxLogins \in Nat /\ 1 \in 1..MaxGen /\ Ticks \subseteq Jobs
        /\ "refresh" \in Jobs /\ "login" \in Jobs
    BY TokenAssumption DEF TokenAssumption, Jobs, Commands
  <1>k. UNCHANGED job => JobsOK'
    BY <1>a DEF JobsOK
  <1>x. \A j \in Jobs, x \in JobType :
          /\ job' = [job EXCEPT ![j] = x]
          /\ x.pc = "answered" => x.reply.login \in Logins
          /\ x.pc = "half" => x.reply \in Token
          => JobsOK'
    BY <1>a DEF JobsOK
  <1>e. \A j \in Jobs : Ends(j) => JobsOK'
    BY <1>x, Idle DEF Ends
  <1>1. ASSUME NEW t \in Ticks, Tick(t) PROVE JobsOK'
    <2> DEFINE x == [IdleJob EXCEPT !.pc = "sending", !.copy = refresh]
               y == [IdleJob EXCEPT !.pc = "listed"]
    <2>1. x \in JobType /\ x.pc = "sending" /\ y \in JobType /\ y.pc = "listed"
      BY <1>a, Idle DEF StoreOK, IdleJob, JobType, JobPcs
    <2>2. job' = [job EXCEPT ![t] = x] \/ job' = [job EXCEPT ![t] = y]
      BY <1>1 DEF Tick
    <2> HIDE DEF x, y
    <2> QED BY <1>m, <1>x, <2>1, <2>2
  <1>2. ASSUME NEW j \in Jobs, ReadCompanion(j) PROVE JobsOK'
    <2> DEFINE x == [job[j] EXCEPT !.pc = "sending", !.copy = refresh]
    <2>1. x \in JobType /\ x.pc = "sending"
      BY <1>a DEF StoreOK, JobsOK, JobType, JobPcs
    <2>2. job' = [job EXCEPT ![j] = x]
      BY <1>a, <1>2 DEF ReadCompanion, JobsOK
    <2> HIDE DEF x
    <2> QED BY <1>x, <2>1, <2>2
  <1>3. ASSUME NEW j \in Jobs, Exchange(j) PROVE JobsOK'
    <2>1. CASE Ends(j)
      BY <1>e, <2>1
    <2>2. CASE ~Ends(j)
      <3>1. PICK g \in {job[j].copy.gen, job[j].copy.gen + 1} :
              /\ g <= MaxGen /\ job[j].copy # NoToken
              /\ job' = [job EXCEPT ![j].pc = "answered",
                     ![j].reply = [job[j].copy EXCEPT !.gen = IF g = job[j].copy.gen THEN 0 ELSE g]]
        BY <1>3, <2>2 DEF Exchange
      <3>2. job[j].copy \in Token /\ job[j] \in JobType
        BY <1>a, <3>1 DEF JobsOK, JobType
      <3> DEFINE r == [job[j].copy EXCEPT !.gen = IF g = job[j].copy.gen THEN 0 ELSE g]
                 x == [job[j] EXCEPT !.pc = "answered", !.reply = r]
      <3>3. r \in [login : 0..MaxLogins, gen : 0..MaxGen] /\ r.login \in Logins
        BY <1>m, <3>1, <3>2 DEF Token, Logins
      <3> HIDE DEF r
      <3>4. x \in JobType /\ x.pc = "answered" /\ x.reply = r
        BY <3>2, <3>3 DEF JobType, JobPcs
      <3>5. job' = [job EXCEPT ![j] = x]
        BY <1>a, <3>1 DEF JobsOK, r
      <3> HIDE DEF x
      <3> QED BY <1>x, <3>3, <3>4, <3>5
    <2> QED BY <2>1, <2>2
  <1>4. ASSUME NEW j \in Jobs, Store(j) PROVE JobsOK'
    <2>1. CASE Ends(j)
      BY <1>e, <2>1
    <2>2. CASE ~Ends(j)
      <3>1. To(j, "half") /\ Rotated(j)
        BY <1>4, <2>2 DEF Store
      <3> DEFINE x == [job[j] EXCEPT !.pc = "half"]
      <3>2. job[j] \in JobType /\ job[j].reply.login \in Logins
        BY <1>a, <1>4 DEF JobsOK, Store
      <3>3. x \in JobType /\ x.pc = "half" /\ x.reply \in Token
        BY <1>m, <3>1, <3>2 DEF JobType, JobPcs, Token, Rotated
      <3>4. job' = [job EXCEPT ![j] = x]
        BY <1>a, <3>1 DEF JobsOK, To
      <3> HIDE DEF x
      <3> QED BY <1>x, <3>3, <3>4
    <2> QED BY <2>1, <2>2
  <1>5. CASE (\E j \in Jobs : StoreCompanion(j)) \/ (\E j \in Jobs : GivesUp(j))
    BY <1>e, <1>5 DEF StoreCompanion, GivesUp
  <1>6. CASE RefreshCommand
    <2> DEFINE x == [IdleJob EXCEPT !.pc = "sending", !.copy = refresh]
    <2>1. x \in JobType /\ x.pc = "sending"
      BY <1>a, Idle DEF StoreOK, IdleJob, JobType, JobPcs
    <2>2. job' = [job EXCEPT !["refresh"] = x]
      BY <1>6 DEF RefreshCommand
    <2> HIDE DEF x
    <2> QED BY <1>m, <1>x, <2>1, <2>2
  <1>7. ASSUME NEW s \in Logins, LoginCommand(s) PROVE JobsOK'
    <2> DEFINE r == [login |-> s, gen |-> 1]
               x == [IdleJob EXCEPT !.pc = "answered", !.reply = r]
    <2>2. r \in [login : 0..MaxLogins, gen : 0..MaxGen] /\ r.login \in Logins
      BY <1>m DEF Logins
    <2>3. job' = [job EXCEPT !["login"] = x]
      BY <1>7 DEF LoginCommand
    <2> HIDE DEF r
    <2>4. x \in JobType /\ x.pc = "answered" /\ x.reply = r
      BY <2>2, Idle DEF IdleJob, JobType, JobPcs
    <2> HIDE DEF x
    <2> QED BY <1>m, <1>x, <2>2, <2>3, <2>4
  <1>8. CASE SupervisorExit
    BY <1>a, <1>8, Idle DEF SupervisorExit, JobsOK
  <1>9. CASE CooldownEnds \/ (\E s \in Logins : StartSession(s))
             \/ (\E s \in Logins : CreateSession(s)) \/ (\E s \in Logins : Decide(s))
             \/ (\E s \in Logins : SessionExpires(s))
             \/ (\E s \in Logins, p \in Polls : Poll(p, s)) \/ (\E p \in Polls : Answer(p))
             \/ (\E p \in Polls : EndPoll(p)) \/ Logout \/ ComesDue \/ Boot
    BY <1>k, <1>9 DEF CooldownEnds, StartSession, CreateSession, Decide, SessionExpires, Poll,
        Answer,
          EndPoll, Logout, ComesDue, Boot
  <1>10. CASE UNCHANGED vars
    BY <1>10, <1>k DEF vars, store, sessions, history
  <1> QED
    BY <1>1, <1>2, <1>3, <1>4, <1>5, <1>6, <1>7, <1>8, <1>9, <1>10
       DEF Next, JobStep

\* Requests and sessions.
LEMMA NextPolls == IInv /\ [Next]_vars => PollsOK' /\ SessionsOK'
  <1> SUFFICES ASSUME IInv, [Next]_vars PROVE PollsOK' /\ SessionsOK'
    OBVIOUS
  <1>a. PollsOK /\ SessionsOK
    BY Parts DEF IInv
  <1>k. UNCHANGED <<poll, open, starting, terminal, code>> => PollsOK' /\ SessionsOK'
    BY <1>a DEF PollsOK, SessionsOK
  <1>q. \A p \in Polls, x \in PollType :
          poll' = [poll EXCEPT ![p] = x] /\ (x.pc # "idle" => x.session \in Logins) => PollsOK'
    BY <1>a DEF PollsOK
  <1>s. UNCHANGED poll => PollsOK'
    BY <1>a DEF PollsOK
  <1>1. ASSUME NEW s \in Logins, StartSession(s) PROVE PollsOK' /\ SessionsOK'
    BY <1>a, <1>s, <1>1 DEF StartSession, SessionsOK
  <1>2. ASSUME NEW s \in Logins, CreateSession(s) PROVE PollsOK' /\ SessionsOK'
    BY <1>a, <1>s, <1>2 DEF CreateSession, SessionsOK
  <1>3. ASSUME NEW s \in Logins, Decide(s) PROVE PollsOK' /\ SessionsOK'
    BY <1>a, <1>s, <1>3 DEF Decide, SessionsOK
  <1>4. ASSUME NEW s \in Logins, SessionExpires(s) PROVE PollsOK' /\ SessionsOK'
    BY <1>a, <1>s, <1>4 DEF SessionExpires, SessionsOK
  <1>5. ASSUME NEW s \in Logins, NEW p \in Polls, Poll(p, s) PROVE PollsOK' /\ SessionsOK'
    <2> DEFINE x == [pc |-> "asked", session |-> s]
    <2>1. x \in PollType /\ (x.pc # "idle" => x.session \in Logins)
      BY DEF PollType, PollPcs
    <2>2. poll' = [poll EXCEPT ![p] = x]
      BY <1>5 DEF Poll
    <2>3. SessionsOK'
      BY <1>a, <1>5 DEF Poll, SessionsOK
    <2> HIDE DEF x
    <2> QED BY <1>q, <2>1, <2>2, <2>3
  <1>6. ASSUME NEW p \in Polls, Answer(p) PROVE PollsOK' /\ SessionsOK'
    <2>1. poll[p] \in PollType /\ poll[p].session \in Logins
      BY <1>a, <1>6 DEF Answer, PollsOK
    <2> DEFINE x == [poll[p] EXCEPT !.pc = "completed"]
               y == [poll[p] EXCEPT !.pc = "failed"]
    <2>2. /\ x \in PollType /\ x.session = poll[p].session
          /\ y \in PollType /\ y.session = poll[p].session
      BY <2>1 DEF PollType, PollPcs
    <2>3. \/ poll' = [poll EXCEPT ![p] = x] \/ poll' = [poll EXCEPT ![p] = y]
          \/ poll' = [poll EXCEPT ![p] = IdlePoll]
      BY <1>a, <1>6 DEF Answer, PollsOK
    <2> HIDE DEF x, y
    <2>4. PollsOK'
      BY <1>q, <2>1, <2>2, <2>3, Idle
    <2>5. SessionsOK'
      BY <1>a, <1>6, <2>1 DEF Answer, SessionsOK
    <2> QED BY <2>4, <2>5
  <1>7. ASSUME NEW p \in Polls, EndPoll(p) PROVE PollsOK' /\ SessionsOK'
    <2>1. PollsOK'
      BY <1>q, <1>7, Idle DEF EndPoll
    <2>2. terminal' \in [Logins -> {"none", "completed", "failed"}]
      <3>1. \/ terminal' = terminal
            \/ \E r \in {"completed", "failed"} : terminal' = [terminal EXCEPT ![poll[p].session] = r]
        BY <1>7 DEF EndPoll, Recorded, Told
      <3> QED BY <1>a, <3>1 DEF SessionsOK
    <2> QED BY <1>a, <1>7, <2>1, <2>2 DEF EndPoll, SessionsOK
  <1>8. CASE SupervisorExit
    BY <1>a, <1>8, Idle DEF SupervisorExit, PollsOK, SessionsOK
  <1>9. CASE (\E t \in Ticks : Tick(t)) \/ (\E j \in Jobs : ReadCompanion(j))
             \/ (\E j \in Jobs : Exchange(j)) \/ (\E j \in Jobs : Store(j))
             \/ (\E j \in Jobs : StoreCompanion(j)) \/ (\E j \in Jobs : GivesUp(j))
             \/ RefreshCommand \/ (\E s \in Logins : LoginCommand(s)) \/ CooldownEnds \/ Logout
             \/ ComesDue \/ Boot
    BY <1>k, <1>9 DEF Tick, ReadCompanion, Exchange, Store, StoreCompanion, GivesUp, RefreshCommand,
          LoginCommand, CooldownEnds, Logout, ComesDue, Boot, sessions
  <1>10. CASE UNCHANGED vars
    BY <1>10, <1>k DEF vars, store, sessions, history
  <1> QED
    BY <1>1, <1>2, <1>3, <1>4, <1>5, <1>6, <1>7, <1>8, <1>9, <1>10
       DEF Next, JobStep

\* The rest of the types.
LEMMA NextRest == IInv /\ [Next]_vars => shape' \in Shapes /\ PastOK' /\ BitsOK'
  <1> SUFFICES ASSUME IInv, [Next]_vars PROVE shape' \in Shapes /\ PastOK' /\ BitsOK'
    OBVIOUS
  <1>a. shape \in Shapes /\ PastOK /\ BitsOK /\ PollsOK
    BY Parts DEF IInv
  <1>1. shape' = shape
    BY Zenon DEF Next, JobStep, vars, Tick, ReadCompanion, Exchange, Store, StoreCompanion,
        GivesUp, RefreshCommand, LoginCommand, CooldownEnds, StartSession, CreateSession,
          Decide, SessionExpires, Poll, Answer, EndPoll, Logout, ComesDue, Boot, SupervisorExit
  <1>2. up' \in BOOLEAN
    <2>1. UNCHANGED up \/ up' = TRUE \/ up' = FALSE
      BY Zenon DEF Next, JobStep, vars, Tick, ReadCompanion, Exchange, Store, StoreCompanion,
          GivesUp, RefreshCommand, LoginCommand, CooldownEnds, StartSession, CreateSession,
          Decide, SessionExpires, Poll, Answer, EndPoll, Logout, ComesDue, Boot, SupervisorExit
    <2> QED BY <1>a, <2>1, Zenon DEF BitsOK
  <1>3. cooldown' \in BOOLEAN
    <2>1. UNCHANGED cooldown \/ cooldown' = TRUE \/ cooldown' = FALSE
      BY Zenon DEF Next, JobStep, vars, Cools, Tick, ReadCompanion, Exchange, Store,
          StoreCompanion, GivesUp, RefreshCommand, LoginCommand, CooldownEnds, StartSession,
          CreateSession,
          Decide, SessionExpires, Poll, Answer, EndPoll, Logout, ComesDue, Boot, SupervisorExit
    <2> QED BY <1>a, <2>1, Zenon DEF BitsOK
  <1>4. lost' \in BOOLEAN
    <2>1. \/ UNCHANGED lost \/ (\E b : lost' = (lost \/ b)) \/ (\E b : lost' = (lost /\ b))
      BY ZenonT(60) DEF Next, JobStep, vars, history, Heals, Tick, ReadCompanion, Exchange,
          Store, StoreCompanion, GivesUp, RefreshCommand, LoginCommand, CooldownEnds,
          StartSession, CreateSession,
          Decide, SessionExpires, Poll, Answer, EndPoll, Logout, ComesDue, Boot, SupervisorExit
    <2> QED BY <1>a, <2>1, Zenon DEF BitsOK
  <1>5. crossed' \in BOOLEAN
    <2>1. \/ UNCHANGED crossed \/ (\E b : crossed' = (crossed \/ b)) \/ (\E b : crossed' = (crossed /\ b))
      BY ZenonT(60) DEF Next, JobStep, vars, history, Heals, Crosses, Tick, ReadCompanion,
          Exchange, Store, StoreCompanion, GivesUp, RefreshCommand, LoginCommand, CooldownEnds,
          StartSession, CreateSession,
          Decide, SessionExpires, Poll, Answer, EndPoll, Logout, ComesDue, Boot, SupervisorExit
    <2> QED BY <1>a, <2>1, Zenon DEF BitsOK
  <1>6. faults' \in 0..MaxFaults
    <2>1. UNCHANGED faults \/ Fails
      BY ZenonT(60) DEF Next, JobStep, vars, history, Tick, ReadCompanion, Exchange, Store,
          StoreCompanion, GivesUp, RefreshCommand, LoginCommand, CooldownEnds, StartSession,
          CreateSession,
          Decide, SessionExpires, Poll, Answer, EndPoll, Logout, ComesDue, Boot, SupervisorExit
    <2> QED BY <1>a, <2>1, TokenAssumption DEF PastOK, Fails, TokenAssumption
  <1>7. saved' \subseteq Logins
    <2>1. UNCHANGED saved \/ \E p \in Polls : poll[p].pc # "idle" /\ saved' = saved \cup {poll[p].session}
      BY DEF Next, JobStep, vars, history, Tick, ReadCompanion, Exchange, Store, StoreCompanion,
          GivesUp, RefreshCommand, LoginCommand, CooldownEnds, StartSession, CreateSession,
          Decide, SessionExpires, Poll, Answer, EndPoll, Logout, ComesDue, Boot, SupervisorExit
    <2> QED BY <1>a, <2>1 DEF PastOK, PollsOK
  <1>8. late' \subseteq Polls
    <2>1. UNCHANGED late \/ late' = {} \/ \E p \in Polls : EndPoll(p)
      BY DEF Next, JobStep, vars, history, Tick, ReadCompanion, Exchange, Store, StoreCompanion,
          GivesUp, RefreshCommand, LoginCommand, CooldownEnds, StartSession, CreateSession,
          Decide, SessionExpires, Poll, Answer, EndPoll, Logout, ComesDue, Boot, SupervisorExit
    <2> QED BY <1>a, <2>1 DEF PastOK, EndPoll
  <1> QED
    BY <1>a, <1>1, <1>2, <1>3, <1>4, <1>5, <1>6, <1>7, <1>8 DEF PastOK, BitsOK

\* Who is told what.
LEMMA NextLate == IInv /\ [Next]_vars => LateOnly' /\ CompletedIsSaved'
  <1> SUFFICES ASSUME IInv, [Next]_vars PROVE LateOnly' /\ CompletedIsSaved'
    OBVIOUS
  <1>a. LateOnly /\ CompletedIsSaved /\ PollsOK /\ SessionsOK /\ PastOK
    BY Parts DEF IInv
  <1>k. UNCHANGED <<poll, terminal, saved, late>> => LateOnly' /\ CompletedIsSaved'
    BY <1>a DEF LateOnly, CompletedIsSaved
  <1>1. ASSUME NEW s \in Logins, NEW p \in Polls, Poll(p, s) PROVE LateOnly' /\ CompletedIsSaved'
    <2>1. poll' = [poll EXCEPT ![p] = [pc |-> "asked", session |-> s]] /\ terminal[s] = "none"
          /\ UNCHANGED <<terminal, saved, late>>
      BY <1>1 DEF Poll, Asks, history
    <2> QED BY <1>a, <2>1 DEF LateOnly, CompletedIsSaved, PollsOK
  <1>2. ASSUME NEW p \in Polls, Answer(p) PROVE LateOnly' /\ CompletedIsSaved'
    <2>1. \A q \in Polls : poll'[q].pc # "idle" => poll[q].pc # "idle" /\ poll'[q].session = poll[q].session
      BY <1>a, <1>2 DEF Answer, PollsOK, PollType, IdlePoll
    <2>2. UNCHANGED <<terminal, saved, late>>
      BY <1>2 DEF Answer
    <2> QED BY <1>a, <2>1, <2>2 DEF LateOnly, CompletedIsSaved
  <1>3. ASSUME NEW p \in Polls, EndPoll(p) PROVE LateOnly' /\ CompletedIsSaved'
    <2> DEFINE s == poll[p].session
    <2>1. s \in Logins
      BY <1>a, <1>3 DEF EndPoll, PollsOK
    <2>2. /\ \A l \in Logins : l # s => terminal'[l] = terminal[l]
          /\ terminal'[s] = "completed" => terminal[s] = "completed" \/ s \in saved'
          /\ saved \subseteq saved'
      BY <1>a, <1>3, <2>1 DEF EndPoll, Recorded, Told, SessionsOK
    <2>3. CompletedIsSaved'
      BY <1>a, <2>2 DEF CompletedIsSaved
    <2>4. /\ poll' = [poll EXCEPT ![p] = IdlePoll]
          /\ late' = (late \ {p}) \cup {q \in Polls \ {p} : poll[q].session = s}
      BY <1>3 DEF EndPoll
    <2> HIDE DEF s
    <2>5. LateOnly'
      BY <1>a, <2>2, <2>4, Idle DEF LateOnly, PollsOK
    <2> QED BY <2>3, <2>5
  <1>4. CASE SupervisorExit
    BY <1>a, <1>4, Idle DEF SupervisorExit, LateOnly, CompletedIsSaved
  <1>5. CASE (\E t \in Ticks : Tick(t)) \/ (\E j \in Jobs : ReadCompanion(j))
             \/ (\E j \in Jobs : Exchange(j)) \/ (\E j \in Jobs : Store(j))
             \/ (\E j \in Jobs : StoreCompanion(j)) \/ (\E j \in Jobs : GivesUp(j))
             \/ RefreshCommand \/ (\E s \in Logins : LoginCommand(s)) \/ CooldownEnds
             \/ (\E s \in Logins : StartSession(s)) \/ (\E s \in Logins : CreateSession(s))
             \/ (\E s \in Logins : Decide(s)) \/ (\E s \in Logins : SessionExpires(s))
             \/ Logout \/ ComesDue \/ Boot
    BY <1>k, <1>5 DEF Tick, ReadCompanion, Exchange, Store, StoreCompanion, GivesUp, RefreshCommand,
          LoginCommand, CooldownEnds, StartSession, CreateSession, Decide, SessionExpires,
          Logout, ComesDue,
          Boot, sessions, history
  <1>6. CASE UNCHANGED vars
    BY <1>6, <1>k DEF vars, store, sessions, history
  <1> QED
    BY <1>1, <1>2, <1>3, <1>4, <1>5, <1>6
       DEF Next, JobStep

-----------------------------------------------------------------------------
(* The line of tokens.                                                     *)

\* Nobody holds tokens that are still to be stored.
AllIdle ==
    /\ \A j \in Jobs : job[j].pc = "idle"
    /\ \A p \in Polls : poll[p].pc # "completed"

LEMMA Apart == Jobs \cap Polls = {} /\ Ticks \subseteq Jobs /\ Commands \subseteq Jobs
               /\ "refresh" \in Commands /\ "login" \in Commands
  BY TokenAssumption DEF TokenAssumption, Jobs, Commands

LEMMA Solo ==
    ASSUME IInv, ~crossed, NEW j \in Jobs, job[j].pc # "idle"
    PROVE  (\A i \in Jobs : i # j => job[i].pc = "idle") /\ \A p \in Polls : poll[p].pc # "completed"
  BY Apart DEF IInv, Alone, Writing

LEMMA SoloPoll ==
    ASSUME IInv, ~crossed, NEW p \in Polls, poll[p].pc = "completed"
    PROVE  (\A i \in Jobs : job[i].pc = "idle") /\ \A q \in Polls : poll[q].pc = "completed" => q = p
  BY Apart DEF IInv, Alone, Writing

LEMMA Nobody == Writing = {} => AllIdle
  BY DEF Writing, AllIdle

\* Who begins to write without overlap begins alone.
LEMMA Quiet ==
    IInv /\ ~crossed' =>
        /\ \A t \in Ticks : Tick(t) => ~crossed /\ AllIdle
        /\ RefreshCommand => ~crossed /\ AllIdle
        /\ \A s \in Logins : LoginCommand(s) => ~crossed /\ AllIdle
        /\ \A p \in Polls : Answer(p) => ~crossed /\ (AllIdle \/ poll'[p].pc # "completed")
        /\ Logout => ~crossed /\ AllIdle
  <1> SUFFICES ASSUME IInv, ~crossed'
               PROVE  /\ \A t \in Ticks : Tick(t) => ~crossed /\ AllIdle
                      /\ RefreshCommand => ~crossed /\ AllIdle
                      /\ \A s \in Logins : LoginCommand(s) => ~crossed /\ AllIdle
                      /\ \A p \in Polls : Answer(p) => ~crossed /\ (AllIdle \/ poll'[p].pc # "completed")
                      /\ Logout => ~crossed /\ AllIdle
    OBVIOUS
  <1>1. Crosses => ~crossed /\ AllIdle
    BY Nobody, Zenon DEF Crosses
  <1>2. ASSUME NEW t \in Ticks, Tick(t) PROVE ~crossed /\ AllIdle
    <2>1. ~crossed /\ Writing \ Ticks = {}
      BY <1>2, Zenon DEF Tick
    <2>2. Writing \cap Ticks = {}
      BY <1>2, Apart DEF Tick, MayTick, Writing
    <2> QED BY <2>1, <2>2, Nobody
  <1>3. RefreshCommand => ~crossed /\ AllIdle
    BY <1>1 DEF RefreshCommand
  <1>4. ASSUME NEW s \in Logins, LoginCommand(s) PROVE ~crossed /\ AllIdle
    BY <1>1, <1>4 DEF LoginCommand
  <1>5. ASSUME NEW p \in Polls, Answer(p) PROVE ~crossed /\ (AllIdle \/ poll'[p].pc # "completed")
    <2>1. CASE Crosses
      BY <1>1, <2>1
    <2>2. CASE UNCHANGED crossed /\ code[poll[p].session] # "approved"
      <3>1. ~crossed
        BY <2>2
      <3>2. poll'[p].pc # "completed"
        BY <1>5, <2>2, Parts DEF Answer, IdlePoll, IInv, PollsOK, PollType
      <3> QED BY <3>1, <3>2
    <2> QED BY <1>5, <2>1, <2>2 DEF Answer
  <1>6. Logout => ~crossed /\ AllIdle
    BY <1>1 DEF Logout
  <1> QED BY <1>2, <1>3, <1>4, <1>5, <1>6

\* A sign-in that is stored without overlap, or puts an end to it, is alone.
LEMMA EndsAlone ==
    ASSUME IInv, ~crossed', NEW p \in Polls, EndPoll(p)
    PROVE  \/ ~crossed /\ UNCHANGED <<access, refresh, lost>>
           \/ /\ poll[p].pc = "completed"
              /\ access' = [login |-> poll[p].session, due |-> FALSE]
              /\ refresh' = [login |-> poll[p].session, gen |-> 1]
              /\ \A i \in Jobs : job[i].pc = "idle"
              /\ \A q \in Polls : poll[q].pc = "completed" => q = p
  <1>1. CASE UNCHANGED crossed /\ UNCHANGED <<access, refresh, lost>>
    BY <1>1
  <1>2. CASE /\ poll[p].pc = "completed" /\ Heals(p)
             /\ access' = [login |-> poll[p].session, due |-> FALSE]
             /\ refresh' = [login |-> poll[p].session, gen |-> 1]
    <2>1. ~crossed \/ Writing = {p}
      BY <1>2, Zenon DEF Heals
    <2>2. CASE Writing = {p}
      BY <1>2, <2>2, Apart DEF Writing
    <2>3. CASE ~crossed
      BY <1>2, <2>3, SoloPoll
    <2> QED BY <2>1, <2>2, <2>3
  <1> QED BY <1>1, <1>2 DEF EndPoll, store

LEMMA NextShaped == IInv /\ [Next]_vars => Shaped'
  <1> SUFFICES ASSUME IInv, [Next]_vars PROVE Shaped'
    OBVIOUS
  <1>a. Shaped /\ PollsOK /\ JobsOK /\ SessionsOK
    BY Parts DEF IInv
  <1>b. Commands \subseteq Jobs /\ Ticks \cap Commands = {} /\ IdleJob.pc = "idle" /\ IdlePoll.pc = "idle"
    BY Apart, TokenAssumption, Idle DEF TokenAssumption, Commands
  <1>k. UNCHANGED <<shape, job, poll, open, starting>> => Shaped'
    BY <1>a DEF Shaped
  <1>j. UNCHANGED <<shape, poll, open, starting>>
        /\ (\A j \in Commands : job'[j].pc # "idle" => job[j].pc # "idle" \/ shape = "vault") => Shaped'
    BY <1>a DEF Shaped
  <1>1. ASSUME NEW t \in Ticks, Tick(t) PROVE Shaped'
    BY <1>a, <1>b, <1>j, <1>1 DEF Tick, JobsOK, sessions
  <1>2. CASE (\E j \in Jobs : ReadCompanion(j)) \/ (\E j \in Jobs : Exchange(j))
             \/ (\E j \in Jobs : Store(j)) \/ (\E j \in Jobs : StoreCompanion(j))
             \/ (\E j \in Jobs : GivesUp(j))
    <2>1. PICK j \in Jobs : ReadCompanion(j) \/ Exchange(j) \/ Store(j) \/ StoreCompanion(j) \/ GivesUp(j)
      BY <1>2
    <2>2. job[j].pc # "idle" /\ \A i \in Jobs : i # j => job'[i] = job[i]
      BY <1>a, <2>1 DEF ReadCompanion, Exchange, Store, StoreCompanion, GivesUp, JobsOK, Ends, To
    <2>3. UNCHANGED <<shape, poll, open, starting>>
      BY <2>1 DEF ReadCompanion, Exchange, Store, StoreCompanion, GivesUp, sessions
    <2> QED BY <1>b, <1>j, <2>2, <2>3
  <1>3. CASE RefreshCommand
    BY <1>a, <1>j, <1>3 DEF RefreshCommand, sessions
  <1>4. ASSUME NEW s \in Logins, LoginCommand(s) PROVE Shaped'
    BY <1>a, <1>j, <1>4 DEF LoginCommand, sessions
  <1>5. CASE (\E s \in Logins : StartSession(s)) \/ (\E s \in Logins : Decide(s))
             \/ (\E s \in Logins : SessionExpires(s)) \/ (\E s \in Logins : CreateSession(s))
    <2>1. UNCHANGED <<shape, job, poll>>
      BY <1>5 DEF StartSession, Decide, SessionExpires, CreateSession
    <2>2. shape = "vault" => open' = {} /\ starting' = {}
      BY <1>a, <1>5 DEF StartSession, Decide, SessionExpires, CreateSession, Shaped
    <2> QED BY <1>a, <2>1, <2>2 DEF Shaped
  <1>6. ASSUME NEW s \in Logins, NEW p \in Polls, Poll(p, s) PROVE Shaped'
    BY <1>a, <1>6 DEF Poll, Asks, Shaped
  <1>7. ASSUME NEW p \in Polls, Answer(p) PROVE Shaped'
    BY <1>a, <1>7 DEF Answer, Shaped
  <1>8. ASSUME NEW p \in Polls, EndPoll(p) PROVE Shaped'
    BY <1>a, <1>8 DEF EndPoll, Shaped
  <1>9. CASE SupervisorExit
    BY <1>a, <1>b, <1>9 DEF SupervisorExit, Shaped
  <1>10. CASE CooldownEnds \/ Logout \/ ComesDue \/ Boot
    BY <1>k, <1>10 DEF CooldownEnds, Logout, ComesDue, Boot, sessions
  <1>11. CASE UNCHANGED vars
    BY <1>11, <1>k DEF vars, store, sessions, history
  <1> QED
    BY <1>1, <1>2, <1>3, <1>4, <1>5, <1>6, <1>7, <1>8, <1>9, <1>10, <1>11
       DEF Next, JobStep

LEMMA NextAlone == IInv /\ [Next]_vars => Alone'
  <1> SUFFICES ASSUME IInv, [Next]_vars PROVE Alone'
    OBVIOUS
  <1>a. Alone /\ PollsOK /\ JobsOK
    BY Parts DEF IInv
  <1>w. (/\ \A i \in Jobs : job'[i].pc # "idle" => job[i].pc # "idle"
         /\ \A p \in Polls : poll'[p].pc = "completed" => poll[p].pc = "completed"
         /\ ~crossed' => ~crossed) => Alone'
    BY <1>a DEF Alone, Writing
  <1>n. ASSUME NEW x,
               ~crossed' => /\ \A i \in Jobs : i # x => job'[i].pc = "idle"
                            /\ \A p \in Polls : p # x => poll'[p].pc # "completed"
        PROVE  Alone'
    BY <1>n, Zenon DEF Alone, Writing
  <1>k. UNCHANGED <<job, poll, crossed>> => Alone'
    BY <1>w
  <1>1. ASSUME NEW t \in Ticks, Tick(t) PROVE Alone'
    <2>1. ~crossed' => AllIdle
      BY <1>1, Quiet
    <2>2. UNCHANGED poll /\ \A i \in Jobs : i # t => job'[i] = job[i]
      BY <1>a, <1>1 DEF Tick, sessions, JobsOK
    <2> QED BY <1>n, <2>1, <2>2, Apart DEF AllIdle
  <1>2. ASSUME NEW j \in Jobs, ReadCompanion(j) PROVE Alone'
    <2>1. job[j].pc # "idle" /\ \A i \in Jobs : i # j => job'[i] = job[i]
      BY <1>a, <1>2 DEF ReadCompanion, JobsOK, Ends, To
    <2>2. UNCHANGED <<poll, crossed>>
      BY <1>2 DEF ReadCompanion, sessions, history
    <2> QED BY <1>w, <2>1, <2>2
  <1>3. ASSUME NEW j \in Jobs, Exchange(j) PROVE Alone'
    <2>1. job[j].pc # "idle" /\ \A i \in Jobs : i # j => job'[i] = job[i]
      BY <1>a, <1>3 DEF Exchange, JobsOK, Ends, To
    <2>2. UNCHANGED <<poll, crossed>>
      BY <1>3 DEF Exchange, sessions, history
    <2> QED BY <1>w, <2>1, <2>2
  <1>4. ASSUME NEW j \in Jobs, Store(j) PROVE Alone'
    <2>1. job[j].pc # "idle" /\ \A i \in Jobs : i # j => job'[i] = job[i]
      BY <1>a, <1>4 DEF Store, JobsOK, Ends, To
    <2>2. UNCHANGED <<poll, crossed>>
      BY <1>4 DEF Store, sessions, history
    <2> QED BY <1>w, <2>1, <2>2
  <1>5. ASSUME NEW j \in Jobs, StoreCompanion(j) PROVE Alone'
    <2>1. job[j].pc # "idle" /\ \A i \in Jobs : i # j => job'[i] = job[i]
      BY <1>a, <1>5 DEF StoreCompanion, JobsOK, Ends, To
    <2>2. UNCHANGED <<poll, crossed>>
      BY <1>5 DEF StoreCompanion, sessions, history
    <2> QED BY <1>w, <2>1, <2>2
  <1>6. ASSUME NEW j \in Jobs, GivesUp(j) PROVE Alone'
    <2>1. job[j].pc # "idle" /\ \A i \in Jobs : i # j => job'[i] = job[i]
      BY <1>a, <1>6 DEF GivesUp, JobsOK, Ends, To
    <2>2. UNCHANGED <<poll, crossed>>
      BY <1>6 DEF GivesUp, sessions, history
    <2> QED BY <1>w, <2>1, <2>2
  <1>7. CASE RefreshCommand
    <2>1. ~crossed' => AllIdle
      BY <1>7, Quiet
    <2>2. UNCHANGED poll /\ \A i \in Jobs : i # "refresh" => job'[i] = job[i]
      BY <1>a, <1>7 DEF RefreshCommand, sessions, JobsOK
    <2> QED BY <1>n, <2>1, <2>2, Apart DEF AllIdle
  <1>8. ASSUME NEW s \in Logins, LoginCommand(s) PROVE Alone'
    <2>1. ~crossed' => AllIdle
      BY <1>8, Quiet
    <2>2. UNCHANGED poll /\ \A i \in Jobs : i # "login" => job'[i] = job[i]
      BY <1>a, <1>8 DEF LoginCommand, sessions, JobsOK
    <2> QED BY <1>n, <2>1, <2>2, Apart DEF AllIdle
  <1>9. ASSUME NEW s \in Logins, NEW p \in Polls, Poll(p, s) PROVE Alone'
    <2>1. UNCHANGED <<job, crossed>> /\ poll' = [poll EXCEPT ![p] = [pc |-> "asked", session |-> s]]
      BY <1>9 DEF Poll, history
    <2>2. \A q \in Polls : poll'[q].pc = "completed" => poll[q].pc = "completed"
      BY <1>a, <2>1 DEF PollsOK
    <2> QED BY <1>w, <2>1, <2>2
  <1>10. ASSUME NEW p \in Polls, Answer(p) PROVE Alone'
    <2>1. UNCHANGED job /\ \A q \in Polls : q # p => poll'[q] = poll[q]
      BY <1>a, <1>10 DEF Answer, PollsOK
    <2>2. CASE poll'[p].pc = "completed"
      <3>1. ~crossed' => AllIdle
        BY <1>10, <2>2, Quiet
      <3> QED BY <1>n, <2>1, <3>1, Apart DEF AllIdle
    <2>3. CASE poll'[p].pc # "completed"
      <3>1. ~crossed' => ~crossed
        BY <1>10, Quiet
      <3> QED BY <1>w, <2>1, <2>3, <3>1
    <2> QED BY <2>2, <2>3
  <1>11. ASSUME NEW p \in Polls, EndPoll(p) PROVE Alone'
    <2>1. UNCHANGED job /\ poll' = [poll EXCEPT ![p] = IdlePoll]
      BY <1>11 DEF EndPoll
    <2>2. \A q \in Polls : poll'[q].pc = "completed" => poll[q].pc = "completed" /\ q # p
      BY <1>a, <2>1, Idle DEF PollsOK
    <2>3. CASE ~crossed' => ~crossed
      BY <1>w, <2>1, <2>2, <2>3
    <2>4. CASE /\ \A i \in Jobs : job[i].pc = "idle"
               /\ \A q \in Polls : poll[q].pc = "completed" => q = p
      BY <1>n, <2>1, <2>2, <2>4
    <2>5. CASE crossed'
      BY <2>5 DEF Alone
    <2> QED BY <1>11, <2>3, <2>4, <2>5, EndsAlone
  <1>12. CASE Logout
    <2>1. UNCHANGED <<job, poll>> /\ (~crossed' => ~crossed)
      BY <1>12, Quiet DEF Logout, sessions
    <2> QED BY <1>w, <2>1
  <1>13. CASE SupervisorExit
    <2>1. UNCHANGED crossed
      BY <1>13 DEF SupervisorExit
    <2>2. \A i \in Jobs : job'[i].pc # "idle" => job[i].pc # "idle"
      BY <1>13, Idle DEF SupervisorExit
    <2>3. \A q \in Polls : poll'[q].pc = "idle"
      BY <1>13, Idle DEF SupervisorExit
    <2> QED BY <1>w, <2>1, <2>2, <2>3
  <1>14. CASE CooldownEnds \/ (\E s \in Logins : StartSession(s))
             \/ (\E s \in Logins : CreateSession(s)) \/ (\E s \in Logins : Decide(s))
             \/ (\E s \in Logins : SessionExpires(s)) \/ ComesDue \/ Boot
    BY <1>k, <1>14 DEF CooldownEnds, StartSession, CreateSession, Decide, SessionExpires,
        ComesDue, Boot,
          sessions, history
  <1>15. CASE UNCHANGED vars
    BY <1>15, <1>k DEF vars, store, sessions, history
  <1> QED
    BY <1>1, <1>2, <1>3, <1>4, <1>5, <1>6, <1>7, <1>8, <1>9, <1>10, <1>11,
       <1>12, <1>13, <1>14, <1>15 DEF Next, JobStep

LEMMA NextFresh == IInv /\ [Next]_vars => Fresh'
  <1> SUFFICES ASSUME IInv, [Next]_vars PROVE Fresh'
    OBVIOUS
  <1>a. Fresh /\ Shaped /\ Shaped' /\ PollsOK /\ JobsOK /\ SessionsOK /\ StoreOK /\ shape \in KnownShapes
    BY Parts, NextShaped, TokenAssumption DEF IInv, TokenAssumption
  <1>i. IdleJob.copy.login = 0 /\ IdleJob.reply.login = 0 /\ NoToken.login = 0 /\ \A s \in Logins : s # 0
    BY DEF IdleJob, NoToken, Logins
  <1>k. UNCHANGED <<shape, refresh, honoured, job, poll, code>> => Fresh'
    BY <1>a DEF Fresh, Unused
  <1>v. CASE shape' = "vault"
    BY <1>a, <1>v DEF Shaped, Fresh
  \* Steps of a writer: tokens go from hand to hand.
  <1>j. (/\ UNCHANGED <<shape, poll, code>>
         /\ \A s \in Logins : shape = "fleet" /\ Unused(s) => Unused(s)' /\ honoured'[s] = honoured[s])
        => Fresh'
    BY <1>a, <1>v DEF Fresh, KnownShapes
  <1>1. ASSUME NEW t \in Ticks, Tick(t) PROVE Fresh'
    BY <1>a, <1>i, <1>j, <1>1 DEF Tick, JobsOK, JobType, Unused, store, sessions, IdleJob
  <1>2. ASSUME NEW j \in Jobs, ReadCompanion(j) PROVE Fresh'
    BY <1>a, <1>i, <1>j, <1>2 DEF ReadCompanion, JobsOK, JobType, Unused, store, sessions
  <1>3. ASSUME NEW j \in Jobs, Exchange(j) PROVE Fresh'
    <2>1. UNCHANGED <<shape, poll, code, refresh>>
      BY <1>3 DEF Exchange, store, sessions
    <2>2. CASE Ends(j) /\ UNCHANGED honoured
      BY <1>a, <1>i, <1>j, <2>1, <2>2 DEF Ends, JobsOK, Unused
    <2>3. CASE \E g \in {job[j].copy.gen, job[j].copy.gen + 1} :
                 /\ honoured' = [honoured EXCEPT ![job[j].copy.login] = g]
                 /\ \/ job' = [job EXCEPT ![j].pc = "answered", ![j].reply =
                               [job[j].copy EXCEPT !.gen = IF g = job[j].copy.gen THEN 0 ELSE g]]
                    \/ Ends(j)
      <3>1. \A s \in Logins : job[j].copy.login # s => honoured'[s] = honoured[s]
        BY <1>a, <2>3 DEF StoreOK
      <3>2. \A i \in Jobs : i # j => job'[i] = job[i]
        BY <1>a, <2>3 DEF Ends, JobsOK
      <3>3. job'[j].copy.login \in {job[j].copy.login, 0}
            /\ job'[j].reply.login \in {job[j].copy.login, 0}
        BY <1>a, <1>i, <2>3 DEF Ends, JobsOK, JobType, Token, NoToken
      <3>4. \A s \in Logins : Unused(s) => Unused(s)' /\ honoured'[s] = honoured[s]
        BY <1>i, <2>1, <3>1, <3>2, <3>3 DEF Unused
      <3> QED BY <1>j, <2>1, <3>4
    <2> QED BY <1>3, <2>2, <2>3 DEF Exchange
  <1>4. ASSUME NEW j \in Jobs, Store(j) PROVE Fresh'
    <2>1. UNCHANGED <<shape, poll, code, honoured>>
      BY <1>4 DEF Store, sessions
    <2>2. refresh' \in {refresh, job[j].reply, job[j].copy}
      BY <1>4 DEF Store, Kept
    <2>3. \A i \in Jobs : /\ job'[i].copy.login \in {job[i].copy.login, 0}
                           /\ job'[i].reply.login \in {job[i].reply.login, 0}
      <3>1. Ends(j) \/ To(j, "half")
        BY <1>4 DEF Store
      <3>2. CASE Ends(j)
        BY <1>a, <1>i, <3>2 DEF Ends, JobsOK
      <3>3. CASE To(j, "half")
        BY <1>a, <3>3 DEF To, JobsOK, JobType
      <3> QED BY <3>1, <3>2, <3>3
    <2>4. \A s \in Logins : Unused(s) => Unused(s)'
      BY <1>i, <2>2, <2>3 DEF Unused
    <2> QED BY <1>j, <2>1, <2>4
  <1>5. ASSUME NEW j \in Jobs, StoreCompanion(j) PROVE Fresh'
    BY <1>a, <1>i, <1>j, <1>5 DEF StoreCompanion, Companion, Ends, JobsOK, Unused, sessions
  <1>6. ASSUME NEW j \in Jobs, GivesUp(j) PROVE Fresh'
    BY <1>a, <1>i, <1>j, <1>6 DEF GivesUp, Ends, JobsOK, Unused, sessions, store
  <1>7. CASE RefreshCommand
    BY <1>v, <1>7 DEF RefreshCommand
  <1>8. ASSUME NEW s \in Logins, LoginCommand(s) PROVE Fresh'
    BY <1>v, <1>8 DEF LoginCommand
  <1>9. ASSUME NEW s \in Logins, StartSession(s) PROVE Fresh'
    <2>1. UNCHANGED <<shape, refresh, honoured, job, poll>> /\ code[s] = "none"
          /\ code' = [code EXCEPT ![s] = "waiting"]
      BY <1>9 DEF StartSession, store
    <2> QED BY <1>a, <2>1 DEF Fresh, Unused, SessionsOK
  <1>10. ASSUME NEW s \in Logins, Decide(s) PROVE Fresh'
    <2>1. UNCHANGED <<shape, refresh, honoured, job, poll>> /\ code[s] = "waiting"
          /\ \E d : code' = [code EXCEPT ![s] = d]
      BY <1>10 DEF Decide, store
    <2> QED BY <1>a, <2>1 DEF Fresh, Unused, SessionsOK
  <1>11. ASSUME NEW s \in Logins, SessionExpires(s) PROVE Fresh'
    <2>1. UNCHANGED <<shape, refresh, honoured, job, poll>> /\ code' = [code EXCEPT ![s] = "spent"]
      BY <1>11 DEF SessionExpires, store
    <2> QED BY <1>a, <2>1 DEF Fresh, Unused, SessionsOK
  <1>12. ASSUME NEW s \in Logins, NEW p \in Polls, Poll(p, s) PROVE Fresh'
    <2>1. UNCHANGED <<shape, refresh, honoured, job, code>>
          /\ poll' = [poll EXCEPT ![p] = [pc |-> "asked", session |-> s]]
      BY <1>12 DEF Poll, store
    <2> QED BY <1>a, <2>1 DEF Fresh, Unused, PollsOK
  <1>13. ASSUME NEW p \in Polls, Answer(p) PROVE Fresh'
    <2> DEFINE s == poll[p].session
    <2>1. UNCHANGED <<shape, refresh, job>> /\ s \in Logins /\ poll[p] \in PollType
      BY <1>a, <1>13 DEF Answer, store, PollsOK
    <2>2. CASE code[s] = "approved"
      <3>1. /\ poll' = [poll EXCEPT ![p].pc = "completed"]
            /\ code' = [code EXCEPT ![s] = "spent"]
            /\ honoured' = [honoured EXCEPT ![s] = 1]
        BY <1>13, <2>2 DEF Answer
      <3>2. /\ \A q \in Polls : q # p => poll'[q] = poll[q]
            /\ poll'[p].pc = "completed" /\ poll'[p].session = s
            /\ \A l \in Logins : l # s => code'[l] = code[l] /\ honoured'[l] = honoured[l]
            /\ code'[s] = "spent" /\ honoured'[s] = 1
        BY <1>a, <2>1, <3>1 DEF PollsOK, SessionsOK, StoreOK, PollType
      <3>3. shape = "vault" \/ Unused(s)
        BY <1>a, <2>1, <2>2 DEF Fresh, KnownShapes
      <3>4. \A l \in Logins : Unused(l)' <=> Unused(l)
        BY <2>1 DEF Unused
      <3> HIDE DEF s
      <3> QED BY <1>a, <1>v, <2>1, <2>2, <3>2, <3>3, <3>4 DEF Fresh
    <2>3. CASE code[s] # "approved"
      <3>1. UNCHANGED <<code, honoured>>
        BY <1>13, <2>3 DEF Answer
      <3>2. \A q \in Polls : poll'[q].pc = "completed" =>
              poll[q].pc = "completed" /\ poll'[q].session = poll[q].session
        BY <1>a, <1>13, <2>1, <2>3, Idle DEF Answer, PollsOK, PollType
      <3> QED BY <1>a, <2>1, <3>1, <3>2 DEF Fresh, Unused
    <2> QED BY <2>2, <2>3
  <1>14. ASSUME NEW p \in Polls, EndPoll(p) PROVE Fresh'
    <2> DEFINE s == poll[p].session
    <2>1. /\ UNCHANGED <<shape, honoured, job, code>> /\ s \in Logins
          /\ poll' = [poll EXCEPT ![p] = IdlePoll]
      BY <1>a, <1>14 DEF EndPoll, PollsOK
    <2>2. \A q \in Polls : poll'[q].pc = "completed" => poll'[q] = poll[q] /\ q # p
      BY <1>a, <2>1, Idle DEF PollsOK
    <2>3. CASE UNCHANGED refresh
      BY <1>a, <2>1, <2>2, <2>3 DEF Fresh, Unused
    <2>4. CASE poll[p].pc = "completed" /\ refresh' = [login |-> s, gen |-> 1]
      <3>1. \A l \in Logins : l # s /\ Unused(l) => Unused(l)'
        BY <2>1, <2>4 DEF Unused
      <3>2. code[s] = "spent" /\ \A q \in Polls : q # p /\ poll[q].pc = "completed" => poll[q].session # s
        BY <1>a, <2>1, <2>4 DEF Fresh
      <3> HIDE DEF s
      <3> QED BY <1>a, <2>1, <2>2, <3>1, <3>2 DEF Fresh
    <2> QED BY <1>14, <2>3, <2>4 DEF EndPoll, store
  <1>15. CASE Logout
    BY <1>a, <1>i, <1>15 DEF Logout, Fresh, Unused, sessions
  <1>16. CASE SupervisorExit
    <2>1. UNCHANGED <<shape, refresh, honoured, code>>
      BY <1>16 DEF SupervisorExit, store
    <2>2. \A q \in Polls : poll'[q].pc = "idle"
      BY <1>16, Idle DEF SupervisorExit
    <2>3. \A i \in Jobs : job'[i] \in {job[i], IdleJob}
      BY <1>16 DEF SupervisorExit
    <2>4. \A s \in Logins : Unused(s) => Unused(s)'
      BY <1>i, <2>1, <2>3 DEF Unused
    <2> QED BY <1>a, <2>1, <2>2, <2>4 DEF Fresh
  <1>17. CASE CooldownEnds \/ (\E s \in Logins : CreateSession(s)) \/ ComesDue \/ Boot
    BY <1>k, <1>17 DEF CooldownEnds, CreateSession, ComesDue, Boot, sessions, store
  <1>18. CASE UNCHANGED vars
    BY <1>18, <1>k DEF vars, store, sessions, history
  <1> QED
    BY <1>1, <1>2, <1>3, <1>4, <1>5, <1>6, <1>7, <1>8, <1>9, <1>10, <1>11,
       <1>12, <1>13, <1>14, <1>15, <1>16, <1>17, <1>18 DEF Next, JobStep

LEMMA NextAnswers == IInv /\ [Next]_vars => Answers'
  <1> SUFFICES ASSUME IInv, [Next]_vars PROVE Answers'
    OBVIOUS
  <1>a. IInv /\ Answers /\ Shaped /\ JobsOK /\ PollsOK /\ StoreOK
    BY Parts DEF IInv
  <1>d. (~crossed' => \A i \in Jobs : job'[i].pc = "idle") => Answers'
    BY DEF Answers, AnswerOf
  <1>s. ASSUME NEW j \in Jobs, ~crossed' => \A i \in Jobs : i # j => job'[i].pc = "idle",
               ~crossed' => AnswerOf(j)'
        PROVE  Answers'
    BY <1>s DEF Answers, AnswerOf
  <1>k. (/\ UNCHANGED <<refresh, honoured>> /\ (~crossed' => ~crossed) /\ access'.login = access.login
         /\ \A i \in Jobs : job'[i] \in {job[i], IdleJob}) => Answers'
    BY <1>a, Idle DEF Answers, AnswerOf, Rotated
  <1>1. ASSUME NEW t \in Ticks, Tick(t) PROVE Answers'
    <2>1. ~crossed' => AllIdle
      BY <1>1, Quiet, <1>a
    <2>2. UNCHANGED refresh /\ \A i \in Jobs : i # t => job'[i] = job[i]
      BY <1>a, <1>1 DEF Tick, JobsOK, store
    <2>3. \/ job'[t].pc = "sending" /\ job'[t].copy = refresh
          \/ job'[t].pc = "listed"
      BY <1>a, <1>1, Apart DEF Tick, JobsOK, IdleJob
    <2> QED BY <1>s, <2>1, <2>2, <2>3, Apart DEF AllIdle, AnswerOf
  <1>2. ASSUME NEW j \in Jobs, ReadCompanion(j) PROVE Answers'
    <2>1. ~crossed' => ~crossed
      BY <1>2 DEF ReadCompanion, history
    <2>2. \A i \in Jobs : i # j => job'[i] = job[i]
      BY <1>a, <1>2 DEF ReadCompanion, JobsOK, Ends, To
    <2>3. job[j].pc # "idle"
      BY <1>2 DEF ReadCompanion
    <2>4. ~crossed' => \A i \in Jobs : i # j => job[i].pc = "idle" /\ job'[i].pc = "idle"
      BY <1>a, <2>1, <2>2, <2>3, Solo
    <2>5. UNCHANGED refresh /\ job'[j].pc = "sending" /\ job'[j].copy = refresh
      BY <1>a, <1>2 DEF ReadCompanion, JobsOK, JobType, store
    <2> QED BY <1>s, <2>4, <2>5 DEF AnswerOf
  <1>3. ASSUME NEW j \in Jobs, Exchange(j) PROVE Answers'
    <2>1. ~crossed' => ~crossed
      BY <1>3 DEF Exchange, history
    <2>2. \A i \in Jobs : i # j => job'[i] = job[i]
      BY <1>a, <1>3 DEF Exchange, JobsOK, Ends, To
    <2>3. job[j].pc # "idle"
      BY <1>3 DEF Exchange
    <2>4. ~crossed' => \A i \in Jobs : i # j => job[i].pc = "idle" /\ job'[i].pc = "idle"
      BY <1>a, <2>1, <2>2, <2>3, Solo
    <2>5. CASE Ends(j)
      BY <1>a, <1>d, <2>4, <2>5, Idle DEF Ends, JobsOK
    <2>6. CASE ~Ends(j)
      <3>1. PICK g \in {job[j].copy.gen, job[j].copy.gen + 1} :
              /\ honoured' = [honoured EXCEPT ![job[j].copy.login] = g] /\ job[j].copy # NoToken
              /\ job' = [job EXCEPT ![j].pc = "answered",
                     ![j].reply = [job[j].copy EXCEPT !.gen = IF g = job[j].copy.gen THEN 0 ELSE g]]
        BY <1>3, <2>6 DEF Exchange
      <3>2. job[j] \in JobType /\ job[j].copy \in Token /\ UNCHANGED refresh
        BY <1>a, <1>3, <3>1 DEF Exchange, JobsOK, JobType, store
      <3>3. /\ job'[j].pc = "answered" /\ job'[j].copy = job[j].copy
            /\ job'[j].reply.login = job[j].copy.login
            /\ job'[j].reply.gen = IF g = job[j].copy.gen THEN 0 ELSE g
            /\ honoured'[job[j].copy.login] = g
        BY <1>a, <3>1, <3>2 DEF JobsOK, JobType, Token, StoreOK
      <3>4. ~crossed' => job[j].copy = refresh
        BY <1>a, <1>3, <2>1 DEF Answers, AnswerOf, Exchange
      <3>5. ~crossed' => AnswerOf(j)'
        BY <3>2, <3>3, <3>4, TokenAssumption DEF AnswerOf, Rotated, Token, TokenAssumption
      <3> QED BY <1>s, <2>4, <3>5
    <2> QED BY <2>5, <2>6
  <1>4. ASSUME NEW j \in Jobs, Store(j) PROVE Answers'
    <2>1. ~crossed' => ~crossed
      BY <1>4 DEF Store, history
    <2>2. \A i \in Jobs : i # j => job'[i] = job[i]
      BY <1>a, <1>4 DEF Store, JobsOK, Ends, To
    <2>3. job[j].pc # "idle"
      BY <1>4 DEF Store
    <2>4. ~crossed' => \A i \in Jobs : i # j => job[i].pc = "idle" /\ job'[i].pc = "idle"
      BY <1>a, <2>1, <2>2, <2>3, Solo
    <2>5. CASE Ends(j)
      BY <1>a, <1>d, <2>4, <2>5, Idle DEF Ends, JobsOK
    <2>6. CASE ~Ends(j)
      <3>1. To(j, "half") /\ Rotated(j) /\ access' = [login |-> job[j].reply.login, due |-> FALSE]
            /\ UNCHANGED honoured
        BY <1>4, <2>6 DEF Store
      <3>2. job'[j].pc = "half" /\ job'[j].reply = job[j].reply
        BY <1>a, <3>1 DEF To, JobsOK, JobType
      <3>3. ~crossed' => AnswerOf(j)'
        BY <1>a, <1>4, <2>1, <3>1, <3>2 DEF Answers, AnswerOf, Rotated, Store
      <3> QED BY <1>s, <2>4, <3>3
    <2> QED BY <2>5, <2>6
  <1>5. ASSUME NEW j \in Jobs, StoreCompanion(j) PROVE Answers'
    <2>1. ~crossed' => ~crossed
      BY <1>5 DEF StoreCompanion, history
    <2>2. \A i \in Jobs : i # j => job'[i] = job[i]
      BY <1>a, <1>5 DEF StoreCompanion, JobsOK, Ends, To
    <2>3. job[j].pc # "idle"
      BY <1>5 DEF StoreCompanion
    <2>4. ~crossed' => \A i \in Jobs : i # j => job[i].pc = "idle" /\ job'[i].pc = "idle"
      BY <1>a, <2>1, <2>2, <2>3, Solo
    <2>5. job'[j].pc = "idle"
      BY <1>a, <1>5, Idle DEF StoreCompanion, Ends, JobsOK
    <2> QED BY <1>d, <2>4, <2>5
  <1>6. ASSUME NEW j \in Jobs, GivesUp(j) PROVE Answers'
    <2>1. ~crossed' => ~crossed
      BY <1>6 DEF GivesUp, history
    <2>2. \A i \in Jobs : i # j => job'[i] = job[i]
      BY <1>a, <1>6 DEF GivesUp, JobsOK, Ends, To
    <2>3. job[j].pc # "idle"
      BY <1>6 DEF GivesUp
    <2>4. ~crossed' => \A i \in Jobs : i # j => job[i].pc = "idle" /\ job'[i].pc = "idle"
      BY <1>a, <2>1, <2>2, <2>3, Solo
    <2>5. job'[j].pc = "idle"
      BY <1>a, <1>6, Idle DEF GivesUp, Ends, JobsOK
    <2> QED BY <1>d, <2>4, <2>5
  <1>7. CASE RefreshCommand
    <2>1. ~crossed' => AllIdle
      BY <1>7, Quiet, <1>a
    <2>2. /\ UNCHANGED refresh /\ \A i \in Jobs : i # "refresh" => job'[i] = job[i]
          /\ job'["refresh"].pc = "sending" /\ job'["refresh"].copy = refresh
      BY <1>a, <1>7, Apart DEF RefreshCommand, JobsOK, store, IdleJob
    <2> QED BY <1>s, <2>1, <2>2, Apart DEF AllIdle, AnswerOf
  <1>8. ASSUME NEW s \in Logins, LoginCommand(s) PROVE Answers'
    <2>1. ~crossed' => AllIdle
      BY <1>8, Quiet, <1>a
    <2>2. /\ \A i \in Jobs : i # "login" => job'[i] = job[i]
          /\ job'["login"].pc = "answered" /\ job'["login"].reply = [login |-> s, gen |-> 1]
          /\ honoured'[s] = 1
      BY <1>a, <1>8, Apart DEF LoginCommand, JobsOK, StoreOK, IdleJob
    <2> QED BY <1>s, <2>1, <2>2, Apart DEF AllIdle, AnswerOf, Rotated
  <1>9. ASSUME NEW p \in Polls, Answer(p) PROVE Answers'
    <2>1. UNCHANGED job
      BY <1>9 DEF Answer
    <2>2. CASE poll'[p].pc = "completed"
      BY <1>a, <1>d, <1>9, <2>1, <2>2, Quiet DEF AllIdle
    <2>3. CASE poll'[p].pc # "completed"
      <3>1. UNCHANGED <<access, refresh, honoured>>
        BY <1>a, <1>9, <2>3 DEF Answer, store, PollsOK, PollType
      <3>2. ~crossed' => ~crossed
        BY <1>a, <1>9, Quiet
      <3> QED BY <1>k, <2>1, <3>1, <3>2
    <2> QED BY <2>2, <2>3
  <1>10. ASSUME NEW p \in Polls, EndPoll(p) PROVE Answers'
    <2>1. UNCHANGED <<job, honoured>>
      BY <1>10 DEF EndPoll
    <2>2. CASE crossed'
      BY <2>2 DEF Answers
    <2>3. CASE \A i \in Jobs : job[i].pc = "idle"
      BY <1>d, <2>1, <2>3
    <2>4. CASE ~crossed /\ UNCHANGED <<access, refresh>>
      BY <1>k, <2>1, <2>4
    <2> QED BY <1>a, <1>10, <2>2, <2>3, <2>4, EndsAlone
  <1>11. CASE Logout
    BY <1>a, <1>d, <1>11, Quiet DEF Logout, AllIdle
  <1>12. CASE ComesDue
    <2>1. access'.login = access.login
      BY <1>a, <1>12 DEF ComesDue, StoreOK, Access
    <2> QED BY <1>k, <1>12, <2>1 DEF ComesDue, history
  <1>13. CASE SupervisorExit
    BY <1>k, <1>13 DEF SupervisorExit, store
  <1>14. CASE CooldownEnds \/ (\E s \in Logins : StartSession(s))
             \/ (\E s \in Logins : CreateSession(s)) \/ (\E s \in Logins : Decide(s))
             \/ (\E s \in Logins : SessionExpires(s))
             \/ (\E s \in Logins, p \in Polls : Poll(p, s)) \/ Boot
    BY <1>k, <1>14 DEF CooldownEnds, StartSession, CreateSession, Decide, SessionExpires, Poll,
        Boot, store,
          sessions, history
  <1>15. CASE UNCHANGED vars
    BY <1>15, <1>k DEF vars, store, sessions, history
  <1> QED
    BY <1>1, <1>2, <1>3, <1>4, <1>5, <1>6, <1>7, <1>8, <1>9, <1>10, <1>11,
       <1>12, <1>13, <1>14, <1>15 DEF Next, JobStep

\* What holds of the stored tokens when nothing has been lost.
Line ==
    refresh # NoToken =>
        /\ (\A j \in Jobs : ~Owes(j)) => honoured[refresh.login] = refresh.gen
        /\ access # NoAccess /\ (\A j \in Jobs : job[j].pc # "half") => access.login = refresh.login

LEMMA NextHeld == IInv /\ [Next]_vars => Held'
  <1> SUFFICES ASSUME IInv, [Next]_vars PROVE Held'
    OBVIOUS
  <1>a. IInv /\ Held /\ Answers /\ Shaped /\ JobsOK /\ PollsOK /\ StoreOK /\ Fresh
    BY Parts DEF IInv
  <1>h. (~lost /\ ~crossed => Line) /\ ((~lost' /\ ~crossed' => Line') => Held')
    BY <1>a, Zenon DEF Held, Line
  <1>k. ASSUME ~lost' /\ ~crossed' => ~lost /\ ~crossed, UNCHANGED <<refresh, honoured>>,
               access' # NoAccess => access # NoAccess /\ access'.login = access.login,
               \A i \in Jobs : /\ job'[i].pc = "half" \/ Owes(i)' => job'[i] = job[i]
                               /\ ~lost' /\ ~crossed' /\ (job[i].pc = "half" \/ Owes(i)) => job'[i] = job[i]
        PROVE  Held'
    <2>1. \A i \in Jobs : job'[i] = job[i] => (Owes(i)' <=> Owes(i))
      BY DEF Owes, Rotated
    <2>2. CASE lost' \/ crossed'
      BY <1>h, <2>2
    <2>3. CASE ~lost' /\ ~crossed'
      <3>1. Line
        BY <1>h, <1>k, <2>3
      <3>2. refresh # NoToken /\ (\A i \in Jobs : ~Owes(i)') => honoured[refresh.login] = refresh.gen
        <4>1. ASSUME \A i \in Jobs : ~Owes(i)', NEW i \in Jobs PROVE ~Owes(i)
          BY <1>k, <2>1, <2>3, <4>1
        <4> QED BY <3>1, <4>1 DEF Line
      <3>3. refresh # NoToken /\ access' # NoAccess /\ (\A i \in Jobs : job'[i].pc # "half")
              => access'.login = refresh.login
        <4>1. ASSUME \A i \in Jobs : job'[i].pc # "half", NEW i \in Jobs PROVE job[i].pc # "half"
          BY <1>k, <2>3, <4>1
        <4> QED BY <1>k, <2>3, <3>1, <4>1 DEF Line
      <3>4. Line'
        BY <1>k, <3>2, <3>3 DEF Line
      <3> QED BY <1>h, <2>3, <3>4
    <2> QED BY <2>2, <2>3
  <1>i. \A i \in Jobs : job[i].pc \notin {"half", "answered"} => ~Owes(i)
    BY DEF Owes
  <1>p. \A i \in Jobs : job'[i].pc \notin {"half", "answered"} => ~Owes(i)'
    BY DEF Owes
  <1>1. ASSUME NEW t \in Ticks, Tick(t) PROVE Held'
    <2>1. /\ UNCHANGED <<access, refresh, honoured>> /\ (~lost' => ~lost)
          /\ \A i \in Jobs : i # t => job'[i] = job[i]
          /\ job[t].pc = "idle" /\ job'[t].pc \in {"sending", "listed"}
      BY <1>a, <1>1, Apart DEF Tick, JobsOK, store, IdleJob
    <2>2. ~crossed' => ~crossed
      BY <1>a, <1>1, Quiet
    <2> QED BY <1>k, <1>i, <1>p, <2>1, <2>2
  <1>2. ASSUME NEW j \in Jobs, ReadCompanion(j) PROVE Held'
    <2>1. /\ UNCHANGED <<access, refresh, honoured, lost, crossed>>
          /\ \A i \in Jobs : i # j => job'[i] = job[i]
          /\ job[j].pc = "listed" /\ job'[j].pc = "sending"
      BY <1>a, <1>2 DEF ReadCompanion, JobsOK, JobType, store, history
    <2> QED BY <1>k, <1>i, <1>p, <2>1
  <1>3. ASSUME NEW j \in Jobs, Exchange(j) PROVE Held'
    <2>1. ~crossed' => ~crossed
      BY <1>3 DEF Exchange, history
    <2>2. \A i \in Jobs : i # j => job'[i] = job[i]
      BY <1>a, <1>3 DEF Exchange, JobsOK, Ends, To
    <2>3. job[j].pc # "idle"
      BY <1>3 DEF Exchange
    <2>4. ~crossed' => \A i \in Jobs : i # j => job[i].pc = "idle" /\ job'[i].pc = "idle"
      BY <1>a, <2>1, <2>2, <2>3, Solo
    <2>5. UNCHANGED <<access, refresh>> /\ job[j].pc = "sending" /\ (~crossed' => job[j].copy = refresh)
      BY <1>a, <1>3, <2>1 DEF Exchange, store, Answers, AnswerOf
    <2>6. ~crossed' /\ ~lost' => ~lost /\ ~crossed
      <3>1. lost' = lost \/ \E b : lost' = (lost \/ b)
        BY <1>3 DEF Exchange
      <3> QED BY <2>1, <3>1, Zenon
    <2>7. CASE Ends(j) /\ UNCHANGED honoured
      BY <1>a, <1>k, <1>i, <1>p, <2>2, <2>5, <2>6, <2>7, Idle DEF Ends, JobsOK
    <2>8. CASE \E g : /\ honoured' = [honoured EXCEPT ![job[j].copy.login] = g]
                      /\ honoured[job[j].copy.login] = job[j].copy.gen
                      /\ Ends(j) /\ lost' = (lost \/ g # job[j].copy.gen)
      <3>1. PICK g : /\ honoured' = [honoured EXCEPT ![job[j].copy.login] = g]
                     /\ honoured[job[j].copy.login] = job[j].copy.gen
                     /\ Ends(j) /\ lost' = (lost \/ g # job[j].copy.gen)
        BY <2>8
      <3>2. ~lost' => g = job[j].copy.gen
        BY <3>1, Zenon
      <3>3. ~lost' => honoured' = honoured
        BY <1>a, <3>1, <3>2 DEF StoreOK
      <3>4. \A i \in Jobs : ~lost' /\ ~crossed' => job'[i].pc = "idle"
        BY <1>a, <2>4, <3>1, Idle DEF Ends, JobsOK
      <3>5. ~lost' /\ ~crossed' => Line'
        BY <1>h, <1>i, <2>4, <2>5, <2>6, <3>3, <3>4 DEF Line
      <3> QED BY <1>h, <3>5
    <2>9. CASE \E g \in {job[j].copy.gen, job[j].copy.gen + 1} :
              /\ honoured' = [honoured EXCEPT ![job[j].copy.login] = g] /\ job[j].copy # NoToken
              /\ honoured[job[j].copy.login] = job[j].copy.gen
              /\ job' = [job EXCEPT ![j].pc = "answered",
                     ![j].reply = [job[j].copy EXCEPT !.gen = IF g = job[j].copy.gen THEN 0 ELSE g]]
      <3>1. PICK g \in {job[j].copy.gen, job[j].copy.gen + 1} :
              /\ honoured' = [honoured EXCEPT ![job[j].copy.login] = g] /\ job[j].copy # NoToken
              /\ honoured[job[j].copy.login] = job[j].copy.gen
              /\ job' = [job EXCEPT ![j].pc = "answered",
                     ![j].reply = [job[j].copy EXCEPT !.gen = IF g = job[j].copy.gen THEN 0 ELSE g]]
        BY <2>9
      <3>2. job[j] \in JobType /\ job[j].copy \in Token
        BY <1>a, <3>1 DEF JobsOK, JobType
      <3>3. /\ job'[j].pc = "answered" /\ job'[j].copy = job[j].copy
            /\ job'[j].reply.gen = IF g = job[j].copy.gen THEN 0 ELSE g
        BY <1>a, <3>1, <3>2 DEF JobsOK, JobType, Token
      <3>4. g # job[j].copy.gen => Owes(j)'
        BY <3>1, <3>2, <3>3 DEF Owes, Rotated, Token
      <3>5. g = job[j].copy.gen => honoured' = honoured
        BY <1>a, <3>1 DEF StoreOK
      <3>6. ~lost' /\ ~crossed' => Line'
        BY <1>h, <1>i, <2>4, <2>5, <2>6, <3>3, <3>4, <3>5 DEF Line
      <3> QED BY <1>h, <3>6
    <2> QED BY <1>3, <2>7, <2>8, <2>9 DEF Exchange
  <1>4. ASSUME NEW j \in Jobs, Store(j) PROVE Held'
    <2>1. ~crossed' => ~crossed
      BY <1>4 DEF Store, history
    <2>2. \A i \in Jobs : i # j => job'[i] = job[i]
      BY <1>a, <1>4 DEF Store, JobsOK, Ends, To
    <2>3. job[j].pc # "idle"
      BY <1>4 DEF Store
    <2>4. ~crossed' => \A i \in Jobs : i # j => job[i].pc = "idle" /\ job'[i].pc = "idle"
      BY <1>a, <2>1, <2>2, <2>3, Solo
    <2>5. /\ UNCHANGED <<honoured, lost, crossed>> /\ job[j].pc = "answered"
          /\ access' = [login |-> job[j].reply.login, due |-> FALSE]
      BY <1>4 DEF Store, history
    <2>6. ~crossed' => AnswerOf(j) /\ job[j] \in JobType
      BY <1>a, <2>1 DEF Answers, JobsOK
    <2>7. CASE Ends(j) /\ refresh' = Kept(j)
      <3>1. ~crossed' => \A i \in Jobs : job'[i].pc = "idle"
        BY <1>a, <2>4, <2>7, Idle DEF Ends, JobsOK
      <3>2. ~crossed' => honoured[refresh'.login] = refresh'.gen /\ refresh'.login = job[j].reply.login
        BY <2>5, <2>6, <2>7 DEF Kept, AnswerOf
      <3>3. ~lost' /\ ~crossed' => Line'
        BY <2>5, <3>1, <3>2 DEF Line
      <3> QED BY <1>h, <3>3
    <2>8. CASE Ends(j) /\ UNCHANGED refresh /\ ~Rotated(j)
      <3>1. ~crossed' => \A i \in Jobs : job'[i].pc = "idle"
        BY <1>a, <2>4, <2>8, Idle DEF Ends, JobsOK
      <3>2. ~crossed' => honoured[refresh.login] = refresh.gen /\ refresh.login = job[j].reply.login
        BY <2>5, <2>6, <2>8 DEF AnswerOf
      <3>3. ~lost' /\ ~crossed' => Line'
        BY <2>5, <2>8, <3>1, <3>2 DEF Line
      <3> QED BY <1>h, <3>3
    <2>9. CASE To(j, "half") /\ UNCHANGED refresh /\ Rotated(j)
      <3>1. job'[j].pc = "half" /\ job'[j].reply = job[j].reply /\ job'[j].copy = job[j].copy
        BY <1>a, <2>9 DEF To, JobsOK, JobType
      <3>2. Owes(j)' <=> Owes(j)
        BY <2>5, <3>1 DEF Owes, Rotated
      <3>3. ~lost' /\ ~crossed' => Line'
        BY <1>h, <1>i, <2>4, <2>5, <2>9, <3>1, <3>2 DEF Line
      <3> QED BY <1>h, <3>3
    <2> QED BY <1>4, <2>7, <2>8, <2>9 DEF Store
  <1>5. ASSUME NEW j \in Jobs, StoreCompanion(j) PROVE Held'
    <2>1. ~crossed' => ~crossed
      BY <1>5 DEF StoreCompanion, history
    <2>2. \A i \in Jobs : i # j => job'[i] = job[i]
      BY <1>a, <1>5 DEF StoreCompanion, JobsOK, Ends, To
    <2>3. job[j].pc # "idle"
      BY <1>5 DEF StoreCompanion
    <2>4. ~crossed' => \A i \in Jobs : i # j => job[i].pc = "idle" /\ job'[i].pc = "idle"
      BY <1>a, <2>1, <2>2, <2>3, Solo
    <2>5. /\ UNCHANGED <<access, honoured>> /\ refresh' = job[j].reply /\ job[j].pc = "half"
          /\ job' = [job EXCEPT ![j] = IdleJob]
      BY <1>5 DEF StoreCompanion, Companion, Ends
    <2>6. ~crossed' => AnswerOf(j) /\ job[j].reply \in Token
      BY <1>a, <2>1, <2>5 DEF Answers, JobsOK
    <2>7. job[j].reply \in Token => Rotated(j)
      BY DEF Rotated, Token
    <2>8. ~crossed' => \A i \in Jobs : job'[i].pc = "idle"
      BY <1>a, <2>4, <2>5, Idle DEF JobsOK
    <2>9. ~lost' /\ ~crossed' => Line'
      BY <2>5, <2>6, <2>7, <2>8 DEF Line, AnswerOf
    <2> QED BY <1>h, <2>9
  <1>6. ASSUME NEW j \in Jobs, GivesUp(j) PROVE Held'
    <2>1. lost' = (lost \/ Spoils(j)) /\ UNCHANGED <<access, refresh, honoured, crossed>>
          /\ job' = [job EXCEPT ![j] = IdleJob]
      BY <1>6 DEF GivesUp, store, Ends
    <2>2. ~lost' => ~lost /\ ~Spoils(j)
      BY <2>1, Zenon
    <2>3. ~Spoils(j) => job[j].pc # "half" /\ ~Owes(j)
      BY DEF Spoils, Owes
    <2>4. \A i \in Jobs : i # j => job'[i] = job[i]
      BY <2>1, <1>a DEF JobsOK
    <2>5. job'[j].pc = "idle"
      BY <2>1, <1>a, Idle DEF JobsOK
    <2> QED BY <1>k, <1>p, <2>1, <2>2, <2>3, <2>4, <2>5
  <1>7. CASE RefreshCommand
    <2>1. /\ UNCHANGED <<access, refresh, honoured>> /\ (~lost' => ~lost)
          /\ \A i \in Jobs : i # "refresh" => job'[i] = job[i]
          /\ job["refresh"].pc = "idle" /\ job'["refresh"].pc = "sending"
      BY <1>a, <1>7, Apart DEF RefreshCommand, JobsOK, store, IdleJob
    <2>2. ~crossed' => ~crossed
      BY <1>a, <1>7, Quiet
    <2> QED BY <1>k, <1>i, <1>p, <2>1, <2>2
  <1>8. ASSUME NEW s \in Logins, LoginCommand(s) PROVE Held'
    <2>1. /\ UNCHANGED <<access, refresh>> /\ (~lost' => ~lost)
          /\ \A i \in Jobs : i # "login" => job'[i] = job[i]
          /\ job'["login"].pc = "answered" /\ job'["login"].copy = NoToken
          /\ honoured[s] = 0 /\ honoured' = [honoured EXCEPT ![s] = 1]
      BY <1>a, <1>8, Apart DEF LoginCommand, JobsOK, store, IdleJob
    <2>2. ~crossed' => ~crossed /\ AllIdle
      BY <1>a, <1>8, Quiet
    <2>3. ~crossed' => \A i \in Jobs : ~Owes(i) /\ ~Owes(i)' /\ job[i].pc # "half"
      BY <1>i, <1>p, <2>1, <2>2 DEF AllIdle, Owes
    <2>4. ~lost' /\ ~crossed' /\ refresh # NoToken => honoured[refresh.login] = refresh.gen /\ refresh \in Token
      BY <1>a, <1>h, <2>1, <2>2, <2>3 DEF Line, StoreOK
    <2>5. ~lost' /\ ~crossed' /\ refresh # NoToken => honoured'[refresh.login] = refresh.gen
      BY <1>a, <2>1, <2>4 DEF StoreOK, Token
    <2>6. ~lost' /\ ~crossed' => Line'
      BY <1>h, <2>1, <2>2, <2>3, <2>5 DEF Line
    <2> QED BY <1>h, <2>6
  <1>9. ASSUME NEW p \in Polls, Answer(p) PROVE Held'
    <2>1. UNCHANGED <<access, refresh, job, lost>>
      BY <1>9 DEF Answer, store
    <2>2. CASE poll'[p].pc # "completed"
      <3>1. UNCHANGED honoured
        BY <1>a, <1>9, <2>2 DEF Answer, PollsOK, PollType
      <3>2. ~crossed' => ~crossed
        BY <1>a, <1>9, Quiet
      <3>3. \A i \in Jobs : Owes(i)' <=> Owes(i)
        BY <2>1 DEF Owes, Rotated
      <3> QED BY <1>h, <2>1, <3>1, <3>2, <3>3 DEF Line
    <2>3. CASE poll'[p].pc = "completed"
      <3> DEFINE s == poll[p].session
      <3>1. s \in Logins /\ code[s] = "approved" /\ honoured' = [honoured EXCEPT ![s] = 1]
        BY <1>a, <1>9, <2>3, Idle DEF Answer, PollsOK, PollType
      <3>2. shape = "fleet"
        BY <1>a, <1>9, TokenAssumption DEF Answer, Shaped, TokenAssumption, IInv, TypeOK,
            KnownShapes
      <3>3. refresh.login # s
        BY <1>a, <3>1, <3>2 DEF Fresh, Unused
      <3> HIDE DEF s
      <3>4. refresh # NoToken => honoured'[refresh.login] = honoured[refresh.login]
        BY <1>a, <3>1, <3>3 DEF StoreOK
      <3>5. ~crossed' => ~crossed
        BY <1>a, <1>9, Quiet
      <3>6. \A i \in Jobs : Owes(i)' <=> Owes(i)
        BY <2>1 DEF Owes, Rotated
      <3> QED BY <1>h, <2>1, <3>4, <3>5, <3>6 DEF Line
    <2> QED BY <2>2, <2>3
  <1>10. ASSUME NEW p \in Polls, EndPoll(p) PROVE Held'
    <2>1. UNCHANGED <<job, honoured>>
      BY <1>10 DEF EndPoll
    <2>2. CASE crossed'
      BY <2>2, <1>h
    <2>3. CASE /\ poll[p].pc = "completed"
               /\ access' = [login |-> poll[p].session, due |-> FALSE]
               /\ refresh' = [login |-> poll[p].session, gen |-> 1]
      <3>1. honoured[poll[p].session] = 1
        BY <1>a, <2>3 DEF Fresh, PollsOK
      <3> QED BY <1>h, <2>1, <2>3, <3>1 DEF Line
    <2>4. CASE ~crossed /\ UNCHANGED <<access, refresh, lost>>
      <3>1. \A i \in Jobs : Owes(i)' <=> Owes(i)
        BY <2>1 DEF Owes, Rotated
      <3> QED BY <1>h, <2>1, <2>4, <3>1 DEF Line
    <2> QED BY <1>a, <1>10, <2>2, <2>3, <2>4, EndsAlone
  <1>11. CASE Logout
    BY <1>h, <1>11 DEF Logout, Line
  <1>12. CASE ComesDue
    <2>1. access # NoAccess /\ access'.login = access.login
      BY <1>a, <1>12 DEF ComesDue, StoreOK, Access
    <2> QED BY <1>k, <1>12, <2>1 DEF ComesDue, history
  <1>13. CASE SupervisorExit
    <2>1. /\ UNCHANGED <<access, refresh, honoured, crossed>>
          /\ lost' = (lost \/ \E t \in Ticks : Spoils(t))
          /\ \A i \in Jobs : job'[i] = IF i \in Ticks THEN IdleJob ELSE job[i]
      BY <1>13 DEF SupervisorExit, store
    <2>2. ~lost' => ~lost /\ \A t \in Ticks : ~Spoils(t)
      BY <2>1, Zenon
    <2>3. \A t \in Jobs : ~Spoils(t) => job[t].pc # "half" /\ ~Owes(t)
      BY DEF Spoils, Owes
    <2> QED BY <1>k, <1>p, <2>1, <2>2, <2>3, Idle
  <1>14. CASE CooldownEnds \/ (\E s \in Logins : StartSession(s))
             \/ (\E s \in Logins : CreateSession(s)) \/ (\E s \in Logins : Decide(s))
             \/ (\E s \in Logins : SessionExpires(s))
             \/ (\E s \in Logins, p \in Polls : Poll(p, s)) \/ Boot
    BY <1>k, <1>14 DEF CooldownEnds, StartSession, CreateSession, Decide, SessionExpires, Poll,
        Boot, store,
          sessions, history
  <1>15. CASE UNCHANGED vars
    BY <1>15, <1>k DEF vars, store, sessions, history
  <1> QED
    BY <1>1, <1>2, <1>3, <1>4, <1>5, <1>6, <1>7, <1>8, <1>9, <1>10, <1>11,
       <1>12, <1>13, <1>14, <1>15 DEF Next, JobStep

-----------------------------------------------------------------------------
\* The conjuncts of IInv together are inductive.
THEOREM Inductive == Spec => []IInv
  <1>1. IInv /\ [Next]_vars => IInv'
    <2> SUFFICES ASSUME IInv, [Next]_vars PROVE IInv'
      OBVIOUS
    <2>1. StoreOK' /\ JobsOK' /\ PollsOK' /\ SessionsOK'
      BY NextStore, NextJobs, NextPolls
    <2>2. shape' \in Shapes /\ PastOK' /\ BitsOK'
      BY NextRest
    <2>3. (TypeOK /\ Filled)'
      BY <2>1, <2>2, Zenon DEF TypeOK, Filled, StoreOK, JobsOK, PollsOK, SessionsOK, PastOK,
          BitsOK, JobType, PollType
    <2>4. LateOnly' /\ CompletedIsSaved'
      BY NextLate
    <2>5. Shaped' /\ Alone' /\ Fresh' /\ Answers' /\ Held'
      BY NextShaped, NextAlone, NextFresh, NextAnswers, NextHeld
    <2> QED BY <2>3, <2>4, <2>5 DEF IInv
  <1> QED BY <1>1, InitInv, PTL DEF Spec

\* Every variable keeps its type: a refresh keeps the refresh token of a fleet
\* credential for which none was sent again.
THEOREM TypeCorrect == Spec => []TypeOK
  <1>1. IInv => TypeOK
    BY DEF IInv
  <1> QED BY <1>1, Inductive, PTL

\* Without a loss and without overlap the stored refresh token is the one the
\* provider honours, through any number of rotations, sign-ins and ticks.
THEOREM LineHolds == Spec => []LineageKept
  <1>1. IInv => LineageKept
    BY DEF IInv, Held, Owes, LineageKept, Settled
  <1> QED BY <1>1, Inductive, PTL

\* ... and the two files of a vault credential are of one sign-in.
THEOREM PairHolds == Spec => []OnePair
  <1>1. IInv => OnePair
    BY DEF IInv, Held, OnePair, Settled
  <1> QED BY <1>1, Inductive, PTL

\* Nobody is told of a completed sign-in whose tokens were not stored.
THEOREM CompletedMeansSaved == Spec => []CompletedIsSaved
  <1>1. IInv => CompletedIsSaved
    BY DEF IInv
  <1> QED BY <1>1, Inductive, PTL

\* A session's result stands, but for requests under way when it ended.
THEOREM ResultStands == Spec => TerminalSticks
  <1>1. IInv /\ [Next]_vars =>
          [\A s \in Logins : terminal[s] # "none" /\ terminal'[s] # terminal[s]
               => \E p \in late : poll[p].session = s]_vars
    <2> SUFFICES ASSUME IInv, Next, NEW s \in Logins, terminal[s] # "none", terminal'[s] # terminal[s]
                 PROVE  \E p \in late : poll[p].session = s
      OBVIOUS
    <2>a. LateOnly /\ SessionsOK /\ PollsOK
      BY Parts DEF IInv
    <2>1. PICK p \in Polls : EndPoll(p)
      BY DEF Next, JobStep, Tick, ReadCompanion, Exchange, Store, StoreCompanion, GivesUp,
          RefreshCommand, LoginCommand, CooldownEnds, StartSession, CreateSession,
         Decide, SessionExpires, Poll, Answer, Logout, ComesDue, Boot, SupervisorExit, sessions
    <2>2. poll[p].pc # "idle" /\ poll[p].session = s
      BY <2>a, <2>1 DEF EndPoll, Recorded, SessionsOK, PollsOK
    <2> QED BY <2>a, <2>2 DEF LateOnly
  <1> QED BY <1>1, Inductive, PTL DEF Spec, TerminalSticks
=============================================================================
