-------------------------- MODULE WebStartup_proofs --------------------------
(***************************************************************************)
(* Migrations: whatever starts together, dies or loses an answer, each     *)
(* migration runs once, and nobody serves without one of its own.  Whoever *)
(* migrates holds the lock, so nothing is recorded between the moment a    *)
(* version is found missing and the commit that records it.                *)
(*                                                                         *)
(* Accounts: the setup makes one administrator whoever races through it,   *)
(* and only a fault, or requests of one browser that overlap, leave a      *)
(* session behind that nobody holds.                                       *)
(*                                                                         *)
(* Both hold of vod-web, which serves requests once it has migrated.       *)
(***************************************************************************)
EXTENDS WebStartup, FiniteSetTheorems, TLAPS

\* Versions are numbers, and the next version of a process that has one to
\* run is among them.
LEMMA VersionFacts ==
  /\ Versions \subseteq Nat
  /\ \A p \in Processes : 1..Known[p] \subseteq Versions
BY MigrationAssumption DEF Versions

\* A process that is down is a process.
LEMMA DownFacts == Down \in Process /\ Down.phase = "down" /\ Down.next = 1
BY DEF Down, Process, Phases

\* Before anything ran there is nothing to be wrong about.
LEMMA InitHolds ==
  ASSUME MigrationInit
  PROVE  MigrationInv
<1>1. MigrationTypeOK
  BY MigrationAssumption, DownFacts DEF MigrationInit, MigrationTypeOK
<1>2. MigratorsHold /\ EachMigrationRunsOnce /\ RunningIsMigrated
  BY MigrationAssumption, DownFacts
     DEF MigrationInit, MigratorsHold, EachMigrationRunsOnce, RunningIsMigrated
<1>3. PassedAreRecorded
  BY MigrationAssumption, DownFacts DEF MigrationInit, PassedAreRecorded
<1>4. QED
  BY <1>1, <1>2, <1>3 DEF MigrationInv

-----------------------------------------------------------------------------
(* A commit, by the holder of the lock.                                     *)

\* What a commit changes in the database: its version becomes recorded, and
\* was run once.
LEMMA CommitFacts ==
  ASSUME MigrationInv, NEW p \in Processes, proc[p].phase = "run",
         Committed(proc[p].next)
  PROVE  /\ proc[p].next \in 1..Known[p]
         /\ recorded' = recorded \cup {proc[p].next}
         /\ recorded' \subseteq Versions
         /\ executed' \in [Versions -> Nat]
         /\ EachMigrationRunsOnce'
         /\ \A v \in recorded' : 1..v \subseteq recorded'
<1> DEFINE v == proc[p].next
<1>1. /\ v \in 1..(Known[p] + 1)
      /\ 1..(v - 1) \subseteq recorded
      /\ v <= Known[p]
      /\ v \notin recorded
  BY DEF MigrationInv, PassedAreRecorded
<1>2. v \in 1..Known[p] /\ v \in Versions
  BY <1>1, VersionFacts, MigrationAssumption
<1>3. /\ recorded' = recorded \cup {v}
      /\ executed' = [executed EXCEPT ![v] = @ + 1]
  BY DEF Committed
<1>4. recorded' \subseteq Versions /\ executed' \in [Versions -> Nat]
  BY <1>2, <1>3 DEF MigrationInv, MigrationTypeOK
<1>5. EachMigrationRunsOnce'
  BY <1>1, <1>2, <1>3 DEF MigrationInv, MigrationTypeOK, EachMigrationRunsOnce
<1>6. ASSUME NEW w \in recorded'
      PROVE  1..w \subseteq recorded'
  <2>1. CASE w \in recorded
    BY <2>1, <1>3 DEF MigrationInv, RunningIsMigrated
  <2>2. CASE w = v
    BY <2>2, <1>1, <1>2, <1>3, MigrationAssumption
  <2>3. QED
    BY <2>1, <2>2, <1>3
<1>7. QED
  BY <1>2, <1>3, <1>4, <1>5, <1>6

\* Nobody but the holder is about to run a version, so what others have
\* passed, and what they serve on, only grows.
LEMMA OthersAreElsewhere ==
  ASSUME MigrationInv, NEW p \in Processes, NEW q \in Processes, q # p,
         proc[p].phase \in {"migrate", "run"}
  PROVE  proc[q].phase \notin {"migrate", "run"}
BY DEF MigrationInv, MigratorsHold

-----------------------------------------------------------------------------
(* The steps.                                                               *)

\* A process that starts only asks for the lock.
LEMMA StartHolds ==
  ASSUME MigrationInv, NEW p \in Processes, Start(p)
  PROVE  MigrationInv'
BY DEF MigrationInv, Start, MigrationTypeOK, MigratorsHold, EachMigrationRunsOnce,
       RunningIsMigrated, PassedAreRecorded, Process, Phases

\* The lock goes to one process, and only when it is free.
LEMMA AcquireHolds ==
  ASSUME MigrationInv, NEW p \in Processes, Acquire(p)
  PROVE  MigrationInv'
<1>1. MigrationTypeOK' /\ EachMigrationRunsOnce' /\ RunningIsMigrated' /\ PassedAreRecorded'
  BY DEF MigrationInv, Acquire, MigrationTypeOK, EachMigrationRunsOnce,
         RunningIsMigrated, PassedAreRecorded, Process, Phases
<1>2. MigratorsHold'
  BY MigrationAssumption
     DEF MigrationInv, Acquire, MigrationTypeOK, MigratorsHold, Process, Phases
<1>3. QED
  BY <1>1, <1>2 DEF MigrationInv

\* Finding a version recorded or missing changes nobody's record.
LEMMA CheckHolds ==
  ASSUME MigrationInv, NEW p \in Processes, Check(p)
  PROVE  MigrationInv'
<1>1. /\ Known[p] \in Nat
      /\ proc[p].next \in 1..Known[p]
      /\ proc[p] \in Process
  BY MigrationAssumption DEF MigrationInv, Check, MigrationTypeOK, PassedAreRecorded
<1>2. CASE proc[p].next \in recorded
  <2>1. proc' = [proc EXCEPT ![p].next = @ + 1]
    BY <1>2 DEF Check
  <2>2. MigrationTypeOK' /\ MigratorsHold' /\ EachMigrationRunsOnce' /\ RunningIsMigrated'
    BY <2>1, <1>1 DEF MigrationInv, Check, MigrationTypeOK, MigratorsHold,
       EachMigrationRunsOnce, RunningIsMigrated, Process, Phases
  <2>3. PassedAreRecorded'
    BY <2>1, <1>1, <1>2 DEF MigrationInv, Check, MigrationTypeOK, PassedAreRecorded, Process
  <2>4. QED
    BY <2>2, <2>3 DEF MigrationInv
<1>3. CASE proc[p].next \notin recorded
  <2>1. proc' = [proc EXCEPT ![p].phase = "run"]
    BY <1>3 DEF Check
  <2>2. MigrationTypeOK' /\ MigratorsHold' /\ EachMigrationRunsOnce' /\ RunningIsMigrated'
    BY <2>1, <1>1 DEF MigrationInv, Check, MigrationTypeOK, MigratorsHold,
       EachMigrationRunsOnce, RunningIsMigrated, Process, Phases
  <2>3. PassedAreRecorded'
    BY <2>1, <1>1, <1>3 DEF MigrationInv, Check, MigrationTypeOK, PassedAreRecorded, Process
  <2>4. QED
    BY <2>2, <2>3 DEF MigrationInv
<1>4. QED
  BY <1>2, <1>3

\* Only the holder of the lock commits, and what it commits was missing.
LEMMA RunHolds ==
  ASSUME MigrationInv, NEW p \in Processes, Run(p)
  PROVE  MigrationInv'
<1> DEFINE v == proc[p].next
<1>1. proc[p].phase = "run" /\ Committed(v)
  BY DEF Run
<1>2. /\ v \in 1..Known[p]
      /\ recorded' = recorded \cup {v}
      /\ recorded' \subseteq Versions
      /\ executed' \in [Versions -> Nat]
      /\ EachMigrationRunsOnce'
      /\ \A w \in recorded' : 1..w \subseteq recorded'
  BY <1>1, CommitFacts
<1>3. /\ proc' = [proc EXCEPT ![p] = [phase |-> "migrate", next |-> v + 1]]
      /\ UNCHANGED <<holder, stops>>
  BY DEF Run, MigrationInv, MigrationTypeOK
<1>4. MigrationTypeOK'
  BY <1>2, <1>3, MigrationAssumption DEF MigrationInv, MigrationTypeOK, Process, Phases
<1>5. MigratorsHold'
  BY <1>1, <1>3 DEF MigrationInv, MigrationTypeOK, MigratorsHold
<1>6. RunningIsMigrated'
  BY <1>2, <1>3 DEF MigrationInv, MigrationTypeOK, RunningIsMigrated
<1>7. ASSUME NEW q \in Processes
      PROVE  /\ proc'[q].next \in 1..(Known[q] + 1)
             /\ 1..(proc'[q].next - 1) \subseteq recorded'
             /\ proc'[q].phase = "run" => proc'[q].next <= Known[q] /\ proc'[q].next \notin recorded'
  <2>1. CASE q = p
    <3>1. proc'[q] = [phase |-> "migrate", next |-> v + 1]
      BY <2>1, <1>3 DEF MigrationInv, MigrationTypeOK
    <3>2. 1..v \subseteq recorded'
      BY <1>2
    <3>3. QED
      BY <2>1, <3>1, <3>2, <1>2, MigrationAssumption
  <2>2. CASE q # p
    <3>1. proc'[q] = proc[q] /\ proc[q].phase # "run"
      BY <2>2, <1>1, <1>3, OthersAreElsewhere DEF MigrationInv, MigrationTypeOK
    <3>2. QED
      BY <3>1, <1>2 DEF MigrationInv, PassedAreRecorded
  <2>3. QED
    BY <2>1, <2>2
<1>8. PassedAreRecorded'
  BY <1>7 DEF PassedAreRecorded
<1>9. QED
  BY <1>2, <1>4, <1>5, <1>6, <1>8 DEF MigrationInv

\* Who releases the lock has passed all its versions.
LEMMA ReleaseHolds ==
  ASSUME MigrationInv, NEW p \in Processes, Release(p)
  PROVE  MigrationInv'
<1>1. /\ proc[p].next = Known[p] + 1
      /\ 1..Known[p] \subseteq recorded
  <2>1. /\ Known[p] \in Nat
        /\ proc[p].next \in 1..(Known[p] + 1)
        /\ proc[p].next > Known[p]
        /\ 1..(proc[p].next - 1) \subseteq recorded
    BY MigrationAssumption DEF MigrationInv, Release, PassedAreRecorded
  <2>2. proc[p].next = Known[p] + 1 /\ proc[p].next - 1 = Known[p]
    BY <2>1
  <2>3. QED
    BY <2>1, <2>2
<1>2. MigrationTypeOK' /\ EachMigrationRunsOnce'
  BY DEF MigrationInv, Release, MigrationTypeOK, EachMigrationRunsOnce, Process, Phases
<1>3. MigratorsHold'
  BY MigrationAssumption
     DEF MigrationInv, Release, MigrationTypeOK, MigratorsHold, Process, Phases
<1>4. RunningIsMigrated'
  BY <1>1 DEF MigrationInv, Release, MigrationTypeOK, RunningIsMigrated
<1>5. ASSUME NEW q \in Processes
      PROVE  /\ proc'[q].next \in 1..(Known[q] + 1)
             /\ 1..(proc'[q].next - 1) \subseteq recorded'
             /\ proc'[q].phase = "run" => proc'[q].next <= Known[q] /\ proc'[q].next \notin recorded'
  <2>1. CASE q = p
    <3>1. proc'[q].phase = "up" /\ proc'[q].next = 1
      BY <2>1 DEF Release, MigrationInv, MigrationTypeOK
    <3>2. Known[q] \in Nat /\ 1..(1 - 1) = {}
      BY MigrationAssumption
    <3>3. QED
      BY <3>1, <3>2
  <2>2. CASE q # p
    BY <2>2 DEF MigrationInv, Release, MigrationTypeOK, PassedAreRecorded
  <2>3. QED
    BY <2>1, <2>2
<1>6. PassedAreRecorded'
  BY <1>5 DEF PassedAreRecorded
<1>7. QED
  BY <1>2, <1>3, <1>4, <1>6 DEF MigrationInv

\* A process that stops lets go of the lock and of nothing recorded.
LEMMA StopHolds ==
  ASSUME MigrationInv, NEW p \in Processes, Stop(p)
  PROVE  MigrationInv'
<1>1. /\ proc' = [proc EXCEPT ![p] = Down]
      /\ holder' = IF holder = p THEN None ELSE holder
      /\ stops' \in 0..MaxStops
  BY MigrationAssumption DEF Stop, MigrationInv, MigrationTypeOK
<1>2. MigratorsHold'
  BY <1>1, DownFacts, MigrationAssumption
     DEF MigrationInv, MigrationTypeOK, MigratorsHold
<1>3. /\ recorded \subseteq recorded'
      /\ recorded' \subseteq Versions
      /\ executed' \in [Versions -> Nat]
      /\ EachMigrationRunsOnce'
      /\ \A v \in recorded' : 1..v \subseteq recorded'
      /\ proc[p].phase # "run" => recorded' = recorded
  <2>1. CASE UNCHANGED <<recorded, executed>>
    BY <2>1 DEF MigrationInv, MigrationTypeOK, EachMigrationRunsOnce, RunningIsMigrated
  <2>2. CASE proc[p].phase = "run" /\ Committed(proc[p].next)
    BY <2>2, CommitFacts
  <2>3. QED
    BY <2>1, <2>2 DEF Stop
<1>4. MigrationTypeOK'
  BY <1>1, <1>3, DownFacts DEF MigrationInv, MigrationTypeOK
<1>5. RunningIsMigrated'
  BY <1>1, <1>3, DownFacts DEF MigrationInv, MigrationTypeOK, RunningIsMigrated
<1>6. ASSUME NEW q \in Processes
      PROVE  /\ proc'[q].next \in 1..(Known[q] + 1)
             /\ 1..(proc'[q].next - 1) \subseteq recorded'
             /\ proc'[q].phase = "run" => proc'[q].next <= Known[q] /\ proc'[q].next \notin recorded'
  <2>1. CASE q = p
    <3>1. proc'[q].phase = "down" /\ proc'[q].next = 1
      BY <2>1, <1>1, DownFacts DEF MigrationInv, MigrationTypeOK
    <3>2. Known[q] \in Nat /\ 1..(1 - 1) = {}
      BY MigrationAssumption
    <3>3. QED
      BY <3>1, <3>2
  <2>2. CASE q # p
    <3>1. proc'[q] = proc[q]
      BY <2>2, <1>1 DEF MigrationInv, MigrationTypeOK
    <3>2. proc[q].phase = "run" => recorded' = recorded
      BY <2>2, <1>3, OthersAreElsewhere
    <3>3. QED
      BY <3>1, <3>2, <1>3 DEF MigrationInv, PassedAreRecorded
  <2>3. QED
    BY <2>1, <2>2
<1>7. PassedAreRecorded'
  BY <1>6 DEF PassedAreRecorded
<1>8. QED
  BY <1>2, <1>3, <1>4, <1>5, <1>7 DEF MigrationInv

\* Every step keeps the invariant.
LEMMA NextHolds ==
  ASSUME MigrationInv, [MigrationNext]_migrationVars
  PROVE  MigrationInv'
<1>1. CASE UNCHANGED migrationVars
  BY <1>1 DEF migrationVars, MigrationInv, MigrationTypeOK, MigratorsHold,
     EachMigrationRunsOnce, RunningIsMigrated, PassedAreRecorded
<1>2. ASSUME NEW p \in Processes, MigrationStep(p) \/ Stop(p)
      PROVE  MigrationInv'
  BY <1>2, StartHolds, AcquireHolds, CheckHolds, RunHolds, ReleaseHolds, StopHolds
     DEF MigrationStep
<1>3. QED
  BY <1>1, <1>2 DEF MigrationNext

-----------------------------------------------------------------------------
(* The theorems.                                                            *)

\* The inductive invariant holds, for any processes, versions and stops.
THEOREM MigrationInvariantHolds == MigrationSpec => []MigrationInv
<1>1. MigrationInit => MigrationInv
  BY InitHolds
<1>2. MigrationInv /\ [MigrationNext]_migrationVars => MigrationInv'
  BY NextHolds
<1>3. QED
  BY <1>1, <1>2, PTL DEF MigrationSpec

\* Whoever migrates holds the advisory lock, and nobody else does.
THEOREM MigratorsAlwaysHold == MigrationSpec => []MigratorsHold
<1>1. MigrationInv => MigratorsHold
  BY DEF MigrationInv
<1>2. QED
  BY <1>1, MigrationInvariantHolds, PTL

\* No migration is committed twice, and each that was is recorded.
THEOREM MigrationsRunOnce == MigrationSpec => []EachMigrationRunsOnce
<1>1. MigrationInv => EachMigrationRunsOnce
  BY DEF MigrationInv
<1>2. QED
  BY <1>1, MigrationInvariantHolds, PTL

\* Nobody serves on a schema that lacks one of its migrations.
THEOREM ServersAreMigrated == MigrationSpec => []RunningIsMigrated
<1>1. MigrationInv => RunningIsMigrated
  BY DEF MigrationInv
<1>2. QED
  BY <1>1, MigrationInvariantHolds, PTL

-----------------------------------------------------------------------------
(* Accounts and sessions: the types.                                        *)

\* A step of the accounts, whatever the migrations do.
AccountNext ==
  (\E tab \in Tabs : AccountStep(tab)) \/ (\E b \in Browsers : Visit(b)) \/ Tick \/ Restart

\* Who waits for nothing has a request of its kind.
LEMMA NoRequestType == NoRequest \in Request /\ NoRequest.pc = Idle
<1>1. (CHOOSE e \in Emails : TRUE) \in Emails
  BY AccountAssumption
<1>2. QED
  BY <1>1 DEF NoRequest, Request

\* A fault counts itself.
LEMMA FaultFacts ==
  ASSUME faults \in 0..MaxFaults, Fault
  PROVE  faults' \in 0..MaxFaults /\ faults' = faults + 1
BY AccountAssumption DEF Fault

\* No request changes the token it carries; who waits for nothing carries none.
TokensStay == \A tab \in Tabs : req'[tab].token \in {0, req[tab].token}

\* A request goes on or is answered; the others are where they were.
LEMMA RequestMoves ==
  ASSUME req \in [Tabs -> Request], NEW tab \in Tabs,
         Answer(tab) \/ \E pc \in Steps : Goto(tab, pc)
  PROVE  /\ req' \in [Tabs -> Request]
         /\ \A other \in Tabs : other # tab => req'[other] = req[other]
         /\ Answer(tab) => req'[tab].pc = Idle
         /\ \A pc \in Steps : Goto(tab, pc) => req'[tab].pc = pc /\ req'[tab].token = req[tab].token
         /\ TokensStay
<1>1. CASE Answer(tab)
  <2>1. /\ req' \in [Tabs -> Request] /\ req'[tab] = NoRequest
        /\ \A other \in Tabs : other # tab => req'[other] = req[other]
    BY <1>1, NoRequestType DEF Answer
  <2>2. NoRequest.pc = Idle /\ NoRequest.token = 0
    BY DEF NoRequest
  <2>3. TokensStay
    BY <2>1, <2>2 DEF TokensStay
  <2>4. \A pc \in Steps : ~Goto(tab, pc)
    <3>1. ASSUME NEW pc \in Steps, Goto(tab, pc) PROVE FALSE
      <4>1. req'[tab] = [req[tab] EXCEPT !.pc = pc] /\ req[tab] \in Request
        BY <3>1 DEF Goto
      <4>2. req'[tab].pc = pc
        BY <4>1 DEF Request
      <4>3. QED
        BY <2>1, <2>2, <4>2 DEF Steps, Idle
    <3>2. QED
      BY <3>1
  <2>5. QED
    BY <2>1, <2>2, <2>3, <2>4
<1>2. ASSUME NEW pc \in Steps, Goto(tab, pc)
      PROVE  /\ req' \in [Tabs -> Request]
             /\ \A other \in Tabs : other # tab => req'[other] = req[other]
             /\ req'[tab].pc = pc /\ req'[tab].token = req[tab].token
             /\ TokensStay
  <2>1. /\ req' = [req EXCEPT ![tab] = [req[tab] EXCEPT !.pc = pc]]
        /\ req[tab] \in Request
    BY <1>2 DEF Goto
  <2>2. /\ [req[tab] EXCEPT !.pc = pc] \in Request
        /\ [req[tab] EXCEPT !.pc = pc].pc = pc
        /\ [req[tab] EXCEPT !.pc = pc].token = req[tab].token
    BY <2>1 DEF Request
  <2>3. QED
    BY <2>1, <2>2 DEF TokensStay
<1>3. \A pc \in Steps : pc # Idle
  BY DEF Steps, Idle
<1>4. QED
  BY <1>1, <1>2, <1>3

\* A request asks for its step with the cookie of its browser.
LEMMA SendFacts ==
  ASSUME AccountTypeOK, NEW tab \in Tabs, NEW request \in Request, Send(tab, request)
  PROVE  /\ BrowserOf[tab] \in Browsers
         /\ req' \in [Tabs -> Request]
         /\ req'[tab].pc = request.pc
         /\ req'[tab].token = cookie[BrowserOf[tab]]
         /\ \A other \in Tabs : other # tab => req'[other] = req[other]
         /\ begun' \in 0..MaxRequests /\ overlaps' \in 0..begun'
<1>1. BrowserOf[tab] \in Browsers /\ cookie[BrowserOf[tab]] \in Nat
  BY AccountAssumption DEF AccountTypeOK
<1>2. /\ [request EXCEPT !.token = cookie[BrowserOf[tab]]] \in Request
      /\ [request EXCEPT !.token = cookie[BrowserOf[tab]]].pc = request.pc
      /\ [request EXCEPT !.token = cookie[BrowserOf[tab]]].token = cookie[BrowserOf[tab]]
  BY <1>1 DEF Request
<1>3. req' = [req EXCEPT ![tab] = [request EXCEPT !.token = cookie[BrowserOf[tab]]]]
  BY DEF Send
<1>4. begun' \in 0..MaxRequests /\ overlaps' \in 0..begun'
  BY AccountAssumption DEF Send, AccountTypeOK
<1>5. QED
  BY <1>1, <1>2, <1>3, <1>4 DEF AccountTypeOK

\* What a tab may send.
LEMMA SentFacts ==
  /\ \A a \in Actions, e \in Emails :
       LET r == [NoRequest EXCEPT !.pc = "limit", !.action = a, !.email = e] IN
       r \in Request /\ r.pc = "limit"
  /\ LET r == [NoRequest EXCEPT !.pc = "end"] IN r \in Request /\ r.pc = "end"
BY NoRequestType DEF Request, Steps

\* Sessions only end: none is added, extended or revived.
OnlyEnd ==
  /\ sessions' \in Seq(Session)
  /\ Len(sessions') = Len(sessions)
  /\ \A t \in 1..Len(sessions) :
       /\ sessions'[t].live => sessions[t].live
       /\ sessions'[t].expires = sessions[t].expires

\* A sequence of sessions, each of which stays or is ended.
LEMMA SessionsEnd ==
  ASSUME sessions \in Seq(Session), DOMAIN sessions' = DOMAIN sessions,
         sessions' = [t \in DOMAIN sessions' |-> sessions'[t]],
         \A t \in DOMAIN sessions :
           \/ sessions'[t] = sessions[t]
           \/ sessions'[t] = [sessions[t] EXCEPT !.live = FALSE]
  PROVE  OnlyEnd
<1> DEFINE n == Len(sessions)
<1>1. n \in Nat /\ DOMAIN sessions = 1..n /\ \A t \in 1..n : sessions[t] \in Session
  OBVIOUS
<1>2. ASSUME NEW t \in 1..n
      PROVE  /\ sessions'[t] \in Session
             /\ sessions'[t].live => sessions[t].live
             /\ sessions'[t].expires = sessions[t].expires
  BY <1>1 DEF Session
<1>3. sessions' \in [1..n -> Session]
  BY <1>1, <1>2
<1>4. sessions' \in Seq(Session) /\ Len(sessions') = n
  BY <1>1, <1>3
<1>5. QED
  BY <1>2, <1>4 DEF OnlyEnd

\* A token that is not a session's ends nothing.
LEMMA EndedFacts ==
  ASSUME sessions \in Seq(Session), NEW token, sessions' = Ended(token)
  PROVE  /\ OnlyEnd
         /\ token \in DOMAIN sessions => ~sessions'[token].live
<1>1. sessions' = [sessions EXCEPT ![token] = [sessions[token] EXCEPT !.live = FALSE]]
  BY DEF Ended
<1>2. /\ DOMAIN sessions' = DOMAIN sessions
      /\ sessions' = [t \in DOMAIN sessions' |-> sessions'[t]]
      /\ \A t \in DOMAIN sessions :
           \/ sessions'[t] = sessions[t]
           \/ sessions'[t] = [sessions[t] EXCEPT !.live = FALSE]
  BY <1>1
<1>3. token \in DOMAIN sessions => sessions[token] \in Session
  OBVIOUS
<1>4. token \in DOMAIN sessions => ~sessions'[token].live
  BY <1>1, <1>3 DEF Session
<1>5. QED
  BY <1>2, <1>4, SessionsEnd

\* Tokens are of sessions that exist, and sessions are never forgotten.
LEMMA TokensAreTyped ==
  ASSUME AccountTypeOK, TokensStay, Len(sessions') \in Nat, Len(sessions) <= Len(sessions')
  PROVE  \A tab \in Tabs : req'[tab].token \in 0..Len(sessions')
<1>1. Len(sessions) \in Nat /\ \A tab \in Tabs : req[tab].token \in 0..Len(sessions)
  BY DEF AccountTypeOK
<1>2. QED
  BY <1>1 DEF TokensStay

\* The session that a request opens comes after all others.
LEMMA OpenedFacts ==
  ASSUME AccountTypeOK, NEW tab \in Tabs,
         sessions' = Append(sessions,
           [email |-> req[tab].email, expires |-> clock + TTL, live |-> TRUE])
  PROVE  /\ sessions' \in Seq(Session)
         /\ Len(sessions') = Len(sessions) + 1
         /\ Len(sessions) \in Nat
         /\ \A t \in 1..Len(sessions) : sessions'[t] = sessions[t]
<1>1. req[tab].email \in Emails /\ clock + TTL \in Nat
  BY AccountAssumption DEF AccountTypeOK, Request
<1>2. [email |-> req[tab].email, expires |-> clock + TTL, live |-> TRUE] \in Session
  BY <1>1 DEF Session
<1>3. QED
  BY <1>2 DEF AccountTypeOK

\* A counter that counts one more, and one that stays within the limit.
LEMMA CountFacts ==
  ASSUME NEW x \in [start : Nat, count : 0..Limit], clock \in Nat
  PROVE  /\ Count(x) \in [start : Nat, count : Nat]
         /\ Count(x).count <= Limit => Count(x) \in [start : Nat, count : 0..Limit]
         /\ [Count(x) EXCEPT !.count = Least(@, Limit)] \in [start : Nat, count : 0..Limit]
<1>1. x.start \in Nat /\ x.count \in Nat /\ Limit \in Nat
      /\ x = [start |-> x.start, count |-> x.count]
  BY AccountAssumption
<1>2. Count(x) \in {[start |-> clock, count |-> 1], [start |-> x.start, count |-> x.count + 1]}
  BY <1>1 DEF Count
<1>3. PICK i \in Nat, n \in Nat : Count(x) = [start |-> i, count |-> n]
  BY <1>1, <1>2
<1>4. Least(n, Limit) \in 0..Limit
  BY <1>1 DEF Least
<1>5. [Count(x) EXCEPT !.count = Least(@, Limit)] = [start |-> i, count |-> Least(n, Limit)]
  BY <1>3
<1>6. QED
  BY <1>1, <1>3, <1>4, <1>5

\* Every step keeps the types.
LEMMA AccountTypeStep ==
  ASSUME AccountTypeOK, AccountNext
  PROVE  AccountTypeOK'
<1>t. /\ setup \in Setups
      /\ users \in Seq(User)
      /\ readable \in BOOLEAN
      /\ sessions \in Seq(Session)
      /\ cookie \in [Browsers -> 0..Len(sessions)]
      /\ req \in [Tabs -> Request]
      /\ meter \in [Actions -> [start : Nat, count : 0..Limit]]
      /\ passed \in [Actions -> [0..Horizon -> Nat]]
      /\ \A tab \in Tabs : req[tab].token \in 0..Len(sessions)
      /\ Len(sessions) \in Nat
      /\ clock \in 0..Horizon /\ begun \in 0..MaxRequests /\ overlaps \in 0..begun
      /\ faults \in 0..MaxFaults
  BY DEF AccountTypeOK
<1>1. ASSUME NEW tab \in Tabs, NEW request \in Request, Send(tab, request)
      PROVE  AccountTypeOK'
  <2>1. /\ req' \in [Tabs -> Request] /\ begun' \in 0..MaxRequests /\ overlaps' \in 0..begun'
        /\ BrowserOf[tab] \in Browsers
        /\ req'[tab].token = cookie[BrowserOf[tab]]
        /\ \A other \in Tabs : other # tab => req'[other] = req[other]
    BY <1>1, SendFacts
  <2>2. UNCHANGED <<setup, users, readable, sessions, cookie, meter, passed, clock, faults>>
    BY <1>1 DEF Send
  <2>3. \A other \in Tabs : req'[other].token \in 0..Len(sessions')
    BY <1>t, <2>1, <2>2
  <2>4. QED
    BY <1>t, <2>1, <2>2, <2>3 DEF AccountTypeOK
<1>2. ASSUME NEW tab \in Tabs,
             BeginLogout(tab) \/ \E a \in Actions, e \in Emails : Begin(tab, a, e)
      PROVE  AccountTypeOK'
  BY <1>1, <1>2, SentFacts DEF Begin, BeginLogout
<1>3. ASSUME NEW tab \in Tabs, Throttle(tab) PROVE AccountTypeOK'
  <2> DEFINE a == req[tab].action
  <2> DEFINE m == Count(meter[a])
  <2>1. req' \in [Tabs -> Request] /\ TokensStay
    BY <1>t, <1>3, RequestMoves DEF Throttle, Fails, Steps
  <2>2. faults' \in 0..MaxFaults
    BY <1>t, <1>3, FaultFacts DEF Throttle, Fails
  <2>3. passed' \in [Actions -> [0..Horizon -> Nat]]
    <3>1. passed' = passed \/ passed' = [passed EXCEPT ![a][clock] = @ + 1]
      BY <1>t, <1>3 DEF Throttle
    <3>2. CASE a \in Actions
      <4>1. passed[a] \in [0..Horizon -> Nat] /\ passed[a][clock] \in Nat
        BY <1>t, <3>2
      <4>2. [passed[a] EXCEPT ![clock] = @ + 1] \in [0..Horizon -> Nat]
        BY <1>t, <4>1
      <4> HIDE DEF a
      <4>3. QED
        BY <1>t, <3>1, <3>2, <4>2
    <3>3. CASE a \notin Actions
      <4> HIDE DEF a
      <4>1. QED
        BY <1>t, <3>1, <3>3
    <3>4. QED
      BY <1>t, <3>2, <3>3
  <2>4. meter' \in [Actions -> [start : Nat, count : 0..Limit]]
    <3>1. \/ meter' = meter
          \/ m.count <= Limit /\ meter' = [meter EXCEPT ![a] = m]
          \/ meter' = [meter EXCEPT ![a] = [m EXCEPT !.count = Least(@, Limit)]]
      BY <1>t, <1>3 DEF Throttle
    <3>2. CASE a \in Actions
      <4>1. meter[a] \in [start : Nat, count : 0..Limit] /\ clock \in Nat
        BY <1>t, <3>2
      <4>2. /\ m.count <= Limit => m \in [start : Nat, count : 0..Limit]
            /\ [m EXCEPT !.count = Least(@, Limit)] \in [start : Nat, count : 0..Limit]
        BY <1>t, <4>1, CountFacts
      <4> HIDE DEF m, a
      <4>5. QED
        BY <1>t, <3>1, <3>2, <4>2
    <3>3. CASE a \notin Actions
      BY <1>t, <3>1, <3>3
    <3>4. QED
      BY <1>t, <3>2, <3>3
  <2>5. sessions' = sessions
    BY <1>3 DEF Throttle
  <2>6. \A other \in Tabs : req'[other].token \in 0..Len(sessions')
    BY <1>t, <2>1, <2>5, TokensAreTyped
  <2>7. QED
    BY <1>t, <1>3, <2>1, <2>2, <2>3, <2>4, <2>6 DEF Throttle, AccountTypeOK
<1>4. ASSUME NEW tab \in Tabs, CountUsers(tab) PROVE AccountTypeOK'
  <2>1. req' \in [Tabs -> Request] /\ TokensStay
    <3>1. CASE Answer(tab)
      BY <1>t, <3>1, RequestMoves
    <3>2. CASE req' = [req EXCEPT ![tab].pc = "insert", ![tab].bootstrap = (users = <<>>)]
      <4>1. req[tab] \in Request /\ (users = <<>>) \in BOOLEAN
        BY <1>t
      <4>2. /\ [req[tab] EXCEPT !.pc = "insert", !.bootstrap = (users = <<>>)] \in Request
            /\ [req[tab] EXCEPT !.pc = "insert", !.bootstrap = (users = <<>>)].token
                 = req[tab].token
        BY <1>t, <4>1 DEF Request, Steps
      <4>3. QED
        BY <1>t, <3>2, <4>2 DEF TokensStay
    <3>3. QED
      BY <1>t, <1>4, <3>1, <3>2 DEF CountUsers, Fails
  <2>2. faults' \in 0..MaxFaults
    BY <1>t, <1>4, FaultFacts DEF CountUsers, Fails
  <2>3. sessions' = sessions
    BY <1>4 DEF CountUsers
  <2>4. \A other \in Tabs : req'[other].token \in 0..Len(sessions')
    BY <1>t, <2>1, <2>3, TokensAreTyped
  <2>5. QED
    BY <1>t, <1>4, <2>1, <2>2, <2>4 DEF CountUsers, AccountTypeOK
<1>5. ASSUME NEW tab \in Tabs, Register(tab) PROVE AccountTypeOK'
  <2>1. req' \in [Tabs -> Request] /\ TokensStay
    BY <1>t, <1>5, RequestMoves DEF Register, Fails, Authenticated, Steps
  <2>2. faults' \in 0..MaxFaults
    BY <1>t, <1>5, FaultFacts DEF Register, Fails
  <2>3. users' \in Seq(User)
    <3>1. NewUser(tab) \in User
      BY <1>t DEF NewUser, User, Roles, Request
    <3>2. users' = users \/ users' = Append(users, NewUser(tab))
      BY <1>t, <1>5 DEF Register
    <3>3. ASSUME NEW q \in Seq(User), NEW u \in User PROVE Append(q, u) \in Seq(User)
      OBVIOUS
    <3>4. users \in Seq(User)
      BY <1>t
    <3>5. Append(users, NewUser(tab)) \in Seq(User)
      BY <3>1, <3>3, <3>4
    <3>6. QED
      BY <3>2, <3>4, <3>5
  <2>4. readable' \in BOOLEAN
    BY <1>t, <1>5 DEF Register, FileAfterFailure
  <2>5. sessions' = sessions
    BY <1>5 DEF Register
  <2>6. \A other \in Tabs : req'[other].token \in 0..Len(sessions')
    BY <1>t, <2>1, <2>5, TokensAreTyped
  <2>7. QED
    BY <1>t, <1>5, <2>1, <2>2, <2>3, <2>4, <2>6 DEF Register, AccountTypeOK
<1>6. ASSUME NEW tab \in Tabs, Authenticate(tab) PROVE AccountTypeOK'
  <2>1. req' \in [Tabs -> Request] /\ TokensStay
    BY <1>t, <1>6, RequestMoves DEF Authenticate, Fails, Authenticated, Steps
  <2>2. faults' \in 0..MaxFaults
    BY <1>t, <1>6, FaultFacts DEF Authenticate, Fails
  <2>3. readable' \in BOOLEAN
    BY <1>t, <1>6 DEF Authenticate, FileAfterFailure
  <2>4. sessions' = sessions
    BY <1>6 DEF Authenticate
  <2>5. \A other \in Tabs : req'[other].token \in 0..Len(sessions')
    BY <1>t, <2>1, <2>4, TokensAreTyped
  <2>6. QED
    BY <1>t, <1>6, <2>1, <2>2, <2>3, <2>5 DEF Authenticate, AccountTypeOK
<1>7. ASSUME NEW tab \in Tabs, DropPrevious(tab) PROVE AccountTypeOK'
  <2>1. req' \in [Tabs -> Request] /\ TokensStay
    BY <1>t, <1>7, RequestMoves DEF DropPrevious, Fails, Steps
  <2>2. faults' \in 0..MaxFaults
    BY <1>t, <1>7, FaultFacts DEF DropPrevious, Fails
  <2>3. sessions' \in Seq(Session) /\ Len(sessions') = Len(sessions)
    BY <1>t, <1>7, EndedFacts DEF DropPrevious, OnlyEnd
  <2>4. \A other \in Tabs : req'[other].token \in 0..Len(sessions')
    BY <1>t, <2>1, <2>3, TokensAreTyped
  <2>5. QED
    BY <1>t, <1>7, <2>1, <2>2, <2>3, <2>4 DEF DropPrevious, AccountTypeOK
<1>8. ASSUME NEW tab \in Tabs, CreateSession(tab) PROVE AccountTypeOK'
  <2>1. req' \in [Tabs -> Request] /\ TokensStay
    BY <1>t, <1>8, RequestMoves DEF CreateSession, Fails
  <2>2. faults' \in 0..MaxFaults
    BY <1>t, <1>8, FaultFacts DEF CreateSession, Fails
  <2> DEFINE opened == Append(sessions,
        [email |-> req[tab].email, expires |-> clock + TTL, live |-> TRUE])
  <2>3. /\ sessions' \in Seq(Session) /\ Len(sessions) \in Nat
        /\ Len(sessions') = Len(sessions) \/ Len(sessions') = Len(sessions) + 1
    <3>1. sessions' = sessions \/ sessions' = opened
      BY <1>8 DEF CreateSession
    <3>2. sessions \in Seq(Session) /\ Len(sessions) \in Nat
      BY <1>t
    <3>3. CASE sessions' = opened
      BY <3>3, OpenedFacts
    <3>4. QED
      BY <3>1, <3>2, <3>3
  <2>4. cookie' = cookie \/ cookie' = [cookie EXCEPT ![BrowserOf[tab]] = Len(sessions')]
    BY <1>t, <1>8 DEF CreateSession
  <2>5. cookie' \in [Browsers -> 0..Len(sessions')]
    <3>1. BrowserOf[tab] \in Browsers
      BY AccountAssumption
    <3> DEFINE mine == BrowserOf[tab]
    <3>2. mine \in Browsers /\ (cookie' = cookie \/ cookie' = [cookie EXCEPT ![mine] = Len(sessions')])
      BY <2>4, <3>1
    <3> HIDE DEF mine
    <3>3. QED
      BY <1>t, <2>3, <3>2
  <2>6. \A other \in Tabs : req'[other].token \in 0..Len(sessions')
    BY <1>t, <2>1, <2>3, TokensAreTyped
  <2>7. QED
    BY <1>t, <1>8, <2>1, <2>2, <2>3, <2>5, <2>6 DEF CreateSession, AccountTypeOK
<1>9. ASSUME NEW tab \in Tabs, Logout(tab) PROVE AccountTypeOK'
  <2>1. req' \in [Tabs -> Request] /\ TokensStay
    BY <1>t, <1>9, RequestMoves DEF Logout, Fails
  <2>2. faults' \in 0..MaxFaults
    BY <1>t, <1>9, FaultFacts DEF Logout, Fails
  <2>3. sessions' \in Seq(Session) /\ Len(sessions') = Len(sessions)
    <3>1. sessions' = sessions \/ sessions' = Ended(req[tab].token)
      BY <1>t, <1>9 DEF Logout
    <3>2. QED
      BY <1>t, <3>1, EndedFacts DEF OnlyEnd
  <2>4. cookie' \in [Browsers -> 0..Len(sessions')]
    <3>1. cookie' = cookie \/ cookie' = [cookie EXCEPT ![BrowserOf[tab]] = 0]
      BY <1>9 DEF Logout
    <3>2. Len(sessions) \in Nat /\ cookie \in [Browsers -> 0..Len(sessions)]
      BY <1>t
    <3>3. QED
      BY <2>3, <3>1, <3>2
  <2>5. \A other \in Tabs : req'[other].token \in 0..Len(sessions')
    BY <1>t, <2>1, <2>3, TokensAreTyped
  <2>6. QED
    BY <1>t, <1>9, <2>1, <2>2, <2>3, <2>4, <2>5 DEF Logout, AccountTypeOK
<1>10. ASSUME NEW b \in Browsers, Visit(b) PROVE AccountTypeOK'
  <2>1. /\ DOMAIN sessions' = DOMAIN sessions
        /\ sessions' = [t \in DOMAIN sessions' |-> sessions'[t]]
        /\ \A t \in DOMAIN sessions :
             \/ sessions'[t] = sessions[t]
             \/ sessions'[t] = [sessions[t] EXCEPT !.live = FALSE]
    BY <1>t, <1>10 DEF Visit, Seen
  <2>2. sessions' \in Seq(Session) /\ Len(sessions') = Len(sessions)
    BY <1>t, <2>1, SessionsEnd DEF OnlyEnd
  <2>3. \A other \in Tabs : req'[other].token \in 0..Len(sessions')
    BY <1>t, <1>10, <2>2 DEF Visit
  <2>4. QED
    BY <1>t, <1>10, <2>2, <2>3 DEF Visit, AccountTypeOK
<1>11. CASE Tick
  BY <1>t, <1>11, AccountAssumption DEF Tick, AccountTypeOK
<1>12. CASE Restart
  <2>1. sessions' = sessions \/
        sessions' = [t \in DOMAIN sessions |-> [sessions[t] EXCEPT !.live = FALSE]]
    BY <1>t, <1>12 DEF Restart
  <2>2. sessions' \in Seq(Session) /\ Len(sessions') = Len(sessions)
    BY <1>t, <2>1, SessionsEnd DEF OnlyEnd
  <2>3. meter' \in [Actions -> [start : Nat, count : 0..Limit]]
    <3>1. meter' = meter \/ meter' = [a \in Actions |-> [start |-> 0, count |-> 0]]
      BY <1>12 DEF Restart
    <3>2. 0 \in 0..Limit
      BY AccountAssumption
    <3>3. QED
      BY <1>t, <3>1, <3>2
  <2>4. req' \in [Tabs -> Request] /\ faults' \in 0..MaxFaults
    BY <1>t, <1>12, NoRequestType, FaultFacts DEF Restart
  <2>5. readable' \in BOOLEAN
    BY <1>t, <1>12 DEF Restart, FileAfterFailure
  <2>6. \A other \in Tabs : req'[other].token \in 0..Len(sessions')
    BY <1>t, <1>12, <2>2 DEF Restart, NoRequest
  <2>7. QED
    BY <1>t, <1>12, <2>2, <2>3, <2>4, <2>5, <2>6 DEF Restart, AccountTypeOK
<1>13. QED
  BY <1>1, <1>2, <1>3, <1>4, <1>5, <1>6, <1>7, <1>8, <1>9, <1>10, <1>11, <1>12
  DEF AccountNext, AccountStep

-----------------------------------------------------------------------------
(* One administrator.                                                       *)

\* Register alone adds an account.
LEMMA UsersChange ==
  ASSUME AccountNext
  PROVE  \/ users' = users
         \/ \E tab \in Tabs : ~Taken(tab) /\ users' = Append(users, NewUser(tab))
BY DEF AccountNext, AccountStep, Begin, BeginLogout, Send, Throttle, CountUsers,
       Register, Authenticate, DropPrevious, CreateSession, Logout, Visit, Tick, Restart

\* Whoever registers first is the administrator, because no other first account
\* is accepted, and later ones are not.
LEMMA OneAdministratorStep ==
  ASSUME AccountTypeOK, OneAdministrator, AccountNext
  PROVE  OneAdministrator'
<1>1. CASE users' = users
  BY <1>1 DEF OneAdministrator
<1>2. ASSUME NEW tab \in Tabs, ~Taken(tab), users' = Append(users, NewUser(tab))
      PROVE  OneAdministrator'
  <2> DEFINE n == Len(users)
  <2>1. users \in Seq(User) /\ n \in Nat /\ DOMAIN users = 1..n
    BY DEF AccountTypeOK
  <2>2. PICK u : u = NewUser(tab)
    OBVIOUS
  <2>3. /\ DOMAIN users' = 1..(n + 1)
        /\ users'[n + 1] = u
        /\ \A i \in 1..n : users'[i] = users[i]
    BY <1>2, <2>1, <2>2
  <2>4. users = <<>> <=> n = 0
    BY <2>1
  <2>5. u.role = "admin" <=> n = 0
    BY <1>2, <2>2, <2>4 DEF NewUser, Taken
  <2>6. u.email = req[tab].email /\ \A i \in 1..n : users[i].email # u.email
    BY <1>2, <2>1, <2>2 DEF NewUser, Taken, Emailed
  <2>7. ASSUME NEW i \in 1..(n + 1) PROVE users'[i].role = "admin" <=> i = 1
    <3>1. CASE i \in 1..n
      BY <2>1, <2>3, <3>1 DEF OneAdministrator
    <3>2. CASE i = n + 1
      BY <2>1, <2>3, <2>5, <3>2
    <3>3. QED
      BY <2>1, <3>1, <3>2
  <2>8. ASSUME NEW i \in 1..(n + 1), NEW j \in 1..(n + 1), users'[i].email = users'[j].email
        PROVE  i = j
    <3>1. CASE i \in 1..n /\ j \in 1..n
      BY <2>1, <2>3, <2>8, <3>1 DEF OneAdministrator
    <3>2. CASE i = n + 1 \/ j = n + 1
      BY <2>1, <2>3, <2>6, <2>8, <3>2
    <3>3. QED
      BY <2>1, <3>1, <3>2
  <2>9. QED
    BY <2>3, <2>7, <2>8 DEF OneAdministrator
<1>3. QED
  BY <1>1, <1>2, UsersChange

-----------------------------------------------------------------------------
(* Stray sessions.  A request is stale when the cookie of its browser is no *)
(* longer the one it carries: only such a request can hide a session that   *)
(* nobody ends.  Every stray was paid for, and so was every request in      *)
(* progress, but for one of each browser none of whose requests is stale.   *)

\* The sessions that serve and that no browser holds.
Strays == {t \in DOMAIN sessions : Serves(t) /\ \A b \in Browsers : cookie[b] # t}

Waiting == {tab \in Tabs : Busy(tab)}

Fresh(tab) == req[tab].token = cookie[BrowserOf[tab]]

\* The browsers that wait, and none of whose requests is stale.
Calm ==
  {b \in Browsers : /\ \E tab \in Waiting : BrowserOf[tab] = b
                    /\ \A tab \in Waiting : BrowserOf[tab] = b => Fresh(tab)}

\* What is left over or may be is paid for.
Paid ==
  Cardinality(Strays) + Cardinality(Waiting) <= faults + overlaps + Cardinality(Calm)

\* Who is about to create a session carries none that serves: the one it
\* carried is ended first.
CreatorsCarryNothing ==
  \A tab \in Tabs : req[tab].pc = "create" =>
    req[tab].token = 0 \/ ~sessions[req[tab].token].live

\* What is said about sessions, with what it rests on.
SessionInv == Paid /\ CreatorsCarryNothing

\* There are as many strays as a number says, and no more browsers wait than
\* tabs do.
LEMMA StraysAreFinite ==
  ASSUME AccountTypeOK
  PROVE  /\ IsFiniteSet(Strays) /\ Cardinality(Strays) \in Nat
         /\ IsFiniteSet(Waiting) /\ Cardinality(Waiting) \in Nat
         /\ IsFiniteSet(Calm) /\ Cardinality(Calm) \in Nat
         /\ Cardinality(Calm) <= Cardinality(Waiting)
<1>1. Len(sessions) \in Nat /\ DOMAIN sessions = 1..Len(sessions)
  BY DEF AccountTypeOK
<1>2. 1 \in Int /\ Len(sessions) \in Int
  BY <1>1
<1>3. IsFiniteSet(1..Len(sessions))
  BY <1>2, FS_Interval
<1>4. Strays \subseteq 1..Len(sessions)
  BY <1>1 DEF Strays
<1>5. IsFiniteSet(Strays) /\ Cardinality(Strays) \in Nat
  BY <1>3, <1>4, FS_Subset, FS_CardinalityType
<1>6. IsFiniteSet(Waiting) /\ Cardinality(Waiting) \in Nat
  <2>1. Waiting \subseteq Tabs /\ IsFiniteSet(Tabs)
    BY AccountAssumption DEF Waiting
  <2>2. QED
    BY <2>1, FS_Subset, FS_CardinalityType
<1>7. /\ IsFiniteSet({BrowserOf[tab] : tab \in Waiting})
      /\ Cardinality({BrowserOf[tab] : tab \in Waiting}) <= Cardinality(Waiting)
  <2> DEFINE f == [tab \in Waiting |-> BrowserOf[tab]]
  <2>1. f \in Surjection(Waiting, {BrowserOf[tab] : tab \in Waiting})
    BY DEF Surjection
  <2>2. QED
    BY <1>6, <2>1, FS_Surjection
<1>8. Calm \subseteq {BrowserOf[tab] : tab \in Waiting}
  BY DEF Calm
<1>9. QED
  BY <1>5, <1>6, <1>7, <1>8, FS_Subset, FS_CardinalityType

\* Cardinalities of sets that differ by one element at most.
LEMMA OneMore ==
  ASSUME NEW S, NEW T, NEW x, IsFiniteSet(S), S \subseteq T \cup {x}, IsFiniteSet(T)
  PROVE  Cardinality(S) <= Cardinality(T) + 1
<1>1. /\ IsFiniteSet(T \cup {x})
      /\ Cardinality(T \cup {x}) = IF x \in T THEN Cardinality(T) ELSE Cardinality(T) + 1
  BY FS_AddElement
<1>2. Cardinality(S) <= Cardinality(T \cup {x})
  BY <1>1, FS_Subset
<1>3. Cardinality(S) \in Nat /\ Cardinality(T) \in Nat
  BY FS_CardinalityType
<1>4. QED
  BY <1>1, <1>2, <1>3

\* A browser lets go of a session only when the session serves no more.
LetsGoOfTheDead ==
  \A b \in Browsers, t \in 1..Len(sessions) :
    cookie[b] = t => cookie'[b] = t \/ ~sessions'[t].live

\* The sessions there were only end.
OldEnd ==
  \A t \in 1..Len(sessions) :
    /\ sessions'[t].live => sessions[t].live
    /\ sessions'[t].expires = sessions[t].expires

\* What was no stray and has become one was held, and nobody lets go of it but
\* who has another cookie now.
LEMMA OldStrays ==
  ASSUME AccountTypeOK, AccountTypeOK', setup' = setup, clock <= clock', OldEnd,
         NEW t \in 1..Len(sessions), t \in Strays'
  PROVE  t \in Strays \/ \E b \in Browsers : cookie[b] = t /\ cookie'[b] # t
<1>1. Len(sessions) \in Nat /\ DOMAIN sessions = 1..Len(sessions) /\ sessions[t] \in Session
  BY DEF AccountTypeOK
<1>2. sessions'[t].live /\ \A b \in Browsers : cookie'[b] # t
  BY DEF Strays, Serves
<1>3. clock \in Nat /\ clock' \in Nat /\ sessions[t].expires \in Nat
  <2>1. clock \in Nat /\ clock' \in Nat
    BY DEF AccountTypeOK
  <2>2. QED
    BY <1>1, <2>1 DEF Session
<1>4. ~Expired(sessions[t])
  <2>1. ~(IF Central THEN clock' >= sessions[t].expires ELSE clock' > sessions[t].expires)
    <3>1. sessions'[t].expires = sessions[t].expires
      BY DEF OldEnd
    <3>2. t \in Strays' /\ Central' = Central
      BY DEF Central
    <3>3. QED
      BY <3>1, <3>2 DEF Strays, Serves, Expired
  <2>2. QED
    BY <1>3, <2>1 DEF Expired
<1>5. sessions[t].live
  BY <1>2 DEF OldEnd
<1>6. CASE \A b \in Browsers : cookie[b] # t
  BY <1>1, <1>4, <1>5, <1>6 DEF Strays, Serves
<1>7. QED
  BY <1>2, <1>6

\* Strays of a step after which no browser has let go of a session that serves.
LEMMA NoNewStrays ==
  ASSUME AccountTypeOK, AccountTypeOK', setup' = setup, clock <= clock', OldEnd,
         LetsGoOfTheDead, Len(sessions') = Len(sessions)
  PROVE  Strays' \subseteq Strays
<1>1. ASSUME NEW t \in Strays' PROVE t \in Strays
  <2>1. t \in 1..Len(sessions) /\ sessions'[t].live
    BY DEF Strays, AccountTypeOK, Serves
  <2>2. QED
    BY <2>1, OldStrays DEF LetsGoOfTheDead
<1>2. QED
  BY <1>1

\* Who creates is still without a session that serves.
LEMMA CreatorsKeep ==
  ASSUME AccountTypeOK, CreatorsCarryNothing, OldEnd,
         \A tab \in Tabs : req'[tab].pc = "create" =>
           \/ req'[tab].token = 0
           \/ ~sessions'[req'[tab].token].live
           \/ req[tab].pc = "create" /\ req'[tab].token = req[tab].token
  PROVE  CreatorsCarryNothing'
<1>1. ASSUME NEW tab \in Tabs, req'[tab].pc = "create"
      PROVE  req'[tab].token = 0 \/ ~sessions'[req'[tab].token].live
  <2>1. CASE /\ req[tab].pc = "create" /\ req'[tab].token = req[tab].token
             /\ req[tab].token # 0
    <3>1. req[tab].token \in 1..Len(sessions)
      BY <2>1 DEF AccountTypeOK
    <3>2. ~sessions[req[tab].token].live
      BY <2>1 DEF CreatorsCarryNothing
    <3>3. QED
      BY <2>1, <3>1, <3>2 DEF OldEnd
  <2>2. QED
    BY <1>1, <2>1
<1>2. QED
  BY <1>1 DEF CreatorsCarryNothing

\* Steps after which the same tabs wait with the same tokens.
LEMMA GoingOnIsPaid ==
  ASSUME AccountTypeOK, AccountTypeOK', Paid, overlaps' = overlaps, faults <= faults',
         cookie' = cookie, Strays' \subseteq Strays, Waiting' = Waiting,
         \A tab \in Waiting : req'[tab].token = req[tab].token
  PROVE  Paid'
<1>1. Calm' = Calm
  BY DEF Calm, Fresh
<1>2. Cardinality(Strays') <= Cardinality(Strays)
  BY StraysAreFinite, FS_Subset
<1>3. (Cardinality(Strays) \in Nat /\ Cardinality(Waiting) \in Nat /\ Cardinality(Calm) \in Nat)'
  BY StraysAreFinite, PTL
<1>4. /\ faults \in Nat /\ overlaps \in Nat /\ faults' \in Nat
      /\ Cardinality(Strays) \in Nat /\ Cardinality(Waiting) \in Nat /\ Cardinality(Calm) \in Nat
  BY StraysAreFinite DEF AccountTypeOK
<1>5. Cardinality(Strays') + Cardinality(Waiting') <= faults' + overlaps' + Cardinality(Calm')
  BY <1>1, <1>2, <1>3, <1>4 DEF Paid
<1>6. QED
  BY <1>5 DEF Paid

\* An answer: one waits less.  It costs a stray at most, and only after a fault
\* or as the answer of a stale request.
LEMMA AnswersArePaid ==
  ASSUME AccountTypeOK, AccountTypeOK', Paid, overlaps' = overlaps,
         NEW tab \in Waiting, req' = [req EXCEPT ![tab] = NoRequest],
         \A b \in Browsers : b # BrowserOf[tab] => cookie'[b] = cookie[b],
         NEW x,
         \/ Strays' \subseteq Strays /\ faults <= faults'
         \/ Strays' \subseteq Strays \cup {x} /\ faults' = faults + 1
         \/ Strays' \subseteq Strays \cup {x} /\ faults' = faults /\ ~Fresh(tab)
  PROVE  Paid'
<1> DEFINE mine == BrowserOf[tab]
<1>1. tab \in Tabs /\ mine \in Browsers
  BY AccountAssumption DEF Waiting
<1>2. /\ \A other \in Tabs : other # tab => req'[other] = req[other]
      /\ req'[tab].pc = Idle
  BY <1>1, NoRequestType DEF AccountTypeOK
<1>3. Waiting' = Waiting \ {tab}
  BY <1>2 DEF Waiting, Busy
<1>4. \A b \in Calm : b # mine => b \in Calm'
  <2> SUFFICES ASSUME NEW b \in Calm, b # mine PROVE b \in Calm'
    OBVIOUS
  <2>1. PICK other \in Waiting : BrowserOf[other] = b
    BY DEF Calm
  <2>2. other \in Waiting'
    BY <1>3, <2>1
  <2>3. ASSUME NEW o \in Waiting', BrowserOf[o] = b PROVE Fresh(o)'
    <3>1. o \in Waiting /\ o \in Tabs /\ o # tab
      BY <1>3, <2>3 DEF Waiting
    <3>2. Fresh(o) /\ req'[o] = req[o] /\ cookie'[b] = cookie[b]
      BY <1>2, <2>3, <3>1 DEF Calm
    <3>3. QED
      BY <2>3, <3>2 DEF Fresh
  <2>4. QED
    BY <2>1, <2>2, <2>3 DEF Calm
<1>5. ~Fresh(tab) => mine \notin Calm
  BY DEF Calm
<1>6. Calm \subseteq Calm' \cup {mine} /\ (~Fresh(tab) => Calm \subseteq Calm')
  BY <1>4, <1>5
<1>7. /\ IsFiniteSet(Strays) /\ Cardinality(Strays) \in Nat
      /\ IsFiniteSet(Waiting) /\ Cardinality(Waiting) \in Nat
      /\ IsFiniteSet(Calm) /\ Cardinality(Calm) \in Nat
      /\ faults \in Nat /\ overlaps \in Nat /\ faults' \in Nat
  BY StraysAreFinite DEF AccountTypeOK
<1>8. (/\ IsFiniteSet(Strays) /\ Cardinality(Strays) \in Nat
       /\ IsFiniteSet(Waiting) /\ Cardinality(Waiting) \in Nat
       /\ IsFiniteSet(Calm) /\ Cardinality(Calm) \in Nat)'
  BY StraysAreFinite, PTL
<1>9. Cardinality(Waiting') = Cardinality(Waiting) - 1
  BY <1>3, <1>7, FS_RemoveElement
<1>10. /\ Cardinality(Calm) <= Cardinality(Calm') + 1
       /\ ~Fresh(tab) => Cardinality(Calm) <= Cardinality(Calm')
  <2>1. Cardinality(Calm) <= Cardinality(Calm') + 1
    BY <1>6, <1>7, <1>8, OneMore
  <2>2. ~Fresh(tab) => Cardinality(Calm) <= Cardinality(Calm')
    BY <1>6, <1>8, FS_Subset
  <2>3. QED
    BY <2>1, <2>2
<1>11. Strays' \subseteq Strays => Cardinality(Strays') <= Cardinality(Strays)
  BY <1>7, FS_Subset
<1>12. Strays' \subseteq Strays \cup {x} => Cardinality(Strays') <= Cardinality(Strays) + 1
  BY <1>7, <1>8, OneMore
<1>13. Cardinality(Strays') + Cardinality(Waiting') <= faults' + overlaps' + Cardinality(Calm')
  BY <1>7, <1>8, <1>9, <1>10, <1>11, <1>12 DEF Paid
<1>14. QED
  BY <1>13 DEF Paid

\* A request that finds no other of its browser in progress is fresh, and its
\* browser is calm; another one is counted.
LEMMA SendingIsPaid ==
  ASSUME AccountTypeOK, AccountTypeOK', Paid, NEW tab \in Tabs, NEW request \in Request,
         request.pc # Idle, Send(tab, request), Strays' \subseteq Strays
  PROVE  Paid'
<1> DEFINE mine == BrowserOf[tab]
<1>1. /\ mine \in Browsers
      /\ req'[tab].pc # Idle /\ req'[tab].token = cookie[mine]
      /\ \A other \in Tabs : other # tab => req'[other] = req[other]
      /\ UNCHANGED <<cookie, faults>> /\ ~Busy(tab)
  BY SendFacts DEF Send
<1>2. Waiting' = Waiting \cup {tab} /\ tab \notin Waiting
  BY <1>1 DEF Waiting, Busy
<1>3. \A o \in Waiting : BrowserOf[o] \in Browsers /\ (Fresh(o)' <=> Fresh(o))
  BY <1>1, <1>2, AccountAssumption DEF Fresh, Waiting
<1>4. Fresh(tab)'
  BY <1>1 DEF Fresh
<1>5. Calm \subseteq Calm'
  <2> SUFFICES ASSUME NEW b \in Calm PROVE b \in Calm'
    OBVIOUS
  <2>1. b \in Browsers /\ \E o \in Waiting' : BrowserOf[o] = b
    BY <1>2 DEF Calm
  <2>2. \A o \in Waiting' : BrowserOf[o] = b => Fresh(o)'
    BY <1>2, <1>3, <1>4 DEF Calm
  <2>3. QED
    BY <2>1, <2>2 DEF Calm
<1>6. /\ IsFiniteSet(Strays) /\ Cardinality(Strays) \in Nat
      /\ IsFiniteSet(Waiting) /\ Cardinality(Waiting) \in Nat
      /\ IsFiniteSet(Calm) /\ Cardinality(Calm) \in Nat
      /\ faults \in Nat /\ overlaps \in Nat
  BY StraysAreFinite DEF AccountTypeOK
<1>7. (/\ IsFiniteSet(Strays) /\ Cardinality(Strays) \in Nat
       /\ IsFiniteSet(Waiting) /\ Cardinality(Waiting) \in Nat
       /\ IsFiniteSet(Calm) /\ Cardinality(Calm) \in Nat)'
  BY StraysAreFinite, PTL
<1>8. Cardinality(Waiting') = Cardinality(Waiting) + 1
  BY <1>2, <1>6, FS_AddElement
<1>9. Cardinality(Strays') <= Cardinality(Strays) /\ Cardinality(Calm) <= Cardinality(Calm')
  BY <1>5, <1>6, <1>7, FS_Subset
<1>10. \/ overlaps' = overlaps + 1
       \/ overlaps' = overlaps /\ Cardinality(Calm) + 1 <= Cardinality(Calm')
  <2>1. CASE \E other \in Tabs : BrowserOf[other] = mine /\ Busy(other)
    BY <1>6, <2>1 DEF Send
  <2>2. CASE ~\E other \in Tabs : BrowserOf[other] = mine /\ Busy(other)
    <3>1. overlaps' = overlaps
      BY <1>6, <2>2 DEF Send
    <3>2. \A o \in Waiting : BrowserOf[o] # mine
      BY <2>2 DEF Waiting
    <3>3. mine \notin Calm
      BY <3>2 DEF Calm
    <3>4. mine \in Calm'
      BY <1>1, <1>2, <1>4, <3>2 DEF Calm
    <3>5. Calm \cup {mine} \subseteq Calm'
      BY <1>5, <3>4
    <3>6. IsFiniteSet(Calm \cup {mine}) /\ Cardinality(Calm \cup {mine}) = Cardinality(Calm) + 1
      BY <1>6, <3>3, FS_AddElement
    <3>7. Cardinality(Calm \cup {mine}) <= Cardinality(Calm')
      BY <1>7, <3>5, FS_Subset
    <3>8. QED
      BY <3>1, <3>6, <3>7
  <2>3. QED
    BY <2>1, <2>2
<1>11. Cardinality(Strays') + Cardinality(Waiting') <= faults' + overlaps' + Cardinality(Calm')
  BY <1>1, <1>6, <1>7, <1>8, <1>9, <1>10 DEF Paid
<1>12. QED
  BY <1>11 DEF Paid

\* Steps that neither open nor end a session, nor let go of one.
LEMMA NothingEnds ==
  ASSUME AccountTypeOK, sessions' = sessions, cookie' = cookie
  PROVE  OnlyEnd /\ OldEnd /\ LetsGoOfTheDead
BY DEF AccountTypeOK, OnlyEnd, OldEnd, LetsGoOfTheDead

\* A step of a request that leaves the cookies alone and opens no session.
LEMMA OrdinaryStep ==
  ASSUME AccountTypeOK, AccountTypeOK', SessionInv, NEW tab \in Waiting,
         setup' = setup, clock' = clock, cookie' = cookie, overlaps' = overlaps,
         OnlyEnd, Fault \/ faults' = faults,
         \/ Answer(tab)
         \/ /\ req'[tab].pc # Idle /\ req'[tab].token = req[tab].token
            /\ \A other \in Tabs : other # tab => req'[other] = req[other]
            /\ req'[tab].pc = "create" =>
                 req[tab].token = 0 \/ ~sessions'[req[tab].token].live
  PROVE  SessionInv'
<1>1. tab \in Tabs /\ faults \in Nat /\ clock \in Nat /\ req \in [Tabs -> Request]
  BY DEF Waiting, AccountTypeOK
<1>2. faults <= faults' /\ clock <= clock'
  BY <1>1 DEF Fault
<1>3. OldEnd /\ LetsGoOfTheDead /\ Len(sessions') = Len(sessions)
  BY DEF OnlyEnd, OldEnd, LetsGoOfTheDead
<1>4. Strays' \subseteq Strays
  BY <1>2, <1>3, NoNewStrays
<1>5. CASE Answer(tab)
  <2>1. req' = [req EXCEPT ![tab] = NoRequest]
    BY <1>5 DEF Answer
  <2>2. Paid'
    BY <1>2, <1>4, <2>1, AnswersArePaid DEF SessionInv
  <2>3. \A other \in Tabs : req'[other].pc = "create" => req'[other] = req[other]
    BY <1>1, <2>1, NoRequestType DEF Idle
  <2>4. CreatorsCarryNothing'
    BY <1>3, <2>3, CreatorsKeep DEF SessionInv
  <2>5. QED
    BY <2>2, <2>4 DEF SessionInv
<1>6. CASE /\ req'[tab].pc # Idle /\ req'[tab].token = req[tab].token
           /\ \A other \in Tabs : other # tab => req'[other] = req[other]
           /\ req'[tab].pc = "create" =>
                req[tab].token = 0 \/ ~sessions'[req[tab].token].live
  <2>1. Waiting' = Waiting
    BY <1>6 DEF Waiting, Busy
  <2>2. \A other \in Waiting : req'[other].token = req[other].token
    BY <1>6 DEF Waiting
  <2>3. Paid'
    BY <1>2, <1>4, <2>1, <2>2, GoingOnIsPaid DEF SessionInv
  <2>4. CreatorsCarryNothing'
    BY <1>3, <1>6, CreatorsKeep DEF SessionInv
  <2>5. QED
    BY <2>3, <2>4 DEF SessionInv
<1>7. QED
  BY <1>5, <1>6

\* The one who lets go of a session is the browser whose cookie is replaced: it
\* lost one that serves only if the request was stale.
LEMMA ReplacingStrays ==
  ASSUME AccountTypeOK, AccountTypeOK', setup' = setup, clock' = clock, OldEnd,
         NEW tab \in Tabs,
         \A b \in Browsers : b # BrowserOf[tab] => cookie'[b] = cookie[b],
         req[tab].token = 0 \/ ~sessions'[req[tab].token].live,
         Strays' \subseteq 1..Len(sessions)
  PROVE  /\ Strays' \subseteq Strays \cup {cookie[BrowserOf[tab]]}
         /\ Fresh(tab) => Strays' \subseteq Strays
<1>1. clock <= clock' /\ BrowserOf[tab] \in Browsers
  BY AccountAssumption DEF AccountTypeOK
<1>2. ASSUME NEW t \in Strays', t \notin Strays
      PROVE  t = cookie[BrowserOf[tab]] /\ ~Fresh(tab)
  <2>1. t \in 1..Len(sessions) /\ sessions'[t].live
    BY <1>2 DEF Strays, Serves
  <2>2. PICK b \in Browsers : cookie[b] = t /\ cookie'[b] # t
    BY <1>1, <1>2, <2>1, OldStrays
  <2>3. b = BrowserOf[tab]
    BY <2>2
  <2>4. t # 0 /\ req[tab].token # t
    BY <2>1
  <2>5. QED
    BY <2>2, <2>3, <2>4 DEF Fresh
<1>3. QED
  BY <1>2

\* A session is opened after all others: held by its browser, which may have
\* let go of another, or a stray that costs a fault.
LEMMA OpeningKeeps ==
  ASSUME AccountTypeOK, AccountTypeOK', SessionInv, NEW tab \in Tabs, CreateSession(tab)
  PROVE  SessionInv'
<1> DEFINE n == Len(sessions)
<1> DEFINE mine == BrowserOf[tab]
<1> DEFINE opened == Append(sessions,
      [email |-> req[tab].email, expires |-> clock + TTL, live |-> TRUE])
<1>1. /\ setup' = setup /\ clock' = clock /\ n \in Nat /\ clock \in Nat
      /\ cookie \in [Browsers -> 0..n] /\ req \in [Tabs -> Request]
      /\ mine \in Browsers /\ overlaps' = overlaps /\ faults \in Nat
      /\ req[tab].token \in 0..n
  BY AccountAssumption DEF CreateSession, AccountTypeOK
<1>2. req' = [req EXCEPT ![tab] = NoRequest]
  BY DEF CreateSession, Fails, Answer
<1>3. tab \in Waiting
  BY DEF CreateSession, Waiting, Busy, Idle
<1>4. sessions' = sessions \/ sessions' = opened
  BY DEF CreateSession
<1>5. /\ n <= Len(sessions') /\ Len(sessions') \in Nat
      /\ Len(sessions') <= n + 1
      /\ \A t \in 1..n : sessions'[t] = sessions[t]
  BY <1>1, <1>4, OpenedFacts
<1>6. OldEnd
  BY <1>5 DEF OldEnd
<1>7. req[tab].token = 0 \/ ~sessions'[req[tab].token].live
  BY <1>1, <1>5 DEF CreateSession, SessionInv, CreatorsCarryNothing
<1>8. Strays' \subseteq 1..Len(sessions')
  BY DEF Strays, AccountTypeOK
<1>9. Paid'
  <2>1. CASE cookie' = [cookie EXCEPT ![mine] = Len(opened)] /\ sessions' = opened
             /\ faults' = faults
    <3>1. Len(sessions') = n + 1 /\ cookie'[mine] = n + 1
      BY <1>1, <2>1, OpenedFacts
    <3>2. n + 1 \notin Strays'
      BY <1>1, <3>1 DEF Strays
    <3>3. Strays' \subseteq 1..n
      BY <1>1, <1>8, <3>1, <3>2
    <3>4. \A b \in Browsers : b # mine => cookie'[b] = cookie[b]
      BY <1>1, <2>1
    <3>5. Strays' \subseteq Strays \cup {cookie[mine]} /\ (Fresh(tab) => Strays' \subseteq Strays)
      BY <1>1, <1>6, <1>7, <3>3, <3>4, ReplacingStrays
    <3>6. \/ Strays' \subseteq Strays /\ faults <= faults'
          \/ Strays' \subseteq Strays \cup {cookie[mine]} /\ faults' = faults /\ ~Fresh(tab)
      BY <1>1, <2>1, <3>5
    <3>7. Paid /\ overlaps' = overlaps
      BY <1>1 DEF SessionInv
    <3> HIDE DEF mine, n, opened
    <3>8. QED
      BY <1>2, <1>3, <3>4, <3>6, <3>7, AnswersArePaid DEF mine
  <2>2. CASE Fault /\ cookie' = cookie
    <3>1. faults' = faults + 1
      BY <2>2 DEF Fault
    <3>2. ASSUME NEW t \in Strays', t \notin Strays PROVE t = n + 1
      <4>1. CASE t \in 1..n
        BY <1>1, <1>6, <2>2, <3>2, <4>1, OldStrays
      <4>2. QED
        BY <1>1, <1>5, <1>8, <4>1
    <3>3. Strays' \subseteq Strays \cup {n + 1}
      BY <3>2
    <3>4. QED
      BY <1>1, <1>2, <1>3, <2>2, <3>1, <3>3, AnswersArePaid DEF SessionInv
  <2>3. QED
    BY <2>1, <2>2 DEF CreateSession, Fails
<1>10. CreatorsCarryNothing'
  <2>1. \A other \in Tabs : req'[other].pc = "create" => req'[other] = req[other]
    BY <1>1, <1>2, NoRequestType DEF Idle
  <2>2. QED
    BY <1>6, <2>1, CreatorsKeep DEF SessionInv
<1>11. QED
  BY <1>9, <1>10 DEF SessionInv

\* A logout that is answered takes the cookie whatever it is by then.
LEMMA LogoutKeeps ==
  ASSUME AccountTypeOK, AccountTypeOK', SessionInv, NEW tab \in Tabs, Logout(tab)
  PROVE  SessionInv'
<1> DEFINE mine == BrowserOf[tab]
<1>1. /\ setup' = setup /\ clock' = clock /\ overlaps' = overlaps
      /\ cookie \in [Browsers -> 0..Len(sessions)] /\ req \in [Tabs -> Request]
      /\ mine \in Browsers /\ sessions \in Seq(Session) /\ Len(sessions) \in Nat
      /\ req[tab].token \in 0..Len(sessions)
  BY AccountAssumption DEF Logout, AccountTypeOK
<1>2. tab \in Waiting
  BY DEF Logout, Waiting, Busy, Idle
<1>3. OnlyEnd
  <2>1. sessions' = sessions \/ sessions' = Ended(req[tab].token)
    BY DEF Logout
  <2>2. CASE sessions' = sessions
    BY <1>1, <2>2 DEF OnlyEnd
  <2>3. QED
    BY <1>1, <2>1, <2>2, EndedFacts
<1>4. Answer(tab) /\ req' = [req EXCEPT ![tab] = NoRequest]
  BY DEF Logout, Fails, Answer
<1>5. CASE cookie' = [cookie EXCEPT ![mine] = 0] /\ faults' = faults
           /\ sessions' = IF req[tab].token # 0 THEN Ended(req[tab].token) ELSE sessions
  <2>1. OldEnd /\ Len(sessions') = Len(sessions)
    BY <1>3 DEF OnlyEnd, OldEnd
  <2>2. \A b \in Browsers : b # mine => cookie'[b] = cookie[b]
    BY <1>1, <1>5
  <2>3. req[tab].token = 0 \/ ~sessions'[req[tab].token].live
    <3>1. CASE req[tab].token # 0
      <4>1. req[tab].token \in DOMAIN sessions /\ sessions' = Ended(req[tab].token)
        BY <1>1, <1>5, <3>1
      <4>2. QED
        BY <1>1, <4>1, EndedFacts
    <3>2. QED
      BY <3>1
  <2>4. Strays' \subseteq 1..Len(sessions)
    BY <2>1 DEF Strays, AccountTypeOK
  <2>5. Strays' \subseteq Strays \cup {cookie[mine]} /\ (Fresh(tab) => Strays' \subseteq Strays)
    BY <1>1, <2>1, <2>2, <2>3, <2>4, ReplacingStrays
  <2>6. faults \in Nat
    BY DEF AccountTypeOK
  <2>7. Paid'
    <3>1. \/ Strays' \subseteq Strays /\ faults <= faults'
          \/ Strays' \subseteq Strays \cup {cookie[mine]} /\ faults' = faults /\ ~Fresh(tab)
      BY <1>5, <2>5, <2>6
    <3>2. Paid /\ overlaps' = overlaps
      BY <1>1 DEF SessionInv
    <3> HIDE DEF mine
    <3>3. QED
      BY <1>2, <1>4, <2>2, <3>1, <3>2, AnswersArePaid DEF mine
  <2>8. \A other \in Tabs : req'[other].pc = "create" => req'[other] = req[other]
    BY <1>1, <1>4, NoRequestType DEF Idle
  <2>9. CreatorsCarryNothing'
    BY <2>1, <2>8, CreatorsKeep DEF SessionInv
  <2>10. QED
    BY <2>7, <2>9 DEF SessionInv
<1>6. CASE cookie' = cookie /\ Fault
  BY <1>1, <1>2, <1>3, <1>4, <1>6, OrdinaryStep
<1>7. QED
  BY <1>5, <1>6 DEF Logout, Fails

\* vod-web stops: nobody waits any more, so that no calm browser is needed to
\* pay for anyone.
LEMMA RestartKeeps ==
  ASSUME AccountTypeOK, AccountTypeOK', SessionInv, Restart
  PROVE  SessionInv'
<1>1. /\ sessions \in Seq(Session) /\ clock \in Nat /\ faults \in Nat /\ overlaps \in Nat
      /\ DOMAIN sessions = 1..Len(sessions)
  BY DEF AccountTypeOK
<1>2. UNCHANGED <<setup, cookie, clock, overlaps>> /\ faults' = faults + 1
  BY DEF Restart, Fault
<1>3. sessions' = sessions \/
      sessions' = [t \in DOMAIN sessions |-> [sessions[t] EXCEPT !.live = FALSE]]
  BY DEF Restart
<1>4. OnlyEnd
  <2>1. /\ DOMAIN sessions' = DOMAIN sessions
        /\ sessions' = [t \in DOMAIN sessions' |-> sessions'[t]]
        /\ \A t \in DOMAIN sessions :
             \/ sessions'[t] = sessions[t]
             \/ sessions'[t] = [sessions[t] EXCEPT !.live = FALSE]
    <3>1. CASE sessions' = sessions
      BY <1>1, <3>1
    <3>2. CASE sessions' = [t \in DOMAIN sessions |-> [sessions[t] EXCEPT !.live = FALSE]]
      BY <3>2
    <3>3. QED
      BY <1>3, <3>1, <3>2
  <2>2. QED
    BY <1>1, <2>1, SessionsEnd
<1>5. OldEnd /\ LetsGoOfTheDead /\ Len(sessions') = Len(sessions) /\ clock <= clock'
  BY <1>1, <1>2, <1>4 DEF OnlyEnd, OldEnd, LetsGoOfTheDead
<1>6. Strays' \subseteq Strays
  BY <1>2, <1>5, NoNewStrays
<1>7. \A tab \in Tabs : req'[tab].pc = Idle
  BY NoRequestType DEF Restart
<1>8. Waiting' = {} /\ Cardinality(Waiting') = 0
  BY <1>7, FS_EmptySet DEF Waiting, Busy
<1>9. /\ Cardinality(Strays') <= Cardinality(Strays)
      /\ Cardinality(Strays) \in Nat /\ Cardinality(Waiting) \in Nat
      /\ Cardinality(Calm) \in Nat /\ Cardinality(Calm) <= Cardinality(Waiting)
  BY <1>6, StraysAreFinite, FS_Subset
<1>10. (Cardinality(Strays) \in Nat /\ Cardinality(Calm) \in Nat)'
  BY StraysAreFinite, PTL
<1>11. Cardinality(Strays') + Cardinality(Waiting') <= faults' + overlaps' + Cardinality(Calm')
  BY <1>1, <1>2, <1>8, <1>9, <1>10 DEF SessionInv, Paid
<1>12. CreatorsCarryNothing'
  BY <1>7 DEF CreatorsCarryNothing, Idle
<1>13. QED
  BY <1>11, <1>12 DEF SessionInv, Paid

\* Every step keeps the sessions in order.
LEMMA SessionStep ==
  ASSUME AccountTypeOK, AccountTypeOK', SessionInv, AccountNext
  PROVE  SessionInv'
<1>t. /\ sessions \in Seq(Session) /\ Len(sessions) \in Nat
      /\ DOMAIN sessions = 1..Len(sessions)
      /\ req \in [Tabs -> Request] /\ cookie \in [Browsers -> 0..Len(sessions)]
      /\ clock \in Nat /\ faults \in Nat
      /\ \A tab \in Tabs : req[tab].token \in 0..Len(sessions)
  BY DEF AccountTypeOK
<1>1. ASSUME NEW tab \in Tabs, NEW request \in Request, Send(tab, request),
             request.pc \in {"limit", "end"}
      PROVE  SessionInv'
  <2>1. UNCHANGED <<setup, sessions, cookie, clock, faults>>
    BY <1>1 DEF Send
  <2>2. OldEnd /\ LetsGoOfTheDead /\ clock <= clock'
    BY <1>t, <2>1, NothingEnds
  <2>3. Strays' \subseteq Strays
    BY <2>1, <2>2, NoNewStrays
  <2>4. Paid'
    BY <1>1, <2>3, SendingIsPaid DEF SessionInv, Idle
  <2>5. \A other \in Tabs : req'[other].pc = "create" => req'[other] = req[other]
    BY <1>1, SendFacts
  <2>6. CreatorsCarryNothing'
    BY <2>2, <2>5, CreatorsKeep DEF SessionInv
  <2>7. QED
    BY <2>4, <2>6 DEF SessionInv
<1>2. ASSUME NEW tab \in Tabs,
             BeginLogout(tab) \/ \E a \in Actions, e \in Emails : Begin(tab, a, e)
      PROVE  SessionInv'
  BY <1>1, <1>2, SentFacts DEF Begin, BeginLogout
<1>3. ASSUME NEW tab \in Tabs, Throttle(tab) PROVE SessionInv'
  <2>1. Answer(tab) \/ Goto(tab, "count") \/ Goto(tab, "check")
    BY <1>3 DEF Throttle, Fails
  <2>2. \/ Answer(tab)
        \/ /\ req'[tab].pc \in {"count", "check"} /\ req'[tab].token = req[tab].token
           /\ \A other \in Tabs : other # tab => req'[other] = req[other]
    BY <2>1, <1>t, RequestMoves DEF Steps
  <2>3. UNCHANGED <<setup, sessions, cookie, clock, overlaps>> /\ (Fault \/ faults' = faults)
    BY <1>3 DEF Throttle, Fails
  <2>4. tab \in Waiting /\ OnlyEnd
    BY <1>3, <2>3, NothingEnds DEF Throttle, Waiting, Busy, Idle
  <2>5. QED
    BY <2>2, <2>3, <2>4, OrdinaryStep DEF Idle
<1>4. ASSUME NEW tab \in Tabs, CountUsers(tab) PROVE SessionInv'
  <2>1. \/ Answer(tab)
        \/ /\ req'[tab].pc = "insert" /\ req'[tab].token = req[tab].token
           /\ \A other \in Tabs : other # tab => req'[other] = req[other]
    <3>1. CASE req' = [req EXCEPT ![tab].pc = "insert", ![tab].bootstrap = (users = <<>>)]
      <4>1. /\ req'[tab] = [req[tab] EXCEPT !.pc = "insert", !.bootstrap = (users = <<>>)]
            /\ \A other \in Tabs : other # tab => req'[other] = req[other]
            /\ req[tab] \in Request
        BY <1>t, <3>1
      <4>2. req'[tab].pc = "insert" /\ req'[tab].token = req[tab].token
        BY <4>1 DEF Request
      <4>3. QED
        BY <4>1, <4>2
    <3>2. QED
      BY <1>4, <3>1 DEF CountUsers, Fails
  <2>2. UNCHANGED <<setup, sessions, cookie, clock, overlaps>> /\ (Fault \/ faults' = faults)
    BY <1>4 DEF CountUsers, Fails
  <2>3. tab \in Waiting /\ OnlyEnd
    BY <1>4, <2>2, NothingEnds DEF CountUsers, Waiting, Busy, Idle
  <2>4. QED
    BY <2>1, <2>2, <2>3, OrdinaryStep DEF Idle
<1>5. ASSUME NEW tab \in Tabs, Register(tab) \/ Authenticate(tab) PROVE SessionInv'
  <2>1. Answer(tab) \/ Authenticated(tab)
    BY <1>5 DEF Register, Authenticate, Fails
  <2>2. UNCHANGED <<setup, sessions, cookie, clock, overlaps>> /\ (Fault \/ faults' = faults)
    BY <1>5 DEF Register, Authenticate, Fails
  <2>3. \/ Answer(tab)
        \/ /\ req'[tab].pc # Idle /\ req'[tab].token = req[tab].token
           /\ \A other \in Tabs : other # tab => req'[other] = req[other]
           /\ req'[tab].pc = "create" => req[tab].token = 0
    BY <2>1, <1>t, RequestMoves DEF Authenticated, Steps, Idle
  <2>4. tab \in Waiting /\ OnlyEnd
    BY <1>5, <2>2, NothingEnds DEF Register, Authenticate, Waiting, Busy, Idle
  <2>5. QED
    BY <2>2, <2>3, <2>4, OrdinaryStep
<1>6. ASSUME NEW tab \in Tabs, DropPrevious(tab) PROVE SessionInv'
  <2>1. Answer(tab) \/ (sessions' = Ended(req[tab].token) /\ Goto(tab, "create"))
    BY <1>6 DEF DropPrevious, Fails
  <2>2. UNCHANGED <<setup, cookie, clock, overlaps>> /\ (Fault \/ faults' = faults)
    BY <1>6 DEF DropPrevious, Fails
  <2>3. OnlyEnd
    <3>1. sessions' = sessions \/ sessions' = Ended(req[tab].token)
      BY <1>6 DEF DropPrevious
    <3>2. QED
      BY <1>t, <2>2, <3>1, NothingEnds, EndedFacts
  <2>4. tab \in Waiting
    BY <1>6 DEF DropPrevious, Waiting, Busy, Idle
  <2>5. \/ Answer(tab)
        \/ /\ req'[tab].pc # Idle /\ req'[tab].token = req[tab].token
           /\ \A other \in Tabs : other # tab => req'[other] = req[other]
           /\ req[tab].token = 0 \/ ~sessions'[req[tab].token].live
    <3>1. CASE sessions' = Ended(req[tab].token) /\ Goto(tab, "create")
      <4>1. /\ req'[tab].pc # Idle /\ req'[tab].token = req[tab].token
            /\ \A other \in Tabs : other # tab => req'[other] = req[other]
        BY <1>t, <3>1, RequestMoves DEF Steps, Idle
      <4>2. req[tab].token = 0 \/ req[tab].token \in DOMAIN sessions
        BY <1>t
      <4>3. QED
        BY <1>t, <3>1, <4>1, <4>2, EndedFacts
    <3>2. QED
      BY <2>1, <3>1
  <2>6. QED
    BY <2>2, <2>3, <2>4, <2>5, OrdinaryStep
<1>7. ASSUME NEW tab \in Tabs, CreateSession(tab) PROVE SessionInv'
  BY <1>7, OpeningKeeps
<1>8. ASSUME NEW tab \in Tabs, Logout(tab) PROVE SessionInv'
  BY <1>8, LogoutKeeps
<1>9. ASSUME UNCHANGED <<setup, cookie, req, faults, overlaps>>, clock <= clock', OnlyEnd
      PROVE  SessionInv'
  <2>1. OldEnd /\ LetsGoOfTheDead /\ Len(sessions') = Len(sessions)
    BY <1>9 DEF OnlyEnd, OldEnd, LetsGoOfTheDead
  <2>2. Strays' \subseteq Strays
    BY <1>9, <2>1, NoNewStrays
  <2>3. Waiting' = Waiting /\ \A tab \in Waiting : req'[tab].token = req[tab].token
    BY <1>9 DEF Waiting, Busy
  <2>4. Paid'
    BY <1>t, <1>9, <2>2, <2>3, GoingOnIsPaid DEF SessionInv
  <2>5. CreatorsCarryNothing'
    BY <1>9, <2>1, CreatorsKeep DEF SessionInv
  <2>6. QED
    BY <2>4, <2>5 DEF SessionInv
<1>10. ASSUME NEW b \in Browsers, Visit(b) PROVE SessionInv'
  <2>1. UNCHANGED <<setup, cookie, req, clock, faults, overlaps>>
    BY <1>10 DEF Visit
  <2>2. /\ DOMAIN sessions' = DOMAIN sessions
        /\ sessions' = [t \in DOMAIN sessions' |-> sessions'[t]]
        /\ \A t \in DOMAIN sessions :
             \/ sessions'[t] = sessions[t]
             \/ sessions'[t] = [sessions[t] EXCEPT !.live = FALSE]
    BY <1>t, <1>10 DEF Visit, Seen
  <2>3. OnlyEnd
    BY <1>t, <2>2, SessionsEnd
  <2>4. QED
    BY <1>t, <1>9, <2>1, <2>3
<1>11. CASE Tick
  <2>1. UNCHANGED <<setup, sessions, cookie, req, faults, overlaps>> /\ clock <= clock'
    BY <1>t, <1>11 DEF Tick
  <2>2. QED
    BY <1>t, <1>9, <2>1, NothingEnds
<1>12. CASE Restart
  BY <1>12, RestartKeeps
<1>13. QED
  BY <1>2, <1>3, <1>4, <1>5, <1>6, <1>7, <1>8, <1>10, <1>11, <1>12
  DEF AccountNext, AccountStep

-----------------------------------------------------------------------------
(* The installation: accounts behind migrations.                            *)

\* Nobody is registered and nobody waits for anything.
LEMMA AccountsBegin ==
  ASSUME AccountInit
  PROVE  AccountTypeOK /\ OneAdministrator /\ SessionInv
<1>1. users = <<>> /\ sessions = <<>> /\ Len(sessions) = 0 /\ DOMAIN sessions = {}
      /\ DOMAIN users = {}
  BY DEF AccountInit
<1>2. users \in Seq(User) /\ sessions \in Seq(Session)
  BY <1>1
<1>3. cookie \in [Browsers -> 0..Len(sessions)]
  BY <1>1 DEF AccountInit
<1>4. req \in [Tabs -> Request] /\ \A tab \in Tabs : req[tab].token \in 0..Len(sessions)
  <2>1. req = [tab \in Tabs |-> NoRequest] /\ NoRequest.token = 0
    BY DEF AccountInit, NoRequest
  <2>2. QED
    BY <1>1, <2>1, NoRequestType
<1>5. /\ meter \in [Actions -> [start : Nat, count : 0..Limit]]
      /\ passed \in [Actions -> [0..Horizon -> Nat]]
  BY AccountAssumption DEF AccountInit
<1>6. setup \in Setups /\ readable \in BOOLEAN
  BY DEF AccountInit
<1>7. /\ clock \in 0..Horizon /\ begun \in 0..MaxRequests /\ overlaps \in 0..begun
      /\ faults \in 0..MaxFaults
  BY AccountAssumption DEF AccountInit
<1>8. AccountTypeOK
  BY <1>2, <1>3, <1>4, <1>5, <1>6, <1>7 DEF AccountTypeOK
<1>9. OneAdministrator
  BY <1>1 DEF OneAdministrator
<1>10. Paid
  <2>1. Strays = {} /\ Cardinality(Strays) = 0 /\ faults = 0 /\ overlaps = 0
    BY <1>1, FS_EmptySet DEF Strays, AccountInit
  <2>2. Waiting = {} /\ Cardinality(Waiting) = 0
    BY NoRequestType, FS_EmptySet DEF Waiting, Busy, AccountInit
  <2>3. Cardinality(Calm) \in Nat
    BY <1>8, StraysAreFinite
  <2>4. QED
    BY <2>1, <2>2, <2>3 DEF Paid
<1>11. CreatorsCarryNothing
  BY NoRequestType DEF AccountInit, CreatorsCarryNothing, Idle
<1>12. QED
  BY <1>8, <1>9, <1>10, <1>11 DEF SessionInv

\* A step of the installation is one of the accounts or leaves them alone, and
\* the same of the migrations; only vod-web's stop is both.
LEMMA StartupSteps ==
  ASSUME [StartupNext]_startupVars
  PROVE  [AccountNext]_accountVars /\ [MigrationNext]_migrationVars
<1>1. CASE UNCHANGED startupVars
  BY <1>1 DEF startupVars
<1>2. CASE StartupNext
  BY <1>2, StartupAssumption DEF StartupNext, AccountNext, MigrationNext
<1>3. QED
  BY <1>1, <1>2

\* The invariant of the accounts, which needs nothing of the migrations.
AccountInv == AccountTypeOK /\ OneAdministrator /\ SessionInv

\* A step of the accounts keeps all of it.
LEMMA AccountInvStep ==
  ASSUME AccountInv, [AccountNext]_accountVars
  PROVE  AccountInv'
<1>1. CASE AccountNext
  <2>1. AccountTypeOK'
    BY <1>1, AccountTypeStep DEF AccountInv
  <2>2. QED
    BY <1>1, <2>1, OneAdministratorStep, SessionStep DEF AccountInv
<1>2. CASE UNCHANGED accountVars
  <2>1. AccountTypeOK'
    BY <1>2 DEF AccountInv, accountVars, AccountTypeOK
  <2>2. OneAdministrator'
    BY <1>2 DEF AccountInv, accountVars, OneAdministrator
  <2>3. SessionInv'
    BY <1>2 DEF AccountInv, accountVars, SessionInv, Paid, Strays, Waiting, Calm, Fresh, Busy,
                CreatorsCarryNothing, Serves, Expired, Central
  <2>4. QED
    BY <2>1, <2>2, <2>3 DEF AccountInv
<1>3. QED
  BY <1>1, <1>2

\* Both invariants hold of a vod-web that serves once it has migrated.
THEOREM StartupInvariantHolds == StartupSpec => [](AccountInv /\ MigrationInv)
<1>1. StartupInit => AccountInv /\ MigrationInv
  BY AccountsBegin, InitHolds DEF StartupInit, AccountInv
<1>2. AccountInv /\ MigrationInv /\ [StartupNext]_startupVars
        => (AccountInv /\ MigrationInv)'
  BY StartupSteps, AccountInvStep, NextHolds
<1>3. QED
  BY <1>1, <1>2, PTL DEF StartupSpec

\* Every variable keeps values of its kind; in particular no cookie names a
\* session that was never created, and no counter passes the limit (Allow).
THEOREM AccountsAreTyped == StartupSpec => []AccountTypeOK
<1>1. AccountInv => AccountTypeOK
  BY DEF AccountInv
<1>2. QED
  BY <1>1, StartupInvariantHolds, PTL

\* However many register at once, and whatever fails or restarts meanwhile, one
\* is the administrator, and no address has two accounts (handleAuthRegister,
\* Register).
THEOREM TheFirstIsTheAdministrator == StartupSpec => []OneAdministrator
<1>1. AccountInv => OneAdministrator
  BY DEF AccountInv
<1>2. QED
  BY <1>1, StartupInvariantHolds, PTL

\* Every session that serves and that no browser holds was paid for with a call
\* that failed, a restart, or a request that met another of the same browser
\* (handleAuthRegister, handleAuthLogin, handleAuthLogout).
THEOREM StraySessionsAreRare == StartupSpec => []StraySessionsNeedFaultsOrOverlaps
<1>1. AccountInv => StraySessionsNeedFaultsOrOverlaps
  <2> SUFFICES ASSUME AccountInv PROVE StraySessionsNeedFaultsOrOverlaps
    OBVIOUS
  <2>1. /\ Cardinality(Strays) \in Nat /\ Cardinality(Waiting) \in Nat
        /\ Cardinality(Calm) \in Nat /\ Cardinality(Calm) <= Cardinality(Waiting)
    BY StraysAreFinite DEF AccountInv
  <2>2. faults \in Nat /\ overlaps \in Nat
    BY DEF AccountInv, AccountTypeOK
  <2>3. Cardinality(Strays) <= faults + overlaps
    BY <2>1, <2>2 DEF AccountInv, SessionInv, Paid
  <2>4. QED
    BY <2>3 DEF StraySessionsNeedFaultsOrOverlaps, Strays
<1>2. QED
  BY <1>1, StartupInvariantHolds, PTL

\* Requests take nothing from what migrations guarantee (Migrate).
THEOREM MigrationsHoldBehindTheWeb == StartupSpec => []MigrationInv
<1>1. AccountInv /\ MigrationInv => MigrationInv
  OBVIOUS
<1>2. QED
  BY <1>1, StartupInvariantHolds, PTL
=============================================================================
