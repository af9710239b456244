------------------------------ MODULE Accounts ------------------------------
(***************************************************************************)
(* Registration, login, logout and sessions of vod-web, behind the limiter *)
(* of authentication requests.  Accounts are rows of PostgreSQL, or a file *)
(* that is rewritten in place; sessions and counters are keys of Redis, or *)
(* maps in the memory of the process.                                      *)
(***************************************************************************)
EXTENDS Integers, Sequences, FiniteSets, FiniteSetsExt, SequencesExt

CONSTANTS
  Browsers,    \* each holds one cookie
  Tabs,        \* each waits for one answer at a time
  BrowserOf,   \* the browser of a tab, whose cookie its requests carry
  Emails,
  Limit,       \* AuthRequestsPerMinute
  Window,      \* the minute, in ticks of the clock
  TTL,         \* SessionTTL, in ticks
  Horizon,     \* bound on the clock
  MaxRequests, \* bound on requests
  MaxFaults    \* bound on failed calls and restarts

ASSUME AccountAssumption ==
  /\ Emails # {}
  /\ IsFiniteSet(Tabs) /\ BrowserOf \in [Tabs -> Browsers]
  /\ Limit \in Nat \ {0} /\ Window \in Nat \ {0} /\ TTL \in Nat \ {0}
  /\ Horizon \in Nat /\ MaxRequests \in Nat /\ MaxFaults \in Nat

VARIABLES
  setup,     \* where accounts, and where sessions and counters are kept
  users,     \* the accounts in the order of their creation
  readable,  \* the file of accounts decodes
  sessions,  \* every session ever created: a token is an index
  cookie,    \* the token each browser holds, or 0
  req,       \* the request each tab waits for
  meter,     \* per action, the start of its window and the count
  passed,    \* history: how many requests passed the limiter at each tick
  clock,
  begun,     \* requests so far
  overlaps,  \* history: how many of them met another of their browser
  faults

accountVars ==
  <<setup, users, readable, sessions, cookie, req, meter, passed, clock, begun, overlaps,
    faults>>

Setups == [accounts : {"postgres", "file"}, sessions : {"redis", "memory"}]
Central == setup.sessions = "redis"
Roles == {"admin", "user"}
User == [email : Emails, role : Roles]
Session == [email : Emails, expires : Nat, live : BOOLEAN]
Actions == {"register", "login"}
Steps == {"limit", "count", "insert", "check", "drop", "create", "end"}
Idle == "idle"
Request == [pc : Steps \cup {Idle}, action : Actions \cup {"logout"},
            email : Emails, bootstrap : BOOLEAN, token : Nat]
NoRequest == [pc |-> Idle, action |-> "logout", email |-> CHOOSE e \in Emails : TRUE,
              bootstrap |-> FALSE, token |-> 0]

Busy(tab) == req[tab].pc # Idle
Emailed(e) == \E i \in DOMAIN users : users[i].email = e

AccountInit ==
  /\ setup \in Setups
  /\ users = <<>>
  /\ readable = TRUE
  /\ sessions = <<>>
  /\ cookie = [b \in Browsers |-> 0]
  /\ req = [tab \in Tabs |-> NoRequest]
  /\ meter = [a \in Actions |-> [start |-> 0, count |-> 0]]
  /\ passed = [a \in Actions |-> [t \in 0..Horizon |-> 0]]
  /\ clock = 0
  /\ begun = 0
  /\ overlaps = 0
  /\ faults = 0

Fault ==
  /\ faults < MaxFaults
  /\ faults' = faults + 1

Goto(tab, pc) == req' = [req EXCEPT ![tab].pc = pc]
\* The handler answers: what it asked for is done, refused or has failed.
Answer(tab) == req' = [req EXCEPT ![tab] = NoRequest]
Fails(tab) == Fault /\ Answer(tab)

\* A write of the file that fails may leave half of it.
FileAfterFailure == readable' \in {readable, readable /\ setup.accounts = "postgres"}

\* Redis drops a session when its time has come, the map one tick later.
Expired(session) ==
  IF Central THEN clock >= session.expires ELSE clock > session.expires

Serves(token) == sessions[token].live /\ ~Expired(sessions[token])

\* A tab sends its next request, which carries the cookie of its browser as it
\* is now, whatever the other tabs wait for.
Send(tab, request) ==
  /\ ~Busy(tab)
  /\ begun < MaxRequests
  /\ begun' = begun + 1
  /\ overlaps' = overlaps + IF \E other \in Tabs :
       BrowserOf[other] = BrowserOf[tab] /\ Busy(other) THEN 1 ELSE 0
  /\ req' = [req EXCEPT ![tab] = [request EXCEPT !.token = cookie[BrowserOf[tab]]]]
  /\ UNCHANGED <<setup, users, readable, sessions, cookie, meter, passed, clock, faults>>

Begin(tab, action, email) ==
  Send(tab, [NoRequest EXCEPT !.pc = "limit", !.action = action, !.email = email])

\* Only who has a session can log out.
BeginLogout(tab) ==
  LET token == cookie[BrowserOf[tab]] IN
  /\ token # 0 /\ Serves(token)
  /\ Send(tab, [NoRequest EXCEPT !.pc = "end"])

-----------------------------------------------------------------------------
(* allowAuthRequest: a window begins with the first request after the last  *)
(* one ended, and passes Limit requests.                                    *)

\* Mutant: the window ends a tick late.
CountLate(m) ==
  IF m.count = 0 \/ clock - m.start > Window
    THEN [start |-> clock, count |-> 1] ELSE [m EXCEPT !.count = @ + 1]

Count(m) ==
  IF m.count = 0 \/ clock - m.start >= Window
    THEN [start |-> clock, count |-> 1] ELSE [m EXCEPT !.count = @ + 1]

Least(i, j) == IF i <= j THEN i ELSE j

Throttle(tab) ==
  LET a == req[tab].action
      m == Count(meter[a]) IN
  /\ req[tab].pc = "limit"
  /\ \/ /\ m.count <= Limit
        /\ meter' = [meter EXCEPT ![a] = m]
        /\ passed' = [passed EXCEPT ![a][clock] = @ + 1]
        /\ Goto(tab, IF a = "register" THEN "count" ELSE "check")
        /\ UNCHANGED faults
     \/ /\ m.count > Limit
        /\ UNCHANGED <<meter, passed, faults>>
        /\ Answer(tab)
     \/ /\ Central
        /\ Fails(tab)
        /\ meter' \in {meter, [meter EXCEPT ![a] = [m EXCEPT !.count = Least(@, Limit)]]}
        /\ UNCHANGED passed
  /\ UNCHANGED <<setup, users, readable, sessions, cookie, clock, begun, overlaps>>

-----------------------------------------------------------------------------
(* handleAuthRegister.                                                      *)

\* UserCount; the first account needs the setup token.
CountUsers(tab) ==
  /\ req[tab].pc = "count"
  /\ \/ /\ readable
        /\ \/ req' = [req EXCEPT ![tab].pc = "insert", ![tab].bootstrap = (users = <<>>)]
           \/ users = <<>> /\ Answer(tab)
        /\ UNCHANGED faults
     \/ ~readable /\ Answer(tab) /\ UNCHANGED faults
     \/ Fails(tab)
  /\ UNCHANGED <<setup, users, readable, sessions, cookie, meter, passed, clock, begun, overlaps>>

\* Mutant: the count the handler read decides about the role.
NewUserTrusting(tab) ==
  [email |-> req[tab].email, role |-> IF req[tab].bootstrap THEN "admin" ELSE "user"]

\* The role of a new account.
NewUser(tab) ==
  [email |-> req[tab].email,
   role |-> IF users = <<>> /\ req[tab].bootstrap THEN "admin" ELSE "user"]

\* Mutant: nobody looks for the address again.
TakenBefore(tab) == users = <<>> /\ ~req[tab].bootstrap

\* There is an account of that address, or none and this is not the setup.
Taken(tab) == Emailed(req[tab].email) \/ (users = <<>> /\ ~req[tab].bootstrap)

Authenticated(tab) == Goto(tab, IF req[tab].token # 0 THEN "drop" ELSE "create")

\* Register: one transaction under a table lock, or one rewrite of the file
\* under the mutex.  The form itself may be refused too.
Register(tab) ==
  /\ req[tab].pc = "insert"
  /\ \/ Answer(tab) /\ UNCHANGED <<users, readable, faults>>
     \/ /\ readable /\ ~Taken(tab)
        /\ users' = Append(users, NewUser(tab))
        /\ (Authenticated(tab) /\ UNCHANGED faults) \/ Fails(tab)
        /\ UNCHANGED readable
     \/ ~readable /\ Answer(tab) /\ UNCHANGED <<users, readable, faults>>
     \/ Fails(tab) /\ FileAfterFailure /\ UNCHANGED users
  /\ UNCHANGED <<setup, sessions, cookie, meter, passed, clock, begun, overlaps>>

-----------------------------------------------------------------------------
(* handleAuthLogin, and what registration and login share.                  *)

\* Authenticate: the password is right or wrong, the login is recorded.
Authenticate(tab) ==
  /\ req[tab].pc = "check"
  /\ \/ /\ readable /\ Emailed(req[tab].email)
        /\ Authenticated(tab)
        /\ UNCHANGED <<readable, faults>>
     \/ Answer(tab) /\ UNCHANGED <<readable, faults>>
     \/ Fails(tab) /\ FileAfterFailure
  /\ UNCHANGED <<setup, users, sessions, cookie, meter, passed, clock, begun, overlaps>>

\* The session store's Delete.
Ended(token) == [sessions EXCEPT ![token].live = FALSE]

\* Mutant: the previous session is left alone.
DropNothing(tab) ==
  /\ req[tab].pc = "drop"
  /\ Goto(tab, "create")
  /\ UNCHANGED <<setup, users, readable, sessions, cookie, meter, passed, clock, begun, overlaps,
                 faults>>

\* The session the browser held ends.
DropPrevious(tab) ==
  /\ req[tab].pc = "drop"
  /\ \/ sessions' = Ended(req[tab].token) /\ Goto(tab, "create") /\ UNCHANGED faults
     \/ /\ Central /\ Fails(tab)
        /\ sessions' = Ended(req[tab].token) \/ UNCHANGED sessions
  /\ UNCHANGED <<setup, users, readable, cookie, meter, passed, clock, begun, overlaps>>

\* Mutant: the cookie is set whether the session was stored or not.
CreateSessionAfterCookie(tab) ==
  /\ req[tab].pc = "create"
  /\ cookie' = [cookie EXCEPT ![BrowserOf[tab]] = Len(sessions) + 1]
  /\ \/ /\ sessions' = Append(sessions,
             [email |-> req[tab].email, expires |-> clock + TTL, live |-> TRUE])
        /\ Answer(tab) /\ UNCHANGED faults
     \/ Fails(tab) /\ UNCHANGED sessions
  /\ UNCHANGED <<setup, users, readable, meter, passed, clock, begun, overlaps>>

\* Create, and the answer that sets the cookie.
CreateSession(tab) ==
  LET opened == Append(sessions,
        [email |-> req[tab].email, expires |-> clock + TTL, live |-> TRUE]) IN
  /\ req[tab].pc = "create"
  /\ \/ /\ sessions' = opened
        /\ cookie' = [cookie EXCEPT ![BrowserOf[tab]] = Len(opened)]
        /\ Answer(tab)
        /\ UNCHANGED faults
     \/ /\ Fails(tab)
        /\ sessions' = opened \/ UNCHANGED sessions
        /\ UNCHANGED cookie
  /\ UNCHANGED <<setup, users, readable, meter, passed, clock, begun, overlaps>>

\* handleAuthLogout.
Logout(tab) ==
  /\ req[tab].pc = "end"
  /\ \/ /\ sessions' = IF req[tab].token # 0 THEN Ended(req[tab].token) ELSE sessions
        /\ cookie' = [cookie EXCEPT ![BrowserOf[tab]] = 0]
        /\ Answer(tab)
        /\ UNCHANGED faults
     \/ /\ Central /\ req[tab].token # 0 /\ Fails(tab)
        /\ sessions' = Ended(req[tab].token) \/ UNCHANGED sessions
        /\ UNCHANGED cookie
  /\ UNCHANGED <<setup, users, readable, meter, passed, clock, begun, overlaps>>

-----------------------------------------------------------------------------
(* Sessions.                                                                *)

\* currentSession: an expired session is removed, another is left as it is.
Seen(session) == IF Expired(session) THEN [session EXCEPT !.live = FALSE] ELSE session

\* Any other request of a browser with a cookie: Get.
Visit(b) ==
  /\ cookie[b] # 0
  /\ sessions[cookie[b]].live
  /\ sessions' = [sessions EXCEPT ![cookie[b]] = Seen(@)]
  /\ UNCHANGED <<setup, users, readable, cookie, req, meter, passed, clock, begun, overlaps,
                 faults>>

Tick ==
  /\ clock < Horizon
  /\ clock' = clock + 1
  /\ UNCHANGED <<setup, users, readable, sessions, cookie, req, meter, passed, begun, overlaps,
                 faults>>

\* vod-web stops: requests are lost, and with them the sessions and counters
\* it kept in its memory, and perhaps the file it was rewriting.
Restart ==
  /\ Fault
  /\ req' = [tab \in Tabs |-> NoRequest]
  /\ IF Central
       THEN UNCHANGED <<sessions, meter>>
       ELSE /\ sessions' = [t \in DOMAIN sessions |-> [sessions[t] EXCEPT !.live = FALSE]]
            /\ meter' = [a \in Actions |-> [start |-> 0, count |-> 0]]
  /\ IF \E tab \in Tabs : req[tab].pc \in {"insert", "check"}
       THEN FileAfterFailure ELSE UNCHANGED readable
  /\ UNCHANGED <<setup, users, cookie, passed, clock, begun, overlaps>>

AccountStep(tab) ==
  \/ \E a \in Actions, e \in Emails : Begin(tab, a, e)
  \/ BeginLogout(tab)
  \/ Throttle(tab) \/ CountUsers(tab) \/ Register(tab) \/ Authenticate(tab)
  \/ DropPrevious(tab) \/ CreateSession(tab) \/ Logout(tab)

-----------------------------------------------------------------------------
\* Every variable keeps values of its kind.
AccountTypeOK ==
  /\ setup \in Setups
  /\ users \in Seq(User)
  /\ readable \in BOOLEAN
  /\ sessions \in Seq(Session)
  /\ cookie \in [Browsers -> 0..Len(sessions)]
  /\ req \in [Tabs -> Request]
  /\ meter \in [Actions -> [start : Nat, count : 0..Limit]]
  /\ passed \in [Actions -> [0..Horizon -> Nat]]
  /\ \A tab \in Tabs : req[tab].token \in 0..Len(sessions)
  /\ clock \in 0..Horizon /\ begun \in 0..MaxRequests /\ overlaps \in 0..begun
  /\ faults \in 0..MaxFaults

\* The first account is the administrator and the only one, whoever raced it
\* through the setup and whatever failed then; no address has two accounts
\* (handleAuthRegister, Register).
OneAdministrator ==
  /\ \A i \in DOMAIN users : users[i].role = "admin" <=> i = 1
  /\ \A i, j \in DOMAIN users : users[i].email = users[j].email => i = j

\* A session that serves belongs to a browser that holds it.  Others are left
\* over from calls that failed or answers that were lost, one for each, and from
\* requests of one browser at the same time: the cookie of the last answer
\* hides the one that an answer in between had set, which the last request did
\* not carry and could not end.  Every request that met another of its browser
\* leaves at most one (handleAuthRegister, handleAuthLogin, handleAuthLogout).
StraySessionsNeedFaultsOrOverlaps ==
  Cardinality({t \in DOMAIN sessions :
    Serves(t) /\ \A b \in Browsers : cookie[b] # t}) <= faults + overlaps

PassedIn(a, from, to) ==
  MapThenSumSet(LAMBDA t : passed[a][t], {t \in 0..Horizon : from <= t /\ t <= to})

\* No period as long as a window sees more than two limits of requests pass,
\* and one more for every restart that forgot a counter (Allow).
RateIsBounded ==
  \A a \in Actions : \A t \in 0..clock :
    PassedIn(a, t, t + Window - 1) <= (2 + faults) * Limit

\* Only requests beyond the limit are refused: as many as the limit passed in
\* the last window, those counted that lost their answer aside (Allow).
RefusalsAreEarned ==
  [][\A tab \in Tabs :
       req[tab].pc = "limit" /\ req'[tab].pc = Idle /\ UNCHANGED faults =>
         PassedIn(req[tab].action, clock - Window + 1, clock) + faults >= Limit]_accountVars

\* The limiter lets no more pass than it should, and refuses no one it should not.
LimitIsKept == []RateIsBounded /\ RefusalsAreEarned
=============================================================================
