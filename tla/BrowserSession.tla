--------------------------- MODULE BrowserSession ---------------------------
(*****************************************************************************)
(* frontend/src: shared/auth/session.ts, shared/api/client.ts,               *)
(* shared/sse/client.ts and app/store/session.ts.  The tabs of a browser     *)
(* share one stored session.  A request whose token is about to expire waits *)
(* for the refresh of its tab; a tab has one refresh under way at most.      *)
(* What a tab does between two awaits is one step.                           *)
(*****************************************************************************)
EXTENDS Naturals, FiniteSets

CONSTANTS Tabs,
          Loads,     \* requests and event streams the tabs have open at a time
          MaxLogins, \* bound: logins, numbered
          MaxIssued  \* bound: tokens, numbered as the server issues them

ASSUME BrowserBoundsAssumption == MaxLogins \in Nat /\ MaxIssued \in Nat

VARIABLES
    stored,  \* the token in localStorage; 0 is none
    due,     \* it expires within sessionRefreshLeewayMs
    owner,   \* the login every issued token descends from
    flight,  \* flight[t]: refreshInFlight, the token it refreshes and the answer
    load,    \* load[q]: the tab and the token of a request
    leaving, \* tabs that wait for the answer to their logout
    logins,
    cleared  \* history: the session of the last login was taken away

browserVars == <<stored, due, owner, flight, load, leaving, logins, cleared>>

NoFlight == [of |-> 0, answer |-> 0]
Refused  == MaxIssued + 1
NoLoad   == [at |-> "none"]
\* as: history, the login there was when the request was made
Load     == [at : {"waiting", "sent"}, tab : Tabs, token : 0..MaxIssued, as : 0..MaxLogins]

BrowserTypeOK ==
    /\ stored \in 0..MaxIssued /\ due \in BOOLEAN /\ cleared \in BOOLEAN
    /\ DOMAIN owner \in {1..n : n \in 0..MaxIssued} /\ \A n \in DOMAIN owner : owner[n] \in 1..MaxLogins
    /\ flight \in [Tabs -> [of : 0..MaxIssued, answer : 0..Refused]]
    /\ load \in [Loads -> Load \union {NoLoad}]
    /\ leaving \subseteq Tabs /\ logins \in 0..MaxLogins

Issued         == Cardinality(DOMAIN owner)
Issuing(login) == [n \in 1..(Issued + 1) |-> IF n = Issued + 1 THEN login ELSE owner[n]]
Waiting(t)     == {q \in Loads : load[q].at = "waiting" /\ load[q].tab = t}

-----------------------------------------------------------------------------
\* storeSession, by the tab that logs in or registers
LoginAnswered(t) ==
    /\ logins < MaxLogins /\ Issued < MaxIssued
    /\ logins' = logins + 1
    /\ owner' = Issuing(logins + 1)
    /\ stored' = Issued + 1 /\ due' = FALSE /\ cleared' = FALSE
    /\ UNCHANGED <<flight, load, leaving>>

\* removeStoredSession
Clear ==
    /\ stored' = 0 /\ due' = FALSE /\ cleared' = TRUE

\* handleLogout asks the server first, and clears what is stored whatever it says.
HandleLogout(t) ==
    /\ stored # 0 /\ t \notin leaving
    /\ leaving' = leaving \union {t}
    /\ UNCHANGED <<stored, due, owner, flight, load, logins, cleared>>

LogoutAnswered(t) ==
    /\ t \in leaving
    /\ leaving' = leaving \ {t}
    /\ Clear
    /\ UNCHANGED <<owner, flight, load, logins>>

\* shouldRefreshSession turns true as time goes by.
BecomesDue ==
    /\ stored # 0 /\ ~due
    /\ due' = TRUE
    /\ UNCHANGED <<stored, owner, flight, load, leaving, logins, cleared>>

\* getStoredSession finds the session expired.
StoredExpires ==
    /\ stored # 0 /\ due
    /\ Clear
    /\ UNCHANGED <<owner, flight, load, leaving, logins>>

-----------------------------------------------------------------------------
\* The interceptor of apiClient and sseHeaders: a request waits for the refresh under
\* way in its tab, whichever token that is about, or begins one.
Request(q, t) ==
    /\ load[q] = NoLoad
    /\ load' = [load EXCEPT ![q] =
          [at |-> IF due THEN "waiting" ELSE "sent", tab |-> t, token |-> stored, as |-> logins]]
    /\ flight' = IF due /\ flight[t] = NoFlight THEN [flight EXCEPT ![t].of = stored] ELSE flight
    /\ UNCHANGED <<stored, due, owner, leaving, logins, cleared>>

\* The backend answers /auth/refresh; it refuses what is revoked or expired, and the
\* answer may be lost.
AnswerRefresh(t, refused) ==
    /\ flight[t].of # 0 /\ flight[t].answer = 0
    /\ IF refused
         THEN /\ flight' = [flight EXCEPT ![t].answer = Refused]
              /\ UNCHANGED owner
         ELSE /\ Issued < MaxIssued
              /\ owner' = Issuing(owner[flight[t].of])
              /\ flight' = [flight EXCEPT ![t].answer = Issued + 1]
    /\ UNCHANGED <<stored, due, load, leaving, logins, cleared>>

\* Mutant: it is enough that there is a session.
AnySession(t) == stored # 0

\* refreshStoredSession: the session is still the one that was refreshed.
Current(t) == stored # 0 /\ stored = flight[t].of

\* The requests of t go on with the new token, or fail.
Released(t, token) ==
    [q \in Loads |-> IF q \notin Waiting(t) THEN load[q]
                     ELSE IF token = 0 THEN NoLoad ELSE [load[q] EXCEPT !.at = "sent", !.token = token]]

RefreshStored(t) ==
    /\ flight[t].answer \in DOMAIN owner /\ Current(t)
    /\ stored' = flight[t].answer /\ due' = FALSE
    /\ load' = Released(t, flight[t].answer)
    /\ flight' = [flight EXCEPT ![t] = NoFlight]
    /\ UNCHANGED <<owner, leaving, logins, cleared>>

\* StaleSessionRefreshError: what is stored now is left alone.
RefreshStale(t) ==
    /\ flight[t].answer \in DOMAIN owner /\ ~Current(t)
    /\ load' = Released(t, 0)
    /\ flight' = [flight EXCEPT ![t] = NoFlight]
    /\ UNCHANGED <<stored, due, owner, leaving, logins, cleared>>

\* Any other error: the requests that wait call expireSessionAndRedirect.
RefreshFails(t) ==
    /\ flight[t].answer = Refused
    /\ Clear
    /\ load' = Released(t, 0)
    /\ flight' = [flight EXCEPT ![t] = NoFlight]
    /\ UNCHANGED <<owner, leaving, logins>>

Response(q) ==
    /\ load[q].at = "sent"
    /\ load' = [load EXCEPT ![q] = NoLoad]
    /\ UNCHANGED <<stored, due, owner, flight, leaving, logins, cleared>>

\* A response 401 ends the session that is stored, of whichever token it speaks.
Unauthorized(q) ==
    /\ load[q].at = "sent"
    /\ load' = [load EXCEPT ![q] = NoLoad]
    /\ Clear
    /\ UNCHANGED <<owner, flight, leaving, logins>>

-----------------------------------------------------------------------------
BrowserInit ==
    /\ stored = 0 /\ due = FALSE /\ owner = <<>>
    /\ flight = [t \in Tabs |-> NoFlight]
    /\ load = [q \in Loads |-> NoLoad]
    /\ leaving = {} /\ logins = 0 /\ cleared = FALSE

BrowserNext ==
    \/ \E t \in Tabs :
          \/ LoginAnswered(t) \/ HandleLogout(t) \/ LogoutAnswered(t)
          \/ \E refused \in BOOLEAN : AnswerRefresh(t, refused)
          \/ RefreshStored(t) \/ RefreshStale(t) \/ RefreshFails(t)
    \/ \E q \in Loads :
          \/ \E t \in Tabs : Request(q, t)
          \/ Response(q) \/ Unauthorized(q)
    \/ BecomesDue \/ StoredExpires

BrowserSpec == BrowserInit /\ [][BrowserNext]_browserVars

-----------------------------------------------------------------------------
\* A session that was ended does not come back, and the refresh of one user's session
\* never takes the place of the session of the user who logged in meanwhile, in any
\* tab: what is stored descends from the last login, and a request is sent as the
\* user who was logged in when it was made.
SessionOfLastLogin ==
    /\ stored # 0 => owner[stored] = logins /\ ~cleared
    /\ \A q \in Loads : load[q].at = "sent" /\ load[q].token # 0 => owner[load[q].token] = load[q].as
=============================================================================
