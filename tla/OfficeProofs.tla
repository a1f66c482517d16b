---------------------------- MODULE OfficeProofs ----------------------------
(****************************************************************************)
(* The proofs that a browser's session is always the one of the last login, *)
(* that a tenant keeps an administrator and a logout is final, that a bid   *)
(* is approved by every step of its chain, that the model router keeps to   *)
(* its quota and its targets and the tool gateway to its budget, and that   *)
(* the pool is what its batches make one after the other; and that Office   *)
(* follows the specification of its parts, so that what is proved of a part *)
(* holds of Office.                                                         *)
(****************************************************************************)
EXTENDS Office, DeskProofs, FiniteSetTheorems, SequenceTheorems, WellFoundedInduction

\* A session is stored where a refresh becomes due.
DueIsStored == due => stored # 0

\* Tokens that are stored, sent or refreshed were issued.
KnownTokens ==
    /\ stored # 0 => stored \in DOMAIN owner
    /\ \A q \in Loads : load[q] # NoLoad /\ load[q].token # 0 => load[q].token \in DOMAIN owner
    /\ \A t \in Tabs : /\ flight[t].of # 0 => flight[t].of \in DOMAIN owner
                       /\ flight[t].answer \in DOMAIN owner \union {0, Refused}

\* An answer was issued to the login whose token was refreshed.
AnswerOfFlight ==
    \A t \in Tabs : flight[t].answer \in DOMAIN owner =>
        flight[t].of # 0 /\ owner[flight[t].answer] = owner[flight[t].of]

\* Who waits for a refresh came after the login whose token it refreshes.
WaitsForOwn ==
    \A q \in Loads : load[q].at = "waiting" =>
        /\ flight[load[q].tab].of # 0
        /\ owner[flight[load[q].tab].of] <= load[q].as /\ load[q].as <= logins

\* Nobody owns a token before having logged in.
OwnersLoggedIn == \A n \in DOMAIN owner : owner[n] <= logins

\* There is no answer where nothing was refreshed.
UnansweredIsOut == \A t \in Tabs : flight[t].answer # 0 => flight[t].of # 0

BrowserIInv ==
    /\ BrowserTypeOK /\ OwnersLoggedIn /\ UnansweredIsOut /\ DueIsStored /\ KnownTokens /\ AnswerOfFlight /\ WaitsForOwn
    /\ SessionOfLastLogin

-----------------------------------------------------------------------------
\* The server numbers the tokens as it issues them, and none changes its owner.
LEMMA IssuingEffect ==
  ASSUME BrowserTypeOK, Issued < MaxIssued, NEW login \in 1..MaxLogins, owner' = Issuing(login)
  PROVE  /\ Issued \in Nat /\ Issued + 1 \in 1..MaxIssued /\ Issued + 1 \notin DOMAIN owner
         /\ DOMAIN owner' = DOMAIN owner \union {Issued + 1}
         /\ DOMAIN owner' \in {1..n : n \in 0..MaxIssued}
         /\ owner'[Issued + 1] = login
         /\ \A n \in DOMAIN owner : owner'[n] = owner[n]
         /\ \A n \in DOMAIN owner' : owner'[n] \in 1..MaxLogins
<1>1. PICK n \in 0..MaxIssued : DOMAIN owner = 1..n
  BY DEF BrowserTypeOK
<1>2. Issued = n
  <2>1. n \in Nat /\ 1 \in Int /\ n \in Int
    BY BrowserBoundsAssumption
  <2>2. Cardinality(1..n) = n
    BY <2>1, FS_Interval
  <2> QED
    BY <1>1, <2>2 DEF Issued
<1>3. DOMAIN owner' = 1..(n + 1)
  BY <1>2 DEF Issuing
<1>4. \A m \in 1..(n + 1) : owner'[m] = IF m = n + 1 THEN login ELSE owner[m]
  BY <1>2 DEF Issuing
<1>5. n + 1 \in 0..MaxIssued /\ n + 1 \in 1..MaxIssued /\ n + 1 \notin 1..n
      /\ 1..(n + 1) = (1..n) \union {n + 1}
  BY <1>2, BrowserBoundsAssumption
<1>6. \A m \in DOMAIN owner : owner[m] \in 1..MaxLogins
  BY DEF BrowserTypeOK
<1>7. DOMAIN owner' \in {1..k : k \in 0..MaxIssued}
  BY <1>3, <1>5
<1>8. \A m \in DOMAIN owner : owner'[m] = owner[m]
  BY <1>1, <1>4, <1>5
<1>9. owner'[n + 1] = login
  BY <1>4, <1>5
<1>10. \A m \in DOMAIN owner' : owner'[m] \in 1..MaxLogins
  BY <1>1, <1>3, <1>5, <1>6, <1>8, <1>9
<1> QED
  BY <1>1, <1>2, <1>3, <1>5, <1>7, <1>8, <1>9, <1>10

\* The tokens there are.
LEMMA TokenRange ==
  ASSUME BrowserTypeOK, NEW n \in DOMAIN owner
  PROVE  n \in 1..MaxIssued /\ n # 0 /\ n # Refused /\ owner[n] \in 1..MaxLogins
<1>1. PICK k \in 0..MaxIssued : DOMAIN owner = 1..k
  BY DEF BrowserTypeOK
<1>2. n \in 1..k /\ n \in 1..MaxIssued
  BY <1>1, BrowserBoundsAssumption
<1>3. n # 0 /\ n # Refused
  BY <1>2, BrowserBoundsAssumption DEF Refused
<1> QED
  BY <1>2, <1>3 DEF BrowserTypeOK

\* A load that is there has the fields of one.
LEMMA LoadRow ==
  ASSUME BrowserTypeOK, NEW q \in Loads, load[q] # NoLoad
  PROVE  load[q] \in Load
BY DEF BrowserTypeOK

LEMMA NoLoadAt == NoLoad.at = "none"
BY DEF NoLoad

LEMMA LoadIsRow == ASSUME NEW l \in Load PROVE l # NoLoad /\ l.at \in {"waiting", "sent"}
BY DEF Load, NoLoad

\* Nobody is logged in and nothing was asked.
LEMMA BrowserInitIInv == BrowserInit => BrowserIInv
<1> SUFFICES ASSUME BrowserInit PROVE BrowserIInv
  OBVIOUS
<1>1. BrowserTypeOK
  <2>1. 0 \in 0..MaxIssued /\ 0 \in 0..MaxLogins /\ 0 \in 0..Refused
    BY BrowserBoundsAssumption DEF Refused
  <2>2. DOMAIN <<>> = 1..0
    OBVIOUS
  <2>3. DOMAIN owner \in {1..n : n \in 0..MaxIssued}
    BY <2>1, <2>2 DEF BrowserInit
  <2>4. \A n \in DOMAIN owner : owner[n] \in 1..MaxLogins
    BY <2>2 DEF BrowserInit
  <2>5. flight \in [Tabs -> [of : 0..MaxIssued, answer : 0..Refused]]
    BY <2>1 DEF BrowserInit, NoFlight
  <2> QED
    BY <2>1, <2>3, <2>4, <2>5 DEF BrowserInit, BrowserTypeOK
<1>2. DueIsStored /\ KnownTokens
  BY DEF BrowserInit, DueIsStored, KnownTokens, NoFlight
<1>3. AnswerOfFlight
  BY DEF BrowserInit, AnswerOfFlight, NoFlight
<1>4. WaitsForOwn /\ SessionOfLastLogin
  BY NoLoadAt DEF BrowserInit, WaitsForOwn, SessionOfLastLogin
<1>5. OwnersLoggedIn /\ UnansweredIsOut
  BY DEF BrowserInit, OwnersLoggedIn, UnansweredIsOut, NoFlight
<1> QED
  BY <1>1, <1>2, <1>3, <1>4, <1>5 DEF BrowserIInv

-----------------------------------------------------------------------------
\* A session that ends is replaced by none.
LEMMA ClearKeepsIInv ==
  ASSUME BrowserIInv, Clear, UNCHANGED <<owner, logins>>,
         leaving' \subseteq Tabs,
         flight' \in [Tabs -> [of : 0..MaxIssued, answer : 0..Refused]],
         load' \in [Loads -> Load \union {NoLoad}],
         \A q \in Loads : load'[q] = load[q] \/ load'[q] = NoLoad,
         \A t \in Tabs : \/ flight'[t] = flight[t]
                         \/ flight'[t] = NoFlight /\ \A q \in Loads : load'[q].at = "waiting" => load'[q].tab # t
  PROVE  BrowserIInv'
<1>1. stored' = 0 /\ due' = FALSE /\ cleared' = TRUE
  BY DEF Clear
<1>2. BrowserTypeOK'
  <2>1. 0 \in 0..MaxIssued
    BY BrowserBoundsAssumption
  <2> QED
    BY <1>1, <2>1 DEF BrowserIInv, BrowserTypeOK
<1>3. DueIsStored'
  BY <1>1 DEF DueIsStored
<1>4. KnownTokens'
  BY <1>1 DEF BrowserIInv, KnownTokens, NoFlight
<1>5. AnswerOfFlight'
  <2> SUFFICES ASSUME NEW t \in Tabs, flight'[t].answer \in DOMAIN owner
               PROVE  flight'[t].of # 0 /\ owner[flight'[t].answer] = owner[flight'[t].of]
    BY DEF AnswerOfFlight
  <2>1. flight'[t] # NoFlight
    BY TokenRange DEF BrowserIInv, NoFlight
  <2> QED
    BY <2>1 DEF BrowserIInv, AnswerOfFlight
<1>6. WaitsForOwn'
  <2> SUFFICES ASSUME NEW q \in Loads, load'[q].at = "waiting"
               PROVE  /\ flight'[load'[q].tab].of # 0
                      /\ owner[flight'[load'[q].tab].of] <= load'[q].as /\ load'[q].as <= logins
    BY DEF WaitsForOwn
  <2>1. load'[q] = load[q] /\ load'[q] # NoLoad
    BY NoLoadAt
  <2>2. load'[q].tab \in Tabs
    BY <2>1 DEF Load
  <2>3. flight'[load'[q].tab] = flight[load[q].tab]
    BY <2>1, <2>2
  <2> QED
    BY <2>1, <2>3 DEF BrowserIInv, WaitsForOwn
<1>7. SessionOfLastLogin'
  BY <1>1, NoLoadAt DEF BrowserIInv, SessionOfLastLogin
<1>8. (OwnersLoggedIn /\ UnansweredIsOut)'
  BY DEF BrowserIInv, OwnersLoggedIn, UnansweredIsOut, NoFlight
<1> QED
  BY <1>2, <1>3, <1>4, <1>5, <1>6, <1>7, <1>8 DEF BrowserIInv

\* What a tab lets go of, with a token or without.
LEMMA ReleasedEffect ==
  ASSUME BrowserTypeOK, NEW t \in Tabs, NEW token \in 0..MaxIssued, load' = Released(t, token)
  PROVE  /\ load' \in [Loads -> Load \union {NoLoad}]
         /\ \A q \in Loads : load'[q].at = "waiting" => load'[q] = load[q] /\ load'[q].tab # t
         /\ token = 0 => \A q \in Loads : load'[q] = load[q] \/ load'[q] = NoLoad
         /\ token # 0 => \A q \in Loads :
               \/ load'[q] = load[q]
               \/ /\ load[q].at = "waiting" /\ load[q].tab = t
                  /\ load'[q].at = "sent" /\ load'[q].token = token /\ load'[q].as = load[q].as
<1>1. \A q \in Loads : load'[q] = IF q \notin Waiting(t) THEN load[q]
                                  ELSE IF token = 0 THEN NoLoad ELSE [load[q] EXCEPT !.at = "sent", !.token = token]
  BY DEF Released
<1>2. \A q \in Waiting(t) : q \in Loads /\ load[q].at = "waiting" /\ load[q].tab = t /\ load[q] \in Load
  BY LoadRow, NoLoadAt DEF Waiting
<1>3. \A q \in Waiting(t) : token # 0 =>
         /\ load'[q] \in Load /\ load'[q].at = "sent"
         /\ load'[q].token = token /\ load'[q].as = load[q].as
  <2> SUFFICES ASSUME NEW q \in Waiting(t), token # 0
               PROVE  /\ load'[q] \in Load /\ load'[q].at = "sent"
                      /\ load'[q].token = token /\ load'[q].as = load[q].as
    OBVIOUS
  <2>1. load'[q] = [load[q] EXCEPT !.at = "sent", !.token = token] /\ load[q] \in Load
    BY <1>1, <1>2
  <2> QED
    BY <2>1 DEF Load
<1>4. \A q \in Loads : load'[q] \in Load \union {NoLoad}
  BY <1>1, <1>3 DEF BrowserTypeOK
<1>5. load' \in [Loads -> Load \union {NoLoad}]
  BY <1>4 DEF Released
<1>6. \A q \in Loads : load'[q].at = "waiting" => load'[q] = load[q] /\ load'[q].tab # t
  BY <1>1, <1>3, NoLoadAt DEF Waiting
<1>7. token = 0 => \A q \in Loads : load'[q] = load[q] \/ load'[q] = NoLoad
  BY <1>1
<1>8. token # 0 => \A q \in Loads :
               \/ load'[q] = load[q]
               \/ /\ load[q].at = "waiting" /\ load[q].tab = t
                  /\ load'[q].at = "sent" /\ load'[q].token = token /\ load'[q].as = load[q].as
  BY <1>1, <1>2, <1>3
<1> QED
  BY <1>5, <1>6, <1>7, <1>8

\* The sessions that end: by logout, by time, by a refusal, by a 401.
LEMMA EndingKeepsIInv ==
  ASSUME BrowserIInv,
         \/ \E t \in Tabs : LogoutAnswered(t) \/ RefreshFails(t)
         \/ \E q \in Loads : Unauthorized(q)
         \/ StoredExpires
  PROVE  BrowserIInv'
<1>0. BrowserTypeOK
  BY DEF BrowserIInv
<1>1. ASSUME NEW t \in Tabs, LogoutAnswered(t) PROVE BrowserIInv'
  BY <1>0, <1>1, ClearKeepsIInv DEF LogoutAnswered, BrowserTypeOK
<1>2. ASSUME NEW t \in Tabs, RefreshFails(t) PROVE BrowserIInv'
  <2>1. /\ Clear /\ load' = Released(t, 0) /\ flight' = [flight EXCEPT ![t] = NoFlight]
        /\ UNCHANGED <<owner, leaving, logins>>
    BY <1>2 DEF RefreshFails
  <2>2. 0 \in 0..MaxIssued /\ NoFlight \in [of : 0..MaxIssued, answer : 0..Refused]
    BY BrowserBoundsAssumption DEF NoFlight, Refused
  <2>3. /\ load' \in [Loads -> Load \union {NoLoad}]
        /\ \A q \in Loads : load'[q].at = "waiting" => load'[q].tab # t
        /\ \A q \in Loads : load'[q] = load[q] \/ load'[q] = NoLoad
    BY <1>0, <2>1, <2>2, ReleasedEffect
  <2>4. /\ flight' \in [Tabs -> [of : 0..MaxIssued, answer : 0..Refused]]
        /\ \A u \in Tabs : \/ flight'[u] = flight[u]
                           \/ flight'[u] = NoFlight /\ u = t
    BY <1>0, <2>1, <2>2 DEF BrowserTypeOK
  <2>5. leaving' \subseteq Tabs
    BY <1>0, <2>1 DEF BrowserTypeOK
  <2> QED
    BY <2>1, <2>3, <2>4, <2>5, ClearKeepsIInv
<1>3. ASSUME NEW q \in Loads, Unauthorized(q) PROVE BrowserIInv'
  BY <1>0, <1>3, ClearKeepsIInv DEF Unauthorized, BrowserTypeOK
<1>4. CASE StoredExpires
  BY <1>0, <1>4, ClearKeepsIInv DEF StoredExpires, BrowserTypeOK
<1> QED
  BY <1>1, <1>2, <1>3, <1>4

-----------------------------------------------------------------------------
\* A new login takes the place of the session before; what it finds under way is older.
LEMMA LoginKeepsIInv ==
  ASSUME BrowserIInv, NEW t \in Tabs, LoginAnswered(t)
  PROVE  BrowserIInv'
<1> DEFINE n == Issued + 1
<1>0. BrowserTypeOK
  BY DEF BrowserIInv
<1>1. /\ logins' = logins + 1 /\ logins \in Nat /\ logins' \in 1..MaxLogins /\ logins' \in 0..MaxLogins
      /\ owner' = Issuing(logins') /\ Issued < MaxIssued
      /\ stored' = n /\ due' = FALSE /\ cleared' = FALSE /\ UNCHANGED <<flight, load, leaving>>
  BY <1>0, BrowserBoundsAssumption DEF LoginAnswered, BrowserTypeOK
<1>2. /\ n \in 1..MaxIssued /\ n \notin DOMAIN owner
      /\ DOMAIN owner' = DOMAIN owner \union {n}
      /\ DOMAIN owner' \in {1..k : k \in 0..MaxIssued}
      /\ owner'[n] = logins'
      /\ \A m \in DOMAIN owner : owner'[m] = owner[m]
      /\ \A m \in DOMAIN owner' : owner'[m] \in 1..MaxLogins
  BY <1>0, <1>1, IssuingEffect
<1> HIDE DEF n
<1>3. BrowserTypeOK'
  <2>1. n \in 0..MaxIssued
    BY <1>2, BrowserBoundsAssumption
  <2>2. \A m \in DOMAIN owner' : owner'[m] \in 1..MaxLogins
    BY <1>2
  <2> QED
    BY <1>0, <1>1, <1>2, <2>1, <2>2 DEF BrowserTypeOK
<1>4. DueIsStored' /\ KnownTokens'
  BY <1>1, <1>2 DEF BrowserIInv, DueIsStored, KnownTokens
<1>5. AnswerOfFlight'
  <2> SUFFICES ASSUME NEW u \in Tabs, flight[u].answer \in DOMAIN owner'
               PROVE  flight[u].of # 0 /\ owner'[flight[u].answer] = owner'[flight[u].of]
    BY <1>1 DEF AnswerOfFlight
  <2>1. flight[u].answer # n
    BY <1>2, BrowserBoundsAssumption DEF BrowserIInv, KnownTokens, Refused
  <2> QED
    BY <1>2, <2>1 DEF BrowserIInv, AnswerOfFlight, KnownTokens
<1>6. WaitsForOwn'
  <2> SUFFICES ASSUME NEW q \in Loads, load[q].at = "waiting"
               PROVE  /\ flight[load[q].tab].of # 0
                      /\ owner'[flight[load[q].tab].of] <= load[q].as /\ load[q].as <= logins'
    BY <1>1 DEF WaitsForOwn
  <2>1. load[q] \in Load
    BY <1>0, LoadRow, NoLoadAt
  <2>2. load[q].tab \in Tabs /\ load[q].as \in Nat
    BY <2>1, BrowserBoundsAssumption DEF Load
  <2>3. /\ flight[load[q].tab].of # 0 /\ flight[load[q].tab].of \in DOMAIN owner
        /\ owner[flight[load[q].tab].of] <= load[q].as /\ load[q].as <= logins
    BY <2>2 DEF BrowserIInv, WaitsForOwn, KnownTokens
  <2> QED
    BY <1>1, <1>2, <2>2, <2>3
<1>7. SessionOfLastLogin'
  <2>1. ASSUME NEW q \in Loads, load[q].at = "sent", load[q].token # 0
        PROVE  owner'[load[q].token] = load[q].as
    <3>1. load[q].token \in DOMAIN owner
      BY <2>1, NoLoadAt DEF BrowserIInv, KnownTokens
    <3> QED
      BY <1>2, <2>1, <3>1 DEF BrowserIInv, SessionOfLastLogin
  <2> QED
    BY <1>1, <1>2, <2>1 DEF SessionOfLastLogin
<1>8. (OwnersLoggedIn /\ UnansweredIsOut)'
  <2>1. \A m \in DOMAIN owner : owner'[m] <= logins'
    BY <1>0, <1>1, <1>2, TokenRange, BrowserBoundsAssumption DEF BrowserIInv, OwnersLoggedIn
  <2>2. owner'[n] <= logins'
    BY <1>1, <1>2
  <2> QED
    BY <1>1, <1>2, <2>1, <2>2 DEF BrowserIInv, OwnersLoggedIn, UnansweredIsOut
<1> QED
  BY <1>3, <1>4, <1>5, <1>6, <1>7, <1>8 DEF BrowserIInv

\* A request is sent with the token that is stored, or waits for the refresh of its tab.
LEMMA RequestKeepsIInv ==
  ASSUME BrowserIInv, NEW q \in Loads, NEW t \in Tabs, Request(q, t)
  PROVE  BrowserIInv'
<1> DEFINE row == [at |-> IF due THEN "waiting" ELSE "sent", tab |-> t, token |-> stored, as |-> logins]
<1>0. BrowserTypeOK
  BY DEF BrowserIInv
<1>1. /\ load' = [load EXCEPT ![q] = row]
      /\ flight' = IF due /\ flight[t] = NoFlight THEN [flight EXCEPT ![t].of = stored] ELSE flight
      /\ UNCHANGED <<stored, due, owner, leaving, logins, cleared>>
  BY DEF Request
<1>2. /\ row \in Load /\ row.tab = t /\ row.token = stored /\ row.as = logins
      /\ row.at = IF due THEN "waiting" ELSE "sent"
  BY <1>0 DEF Load, BrowserTypeOK
<1> HIDE DEF row
<1>3. /\ load' \in [Loads -> Load \union {NoLoad}] /\ load'[q] = row
      /\ \A p \in Loads : p # q => load'[p] = load[p]
  BY <1>0, <1>1, <1>2 DEF BrowserTypeOK
<1>4. /\ flight' \in [Tabs -> [of : 0..MaxIssued, answer : 0..Refused]]
      /\ \A u \in Tabs : \/ flight'[u] = flight[u]
                         \/ /\ u = t /\ due /\ flight[u] = NoFlight
                            /\ flight'[u].of = stored /\ flight'[u].answer = 0
      /\ due /\ flight[t] = NoFlight => flight'[t].of = stored
  <2>1. CASE due /\ flight[t] = NoFlight
    <3>1. [flight[t] EXCEPT !.of = stored] = [of |-> stored, answer |-> 0]
      BY <2>1 DEF NoFlight
    <3>2. [of |-> stored, answer |-> 0] \in [of : 0..MaxIssued, answer : 0..Refused]
      BY <1>0, BrowserBoundsAssumption DEF BrowserTypeOK, Refused
    <3>3. flight' = [flight EXCEPT ![t] = [of |-> stored, answer |-> 0]]
      BY <1>1, <2>1, <3>1
    <3> QED
      BY <1>0, <2>1, <3>2, <3>3 DEF BrowserTypeOK
  <2>2. CASE ~(due /\ flight[t] = NoFlight)
    BY <1>0, <1>1, <2>2 DEF BrowserTypeOK
  <2> QED
    BY <2>1, <2>2
<1>5. BrowserTypeOK'
  BY <1>0, <1>1, <1>3, <1>4 DEF BrowserTypeOK
<1>6. DueIsStored'
  BY <1>1 DEF BrowserIInv, DueIsStored
<1>7. KnownTokens'
  <2>1. \A p \in Loads : load'[p] # NoLoad /\ load'[p].token # 0 => load'[p].token \in DOMAIN owner
    BY <1>2, <1>3 DEF BrowserIInv, KnownTokens
  <2>2. \A u \in Tabs : /\ flight'[u].of # 0 => flight'[u].of \in DOMAIN owner
                        /\ flight'[u].answer \in DOMAIN owner \union {0, Refused}
    BY <1>4 DEF BrowserIInv, KnownTokens
  <2> QED
    BY <1>1, <2>1, <2>2 DEF BrowserIInv, KnownTokens
<1>8. AnswerOfFlight'
  <2> SUFFICES ASSUME NEW u \in Tabs, flight'[u].answer \in DOMAIN owner
               PROVE  flight'[u].of # 0 /\ owner[flight'[u].answer] = owner[flight'[u].of]
    BY <1>1 DEF AnswerOfFlight
  <2>1. flight'[u].answer # 0
    BY <1>0, TokenRange
  <2>2. flight'[u] = flight[u]
    BY <1>4, <2>1
  <2> QED
    BY <2>2 DEF BrowserIInv, AnswerOfFlight
<1>9. WaitsForOwn'
  <2> SUFFICES ASSUME NEW p \in Loads, load'[p].at = "waiting"
               PROVE  /\ flight'[load'[p].tab].of # 0
                      /\ owner[flight'[load'[p].tab].of] <= load'[p].as /\ load'[p].as <= logins
    BY <1>1 DEF WaitsForOwn
  <2>1. CASE p = q
    <3>1. due /\ stored # 0 /\ stored \in DOMAIN owner /\ owner[stored] = logins /\ logins \in Nat
      BY <1>0, <1>2, <1>3, <2>1, BrowserBoundsAssumption
      DEF BrowserIInv, BrowserTypeOK, DueIsStored, KnownTokens, SessionOfLastLogin
    <3>2. flight'[t].of # 0 /\ owner[flight'[t].of] <= logins
      <4>1. CASE flight[t] = NoFlight
        BY <1>4, <3>1, <4>1
      <4>2. CASE flight[t] # NoFlight
        <5>1. flight'[t] = flight[t] /\ flight[t] \in [of : 0..MaxIssued, answer : 0..Refused]
          BY <1>0, <1>4, <4>2 DEF BrowserTypeOK
        <5>2. flight[t].of # 0
          <6>1. CASE flight[t].answer = 0
            BY <4>2, <5>1, <6>1 DEF NoFlight
          <6>2. CASE flight[t].answer # 0
            BY <6>2 DEF BrowserIInv, UnansweredIsOut
          <6> QED
            BY <6>1, <6>2
        <5>3. owner[flight[t].of] <= logins
          BY <5>2 DEF BrowserIInv, KnownTokens, OwnersLoggedIn
        <5> QED
          BY <5>1, <5>2, <5>3
      <4> QED
        BY <4>1, <4>2
    <3> QED
      BY <1>2, <1>3, <2>1, <3>1, <3>2
  <2>2. CASE p # q
    <3>1. load'[p] = load[p] /\ load[p] \in Load /\ load[p].tab \in Tabs
      BY <1>0, <1>3, <2>2, LoadRow, NoLoadAt DEF Load
    <3>2. /\ flight[load[p].tab].of # 0
          /\ owner[flight[load[p].tab].of] <= load[p].as /\ load[p].as <= logins
      BY <3>1 DEF BrowserIInv, WaitsForOwn
    <3>3. flight'[load[p].tab] = flight[load[p].tab]
      BY <1>4, <3>1, <3>2 DEF NoFlight
    <3> QED
      BY <3>1, <3>2, <3>3
  <2> QED
    BY <2>1, <2>2
<1>10. SessionOfLastLogin'
  BY <1>1, <1>2, <1>3 DEF BrowserIInv, SessionOfLastLogin
<1>11. (OwnersLoggedIn /\ UnansweredIsOut)'
  <2>1. UnansweredIsOut'
    BY <1>4 DEF BrowserIInv, UnansweredIsOut
  <2> QED
    BY <1>1, <2>1 DEF BrowserIInv, OwnersLoggedIn
<1> QED
  BY <1>5, <1>6, <1>7, <1>8, <1>9, <1>10, <1>11 DEF BrowserIInv

\* The server answers a refresh with a token of the same login, or refuses.
LEMMA AnswerKeepsIInv ==
  ASSUME BrowserIInv, NEW t \in Tabs, NEW refused \in BOOLEAN, AnswerRefresh(t, refused)
  PROVE  BrowserIInv'
<1>0. /\ BrowserTypeOK /\ flight[t].of # 0 /\ flight[t].answer = 0 /\ flight[t].of \in DOMAIN owner
      /\ flight[t] \in [of : 0..MaxIssued, answer : 0..Refused]
      /\ UNCHANGED <<stored, due, load, leaving, logins, cleared>>
  BY DEF BrowserIInv, BrowserTypeOK, KnownTokens, AnswerRefresh
<1> DEFINE Answered(a) ==
        /\ flight' = [flight EXCEPT ![t].answer = a]
        /\ \A n \in DOMAIN owner : n \in DOMAIN owner' /\ owner'[n] = owner[n]
        /\ DOMAIN owner' \in {1..n : n \in 0..MaxIssued}
        /\ \A n \in DOMAIN owner' : /\ owner'[n] \in 1..MaxLogins
                                    /\ n \in DOMAIN owner \/ (n = a /\ owner'[n] = owner[flight[t].of])
        /\ a \in DOMAIN owner' \union {Refused}
        /\ a \notin DOMAIN owner
<1>a. PICK answer \in 0..Refused : Answered(answer)
  <2>1. CASE refused
    <3>1. Refused \in 0..Refused /\ Refused \notin DOMAIN owner
      BY <1>0, TokenRange, BrowserBoundsAssumption DEF Refused
    <3>2. flight' = [flight EXCEPT ![t].answer = Refused] /\ owner' = owner
      BY <2>1 DEF AnswerRefresh
    <3>3. Answered(Refused)
      BY <1>0, <3>1, <3>2 DEF BrowserTypeOK
    <3> HIDE DEF Answered
    <3> QED
      BY <3>1, <3>3
  <2>2. CASE ~refused
    <3> DEFINE n == Issued + 1
    <3>1. /\ Issued < MaxIssued /\ owner' = Issuing(owner[flight[t].of])
          /\ flight' = [flight EXCEPT ![t].answer = n]
      BY <2>2 DEF AnswerRefresh
    <3>2. owner[flight[t].of] \in 1..MaxLogins
      BY <1>0, TokenRange
    <3>3. /\ n \in 1..MaxIssued /\ n \notin DOMAIN owner
          /\ DOMAIN owner' = DOMAIN owner \union {n}
          /\ DOMAIN owner' \in {1..k : k \in 0..MaxIssued}
          /\ owner'[n] = owner[flight[t].of]
          /\ \A m \in DOMAIN owner : owner'[m] = owner[m]
          /\ \A m \in DOMAIN owner' : owner'[m] \in 1..MaxLogins
      BY <1>0, <3>1, <3>2, IssuingEffect
    <3> HIDE DEF n
    <3>4. n \in 0..Refused
      BY <3>3, BrowserBoundsAssumption DEF Refused
    <3>5. Answered(n)
      BY <3>1, <3>3
    <3> HIDE DEF Answered
    <3> QED
      BY <3>4, <3>5
  <2> QED
    BY <2>1, <2>2
<1>1. Answered(answer)
  BY <1>a
<1>2. /\ flight' \in [Tabs -> [of : 0..MaxIssued, answer : 0..Refused]]
      /\ flight'[t].of = flight[t].of /\ flight'[t].answer = answer
      /\ \A u \in Tabs : u # t => flight'[u] = flight[u]
  <2>1. [flight[t] EXCEPT !.answer = answer] = [of |-> flight[t].of, answer |-> answer]
    BY <1>0
  <2>2. [of |-> flight[t].of, answer |-> answer] \in [of : 0..MaxIssued, answer : 0..Refused]
    BY <1>0
  <2> QED
    BY <1>0, <1>1, <2>1, <2>2 DEF BrowserTypeOK
<1>3. BrowserTypeOK'
  BY <1>0, <1>1, <1>2 DEF BrowserTypeOK
<1>4. (OwnersLoggedIn /\ UnansweredIsOut /\ DueIsStored)'
  <2>1. owner[flight[t].of] <= logins
    BY <1>0 DEF BrowserIInv, OwnersLoggedIn
  <2>2. OwnersLoggedIn'
    BY <1>0, <1>1, <2>1 DEF BrowserIInv, OwnersLoggedIn
  <2> QED
    BY <1>0, <1>2, <2>2 DEF BrowserIInv, UnansweredIsOut, DueIsStored
<1>5. KnownTokens'
  <2>1. \A u \in Tabs : /\ flight'[u].of # 0 => flight'[u].of \in DOMAIN owner'
                        /\ flight'[u].answer \in DOMAIN owner' \union {0, Refused}
    BY <1>1, <1>2 DEF BrowserIInv, KnownTokens
  <2>2. \A q \in Loads : load[q] # NoLoad /\ load[q].token # 0 => load[q].token \in DOMAIN owner'
    BY <1>1 DEF BrowserIInv, KnownTokens
  <2> QED
    BY <1>0, <1>1, <2>1, <2>2 DEF BrowserIInv, KnownTokens
<1>6. AnswerOfFlight'
  <2> SUFFICES ASSUME NEW u \in Tabs, flight'[u].answer \in DOMAIN owner'
               PROVE  flight'[u].of # 0 /\ owner'[flight'[u].answer] = owner'[flight'[u].of]
    BY DEF AnswerOfFlight
  <2>1. CASE u = t
    BY <1>0, <1>1, <1>2, <2>1
  <2>2. CASE u # t
    <3>1. flight'[u] = flight[u] /\ flight[u].answer \in DOMAIN owner \union {0, Refused}
      BY <1>2, <2>2 DEF BrowserIInv, KnownTokens
    <3>2. flight'[u].answer # 0 /\ flight'[u].answer # Refused
      <4>1. PICK k \in 0..MaxIssued : DOMAIN owner' = 1..k
        BY <1>1
      <4> QED
        BY <4>1, BrowserBoundsAssumption DEF Refused
    <3> QED
      BY <1>1, <3>1, <3>2 DEF BrowserIInv, AnswerOfFlight, KnownTokens
  <2> QED
    BY <2>1, <2>2
<1>7. WaitsForOwn'
  <2> SUFFICES ASSUME NEW q \in Loads, load[q].at = "waiting"
               PROVE  /\ flight'[load[q].tab].of # 0
                      /\ owner'[flight'[load[q].tab].of] <= load[q].as /\ load[q].as <= logins
    BY <1>0 DEF WaitsForOwn
  <2>1. load[q].tab \in Tabs
    BY <1>0, LoadRow, NoLoadAt DEF Load
  <2>2. flight'[load[q].tab].of = flight[load[q].tab].of
    BY <1>2, <2>1
  <2>3. /\ flight[load[q].tab].of # 0 /\ flight[load[q].tab].of \in DOMAIN owner
        /\ owner[flight[load[q].tab].of] <= load[q].as /\ load[q].as <= logins
    BY <2>1 DEF BrowserIInv, WaitsForOwn, KnownTokens
  <2> QED
    BY <1>1, <2>2, <2>3
<1>8. SessionOfLastLogin'
  <2>1. ASSUME NEW q \in Loads, load[q].at = "sent", load[q].token # 0
        PROVE  owner'[load[q].token] = load[q].as
    BY <1>1, <2>1, NoLoadAt DEF BrowserIInv, KnownTokens, SessionOfLastLogin
  <2>2. stored # 0 => owner'[stored] = logins /\ ~cleared
    BY <1>1 DEF BrowserIInv, KnownTokens, SessionOfLastLogin
  <2> QED
    BY <1>0, <2>1, <2>2 DEF SessionOfLastLogin
<1> QED
  BY <1>3, <1>4, <1>5, <1>6, <1>7, <1>8 DEF BrowserIInv

\* An answer is stored where its own token still is; in any case its tab is done with it.
LEMMA RefreshKeepsIInv ==
  ASSUME BrowserIInv, NEW t \in Tabs, RefreshStored(t) \/ RefreshStale(t)
  PROVE  BrowserIInv'
<1>0. BrowserTypeOK /\ flight[t].answer \in DOMAIN owner /\ UNCHANGED <<owner, leaving, logins, cleared>>
      /\ flight' = [flight EXCEPT ![t] = NoFlight]
  BY DEF BrowserIInv, RefreshStored, RefreshStale
<1>1. PICK token \in 0..MaxIssued :
        /\ load' = Released(t, token)
        /\ stored' # 0 => stored' \in DOMAIN owner /\ owner[stored'] = logins /\ ~cleared
        /\ token # 0 => token \in DOMAIN owner /\ owner[token] = owner[flight[t].of]
                        /\ owner[token] = logins
        /\ due' => stored' # 0
        /\ stored' \in 0..MaxIssued /\ due' \in BOOLEAN
  <2>1. CASE RefreshStored(t)
    <3>1. /\ stored # 0 /\ stored = flight[t].of /\ stored' = flight[t].answer /\ due' = FALSE
          /\ load' = Released(t, flight[t].answer)
      BY <2>1 DEF RefreshStored, Current
    <3>2. owner[flight[t].answer] = owner[flight[t].of] /\ owner[stored] = logins /\ ~cleared
      BY <1>0, <3>1 DEF BrowserIInv, AnswerOfFlight, SessionOfLastLogin
    <3>3. flight[t].answer \in 0..MaxIssued
      BY <1>0, TokenRange, BrowserBoundsAssumption
    <3> QED
      BY <1>0, <3>1, <3>2, <3>3
  <2>2. CASE RefreshStale(t)
    <3>1. load' = Released(t, 0) /\ UNCHANGED <<stored, due>> /\ 0 \in 0..MaxIssued
      BY <2>2, BrowserBoundsAssumption DEF RefreshStale
    <3>2. /\ stored # 0 => stored \in DOMAIN owner /\ owner[stored] = logins /\ ~cleared
          /\ due => stored # 0
      BY DEF BrowserIInv, KnownTokens, SessionOfLastLogin, DueIsStored
    <3> QED
      BY <1>0, <3>1, <3>2 DEF BrowserTypeOK
  <2> QED
    BY <2>1, <2>2
<1>2. /\ load' \in [Loads -> Load \union {NoLoad}]
      /\ \A q \in Loads : load'[q].at = "waiting" => load'[q] = load[q] /\ load'[q].tab # t
      /\ token = 0 => \A q \in Loads : load'[q] = load[q] \/ load'[q] = NoLoad
      /\ token # 0 => \A q \in Loads :
            \/ load'[q] = load[q]
            \/ /\ load[q].at = "waiting" /\ load[q].tab = t
               /\ load'[q].at = "sent" /\ load'[q].token = token /\ load'[q].as = load[q].as
  BY <1>0, <1>1, ReleasedEffect
<1>3. /\ flight' \in [Tabs -> [of : 0..MaxIssued, answer : 0..Refused]]
      /\ flight'[t] = NoFlight /\ \A u \in Tabs : u # t => flight'[u] = flight[u]
  BY <1>0, BrowserBoundsAssumption DEF BrowserTypeOK, NoFlight, Refused
<1>4. BrowserTypeOK'
  BY <1>0, <1>1, <1>2, <1>3 DEF BrowserTypeOK
<1>5. (OwnersLoggedIn /\ UnansweredIsOut /\ DueIsStored)'
  BY <1>0, <1>1, <1>3 DEF BrowserIInv, OwnersLoggedIn, UnansweredIsOut, DueIsStored, NoFlight
<1>6. KnownTokens'
  <2>1. ASSUME NEW q \in Loads, load'[q] # NoLoad, load'[q].token # 0
        PROVE  load'[q].token \in DOMAIN owner
    BY <1>1, <1>2, <2>1 DEF BrowserIInv, KnownTokens
  <2>2. \A u \in Tabs : /\ flight'[u].of # 0 => flight'[u].of \in DOMAIN owner
                        /\ flight'[u].answer \in DOMAIN owner \union {0, Refused}
    BY <1>3 DEF BrowserIInv, KnownTokens, NoFlight
  <2> QED
    BY <1>0, <1>1, <2>1, <2>2 DEF KnownTokens
<1>7. AnswerOfFlight'
  <2>1. 0 \notin DOMAIN owner
    BY <1>0, TokenRange
  <2> QED
    BY <1>0, <1>3, <2>1 DEF BrowserIInv, AnswerOfFlight, NoFlight
<1>8. WaitsForOwn'
  <2> SUFFICES ASSUME NEW q \in Loads, load'[q].at = "waiting"
               PROVE  /\ flight'[load'[q].tab].of # 0
                      /\ owner[flight'[load'[q].tab].of] <= load'[q].as /\ load'[q].as <= logins
    BY <1>0 DEF WaitsForOwn
  <2>1. load'[q] = load[q] /\ load'[q].tab # t
    BY <1>2
  <2>2. load'[q].tab \in Tabs
    BY <1>0, <2>1, LoadRow, NoLoadAt DEF Load
  <2>3. flight'[load'[q].tab] = flight[load[q].tab]
    BY <1>3, <2>1, <2>2
  <2> QED
    BY <2>1, <2>3 DEF BrowserIInv, WaitsForOwn
<1>9. SessionOfLastLogin'
  <2> SUFFICES ASSUME NEW q \in Loads, load'[q].at = "sent", load'[q].token # 0
               PROVE  owner[load'[q].token] = load'[q].as
    BY <1>0, <1>1 DEF SessionOfLastLogin
  <2>1. CASE load'[q] = load[q]
    BY <2>1 DEF BrowserIInv, SessionOfLastLogin
  <2>2. CASE load'[q] # load[q]
    <3>1. /\ token # 0 /\ load[q].at = "waiting" /\ load[q].tab = t
          /\ load'[q].token = token /\ load'[q].as = load[q].as
      BY <1>2, <2>2, NoLoadAt
    <3>2. owner[flight[t].of] <= load[q].as /\ load[q].as <= logins
      BY <3>1 DEF BrowserIInv, WaitsForOwn
    <3>3. load[q].as \in Nat /\ logins \in Nat
      BY <1>0, <3>1, LoadRow, NoLoadAt, BrowserBoundsAssumption DEF Load, BrowserTypeOK
    <3> QED
      BY <1>1, <3>1, <3>2, <3>3
  <2> QED
    BY <2>1, <2>2
<1> QED
  BY <1>4, <1>5, <1>6, <1>7, <1>8, <1>9 DEF BrowserIInv

\* Steps that change no token.
LEMMA QuietKeepsIInv ==
  ASSUME BrowserIInv,
         \/ \E t \in Tabs : HandleLogout(t)
         \/ \E q \in Loads : Response(q)
         \/ BecomesDue
         \/ UNCHANGED browserVars
  PROVE  BrowserIInv'
<1>0. BrowserTypeOK
  BY DEF BrowserIInv
<1>1. /\ UNCHANGED <<stored, owner, flight, logins, cleared>>
      /\ load' \in [Loads -> Load \union {NoLoad}]
      /\ \A q \in Loads : load'[q] = load[q] \/ load'[q] = NoLoad
      /\ leaving' \subseteq Tabs /\ due' \in BOOLEAN
      /\ due' => stored # 0
  <2>2. ASSUME NEW q \in Loads, Response(q)
        PROVE  /\ UNCHANGED <<stored, due, owner, flight, leaving, logins, cleared>>
               /\ load' \in [Loads -> Load \union {NoLoad}]
               /\ \A p \in Loads : load'[p] = load[p] \/ load'[p] = NoLoad
    BY <1>0, <2>2 DEF Response, BrowserTypeOK
  <2>3. BecomesDue => stored # 0 /\ due' = TRUE /\ UNCHANGED <<stored, owner, flight, load, leaving, logins, cleared>>
    BY DEF BecomesDue
  <2>4. /\ load \in [Loads -> Load \union {NoLoad}] /\ leaving \subseteq Tabs /\ due \in BOOLEAN
        /\ due => stored # 0
    BY DEF BrowserIInv, BrowserTypeOK, DueIsStored
  <2>5. CASE UNCHANGED browserVars
    BY <2>4, <2>5 DEF browserVars
  <2>6. CASE BecomesDue
    BY <2>3, <2>4, <2>6
  <2>7. ASSUME NEW t \in Tabs, HandleLogout(t)
        PROVE  /\ UNCHANGED <<stored, owner, flight, load, logins, cleared>>
               /\ leaving' \subseteq Tabs /\ due' \in BOOLEAN
               /\ due' => stored # 0
    BY <2>4, <2>7 DEF HandleLogout
  <2>8. ASSUME NEW q \in Loads, Response(q)
        PROVE  leaving' \subseteq Tabs /\ due' \in BOOLEAN /\ (due' => stored # 0)
    BY <2>2, <2>4, <2>8
  <2> QED
    BY <2>2, <2>4, <2>5, <2>6, <2>7, <2>8
<1>2. BrowserTypeOK'
  BY <1>0, <1>1 DEF BrowserTypeOK
<1>3. (OwnersLoggedIn /\ UnansweredIsOut /\ DueIsStored /\ KnownTokens /\ AnswerOfFlight)'
  BY <1>1 DEF BrowserIInv, OwnersLoggedIn, UnansweredIsOut, DueIsStored, KnownTokens, AnswerOfFlight
<1>4. (WaitsForOwn /\ SessionOfLastLogin)'
  <2>1. \A q \in Loads : load'[q].at # "none" => load'[q] = load[q]
    BY <1>1, NoLoadAt
  <2>2. WaitsForOwn'
    BY <1>1, <2>1 DEF BrowserIInv, WaitsForOwn
  <2>3. SessionOfLastLogin'
    BY <1>1, <2>1 DEF BrowserIInv, SessionOfLastLogin
  <2> QED
    BY <2>2, <2>3
<1> QED
  BY <1>2, <1>3, <1>4 DEF BrowserIInv

LEMMA BrowserStepIInv == BrowserIInv /\ [BrowserNext]_browserVars => BrowserIInv'
<1> SUFFICES ASSUME BrowserIInv, [BrowserNext]_browserVars PROVE BrowserIInv'
  OBVIOUS
<1>1. CASE BrowserNext
  BY <1>1, LoginKeepsIInv, QuietKeepsIInv, EndingKeepsIInv, AnswerKeepsIInv, RefreshKeepsIInv,
     RequestKeepsIInv DEF BrowserNext
<1>2. CASE UNCHANGED browserVars
  BY <1>2, QuietKeepsIInv
<1> QED
  BY <1>1, <1>2

\* However many tabs, requests, logins and refreshes there are: no refresh of an older
\* session takes the place of the session of the last login, and none brings one back.
THEOREM SessionIsOfLastLogin == BrowserSpec => []SessionOfLastLogin
<1>1. BrowserIInv => SessionOfLastLogin
  BY DEF BrowserIInv
<1> QED
  BY <1>1, BrowserInitIInv, BrowserStepIInv, PTL DEF BrowserSpec

-----------------------------------------------------------------------------
(****************************************************************************)
(* The team: a tenant keeps an administrator, and a logout is final.        *)
(****************************************************************************)

\* Before the tenant is registered nothing is served.
NothingBefore == ~Registered => \A s \in Servers : serving[s] = Free

\* Logouts are counted, and nobody logged out later than now.
RevokedBefore == \A u \in DOMAIN member : member[u].revokedAt < clock

Change == OfMember \union OfRole

\* The rows a change is for are there, until it commits,
ChangeKnown(c) ==
    /\ c.kind = "member" => c.user \in DOMAIN member /\ c.roles \subseteq DOMAIN level
    /\ c.kind \in {"level", "delete"} => c.role \in DOMAIN level
ChangesKnown == \A s \in Servers, c \in Change : serving[s] = c => ChangeKnown(c)

\* because no other change writes them.
ChangesApart ==
    \A s, z \in Servers, c, d \in Change : s # z /\ serving[s] = c /\ serving[z] = d => ~InTheWay(c, d)

\* A change that is alone will leave the administrator it counted.
LeavesAdmin(c) == HasAdmin(MembersAfter(c), LevelsAfter(c))
ChangeKeepsAdmin ==
    ~raced => /\ \A s, z \in Changing : s = z
              /\ \A s \in Servers, c \in Change : serving[s] = c => LeavesAdmin(c)

TeamIInv ==
    /\ TeamTypeOK /\ NothingBefore /\ RevokedBefore
    /\ ChangesKnown /\ ChangesApart /\ ChangeKeepsAdmin /\ TenantHasAdmin

\* What a change makes of the members and the levels.
RowsAfter(c) ==
    /\ DOMAIN MembersAfter(c) = DOMAIN member
    /\ \A u \in DOMAIN member :
          /\ MembersAfter(c)[u] \in Member
          /\ MembersAfter(c)[u].revokedAt = member[u].revokedAt
          /\ c.kind # "member" => MembersAfter(c)[u].status = member[u].status
          /\ c.kind = "level" => MembersAfter(c)[u].roles = member[u].roles
          /\ c.kind = "delete" => MembersAfter(c)[u].roles = member[u].roles \ {c.role}
          /\ c.kind = "member" /\ u # c.user => MembersAfter(c)[u] = member[u]
          /\ c.kind = "member" /\ u = c.user =>
                /\ MembersAfter(c)[u].status = IF c.status = "keep" THEN member[u].status ELSE c.status
                /\ MembersAfter(c)[u].roles = IF c.roles = {} THEN member[u].roles ELSE c.roles
    /\ DOMAIN LevelsAfter(c) = IF c.kind = "delete" THEN DOMAIN level \ {c.role} ELSE DOMAIN level
    /\ \A r \in DOMAIN LevelsAfter(c) :
          /\ LevelsAfter(c)[r] \in Levels
          /\ LevelsAfter(c)[r] = IF c.kind = "level" /\ r = c.role THEN c.level ELSE level[r]
    /\ MembersAfter(c) \in [DOMAIN member -> Member]
    /\ LevelsAfter(c) \in [DOMAIN LevelsAfter(c) -> Levels]

-----------------------------------------------------------------------------
\* The first of a set of numbers is one of them and no more than any other,
LEMMA FirstOfNat ==
  ASSUME NEW S, S \subseteq Nat, S # {}
  PROVE  Min(S) \in S /\ \A y \in S : Min(S) <= y
<1> DEFINE Less == {p \in Nat \X Nat : p[1] < p[2]}
<1>1. IsWellFoundedOn(Less, Nat)
  BY NatLessThanWellFounded DEF OpToRel
<1> HIDE DEF Less
<1>2. PICK x \in S : \A y \in S : ~(<<y, x>> \in Less)
  BY <1>1, WFMin
<1>3. \A y \in S : x <= y
  <2> SUFFICES ASSUME NEW y \in S PROVE x <= y
    OBVIOUS
  <2>1. <<y, x>> \in Nat \X Nat
    OBVIOUS
  <2>2. ~(y < x)
    BY <1>2, <2>1 DEF Less
  <2> QED
    BY <2>2
<1> QED
  BY <1>3 DEF Min

\* and so is the first of the roles.
LEMMA FirstRole ==
  ASSUME NEW S, S \subseteq Roles, S # {}
  PROVE  Min(S) \in S
<1> QED
  BY RolesAssumption, FirstOfNat

\* What is served, by kind.
LEMMA Kinds ==
  ASSUME TeamTypeOK, NEW s \in Servers
  PROVE  /\ serving[s].kind = "session" => serving[s] \in Session
         /\ serving[s].kind = "member" <=> serving[s] \in OfMember
         /\ s \in Changing <=> serving[s] \in Change
BY DEF TeamTypeOK, Free, Session, OfMember, OfRole, Changing, Change

LEMMA ChangeKind ==
  ASSUME NEW c \in Change
  PROVE  /\ c.kind \in {"member", "level", "delete"} /\ c # Free
         /\ c.kind = "member" => c \in OfMember
         /\ c.kind = "level" => c.role \in Roles /\ c.level \in Levels
         /\ c.kind = "delete" => c.role \in Roles
BY DEF Change, OfMember, OfRole, Free

\* A row of a member with another status and other roles.
LEMMA OtherRow ==
  ASSUME NEW old \in Member, NEW st, NEW rs
  PROVE  /\ [old EXCEPT !.status = st].roles = old.roles
         /\ [[old EXCEPT !.status = st] EXCEPT !.roles = rs] = [status |-> st, roles |-> rs, revokedAt |-> old.revokedAt]
<1> DEFINE mid == [old EXCEPT !.status = st]
           new == [mid EXCEPT !.roles = rs]
<1>1. mid = [x \in {"status", "roles", "revokedAt"} |-> IF x = "status" THEN st ELSE old[x]]
  BY DEF Member
<1>2. mid = [status |-> st, roles |-> old.roles, revokedAt |-> old.revokedAt]
  BY <1>1
<1> HIDE DEF mid
<1>3. new = [status |-> st, roles |-> rs, revokedAt |-> old.revokedAt]
  BY <1>2
<1> QED
  BY <1>2, <1>3 DEF mid

\* The rows a change leaves.
RowsKnown == TeamTypeOK => \A c \in Change : ChangeKnown(c) => RowsAfter(c)

LEMMA AfterRows == RowsKnown
<1> SUFFICES ASSUME TeamTypeOK, NEW c \in Change, ChangeKnown(c) PROVE RowsAfter(c)
  BY DEF RowsKnown
<1>0. /\ member \in [DOMAIN member -> Member] /\ level \in [DOMAIN level -> Levels]
      /\ c.kind \in {"member", "level", "delete"}
  BY ChangeKind DEF TeamTypeOK
<1>1. CASE c.kind = "member"
  <2>1. /\ c.user \in DOMAIN member /\ c.status \in Statuses \union {"keep"} /\ c.roles \subseteq Roles
    BY <1>1, ChangeKind DEF ChangeKnown, OfMember
  <2> DEFINE row == [status |-> IF c.status = "keep" THEN member[c.user].status ELSE c.status,
                     roles  |-> IF c.roles = {} THEN member[c.user].roles ELSE c.roles,
                     revokedAt |-> member[c.user].revokedAt]
  <2>2. member[c.user] \in Member
    BY <1>0, <2>1
  <2>3. row \in Member
    BY <2>1, <2>2 DEF Member
  <2>4. MembersAfter(c) = [member EXCEPT ![c.user] = row]
    <3> DEFINE old == member[c.user]
               st  == IF c.status = "keep" THEN old.status ELSE c.status
               rs  == IF c.roles = {} THEN old.roles ELSE c.roles
               mid == [old EXCEPT !.status = st]
               first == [member EXCEPT ![c.user] = mid]
    <3>1. /\ mid.roles = old.roles
          /\ [mid EXCEPT !.roles = rs] = [status |-> st, roles |-> rs, revokedAt |-> old.revokedAt]
      <4>1. old \in Member
        BY <2>2
      <4> HIDE DEF st, rs, old
      <4> QED
        BY <4>1, OtherRow, Zenon
    <3>2. MembersAfter(c) = [first EXCEPT ![c.user] = [first[c.user] EXCEPT !.roles = rs]]
      BY <1>1 DEF MembersAfter
    <3> HIDE DEF mid
    <3>3. first[c.user] = mid /\ [first EXCEPT ![c.user] = row] = [member EXCEPT ![c.user] = row]
      BY <1>0, <2>1
    <3>4. [mid EXCEPT !.roles = rs] = row
      BY <3>1
    <3> HIDE DEF first, rs, row
    <3> QED
      BY <3>2, <3>3, <3>4
  <2>5. LevelsAfter(c) = level
    BY <1>1 DEF LevelsAfter
  <2>6. MembersAfter(c) \in [DOMAIN member -> Member]
    BY <1>0, <2>3, <2>4
  <2>7. \A u \in DOMAIN member : MembersAfter(c)[u] = IF u = c.user THEN row ELSE member[u]
    BY <1>0, <2>1, <2>4
  <2> QED
    BY <1>0, <1>1, <2>5, <2>6, <2>7 DEF RowsAfter
<1>2. CASE c.kind = "level"
  <2>1. c.role \in DOMAIN level /\ c.level \in Levels
    BY <1>2, ChangeKind DEF ChangeKnown
  <2>2. MembersAfter(c) = member /\ LevelsAfter(c) = [level EXCEPT ![c.role] = c.level]
    BY <1>2 DEF MembersAfter, LevelsAfter
  <2> QED
    BY <1>0, <1>2, <2>1, <2>2 DEF RowsAfter
<1>3. CASE c.kind = "delete"
  <2>1. /\ MembersAfter(c) = [u \in DOMAIN member |-> [member[u] EXCEPT !.roles = @ \ {c.role}]]
        /\ LevelsAfter(c) = [r \in DOMAIN level \ {c.role} |-> level[r]]
    BY <1>3 DEF MembersAfter, LevelsAfter
  <2>2. \A u \in DOMAIN member :
           /\ [member[u] EXCEPT !.roles = @ \ {c.role}] \in Member
           /\ [member[u] EXCEPT !.roles = @ \ {c.role}].revokedAt = member[u].revokedAt
           /\ [member[u] EXCEPT !.roles = @ \ {c.role}].status = member[u].status
           /\ [member[u] EXCEPT !.roles = @ \ {c.role}].roles = member[u].roles \ {c.role}
    BY <1>0 DEF Member
  <2> QED
    BY <1>0, <1>3, <2>1, <2>2 DEF RowsAfter
<1> QED
  BY <1>0, <1>1, <1>2, <1>3
\* Rows as they were, or more of them: no member loses a role or leaves, and no role
\* changes its level.
Grows ==
    /\ \A u \in DOMAIN member :
          /\ u \in DOMAIN member'
          /\ member[u].status = "active" => member'[u].status = "active"
          /\ member[u].roles \subseteq member'[u].roles
    /\ \A r \in DOMAIN level : r \in DOMAIN level' /\ level'[r] = level[r]

\* An administrator of some rows is one of those that keep his.
LEMMA AdminOfBoth ==
  ASSUME NEW m, NEW l, NEW n, NEW k, HasAdmin(m, l),
         \A u \in DOMAIN m : m[u].status = "active" =>
             /\ u \in DOMAIN n /\ n[u].status = "active"
             /\ \A r \in m[u].roles : l[r] = Full => r \in n[u].roles /\ k[r] = Full
  PROVE  HasAdmin(n, k)
BY DEF HasAdmin

LEMMA AfterRowsNext == RowsKnown'
BY AfterRows, PTL

\* A change that leaves an administrator leaves one of more rows, too.
LEMMA GrowingLeavesAdmin ==
  ASSUME TeamTypeOK, TeamTypeOK', Grows, NEW c \in Change, ChangeKnown(c)
  PROVE  ChangeKnown(c)' /\ (LeavesAdmin(c) => LeavesAdmin(c)')
<1>1. ChangeKnown(c)'
  BY DEF ChangeKnown, Grows
<1>2. RowsAfter(c)
  BY AfterRows DEF RowsKnown
<1>3. RowsAfter(c)'
  BY <1>1, AfterRowsNext DEF RowsKnown
<1>4. SUFFICES ASSUME LeavesAdmin(c) PROVE LeavesAdmin(c)'
  BY <1>1
<1>5. PICK u \in DOMAIN MembersAfter(c) : /\ MembersAfter(c)[u].status = "active"
                                          /\ \E r \in MembersAfter(c)[u].roles : LevelsAfter(c)[r] = Full
  BY <1>4 DEF LeavesAdmin, HasAdmin
<1>6. PICK r \in MembersAfter(c)[u].roles : LevelsAfter(c)[r] = Full
  BY <1>5
<1>7. u \in DOMAIN member /\ u \in DOMAIN member'
  BY <1>2 DEF RowsAfter, Grows
<1>8. MembersAfter(c)'[u].status = "active" /\ r \in MembersAfter(c)'[u].roles
  BY <1>2, <1>3, <1>5, <1>6, <1>7, ChangeKind DEF RowsAfter, Grows
<1>9. r \in DOMAIN LevelsAfter(c) /\ r \in DOMAIN level
  BY <1>2, <1>6, <1>7, ChangeKind DEF RowsAfter, TeamTypeOK, ChangeKnown
<1>10. LevelsAfter(c)'[r] = Full
  BY <1>2, <1>3, <1>6, <1>9 DEF RowsAfter, Grows
<1> QED
  BY <1>3, <1>7, <1>8, <1>10 DEF LeavesAdmin, HasAdmin, RowsAfter

-----------------------------------------------------------------------------
\* Nothing is registered, and nothing served.
LEMMA TeamInitIInv == TeamInit => TeamIInv
<1> SUFFICES ASSUME TeamInit PROVE TeamIInv
  OBVIOUS
<1>1. DOMAIN member = {} /\ DOMAIN level = {}
  BY DEF TeamInit
<1>2. TeamTypeOK
  <2>1. member \in [DOMAIN member -> Member] /\ level \in [DOMAIN level -> Levels]
    <3>1. <<>> = [x \in {} |-> 0]
      OBVIOUS
    <3> QED
      BY <1>1, <3>1 DEF TeamInit
  <2>2. clock \in 1..(MaxLogouts + 1) /\ changes \in 0..MaxChanges
    BY TeamBoundsAssumption DEF TeamInit
  <2> QED
    BY <1>1, <2>1, <2>2 DEF TeamInit, TeamTypeOK
<1>3. \A s \in Servers : serving[s] = Free
  BY DEF TeamInit
<1>4. Changing = {} /\ \A s \in Servers, c \in Change : serving[s] # c
  BY <1>3, ChangeKind DEF Changing, Free
<1> QED
  BY <1>1, <1>2, <1>3, <1>4 DEF TeamIInv, NothingBefore, RevokedBefore, ChangesKnown, ChangesApart,
                                 ChangeKeepsAdmin, TenantHasAdmin, Registered

\* A token that is admitted was issued to a member.
LEMMA AdmittedIsRegistered ==
  ASSUME NEW t, Admits(t)
  PROVE  Registered /\ t.user \in DOMAIN member /\ t.role \in member[t.user].roles
BY DEF Admits, Active, Registered

\* What changes neither a row nor a change that is open, or adds to the rows.
LEMMA GrowingKeepsIInv ==
  ASSUME TeamIInv, TeamTypeOK', Grows, Registered,
         raced' = raced, Changing' = Changing, \A s \in Changing : serving'[s] = serving[s],
         RevokedBefore'
  PROVE  TeamIInv'
<1>0. TeamTypeOK
  BY DEF TeamIInv
<1>1. ASSUME NEW s \in Servers, NEW c \in Change, serving'[s] = c PROVE serving[s] = c
  <2>1. s \in Changing'
    BY <1>1, ChangeKind DEF Changing
  <2> QED
    BY <1>1, <2>1
<1>2. ChangesKnown'
  BY <1>0, <1>1, GrowingLeavesAdmin DEF TeamIInv, ChangesKnown
<1>3. ChangesApart'
  BY <1>1 DEF TeamIInv, ChangesApart
<1>4. ChangeKeepsAdmin'
  <2>1. ASSUME NEW s \in Servers, NEW c \in Change, serving'[s] = c, ~raced
        PROVE  LeavesAdmin(c)'
    <3>1. ChangeKnown(c) /\ LeavesAdmin(c)
      BY <1>1, <2>1 DEF TeamIInv, ChangesKnown, ChangeKeepsAdmin
    <3> QED
      BY <1>0, <3>1, GrowingLeavesAdmin
  <2> QED
    BY <2>1 DEF TeamIInv, ChangeKeepsAdmin
<1>5. Registered' /\ NothingBefore'
  BY DEF Registered, Grows, NothingBefore
<1>6. TenantHasAdmin'
  <2> SUFFICES ASSUME ~raced PROVE HasAdmin(member', level')
    BY DEF TenantHasAdmin, HasAdmin
  <2>1. HasAdmin(member, level)
    BY DEF TeamIInv, TenantHasAdmin
  <2>2. \A u \in DOMAIN member : member[u].roles \subseteq DOMAIN level
    BY <1>0 DEF TeamTypeOK
  <2> QED
    BY <2>1, <2>2, AdminOfBoth DEF Grows
<1> QED
  BY <1>2, <1>3, <1>4, <1>5, <1>6 DEF TeamIInv

\* The one who registers is the administrator.
LEMMA RegisterKeepsIInv ==
  ASSUME TeamIInv, NEW s \in Servers, NEW u \in Users, Register(s, u)
  PROVE  TeamIInv'
<1>0. TeamTypeOK
  BY DEF TeamIInv
<1> DEFINE row == [status |-> "active", roles |-> {CompanyAdmin}, revokedAt |-> 0]
           answer == [kind |-> "session", user |-> u, role |-> CompanyAdmin]
<1>1. /\ ~Registered /\ level' = DefaultLevels /\ member' = [x \in {u} |-> row]
      /\ serving' = [serving EXCEPT ![s] = answer] /\ UNCHANGED <<tokens, clock, raced, changes>>
      /\ \A z \in Servers : serving[z] = Free
  BY DEF Register, TeamIInv, NothingBefore
<1>2. row \in Member /\ answer \in Session
  BY RolesAssumption, TeamBoundsAssumption DEF Member, Session, Statuses
<1>3. DOMAIN level' = Roles /\ level' \in [Roles -> Levels] /\ level'[CompanyAdmin] = Full
  BY <1>1, RolesAssumption DEF DefaultLevels, Levels, Full, Read, None
<1>4. TeamTypeOK'
  <2>1. DOMAIN member' = {u} /\ member' \in [{u} -> Member] /\ member'[u].roles \subseteq Roles
    BY <1>1, <1>2, RolesAssumption
  <2>2. serving' \in [Servers -> {Free} \union Session \union OfMember \union OfRole]
    BY <1>0, <1>1, <1>2 DEF TeamTypeOK
  <2> QED
    BY <1>0, <1>1, <1>3, <2>1, <2>2 DEF TeamTypeOK
<1>5. \A z \in Servers : serving'[z] \in {Free, answer}
  BY <1>0, <1>1 DEF TeamTypeOK
<1>6. Changing' = {} /\ \A z \in Servers, c \in Change : serving'[z] # c
  BY <1>5, ChangeKind DEF Changing, Free
<1>7. Registered' /\ RevokedBefore'
  BY <1>0, <1>1, TeamBoundsAssumption DEF Registered, RevokedBefore, TeamTypeOK
<1>8. HasAdmin(member', level')
  BY <1>1, <1>3 DEF HasAdmin
<1> QED
  BY <1>4, <1>6, <1>7, <1>8 DEF TeamIInv, NothingBefore, ChangesKnown, ChangesApart, ChangeKeepsAdmin,
                                 TenantHasAdmin, HasAdmin

\* A request for a session, answered or not, is no change.
LEMMA ServingSession ==
  ASSUME TeamTypeOK, NEW s \in Servers, NEW row \in Session \union {Free},
         serving[s] = Free \/ serving[s].kind = "session",
         serving' = [serving EXCEPT ![s] = row]
  PROVE  /\ serving' \in [Servers -> {Free} \union Session \union OfMember \union OfRole]
         /\ Changing' = Changing /\ \A z \in Changing : serving'[z] = serving[z]
<1>1. serving'[s] = row /\ \A z \in Servers : z # s => serving'[z] = serving[z]
  BY DEF TeamTypeOK
<1>2. serving[s].kind \notin {"member", "level", "delete"} /\ row.kind \notin {"member", "level", "delete"}
  BY DEF Free, Session
<1>3. serving' \in [Servers -> {Free} \union Session \union OfMember \union OfRole]
  BY DEF TeamTypeOK
<1> QED
  BY <1>1, <1>2, <1>3 DEF Changing

\* Nobody is changed by a login, a refresh, an answer or a token that expires.
LEMMA SessionsKeepIInv ==
  ASSUME TeamIInv,
         \/ \E s \in Servers, u \in Users : Login(s, u)
         \/ \E s \in Servers, t \in tokens : Refresh(s, t)
         \/ \E s \in Servers : Answer(s)
         \/ \E t \in tokens : Expire(t)
  PROVE  TeamIInv'
<1>0. TeamTypeOK
  BY DEF TeamIInv
<1>1. UNCHANGED <<member, level, clock, raced, changes>>
  BY DEF Login, Refresh, Answer, Expire
<1>2. Grows /\ RevokedBefore'
  BY <1>1 DEF Grows, TeamIInv, RevokedBefore
<1>3. ASSUME NEW s \in Servers, NEW row \in Session \union {Free},
             serving[s] = Free \/ serving[s].kind = "session",
             serving' = [serving EXCEPT ![s] = row], tokens' \subseteq Token, Registered
      PROVE  TeamIInv'
  <2>1. /\ serving' \in [Servers -> {Free} \union Session \union OfMember \union OfRole]
        /\ Changing' = Changing /\ \A z \in Changing : serving'[z] = serving[z]
    BY <1>0, <1>3, ServingSession
  <2>2. TeamTypeOK'
    BY <1>0, <1>1, <1>3, <2>1 DEF TeamTypeOK
  <2> QED
    BY <1>1, <1>2, <1>3, <2>1, <2>2, GrowingKeepsIInv
<1>4. ASSUME NEW s \in Servers, NEW u \in Users, Login(s, u) PROVE TeamIInv'
  <2>1. Registered /\ member[u].roles \subseteq Roles /\ member[u].roles # {}
    BY <1>0, <1>4 DEF Login, Active, Registered, TeamTypeOK, Member
  <2>2. [kind |-> "session", user |-> u, role |-> Min(member[u].roles)] \in Session
    BY <2>1, FirstRole DEF Session
  <2>3. tokens' \subseteq Token
    BY <1>0, <1>4 DEF Login, TeamTypeOK
  <2> QED
    BY <1>3, <1>4, <2>1, <2>2, <2>3 DEF Login
<1>5. ASSUME NEW s \in Servers, NEW t \in tokens, Refresh(s, t) PROVE TeamIInv'
  <2>1. Registered /\ t \in Token
    BY <1>0, <1>5, AdmittedIsRegistered DEF Refresh, TeamTypeOK
  <2>2. [kind |-> "session", user |-> t.user, role |-> t.role] \in Session
    BY <2>1 DEF Session, Token
  <2>3. tokens' \subseteq Token
    BY <1>0, <1>5 DEF Refresh, TeamTypeOK
  <2> QED
    BY <1>3, <1>5, <2>1, <2>2, <2>3 DEF Refresh
<1>6. ASSUME NEW s \in Servers, Answer(s) PROVE TeamIInv'
  <2>1. serving[s] \in Session /\ serving[s] # Free
    BY <1>0, <1>6, Kinds DEF Answer, Session, Free
  <2>2. [user |-> serving[s].user, role |-> serving[s].role, issuedAt |-> clock] \in Token
    BY <1>0, <2>1 DEF Session, Token, TeamTypeOK
  <2>3. tokens' \subseteq Token
    BY <1>0, <1>6, <2>2 DEF Answer, TeamTypeOK
  <2>4. Registered
    BY <2>1 DEF TeamIInv, NothingBefore
  <2> QED
    BY <1>3, <1>6, <2>3, <2>4 DEF Answer
<1>7. ASSUME NEW t \in tokens, Expire(t) PROVE TeamIInv'
  <2>1. tokens' \subseteq Token /\ serving' = serving
    BY <1>0, <1>7 DEF Expire, TeamTypeOK
  <2>2. TeamTypeOK'
    BY <1>0, <1>1, <2>1 DEF TeamTypeOK
  <2>3. CASE Registered
    <3>1. Changing' = Changing
      BY <2>1 DEF Changing
    <3> QED
      BY <1>1, <1>2, <2>1, <2>2, <2>3, <3>1, GrowingKeepsIInv
  <2>4. CASE ~Registered
    <3>1. \A s \in Servers : serving'[s] = Free
      BY <2>1, <2>4 DEF TeamIInv, NothingBefore
    <3>2. Changing' = {} /\ \A s \in Servers, c \in Change : serving'[s] # c
      BY <3>1, ChangeKind DEF Changing, Free
    <3>3. ~Registered'
      BY <1>1, <2>4 DEF Registered
    <3> QED
      BY <1>2, <2>2, <3>1, <3>2, <3>3 DEF TeamIInv, NothingBefore, ChangesKnown, ChangesApart, ChangeKeepsAdmin,
                                     TenantHasAdmin
  <2> QED
    BY <2>3, <2>4
<1> QED
  BY <1>4, <1>5, <1>6, <1>7

\* A logout moves the date of one member, to now.
LEMMA LogoutKeepsIInv ==
  ASSUME TeamIInv, NEW t \in tokens, Logout(t)
  PROVE  TeamIInv'
<1>0. TeamTypeOK
  BY DEF TeamIInv
<1>1. /\ clock <= MaxLogouts /\ clock' = clock + 1
      /\ member' = [member EXCEPT ![t.user].revokedAt = clock]
      /\ UNCHANGED <<level, tokens, serving, raced, changes>>
      /\ t.user \in DOMAIN member /\ Registered
  BY AdmittedIsRegistered DEF Logout
<1>2. clock \in 1..MaxLogouts /\ clock \in Nat
  BY <1>0, <1>1, TeamBoundsAssumption DEF TeamTypeOK
<1> DEFINE new == [member[t.user] EXCEPT !.revokedAt = clock]
<1>3. /\ new \in Member /\ new.revokedAt = clock
      /\ new.status = member[t.user].status /\ new.roles = member[t.user].roles
  <2>1. member[t.user] \in Member
    BY <1>0, <1>1 DEF TeamTypeOK
  <2>2. clock \in 0..MaxLogouts
    BY <1>2
  <2> QED
    BY <2>1, <2>2 DEF Member
<1>4. /\ DOMAIN member' = DOMAIN member
      /\ \A u \in DOMAIN member : member'[u] = IF u = t.user THEN new ELSE member[u]
  BY <1>0, <1>1 DEF TeamTypeOK
<1> HIDE DEF new
<1>5. TeamTypeOK'
  <2>1. member' \in [DOMAIN member' -> Member]
    BY <1>0, <1>1, <1>3, <1>4 DEF TeamTypeOK, new
  <2>2. clock' \in 1..(MaxLogouts + 1)
    BY <1>1, <1>2, TeamBoundsAssumption
  <2>3. \A u \in DOMAIN member' : member'[u].roles \subseteq DOMAIN level
    BY <1>0, <1>3, <1>4 DEF TeamTypeOK
  <2> QED
    BY <1>0, <1>1, <1>4, <2>1, <2>2, <2>3 DEF TeamTypeOK
<1>6. Grows
  BY <1>1, <1>3, <1>4 DEF Grows
<1>7. RevokedBefore'
  <2> SUFFICES ASSUME NEW u \in DOMAIN member PROVE member'[u].revokedAt < clock'
    BY <1>4 DEF RevokedBefore
  <2>1. member[u].revokedAt < clock /\ member[u].revokedAt \in Nat
    BY <1>0, TeamBoundsAssumption DEF TeamIInv, RevokedBefore, TeamTypeOK, Member
  <2> QED
    BY <1>1, <1>2, <1>3, <1>4, <2>1
<1>8. Changing' = Changing /\ \A s \in Changing : serving'[s] = serving[s]
  BY <1>1 DEF Changing
<1> QED
  BY <1>1, <1>5, <1>6, <1>7, <1>8, GrowingKeepsIInv

\* A member who is invited, again or not, keeps his roles and his logouts.
LEMMA InvitedRows ==
  ASSUME TeamTypeOK, NEW u \in Users, NEW r \in DOMAIN level, member' = Invited(u, r)
  PROVE  /\ DOMAIN member' = DOMAIN member \union {u}
         /\ member' \in [DOMAIN member' -> Member]
         /\ \A x \in DOMAIN member : x # u => member'[x] = member[x]
         /\ member'[u].status = "active"
         /\ IF u \in DOMAIN member
            THEN member'[u].revokedAt = member[u].revokedAt /\ member'[u].roles = member[u].roles \union {r}
            ELSE member'[u].revokedAt = 0 /\ member'[u].roles = {r}
<1>1. DOMAIN member' = DOMAIN member \union {u}
  BY DEF Invited
<1>2. \A x \in DOMAIN member : x # u => member'[x] = member[x]
  BY DEF Invited
<1>3. member \in [DOMAIN member -> Member] /\ r \in Roles
  BY DEF TeamTypeOK
<1>4. CASE u \in DOMAIN member
  <2>1. member'[u] = [member[u] EXCEPT !.status = "active", !.roles = @ \union {r}]
    BY <1>4 DEF Invited
  <2>2. member[u] \in Member
    BY <1>3, <1>4
  <2> DEFINE old == member[u]
  <2>3. [old EXCEPT !.status = "active"].roles = old.roles
    BY <2>2, OtherRow, Zenon
  <2>4. member'[u] = [[old EXCEPT !.status = "active"] EXCEPT !.roles = old.roles \union {r}]
    BY <2>1, <2>3
  <2>5. member'[u] = [status |-> "active", roles |-> old.roles \union {r}, revokedAt |-> old.revokedAt]
    <3>1. [[old EXCEPT !.status = "active"] EXCEPT !.roles = old.roles \union {r}]
            = [status |-> "active", roles |-> old.roles \union {r}, revokedAt |-> old.revokedAt]
      BY <2>2, OtherRow, Zenon
    <3> QED
      BY <2>4, <3>1
  <2>6. member'[u] \in Member
    BY <1>3, <2>2, <2>5 DEF Member, Statuses
  <2>7. member' \in [DOMAIN member' -> Member]
    BY <1>1, <1>2, <1>3, <2>6 DEF Invited
  <2> QED
    BY <1>1, <1>2, <1>4, <2>5, <2>7
<1>5. CASE u \notin DOMAIN member
  <2>1. member'[u] = [status |-> "active", roles |-> {r}, revokedAt |-> 0]
    BY <1>5 DEF Invited
  <2>2. member'[u] \in Member
    BY <1>3, <2>1, TeamBoundsAssumption DEF Member, Statuses
  <2>3. member' \in [DOMAIN member' -> Member]
    BY <1>1, <1>2, <1>3, <2>2 DEF Invited
  <2> QED
    BY <1>1, <1>2, <1>5, <2>1, <2>3
<1> QED
  BY <1>4, <1>5

\* A member or a role that is new adds to the rows.
LEMMA AddingKeepsIInv ==
  ASSUME TeamIInv,
         \/ \E u \in Users, r \in Roles : InviteMember(u, r)
         \/ \E r \in Roles, lv \in Levels : CreateRole(r, lv)
  PROVE  TeamIInv'
<1>0. TeamTypeOK
  BY DEF TeamIInv
<1>1. /\ TeamRequest /\ changes < MaxChanges /\ changes' = changes + 1
      /\ UNCHANGED <<tokens, clock, serving, raced>>
  BY DEF InviteMember, CreateRole
<1>2. Registered /\ changes' \in 0..MaxChanges
  BY <1>0, <1>1, AdmittedIsRegistered, TeamBoundsAssumption DEF TeamRequest, TeamTypeOK
<1>3. Changing' = Changing /\ \A s \in Changing : serving'[s] = serving[s]
  BY <1>1 DEF Changing
<1>4. ASSUME NEW u \in Users, NEW r \in Roles, InviteMember(u, r) PROVE TeamIInv'
  <2>1. r \in DOMAIN level /\ member' = Invited(u, r) /\ level' = level
    BY <1>4 DEF InviteMember
  <2>2. /\ DOMAIN member' = DOMAIN member \union {u}
        /\ member' \in [DOMAIN member' -> Member]
        /\ \A x \in DOMAIN member : x # u => member'[x] = member[x]
        /\ member'[u].status = "active"
        /\ IF u \in DOMAIN member
           THEN member'[u].revokedAt = member[u].revokedAt /\ member'[u].roles = member[u].roles \union {r}
           ELSE member'[u].revokedAt = 0 /\ member'[u].roles = {r}
    BY <1>0, <2>1, InvitedRows
  <2>3. TeamTypeOK'
    <3>1. \A x \in DOMAIN member' : member'[x].roles \subseteq DOMAIN level'
      BY <1>0, <2>1, <2>2 DEF TeamTypeOK
    <3> QED
      BY <1>0, <1>1, <1>2, <2>1, <2>2, <3>1 DEF TeamTypeOK
  <2>4. Grows
    BY <2>1, <2>2 DEF Grows
  <2>5. RevokedBefore'
    BY <1>0, <1>1, <2>2, TeamBoundsAssumption DEF TeamIInv, RevokedBefore, TeamTypeOK
  <2> QED
    BY <1>1, <1>2, <1>3, <2>3, <2>4, <2>5, GrowingKeepsIInv
<1>5. ASSUME NEW r \in Roles, NEW lv \in Levels, CreateRole(r, lv) PROVE TeamIInv'
  <2>1. /\ r \notin DOMAIN level /\ member' = member
        /\ level' = [q \in DOMAIN level \union {r} |-> IF q = r THEN lv ELSE level[q]]
    BY <1>5 DEF CreateRole
  <2>2. TeamTypeOK'
    BY <1>0, <1>1, <1>2, <2>1 DEF TeamTypeOK
  <2>3. Grows
    BY <2>1 DEF Grows
  <2>4. RevokedBefore'
    BY <1>1, <2>1 DEF TeamIInv, RevokedBefore
  <2> QED
    BY <1>1, <1>2, <1>3, <2>2, <2>3, <2>4, GrowingKeepsIInv
<1> QED
  BY <1>4, <1>5

-----------------------------------------------------------------------------
\* Waiting for each other's rows goes both ways.
LEMMA InTheWayBoth ==
  ASSUME NEW c, NEW d, ~InTheWay(c, d)
  PROVE  ~InTheWay(d, c)
BY DEF InTheWay

\* A change that is begun is counted with its own writes, and waits for no other.
LEMMA BeginKeepsIInv ==
  ASSUME TeamIInv, NEW s \in Servers, NEW c \in Change, ChangeKnown(c), Begin(s, c)
  PROVE  TeamIInv'
<1>0. TeamTypeOK
  BY DEF TeamIInv
<1>1. /\ TeamRequest /\ changes < MaxChanges /\ serving[s] = Free
      /\ serving' = [serving EXCEPT ![s] = c] /\ changes' = changes + 1
      /\ raced' = (raced \/ Changing # {})
      /\ UNCHANGED <<member, level, tokens, clock>>
      /\ LeavesAdmin(c)
      /\ \A z \in Changing : ~InTheWay(c, serving[z])
  BY DEF Begin, LeavesAdmin
<1>2. Registered /\ changes' \in 0..MaxChanges
  BY <1>0, <1>1, AdmittedIsRegistered, TeamBoundsAssumption DEF TeamRequest, TeamTypeOK
<1>3. serving'[s] = c /\ \A z \in Servers : z # s => serving'[z] = serving[z]
  BY <1>0, <1>1 DEF TeamTypeOK
<1>4. TeamTypeOK'
  <2>1. serving' \in [Servers -> {Free} \union Session \union OfMember \union OfRole]
    BY <1>0, <1>1 DEF TeamTypeOK, Change
  <2> QED
    BY <1>0, <1>1, <1>2, <2>1 DEF TeamTypeOK
<1>5. Changing' = Changing \union {s}
  BY <1>3, ChangeKind DEF Changing
<1>6. Grows
  BY <1>1 DEF Grows
<1>7. \A d \in Change : ChangeKnown(d) => ChangeKnown(d)' /\ (LeavesAdmin(d) => LeavesAdmin(d)')
  BY <1>0, <1>4, <1>6, GrowingLeavesAdmin
<1>8. ChangesKnown'
  BY <1>3, <1>7 DEF TeamIInv, ChangesKnown
<1>9. ChangesApart'
  <2> SUFFICES ASSUME NEW y \in Servers, NEW z \in Servers, NEW d \in Change, NEW e \in Change,
                      y # z, serving'[y] = d, serving'[z] = e
               PROVE  ~InTheWay(d, e)
    BY DEF ChangesApart
  <2>1. CASE y # s /\ z # s
    BY <1>3, <2>1 DEF TeamIInv, ChangesApart
  <2>2. CASE y = s
    <3>1. z \in Changing /\ serving[z] = e
      BY <1>3, <2>2, ChangeKind DEF Changing
    <3> QED
      BY <1>1, <1>3, <2>2, <3>1
  <2>3. CASE z = s
    <3>1. y \in Changing /\ serving[y] = d
      BY <1>3, <2>3, ChangeKind DEF Changing
    <3> QED
      BY <1>1, <1>3, <2>3, <3>1, InTheWayBoth
  <2> QED
    BY <2>1, <2>2, <2>3
<1>10. ChangeKeepsAdmin'
  <2> SUFFICES ASSUME ~raced' PROVE /\ \A y, z \in Changing' : y = z
                                    /\ \A z \in Servers, d \in Change : serving'[z] = d => LeavesAdmin(d)'
    BY DEF ChangeKeepsAdmin
  <2>1. Changing' = {s}
    BY <1>1, <1>5
  <2>2. ASSUME NEW z \in Servers, NEW d \in Change, serving'[z] = d PROVE LeavesAdmin(d)'
    <3>1. z = s /\ d = c
      BY <1>3, <2>1, <2>2, ChangeKind DEF Changing
    <3> QED
      BY <1>1, <1>7, <3>1
  <2> QED
    BY <2>1, <2>2
<1>11. (RevokedBefore /\ NothingBefore)' /\ TenantHasAdmin'
  BY <1>1, <1>2 DEF TeamIInv, RevokedBefore, NothingBefore, TenantHasAdmin, Registered, HasAdmin
<1> QED
  BY <1>4, <1>8, <1>9, <1>10, <1>11 DEF TeamIInv

\* A change that commits takes away no row another change is for, and leaves the
\* administrator it counted if it was alone.
LEMMA TeamCommitKeepsIInv ==
  ASSUME TeamIInv, NEW s \in Servers, Commit(s)
  PROVE  TeamIInv'
<1>0. TeamTypeOK
  BY DEF TeamIInv
<1> DEFINE c == serving[s]
<1>1. /\ c \in Change /\ s \in Changing
      /\ serving' = [serving EXCEPT ![s] = Free] /\ UNCHANGED <<tokens, clock, raced, changes>>
  BY <1>0, Kinds DEF Commit
<1>2. ChangeKnown(c) /\ (~raced => LeavesAdmin(c))
  BY <1>1 DEF TeamIInv, ChangesKnown, ChangeKeepsAdmin
<1>3. RowsAfter(c)
  BY <1>0, <1>1, <1>2, AfterRows DEF RowsKnown
<1>4. member' = MembersAfter(c) /\ level' = LevelsAfter(c)
  BY DEF Commit
<1> HIDE DEF c
<1>5. DOMAIN member' = DOMAIN member
  BY <1>3, <1>4 DEF RowsAfter
<1>6. serving'[s] = Free /\ \A z \in Servers : z # s => serving'[z] = serving[z]
  BY <1>0, <1>1 DEF TeamTypeOK
<1>7. TeamTypeOK'
  <2>1. serving' \in [Servers -> {Free} \union Session \union OfMember \union OfRole]
    BY <1>0, <1>1 DEF TeamTypeOK
  <2>2. DOMAIN level' \subseteq Roles
    BY <1>0, <1>3, <1>4 DEF TeamTypeOK, RowsAfter
  <2>3. \A u \in DOMAIN member' : member'[u].roles \subseteq DOMAIN level'
    <3> SUFFICES ASSUME NEW u \in DOMAIN member PROVE member'[u].roles \subseteq DOMAIN level'
      BY <1>5
    <3>1. member[u].roles \subseteq DOMAIN level
      BY <1>0 DEF TeamTypeOK
    <3> QED
      BY <1>1, <1>2, <1>3, <1>4, <3>1, ChangeKind DEF RowsAfter, ChangeKnown
  <2> QED
    BY <1>0, <1>1, <1>3, <1>4, <1>5, <2>1, <2>2, <2>3 DEF TeamTypeOK, RowsAfter
<1>8. Changing' = Changing \ {s}
  BY <1>6 DEF Changing, Free
<1>9. ASSUME NEW z \in Servers, NEW d \in Change, serving'[z] = d
      PROVE  z # s /\ serving[z] = d /\ z \in Changing /\ ~InTheWay(d, c) /\ ChangeKnown(d)
  <2>1. z # s /\ serving[z] = d /\ z \in Changing
    BY <1>6, <1>9, ChangeKind DEF Changing
  <2> QED
    BY <1>1, <2>1 DEF TeamIInv, ChangesApart, ChangesKnown, c
<1>10. ChangesKnown'
  <2> SUFFICES ASSUME NEW z \in Servers, NEW d \in Change, serving'[z] = d PROVE ChangeKnown(d)'
    BY DEF ChangesKnown
  <2>1. ChangeKnown(d) /\ ~InTheWay(d, c)
    BY <1>9
  <2>2. d.kind = "member" => d.user \in DOMAIN member'
    BY <1>5, <2>1 DEF ChangeKnown
  <2>3. CASE c.kind # "delete"
    <3>1. DOMAIN level' = DOMAIN level
      BY <1>3, <1>4, <2>3 DEF RowsAfter
    <3> QED
      BY <2>1, <2>2, <3>1 DEF ChangeKnown
  <2>4. CASE c.kind = "delete"
    <3>1. DOMAIN level' = DOMAIN level \ {c.role} /\ c.role \in Roles
      BY <1>1, <1>3, <1>4, <2>4, ChangeKind DEF RowsAfter
    <3>2. ~Uses(d, c.role)
      <4>1. {d.kind, c.kind} # {"member"} /\ {d.kind, c.kind} # {"member", "level"} /\ Uses(c, c.role)
        BY <2>4 DEF Uses
      <4> QED
        BY <2>1, <3>1, <4>1 DEF InTheWay
    <3> QED
      BY <2>1, <2>2, <3>1, <3>2 DEF ChangeKnown, Uses
  <2> QED
    BY <2>3, <2>4
<1>11. ChangesApart'
  BY <1>9 DEF TeamIInv, ChangesApart
<1>12. ChangeKeepsAdmin'
  BY <1>1, <1>8, <1>9 DEF TeamIInv, ChangeKeepsAdmin
<1>13. TenantHasAdmin'
  BY <1>1, <1>2, <1>4 DEF TenantHasAdmin, LeavesAdmin, HasAdmin
<1>14. RevokedBefore'
  BY <1>1, <1>3, <1>4, <1>5 DEF TeamIInv, RevokedBefore, RowsAfter
<1>15. NothingBefore'
  <2>1. Registered
    BY <1>1, ChangeKind DEF TeamIInv, NothingBefore, c
  <2> QED
    BY <1>5, <2>1 DEF NothingBefore, Registered
<1> QED
  BY <1>7, <1>10, <1>11, <1>12, <1>13, <1>14, <1>15 DEF TeamIInv

\* The four changes, each for rows there are.
LEMMA ChangesKeepIInv ==
  ASSUME TeamIInv, NEW s \in Servers,
         \/ \E u \in Users, st \in Statuses \union {"keep"}, rs \in SUBSET Roles : UpdateMember(s, u, st, rs)
         \/ \E u \in Users : DeleteMember(s, u)
         \/ \E r \in Roles, lv \in Levels : UpdateRole(s, r, lv)
         \/ \E r \in Roles : DeleteRole(s, r)
  PROVE  TeamIInv'
<1>1. ASSUME NEW u \in Users, NEW st \in Statuses \union {"keep"}, NEW rs \in SUBSET Roles,
             u \in DOMAIN member, rs \subseteq DOMAIN level,
             Begin(s, [kind |-> "member", user |-> u, status |-> st, roles |-> rs])
      PROVE  TeamIInv'
  <2> DEFINE c == [kind |-> "member", user |-> u, status |-> st, roles |-> rs]
  <2>1. c \in Change /\ ChangeKnown(c)
    BY <1>1 DEF Change, OfMember, ChangeKnown
  <2> HIDE DEF c
  <2> QED
    BY <1>1, <2>1, BeginKeepsIInv DEF c
<1>2. ASSUME NEW r \in Roles, NEW lv \in Levels, UpdateRole(s, r, lv) PROVE TeamIInv'
  <2> DEFINE c == [kind |-> "level", role |-> r, level |-> lv]
  <2>1. c \in Change /\ ChangeKnown(c) /\ Begin(s, c)
    BY <1>2 DEF Change, OfRole, ChangeKnown, UpdateRole
  <2> HIDE DEF c
  <2> QED
    BY <2>1, BeginKeepsIInv
<1>3. ASSUME NEW r \in Roles, DeleteRole(s, r) PROVE TeamIInv'
  <2> DEFINE c == [kind |-> "delete", role |-> r]
  <2>1. c \in Change /\ ChangeKnown(c) /\ Begin(s, c)
    BY <1>3 DEF Change, OfRole, ChangeKnown, DeleteRole
  <2> HIDE DEF c
  <2> QED
    BY <2>1, BeginKeepsIInv
<1>4. "disabled" \in Statuses /\ {} \in SUBSET Roles /\ {} \subseteq DOMAIN level
  BY DEF Statuses
<1> QED
  BY <1>1, <1>2, <1>3, <1>4 DEF UpdateMember, DeleteMember

LEMMA TeamStepIInv == TeamIInv /\ [TeamNext]_teamVars => TeamIInv'
<1> SUFFICES ASSUME TeamIInv, [TeamNext]_teamVars PROVE TeamIInv'
  OBVIOUS
<1>1. CASE SessionStep
  BY <1>1, RegisterKeepsIInv, SessionsKeepIInv, LogoutKeepsIInv DEF SessionStep
<1>2. CASE MemberStep
  BY <1>2, AddingKeepsIInv, ChangesKeepIInv, TeamCommitKeepsIInv DEF MemberStep
<1>3. CASE RoleStep
  BY <1>3, AddingKeepsIInv, ChangesKeepIInv DEF RoleStep
<1>4. CASE UNCHANGED teamVars
  <2>1. UNCHANGED <<member, level, tokens, clock, serving, raced, changes>>
    BY <1>4 DEF teamVars
  <2>2. TeamTypeOK'
    BY <2>1 DEF TeamIInv, TeamTypeOK
  <2>3. \A c \in Change : ChangeKnown(c) => ChangeKnown(c)' /\ (LeavesAdmin(c) => LeavesAdmin(c)')
    BY <2>1, <2>2, GrowingLeavesAdmin DEF Grows, TeamIInv
  <2>4. ChangesKnown' /\ ChangesApart'
    BY <2>1, <2>3 DEF TeamIInv, ChangesKnown, ChangesApart
  <2>5. Changing' = Changing
    BY <2>1 DEF Changing
  <2>6. ChangeKeepsAdmin'
    BY <2>1, <2>3, <2>5 DEF TeamIInv, ChangesKnown, ChangeKeepsAdmin
  <2> QED
    BY <2>1, <2>2, <2>4, <2>6 DEF TeamIInv, NothingBefore, RevokedBefore, TenantHasAdmin, Registered, HasAdmin
<1> QED
  BY <1>1, <1>2, <1>3, <1>4 DEF TeamNext

-----------------------------------------------------------------------------
\* The date of a member's last logout never goes back.
LEMMA LogoutsAreKept ==
  ASSUME TeamIInv, [TeamNext]_teamVars
  PROVE  \A u \in DOMAIN member : u \in DOMAIN member' => member'[u].revokedAt >= member[u].revokedAt
<1> SUFFICES ASSUME NEW u \in DOMAIN member, u \in DOMAIN member'
             PROVE  member'[u].revokedAt >= member[u].revokedAt
  OBVIOUS
<1>0. TeamTypeOK /\ member[u] \in Member /\ member[u].revokedAt \in Int
  BY TeamBoundsAssumption DEF TeamIInv, TeamTypeOK, Member
<1>1. CASE member' = member
  BY <1>0, <1>1
<1>2. ASSUME NEW t \in tokens, Logout(t) PROVE member'[u].revokedAt >= member[u].revokedAt
  <2>1. member[u].revokedAt < clock /\ clock \in Int
    BY <1>0 DEF TeamIInv, RevokedBefore, TeamTypeOK
  <2>2. member' = [member EXCEPT ![t.user].revokedAt = clock]
    BY <1>2 DEF Logout
  <2>3. CASE u = t.user
    <3>1. member'[u] = [member[u] EXCEPT !.revokedAt = clock]
      BY <1>0, <2>2, <2>3 DEF TeamTypeOK
    <3>2. member'[u].revokedAt = clock
      BY <1>0, <3>1 DEF Member
    <3> QED
      BY <1>0, <2>1, <3>2
  <2>4. CASE u # t.user
    <3>1. member'[u] = member[u]
      BY <1>0, <2>2, <2>4 DEF TeamTypeOK
    <3> QED
      BY <1>0, <3>1
  <2> QED
    BY <2>3, <2>4
<1>3. ASSUME NEW x \in Users, NEW r \in Roles, InviteMember(x, r)
      PROVE  member'[u].revokedAt >= member[u].revokedAt
  <2>1. r \in DOMAIN level /\ member' = Invited(x, r)
    BY <1>3 DEF InviteMember
  <2>2. member'[u].revokedAt = member[u].revokedAt
    BY <1>0, <2>1, InvitedRows
  <2> QED
    BY <1>0, <2>2
<1>4. ASSUME NEW s \in Servers, Commit(s) PROVE member'[u].revokedAt >= member[u].revokedAt
  <2>1. serving[s] \in Change /\ member' = MembersAfter(serving[s])
    BY <1>0, <1>4, Kinds DEF Commit
  <2>2. ChangeKnown(serving[s])
    BY <2>1 DEF TeamIInv, ChangesKnown
  <2>3. RowsAfter(serving[s])
    BY <1>0, <2>1, <2>2, AfterRows DEF RowsKnown
  <2>4. member'[u].revokedAt = member[u].revokedAt
    BY <2>1, <2>3 DEF RowsAfter
  <2> QED
    BY <1>0, <2>4
<1>5. CASE SessionStep
  <2>1. \/ member' = member \/ DOMAIN member = {}
        \/ \E t \in tokens : Logout(t)
    BY <1>5 DEF SessionStep, Register, Registered, Login, Refresh, Answer, Expire
  <2> QED
    BY <1>1, <1>2, <2>1
<1>6. CASE MemberStep
  <2>1. \/ member' = member
        \/ \E x \in Users, r \in Roles : InviteMember(x, r)
        \/ \E s \in Servers : Commit(s)
    BY <1>6 DEF MemberStep, UpdateMember, DeleteMember, Begin
  <2> QED
    BY <1>1, <1>3, <1>4, <2>1
<1>7. CASE RoleStep \/ UNCHANGED teamVars
  BY <1>1, <1>7 DEF RoleStep, CreateRole, UpdateRole, DeleteRole, Begin, teamVars
<1> QED
  BY <1>5, <1>6, <1>7 DEF TeamNext

\* So a token of before it is not admitted by the step after either.
LEMMA RevokedStays ==
  ASSUME TeamIInv, [TeamNext]_teamVars, NEW t \in tokens, t.user \in DOMAIN member, Revoked(t)
  PROVE  ~Admits(t)'
<1> SUFFICES ASSUME t.user \in DOMAIN member' PROVE t.issuedAt <= member'[t.user].revokedAt
  BY DEF Admits, Active, Revoked
<1>1. member'[t.user].revokedAt >= member[t.user].revokedAt
  BY LogoutsAreKept
<1>2. t.issuedAt <= member[t.user].revokedAt
  BY DEF Revoked
<1>3. t.issuedAt \in Int /\ member[t.user].revokedAt \in Int
  BY TeamBoundsAssumption DEF TeamIInv, TeamTypeOK, Token, Member
<1>4. TeamTypeOK'
  BY TeamStepIInv DEF TeamIInv
<1>5. member'[t.user].revokedAt \in Int
  BY <1>4, TeamBoundsAssumption DEF TeamTypeOK, Member
<1> QED
  BY <1>1, <1>2, <1>3, <1>5

-----------------------------------------------------------------------------
\* Members, roles, tokens and what is served are rows of their types, whatever requests
\* are served at the same time.
THEOREM TeamTypeCorrect == TeamSpec => []TeamTypeOK
<1>1. TeamIInv => TeamTypeOK
  BY DEF TeamIInv
<1> QED
  BY <1>1, TeamInitIInv, TeamStepIInv, PTL DEF TeamSpec

\* ensureTenantHasActiveTeamAdmin keeps a tenant from losing its last administrator,
\* unless two changes of members or roles were open at the same time.
THEOREM TenantKeepsAdmin == TeamSpec => []TenantHasAdmin
<1>1. TeamIInv => TenantHasAdmin
  BY DEF TeamIInv
<1> QED
  BY <1>1, TeamInitIInv, TeamStepIInv, PTL DEF TeamSpec

\* RevokeUserSessions is final: no change of the member afterwards, no role and no new
\* invitation lets a token of before the logout in again.
THEOREM LogoutStaysFinal == TeamSpec => LogoutIsFinal
<1>1. TeamIInv /\ [TeamNext]_teamVars =>
        [\A t \in tokens : t.user \in DOMAIN member /\ Revoked(t) => ~Admits(t)']_teamVars
  BY RevokedStays
<1> QED
  BY <1>1, TeamInitIInv, TeamStepIInv, PTL DEF TeamSpec, LogoutIsFinal

-----------------------------------------------------------------------------
\* Chains, submissions and decisions leave the team as it is.
LEMMA ApprovalKeepsTeam == [ApprovalNext]_approvalVars => [TeamNext]_teamVars
BY DEF ApprovalNext, approvalVars, TeamStep, ChainStep, CreateChain, UpdateChain, DeleteChain,
       DecisionStep, SubmitBid, Approve, Reject, ContentsChange

\* Approval implements the specification of the team, so what is proved of the team is
\* true while bids are approved, too.
THEOREM ApprovalFollowsTeam == ApprovalSpec => TeamSpec
<1>1. ApprovalInit => TeamInit
  BY DEF ApprovalInit
<1> QED
  BY <1>1, ApprovalKeepsTeam, PTL DEF ApprovalSpec, TeamSpec

-----------------------------------------------------------------------------
\* A place a request may call: a target with a key, no mock as a fallback unless that is
\* allowed, and none that costs where the budget was used up.
Allowed(r, i) ==
    /\ i \in DOMAIN run[r].targets
    /\ run[r].targets[i].provider \in env.healthy
    /\ i > 1 /\ ~env.mock => run[r].targets[i].provider # Mock
    /\ run[r].within \/ run[r].targets[i].provider \in ZeroCost

\* What a request has tried and what it has left is apart, allowed, and no target twice.
Places(r) == run[r].left \union run[r].tried

RunKnown(r) ==
    /\ run[r].now \in run[r].tried /\ run[r].left \intersect run[r].tried = {}
    /\ \A i \in Places(r) : Allowed(r, i)
    /\ \A i, j \in Places(r) : run[r].targets[i] = run[r].targets[j] => i = j

RunsKnown == \A r \in Requests : run[r] # Resting => RunKnown(r)

RouterIInv == RouterTypeOK /\ RunsKnown /\ QuotaBounded

Admitted == {r \in Requests : run[r] # Resting /\ run[r].within}

LEMMA RunRows ==
  ASSUME RouterTypeOK, NEW r \in Requests, run[r] # Resting
  PROVE  run[r] \in Run
BY DEF RouterTypeOK

LEMMA KnownIsAllowed == RouterIInv => TriedAsAllowed
BY DEF RouterIInv, RunsKnown, RunKnown, Places, Allowed, TriedAsAllowed

\* Requests of the tenant cost at most what all of them cost.
LEMMA CostBounds ==
  ASSUME NEW W \in SUBSET Requests
  PROVE  /\ IsFiniteSet(W) /\ Cardinality(W) \in Nat /\ Cardinality(Requests) \in Nat
         /\ MaxCost * Cardinality(W) \in Nat /\ MaxCost * Cardinality(Requests) \in Nat
         /\ MaxCost * Cardinality(W) <= MaxCost * Cardinality(Requests)
<1>1. IsFiniteSet(W) /\ Cardinality(W) <= Cardinality(Requests)
  BY RouterAssumption, FS_Subset
<1>2. Cardinality(W) \in Nat /\ Cardinality(Requests) \in Nat
  BY <1>1, RouterAssumption, FS_CardinalityType
<1>3. \A m, a, b \in Nat : a <= b => m * a \in Nat /\ m * b \in Nat /\ m * a <= m * b
  OBVIOUS
<1> QED
  BY <1>1, <1>2, <1>3, RouterAssumption

\* What one more of them is worth.
LEMMA CostLess ==
  ASSUME NEW W \in SUBSET Requests, NEW r \in W
  PROVE  MaxCost * Cardinality(W) = MaxCost * Cardinality(W \ {r}) + MaxCost
<1>1. Cardinality(W \ {r}) = Cardinality(W) - 1
  BY CostBounds, FS_RemoveElement
<1>2. \A m, a \in Nat : m * (a + 1) = m * a + m
  OBVIOUS
<1>3. Cardinality(W \ {r}) \in Nat /\ Cardinality(W) \in Nat
  BY CostBounds
<1>4. Cardinality(W) = Cardinality(W \ {r}) + 1
  BY <1>1, <1>3
<1> QED
  BY <1>2, <1>3, <1>4, RouterAssumption

LEMMA QuotaByAdmitted ==
  QuotaBounded <=> (Budget > 0 => usage + MaxCost * Cardinality(Admitted) < Budget + MaxCost * Cardinality(Requests))
BY DEF QuotaBounded, Admitted

\* No more requests and nothing used.
LEMMA FewerKeepQuota ==
  ASSUME QuotaBounded, usage \in Nat, usage' = usage, Admitted' \subseteq Admitted
  PROVE  QuotaBounded'
<1>1. Admitted \in SUBSET Requests /\ Admitted' \in SUBSET Requests
  BY DEF Admitted
<1>2. MaxCost * Cardinality(Admitted') <= MaxCost * Cardinality(Admitted)
  <2>1. Cardinality(Admitted') <= Cardinality(Admitted)
    BY <1>1, CostBounds, FS_Subset
  <2>2. \A m, a, b \in Nat : a <= b => m * a <= m * b
    OBVIOUS
  <2> QED
    BY <1>1, <2>1, <2>2, CostBounds, RouterAssumption
<1>3. /\ MaxCost * Cardinality(Admitted') \in Nat /\ MaxCost * Cardinality(Admitted) \in Nat
      /\ MaxCost * Cardinality(Requests) \in Nat
  BY <1>1, CostBounds
<1>4. (Admitted)' = Admitted'
  OBVIOUS
<1> QED
  BY <1>2, <1>3, QuotaByAdmitted, RouterAssumption DEF QuotaBounded, Admitted

-----------------------------------------------------------------------------
\* What resolve_candidates returns of a route.
LEMMA Candidates ==
  ASSUME RouterTypeOK, NEW route \in Routes
  PROVE  /\ ResolveCandidates(route) \subseteq DOMAIN route /\ DOMAIN route \subseteq Nat \ {0}
         /\ [i \in DOMAIN route |-> RouteTarget(route, i)] \in Seq(Target)
         /\ \A i \in ResolveCandidates(route) :
               /\ RouteTarget(route, i).provider \in env.healthy
               /\ i > 1 /\ ~env.mock => RouteTarget(route, i).provider # Mock
               /\ Exceeded => RouteTarget(route, i).provider \in ZeroCost
         /\ \A i, j \in ResolveCandidates(route) :
               RouteTarget(route, i) = RouteTarget(route, j) => i = j
<1>1. /\ route \in Seq(Target) /\ DOMAIN route = 1..Len(route) /\ Len(route) \in Nat
      /\ \A i \in 1..Len(route) : route[i] \in Target
  BY RouterAssumption
<1>2. env.override # NoTarget => env.override \in Target
  BY RouterAssumption DEF RouterTypeOK
<1>3. ResolveCandidates(route) \subseteq Unique(route)
  BY DEF ResolveCandidates
<1>4. Unique(route) \subseteq WithFallback(route)
  BY DEF Unique
<1>5. WithFallback(route) \subseteq DOMAIN route
  BY DEF WithFallback
<1>6. \A i \in DOMAIN route : RouteTarget(route, i) \in Target
  BY <1>1, <1>2 DEF RouteTarget
<1>7. [i \in DOMAIN route |-> RouteTarget(route, i)] \in Seq(Target)
  <2> DEFINE R(i) == RouteTarget(route, i)
  <2>1. \A i \in 1..Len(route) : R(i) \in Target
    BY <1>1, <1>6
  <2> HIDE DEF R
  <2>2. [i \in 1..Len(route) |-> R(i)] \in Seq(Target)
    BY <1>1, <2>1
  <2> QED
    BY <1>1, <2>2 DEF R
<1>8. ASSUME NEW i \in ResolveCandidates(route)
      PROVE  /\ RouteTarget(route, i).provider \in env.healthy
             /\ i > 1 /\ ~env.mock => RouteTarget(route, i).provider # Mock
             /\ Exceeded => RouteTarget(route, i).provider \in ZeroCost
  <2>1. i \in DOMAIN route /\ (i = 1 \/ env.mock \/ route[i].provider # Mock)
    BY <1>3, <1>4 DEF WithFallback
  <2>2. i # 1 => RouteTarget(route, i) = route[i]
    BY DEF RouteTarget
  <2>3. /\ RouteTarget(route, i).provider \in env.healthy
        /\ Exceeded => RouteTarget(route, i).provider \in ZeroCost
    BY DEF ResolveCandidates
  <2> QED
    BY <2>1, <2>2, <2>3
<1>9. ASSUME NEW i \in ResolveCandidates(route), NEW j \in ResolveCandidates(route),
             RouteTarget(route, i) = RouteTarget(route, j)
      PROVE  i = j
  <2>1. i \in WithFallback(route) /\ j \in WithFallback(route) /\ i \in Unique(route) /\ j \in Unique(route)
    BY <1>3, <1>4
  <2>2. i <= j /\ j <= i
    BY <1>9, <2>1 DEF Unique
  <2>3. i \in Nat /\ j \in Nat
    BY <1>1, <1>5, <2>1
  <2> QED
    BY <2>2, <2>3
<1> QED
  BY <1>1, <1>3, <1>4, <1>5, <1>7, <1>8, <1>9

\* The runs of the others and the environment are as before.
LEMMA OneRun ==
  ASSUME RouterIInv, NEW r \in Requests, env' = env, NEW x, run' = [run EXCEPT ![r] = x],
         x \in Run \union {Resting}, usage' \in Nat,
         x # Resting => RunKnown(r)'
  PROVE  RouterTypeOK' /\ RunsKnown'
<1>1. run' \in [Requests -> Run \union {Resting}] /\ \A q \in Requests : run'[q] = IF q = r THEN x ELSE run[q]
  BY DEF RouterIInv, RouterTypeOK
<1>2. RouterTypeOK'
  BY <1>1 DEF RouterIInv, RouterTypeOK
<1>3. ASSUME NEW q \in Requests, run'[q] # Resting PROVE RunKnown(q)'
  <2>1. CASE q = r
    BY <1>1, <1>3, <2>1
  <2>2. CASE q # r
    BY <1>1, <1>3, <2>2 DEF RouterIInv, RunsKnown, RunKnown, Places, Allowed
  <2> QED
    BY <2>1, <2>2
<1> QED
  BY <1>2, <1>3 DEF RunsKnown

LEMMA RouterInitIInv == RouterInit => RouterIInv
<1> SUFFICES ASSUME RouterInit PROVE RouterIInv
  OBVIOUS
<1>1. Admitted = {}
  BY DEF RouterInit, Admitted
<1>2. QuotaBounded
  <2>1. Cardinality({}) = 0 /\ MaxCost * 0 = 0 /\ MaxCost * Cardinality(Requests) \in Nat
    BY FS_EmptySet, CostBounds, RouterAssumption
  <2> QED
    BY <1>1, <2>1, QuotaByAdmitted, RouterAssumption DEF RouterInit
<1>3. RunsKnown
  BY DEF RouterInit, RunsKnown
<1>4. RouterTypeOK
  BY RouterAssumption DEF RouterInit, RouterTypeOK
<1> QED
  BY <1>2, <1>3, <1>4 DEF RouterIInv

-----------------------------------------------------------------------------
LEMMA BegunKeepsIInv ==
  ASSUME RouterIInv, NEW r \in Requests, NEW route \in Routes, RunProviderTask(r, route)
  PROVE  RouterIInv'
<1> DEFINE C == ResolveCandidates(route)
           first == Min(C)
           x == [at |-> "calling", targets |-> [i \in DOMAIN route |-> RouteTarget(route, i)],
                 now |-> first, left |-> C \ {first}, tried |-> {first}, within |-> ~Exceeded]
<1>0. RouterTypeOK /\ usage \in Nat
  BY DEF RouterIInv, RouterTypeOK
<1>1. /\ run[r] = Resting /\ C # {} /\ run' = [run EXCEPT ![r] = x]
      /\ env' = env /\ usage' = usage
  BY DEF RunProviderTask
<1>2. /\ C \subseteq DOMAIN route /\ DOMAIN route \subseteq Nat \ {0}
      /\ x.targets \in Seq(Target)
  BY <1>0, Candidates
<1>3. first \in C
  BY <1>1, <1>2, FirstOfNat
<1>4. Exceeded \in BOOLEAN
  BY DEF Exceeded
<1>5. x \in Run
  BY <1>2, <1>3, <1>4 DEF Run
<1>6. x # Resting
  BY DEF Resting
<1>7. run'[r] = x
  BY <1>0, <1>1 DEF RouterTypeOK
<1>8. RunKnown(r)'
  <2>1. Places(r)' = C
    BY <1>3, <1>7 DEF Places
  <2>2. /\ DOMAIN run'[r].targets = DOMAIN route
        /\ \A i \in DOMAIN route : run'[r].targets[i] = RouteTarget(route, i)
        /\ run'[r].within = ~Exceeded
    BY <1>7
  <2>3. \A i \in C : Allowed(r, i)'
    BY <1>0, <1>1, <1>2, <2>2, Candidates DEF Allowed
  <2>4. \A i, j \in C : run'[r].targets[i] = run'[r].targets[j] => i = j
    BY <1>0, <1>2, <2>2, Candidates
  <2>5. run'[r].now \in run'[r].tried /\ run'[r].left \intersect run'[r].tried = {}
    BY <1>7
  <2> QED
    BY <2>1, <2>3, <2>4, <2>5 DEF RunKnown
<1> HIDE DEF x
<1>9. RouterTypeOK' /\ RunsKnown'
  BY <1>0, <1>1, <1>5, <1>6, <1>8, OneRun
<1>10. QuotaBounded'
  <2>0. \A q \in Requests : run'[q] = IF q = r THEN x ELSE run[q]
    BY <1>0, <1>1 DEF RouterTypeOK
  <2>1. CASE Exceeded
    <3>0. x.within = FALSE
      BY <2>1 DEF x
    <3>1. Admitted' \subseteq Admitted
      BY <2>0, <3>0 DEF Admitted
    <3> QED
      BY <1>0, <1>1, <3>1, FewerKeepQuota DEF RouterIInv
  <2>2. CASE ~Exceeded
    <3>1. Admitted' \in SUBSET Requests
      BY DEF Admitted
    <3>2. /\ MaxCost * Cardinality(Admitted') \in Nat /\ MaxCost * Cardinality(Requests) \in Nat
          /\ MaxCost * Cardinality(Admitted') <= MaxCost * Cardinality(Requests)
      BY <3>1, CostBounds
    <3>3. Budget > 0 => usage < Budget
      BY <1>0, <2>2, RouterAssumption DEF Exceeded
    <3> QED
      BY <1>0, <1>1, <3>2, <3>3, RouterAssumption DEF QuotaBounded, Admitted
  <2> QED
    BY <2>1, <2>2
<1> QED
  BY <1>9, <1>10 DEF RouterIInv

LEMMA RaisedKeepsIInv ==
  ASSUME RouterIInv, NEW r \in Requests, OperationRaises(r)
  PROVE  RouterIInv'
<1> DEFINE next == Min(run[r].left)
           x == IF run[r].left = {} THEN Resting
                ELSE NextTarget(run[r])
<1>0. RouterTypeOK /\ usage \in Nat
  BY DEF RouterIInv, RouterTypeOK
<1>1. /\ run[r].at = "calling" /\ run' = [run EXCEPT ![r] = x]
      /\ env' = env /\ usage' = usage
  BY DEF OperationRaises
<1>2. run[r] # Resting /\ run[r] \in Run
  BY <1>0, <1>1, RunRows DEF Resting
<1>3. RunKnown(r)
  BY <1>2 DEF RouterIInv, RunsKnown
<1>4. run[r].left # {} => next \in run[r].left
  BY <1>2, FirstOfNat DEF Run
<1>5. run[r].left \subseteq Nat \ {0}
  <2>1. \A i \in run[r].left : i \in DOMAIN run[r].targets
    BY <1>3 DEF RunKnown, Places, Allowed
  <2>2. DOMAIN run[r].targets = 1..Len(run[r].targets) /\ Len(run[r].targets) \in Nat
    BY <1>2 DEF Run
  <2> QED
    BY <2>1, <2>2
<1>6. x \in Run \union {Resting} /\ (x # Resting => run[r].left # {})
  BY <1>2, <1>4, <1>5 DEF Run, NextTarget
<1>7. run'[r] = x
  BY <1>0, <1>1 DEF RouterTypeOK
<1>8. ASSUME x # Resting PROVE RunKnown(r)'
  <2>1. /\ run'[r].now = next /\ run'[r].left = run[r].left \ {next}
        /\ run'[r].tried = run[r].tried \union {next}
        /\ run'[r].targets = run[r].targets /\ run'[r].within = run[r].within
    BY <1>2, <1>6, <1>7, <1>8 DEF Run, NextTarget
  <2>2. Places(r)' = Places(r)
    BY <1>4, <1>6, <1>8, <2>1 DEF Places
  <2> QED
    BY <1>1, <1>3, <2>1, <2>2 DEF RunKnown, Allowed
<1>9. x # Resting => x.within = run[r].within
  BY <1>2, <1>6 DEF Run, NextTarget
<1> HIDE DEF x
<1>10. RouterTypeOK' /\ RunsKnown'
  BY <1>0, <1>1, <1>6, <1>8, OneRun
<1>11. Admitted' \subseteq Admitted
  <2>1. \A q \in Requests : run'[q] = IF q = r THEN x ELSE run[q]
    BY <1>0, <1>1 DEF RouterTypeOK
  <2> QED
    BY <1>2, <1>9, <2>1 DEF Admitted
<1> QED
  BY <1>0, <1>1, <1>10, <1>11, FewerKeepQuota DEF RouterIInv

LEMMA ReturnedKeepsIInv ==
  ASSUME RouterIInv, NEW r \in Requests, OperationReturns(r)
  PROVE  RouterIInv'
<1> DEFINE x == [run[r] EXCEPT !.at = "answered"]
<1>0. RouterTypeOK /\ usage \in Nat
  BY DEF RouterIInv, RouterTypeOK
<1>1. /\ run[r].at = "calling" /\ run' = [run EXCEPT ![r] = x]
      /\ env' = env /\ usage' = usage
  BY <1>0 DEF OperationReturns, RouterTypeOK
<1>2. run[r] # Resting /\ run[r] \in Run
  BY <1>0, <1>1, RunRows DEF Resting
<1>3. /\ x \in Run /\ x.now = run[r].now /\ x.left = run[r].left /\ x.tried = run[r].tried
      /\ x.targets = run[r].targets /\ x.within = run[r].within
  BY <1>2 DEF Run
<1> HIDE DEF x
<1>4. \A q \in Requests : run'[q] = IF q = r THEN x ELSE run[q]
  BY <1>0, <1>1 DEF RouterTypeOK
<1>5. RunKnown(r)'
  BY <1>1, <1>2, <1>3, <1>4 DEF RouterIInv, RunsKnown, RunKnown, Places, Allowed
<1>6. RouterTypeOK' /\ RunsKnown'
  BY <1>0, <1>1, <1>3, <1>5, OneRun
<1>7. Admitted' \subseteq Admitted
  BY <1>2, <1>3, <1>4 DEF Admitted
<1> QED
  BY <1>0, <1>1, <1>6, <1>7, FewerKeepQuota DEF RouterIInv

\* A request that ends, with or without having logged its cost.
LEMMA EndedKeepsIInv ==
  ASSUME RouterIInv, NEW r \in Requests, run[r].at = "answered", env' = env,
         run' = [run EXCEPT ![r] = Resting], NEW amount \in 0..MaxCost, usage' = usage + amount,
         run[r].targets[run[r].now].provider \in ZeroCost => amount = 0
  PROVE  RouterIInv'
<1>0. RouterTypeOK /\ usage \in Nat /\ MaxCost \in Nat /\ usage' \in Nat
  BY RouterAssumption DEF RouterIInv, RouterTypeOK
<1>1. \A q \in Requests : run'[q] = IF q = r THEN Resting ELSE run[q]
  BY <1>0 DEF RouterTypeOK
<1>2. run[r] # Resting
  BY DEF Resting
<1>3. RouterTypeOK' /\ RunsKnown'
  BY <1>0, OneRun
<1>4. Admitted' = Admitted \ {r} /\ Admitted \in SUBSET Requests
  BY <1>1 DEF Admitted
<1>5. QuotaBounded'
  <2>1. CASE run[r].within
    <3>1. r \in Admitted
      BY <1>2, <2>1 DEF Admitted
    <3>2. MaxCost * Cardinality(Admitted) = MaxCost * Cardinality(Admitted') + MaxCost
      BY <1>4, <3>1, CostLess
    <3>3. /\ MaxCost * Cardinality(Admitted') \in Nat /\ MaxCost * Cardinality(Admitted) \in Nat
          /\ MaxCost * Cardinality(Requests) \in Nat
      BY <1>4, CostBounds
    <3>4. amount <= MaxCost /\ amount \in Nat
      BY <1>0
    <3> QED
      BY <1>0, <3>2, <3>3, <3>4, QuotaByAdmitted, RouterAssumption DEF RouterIInv, QuotaBounded, Admitted
  <2>2. CASE ~run[r].within
    <3>1. run[r].targets[run[r].now].provider \in ZeroCost
      BY <1>2, <2>2 DEF RouterIInv, RunsKnown, RunKnown, Places, Allowed
    <3>2. usage' = usage
      BY <1>0, <3>1
    <3>3. Admitted' \subseteq Admitted
      BY <1>4
    <3> QED
      BY <1>0, <3>2, <3>3, FewerKeepQuota DEF RouterIInv
  <2> QED
    BY <2>1, <2>2
<1> QED
  BY <1>3, <1>5 DEF RouterIInv

LEMMA RouterStepIInv == RouterIInv /\ [RouterNext]_routerVars => RouterIInv'
<1> SUFFICES ASSUME RouterIInv, [RouterNext]_routerVars PROVE RouterIInv'
  OBVIOUS
<1>0. usage \in Nat /\ 0 \in 0..MaxCost
  BY RouterAssumption DEF RouterIInv, RouterTypeOK
<1>1. ASSUME NEW r \in Requests, NEW amount \in 0..MaxCost, LogCall(r, amount) PROVE RouterIInv'
  BY <1>1, EndedKeepsIInv DEF LogCall, MayCost
<1>2. ASSUME NEW r \in Requests, AnswerUnlogged(r) PROVE RouterIInv'
  <2>1. usage' = usage + 0
    BY <1>0, <1>2 DEF AnswerUnlogged
  <2> QED
    BY <1>0, <1>2, <2>1, EndedKeepsIInv DEF AnswerUnlogged
<1>3. ASSUME NEW override \in Overrides, NEW healthy \in SUBSET Providers, NEW mock \in BOOLEAN,
             StartRouter(override, healthy, mock)
      PROVE  RouterIInv'
  <2>1. RouterTypeOK' /\ RunsKnown'
    BY <1>3 DEF StartRouter, RouterTypeOK, RunsKnown
  <2>2. Admitted' = {}
    BY <1>3 DEF StartRouter, Admitted
  <2>3. Cardinality({}) = 0 /\ MaxCost * 0 = 0 /\ MaxCost * Cardinality(Requests) \in Nat
    BY FS_EmptySet, CostBounds, RouterAssumption
  <2>4. QuotaBounded'
    <3>1. MaxCost * Cardinality(Admitted') = 0 /\ usage' = 0
      BY <1>3, <2>2, <2>3 DEF StartRouter
    <3> QED
      BY <2>3, <3>1, RouterAssumption DEF QuotaBounded, Admitted
  <2> QED
    BY <2>1, <2>4 DEF RouterIInv
<1>4. CASE UNCHANGED routerVars
  BY <1>4 DEF routerVars, RouterIInv, RouterTypeOK, RunsKnown, RunKnown, Places, Allowed, QuotaBounded
<1> QED
  BY <1>1, <1>2, <1>3, <1>4, BegunKeepsIInv, RaisedKeepsIInv, ReturnedKeepsIInv DEF RouterNext

-----------------------------------------------------------------------------
\* The environment, what is used and what each request has left to try are of their
\* types, whatever requests run_provider_task serves at the same time.
THEOREM RouterTypeCorrect == RouterSpec => []RouterTypeOK
<1>1. RouterIInv => RouterTypeOK
  BY DEF RouterIInv
<1> QED
  BY <1>1, RouterInitIInv, RouterStepIInv, PTL DEF RouterSpec

\* enforce_quota keeps a tenant below its budget and one answer for each request served
\* at a time, for every budget, number of requests and cost of an answer.
THEOREM QuotaIsBounded == RouterSpec => []QuotaBounded
<1>1. RouterIInv => QuotaBounded
  BY DEF RouterIInv
<1> QED
  BY <1>1, RouterInitIInv, RouterStepIInv, PTL DEF RouterSpec

\* resolve_candidates leaves no request a target that it may not call or has called.
THEOREM OnlyAllowedAreTried == RouterSpec => []TriedAsAllowed
BY KnownIsAllowed, RouterInitIInv, RouterStepIInv, PTL DEF RouterSpec

-----------------------------------------------------------------------------
(* The tool gateway.  What a call costs and what the row of the configuration allows was  *)
(* admitted by some write of the configuration; the cost of a call that is out is a set   *)
(* of units, apart from those of the other calls.                                         *)
RowWasAdmitted ==
    tool.row => /\ tool.budget <= admitted.budget /\ tool.cost <= admitted.cost
                /\ tool.budget = 0 => admitted.unlimited

CallsWereAdmitted == \A c \in Calls : call[c].cost <= admitted.cost

GatewayIInv == ToolTypeOK /\ RowWasAdmitted /\ CallsWereAdmitted /\ OverspendBounded

UnitsOf(c, n) == {c} \X (1..n)
UnitsIn(f, C) == UNION {UnitsOf(c, f[c].cost) : c \in C}

\* How much may be spent.
Limit == admitted.budget + (Cardinality(Calls) - 1) * admitted.cost

LEMMA FromOne ==
  ASSUME NEW n \in Nat
  PROVE  IsFiniteSet(1..n) /\ Cardinality(1..n) = n
BY FS_Interval

LEMMA UnitsCount ==
  ASSUME NEW c, NEW n \in Nat
  PROVE  IsFiniteSet(UnitsOf(c, n)) /\ Cardinality(UnitsOf(c, n)) = n
<1>1. IsFiniteSet({c}) /\ Cardinality({c}) = 1
  BY FS_Singleton
<1>2. IsFiniteSet(1..n) /\ Cardinality(1..n) = n
  BY FromOne
<1>3. IsFiniteSet({c} \X (1..n)) /\ Cardinality({c} \X (1..n)) = Cardinality({c}) * Cardinality(1..n)
  BY <1>1, <1>2, FS_Product
<1>4. Cardinality({c}) * Cardinality(1..n) = n
  BY <1>1, <1>2
<1> QED
  BY <1>3, <1>4 DEF UnitsOf

LEMMA CallsCount == Cardinality(Calls) \in Nat /\ Cardinality(Calls) - 1 \in Nat
<1>1. Cardinality(Calls) \in Nat /\ Cardinality(Calls) # 0
  BY GatewayBoundsAssumption, FS_CardinalityType, FS_EmptySet
<1> QED
  BY <1>1

\* The units that are out are those of c and those of the other calls, which cost at most
\* m each.
LEMMA UnitsOfOthers ==
  ASSUME NEW f, NEW m \in Nat, \A d \in Calls : f[d].cost \in 0..m, NEW c \in Calls
  PROVE  LET S == UnitsIn(f, Calls \ {c}) IN
         /\ Cardinality(S) \in Nat /\ Cardinality(S) <= (Cardinality(Calls) - 1) * m
         /\ Cardinality(UnitsIn(f, Calls)) = Cardinality(S) + f[c].cost
<1> DEFINE S == UnitsIn(f, Calls \ {c})
           U == (Calls \ {c}) \X (1..m)
           V == UnitsOf(c, f[c].cost)
<1>1. IsFiniteSet(Calls \ {c}) /\ Cardinality(Calls \ {c}) = Cardinality(Calls) - 1
  BY GatewayBoundsAssumption, FS_RemoveElement
<1>2. IsFiniteSet(1..m) /\ Cardinality(1..m) = m
  BY FromOne
<1>3. IsFiniteSet(U) /\ Cardinality(U) = Cardinality(Calls \ {c}) * Cardinality(1..m)
  BY <1>1, <1>2, FS_Product
<1>4. S \in SUBSET U
  <2>1. \A d \in Calls : 1..f[d].cost \subseteq 1..m
    OBVIOUS
  <2> QED
    BY <2>1 DEF UnitsOf, UnitsIn
<1>5. IsFiniteSet(S) /\ Cardinality(S) <= Cardinality(U)
  BY <1>3, <1>4, FS_Subset
<1>6. Cardinality(U) = (Cardinality(Calls) - 1) * m
  BY <1>1, <1>2, <1>3
<1>7. Cardinality(S) \in Nat
  BY <1>5, FS_CardinalityType
<1>8. IsFiniteSet(V) /\ Cardinality(V) = f[c].cost
  BY UnitsCount
<1>9. V \intersect S = {} /\ UnitsIn(f, Calls) = V \union S
  BY DEF UnitsOf, UnitsIn
<1>10. Cardinality(V \intersect S) = 0
  BY <1>9, FS_EmptySet
<1>11. Cardinality(V \union S) = Cardinality(V) + Cardinality(S) - Cardinality(V \intersect S)
  BY <1>5, <1>8, FS_Union
<1>12. Cardinality(UnitsIn(f, Calls)) = Cardinality(S) + f[c].cost
  BY <1>7, <1>8, <1>9, <1>10, <1>11
<1> QED
  BY <1>5, <1>6, <1>7, <1>12

LEMMA OutIsUnits == Out = UnitsIn(call, Calls)
BY DEF Out, UnitsIn, UnitsOf

LEMMA GatewayTypes ==
  ASSUME ToolTypeOK
  PROVE  /\ spent \in Nat /\ admitted.budget \in Nat /\ admitted.cost \in Nat
         /\ \A c \in Calls : call[c].cost \in Nat
         /\ (Cardinality(Calls) - 1) * admitted.cost \in Nat
         /\ Limit \in Nat
<1>1. \A m, n \in Nat : m * n \in Nat
  OBVIOUS
<1>2. spent \in Nat /\ admitted.budget \in Nat /\ admitted.cost \in Nat
  BY DEF ToolTypeOK
<1>3. (Cardinality(Calls) - 1) * admitted.cost \in Nat
  BY <1>1, <1>2, CallsCount
<1>4. Limit \in Nat
  BY <1>2, <1>3 DEF Limit
<1>5. ASSUME NEW c \in Calls PROVE call[c].cost \in Nat
  <2>1. call[c] \in [out : {TRUE}, cost : Costs] \union {Home}
    BY DEF ToolTypeOK
  <2>2. ASSUME call[c] \in [out : {TRUE}, cost : Costs] PROVE call[c].cost \in Nat
    BY <2>2, GatewayBoundsAssumption
  <2>3. ASSUME call[c] = Home PROVE call[c].cost \in Nat
    BY <2>3 DEF Home
  <2> QED
    BY <2>1, <2>2, <2>3
<1> QED
  BY <1>2, <1>3, <1>4, <1>5

LEMMA OutCount ==
  ASSUME ToolTypeOK, CallsWereAdmitted, NEW c \in Calls
  PROVE  LET S == UnitsIn(call, Calls \ {c}) IN
         /\ Cardinality(S) \in Nat /\ Cardinality(S) <= (Cardinality(Calls) - 1) * admitted.cost
         /\ Cardinality(Out) = Cardinality(S) + call[c].cost
         /\ Cardinality(Out) \in Nat
<1>1. admitted.cost \in Nat /\ \A d \in Calls : call[d].cost \in Nat
  BY GatewayTypes
<1>2. \A d \in Calls : call[d].cost \in 0..admitted.cost
  BY <1>1 DEF CallsWereAdmitted
<1> DEFINE S == UnitsIn(call, Calls \ {c})
<1>3. Cardinality(S) \in Nat /\ Cardinality(S) <= (Cardinality(Calls) - 1) * admitted.cost
  BY <1>1, <1>2, UnitsOfOthers
<1>4. Cardinality(UnitsIn(call, Calls)) = Cardinality(S) + call[c].cost
  BY <1>1, <1>2, UnitsOfOthers
<1> HIDE DEF S
<1>5. Cardinality(Out) = Cardinality(S) + call[c].cost /\ Cardinality(Out) \in Nat
  BY <1>1, <1>3, <1>4, OutIsUnits
<1> QED
  BY <1>3, <1>5 DEF S

\* The same after a step that leaves the other calls as they are and ends this one or
\* begins it, at the cost n.
LEMMA OutCountAfter ==
  ASSUME ToolTypeOK, CallsWereAdmitted, NEW c \in Calls, NEW n \in 0..admitted.cost,
         call'[c].cost = n, \A d \in Calls \ {c} : call'[d] = call[d]
  PROVE  Cardinality(Out') = Cardinality(UnitsIn(call, Calls \ {c})) + n
<1>1. admitted.cost \in Nat /\ \A d \in Calls : call[d].cost \in Nat
  BY GatewayTypes
<1>2. \A d \in Calls : call'[d].cost \in 0..admitted.cost
  BY <1>1 DEF CallsWereAdmitted
<1>3. Cardinality(UnitsIn(call', Calls)) = Cardinality(UnitsIn(call', Calls \ {c})) + call'[c].cost
  BY <1>1, <1>2, UnitsOfOthers
<1>4. UnitsIn(call', Calls \ {c}) = UnitsIn(call, Calls \ {c})
  BY DEF UnitsIn
<1>5. Out' = UnitsIn(call', Calls)
  BY DEF Out, UnitsIn, UnitsOf
<1> QED
  BY <1>3, <1>4, <1>5

LEMMA OverspendByLimit == OverspendBounded <=> admitted.unlimited \/ spent + Cardinality(Out) <= Limit
BY DEF OverspendBounded, Limit

LEMMA GatewayInitIInv == ToolInit => GatewayIInv
<1> SUFFICES ASSUME ToolInit PROVE GatewayIInv
  OBVIOUS
<1>1. ToolTypeOK
  BY GatewayBoundsAssumption DEF ToolInit, ToolTypeOK
<1>2. RowWasAdmitted /\ CallsWereAdmitted
  BY DEF ToolInit, RowWasAdmitted, CallsWereAdmitted, NoTool, Home
<1>3. OverspendBounded
  <2>1. Out = {}
    BY DEF ToolInit, Out, Home
  <2>2. spent = 0 /\ Limit \in Nat
    BY <1>1, GatewayTypes DEF ToolInit
  <2> QED
    BY <2>1, <2>2, FS_EmptySet, OverspendByLimit
<1> QED
  BY <1>1, <1>2, <1>3 DEF GatewayIInv

\* A wider limit for the same calls.
LEMMA UpsertConfigKeepsIInv ==
  ASSUME GatewayIInv, NEW config \in Tool, UpsertConfig(config)
  PROVE  GatewayIInv'
<1> USE DEF GatewayIInv
<1> DEFINE b == IF config.budget > admitted.budget THEN config.budget ELSE admitted.budget
           k == IF config.cost > admitted.cost THEN config.cost ELSE admitted.cost
           u == admitted.unlimited \/ config.budget = 0
<1>1. config.budget \in Nat /\ config.cost \in Nat
  BY GatewayBoundsAssumption DEF Tool
<1>2. admitted.budget \in Nat /\ admitted.cost \in Nat
  BY GatewayTypes
<1>3. /\ admitted' = [budget |-> b, cost |-> k, unlimited |-> u] /\ tool' = config
      /\ configs' \in 0..MaxConfigs /\ UNCHANGED <<spent, call>>
  BY GatewayBoundsAssumption DEF UpsertConfig, ToolTypeOK
<1>4. /\ b \in Nat /\ k \in Nat /\ admitted.budget <= b /\ admitted.cost <= k
      /\ config.budget <= b /\ config.cost <= k
  BY <1>1, <1>2
<1>5. admitted'.budget = b /\ admitted'.cost = k /\ (u => admitted'.unlimited)
  BY <1>3
<1>6. ToolTypeOK'
  <2>1. admitted' \in [budget : Nat, cost : Nat, unlimited : BOOLEAN]
    BY <1>3, <1>4
  <2> QED
    BY <1>3, <2>1 DEF ToolTypeOK
<1>7. RowWasAdmitted'
  BY <1>3, <1>4, <1>5 DEF RowWasAdmitted
<1>8. CallsWereAdmitted'
  <2>1. \A c \in Calls : call[c].cost <= admitted.cost /\ call[c].cost \in Nat
    BY GatewayTypes DEF CallsWereAdmitted
  <2>2. \A c \in Calls : call[c].cost <= k
    BY <1>2, <1>4, <2>1
  <2> QED
    BY <1>3, <1>5, <2>2 DEF CallsWereAdmitted
<1>9. OverspendBounded'
  <2> DEFINE n == Cardinality(Calls) - 1
  <2>1. n * admitted.cost <= n * k /\ n * k \in Nat
    <3>1. \A m, i, j \in Nat : i <= j => m * j \in Nat /\ m * i <= m * j
      OBVIOUS
    <3> QED
      BY <1>2, <1>4, <3>1, CallsCount
  <2>2. Cardinality(Out) \in Nat /\ spent \in Nat /\ n * admitted.cost \in Nat
    <3>1. PICK c \in Calls : TRUE
      BY GatewayBoundsAssumption
    <3> QED
      BY <3>1, OutCount, GatewayTypes
  <2>3. Out' = Out
    BY <1>3 DEF Out
  <2>4. CASE admitted.unlimited
    BY <1>5, <2>4 DEF OverspendBounded
  <2>5. CASE spent + Cardinality(Out) <= admitted.budget + n * admitted.cost
    <3>1. spent + Cardinality(Out) <= b + n * k
      BY <1>2, <1>4, <2>1, <2>2, <2>5
    <3> QED
      BY <1>3, <1>5, <2>3, <3>1 DEF OverspendBounded
  <2> QED
    BY <2>4, <2>5 DEF OverspendBounded
<1> QED
  BY <1>6, <1>7, <1>8, <1>9

\* What was spent fitted into the budget together with this call: what may be over is out
\* for the other ones.
LEMMA InvokeKeepsIInv ==
  ASSUME GatewayIInv, NEW c \in Calls, Invoke(c)
  PROVE  GatewayIInv'
<1> USE DEF GatewayIInv
<1> DEFINE S == UnitsIn(call, Calls \ {c})
<1>1. tool \in Tool
  BY DEF Invoke, ToolTypeOK, NoTool
<1>2. /\ tool.budget \in Nat /\ tool.cost \in Nat /\ tool.cost \in Costs /\ tool.cost <= admitted.cost
      /\ tool.budget <= admitted.budget /\ (tool.budget = 0 => admitted.unlimited)
  <2>1. tool.row
    BY DEF Invoke
  <2> QED
    BY <1>1, <2>1, GatewayBoundsAssumption DEF Tool, RowWasAdmitted
<1>3. /\ call'[c] = [out |-> TRUE, cost |-> tool.cost]
      /\ \A d \in Calls \ {c} : call'[d] = call[d]
      /\ UNCHANGED <<tool, spent, admitted, configs>>
  BY DEF Invoke, ToolTypeOK
<1>4. call'[c].cost = tool.cost
  BY <1>3
<1>5. ToolTypeOK'
  <2>1. [out |-> TRUE, cost |-> tool.cost] \in [out : {TRUE}, cost : Costs]
    BY <1>2
  <2>2. call' \in [Calls -> [out : {TRUE}, cost : Costs] \union {Home}]
    BY <2>1 DEF Invoke, ToolTypeOK
  <2> QED
    BY <1>3, <2>2 DEF ToolTypeOK
<1>6. RowWasAdmitted' /\ CallsWereAdmitted'
  BY <1>2, <1>3, <1>4 DEF RowWasAdmitted, CallsWereAdmitted
<1>7. spent \in Nat /\ admitted.budget \in Nat /\ admitted.cost \in Nat /\ (Cardinality(Calls) - 1) * admitted.cost \in Nat
  BY GatewayTypes
<1>8. Cardinality(S) \in Nat /\ Cardinality(S) <= (Cardinality(Calls) - 1) * admitted.cost
  BY OutCount
<1>9. Cardinality(Out') = Cardinality(S) + tool.cost
  <2>1. tool.cost \in 0..admitted.cost
    BY <1>2, <1>7
  <2> QED
    BY <1>3, <1>4, <2>1, OutCountAfter
<1>10. OverspendBounded'
  <2>1. CASE tool.budget = 0
    BY <1>2, <1>3, <2>1 DEF OverspendBounded
  <2>2. CASE tool.budget # 0
    <3>1. spent + tool.cost <= tool.budget
      BY <2>2 DEF Invoke, WithinBudget
    <3>2. spent + Cardinality(Out') <= admitted.budget + (Cardinality(Calls) - 1) * admitted.cost
      BY <1>2, <1>7, <1>8, <1>9, <3>1
    <3> QED
      BY <1>3, <3>2 DEF OverspendBounded
  <2> QED
    BY <2>1, <2>2
<1> QED
  BY <1>5, <1>6, <1>10

\* A call ends, and its cost is logged or is not.
LEMMA RecordKeepsIInv ==
  ASSUME GatewayIInv, NEW c \in Calls, RecordSuccess(c) \/ RecordNothing(c)
  PROVE  GatewayIInv'
<1> USE DEF GatewayIInv
<1> DEFINE S == UnitsIn(call, Calls \ {c})
<1>1. /\ call'[c] = Home /\ \A d \in Calls \ {c} : call'[d] = call[d]
      /\ call' \in [Calls -> [out : {TRUE}, cost : Costs] \union {Home}]
      /\ UNCHANGED <<tool, admitted, configs>>
  BY DEF RecordSuccess, RecordNothing, ToolTypeOK
<1>2. spent \in Nat /\ call[c].cost \in Nat /\ admitted.cost \in Nat /\ Limit \in Nat
  BY GatewayTypes
<1>3. spent' \in Nat /\ spent' <= spent + call[c].cost
  BY <1>2 DEF RecordSuccess, RecordNothing
<1>4. ToolTypeOK'
  BY <1>1, <1>3 DEF ToolTypeOK
<1>5. call'[c].cost = 0
  BY <1>1 DEF Home
<1>6. RowWasAdmitted' /\ CallsWereAdmitted'
  BY <1>1, <1>2, <1>5 DEF RowWasAdmitted, CallsWereAdmitted
<1>7. Cardinality(S) \in Nat /\ Cardinality(Out) = Cardinality(S) + call[c].cost
  BY OutCount
<1>8. Cardinality(Out') = Cardinality(S) + 0
  <2>1. 0 \in 0..admitted.cost
    BY <1>2
  <2> QED
    BY <1>1, <1>5, <2>1, OutCountAfter
<1>9. OverspendBounded'
  <2>1. CASE admitted.unlimited
    BY <1>1, <2>1 DEF OverspendBounded
  <2>2. CASE spent + Cardinality(Out) <= Limit
    <3>1. spent' + Cardinality(Out') <= Limit
      BY <1>2, <1>3, <1>7, <1>8, <2>2
    <3> QED
      BY <1>1, <3>1 DEF OverspendBounded, Limit
  <2> QED
    BY <2>1, <2>2, OverspendByLimit
<1> QED
  BY <1>4, <1>6, <1>9

LEMMA NewMonthKeepsIInv == GatewayIInv /\ NewMonth => GatewayIInv'
<1> SUFFICES ASSUME GatewayIInv, NewMonth PROVE GatewayIInv'
  OBVIOUS
<1> USE DEF GatewayIInv
<1>1. ToolTypeOK' /\ RowWasAdmitted' /\ CallsWereAdmitted'
  BY DEF NewMonth, ToolTypeOK, RowWasAdmitted, CallsWereAdmitted
<1>2. PICK c \in Calls : TRUE
  BY GatewayBoundsAssumption
<1>3. spent \in Nat /\ Cardinality(Out) \in Nat /\ Limit \in Nat
  BY <1>2, GatewayTypes, OutCount
<1>4. spent' = 0 /\ Out' = Out /\ admitted' = admitted
  BY DEF NewMonth, Out
<1>5. OverspendBounded'
  BY <1>3, <1>4 DEF OverspendBounded, Limit
<1> QED
  BY <1>1, <1>5

LEMMA GatewayStepIInv == GatewayIInv /\ [ToolNext]_toolVars => GatewayIInv'
<1> SUFFICES ASSUME GatewayIInv, [ToolNext]_toolVars PROVE GatewayIInv'
  OBVIOUS
<1>1. CASE UNCHANGED toolVars
  BY <1>1 DEF toolVars, GatewayIInv, ToolTypeOK, RowWasAdmitted, CallsWereAdmitted, OverspendBounded, Out
<1> QED
  BY <1>1, UpsertConfigKeepsIInv, InvokeKeepsIInv, RecordKeepsIInv, NewMonthKeepsIInv DEF ToolNext

\* The row, the audit log and the calls that are out are of their types.
THEOREM ToolTypeCorrect == ToolSpec => []ToolTypeOK
<1>1. GatewayIInv => ToolTypeOK
  BY DEF GatewayIInv
<1> QED
  BY <1>1, GatewayInitIInv, GatewayStepIInv, PTL DEF ToolSpec

\* Invoke checks the budget before a call and logs the cost after it: for every number of
\* requests, budget and cost, the month is overspent by at most a call of each request
\* but one.
THEOREM OverspendIsBounded == ToolSpec => []OverspendBounded
<1>1. GatewayIInv => OverspendBounded
  BY DEF GatewayIInv
<1> QED
  BY <1>1, GatewayInitIInv, GatewayStepIInv, PTL DEF ToolSpec

-----------------------------------------------------------------------------
(****************************************************************************)
(* Approvals: a bid is approved by every step of one snapshot.              *)
(****************************************************************************)

\* An entry answers its step.
Answers(entry, step, i) == entry.step = i /\ (entry.by = step.actor \/ step.actor \in entry.held)

\* The steps before the one that is awaited have their entries; all have when the bid
\* is approved.  What was submitted were the active steps, so that they still are.
InstanceKnown ==
    instance # NoInstance =>
        /\ instance \in [status : {"pending", "approved", "rejected"}, step : Nat, snapshot : Seq(Step),
                         entries : Seq(Entry), told : (SUBSET (Users \union {Everyone})) \ {{}}]
        /\ instance.step \in 1..Len(instance.snapshot)
        /\ ActiveSteps(instance.snapshot) = instance.snapshot
        /\ instance.status = "pending" => Len(instance.entries) = instance.step - 1
        /\ instance.status = "approved" => Len(instance.entries) = Len(instance.snapshot)
        /\ Len(instance.entries) <= Len(instance.snapshot)
        /\ \A i \in DOMAIN instance.entries : Answers(instance.entries[i], instance.snapshot[i], i)

ApprovalIInv == TeamIInv /\ ApprovalTypeOK /\ InstanceKnown

\* The last of a bounded set of numbers is one of them, and no less than any other.
LEMMA LastOfNat ==
  ASSUME NEW S, NEW k \in Nat, S \subseteq 0..k, S # {}
  PROVE  Max(S) \in S /\ \A y \in S : Max(S) >= y
<1>1. \A x \in S : x \in Nat /\ x <= k
  OBVIOUS
<1> DEFINE T == {n \in Nat : \E x \in S : n = k - x}
<1>2. T \subseteq Nat /\ T # {}
  <2>1. PICK x \in S : TRUE
    OBVIOUS
  <2>2. k - x \in T
    BY <1>1, <2>1
  <2> QED
    BY <2>2
<1>3. Min(T) \in T /\ \A y \in T : Min(T) <= y
  BY <1>2, FirstOfNat
<1>4. PICK x \in S : Min(T) = k - x
  BY <1>3
<1>5. ASSUME NEW y \in S PROVE x >= y
  <2>1. k - y \in T
    BY <1>1
  <2>2. k - x <= k - y
    BY <1>3, <1>4, <2>1
  <2> QED
    BY <1>1, <2>2
<1> QED
  BY <1>5 DEF Max

\* There is an n-th of the places S.
LEMMA NthPlace ==
  ASSUME NEW k \in Nat, NEW S \in SUBSET (1..k), NEW n \in 1..Cardinality(S)
  PROVE  \E i \in S : Cardinality({j \in S : j <= i}) = n
<1> DEFINE Upto(i) == {j \in S : j <= i}
           T == {i \in Nat : Cardinality(Upto(i)) >= n}
<1>0. \A j \in S : j \in Nat /\ 1 <= j /\ j <= k
  OBVIOUS
<1>1. IsFiniteSet(S) /\ Cardinality(S) \in Nat
  <2>1. IsFiniteSet(1..k)
    BY FromOne
  <2> QED
    BY <2>1, FS_Subset, FS_CardinalityType
<1>2. ASSUME NEW i PROVE IsFiniteSet(Upto(i)) /\ Cardinality(Upto(i)) \in Nat
  <2>1. Upto(i) \in SUBSET S
    OBVIOUS
  <2> HIDE DEF Upto
  <2>2. IsFiniteSet(Upto(i))
    BY <1>1, <2>1, FS_Subset
  <2> QED
    BY <2>2, FS_CardinalityType
<1>3. k \in T
  <2>1. Upto(k) = S
    BY <1>0
  <2> HIDE DEF Upto
  <2>2. n \in Nat /\ Cardinality(Upto(k)) >= n
    BY <1>1, <2>1
  <2> QED
    BY <2>2
<1> HIDE DEF Upto
<1>4. Min(T) \in T /\ \A i \in T : Min(T) <= i
  <2>1. T \subseteq Nat /\ T # {}
    BY <1>3
  <2> HIDE DEF T
  <2> QED
    BY <2>1, FirstOfNat
<1>5. PICK i \in T : \A x \in T : i <= x
  BY <1>4
<1>6. i \in Nat /\ Cardinality(Upto(i)) >= n /\ n \in Nat /\ n >= 1
  BY <1>1, <1>5
<1>7. i # 0
  <2>0. \A j \in S : ~(j <= 0)
    BY <1>0
  <2>1. Upto(0) = {}
    BY <2>0 DEF Upto
  <2>2. Cardinality(Upto(0)) = 0
    BY <2>1, FS_EmptySet
  <2> QED
    BY <1>6, <2>2
<1>8. i - 1 \in Nat /\ Cardinality(Upto(i - 1)) < n
  <2>1. i - 1 \in Nat /\ ~(i <= i - 1)
    BY <1>6, <1>7
  <2>2. i - 1 \notin T
    BY <1>5, <2>1
  <2>3. ~(Cardinality(Upto(i - 1)) >= n) /\ Cardinality(Upto(i - 1)) \in Nat
    BY <1>2, <2>1, <2>2
  <2> QED
    BY <1>6, <2>1, <2>3
<1>9. \A j \in S : j <= i <=> j <= i - 1 \/ j = i
  BY <1>0, <1>6
<1>10. i \in S
  <2> SUFFICES ASSUME i \notin S PROVE FALSE
    OBVIOUS
  <2>1. Upto(i) = Upto(i - 1)
    BY <1>9 DEF Upto
  <2>2. Cardinality(Upto(i - 1)) \in Nat /\ Cardinality(Upto(i - 1)) >= n
    BY <1>2, <1>6, <2>1
  <2> QED
    BY <1>6, <1>8, <2>2
<1>11. Cardinality(Upto(i)) = Cardinality(Upto(i - 1)) + 1
  <2>1. Upto(i) = Upto(i - 1) \union {i}
    BY <1>9, <1>10 DEF Upto
  <2>2. ~(i <= i - 1)
    BY <1>6
  <2>3. i \notin Upto(i - 1)
    BY <2>2 DEF Upto
  <2> QED
    BY <1>2, <2>1, <2>3, FS_AddElement
<1>12. Cardinality(Upto(i)) = n
  BY <1>2, <1>6, <1>8, <1>11
<1> QED
  BY <1>10, <1>12 DEF Upto

\* Steps of one kind are all active,
LEMMA AllAreActive ==
  ASSUME NEW steps \in Seq(Step),
         \/ \A i \in DOMAIN steps : steps[i].required
         \/ \A i \in DOMAIN steps : ~steps[i].required
  PROVE  ActiveSteps(steps) = steps
<1> DEFINE required == {i \in DOMAIN steps : steps[i].required}
           active == IF required = {} THEN DOMAIN steps ELSE required
           Place(n) == CHOOSE i \in active : Cardinality({j \in active : j <= i}) = n
<1>1. active = 1..Len(steps)
  <2>1. DOMAIN steps = 1..Len(steps)
    OBVIOUS
  <2>2. CASE \A i \in DOMAIN steps : steps[i].required
    BY <2>1, <2>2
  <2>3. CASE \A i \in DOMAIN steps : ~steps[i].required
    BY <2>1, <2>3
  <2> QED
    BY <2>2, <2>3
<1>2. Cardinality(1..Len(steps)) = Len(steps)
  <2>1. Len(steps) \in Nat
    OBVIOUS
  <2> QED
    BY <2>1, FromOne
<1>3. ASSUME NEW i \in 1..Len(steps) PROVE Cardinality({j \in 1..Len(steps) : j <= i}) = i
  <2>1. {j \in 1..Len(steps) : j <= i} = 1..i /\ i \in Nat
    OBVIOUS
  <2> QED
    BY <2>1, FromOne
<1> HIDE DEF active
<1>4. ASSUME NEW n \in 1..Len(steps) PROVE Place(n) = n
  <2>1. \A i \in active : Cardinality({j \in active : j <= i}) = i
    BY <1>1, <1>3
  <2> QED
    BY <1>1, <2>1
<1>5. ActiveSteps(steps) = [n \in 1..Cardinality(active) |-> steps[Place(n)]]
  BY DEF ActiveSteps, active
<1> HIDE DEF Place
<1>6. ActiveSteps(steps) = [n \in 1..Len(steps) |-> steps[n]]
  BY <1>1, <1>2, <1>4, <1>5
<1> QED
  BY <1>6

\* and active steps are of one kind.
LEMMA ActiveStepsOf ==
  ASSUME NEW steps \in Seq(Step), steps # <<>>
  PROVE  /\ ActiveSteps(steps) \in Seq(Step) /\ ActiveSteps(steps) # <<>>
         /\ ActiveSteps(ActiveSteps(steps)) = ActiveSteps(steps)
<1> DEFINE required == {i \in DOMAIN steps : steps[i].required}
           active == IF required = {} THEN DOMAIN steps ELSE required
           Place(n) == CHOOSE i \in active : Cardinality({j \in active : j <= i}) = n
<1>1. active \in SUBSET (1..Len(steps)) /\ active # {} /\ Len(steps) \in Nat
  OBVIOUS
<1>2. IsFiniteSet(active)
  <2>1. IsFiniteSet(1..Len(steps))
    BY <1>1, FromOne
  <2> QED
    BY <1>1, <2>1, FS_Subset
<1>3. Cardinality(active) \in Nat /\ Cardinality(active) # 0
  BY <1>1, <1>2, FS_CardinalityType, FS_EmptySet
<1>4. \A i \in active : i \in DOMAIN steps
  BY <1>1
<1>5. \/ \A i \in active : steps[i].required
      \/ \A i \in active : ~steps[i].required
  OBVIOUS
<1> HIDE DEF active
<1>6. \A n \in 1..Cardinality(active) : Place(n) \in active
  BY <1>1, NthPlace
<1> DEFINE result == [n \in 1..Cardinality(active) |-> steps[Place(n)]]
<1>7. ActiveSteps(steps) = result
  BY DEF ActiveSteps, active
<1> HIDE DEF Place
<1>8. result \in Seq(Step) /\ Len(result) = Cardinality(active) /\ DOMAIN result = 1..Cardinality(active)
  <2>1. \A i \in active : steps[i] \in Step
    BY <1>4
  <2>2. result \in [1..Cardinality(active) -> Step]
    BY <1>6, <2>1
  <2> QED
    BY <1>3, <2>2
<1>9. result # <<>>
  BY <1>3, <1>8
<1>10. \/ \A n \in DOMAIN result : result[n].required
       \/ \A n \in DOMAIN result : ~result[n].required
  BY <1>5, <1>6, <1>8
<1>11. ActiveSteps(result) = result
  BY <1>8, <1>10, AllAreActive
<1> QED
  BY <1>7, <1>8, <1>9, <1>11

\* Whom a step is told to exists.
LEMMA ToldIsSomebody ==
  ASSUME TeamTypeOK, NEW step \in Step
  PROVE  Told(step) \in (SUBSET (Users \union {Everyone})) \ {{}}
<1> DEFINE users == IF step.actor \in Users THEN {step.actor} ELSE {u \in DOMAIN member : step.actor \in Held(u)}
<1>1. users \subseteq Users
  BY DEF TeamTypeOK
<1>2. Told(step) = IF users = {} THEN {Everyone} ELSE users
  BY DEF Told
<1> HIDE DEF users
<1> QED
  BY <1>1, <1>2

LEMMA ApprovalInitIInv == ApprovalInit => ApprovalIInv
<1> SUFFICES ASSUME ApprovalInit PROVE ApprovalIInv
  OBVIOUS
<1>1. TeamIInv
  BY TeamInitIInv DEF ApprovalInit
<1>2. edits \in 0..MaxEdits /\ submits \in 0..MaxSubmits /\ MaxChains \in Nat
  BY ApprovalBoundsAssumption DEF ApprovalInit
<1>3. chains \in Seq(Chain) /\ Len(chains) = 0
  BY DEF ApprovalInit
<1>4. ApprovalTypeOK
  <2>1. TeamTypeOK /\ instance = NoInstance /\ status = "editing" /\ ready = FALSE
    BY <1>1 DEF ApprovalInit, TeamIInv
  <2>2. /\ chains \in Seq(Chain) /\ Len(chains) <= MaxChains
        /\ edits \in 0..MaxEdits /\ submits \in 0..MaxSubmits
    BY <1>2, <1>3
  <2> QED
    BY <2>1, <2>2 DEF ApprovalTypeOK
<1>5. instance = NoInstance
  BY DEF ApprovalInit
<1> QED
  BY <1>1, <1>4, <1>5 DEF ApprovalIInv, InstanceKnown

\* What leaves the instance as it is.
LEMMA SameInstance ==
  ASSUME ApprovalIInv, TeamIInv', instance' = instance,
         chains' \in Seq(Chain), Len(chains') <= MaxChains,
         status' \in {"editing", "in_review", "approved"}, ready' \in BOOLEAN,
         edits' \in 0..MaxEdits, submits' \in 0..MaxSubmits
  PROVE  ApprovalIInv'
BY DEF ApprovalIInv, ApprovalTypeOK, InstanceKnown, TeamIInv

\* What ChainStep makes of the chains.
LEMMA ChainsStayChains ==
  ASSUME ApprovalIInv, ChainStep
  PROVE  /\ chains' \in Seq(Chain) /\ Len(chains') <= MaxChains /\ edits' \in 0..MaxEdits
         /\ UNCHANGED <<instance, status, ready, submits>>
<1>1. chains \in Seq(Chain) /\ Len(chains) <= MaxChains /\ edits \in 0..MaxEdits /\ {MaxChains, MaxEdits} \subseteq Nat
  BY ApprovalBoundsAssumption DEF ApprovalIInv, ApprovalTypeOK
<1>2. ASSUME NEW i \in DOMAIN chains
      PROVE  RemoveAt(chains, i) \in Seq(Chain) /\ Len(RemoveAt(chains, i)) = Len(chains) - 1
  <2>1. Len(chains) \in Nat /\ i \in 1..Len(chains) /\ i \in Nat
    BY <1>1
  <2>2. SubSeq(chains, 1, i - 1) \in Seq(Chain) /\ Len(SubSeq(chains, 1, i - 1)) = i - 1
    BY <1>1, <2>1
  <2>3. i + 1 \in Nat /\ 1 <= i + 1 /\ i + 1 <= Len(chains) + 1 /\ chains \in Seq(Chain)
    BY <1>1, <2>1
  <2>4. /\ SubSeq(chains, i + 1, Len(chains)) \in Seq(Chain)
        /\ Len(SubSeq(chains, i + 1, Len(chains))) = Len(chains) - i
    BY <2>1, <2>3
  <2> DEFINE before == SubSeq(chains, 1, i - 1)
             after == SubSeq(chains, i + 1, Len(chains))
  <2>5. RemoveAt(chains, i) = before \o after
    BY DEF RemoveAt
  <2>6. /\ before \in Seq(Chain) /\ Len(before) = i - 1
        /\ after \in Seq(Chain) /\ Len(after) = Len(chains) - i
    BY <2>2, <2>4
  <2> HIDE DEF before, after
  <2> QED
    BY <2>1, <2>5, <2>6, ConcatProperties
<1>3. ASSUME NEW steps \in StepLists, NEW enabled \in BOOLEAN
      PROVE  [steps |-> steps, enabled |-> enabled] \in Chain
  BY DEF Chain
<1>4. ASSUME NEW steps \in StepLists, NEW enabled \in BOOLEAN, CreateChain(steps, enabled)
      PROVE  /\ chains' \in Seq(Chain) /\ Len(chains') <= MaxChains /\ edits' \in 0..MaxEdits
             /\ UNCHANGED <<instance, status, ready, submits>>
  BY <1>1, <1>3, <1>4 DEF CreateChain
<1>5. ASSUME NEW i \in 1..MaxChains, NEW steps \in StepLists, NEW enabled \in BOOLEAN, UpdateChain(i, steps, enabled)
      PROVE  /\ chains' \in Seq(Chain) /\ Len(chains') <= MaxChains /\ edits' \in 0..MaxEdits
             /\ UNCHANGED <<instance, status, ready, submits>>
  <2>1. i \in DOMAIN chains /\ edits' \in 0..MaxEdits /\ UNCHANGED <<instance, status, ready, submits>>
    BY <1>1, <1>5 DEF UpdateChain
  <2>2. chains' = Append(RemoveAt(chains, i), [steps |-> steps, enabled |-> enabled])
    BY <1>5 DEF UpdateChain
  <2>3. RemoveAt(chains, i) \in Seq(Chain) /\ Len(RemoveAt(chains, i)) = Len(chains) - 1
    BY <1>2, <2>1
  <2>4. chains' \in Seq(Chain) /\ Len(chains') = Len(RemoveAt(chains, i)) + 1
    BY <1>3, <2>2, <2>3
  <2> QED
    BY <1>1, <2>1, <2>3, <2>4
<1>6. ASSUME NEW i \in 1..MaxChains, DeleteChain(i)
      PROVE  /\ chains' \in Seq(Chain) /\ Len(chains') <= MaxChains /\ edits' \in 0..MaxEdits
             /\ UNCHANGED <<instance, status, ready, submits>>
  <2>1. /\ i \in DOMAIN chains /\ edits' \in 0..MaxEdits /\ UNCHANGED <<instance, status, ready, submits>>
        /\ chains' = RemoveAt(chains, i)
    BY <1>1, <1>6 DEF DeleteChain
  <2> QED
    BY <1>1, <1>2, <2>1
<1> QED
  BY <1>4, <1>5, <1>6 DEF ChainStep

\* What was submitted are active steps, none of them decided.
LEMMA SubmitBidKeepsIInv ==
  ASSUME ApprovalIInv, TeamIInv', NEW u \in Users, SubmitBid(u)
  PROVE  ApprovalIInv'
<1> DEFINE last == Max(Enabled)
           steps == ActiveSteps(chains[last].steps)
<1>1. last \in DOMAIN chains
  <2>1. chains \in Seq(Chain) /\ Len(chains) \in Nat /\ DOMAIN chains = 1..Len(chains)
    BY DEF ApprovalIInv, ApprovalTypeOK
  <2>2. Enabled \subseteq 0..Len(chains) /\ Enabled # {} /\ Enabled \subseteq DOMAIN chains
    BY <2>1 DEF SubmitBid, Enabled
  <2> QED
    BY <2>1, <2>2, LastOfNat
<1>2. chains[last].steps \in Seq(Step) /\ chains[last].steps # <<>>
  <2>1. chains[last] \in Chain
    BY <1>1 DEF ApprovalIInv, ApprovalTypeOK
  <2> QED
    BY <2>1, StepsAssumption DEF Chain
<1>3. steps \in Seq(Step) /\ steps # <<>> /\ ActiveSteps(steps) = steps
  BY <1>2, ActiveStepsOf
<1>4. /\ instance' = [status |-> "pending", step |-> 1, snapshot |-> steps, entries |-> <<>>, told |-> Told(steps[1])]
      /\ status' = "in_review" /\ submits' = submits + 1 /\ submits < MaxSubmits
      /\ UNCHANGED <<chains, ready, edits, teamVars>>
  BY DEF SubmitBid
<1> HIDE DEF steps
<1>5. Len(steps) \in Nat /\ 1 \in 1..Len(steps) /\ steps[1] \in Step
  BY <1>3
<1>6. Told(steps[1]) \in (SUBSET (Users \union {Everyone})) \ {{}}
  BY <1>5, ToldIsSomebody DEF ApprovalIInv, TeamIInv
<1>7. InstanceKnown'
  BY <1>3, <1>4, <1>5, <1>6 DEF InstanceKnown
<1>8. submits' \in 0..MaxSubmits
  BY <1>4, ApprovalBoundsAssumption DEF ApprovalIInv, ApprovalTypeOK
<1>9. ApprovalTypeOK'
  BY <1>3, <1>4, <1>5, <1>6, <1>8 DEF ApprovalIInv, ApprovalTypeOK, TeamIInv
<1> QED
  BY <1>7, <1>9 DEF ApprovalIInv

\* A decision adds the entry of the step that is awaited.
LEMMA LoggedEntry ==
  ASSUME ApprovalIInv, NEW u \in Users, Decides(u)
  PROVE  LET entry == [step |-> instance.step, by |-> u, held |-> Held(u)] IN
         /\ instance # NoInstance /\ instance.status = "pending"
         /\ instance.step \in Nat /\ Len(instance.snapshot) \in Nat
         /\ Logged(u) = [instance EXCEPT !.entries = Append(instance.entries, entry)]
         /\ Append(instance.entries, entry) \in Seq(Entry)
         /\ Len(Append(instance.entries, entry)) = instance.step
         /\ \A i \in DOMAIN Append(instance.entries, entry) :
               Answers(Append(instance.entries, entry)[i], instance.snapshot[i], i)
<1> DEFINE entry == [step |-> instance.step, by |-> u, held |-> Held(u)]
<1>1. instance # NoInstance /\ instance.status = "pending"
  BY DEF Decides, NoInstance
<1>2. /\ instance.entries \in Seq(Entry) /\ instance.snapshot \in Seq(Step)
      /\ instance.step \in 1..Len(instance.snapshot)
      /\ Len(instance.entries) = instance.step - 1
      /\ ActiveSteps(instance.snapshot) = instance.snapshot
      /\ \A i \in DOMAIN instance.entries : Answers(instance.entries[i], instance.snapshot[i], i)
  BY <1>1 DEF ApprovalIInv, InstanceKnown
<1>3. instance.step \in Nat /\ Len(instance.snapshot) \in Nat
  BY <1>2
<1>4. Held(u) \in SUBSET Roles
  BY DEF ApprovalIInv, TeamIInv, TeamTypeOK, Held, Active, Member
<1>5. entry \in Entry
  BY <1>3, <1>4 DEF Entry
<1>6. MayDecide(u, instance.snapshot[instance.step])
  BY <1>2 DEF Decides
<1>7. Answers(entry, instance.snapshot[instance.step], instance.step)
  BY <1>6 DEF MayDecide, Answers
<1>8. /\ Append(instance.entries, entry) \in Seq(Entry)
      /\ Len(Append(instance.entries, entry)) = instance.step
      /\ DOMAIN Append(instance.entries, entry) = 1..instance.step
      /\ Append(instance.entries, entry)[instance.step] = entry
      /\ \A i \in 1..(instance.step - 1) : Append(instance.entries, entry)[i] = instance.entries[i]
  BY <1>2, <1>3, <1>5
<1>9. DOMAIN instance.entries = 1..(instance.step - 1)
  BY <1>2
<1>10. \A i \in 1..instance.step : i = instance.step \/ i \in 1..(instance.step - 1)
  BY <1>3
<1>11. \A i \in 1..instance.step : Answers(Append(instance.entries, entry)[i], instance.snapshot[i], i)
  BY <1>2, <1>7, <1>8, <1>9, <1>10
<1> QED
  BY <1>1, <1>3, <1>8, <1>11 DEF Logged

LEMMA DecisionKeepsIInv ==
  ASSUME ApprovalIInv, TeamIInv', NEW u \in Users, Approve(u) \/ Reject(u)
  PROVE  ApprovalIInv'
<1> DEFINE entries == Append(instance.entries, [step |-> instance.step, by |-> u, held |-> Held(u)])
<1>1. Decides(u)
  BY DEF Approve, Reject
<1>2. /\ instance # NoInstance /\ instance.status = "pending"
      /\ instance.step \in Nat /\ Len(instance.snapshot) \in Nat
      /\ Logged(u) = [instance EXCEPT !.entries = entries]
      /\ entries \in Seq(Entry) /\ Len(entries) = instance.step
      /\ \A i \in DOMAIN entries : Answers(entries[i], instance.snapshot[i], i)
  BY <1>1, LoggedEntry
<1>3. /\ instance \in [status : {"pending", "approved", "rejected"}, step : Nat, snapshot : Seq(Step),
                       entries : Seq(Entry), told : (SUBSET (Users \union {Everyone})) \ {{}}]
      /\ instance.step \in 1..Len(instance.snapshot)
      /\ ActiveSteps(instance.snapshot) = instance.snapshot
  BY <1>2 DEF ApprovalIInv, InstanceKnown
<1> HIDE DEF entries
<1>4. /\ UNCHANGED <<chains, ready, edits, submits, teamVars>>
      /\ status' \in {"editing", "in_review", "approved"}
  BY DEF Approve, Reject, ApprovalIInv, ApprovalTypeOK
<1>5. CASE Approve(u) /\ instance.step < Len(instance.snapshot)
  <2> DEFINE next == instance.step + 1
  <2>1. next \in 1..Len(instance.snapshot) /\ next \in Nat /\ instance.snapshot[next] \in Step
    <3>1. instance.snapshot \in Seq(Step)
      BY <1>3
    <3>2. next \in 1..Len(instance.snapshot) /\ next \in Nat
      BY <1>2, <1>3, <1>5
    <3> QED
      BY <3>1, <3>2
  <2>2. Told(instance.snapshot[next]) \in (SUBSET (Users \union {Everyone})) \ {{}}
    BY <2>1, ToldIsSomebody DEF ApprovalIInv, TeamIInv
  <2>3. instance' = [Logged(u) EXCEPT !.step = next, !.told = Told(instance.snapshot[next])]
    BY <1>2, <1>3, <1>5 DEF Approve
  <2>4. instance' = [instance EXCEPT !.entries = entries, !.step = next, !.told = Told(instance.snapshot[next])]
    BY <1>2, <1>3, <2>3
  <2>5. /\ instance'.status = "pending" /\ instance'.step = next /\ instance'.snapshot = instance.snapshot
        /\ instance'.entries = entries /\ instance'.told = Told(instance.snapshot[next])
        /\ instance' \in [status : {"pending", "approved", "rejected"}, step : Nat, snapshot : Seq(Step),
                          entries : Seq(Entry), told : (SUBSET (Users \union {Everyone})) \ {{}}]
    BY <1>2, <1>3, <2>1, <2>2, <2>4
  <2>6. InstanceKnown'
    BY <1>2, <1>3, <2>1, <2>5 DEF InstanceKnown
  <2>7. ApprovalTypeOK'
    BY <1>3, <1>4, <2>1, <2>5 DEF ApprovalIInv, ApprovalTypeOK, TeamIInv
  <2> QED
    BY <2>6, <2>7 DEF ApprovalIInv
<1>6. CASE Reject(u) \/ (Approve(u) /\ instance.step >= Len(instance.snapshot))
  <2>1. PICK end \in {"approved", "rejected"} :
           /\ instance' = [Logged(u) EXCEPT !.status = end]
           /\ end = "approved" => instance.step = Len(instance.snapshot)
    BY <1>2, <1>3, <1>6 DEF Approve, Reject
  <2>2. instance' = [instance EXCEPT !.entries = entries, !.status = end]
    BY <1>2, <1>3, <2>1
  <2>3. /\ instance'.status = end /\ instance'.step = instance.step /\ instance'.snapshot = instance.snapshot
        /\ instance'.entries = entries /\ instance'.told = instance.told
        /\ instance' \in [status : {"pending", "approved", "rejected"}, step : Nat, snapshot : Seq(Step),
                          entries : Seq(Entry), told : (SUBSET (Users \union {Everyone})) \ {{}}]
    BY <1>2, <1>3, <2>2
  <2>4. InstanceKnown'
    BY <1>2, <1>3, <2>1, <2>3 DEF InstanceKnown
  <2>5. ApprovalTypeOK'
    BY <1>3, <1>4, <2>3 DEF ApprovalIInv, ApprovalTypeOK, TeamIInv
  <2> QED
    BY <2>4, <2>5 DEF ApprovalIInv
<1> QED
  BY <1>2, <1>5, <1>6

LEMMA ApprovalStepIInv == ApprovalIInv /\ [ApprovalNext]_approvalVars => ApprovalIInv'
<1> SUFFICES ASSUME ApprovalIInv, [ApprovalNext]_approvalVars PROVE ApprovalIInv'
  OBVIOUS
<1>1. TeamIInv'
  BY ApprovalKeepsTeam, TeamStepIInv DEF ApprovalIInv
<1>2. CASE ChainStep
  BY <1>1, <1>2, ChainsStayChains, SameInstance DEF ApprovalIInv, ApprovalTypeOK
<1>3. CASE ContentsChange \/ TeamStep \/ UNCHANGED approvalVars
  BY <1>1, <1>3, SameInstance DEF ContentsChange, TeamStep, approvalVars, ApprovalIInv, ApprovalTypeOK
<1> QED
  BY <1>1, <1>2, <1>3, SubmitBidKeepsIInv, DecisionKeepsIInv DEF ApprovalNext, DecisionStep

\* Chains, the instance and its log are of their types, for any lists of steps.
THEOREM ApprovalTypeCorrect == ApprovalSpec => []ApprovalTypeOK
<1>1. ApprovalIInv => ApprovalTypeOK
  BY DEF ApprovalIInv
<1> QED
  BY <1>1, ApprovalInitIInv, ApprovalStepIInv, PTL DEF ApprovalSpec

\* Approved instances are those whose every step has the entry that answers it.
LEMMA KnownIsDecided == ApprovalIInv => ApprovedByEveryStep
<1> SUFFICES ASSUME ApprovalIInv, instance.status = "approved"
             PROVE  /\ Len(instance.entries) = Len(instance.snapshot)
                    /\ \A i \in DOMAIN instance.snapshot :
                          Answers(instance.entries[i], instance.snapshot[i], i)
  BY DEF ApprovedByEveryStep, Answers
<1>1. instance # NoInstance
  BY DEF NoInstance
<1>2. /\ instance.entries \in Seq(Entry) /\ instance.snapshot \in Seq(Step)
      /\ Len(instance.entries) = Len(instance.snapshot)
      /\ \A i \in DOMAIN instance.entries : Answers(instance.entries[i], instance.snapshot[i], i)
  BY <1>1 DEF ApprovalIInv, InstanceKnown
<1> QED
  BY <1>2

\* Approve takes an instance to its end only over every step of its snapshot, in their
\* order, each decided by who might, whatever UpdateChain, DeleteChain and the requests
\* about members and roles do in between.
THEOREM ApprovalIsByEveryStep == ApprovalSpec => []ApprovedByEveryStep
BY KnownIsDecided, ApprovalInitIInv, ApprovalStepIInv, PTL DEF ApprovalSpec

-----------------------------------------------------------------------------
(****************************************************************************)
(* The pool: batches that overlap leave what one after the other would.     *)
(****************************************************************************)

\* What a batch has written are the keys it no longer has left, and what it counted as
\* inserted is still missing outside its transaction.
BatchKnown(c) ==
    ingest[c] # NoBatch =>
        /\ ingest[c].raw \in Seq(Tender)
        /\ ingest[c].left \subseteq FirstPlaces(ingest[c].raw)
        /\ Written(c) = KeysOf(ingest[c].raw) \ {ingest[c].raw[p].key : p \in ingest[c].left}
        /\ \A k \in ingest[c].ingested : pool[k] = Absent
        /\ \A k \in ingest[c].updated : pool[k] # Absent

BatchesKnown == \A c \in Collectors : BatchKnown(c)

\* No two open transactions have written one row.
WrittenApart == \A c, d \in Collectors : c # d => Written(c) \intersect Written(d) = {}

Rows == {k \in Keys : pool[k] # Absent}

PoolIInv == PoolTypeOK /\ BatchesKnown /\ WrittenApart /\ IsFiniteSet(Rows) /\ PoolIsSerial

LEMMA TenderPlaces ==
  ASSUME NEW ts \in Seq(Tender)
  PROVE  /\ Len(ts) \in Nat /\ DOMAIN ts = 1..Len(ts)
         /\ \A p \in DOMAIN ts : ts[p] \in Tender /\ ts[p].key \in Keys /\ ts[p].body \in Bodies
         /\ KeysOf(ts) \subseteq Keys
<1>1. Len(ts) \in Nat /\ DOMAIN ts = 1..Len(ts) /\ \A p \in DOMAIN ts : ts[p] \in Tender
  OBVIOUS
<1>2. \A p \in DOMAIN ts : ts[p].key \in Keys /\ ts[p].body \in Bodies
  BY <1>1 DEF Tender
<1> QED
  BY <1>1, <1>2 DEF KeysOf

\* A batch has finitely many keys.
LEMMA KeysAreFinite ==
  ASSUME NEW ts \in Seq(Tender)
  PROVE  IsFiniteSet(KeysOf(ts))
<1> DEFINE f == [p \in DOMAIN ts |-> ts[p].key]
<1>1. f \in Surjection(DOMAIN ts, KeysOf(ts))
  <2>1. f \in [DOMAIN ts -> KeysOf(ts)]
    BY DEF KeysOf
  <2>2. \A k \in KeysOf(ts) : \E p \in DOMAIN ts : f[p] = k
    BY DEF KeysOf
  <2> QED
    BY <2>1, <2>2 DEF Surjection
<1>2. IsFiniteSet(DOMAIN ts)
  BY TenderPlaces, FromOne
<1> QED
  BY <1>1, <1>2, FS_Surjection

\* The last place of a key.
LEMMA LastPlace ==
  ASSUME NEW ts \in Seq(Tender), NEW k \in KeysOf(ts)
  PROVE  \E p \in DOMAIN ts : /\ ts[p].key = k /\ LastSays(ts, k) = ts[p].body
                              /\ \A q \in DOMAIN ts : ts[q].key = k => q <= p
<1> DEFINE P == {p \in DOMAIN ts : ts[p].key = k}
<1>1. Len(ts) \in Nat /\ DOMAIN ts = 1..Len(ts)
  BY TenderPlaces
<1>2. P \subseteq 0..Len(ts) /\ P # {}
  BY <1>1 DEF KeysOf
<1>3. LastSays(ts, k) = ts[Max(P)].body
  BY DEF LastSays
<1> HIDE DEF P
<1>4. Max(P) \in P /\ \A y \in P : Max(P) >= y
  BY <1>1, <1>2, LastOfNat
<1>5. \A y \in P : y \in Nat
  <2>1. \A y \in 0..Len(ts) : y \in Nat
    OBVIOUS
  <2> QED
    BY <1>2, <2>1
<1>6. \A y \in P : y \in Nat /\ y <= Max(P)
  BY <1>4, <1>5
<1> QED
  BY <1>3, <1>4, <1>6 DEF P

LEMMA LastIsOne ==
  ASSUME NEW ts \in Seq(Tender), NEW p \in DOMAIN ts,
         \A q \in DOMAIN ts : ts[q].key = ts[p].key => q <= p
  PROVE  LastSays(ts, ts[p].key) = ts[p].body
<1>1. ts[p].key \in KeysOf(ts)
  BY DEF KeysOf
<1>2. PICK q \in DOMAIN ts : /\ ts[q].key = ts[p].key /\ LastSays(ts, ts[p].key) = ts[q].body
                             /\ \A r \in DOMAIN ts : ts[r].key = ts[p].key => r <= q
  BY <1>1, LastPlace
<1>3. p = q
  BY <1>2, TenderPlaces
<1> QED
  BY <1>2, <1>3

\* What is said last, of tenders handed in after others.
LEMMA LastOfBoth ==
  ASSUME NEW h \in Seq(Tender), NEW r \in Seq(Tender)
  PROVE  /\ h \o r \in Seq(Tender) /\ KeysOf(h \o r) = KeysOf(h) \union KeysOf(r)
         /\ \A k \in KeysOf(r) : LastSays(h \o r, k) = LastSays(r, k)
         /\ \A k \in KeysOf(h) \ KeysOf(r) : LastSays(h \o r, k) = LastSays(h, k)
<1> DEFINE n == Len(h)
           m == Len(r)
           b == h \o r
<1>1. /\ n \in Nat /\ DOMAIN h = 1..n /\ m \in Nat /\ DOMAIN r = 1..m
      /\ \A p \in DOMAIN h : h[p] \in Tender
      /\ \A p \in DOMAIN r : r[p] \in Tender
  BY TenderPlaces
<1>2. /\ b \in Seq(Tender) /\ Len(b) = n + m
      /\ \A p \in 1..(n + m) : b[p] = IF p <= n THEN h[p] ELSE r[p - n]
  BY ConcatProperties
<1> HIDE DEF b, n, m
<1>3. DOMAIN b = 1..(n + m)
  BY <1>2, TenderPlaces
<1>4. \A p \in DOMAIN h : p \in DOMAIN b /\ p <= n /\ b[p] = h[p]
  BY <1>1, <1>2, <1>3
<1>5. \A p \in DOMAIN r : p + n \in DOMAIN b /\ p + n > n /\ b[p + n] = r[p]
  <2> SUFFICES ASSUME NEW p \in DOMAIN r PROVE p + n \in DOMAIN b /\ p + n > n /\ b[p + n] = r[p]
    OBVIOUS
  <2>1. p + n \in 1..(n + m) /\ ~(p + n <= n) /\ (p + n) - n = p
    BY <1>1
  <2> QED
    BY <1>1, <1>2, <1>3, <2>1
<1>6. \A p \in DOMAIN b : \/ p \in DOMAIN h
                          \/ p - n \in DOMAIN r /\ (p - n) + n = p
  BY <1>1, <1>3
<1>7. KeysOf(b) = KeysOf(h) \union KeysOf(r)
  <2>1. \A p \in DOMAIN b : b[p].key \in KeysOf(h) \union KeysOf(r)
    BY <1>4, <1>5, <1>6 DEF KeysOf
  <2>2. \A p \in DOMAIN h : h[p].key \in KeysOf(b)
    BY <1>4 DEF KeysOf
  <2>3. \A p \in DOMAIN r : r[p].key \in KeysOf(b)
    BY <1>5 DEF KeysOf
  <2> QED
    BY <2>1, <2>2, <2>3 DEF KeysOf
<1>8. ASSUME NEW k \in KeysOf(r) PROVE LastSays(b, k) = LastSays(r, k)
  <2>1. PICK p \in DOMAIN r : /\ r[p].key = k /\ LastSays(r, k) = r[p].body
                              /\ \A q \in DOMAIN r : r[q].key = k => q <= p
    BY LastPlace
  <2>2. p + n \in DOMAIN b /\ b[p + n] = r[p]
    BY <1>5
  <2>3. ASSUME NEW q \in DOMAIN b, b[q].key = k PROVE q <= p + n
    <3>1. CASE q \in DOMAIN h
      BY <1>1, <3>1
    <3>2. CASE q - n \in DOMAIN r /\ (q - n) + n = q
      <4>1. r[q - n].key = k
        BY <1>5, <2>3, <3>2
      <4>2. q - n <= p
        BY <2>1, <3>2, <4>1
      <4> QED
        BY <1>1, <1>3, <4>2
    <3> QED
      BY <1>6, <3>1, <3>2
  <2> QED
    BY <1>2, <2>1, <2>2, <2>3, LastIsOne
<1>9. ASSUME NEW k \in KeysOf(h) \ KeysOf(r) PROVE LastSays(b, k) = LastSays(h, k)
  <2>1. PICK p \in DOMAIN h : /\ h[p].key = k /\ LastSays(h, k) = h[p].body
                              /\ \A q \in DOMAIN h : h[q].key = k => q <= p
    BY LastPlace
  <2>2. p \in DOMAIN b /\ b[p] = h[p]
    BY <1>4
  <2>3. ASSUME NEW q \in DOMAIN b, b[q].key = k PROVE q <= p
    <3>1. CASE q \in DOMAIN h
      BY <1>4, <2>1, <2>3, <3>1
    <3>2. CASE q - n \in DOMAIN r /\ (q - n) + n = q
      <4>1. r[q - n].key = k
        BY <1>5, <2>3, <3>2
      <4> QED
        BY <1>9, <3>2, <4>1 DEF KeysOf
    <3> QED
      BY <1>6, <3>1, <3>2
  <2> QED
    BY <1>2, <2>1, <2>2, <2>3, LastIsOne
<1> QED
  BY <1>2, <1>7, <1>8, <1>9 DEF b

\* Every key of a batch has one first place.
LEMMA FirstPlaceOf ==
  ASSUME NEW ts \in Seq(Tender)
  PROVE  /\ \A k \in KeysOf(ts) : \E p \in FirstPlaces(ts) : ts[p].key = k
         /\ \A p, q \in FirstPlaces(ts) : ts[p].key = ts[q].key => p = q
         /\ FirstPlaces(ts) \subseteq DOMAIN ts /\ DOMAIN ts \subseteq Nat
<1>1. Len(ts) \in Nat /\ DOMAIN ts = 1..Len(ts)
  BY TenderPlaces
<1>2. ASSUME NEW k \in KeysOf(ts) PROVE \E p \in FirstPlaces(ts) : ts[p].key = k
  <2> DEFINE P == {p \in DOMAIN ts : ts[p].key = k}
  <2>1. P \subseteq Nat /\ P # {}
    BY <1>1 DEF KeysOf
  <2> HIDE DEF P
  <2>2. Min(P) \in P /\ \A y \in P : Min(P) <= y
    BY <2>1, FirstOfNat
  <2>3. PICK p \in P : \A y \in P : p <= y
    BY <2>2
  <2>4. p \in DOMAIN ts /\ ts[p].key = k
    BY DEF P
  <2>5. ASSUME NEW q \in 1..(p - 1), ts[q].key = k PROVE FALSE
    <3>1. q \in DOMAIN ts /\ q < p
      BY <1>1, <2>4
    <3>2. q \in P
      BY <2>5, <3>1 DEF P
    <3> QED
      BY <1>1, <2>3, <2>4, <3>1, <3>2
  <2> QED
    BY <2>4, <2>5 DEF FirstPlaces
<1>3. ASSUME NEW p \in FirstPlaces(ts), NEW q \in FirstPlaces(ts), ts[p].key = ts[q].key PROVE p = q
  <2>1. p \in 1..Len(ts) /\ q \in 1..Len(ts)
    BY <1>1 DEF FirstPlaces
  <2>2. p \notin 1..(q - 1) /\ q \notin 1..(p - 1)
    BY <1>3 DEF FirstPlaces
  <2> QED
    BY <1>1, <2>1, <2>2
<1> QED
  BY <1>1, <1>2, <1>3 DEF FirstPlaces

LEMMA NotAbsent == \A b \in Bodies : [body |-> b] # Absent
BY PoolBoundsAssumption DEF Absent

LEMMA PoolInitIInv == PoolInit => PoolIInv
<1> SUFFICES ASSUME PoolInit PROVE PoolIInv
  OBVIOUS
<1>1. PoolTypeOK
  <2>1. <<>> \in Seq([keys : SUBSET Keys, ingested : Nat, updated : Nat]) /\ <<>> \in Seq(Tender) /\ Len(<<>>) = 0
    OBVIOUS
  <2>2. /\ pool \in [Keys -> [body : Bodies] \union {Absent}]
        /\ ingest \in [Collectors -> {NoBatch} \union [raw : Seq(Tender), left : SUBSET Nat,
                                                       ingested : SUBSET Keys, updated : SUBSET Keys]]
    BY DEF PoolInit
  <2> QED
    BY <2>1, <2>2, PoolBoundsAssumption DEF PoolInit, PoolTypeOK
<1>2. BatchesKnown /\ WrittenApart
  BY DEF PoolInit, BatchesKnown, BatchKnown, WrittenApart, Written, NoBatch
<1>3. Rows = {}
  BY DEF PoolInit, Rows
<1>4. PoolIsSerial
  <2>1. Cardinality({k \in Keys : pool[k] # Absent}) = 0
    BY <1>3, FS_EmptySet DEF Rows
  <2> QED
    BY <2>1 DEF PoolInit, PoolIsSerial, KeysOf
<1> QED
  BY <1>1, <1>2, <1>3, <1>4, FS_EmptySet DEF PoolIInv

\* What leaves the pool as it is.
LEMMA SamePool ==
  ASSUME PoolIInv, UNCHANGED <<pool, runs, handed, added>>
  PROVE  PoolIsSerial' /\ IsFiniteSet(Rows)'
BY DEF PoolIInv, PoolIsSerial, Rows

\* A batch that is begun has written nothing, one that is lost leaves nothing.
LEMMA BatchKeepsIInv ==
  ASSUME PoolIInv, NEW c \in Collectors, NEW raw \in Seq(Tender), Ingest(c, raw)
  PROVE  PoolIInv'
<1> DEFINE w == [raw |-> raw, left |-> FirstPlaces(raw), ingested |-> {}, updated |-> {}]
<1>1. /\ ingest' = [ingest EXCEPT ![c] = w]
      /\ UNCHANGED <<pool, runs, handed, added>>
  BY DEF Ingest, normalizeIngestRequest
<1>2. /\ ingest'[c] = w /\ \A d \in Collectors \ {c} : ingest'[d] = ingest[d]
      /\ DOMAIN ingest' = Collectors
  BY <1>1 DEF PoolIInv, PoolTypeOK
<1>3. FirstPlaces(raw) \in SUBSET Nat
  BY FirstPlaceOf
<1>4. PoolTypeOK'
  BY <1>1, <1>3 DEF PoolIInv, PoolTypeOK
<1>5. Written(c)' = {} /\ \A d \in Collectors \ {c} : Written(d)' = Written(d)
  BY <1>2 DEF Written
<1>6. WrittenApart'
  BY <1>5 DEF PoolIInv, WrittenApart
<1>7. ASSUME NEW d \in Collectors PROVE BatchKnown(d)'
  <2>1. CASE d = c
    <3>1. KeysOf(raw) \ {raw[p].key : p \in FirstPlaces(raw)} = {}
      BY FirstPlaceOf
    <3>2. /\ w.raw = raw /\ w.left = FirstPlaces(raw) /\ w.ingested = {} /\ w.updated = {}
      OBVIOUS
    <3> HIDE DEF w
    <3> QED
      BY <1>2, <1>5, <2>1, <3>1, <3>2 DEF BatchKnown
  <2>2. CASE d # c
    BY <1>1, <1>2, <1>5, <2>2 DEF PoolIInv, BatchesKnown, BatchKnown
  <2> QED
    BY <2>1, <2>2
<1> QED
  BY <1>1, <1>4, <1>6, <1>7, SamePool DEF PoolIInv, BatchesKnown

LEMMA LostBatchKeepsIInv ==
  ASSUME PoolIInv, NEW c \in Collectors, Rollback(c)
  PROVE  PoolIInv'
<1>1. /\ ingest' = [ingest EXCEPT ![c] = NoBatch]
      /\ UNCHANGED <<pool, runs, handed, added>>
  BY DEF Rollback
<1>2. /\ ingest'[c] = NoBatch /\ \A d \in Collectors \ {c} : ingest'[d] = ingest[d]
      /\ DOMAIN ingest' = Collectors
  BY <1>1 DEF PoolIInv, PoolTypeOK
<1>3. PoolTypeOK'
  BY <1>1 DEF PoolIInv, PoolTypeOK
<1>4. Written(c)' = {} /\ \A d \in Collectors \ {c} : Written(d)' = Written(d)
  BY <1>2 DEF Written, NoBatch
<1>5. WrittenApart'
  BY <1>4 DEF PoolIInv, WrittenApart
<1>6. BatchesKnown'
  BY <1>1, <1>2, <1>4 DEF PoolIInv, BatchesKnown, BatchKnown
<1> QED
  BY <1>1, <1>3, <1>5, <1>6, SamePool DEF PoolIInv

\* A row that is written is one the batch had left and no other has written.
LEMMA RowKeepsIInv ==
  ASSUME PoolIInv, NEW c \in Collectors, Upsert(c)
  PROVE  PoolIInv'
<1> DEFINE w == ingest[c]
           p == Min(w.left)
           k == w.raw[p].key
           v == ingest'[c]
<1>1. /\ w.left # {} /\ \A d \in Collectors \ {c} : k \notin Written(d)
      /\ UNCHANGED <<pool, runs, handed, added>>
      /\ ingest' = [ingest EXCEPT ![c] =
              IF pool[k] = Absent THEN [w EXCEPT !.left = w.left \ {p}, !.ingested = w.ingested \union {k}]
                                  ELSE [w EXCEPT !.left = w.left \ {p}, !.updated = w.updated \union {k}]]
  BY DEF Upsert
<1>2. w # NoBatch
  BY <1>1 DEF NoBatch
<1>3. /\ w \in [raw : Seq(Tender), left : SUBSET Nat, ingested : SUBSET Keys, updated : SUBSET Keys]
      /\ ingest \in [Collectors -> {NoBatch} \union [raw : Seq(Tender), left : SUBSET Nat,
                                                     ingested : SUBSET Keys, updated : SUBSET Keys]]
  BY <1>2 DEF PoolIInv, PoolTypeOK
<1>4. /\ w.raw \in Seq(Tender) /\ w.left \subseteq FirstPlaces(w.raw)
      /\ w.ingested \union w.updated = KeysOf(w.raw) \ {w.raw[q].key : q \in w.left}
      /\ \A x \in w.ingested : pool[x] = Absent
      /\ \A x \in w.updated : pool[x] # Absent
  BY <1>2 DEF PoolIInv, BatchesKnown, BatchKnown, Written
<1>5. p \in w.left
  <2>1. w.left \subseteq Nat
    BY <1>3
  <2> QED
    BY <1>1, <2>1, FirstOfNat
<1>6. k \in KeysOf(w.raw) /\ k \in Keys
  <2>1. p \in DOMAIN w.raw
    BY <1>4, <1>5, FirstPlaceOf
  <2> QED
    BY <1>4, <2>1, TenderPlaces DEF KeysOf
<1>7. \A q \in w.left \ {p} : w.raw[q].key # k
  BY <1>4, <1>5, FirstPlaceOf
<1> HIDE DEF p, k
<1>8. /\ v = IF pool[k] = Absent THEN [w EXCEPT !.left = w.left \ {p}, !.ingested = w.ingested \union {k}]
                                 ELSE [w EXCEPT !.left = w.left \ {p}, !.updated = w.updated \union {k}]
      /\ \A d \in Collectors \ {c} : ingest'[d] = ingest[d]
  BY <1>1, <1>3
<1> HIDE DEF w, v
<1>9. /\ v \in [raw : Seq(Tender), left : SUBSET Nat, ingested : SUBSET Keys, updated : SUBSET Keys]
      /\ v.raw = w.raw /\ v.left = w.left \ {p}
      /\ v.ingested \union v.updated = w.ingested \union w.updated \union {k}
      /\ v.ingested \subseteq w.ingested \union {k} /\ v.updated \subseteq w.updated \union {k}
      /\ pool[k] = Absent => v.updated = w.updated
      /\ pool[k] # Absent => v.ingested = w.ingested
  <2>1. CASE pool[k] = Absent
    BY <1>3, <1>6, <1>8, <2>1
  <2>2. CASE pool[k] # Absent
    BY <1>3, <1>6, <1>8, <2>2
  <2> QED
    BY <2>1, <2>2
<1>10. PoolTypeOK'
  <2>1. ingest' = [ingest EXCEPT ![c] = v]
    BY <1>1, <1>3, <1>8
  <2>2. ingest' \in [Collectors -> {NoBatch} \union [raw : Seq(Tender), left : SUBSET Nat,
                                                     ingested : SUBSET Keys, updated : SUBSET Keys]]
    BY <1>3, <1>9, <2>1
  <2> QED
    BY <1>1, <2>2 DEF PoolIInv, PoolTypeOK
<1>11. Written(c)' = Written(c) \union {k} /\ \A d \in Collectors \ {c} : Written(d)' = Written(d)
  BY <1>8, <1>9 DEF Written, w, v
<1>12. WrittenApart'
  BY <1>1, <1>11 DEF PoolIInv, WrittenApart
<1>13. ASSUME NEW d \in Collectors PROVE BatchKnown(d)'
  <2>1. CASE d = c
    <3>1. v.left \subseteq FirstPlaces(v.raw)
      BY <1>4, <1>9
    <3>2. v.ingested \union v.updated = KeysOf(v.raw) \ {v.raw[q].key : q \in v.left}
      <4>1. {w.raw[q].key : q \in w.left} = {w.raw[q].key : q \in w.left \ {p}} \union {k}
        BY <1>5 DEF k
      <4>2. k \notin {w.raw[q].key : q \in w.left \ {p}}
        BY <1>7
      <4> QED
        BY <1>4, <1>6, <1>9, <4>1, <4>2
    <3>3. (\A x \in v.ingested : pool[x] = Absent) /\ (\A x \in v.updated : pool[x] # Absent)
      BY <1>4, <1>9
    <3>4. v.raw \in Seq(Tender)
      BY <1>4, <1>9
    <3> QED
      BY <1>1, <2>1, <3>1, <3>2, <3>3, <3>4 DEF BatchKnown, Written, v
  <2>2. CASE d # c
    BY <1>1, <1>8, <1>11, <2>2 DEF PoolIInv, BatchesKnown, BatchKnown
  <2> QED
    BY <2>1, <2>2
<1> QED
  BY <1>1, <1>10, <1>12, <1>13, SamePool DEF PoolIInv, BatchesKnown

\* A batch that commits is added to what was handed in.
LEMMA CommittedBatchKeepsIInv ==
  ASSUME PoolIInv, NEW c \in Collectors, Record(c)
  PROVE  PoolIInv'
<1> DEFINE w == ingest[c]
           K == KeysOf(w.raw)
<1>1. /\ w # NoBatch /\ w.left = {} /\ Len(runs) < MaxRuns
      /\ pool' = [k \in Keys |-> IF k \in Written(c) THEN [body |-> normalizeIngestRequest(w.raw).says[k]] ELSE pool[k]]
      /\ runs' = Append(runs, [keys |-> K, ingested |-> Cardinality(w.ingested), updated |-> Cardinality(w.updated)])
      /\ handed' = handed \o w.raw /\ added' = added + Cardinality(w.ingested)
      /\ ingest' = [ingest EXCEPT ![c] = NoBatch]
  BY DEF Record
<1>2. /\ pool \in [Keys -> [body : Bodies] \union {Absent}] /\ handed \in Seq(Tender) /\ added \in Nat
      /\ runs \in Seq([keys : SUBSET Keys, ingested : Nat, updated : Nat])
      /\ ingest \in [Collectors -> {NoBatch} \union [raw : Seq(Tender), left : SUBSET Nat,
                                                     ingested : SUBSET Keys, updated : SUBSET Keys]]
  BY DEF PoolIInv, PoolTypeOK
<1>3. /\ w.raw \in Seq(Tender) /\ w.ingested \union w.updated = K /\ Written(c) = K
      /\ \A k \in w.ingested : pool[k] = Absent
      /\ \A k \in w.updated : pool[k] # Absent
  <2>1. BatchKnown(c)
    BY DEF PoolIInv, BatchesKnown
  <2>2. {w.raw[q].key : q \in w.left} = {}
    BY <1>1
  <2> QED
    BY <1>1, <2>1, <2>2 DEF BatchKnown, Written
<1>4. K \subseteq Keys /\ IsFiniteSet(K)
  BY <1>3, TenderPlaces, KeysAreFinite
<1>5. \A k \in K : normalizeIngestRequest(w.raw).says[k] = LastSays(w.raw, k) /\ LastSays(w.raw, k) \in Bodies
  <2>1. \A k \in K : LastSays(w.raw, k) \in Bodies
    BY <1>3, LastPlace, TenderPlaces
  <2> QED
    BY <2>1 DEF normalizeIngestRequest
<1>6. /\ ingest'[c] = NoBatch /\ \A d \in Collectors \ {c} : ingest'[d] = ingest[d]
  BY <1>1, <1>2
<1>7. Written(c)' = {} /\ \A d \in Collectors \ {c} : Written(d)' = Written(d)
  BY <1>6 DEF Written, NoBatch
<1> HIDE DEF w, K
<1>8. pool' = [k \in Keys |-> IF k \in K THEN [body |-> LastSays(w.raw, k)] ELSE pool[k]]
  BY <1>1, <1>3, <1>5
<1>9. \A k \in Keys : pool'[k] = IF k \in K THEN [body |-> LastSays(w.raw, k)] ELSE pool[k]
  BY <1>8
<1>10. \A k \in K : [body |-> LastSays(w.raw, k)] # Absent
  BY <1>5, NotAbsent
<1>11. IsFiniteSet(w.ingested) /\ IsFiniteSet(w.updated) /\ Cardinality(w.ingested) \in Nat /\ Cardinality(w.updated) \in Nat
  <2>1. w.ingested \in SUBSET K /\ w.updated \in SUBSET K
    BY <1>3
  <2>2. IsFiniteSet(w.ingested) /\ IsFiniteSet(w.updated)
    BY <1>4, <2>1, FS_Subset
  <2> QED
    BY <2>2, FS_CardinalityType
<1>12. Cardinality(K) = Cardinality(w.ingested) + Cardinality(w.updated)
  <2>1. w.ingested \intersect w.updated = {}
    BY <1>3
  <2>2. Cardinality(w.ingested \intersect w.updated) = 0
    BY <2>1, FS_EmptySet
  <2>3. Cardinality(w.ingested \union w.updated)
           = Cardinality(w.ingested) + Cardinality(w.updated) - Cardinality(w.ingested \intersect w.updated)
    BY <1>11, FS_Union
  <2>4. Cardinality(K) = Cardinality(w.ingested \union w.updated)
    BY <1>3
  <2> QED
    BY <1>11, <2>2, <2>3, <2>4
<1>13. /\ handed' \in Seq(Tender) /\ KeysOf(handed') = KeysOf(handed) \union K
       /\ \A k \in K : LastSays(handed', k) = LastSays(w.raw, k)
       /\ \A k \in KeysOf(handed) \ K : LastSays(handed', k) = LastSays(handed, k)
  BY <1>1, <1>2, <1>3, LastOfBoth DEF K
<1>14. PoolTypeOK'
  <2>1. pool' \in [Keys -> [body : Bodies] \union {Absent}]
    BY <1>2, <1>5, <1>8
  <2>2. ingest' \in [Collectors -> {NoBatch} \union [raw : Seq(Tender), left : SUBSET Nat,
                                                     ingested : SUBSET Keys, updated : SUBSET Keys]]
    BY <1>1, <1>2
  <2>3. runs' \in Seq([keys : SUBSET Keys, ingested : Nat, updated : Nat]) /\ Len(runs') <= MaxRuns
    BY <1>1, <1>2, <1>4, <1>11, PoolBoundsAssumption
  <2>4. handed' \in Seq(Tender) /\ added' \in Nat
    BY <1>1, <1>2, <1>11, <1>13
  <2> QED
    BY <2>1, <2>2, <2>3, <2>4 DEF PoolTypeOK
<1>15. WrittenApart'
  BY <1>7 DEF PoolIInv, WrittenApart
<1>16. ASSUME NEW d \in Collectors PROVE BatchKnown(d)'
  <2>1. CASE d = c
    BY <1>6, <2>1 DEF BatchKnown
  <2>2. CASE d # c /\ ingest[d] # NoBatch
    <3>1. ingest'[d] = ingest[d] /\ Written(d)' = Written(d) /\ Written(d) \intersect K = {}
      BY <1>3, <1>6, <1>7, <2>2 DEF PoolIInv, WrittenApart
    <3>2. ingest[d].ingested \subseteq Keys /\ ingest[d].updated \subseteq Keys
      BY <1>2, <2>2
    <3>3. \A k \in Written(d) : k \in Keys /\ pool'[k] = pool[k]
      BY <1>9, <3>1, <3>2 DEF Written
    <3>4. BatchKnown(d)
      BY DEF PoolIInv, BatchesKnown
    <3> QED
      BY <3>1, <3>3, <3>4 DEF BatchKnown, Written
  <2>3. CASE d # c /\ ingest[d] = NoBatch
    BY <1>6, <2>3 DEF BatchKnown
  <2> QED
    BY <2>1, <2>2, <2>3
<1>17. Rows' = Rows \union w.ingested /\ Rows \intersect w.ingested = {}
  <2>1. Rows' = Rows \union K
    BY <1>4, <1>9, <1>10 DEF Rows
  <2>2. w.updated \subseteq Rows
    BY <1>3, <1>4 DEF Rows
  <2> QED
    BY <1>3, <2>1, <2>2 DEF Rows
<1>18. IsFiniteSet(Rows') /\ Cardinality(Rows') = Cardinality(Rows) + Cardinality(w.ingested)
  <2>1. IsFiniteSet(Rows) /\ Cardinality(Rows) \in Nat
    BY FS_CardinalityType DEF PoolIInv
  <2>2. Cardinality(Rows \intersect w.ingested) = 0
    BY <1>17, FS_EmptySet
  <2>3. /\ IsFiniteSet(Rows \union w.ingested)
        /\ Cardinality(Rows \union w.ingested) = Cardinality(Rows) + Cardinality(w.ingested) - Cardinality(Rows \intersect w.ingested)
    BY <1>11, <2>1, FS_Union
  <2> QED
    BY <1>11, <1>17, <2>1, <2>2, <2>3
<1>19. PoolIsSerial'
  <2>1. ASSUME NEW k \in Keys
        PROVE  pool'[k] = IF k \in KeysOf(handed') THEN [body |-> LastSays(handed', k)] ELSE Absent
    <3>1. pool[k] = IF k \in KeysOf(handed) THEN [body |-> LastSays(handed, k)] ELSE Absent
      BY DEF PoolIInv, PoolIsSerial
    <3> QED
      BY <1>9, <1>13, <3>1
  <2>2. ASSUME NEW n \in DOMAIN runs' PROVE runs'[n].ingested + runs'[n].updated = Cardinality(runs'[n].keys)
    <3>1. CASE n \in DOMAIN runs
      <4>1. runs'[n] = runs[n]
        BY <1>1, <1>2, <3>1
      <4> QED
        BY <3>1, <4>1 DEF PoolIInv, PoolIsSerial
    <3>2. CASE n \notin DOMAIN runs
      <4>1. n = Len(runs) + 1
        BY <1>1, <1>2, <3>2
      <4>2. runs'[n] = [keys |-> K, ingested |-> Cardinality(w.ingested), updated |-> Cardinality(w.updated)]
        BY <1>1, <1>2, <4>1
      <4>3. /\ runs'[n].keys = K /\ runs'[n].ingested = Cardinality(w.ingested)
            /\ runs'[n].updated = Cardinality(w.updated)
        BY <4>2
      <4> QED
        BY <1>12, <4>3
    <3> QED
      BY <3>1, <3>2
  <2>3. added' = Cardinality(Rows')
    BY <1>1, <1>18 DEF PoolIInv, PoolIsSerial, Rows
  <2> QED
    BY <2>1, <2>2, <2>3 DEF PoolIsSerial, Rows
<1> QED
  BY <1>14, <1>15, <1>16, <1>18, <1>19 DEF PoolIInv, BatchesKnown

LEMMA PoolStepIInv == PoolIInv /\ [PoolNext]_poolVars => PoolIInv'
<1> SUFFICES ASSUME PoolIInv, [PoolNext]_poolVars PROVE PoolIInv'
  OBVIOUS
<1>1. ASSUME NEW c \in Collectors, NEW raw \in BoundedSeq(Tender, MaxLen), Ingest(c, raw) PROVE PoolIInv'
  <2>1. raw \in Seq(Tender)
    BY PoolBoundsAssumption DEF BoundedSeq, SeqOf
  <2> QED
    BY <1>1, <2>1, BatchKeepsIInv
<1>2. CASE UNCHANGED poolVars
  BY <1>2 DEF poolVars, PoolIInv, PoolTypeOK, BatchesKnown, BatchKnown, WrittenApart, Written, Rows, PoolIsSerial
<1> QED
  BY <1>1, <1>2, RowKeepsIInv, CommittedBatchKeepsIInv, LostBatchKeepsIInv DEF PoolNext

\* The rows of the pool, the open batches and the recorded runs are of their types.
THEOREM PoolTypeCorrect == PoolSpec => []PoolTypeOK
<1>1. PoolIInv => PoolTypeOK
  BY DEF PoolIInv
<1> QED
  BY <1>1, PoolInitIInv, PoolStepIInv, PTL DEF PoolSpec

\* Ingest, for any batches of any collectors that overlap, wait for each other's rows or
\* are lost: the pool is that of the recorded runs one after the other, and every run
\* counts its tenders as what they were to the pool.
THEOREM PoolStaysSerial == PoolSpec => []PoolIsSerial
<1>1. PoolIInv => PoolIsSerial
  BY DEF PoolIInv
<1> QED
  BY <1>1, PoolInitIInv, PoolStepIInv, PTL DEF PoolSpec

-----------------------------------------------------------------------------
\* A step of Office is a step of the part at desk and no step of the others.
LEMMA DeskStep ==
  ASSUME [OfficeNext]_officeVars
  PROVE  /\ [ApprovalNext \/ TeamDesk]_approvalVars /\ [ProjectNext]_projectVars /\ [TendersNext]_tendersVars
         /\ [PoolNext]_poolVars /\ [ToolNext]_toolVars /\ [QualNext]_qualVars
         /\ [ComplianceNext]_complianceVars /\ [RouterNext]_routerVars /\ [BrowserNext]_browserVars
         /\ [TeamNext]_teamVars
BY ApprovalKeepsTeam DEF OfficeNext, officeVars, TeamDesk, ApprovalDesk, ProjectDesk, TendersDesk, PoolDesk, ToolDesk, QualDesk,
       ComplianceDesk, RouterDesk, BrowserDesk, approvalVars

\* Office implements the specifications of its independent parts, so whatever is proved
\* of one of them is true of Office.
THEOREM OfficeFollowsParts ==
    OfficeSpec => /\ TeamSpec /\ ProjectSpec /\ TendersSpec /\ PoolSpec /\ ToolSpec /\ QualSpec
                  /\ ComplianceSpec /\ RouterSpec /\ BrowserSpec
<1>1. OfficeInit => /\ TeamInit /\ ProjectInit /\ TendersInit /\ PoolInit /\ ToolInit /\ QualInit /\ ComplianceInit
                    /\ RouterInit /\ BrowserInit
  BY DEF OfficeInit, ApprovalInit
<1> QED
  BY <1>1, DeskStep, PTL DEF OfficeSpec, TeamSpec, ProjectSpec, TendersSpec, PoolSpec, ToolSpec, QualSpec, ComplianceSpec,
                             RouterSpec, BrowserSpec

\* The approvals share the rows of the team, which at its own desk change without them:
\* what is invariant of the approvals is so under either desk.
LEMMA BesideTeamIInv == ApprovalIInv /\ [ApprovalNext \/ TeamDesk]_approvalVars => ApprovalIInv'
<1> SUFFICES ASSUME ApprovalIInv, TeamDesk PROVE ApprovalIInv'
  BY ApprovalStepIInv
<1>1. TeamIInv'
  BY TeamStepIInv DEF TeamDesk, ApprovalIInv
<1> QED
  BY <1>1, SameInstance DEF TeamDesk, TeamIInv, ApprovalIInv, ApprovalTypeOK

\* Whatever happens at the desk of the team meanwhile, a bid is approved by every step.
THEOREM OfficeApprovesByEveryStep == OfficeSpec => []ApprovedByEveryStep
<1>1. OfficeInit => ApprovalInit
  BY DEF OfficeInit
<1> QED
  BY <1>1, DeskStep, KnownIsDecided, ApprovalInitIInv, BesideTeamIInv, PTL DEF OfficeSpec

\* What is proved of a part, of Office: what no request served at the same time undoes,
THEOREM OfficeKeepsVerdictsAndFacts ==
    OfficeSpec => [](VerdictKept /\ RankMatchesLevel /\ FactsNotWaived /\ GateFollowsCheck /\ SessionOfLastLogin
                     /\ TenantHasAdmin /\ OwnerRemains /\ QuotaBounded /\ TriedAsAllowed
                     /\ TenderSourceExists /\ OverspendBounded /\ PoolIsSerial)
BY OfficeFollowsParts, VerdictIsKept, RankIsOfLevel, FactsAreNotWaived, GateIsNoBetter,
   SessionIsOfLastLogin, TenantKeepsAdmin, ProjectKeepsOwner, QuotaIsBounded, OnlyAllowedAreTried,
   TendersHaveTheirSource, OverspendIsBounded, PoolStaysSerial, PTL

\* and what no later step takes back.
THEOREM OfficeTakesNothingBack == OfficeSpec => LogoutIsFinal /\ AdviceAnsweredOnce /\ OnlyNamedChange
BY OfficeFollowsParts, LogoutStaysFinal, AdviceGivenOnce, PatchesAreKept, PTL
=============================================================================
