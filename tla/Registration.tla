---------------------------- MODULE Registration ----------------------------
(***************************************************************************)
(* Signing in and registering for alerts, as the pages of app/static drive *)
(* it through the API: the OAuth round trip of app/api/routes/auth.py, the *)
(* submit handler of app.js (a person, a region, a subscription, a device  *)
(* token, one request after the other) and the get-or-create functions of  *)
(* app/crud.py behind the requests.                                        *)
(*                                                                         *)
(* A tab makes one request at a time.  The tabs of a browser share its     *)
(* local storage (jwt), its cookies and its FCM token.  A handler that     *)
(* selects and then inserts does so in two steps; a unique index makes the *)
(* loser of a race answer 500, and persons have no such index.             *)
(***************************************************************************)
EXTENDS Naturals, FiniteSets

CONSTANTS
  Browsers, Tabs, BrowserOf,
  Accounts, NoUser,
  MayLogin,      \* the accounts used in a browser
  Forms,         \* what may be submitted in a tab: [label, region]
  FirstOwner,    \* whose token a browser's is when the behaviour starts
  PersonLimit,   \* users.person_limit
  MaxFailures    \* bound: failed requests, lost tokens and logouts

Labels == UNION {{f.label : f \in Forms[t]} : t \in Tabs}
Regions == UNION {{f.region : f \in Forms[t]} : t \in Tabs}

ASSUME RegistrationAssumption ==
  /\ BrowserOf \in [Tabs -> Browsers]
  /\ NoUser \notin Accounts
  /\ MayLogin \in [Browsers -> SUBSET Accounts]
  /\ \A t \in Tabs : \A f \in Forms[t] : DOMAIN f = {"label", "region"}
  /\ FirstOwner \in [Browsers -> Accounts \cup {NoUser}]
  /\ PersonLimit \in Nat /\ MaxFailures \in Nat

VARIABLES
  users, persons, subscriptions, deviceTokens,   \* the tables
  jwt, cookie,          \* a browser's login, and the tab its oauth_state is of
  pc, form, person,     \* a tab's page or request, what it submits, its person
  as,                   \* the user a request was authorised as
  listed, counted,      \* the user's persons a tab was told of, a handler counted
  registered, refused,  \* history: tabs told of success, tabs at the limit
  outlisted, overtaken, \* history: inserts after an outdated list, count
  failures              \* history: failures so far

tables == <<users, persons, subscriptions, deviceTokens>>
login == <<jwt, cookie>>
local == <<form, person, as, listed, counted>>
history == <<registered, refused, outlisted, overtaken, failures>>
vars == <<tables, login, pc, local, history>>

NoTab == "none"

Init ==
  /\ users = {FirstOwner[b] : b \in Browsers} \ {NoUser}
  /\ persons = {} /\ subscriptions = {}
  /\ deviceTokens = FirstOwner
  /\ jwt = [b \in Browsers |-> NoUser]
  /\ cookie = [b \in Browsers |-> NoTab]
  /\ pc = [t \in Tabs |-> "login"]
  /\ form = [t \in Tabs |-> {}] /\ person = [t \in Tabs |-> {}]
  /\ as = [t \in Tabs |-> NoUser]
  /\ listed = [t \in Tabs |-> 0] /\ counted = [t \in Tabs |-> 0]
  /\ registered = {} /\ refused = {} /\ outlisted = 0 /\ overtaken = 0 /\ failures = 0

Goto(t, label) == pc' = [pc EXCEPT ![t] = label]

\* The handlers of a tab's page are over, and their variables gone.
Leave(t, label) ==
  /\ Goto(t, label)
  /\ form' = [form EXCEPT ![t] = {}] /\ person' = [person EXCEPT ![t] = {}]
  /\ as' = [as EXCEPT ![t] = NoUser]
  /\ listed' = [listed EXCEPT ![t] = 0] /\ counted' = [counted EXCEPT ![t] = 0]

User(t) == jwt[BrowserOf[t]]
PersonsOf(u) == {p \in persons : p.user = u}
Calling == {"persons", "count", "region", "select_sub", "select_token"}
Inserting == {"insert_person", "insert_sub", "backfill", "insert_token"}

(***************************************************************************)
(* Signing in.                                                             *)
(***************************************************************************)
\* /auth/{google,kakao}/login: a fresh state, its cookie replaces another's.
StartLogin(t) ==
  /\ pc[t] = "login" /\ User(t) = NoUser
  /\ Goto(t, "away")
  /\ cookie' = [cookie EXCEPT ![BrowserOf[t]] = t]
  /\ UNCHANGED <<tables, jwt, local, history>>

\* The page at /app finds a jwt.
OpenApp(t) ==
  /\ pc[t] = "login" /\ User(t) # NoUser
  /\ Goto(t, "ready")
  /\ UNCHANGED <<tables, login, local, history>>

LoginSuccess(t, u) ==
  /\ jwt' = [jwt EXCEPT ![BrowserOf[t]] = u]
  /\ cookie' = [cookie EXCEPT ![BrowserOf[t]] = NoTab]
  /\ Leave(t, "ready")

\* The callback: 400 unless the state is the cookie's; then the select of
\* get_or_create_social_user.
StateMatches(t) == cookie[BrowserOf[t]] = t

CallbackRefused(t) ==
  /\ pc[t] = "away" /\ ~StateMatches(t)
  /\ Goto(t, "login")
  /\ UNCHANGED <<tables, login, local, history>>

Callback(t) ==
  /\ pc[t] = "away" /\ StateMatches(t)
  /\ \E u \in MayLogin[BrowserOf[t]] :
       \/ u \in users /\ LoginSuccess(t, u)
       \/ /\ u \notin users
          /\ as' = [as EXCEPT ![t] = u]
          /\ Goto(t, "insert_user")
          /\ UNCHANGED <<login, form, person, listed, counted>>
  /\ UNCHANGED <<tables, history>>

InsertUser(t) ==
  /\ pc[t] = "insert_user"
  /\ IF as[t] \in users
       THEN Leave(t, "login") /\ UNCHANGED <<users, login>>
       ELSE users' = users \cup {as[t]} /\ LoginSuccess(t, as[t])
  /\ UNCHANGED <<persons, subscriptions, deviceTokens, history>>

\* The user logs out, or the token's 30 days are over.
Logout(b) ==
  /\ jwt[b] # NoUser /\ failures < MaxFailures
  /\ jwt' = [jwt EXCEPT ![b] = NoUser]
  /\ failures' = failures + 1
  /\ UNCHANGED <<tables, cookie, pc, local, registered, refused,
                 outlisted, overtaken>>

(***************************************************************************)
(* The submit handler.  Push permission and the FCM token come first.  A   *)
(* tab is submitted until it is answered (a bound).                        *)
(***************************************************************************)
Submit(t) ==
  /\ pc[t] = "ready" /\ t \notin registered \cup refused
  /\ \E f \in Forms[t] : form' = [form EXCEPT ![t] = {f}]
  /\ Goto(t, "persons")
  /\ UNCHANGED <<tables, login, person, as, listed, counted, history>>

\* The tab remembers the person it found or created.  PersonNotKept: it does not.
PersonNotKept(t, rows) == UNCHANGED person
UsePerson(t, rows) == person' = [person EXCEPT ![t] = rows]

\* GET /persons: a person with the same label is reused.  NeverSame: none is.
NeverSame(t) == {}
SameLabel(t) == {p \in PersonsOf(User(t)) : \E f \in form[t] : p.label = f.label}

FindPerson(t) ==
  /\ pc[t] = "persons" /\ User(t) # NoUser
  /\ \/ SameLabel(t) = {} /\ Goto(t, "count") /\ UNCHANGED person
     \/ \E p \in SameLabel(t) : UsePerson(t, {p}) /\ Goto(t, "region")
  /\ listed' = [listed EXCEPT ![t] = Cardinality(PersonsOf(User(t)))]
  /\ UNCHANGED <<tables, login, form, as, counted, history>>

\* POST /persons: the limit (409), then the insert.  PastLimit: one too late.
PastLimit(u) == Cardinality(PersonsOf(u)) > PersonLimit
AtLimit(u) == Cardinality(PersonsOf(u)) >= PersonLimit

CountPersons(t) ==
  /\ pc[t] = "count" /\ User(t) # NoUser
  /\ IF AtLimit(User(t))
       THEN Leave(t, "ready") /\ refused' = refused \cup {t}
       ELSE /\ as' = [as EXCEPT ![t] = User(t)]
            /\ counted' = [counted EXCEPT ![t] = Cardinality(PersonsOf(User(t)))]
            /\ Goto(t, "insert_person")
            /\ UNCHANGED <<form, person, listed, refused>>
  /\ UNCHANGED <<tables, login, registered, outlisted, overtaken, failures>>

Outdated(n, u) == IF n = Cardinality(PersonsOf(u)) THEN 0 ELSE 1

InsertPerson(t) ==
  /\ pc[t] = "insert_person"
  /\ LET rows == {[user |-> as[t], label |-> f.label, n |-> Cardinality(persons)] :
                    f \in form[t]}
     IN  persons' = persons \cup rows /\ UsePerson(t, rows)
  /\ outlisted' = outlisted + Outdated(listed[t], as[t])
  /\ overtaken' = overtaken + Outdated(counted[t], as[t])
  /\ Goto(t, "region")
  /\ UNCHANGED <<users, subscriptions, deviceTokens, login, form, as, listed,
                 counted, registered, refused, failures>>

\* POST /regions (module AlertPipeline).
ResolveRegion(t) ==
  /\ pc[t] = "region" /\ User(t) # NoUser
  /\ Goto(t, "select_sub")
  /\ UNCHANGED <<tables, login, local, history>>

\* POST /subscriptions: a row for the person and the region is returned, or
\* inserted; then the backfill (module AlertPipeline).  AlwaysInsert: without
\* the look for the row.  NoConflict: without uq_subscription_person_region.
Wanted(t) == {<<p, f.region>> : p \in person[t], f \in form[t]}
Subscribed(t) == \E s \in subscriptions : <<s.person, s.region>> \in Wanted(t)

AlwaysInsert(t) == "insert_sub"
AfterSelect(t) == IF Subscribed(t) THEN "backfill" ELSE "insert_sub"

SelectSubscription(t) ==
  /\ pc[t] = "select_sub" /\ User(t) # NoUser
  /\ as' = [as EXCEPT ![t] = User(t)]
  /\ Goto(t, AfterSelect(t))
  /\ UNCHANGED <<tables, login, form, person, listed, counted, history>>

NoConflict(t) == FALSE
Conflict(t) == Subscribed(t)

InsertSubscription(t) ==
  /\ pc[t] = "insert_sub"
  /\ IF Conflict(t)
       THEN Leave(t, "ready") /\ UNCHANGED subscriptions
       ELSE /\ Goto(t, "backfill")
            /\ subscriptions' = subscriptions \cup
                 {[user |-> as[t], person |-> w[1], region |-> w[2],
                   n |-> Cardinality(subscriptions)] : w \in Wanted(t)}
            /\ UNCHANGED local
  /\ UNCHANGED <<users, persons, deviceTokens, login, history>>

Backfill(t) ==
  /\ pc[t] = "backfill"
  /\ Goto(t, "select_token")
  /\ UNCHANGED <<tables, login, local, history>>

(***************************************************************************)
(* POST /device-tokens, at the end of the form and when a page is opened.  *)
(***************************************************************************)
SyncToken(t) ==
  /\ pc[t] = "ready"
  /\ Goto(t, "select_token")
  /\ UNCHANGED <<tables, login, local, history>>

\* The token's row is u's; the form tells its tab of the success.
\* TokenOfFirst: a row that exists stays with its user.
TokenOfFirst(t, u) ==
  /\ deviceTokens' =
       [deviceTokens EXCEPT ![BrowserOf[t]] = IF @ = NoUser THEN u ELSE @]
  /\ registered' = IF form[t] = {} THEN registered ELSE registered \cup {t}
  /\ Leave(t, "ready")

TokenStored(t, u) ==
  /\ deviceTokens' = [deviceTokens EXCEPT ![BrowserOf[t]] = u]
  /\ registered' = IF form[t] = {} THEN registered ELSE registered \cup {t}
  /\ Leave(t, "ready")

SelectToken(t) ==
  /\ pc[t] = "select_token" /\ User(t) # NoUser
  /\ IF deviceTokens[BrowserOf[t]] # NoUser
       THEN TokenStored(t, User(t))
       ELSE /\ as' = [as EXCEPT ![t] = User(t)]
            /\ Goto(t, "insert_token")
            /\ UNCHANGED <<deviceTokens, registered, form, person, listed, counted>>
  /\ UNCHANGED <<users, persons, subscriptions, login, refused, outlisted,
                 overtaken, failures>>

InsertToken(t) ==
  /\ pc[t] = "insert_token"
  /\ IF deviceTokens[BrowserOf[t]] # NoUser
       THEN Leave(t, "ready") /\ UNCHANGED <<deviceTokens, registered>>
       ELSE TokenStored(t, as[t])
  /\ UNCHANGED <<users, persons, subscriptions, login, refused, outlisted,
                 overtaken, failures>>

\* The dispatcher deletes the browser's dead token (module Dispatch).
LoseToken(b) ==
  /\ deviceTokens[b] # NoUser /\ failures < MaxFailures
  /\ deviceTokens' = [deviceTokens EXCEPT ![b] = NoUser]
  /\ failures' = failures + 1
  /\ UNCHANGED <<users, persons, subscriptions, login, pc, local, registered,
                 refused, outlisted, overtaken>>

(***************************************************************************)
(* Requests that fail.                                                     *)
(***************************************************************************)
\* 401: the page goes to /login.
Unauthorised(t) ==
  /\ pc[t] \in Calling /\ User(t) = NoUser
  /\ Leave(t, "login")
  /\ UNCHANGED <<tables, login, history>>

\* Any other failure, before or after the handler's commit; or the tab's user
\* cancels the login.
RequestFails(t) ==
  /\ failures < MaxFailures
  /\ failures' = failures + 1
  /\ \/ pc[t] \in Calling \cup Inserting /\ Leave(t, "ready")
     \/ pc[t] \in {"away", "insert_user"} /\ Leave(t, "login")
  /\ UNCHANGED <<tables, login, registered, refused, outlisted, overtaken>>

LoginStep(t) ==
  \/ StartLogin(t) \/ OpenApp(t) \/ CallbackRefused(t) \/ InsertUser(t)
FormStep(t) ==
  \/ FindPerson(t) \/ CountPersons(t) \/ InsertPerson(t) \/ ResolveRegion(t)
  \/ SelectSubscription(t) \/ InsertSubscription(t) \/ Backfill(t)
  \/ SelectToken(t) \/ InsertToken(t) \/ Unauthorised(t)

Next ==
  \/ \E t \in Tabs : LoginStep(t) \/ Callback(t) \/ Submit(t) \/ SyncToken(t)
                       \/ FormStep(t) \/ RequestFails(t)
  \/ \E b \in Browsers : Logout(b) \/ LoseToken(b)

Spec == Init /\ [][Next]_vars

\* Users sign in until it works and submit until they are answered; a request
\* that was sent is served.
FairSpec ==
  /\ Spec
  /\ \A t \in Tabs : WF_vars(LoginStep(t)) /\ WF_vars(FormStep(t))
                       /\ SF_vars(Callback(t)) /\ SF_vars(Submit(t))

(***************************************************************************)
(* Properties.                                                             *)
(***************************************************************************)
PersonRows == [user : Accounts, label : Labels, n : Nat]

TableTypes ==
  /\ users \subseteq Accounts /\ persons \subseteq PersonRows
  /\ subscriptions \subseteq
       [user : Accounts, person : persons, region : Regions, n : Nat]
  /\ deviceTokens \in [Browsers -> users \cup {NoUser}]

LoginTypes ==
  /\ jwt \in [Browsers -> users \cup {NoUser}]
  /\ cookie \in [Browsers -> Tabs \cup {NoTab}]

TabTypes ==
  /\ pc \in [Tabs -> Calling \cup Inserting \cup {"login", "away", "insert_user", "ready"}]
  /\ form \in [Tabs -> SUBSET UNION {Forms[t] : t \in Tabs}]
  /\ person \in [Tabs -> SUBSET persons]
  /\ as \in [Tabs -> Accounts \cup {NoUser}]
  /\ listed \in [Tabs -> Nat] /\ counted \in [Tabs -> Nat]

HistoryTypes ==
  /\ registered \subseteq Tabs /\ refused \subseteq Tabs
  /\ outlisted \in Nat /\ overtaken \in Nat /\ failures \in 0..MaxFailures

\* The tables and the tabs hold what they should, a request that inserts has
\* been authorised, and one that subscribes has a person.
TypeOK ==
  /\ TableTypes /\ LoginTypes /\ TabTypes /\ HistoryTypes
  /\ \A t \in Tabs : pc[t] \in Inserting => as[t] \in Accounts
  /\ \A t \in Tabs : pc[t] \in {"region", "select_sub", "insert_sub"} => person[t] # {}

\* Two tabs, retries and lost answers never store one subscription twice.
OneSubscription ==
  \A s, r \in subscriptions : s.person = r.person /\ s.region = r.region => s = r

\* A user has more persons than the limit only by creations that overlapped:
\* whatever fails, is retried or comes from other tabs, one outdated count
\* lets one row too many in.
LimitKept == \A u \in Accounts : Cardinality(PersonsOf(u)) <= PersonLimit + overtaken

\* A label is stored twice for a user only when another tab created a
\* person since this tab's list: a submission that is retried after any partial
\* failure reuses its person.
RetryReuses ==
  \A u \in Accounts, l \in Labels :
    Cardinality({p \in PersonsOf(u) : p.label = l}) <= 1 + outlisted

\* When a tab is told that it is registered, the subscription it asked for is
\* stored and its user can be reached on this browser.
DoneIsReachable ==
  [][\A t \in registered' \ registered :
       \E s \in subscriptions :
         <<s.person, s.region>> \in Wanted(t) /\ deviceTokens'[BrowserOf[t]] = s.user]_vars

\* Every tab is answered in the end, by success or by the limit: no failure,
\* race or expired login leaves a registration that cannot be completed.
EventuallyAnswered == \A t \in Tabs : <>(t \in registered \cup refused)

\* A user never has more persons than the limit.
LimitNeverExceeded == \A u \in Accounts : Cardinality(PersonsOf(u)) <= PersonLimit
=============================================================================
