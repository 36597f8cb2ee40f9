------------------------- MODULE RegistrationProofs -------------------------
(***************************************************************************)
(* Proofs about app/crud.py: about Registration, for any number of         *)
(* browsers, tabs, accounts and persons, and about RegionNames, for names  *)
(* of any length and any sido.                                             *)
(***************************************************************************)
EXTENDS Registration, RegionNames, FiniteSetTheorems, TLAPS

(***************************************************************************)
(* The tabs: a tab submits one form for one person, has a form from the    *)
(* first request to the last, and inserts for a user who is stored.        *)
(***************************************************************************)
AtMostOne(S) == S = {} \/ \E x : S = {x}

Forming ==
  {"persons", "count", "insert_person", "region", "select_sub", "insert_sub",
   "backfill"}

TabsHold ==
  /\ \A t \in Tabs : AtMostOne(form[t]) /\ AtMostOne(person[t])
  /\ \A t \in Tabs : pc[t] \in Forming => form[t] # {}
  /\ \A t \in Tabs : pc[t] \in Inserting => as[t] \in users
  /\ \A t \in Tabs : pc[t] = "insert_user" => as[t] \in Accounts

\* The tables are finite, and a person's number tells it from all others.
FiniteTables ==
  /\ IsFiniteSet(persons) /\ IsFiniteSet(subscriptions)
  /\ \A p \in persons : p.n < Cardinality(persons)

RowsInv == TypeOK /\ TabsHold /\ FiniteTables

LEMMA RowsInit == Init => RowsInv
BY RegistrationAssumption, FS_EmptySet
  DEF Init, RowsInv, TypeOK, TableTypes, LoginTypes, TabTypes, HistoryTypes, TabsHold,
      FiniteTables, AtMostOne, Calling, Inserting, Forming, NoTab, PersonRows

\* Adding at most one row to a finite table.
LEMMA OneMore ==
  ASSUME NEW S, NEW T, IsFiniteSet(S), AtMostOne(T)
  PROVE  /\ IsFiniteSet(S \cup T)
         /\ Cardinality(S) \in Nat /\ Cardinality(S \cup T) \in Nat
         /\ Cardinality(S \cup T) >= Cardinality(S)
         /\ Cardinality(S \cup T) <= Cardinality(S) + 1
         /\ T # {} /\ S \cap T = {} => Cardinality(S \cup T) = Cardinality(S) + 1
<1>1. Cardinality(S) \in Nat
  BY FS_CardinalityType
<1>2. CASE T = {}
  <2>1. S \cup T = S
    BY <1>2
  <2> QED
    BY <1>1, <1>2, <2>1
<1>3. CASE \E x : T = {x}
  <2>1. PICK x : T = {x}
    BY <1>3
  <2>2. /\ IsFiniteSet(S \cup {x})
        /\ Cardinality(S \cup {x}) = IF x \in S THEN Cardinality(S) ELSE Cardinality(S) + 1
    BY FS_AddElement
  <2> QED
    BY <1>1, <2>1, <2>2
<1> QED
  BY <1>2, <1>3 DEF AtMostOne

\* What is submitted has a label and a region.
LEMMA FormTypes ==
  ASSUME TabTypes, NEW t \in Tabs, NEW f \in form[t]
  PROVE  f.label \in Labels /\ f.region \in Regions
<1>1. PICK u \in Tabs : f \in Forms[u]
  BY DEF TabTypes
<1>2. f.label \in {g.label : g \in Forms[u]} /\ f.region \in {g.region : g \in Forms[u]}
  BY <1>1
<1> QED
  BY <1>2, Zenon DEF Labels, Regions

\* The pairs a tab wants to be subscribed are one, of its person and its form.
LEMMA WantedIsOne ==
  ASSUME RowsInv, NEW t \in Tabs
  PROVE  /\ AtMostOne(Wanted(t))
         /\ \A w \in Wanted(t) : w[1] \in person[t] /\ w[1] \in persons /\ w[2] \in Regions
<1>1. AtMostOne(form[t]) /\ AtMostOne(person[t]) /\ person[t] \subseteq persons
  BY DEF RowsInv, TabsHold, TypeOK, TabTypes
<1>2. AtMostOne(Wanted(t))
  <2>1. CASE form[t] = {} \/ person[t] = {}
    BY <2>1 DEF Wanted, AtMostOne
  <2>2. ASSUME NEW f, NEW p, form[t] = {f}, person[t] = {p}
        PROVE  Wanted(t) = {<<p, f.region>>}
    BY <2>2 DEF Wanted
  <2> QED
    BY <1>1, <2>1, <2>2, Zenon DEF AtMostOne
<1>3. ASSUME NEW w \in Wanted(t)
      PROVE  w[1] \in person[t] /\ w[1] \in persons /\ w[2] \in Regions
  <2>1. PICK p \in person[t], f \in form[t] : w = <<p, f.region>>
    BY DEF Wanted
  <2>2. f.region \in Regions
    BY FormTypes DEF RowsInv, TypeOK
  <2> QED
    BY <1>1, <2>1, <2>2
<1> QED
  BY <1>2, <1>3

\* The row InsertPerson adds: one, and new.
NewPersons(t) ==
  {[user |-> as[t], label |-> f.label, n |-> Cardinality(persons)] : f \in form[t]}

LEMMA PersonInserted ==
  ASSUME RowsInv, NEW t \in Tabs, InsertPerson(t)
  PROVE  /\ persons' = persons \cup NewPersons(t)
         /\ person' = [person EXCEPT ![t] = NewPersons(t)]
         /\ AtMostOne(NewPersons(t)) /\ NewPersons(t) # {}
         /\ NewPersons(t) \subseteq PersonRows
         /\ persons \cap NewPersons(t) = {}
         /\ \A p \in NewPersons(t) :
              /\ p.user = as[t] /\ p.n = Cardinality(persons)
              /\ \E f \in form[t] : p.label = f.label
<1>1. /\ persons' = persons \cup NewPersons(t)
      /\ person' = [person EXCEPT ![t] = NewPersons(t)]
  BY DEF InsertPerson, UsePerson, NewPersons
<1>2. AtMostOne(form[t]) /\ form[t] # {} /\ as[t] \in users
  BY DEF RowsInv, TabsHold, InsertPerson, Forming, Inserting
<1>3. as[t] \in Accounts /\ \A f \in form[t] : f.label \in Labels
  BY <1>2, FormTypes DEF RowsInv, TypeOK, TableTypes
<1>4. Cardinality(persons) \in Nat
  BY FS_CardinalityType DEF RowsInv, FiniteTables
<1>5. \A p \in persons : p.n \in Nat /\ p.n < Cardinality(persons)
  BY DEF RowsInv, FiniteTables, TypeOK, TableTypes, PersonRows
<1>6. ASSUME NEW p \in NewPersons(t)
      PROVE  /\ p \in PersonRows /\ p \notin persons
             /\ p.user = as[t] /\ p.n = Cardinality(persons)
             /\ \E f \in form[t] : p.label = f.label
  <2>1. PICK f \in form[t] :
          p = [user |-> as[t], label |-> f.label, n |-> Cardinality(persons)]
    BY DEF NewPersons
  <2>2. p.n = Cardinality(persons) /\ f.label \in Labels
    BY <1>3, <2>1
  <2>3. p \in PersonRows
    BY <1>3, <1>4, <2>1, <2>2 DEF PersonRows
  <2> QED
    BY <1>4, <1>5, <2>1, <2>2, <2>3
<1>7. AtMostOne(NewPersons(t)) /\ NewPersons(t) # {}
  <2>1. PICK f : form[t] = {f}
    BY <1>2 DEF AtMostOne
  <2>2. NewPersons(t) = {[user |-> as[t], label |-> f.label, n |-> Cardinality(persons)]}
    BY <2>1 DEF NewPersons
  <2> QED
    BY <2>2 DEF AtMostOne
<1> QED
  BY <1>1, <1>6, <1>7

\* The row InsertSubscription adds: one, of a person and a region that are stored.
NewSubscriptions(t) ==
  {[user |-> as[t], person |-> w[1], region |-> w[2], n |-> Cardinality(subscriptions)] :
     w \in Wanted(t)}

LEMMA SubscriptionInserted ==
  ASSUME RowsInv, NEW t \in Tabs, InsertSubscription(t), ~Subscribed(t)
  PROVE  /\ subscriptions' = subscriptions \cup NewSubscriptions(t)
         /\ AtMostOne(NewSubscriptions(t))
         /\ NewSubscriptions(t) \subseteq
              [user : Accounts, person : persons, region : Regions, n : Nat]
<1>1. subscriptions' = subscriptions \cup NewSubscriptions(t)
  BY DEF InsertSubscription, Conflict, NewSubscriptions
<1>2. Cardinality(subscriptions) \in Nat /\ as[t] \in Accounts
  BY FS_CardinalityType DEF RowsInv, FiniteTables, TypeOK, InsertSubscription, Inserting
<1>3. NewSubscriptions(t) \subseteq
        [user : Accounts, person : persons, region : Regions, n : Nat]
  <2>1. ASSUME NEW w \in Wanted(t)
        PROVE  [user |-> as[t], person |-> w[1], region |-> w[2],
                n |-> Cardinality(subscriptions)]
                 \in [user : Accounts, person : persons, region : Regions, n : Nat]
    BY <1>2, WantedIsOne
  <2> QED
    BY <2>1, Zenon DEF NewSubscriptions
<1>4. CASE Wanted(t) = {}
  BY <1>1, <1>3, <1>4 DEF NewSubscriptions, AtMostOne
<1>5. CASE \E w : Wanted(t) = {w}
  <2>1. PICK w : Wanted(t) = {w}
    BY <1>5
  <2>2. NewSubscriptions(t) =
          {[user |-> as[t], person |-> w[1], region |-> w[2],
            n |-> Cardinality(subscriptions)]}
    BY <2>1 DEF NewSubscriptions
  <2> QED
    BY <1>1, <1>3, <2>2 DEF AtMostOne
<1> QED
  BY <1>4, <1>5, WantedIsOne DEF AtMostOne

\* What a step does to the tables.
LEMMA TablesGrow ==
  ASSUME RowsInv, [Next]_vars
  PROVE  /\ users \subseteq users'
         /\ persons' = persons \/ \E t \in Tabs : InsertPerson(t)
         /\ \/ subscriptions' = subscriptions
            \/ \E t \in Tabs : InsertSubscription(t) /\ ~Subscribed(t)
<1> USE DEF vars, tables
<1>1. CASE \E t \in Tabs : LoginStep(t) \/ Callback(t) \/ Submit(t) \/ SyncToken(t)
  BY <1>1 DEF LoginStep, StartLogin, OpenApp, CallbackRefused, InsertUser, Callback,
              Submit, SyncToken
<1>2. CASE \E t \in Tabs : FormStep(t) \/ RequestFails(t)
  BY <1>2 DEF FormStep, FindPerson, CountPersons, InsertPerson, ResolveRegion,
              SelectSubscription, InsertSubscription, Conflict, Backfill, SelectToken,
              InsertToken, Unauthorised, RequestFails
<1>3. CASE \E b \in Browsers : Logout(b) \/ LoseToken(b)
  BY <1>3 DEF Logout, LoseToken
<1>4. CASE UNCHANGED vars
  BY <1>4
<1> QED
  BY <1>1, <1>2, <1>3, <1>4 DEF Next

\* The tables stay finite.
LEMMA FiniteStep == RowsInv /\ [Next]_vars => FiniteTables' /\ persons \subseteq persons'
<1> SUFFICES ASSUME RowsInv, [Next]_vars
             PROVE  FiniteTables' /\ persons \subseteq persons'
  OBVIOUS
<1>1. /\ IsFiniteSet(persons) /\ IsFiniteSet(subscriptions)
      /\ \A p \in persons : p.n < Cardinality(persons)
      /\ \A p \in persons : p.n \in Nat
  BY DEF RowsInv, FiniteTables, TypeOK, TableTypes, PersonRows
<1>2. /\ IsFiniteSet(persons') /\ persons \subseteq persons'
      /\ \A p \in persons' : p.n < Cardinality(persons')
  <2>1. CASE persons' = persons
    BY <1>1, <2>1
  <2>2. ASSUME NEW t \in Tabs, InsertPerson(t)
        PROVE  /\ IsFiniteSet(persons') /\ persons \subseteq persons'
               /\ \A p \in persons' : p.n < Cardinality(persons')
    <3>1. /\ persons' = persons \cup NewPersons(t)
          /\ AtMostOne(NewPersons(t)) /\ NewPersons(t) # {}
          /\ persons \cap NewPersons(t) = {}
          /\ \A p \in NewPersons(t) : p.n = Cardinality(persons)
      BY <2>2, PersonInserted
    <3>2. /\ IsFiniteSet(persons') /\ Cardinality(persons) \in Nat
          /\ Cardinality(persons') = Cardinality(persons) + 1
      BY <1>1, <3>1, OneMore
    <3>3. \A p \in persons' : p.n < Cardinality(persons')
      BY <1>1, <3>1, <3>2
    <3> QED
      BY <3>1, <3>2, <3>3
  <2> QED
    BY <2>1, <2>2, TablesGrow
<1>3. IsFiniteSet(subscriptions')
  BY <1>1, TablesGrow, SubscriptionInserted, OneMore
<1> QED
  BY <1>2, <1>3 DEF FiniteTables

\* Users are accounts, and what names a user names one that is stored.
LEMMA UsersStep ==
  RowsInv /\ [Next]_vars =>
    /\ users' \subseteq Accounts /\ LoginTypes'
    /\ deviceTokens' \in [Browsers -> users' \cup {NoUser}]
<1> SUFFICES ASSUME RowsInv, [Next]_vars
             PROVE  /\ users' \subseteq Accounts /\ LoginTypes'
                    /\ deviceTokens' \in [Browsers -> users' \cup {NoUser}]
  OBVIOUS
<1> DEFINE Goal == /\ users' \subseteq Accounts /\ LoginTypes'
                   /\ deviceTokens' \in [Browsers -> users' \cup {NoUser}]
<1>0. /\ users \subseteq Accounts /\ LoginTypes
      /\ deviceTokens \in [Browsers -> users \cup {NoUser}]
      /\ BrowserOf \in [Tabs -> Browsers] /\ MayLogin \in [Browsers -> SUBSET Accounts]
  BY RegistrationAssumption DEF RowsInv, TypeOK, TableTypes
<1> USE DEF vars, tables, login, Goto, Leave, LoginTypes
<1>1. ASSUME NEW t \in Tabs, StartLogin(t) PROVE Goal
  BY <1>0, <1>1 DEF StartLogin
<1>2. ASSUME NEW t \in Tabs, Callback(t) PROVE Goal
  <2>1. PICK u \in MayLogin[BrowserOf[t]] :
          \/ u \in users /\ LoginSuccess(t, u)
          \/ UNCHANGED login
    BY <1>2 DEF Callback
  <2>2. users' = users /\ deviceTokens' = deviceTokens
    BY <1>2 DEF Callback
  <2>3. CASE u \in users /\ LoginSuccess(t, u)
    <3>1. /\ jwt' = [jwt EXCEPT ![BrowserOf[t]] = u]
          /\ cookie' = [cookie EXCEPT ![BrowserOf[t]] = NoTab]
      BY <2>3 DEF LoginSuccess
    <3> QED
      BY <1>0, <2>2, <2>3, <3>1
  <2>4. CASE UNCHANGED login
    BY <1>0, <2>2, <2>4
  <2> QED
    BY <2>1, <2>3, <2>4
<1>3. ASSUME NEW t \in Tabs, InsertUser(t) PROVE Goal
  <2>1. as[t] \in Accounts
    BY <1>3 DEF InsertUser, RowsInv, TabsHold
  <2> QED
    BY <1>0, <1>3, <2>1 DEF InsertUser, LoginSuccess
<1>4. ASSUME NEW t \in Tabs, SelectToken(t) PROVE Goal
  BY <1>0, <1>4 DEF SelectToken, TokenStored, User
<1>5. ASSUME NEW t \in Tabs, InsertToken(t) PROVE Goal
  <2>1. as[t] \in users
    BY <1>5 DEF InsertToken, RowsInv, TabsHold, Inserting
  <2> QED
    BY <1>0, <1>5, <2>1 DEF InsertToken, TokenStored
<1>6. ASSUME NEW b \in Browsers, Logout(b) \/ LoseToken(b) PROVE Goal
  BY <1>0, <1>6 DEF Logout, LoseToken
<1>7. ASSUME NEW t \in Tabs,
             \/ OpenApp(t) \/ CallbackRefused(t) \/ Submit(t) \/ SyncToken(t)
             \/ FindPerson(t) \/ CountPersons(t) \/ InsertPerson(t) \/ ResolveRegion(t)
             \/ SelectSubscription(t) \/ InsertSubscription(t) \/ Backfill(t)
             \/ Unauthorised(t) \/ RequestFails(t)
      PROVE  Goal
  BY <1>0, <1>7 DEF OpenApp, CallbackRefused, Submit, SyncToken, FindPerson, CountPersons,
    InsertPerson, ResolveRegion, SelectSubscription, InsertSubscription, Backfill,
    Unauthorised, RequestFails
<1>8. CASE UNCHANGED vars
  BY <1>0, <1>8
<1> QED
  BY <1>1, <1>2, <1>3, <1>4, <1>5, <1>6, <1>7, <1>8 DEF Next, LoginStep, FormStep

\* The tables keep their types.
LEMMA TableTypesStep == RowsInv /\ [Next]_vars => TableTypes'
<1> SUFFICES ASSUME RowsInv, [Next]_vars PROVE TableTypes'
  OBVIOUS
<1>1. persons' \subseteq PersonRows
  BY TablesGrow, PersonInserted DEF RowsInv, TypeOK, TableTypes
<1>2. subscriptions' \subseteq
        [user : Accounts, person : persons', region : Regions, n : Nat]
  <2>1. subscriptions' \subseteq
          [user : Accounts, person : persons, region : Regions, n : Nat]
    BY TablesGrow, SubscriptionInserted DEF RowsInv, TypeOK, TableTypes
  <2> QED
    BY <2>1, FiniteStep
<1> QED
  BY <1>1, <1>2, UsersStep DEF TableTypes

\* What a tab holds.
TabsInv ==
  /\ TabTypes /\ TabsHold
  /\ \A t \in Tabs : pc[t] \in {"region", "select_sub", "insert_sub"} => person[t] # {}

\* A tab that leaves its page, or goes to it, holds nothing.
LEMMA LeaveKeeps ==
  ASSUME TabsInv, users \subseteq users', persons \subseteq persons',
         NEW t \in Tabs, NEW label \in {"ready", "login"}, Leave(t, label)
  PROVE  TabsInv'
<1>1. TabTypes'
  BY DEF Leave, Goto, TabsInv, TabTypes
<1>2. ASSUME NEW u \in Tabs
      PROVE  /\ AtMostOne(form'[u]) /\ AtMostOne(person'[u])
             /\ pc'[u] \in Forming => form'[u] # {}
             /\ pc'[u] \in Inserting => as'[u] \in users'
             /\ pc'[u] = "insert_user" => as'[u] \in Accounts
             /\ pc'[u] \in {"region", "select_sub", "insert_sub"} => person'[u] # {}
  <2>1. CASE u = t
    BY <2>1 DEF Leave, Goto, TabsInv, TabTypes, Forming, Inserting, AtMostOne
  <2>2. CASE u # t
    BY <2>2 DEF Leave, Goto, TabsInv, TabTypes, TabsHold
  <2> QED
    BY <2>1, <2>2
<1> QED
  BY <1>1, <1>2 DEF TabsInv, TabsHold

LEMMA TabsStep == RowsInv /\ [Next]_vars => TabsInv'
<1> SUFFICES ASSUME RowsInv, [Next]_vars PROVE TabsInv'
  OBVIOUS
<1>0. /\ TabsInv /\ TabTypes /\ TabsHold
      /\ \A t \in Tabs : pc[t] \in {"region", "select_sub", "insert_sub"} => person[t] # {}
      /\ \A b \in Browsers : jwt[b] \in users \cup {NoUser}
      /\ users \subseteq users' /\ users \subseteq Accounts /\ persons \subseteq persons'
      /\ BrowserOf \in [Tabs -> Browsers] /\ MayLogin \in [Browsers -> SUBSET Accounts]
      /\ NoUser \notin Accounts
  BY RegistrationAssumption, TablesGrow, FiniteStep
    DEF RowsInv, TypeOK, TableTypes, LoginTypes, TabsInv
<1>a. AtMostOne({}) /\ \A x : AtMostOne({x})
  BY DEF AtMostOne
<1>l. \A t \in Tabs : Leave(t, "ready") \/ Leave(t, "login") => TabsInv'
  BY <1>0, LeaveKeeps
<1> USE DEF vars, tables, local, history, Goto, User, TabTypes, TabsHold, Calling,
            Inserting, Forming
<1>1. ASSUME NEW t \in Tabs, StartLogin(t) PROVE TabsInv'
  BY <1>0, <1>1 DEF TabsInv, StartLogin
<1>2. ASSUME NEW t \in Tabs, OpenApp(t) PROVE TabsInv'
  BY <1>0, <1>2 DEF TabsInv, OpenApp
<1>3. ASSUME NEW t \in Tabs, CallbackRefused(t) PROVE TabsInv'
  BY <1>0, <1>3 DEF TabsInv, CallbackRefused
<1>4. ASSUME NEW t \in Tabs, SyncToken(t) PROVE TabsInv'
  BY <1>0, <1>4 DEF TabsInv, SyncToken
<1>5. ASSUME NEW t \in Tabs, ResolveRegion(t) PROVE TabsInv'
  BY <1>0, <1>5 DEF TabsInv, ResolveRegion
<1>6. ASSUME NEW t \in Tabs, SelectSubscription(t) PROVE TabsInv'
  BY <1>0, <1>6 DEF TabsInv, SelectSubscription, AfterSelect
<1>7. ASSUME NEW t \in Tabs, Backfill(t) PROVE TabsInv'
  BY <1>0, <1>7 DEF TabsInv, Backfill
<1>8. ASSUME NEW t \in Tabs, Unauthorised(t) \/ RequestFails(t) PROVE TabsInv'
  BY <1>l, <1>8 DEF Unauthorised, RequestFails
<1>9. ASSUME NEW t \in Tabs, InsertUser(t) PROVE TabsInv'
  BY <1>l, <1>9 DEF InsertUser, LoginSuccess
<1>10. ASSUME NEW t \in Tabs, Callback(t) PROVE TabsInv'
  <2>1. PICK u \in MayLogin[BrowserOf[t]] :
          \/ Leave(t, "ready")
          \/ /\ as' = [as EXCEPT ![t] = u]
             /\ Goto(t, "insert_user")
             /\ UNCHANGED <<login, form, person, listed, counted>>
    BY <1>10 DEF Callback, LoginSuccess
  <2>2. u \in Accounts
    BY <1>0
  <2> QED
    <3>1. CASE Leave(t, "ready")
      BY <1>l, <3>1
    <3>2. CASE ~Leave(t, "ready")
      <4>1. /\ as' = [as EXCEPT ![t] = u]
            /\ pc' = [pc EXCEPT ![t] = "insert_user"]
            /\ UNCHANGED <<form, person, listed, counted>>
        BY <2>1, <3>2
      <4> QED
        BY <1>0, <2>2, <4>1 DEF TabsInv
    <3> QED
      BY <3>1, <3>2
<1>11. ASSUME NEW t \in Tabs, Submit(t) PROVE TabsInv'
  <2>1. PICK f \in Forms[t] : form' = [form EXCEPT ![t] = {f}]
    BY <1>11 DEF Submit
  <2>2. {f} # {} /\ {f} \subseteq UNION {Forms[u] : u \in Tabs}
    OBVIOUS
  <2> QED
    BY <1>0, <1>a, <1>11, <2>1, <2>2 DEF Submit, TabsInv
<1>12. ASSUME NEW t \in Tabs, FindPerson(t) PROVE TabsInv'
  <2>1. Cardinality(PersonsOf(User(t))) \in Nat
    BY FS_CardinalityType, FS_Subset DEF RowsInv, FiniteTables, PersonsOf
  <2>2. CASE Goto(t, "count") /\ UNCHANGED person
    BY <1>0, <1>12, <2>1, <2>2 DEF FindPerson, TabsInv
  <2>3. ASSUME NEW p \in SameLabel(t), UsePerson(t, {p}), Goto(t, "region")
        PROVE  TabsInv'
    <3>1. {p} # {} /\ {p} \subseteq persons /\ person' = [person EXCEPT ![t] = {p}]
      BY <2>3 DEF SameLabel, PersonsOf, UsePerson
    <3> QED
      BY <1>0, <1>a, <1>12, <2>1, <2>3, <3>1 DEF FindPerson, TabsInv
  <2> QED
    BY <1>12, <2>2, <2>3 DEF FindPerson
<1>13. ASSUME NEW t \in Tabs, CountPersons(t) PROVE TabsInv'
  <2>1. Cardinality(PersonsOf(User(t))) \in Nat
    BY FS_CardinalityType, FS_Subset DEF RowsInv, FiniteTables, PersonsOf
  <2>2. CASE AtLimit(User(t))
    BY <1>l, <1>13, <2>2 DEF CountPersons
  <2>3. CASE ~AtLimit(User(t))
    <3>1. /\ as' = [as EXCEPT ![t] = User(t)]
          /\ counted' = [counted EXCEPT ![t] = Cardinality(PersonsOf(User(t)))]
          /\ pc' = [pc EXCEPT ![t] = "insert_person"]
          /\ UNCHANGED <<form, person, listed>>
      BY <1>13, <2>3 DEF CountPersons
    <3>2. pc[t] = "count" /\ User(t) \in users
      BY <1>0, <1>13 DEF CountPersons
    <3> HIDE DEF User
    <3> QED
      BY <1>0, <2>1, <3>1, <3>2 DEF TabsInv
  <2> QED
    BY <2>2, <2>3
<1>14. ASSUME NEW t \in Tabs, InsertPerson(t) PROVE TabsInv'
  <2>1. /\ AtMostOne(NewPersons(t)) /\ NewPersons(t) # {}
        /\ NewPersons(t) \subseteq persons'
        /\ person' = [person EXCEPT ![t] = NewPersons(t)]
    BY <1>14, PersonInserted
  <2> QED
    BY <1>0, <1>14, <2>1 DEF InsertPerson, TabsInv
<1>15. ASSUME NEW t \in Tabs, InsertSubscription(t) PROVE TabsInv'
  <2>1. CASE Conflict(t)
    BY <1>l, <1>15, <2>1 DEF InsertSubscription
  <2>2. CASE ~Conflict(t)
    BY <1>0, <1>15, <2>2 DEF InsertSubscription, TabsInv
  <2> QED
    BY <2>1, <2>2
<1>16. ASSUME NEW t \in Tabs, SelectToken(t) PROVE TabsInv'
  <2>1. CASE deviceTokens[BrowserOf[t]] # NoUser
    BY <1>l, <1>16, <2>1 DEF SelectToken, TokenStored
  <2>2. CASE deviceTokens[BrowserOf[t]] = NoUser
    BY <1>0, <1>16, <2>2 DEF SelectToken, TabsInv
  <2> QED
    BY <2>1, <2>2
<1>17. ASSUME NEW t \in Tabs, InsertToken(t) PROVE TabsInv'
  BY <1>l, <1>17 DEF InsertToken, TokenStored
<1>18. ASSUME NEW b \in Browsers, Logout(b) \/ LoseToken(b) PROVE TabsInv'
  BY <1>0, <1>18 DEF Logout, LoseToken, TabsInv
<1>19. CASE UNCHANGED vars
  BY <1>0, <1>19 DEF TabsInv
<1> QED
  BY <1>1, <1>2, <1>3, <1>4, <1>5, <1>6, <1>7, <1>8, <1>9, <1>10, <1>11, <1>12, <1>13, <1>14, <1>15, <1>16, <1>17, <1>18, <1>19 DEF Next, LoginStep, FormStep

\* The history: an insert adds to it, a failure is counted, no step takes back.
LEMMA HistoryGrows ==
  RowsInv /\ [Next]_vars =>
    /\ HistoryTypes' /\ outlisted' >= outlisted /\ overtaken' >= overtaken
<1> SUFFICES ASSUME RowsInv, [Next]_vars
             PROVE  HistoryTypes' /\ outlisted' >= outlisted /\ overtaken' >= overtaken
  OBVIOUS
<1> DEFINE Goal == HistoryTypes' /\ outlisted' >= outlisted /\ overtaken' >= overtaken
<1>0. HistoryTypes
  BY DEF RowsInv, TypeOK
<1> USE DEF HistoryTypes, vars, history
<1>1. CASE UNCHANGED history
  BY <1>0, <1>1
<1>2. ASSUME NEW t \in Tabs, CountPersons(t) \/ InsertPerson(t) PROVE Goal
  <2>1. CASE CountPersons(t)
    <3>1. /\ outlisted' = outlisted /\ overtaken' = overtaken /\ failures' = failures
          /\ registered' = registered /\ refused' \in {refused, refused \cup {t}}
      BY <2>1 DEF CountPersons, Leave
    <3> QED
      BY <1>0, <3>1
  <2>2. CASE InsertPerson(t)
    <3>1. /\ outlisted' \in {outlisted, outlisted + 1}
          /\ overtaken' \in {overtaken, overtaken + 1}
          /\ UNCHANGED <<registered, refused, failures>>
      BY <1>0, <2>2 DEF InsertPerson, Outdated
    <3> QED
      BY <1>0, <3>1
  <2> QED
    BY <1>2, <2>1, <2>2
<1>3. ASSUME NEW t \in Tabs, SelectToken(t) \/ InsertToken(t) PROVE Goal
  <2>1. /\ outlisted' = outlisted /\ overtaken' = overtaken /\ failures' = failures
        /\ refused' = refused /\ registered' \in {registered, registered \cup {t}}
    BY <1>3 DEF SelectToken, InsertToken, TokenStored
  <2> QED
    BY <1>0, <2>1
<1>4. ASSUME NEW t \in Tabs, RequestFails(t) PROVE Goal
  BY <1>0, <1>4, RegistrationAssumption DEF RequestFails
<1>5. ASSUME NEW b \in Browsers, Logout(b) \/ LoseToken(b) PROVE Goal
  BY <1>0, <1>5, RegistrationAssumption DEF Logout, LoseToken
<1>6. ASSUME NEW t \in Tabs,
             \/ StartLogin(t) \/ OpenApp(t) \/ CallbackRefused(t) \/ Callback(t)
             \/ InsertUser(t) \/ Submit(t) \/ SyncToken(t) \/ FindPerson(t)
             \/ ResolveRegion(t) \/ SelectSubscription(t) \/ InsertSubscription(t)
             \/ Backfill(t) \/ Unauthorised(t)
      PROVE  UNCHANGED history
  BY <1>6 DEF StartLogin, OpenApp, CallbackRefused, Callback, InsertUser, Submit,
    SyncToken, FindPerson, ResolveRegion, SelectSubscription, InsertSubscription,
    Backfill, Unauthorised
<1> QED
  BY <1>1, <1>2, <1>3, <1>4, <1>5, <1>6 DEF Next, LoginStep, FormStep

\* All of the types.
LEMMA RowsStep == RowsInv /\ [Next]_vars => RowsInv'
<1> SUFFICES ASSUME RowsInv, [Next]_vars PROVE RowsInv'
  OBVIOUS
<1>2. \A t \in Tabs : pc'[t] \in Inserting => as'[t] \in Accounts
  BY TabsStep, UsersStep DEF TabsInv, TabsHold
<1> QED
  BY <1>2, HistoryGrows, TableTypesStep, UsersStep, TabsStep, FiniteStep
    DEF RowsInv, TypeOK, TabsInv

\* The types hold in every state: in particular whoever inserts a row is a
\* stored user, and whoever subscribes does it for a stored person.
THEOREM TypeCorrect == Spec => []TypeOK
<1>1. RowsInv => TypeOK
  BY DEF RowsInv
<1> QED
  BY <1>1, RowsInit, RowsStep, PTL DEF Spec

(***************************************************************************)
(* One subscription.                                                       *)
(***************************************************************************)
\* The unique index refuses the second of two rows that were both missing when
\* they were looked for.
LEMMA OneSubscriptionStep ==
  RowsInv /\ OneSubscription /\ [Next]_vars => OneSubscription'
<1> SUFFICES ASSUME RowsInv, OneSubscription, [Next]_vars PROVE OneSubscription'
  OBVIOUS
<1>1. CASE subscriptions' = subscriptions
  BY <1>1 DEF OneSubscription
<1>2. ASSUME NEW t \in Tabs, InsertSubscription(t), ~Subscribed(t)
      PROVE  OneSubscription'
  <2>1. /\ subscriptions' = subscriptions \cup NewSubscriptions(t)
        /\ AtMostOne(NewSubscriptions(t))
    BY <1>2, SubscriptionInserted
  <2>2. ASSUME NEW s \in NewSubscriptions(t), NEW r \in subscriptions
        PROVE  ~(s.person = r.person /\ s.region = r.region)
    <3>1. PICK w \in Wanted(t) : s.person = w[1] /\ s.region = w[2]
      <4>1. PICK w \in Wanted(t) :
              s = [user |-> as[t], person |-> w[1], region |-> w[2],
                   n |-> Cardinality(subscriptions)]
        BY Zenon DEF NewSubscriptions
      <4> QED
        BY <4>1
    <3>2. w = <<w[1], w[2]>>
      BY DEF Wanted
    <3> QED
      BY <1>2, <3>1, <3>2 DEF Subscribed
  <2> QED
    BY <2>1, <2>2 DEF OneSubscription, AtMostOne
<1> QED
  BY <1>1, <1>2, TablesGrow

\* Whatever tabs and retries overlap and fail, a person is subscribed to a
\* region once.
THEOREM OneSubscriptionHolds == Spec => []OneSubscription
<1>1. Init => OneSubscription
  BY DEF Init, OneSubscription
<1> QED
  BY <1>1, RowsInit, RowsStep, OneSubscriptionStep, PTL DEF Spec

(***************************************************************************)
(* The limit.                                                              *)
(***************************************************************************)
\* Who goes on to insert has counted less than the limit.
CountedBelow ==
  \A t \in Tabs : pc[t] = "insert_person" => counted[t] < PersonLimit

LEMMA CountedBelowStep ==
  RowsInv /\ CountedBelow /\ [Next]_vars => CountedBelow'
<1> SUFFICES ASSUME RowsInv, CountedBelow, [Next]_vars PROVE CountedBelow'
  OBVIOUS
<1>0. TabTypes /\ TabsHold
  BY DEF RowsInv, TypeOK
<1> USE RegistrationAssumption DEF vars, tables, local, Goto, Leave, CountedBelow, TabTypes
<1>1. ASSUME NEW t \in Tabs, CountPersons(t) PROVE CountedBelow'
  <2>1. Cardinality(PersonsOf(User(t))) \in Nat
    BY FS_CardinalityType, FS_Subset DEF RowsInv, FiniteTables, PersonsOf
  <2> QED
    <3>1. CASE AtLimit(User(t))
      BY <1>0, <1>1, <3>1 DEF CountPersons
    <3>2. CASE ~AtLimit(User(t))
      <4>1. Cardinality(PersonsOf(User(t))) < PersonLimit
        BY <2>1, <3>2 DEF AtLimit
      <4>2. /\ counted' = [counted EXCEPT ![t] = Cardinality(PersonsOf(User(t)))]
            /\ pc' = [pc EXCEPT ![t] = "insert_person"]
        BY <1>1, <3>2 DEF CountPersons
      <4> QED
        BY <1>0, <4>1, <4>2
    <3> QED
      BY <3>1, <3>2
<1>2. ASSUME NEW t \in Tabs,
             \/ StartLogin(t) \/ OpenApp(t) \/ CallbackRefused(t) \/ Submit(t)
             \/ SyncToken(t) \/ FindPerson(t) \/ ResolveRegion(t) \/ InsertPerson(t)
      PROVE  CountedBelow'
  BY <1>0, <1>2 DEF StartLogin, OpenApp, CallbackRefused, Submit, SyncToken, FindPerson,
    ResolveRegion, InsertPerson
<1>3. ASSUME NEW t \in Tabs,
             \/ SelectSubscription(t) \/ InsertSubscription(t) \/ Backfill(t)
      PROVE  CountedBelow'
  BY <1>0, <1>3 DEF SelectSubscription, AfterSelect, InsertSubscription, Backfill
<1>4. ASSUME NEW t \in Tabs, Callback(t) \/ InsertUser(t) PROVE CountedBelow'
  BY <1>0, <1>4 DEF Callback, InsertUser, LoginSuccess
<1>5. ASSUME NEW t \in Tabs, SelectToken(t) \/ InsertToken(t) PROVE CountedBelow'
  BY <1>0, <1>5 DEF SelectToken, InsertToken, TokenStored
<1>6. ASSUME NEW t \in Tabs, Unauthorised(t) \/ RequestFails(t) PROVE CountedBelow'
  BY <1>0, <1>6 DEF Unauthorised, RequestFails
<1>7. ASSUME NEW b \in Browsers, Logout(b) \/ LoseToken(b) PROVE CountedBelow'
  BY <1>7 DEF Logout, LoseToken
<1>8. CASE UNCHANGED vars
  BY <1>8
<1> QED
  BY <1>1, <1>2, <1>3, <1>4, <1>5, <1>6, <1>7, <1>8 DEF Next, LoginStep, FormStep

\* The persons of a user after an insert: one more for the user it is for.
LEMMA PersonsAfter ==
  ASSUME RowsInv, NEW t \in Tabs, InsertPerson(t), NEW u
  PROVE  /\ PersonsOf(u)' = PersonsOf(u) \cup (IF u = as[t] THEN NewPersons(t) ELSE {})
         /\ Cardinality(PersonsOf(u)) \in Nat
         /\ u = as[t] => Cardinality(PersonsOf(u)') = Cardinality(PersonsOf(u)) + 1
         /\ u # as[t] => Cardinality(PersonsOf(u)') = Cardinality(PersonsOf(u))
<1>1. /\ persons' = persons \cup NewPersons(t)
      /\ AtMostOne(NewPersons(t)) /\ NewPersons(t) # {}
      /\ persons \cap NewPersons(t) = {}
      /\ \A p \in NewPersons(t) : p.user = as[t]
  BY PersonInserted
<1>2. PersonsOf(u)' = PersonsOf(u) \cup (IF u = as[t] THEN NewPersons(t) ELSE {})
  BY <1>1 DEF PersonsOf
<1>3. IsFiniteSet(PersonsOf(u))
  BY FS_Subset DEF RowsInv, FiniteTables, PersonsOf
<1>4. CASE u = as[t]
  <2>1. PersonsOf(u) \cap NewPersons(t) = {}
    BY <1>1 DEF PersonsOf
  <2> QED
    BY <1>1, <1>2, <1>3, <1>4, <2>1, OneMore
<1>5. CASE u # as[t]
  BY <1>2, <1>3, <1>5, FS_CardinalityType
<1> QED
  BY <1>2, <1>4, <1>5

LEMMA LimitStep ==
  RowsInv /\ CountedBelow /\ LimitKept /\ [Next]_vars => LimitKept'
<1> SUFFICES ASSUME RowsInv, CountedBelow, LimitKept, [Next]_vars, NEW u \in Accounts
             PROVE  Cardinality(PersonsOf(u)') <= PersonLimit + overtaken'
  BY DEF LimitKept
<1>0. /\ Cardinality(PersonsOf(u)) <= PersonLimit + overtaken
      /\ overtaken \in Nat /\ PersonLimit \in Nat
      /\ Cardinality(PersonsOf(u)) \in Nat
  <2>1. Cardinality(PersonsOf(u)) \in Nat
    BY FS_CardinalityType, FS_Subset DEF RowsInv, FiniteTables, PersonsOf
  <2> QED
    BY <2>1, RegistrationAssumption DEF LimitKept, RowsInv, TypeOK, HistoryTypes
<1>1. ASSUME NEW t \in Tabs, InsertPerson(t)
      PROVE  Cardinality(PersonsOf(u)') <= PersonLimit + overtaken'
  <2>1. /\ u = as[t] => Cardinality(PersonsOf(u)') = Cardinality(PersonsOf(u)) + 1
        /\ u # as[t] => Cardinality(PersonsOf(u)') = Cardinality(PersonsOf(u))
    BY <1>1, PersonsAfter
  <2>2. /\ overtaken' = overtaken + Outdated(counted[t], as[t])
        /\ counted[t] < PersonLimit /\ counted[t] \in Nat
    BY <1>1 DEF InsertPerson, CountedBelow, RowsInv, TypeOK, TabTypes
  <2>3. \/ overtaken' = overtaken + 1
        \/ counted[t] = Cardinality(PersonsOf(as[t])) /\ overtaken' = overtaken
    <3>1. CASE counted[t] = Cardinality(PersonsOf(as[t]))
      <4>1. Outdated(counted[t], as[t]) = 0
        BY <3>1 DEF Outdated
      <4> QED
        BY <1>0, <2>2, <3>1, <4>1
    <3>2. CASE counted[t] # Cardinality(PersonsOf(as[t]))
      <4>1. Outdated(counted[t], as[t]) = 1
        BY <3>2 DEF Outdated
      <4> QED
        BY <1>0, <2>2, <4>1
    <3> QED
      BY <3>1, <3>2
  <2>4. CASE u = as[t]
    <3>1. Cardinality(PersonsOf(u)') = Cardinality(PersonsOf(u)) + 1
      BY <2>1, <2>4
    <3>2. CASE overtaken' = overtaken + 1
      BY <1>0, <3>1, <3>2
    <3>3. CASE counted[t] = Cardinality(PersonsOf(as[t])) /\ overtaken' = overtaken
      <4>1. Cardinality(PersonsOf(u)) < PersonLimit
        BY <2>2, <2>4, <3>3
      <4> QED
        BY <1>0, <3>1, <3>3, <4>1
    <3> QED
      BY <2>3, <3>2, <3>3
  <2>5. CASE u # as[t]
    <3>1. Cardinality(PersonsOf(u)') = Cardinality(PersonsOf(u))
      BY <2>1, <2>5
    <3>2. overtaken' \in Nat /\ overtaken' >= overtaken
      BY HistoryGrows DEF HistoryTypes
    <3> QED
      BY <1>0, <3>1, <3>2
  <2> QED
    BY <2>4, <2>5
<1>2. CASE persons' = persons
  <2>1. PersonsOf(u)' = PersonsOf(u)
    BY <1>2 DEF PersonsOf
  <2>2. overtaken' \in Nat /\ overtaken' >= overtaken
    BY HistoryGrows DEF HistoryTypes
  <2> QED
    BY <1>0, <2>1, <2>2
<1> QED
  BY <1>1, <1>2, TablesGrow

\* Creations may overlap in any number, fail and be repeated: each one lets in
\* one person too many at most.
THEOREM LimitHolds == Spec => []LimitKept
<1>1. Init => CountedBelow
  BY DEF Init, CountedBelow
<1>2. Init => LimitKept
  <2> SUFFICES ASSUME Init, NEW u \in Accounts
               PROVE  Cardinality(PersonsOf(u)) <= PersonLimit + overtaken
    BY DEF LimitKept
  <2>1. Cardinality(PersonsOf(u)) = 0
    BY FS_EmptySet DEF Init, PersonsOf
  <2> QED
    BY <2>1, RegistrationAssumption DEF Init
<1> QED
  BY <1>1, <1>2, RowsInit, RowsStep, CountedBelowStep, LimitStep, PTL DEF Spec

(***************************************************************************)
(* Whose persons and tokens they are, when a browser is used by one        *)
(* account.  (The tabs share the login: with two accounts the form of one  *)
(* may be continued by the other, and neither theorem below holds.)        *)
(***************************************************************************)
OneAccount == \A b \in Browsers : \A u, v \in MayLogin[b] : u = v

Away == {"login", "away", "insert_user", "ready"}

\* A step as one tab sees it: it stands still, leaves its page, is on a page
\* without a form, or makes a request of its form.
Stands(t) ==
  /\ pc'[t] = pc[t] /\ form'[t] = form[t] /\ person'[t] = person[t]
  /\ as'[t] = as[t] /\ listed'[t] = listed[t]

Left(t) ==
  pc'[t] \in Away /\ form'[t] = {} /\ person'[t] = {} /\ as'[t] = NoUser

Pages(t) ==
  /\ pc[t] \in Away /\ pc'[t] \in Away \cup {"select_token"}
  /\ form'[t] = form[t] /\ person'[t] = person[t]
  /\ as'[t] = as[t] \/ as'[t] \in MayLogin[BrowserOf[t]]

Continues(t) ==
  \/ ResolveRegion(t) \/ SelectSubscription(t) \/ Backfill(t)
  \/ InsertSubscription(t) /\ ~Subscribed(t)
  \/ SelectToken(t) /\ pc'[t] = "insert_token"

Requests(t) ==
  \/ Submit(t) \/ FindPerson(t) \/ InsertPerson(t)
  \/ CountPersons(t) /\ pc'[t] = "insert_person"
  \/ Continues(t)

LEMMA TabMoves ==
  ASSUME RowsInv, [Next]_vars, NEW t \in Tabs
  PROVE  Stands(t) \/ Left(t) \/ Pages(t) \/ Requests(t)
<1> DEFINE Goal == Stands(t) \/ Left(t) \/ Pages(t) \/ Requests(t)
<1>0. TabTypes
  BY DEF RowsInv, TypeOK
<1>l. ASSUME NEW u \in Tabs, NEW label \in {"ready", "login"}, Leave(u, label) PROVE Goal
  BY <1>0, <1>l DEF Leave, Goto, TabTypes, Stands, Left, Away
<1>1. ASSUME NEW u \in Tabs,
             \/ StartLogin(u) \/ OpenApp(u) \/ CallbackRefused(u) \/ SyncToken(u)
      PROVE  Goal
  BY <1>0, <1>1 DEF StartLogin, OpenApp, CallbackRefused, SyncToken, Goto, local, TabTypes,
    Stands, Pages, Away
<1>2. ASSUME NEW u \in Tabs, Callback(u) PROVE Goal
  <2>1. PICK v \in MayLogin[BrowserOf[u]] :
          \/ LoginSuccess(u, v)
          \/ /\ as' = [as EXCEPT ![u] = v]
             /\ Goto(u, "insert_user")
             /\ UNCHANGED <<login, form, person, listed, counted>>
    BY <1>2 DEF Callback
  <2>2. CASE LoginSuccess(u, v)
    BY <1>l, <2>2 DEF LoginSuccess
  <2>3. CASE /\ as' = [as EXCEPT ![u] = v]
             /\ Goto(u, "insert_user")
             /\ UNCHANGED <<login, form, person, listed, counted>>
    <3>1. pc[u] = "away"
      BY <1>2 DEF Callback
    <3> QED
      BY <1>0, <2>3, <3>1 DEF Goto, TabTypes, Stands, Pages, Away
  <2> QED
    BY <2>1, <2>2, <2>3
<1>3. ASSUME NEW u \in Tabs, InsertUser(u) \/ Unauthorised(u) \/ RequestFails(u)
      PROVE  Goal
  BY <1>l, <1>3 DEF InsertUser, LoginSuccess, Unauthorised, RequestFails
<1>4. ASSUME NEW u \in Tabs, Submit(u) \/ FindPerson(u) \/ InsertPerson(u) PROVE Goal
  <2>1. CASE u = t
    BY <1>4, <2>1 DEF Requests
  <2>2. CASE u # t
    BY <1>0, <1>4, <2>2 DEF Submit, FindPerson, UsePerson, InsertPerson, Goto, TabTypes, Stands
  <2> QED
    BY <2>1, <2>2
<1>5. ASSUME NEW u \in Tabs, CountPersons(u) PROVE Goal
  <2>1. CASE AtLimit(User(u))
    BY <1>l, <1>5, <2>1 DEF CountPersons
  <2>2. CASE ~AtLimit(User(u)) /\ u = t
    BY <1>0, <1>5, <2>2 DEF CountPersons, Requests, Goto, TabTypes
  <2>3. CASE ~AtLimit(User(u)) /\ u # t
    BY <1>0, <1>5, <2>3 DEF CountPersons, Goto, TabTypes, Stands
  <2> QED
    BY <2>1, <2>2, <2>3
<1>6. ASSUME NEW u \in Tabs, ResolveRegion(u) \/ SelectSubscription(u) \/ Backfill(u)
      PROVE  Goal
  <2>1. CASE u = t
    BY <1>6, <2>1 DEF Requests, Continues
  <2>2. CASE u # t
    BY <1>0, <1>6, <2>2 DEF ResolveRegion, SelectSubscription, Backfill, Goto, local,
      TabTypes, Stands
  <2> QED
    BY <2>1, <2>2
<1>7. ASSUME NEW u \in Tabs, InsertSubscription(u) PROVE Goal
  <2>1. CASE Conflict(u)
    BY <1>l, <1>7, <2>1 DEF InsertSubscription
  <2>2. CASE ~Conflict(u) /\ u = t
    BY <1>7, <2>2 DEF Conflict, Requests, Continues
  <2>3. CASE ~Conflict(u) /\ u # t
    BY <1>0, <1>7, <2>3 DEF InsertSubscription, Goto, local, TabTypes, Stands
  <2> QED
    BY <2>1, <2>2, <2>3
<1>8. ASSUME NEW u \in Tabs, SelectToken(u) PROVE Goal
  <2>1. CASE deviceTokens[BrowserOf[u]] # NoUser
    BY <1>l, <1>8, <2>1 DEF SelectToken, TokenStored
  <2>2. CASE deviceTokens[BrowserOf[u]] = NoUser /\ u = t
    BY <1>0, <1>8, <2>2 DEF SelectToken, Goto, TabTypes, Requests, Continues
  <2>3. CASE deviceTokens[BrowserOf[u]] = NoUser /\ u # t
    BY <1>0, <1>8, <2>3 DEF SelectToken, Goto, TabTypes, Stands
  <2> QED
    BY <2>1, <2>2, <2>3
<1>9. ASSUME NEW u \in Tabs, InsertToken(u) PROVE Goal
  BY <1>l, <1>9 DEF InsertToken, TokenStored
<1>10. ASSUME NEW b \in Browsers, Logout(b) \/ LoseToken(b) PROVE Goal
  BY <1>10 DEF Logout, LoseToken, local, Stands
<1>11. CASE UNCHANGED vars
  BY <1>11 DEF vars, local, Stands
<1> QED
  BY <1>1, <1>2, <1>3, <1>4, <1>5, <1>6, <1>7, <1>8, <1>9, <1>10, <1>11
    DEF Next, LoginStep, FormStep

\* A browser is signed in, and its requests are authorised, as one of the
\* accounts used in it.
LoginsOfBrowser ==
  /\ \A b \in Browsers : jwt[b] # NoUser => jwt[b] \in MayLogin[b]
  /\ \A t \in Tabs : as[t] # NoUser => as[t] \in MayLogin[BrowserOf[t]]

LEMMA OnlyLoginsChangeJwt ==
  [Next]_vars =>
    \/ jwt' = jwt
    \/ \E t \in Tabs : Callback(t) \/ InsertUser(t)
    \/ \E b \in Browsers : Logout(b)
<1> SUFFICES ASSUME [Next]_vars,
                    \A t \in Tabs : ~Callback(t) /\ ~InsertUser(t),
                    \A b \in Browsers : ~Logout(b)
             PROVE  jwt' = jwt
  OBVIOUS
<1> USE DEF login
<1>1. CASE \E t \in Tabs : LoginStep(t) \/ Submit(t) \/ SyncToken(t) \/ RequestFails(t)
  BY <1>1 DEF LoginStep, StartLogin, OpenApp, CallbackRefused, Submit, SyncToken, RequestFails
<1>2. CASE \E t \in Tabs : FormStep(t)
  BY <1>2 DEF FormStep, FindPerson, CountPersons, InsertPerson, ResolveRegion,
    SelectSubscription, InsertSubscription, Backfill, SelectToken, InsertToken, Unauthorised
<1>3. CASE (\E b \in Browsers : LoseToken(b)) \/ UNCHANGED vars
  BY <1>3 DEF LoseToken, vars
<1> QED
  BY <1>1, <1>2, <1>3 DEF Next

LEMMA LoginsStep == RowsInv /\ LoginsOfBrowser /\ [Next]_vars => LoginsOfBrowser'
<1> SUFFICES ASSUME RowsInv, LoginsOfBrowser, [Next]_vars PROVE LoginsOfBrowser'
  OBVIOUS
<1>0. /\ LoginTypes /\ TabTypes /\ users \subseteq Accounts
      /\ BrowserOf \in [Tabs -> Browsers] /\ NoUser \notin Accounts
  BY RegistrationAssumption DEF RowsInv, TypeOK, TableTypes
<1>1. \A b \in Browsers : jwt'[b] # NoUser => jwt'[b] \in MayLogin[b]
  <2>0. \A b \in Browsers : jwt[b] # NoUser => jwt[b] \in MayLogin[b]
    BY DEF LoginsOfBrowser
  <2>1. ASSUME NEW t \in Tabs, NEW u \in MayLogin[BrowserOf[t]], LoginSuccess(t, u)
        PROVE  \A b \in Browsers : jwt'[b] # NoUser => jwt'[b] \in MayLogin[b]
    <3>1. jwt' = [jwt EXCEPT ![BrowserOf[t]] = u]
      BY <2>1 DEF LoginSuccess
    <3> QED
      BY <1>0, <2>0, <3>1 DEF LoginTypes
  <2>2. ASSUME NEW t \in Tabs, Callback(t)
        PROVE  \A b \in Browsers : jwt'[b] # NoUser => jwt'[b] \in MayLogin[b]
    BY <2>0, <2>1, <2>2 DEF Callback, login
  <2>3. ASSUME NEW t \in Tabs, InsertUser(t)
        PROVE  \A b \in Browsers : jwt'[b] # NoUser => jwt'[b] \in MayLogin[b]
    <3>1. as[t] \in MayLogin[BrowserOf[t]]
      BY <1>0, <2>3 DEF InsertUser, LoginsOfBrowser, RowsInv, TabsHold
    <3> QED
      BY <2>0, <2>1, <2>3, <3>1 DEF InsertUser, login
  <2>4. ASSUME NEW c \in Browsers, Logout(c)
        PROVE  \A b \in Browsers : jwt'[b] # NoUser => jwt'[b] \in MayLogin[b]
    BY <1>0, <2>0, <2>4 DEF Logout, LoginTypes
  <2>5. CASE jwt' = jwt
    BY <2>0, <2>5
  <2>6. \/ jwt' = jwt
        \/ \E t \in Tabs : Callback(t) \/ InsertUser(t)
        \/ \E b \in Browsers : Logout(b)
    BY OnlyLoginsChangeJwt
  <2> QED
    BY <2>2, <2>3, <2>4, <2>5, <2>6
<1>2. ASSUME NEW t \in Tabs, as'[t] # NoUser PROVE as'[t] \in MayLogin[BrowserOf[t]]
  <2>1. CASE Stands(t) \/ Left(t) \/ Pages(t)
    BY <1>2, <2>1 DEF Stands, Left, Pages, LoginsOfBrowser
  <2>2. User(t) # NoUser => User(t) \in MayLogin[BrowserOf[t]]
    BY <1>0 DEF LoginsOfBrowser, User
  <2>3. CASE Requests(t)
    <3>1. as'[t] = as[t] \/ as'[t] = User(t)
      <4>1. CASE \/ Submit(t) \/ FindPerson(t) \/ InsertPerson(t) \/ ResolveRegion(t)
                 \/ Backfill(t)
        BY <4>1 DEF Submit, FindPerson, InsertPerson, ResolveRegion, Backfill, local
      <4>2. CASE InsertSubscription(t) /\ ~Subscribed(t)
        BY <4>2 DEF InsertSubscription, Conflict, local
      <4>3. CASE SelectSubscription(t)
        BY <1>0, <4>3 DEF SelectSubscription, TabTypes
      <4>4. CASE CountPersons(t) /\ pc'[t] = "insert_person"
        <5>1. ~AtLimit(User(t))
          BY <1>0, <4>4 DEF CountPersons, Leave, Goto, TabTypes
        <5> QED
          BY <1>0, <4>4, <5>1 DEF CountPersons, TabTypes
      <4>5. CASE SelectToken(t) /\ pc'[t] = "insert_token"
        <5>1. deviceTokens[BrowserOf[t]] = NoUser
          BY <1>0, <4>5 DEF SelectToken, TokenStored, Leave, Goto, TabTypes
        <5> QED
          BY <1>0, <4>5, <5>1 DEF SelectToken, TabTypes
      <4> QED
        BY <2>3, <4>1, <4>2, <4>3, <4>4, <4>5 DEF Requests, Continues
    <3> QED
      BY <1>2, <2>2, <3>1 DEF LoginsOfBrowser
  <2> QED
    BY <2>1, <2>3, TabMoves
<1> QED
  BY <1>1, <1>2 DEF LoginsOfBrowser

(***************************************************************************)
(* Retries reuse the person.                                               *)
(***************************************************************************)
\* Between the list of persons and the insert: as long as the user has as many
\* persons as were listed, none of them has the label of the form.
ListedWithout ==
  \A t \in Tabs : pc[t] \in {"count", "insert_person"} =>
    \A u \in MayLogin[BrowserOf[t]] :
      /\ listed[t] <= Cardinality(PersonsOf(u))
      /\ listed[t] = Cardinality(PersonsOf(u)) =>
           \A p \in PersonsOf(u), f \in form[t] : p.label # f.label

\* The persons of a user change only when their number grows.
LEMMA PersonsOfGrow ==
  ASSUME RowsInv, [Next]_vars, NEW u
  PROVE  /\ Cardinality(PersonsOf(u)) \in Nat
         /\ \/ PersonsOf(u)' = PersonsOf(u)
            \/ Cardinality(PersonsOf(u)') = Cardinality(PersonsOf(u)) + 1
<1>1. Cardinality(PersonsOf(u)) \in Nat
  BY FS_CardinalityType, FS_Subset DEF RowsInv, FiniteTables, PersonsOf
<1>2. CASE persons' = persons
  BY <1>1, <1>2 DEF PersonsOf
<1>3. ASSUME NEW t \in Tabs, InsertPerson(t)
      PROVE  \/ PersonsOf(u)' = PersonsOf(u)
             \/ Cardinality(PersonsOf(u)') = Cardinality(PersonsOf(u)) + 1
  BY <1>3, PersonsAfter
<1> QED
  BY <1>1, <1>2, <1>3, TablesGrow

LEMMA ListedWithoutStep ==
  ASSUME OneAccount, RowsInv, LoginsOfBrowser, ListedWithout, [Next]_vars
  PROVE  ListedWithout'
<1> SUFFICES ASSUME NEW t \in Tabs, pc'[t] \in {"count", "insert_person"},
                    NEW u \in MayLogin[BrowserOf[t]]
             PROVE  /\ listed'[t] <= Cardinality(PersonsOf(u)')
                    /\ listed'[t] = Cardinality(PersonsOf(u)') =>
                         \A p \in PersonsOf(u)', f \in form'[t] : p.label # f.label
  BY DEF ListedWithout
<1>0. /\ TabTypes /\ listed[t] \in Nat /\ Cardinality(PersonsOf(u)) \in Nat
      /\ BrowserOf[t] \in Browsers
  BY RegistrationAssumption, PersonsOfGrow DEF RowsInv, TypeOK, TabTypes
<1>1. CASE /\ pc[t] \in {"count", "insert_person"}
           /\ listed'[t] = listed[t] /\ form'[t] = form[t]
  <2>1. /\ listed[t] <= Cardinality(PersonsOf(u))
        /\ listed[t] = Cardinality(PersonsOf(u)) =>
             \A p \in PersonsOf(u), f \in form[t] : p.label # f.label
    BY <1>1 DEF ListedWithout
  <2>2. CASE PersonsOf(u)' = PersonsOf(u)
    BY <1>1, <2>1, <2>2
  <2>3. CASE Cardinality(PersonsOf(u)') = Cardinality(PersonsOf(u)) + 1
    BY <1>0, <1>1, <2>1, <2>3
  <2> QED
    BY <2>2, <2>3, PersonsOfGrow
<1>2. CASE FindPerson(t)
  <2>1. /\ SameLabel(t) = {} /\ form' = form /\ persons' = persons
        /\ User(t) # NoUser /\ listed' = [listed EXCEPT ![t] = Cardinality(PersonsOf(User(t)))]
    BY <1>0, <1>2 DEF FindPerson, Goto, tables, TabTypes
  <2>2. User(t) = u
    BY <1>0, <2>1 DEF User, LoginsOfBrowser, OneAccount
  <2>3. listed'[t] = Cardinality(PersonsOf(u)) /\ PersonsOf(u)' = PersonsOf(u)
    BY <1>0, <2>1, <2>2 DEF TabTypes, PersonsOf
  <2>4. \A p \in PersonsOf(u), f \in form[t] : p.label # f.label
    BY <2>1, <2>2 DEF SameLabel
  <2> QED
    BY <1>0, <2>1, <2>3, <2>4
<1>3. \/ FindPerson(t)
      \/ /\ pc[t] \in {"count", "insert_person"}
         /\ listed'[t] = listed[t] /\ form'[t] = form[t]
  <2>1. CASE Stands(t) \/ Left(t) \/ Pages(t)
    BY <2>1 DEF Stands, Left, Pages, Away
  <2>2. CASE Submit(t) \/ InsertPerson(t) \/ Continues(t)
    BY <1>0, <2>2 DEF Submit, InsertPerson, Continues, ResolveRegion, SelectSubscription,
      AfterSelect, Backfill, InsertSubscription, Conflict, Goto, TabTypes
  <2>3. CASE CountPersons(t) /\ pc'[t] = "insert_person"
    <3>1. ~AtLimit(User(t))
      BY <1>0, <2>3 DEF CountPersons, Leave, Goto, TabTypes
    <3> QED
      BY <2>3, <3>1 DEF CountPersons
  <2> QED
    BY <2>1, <2>2, <2>3, TabMoves DEF Requests
<1> QED
  BY <1>1, <1>2, <1>3

LEMMA RetryStep ==
  ASSUME RowsInv, LoginsOfBrowser, ListedWithout, RetryReuses, [Next]_vars
  PROVE  RetryReuses'
<1> SUFFICES ASSUME NEW u \in Accounts, NEW l \in Labels
             PROVE  Cardinality({p \in PersonsOf(u)' : p.label = l}) <= 1 + outlisted'
  BY DEF RetryReuses
<1> DEFINE Same == {p \in PersonsOf(u) : p.label = l}
<1>0. /\ IsFiniteSet(Same) /\ Cardinality(Same) \in Nat
      /\ Cardinality(Same) <= 1 + outlisted /\ outlisted \in Nat
  <2>1. IsFiniteSet(Same) /\ Cardinality(Same) \in Nat
    BY FS_CardinalityType, FS_Subset DEF RowsInv, FiniteTables, PersonsOf
  <2> QED
    BY <2>1 DEF RetryReuses, RowsInv, TypeOK, HistoryTypes
<1>1. outlisted' \in Nat /\ outlisted' >= outlisted
  BY HistoryGrows DEF HistoryTypes
<1>2. CASE persons' = persons
  <2>1. {p \in PersonsOf(u)' : p.label = l} = Same
    BY <1>2 DEF PersonsOf
  <2>2. Cardinality({p \in PersonsOf(u)' : p.label = l}) = Cardinality(Same)
    BY <2>1
  <2> HIDE DEF Same
  <2> QED
    BY <1>0, <1>1, <2>2
<1>3. ASSUME NEW t \in Tabs, InsertPerson(t)
      PROVE  Cardinality({p \in PersonsOf(u)' : p.label = l}) <= 1 + outlisted'
  <2> DEFINE New == {p \in NewPersons(t) : p.user = u /\ p.label = l}
  <2>1. /\ persons' = persons \cup NewPersons(t) /\ AtMostOne(NewPersons(t))
        /\ \A p \in NewPersons(t) :
             p.user = as[t] /\ \E f \in form[t] : p.label = f.label
    BY <1>3, PersonInserted
  <2>2. {p \in PersonsOf(u)' : p.label = l} = Same \cup New
    BY <2>1 DEF PersonsOf
  <2>3. AtMostOne(New)
    BY <2>1 DEF AtMostOne
  <2>2a. Cardinality({p \in PersonsOf(u)' : p.label = l}) = Cardinality(Same \cup New)
    BY <2>2
  <2> HIDE DEF Same, New
  <2>4. Cardinality(Same \cup New) \in Nat /\ Cardinality(Same \cup New) <= Cardinality(Same) + 1
    BY <1>0, <2>3, OneMore
  <2>5. CASE listed[t] # Cardinality(PersonsOf(as[t]))
    <3>1. Outdated(listed[t], as[t]) = 1
      BY <2>5 DEF Outdated
    <3>2. outlisted' = outlisted + 1
      BY <1>3, <3>1 DEF InsertPerson
    <3> QED
      BY <1>0, <2>2a, <2>4, <3>2
  <2>6. CASE New = {}
    <3>1. Same \cup New = Same
      BY <2>6
    <3>2. Cardinality({p \in PersonsOf(u)' : p.label = l}) = Cardinality(Same)
      BY <2>2a, <3>1
    <3> QED
      BY <1>0, <1>1, <3>2
  <2>7. CASE listed[t] = Cardinality(PersonsOf(as[t])) /\ New # {}
    <3>1. u = as[t] /\ \E f \in form[t] : l = f.label
      BY <2>1, <2>7 DEF New
    <3>2. pc[t] = "insert_person" /\ as[t] \in MayLogin[BrowserOf[t]]
      BY <1>3, RegistrationAssumption
        DEF InsertPerson, LoginsOfBrowser, RowsInv, TypeOK, TabTypes, Inserting
    <3>3. Same = {}
      BY <2>7, <3>1, <3>2 DEF ListedWithout, Same
    <3>4. Cardinality(Same) = 0
      BY <3>3, FS_EmptySet
    <3> QED
      BY <1>0, <1>1, <2>2a, <2>4, <3>4
  <2> QED
    BY <2>5, <2>6, <2>7
<1> QED
  BY <1>2, <1>3, TablesGrow

\* A form that is submitted again, after whatever part of it failed, reuses the
\* person it stored: a label is stored twice only by a list that another
\* creation has outdated, and each such list costs one row.
THEOREM RetryReusesHolds ==
  ASSUME OneAccount
  PROVE  Spec => []RetryReuses
<1>1. Init => LoginsOfBrowser /\ ListedWithout
  BY DEF Init, LoginsOfBrowser, ListedWithout
<1>2. Init => RetryReuses
  <2> SUFFICES ASSUME Init, NEW u \in Accounts, NEW l \in Labels
               PROVE  Cardinality({p \in PersonsOf(u) : p.label = l}) <= 1 + outlisted
    BY DEF RetryReuses
  <2>1. {p \in PersonsOf(u) : p.label = l} = {} /\ outlisted = 0
    BY DEF Init, PersonsOf
  <2>2. Cardinality({p \in PersonsOf(u) : p.label = l}) = 0
    BY <2>1, FS_EmptySet
  <2> QED
    BY <2>1, <2>2
<1>3. RowsInv /\ LoginsOfBrowser /\ ListedWithout /\ [Next]_vars => ListedWithout'
  BY ListedWithoutStep
<1>4. /\ RowsInv /\ LoginsOfBrowser /\ ListedWithout /\ RetryReuses /\ [Next]_vars
      => RetryReuses'
  BY RetryStep
<1> QED
  BY <1>1, <1>2, <1>3, <1>4, RowsInit, RowsStep, LoginsStep, PTL DEF Spec

(***************************************************************************)
(* Who is told of success is reachable.                                    *)
(***************************************************************************)
\* Whose person a tab submits, whose a subscription is, and what is stored when
\* a form comes to its device token.
PersonsOfBrowser ==
  \A t \in Tabs : \A p \in person[t] : p.user \in MayLogin[BrowserOf[t]]

OwnSubscriptions == \A s \in subscriptions : s.user = s.person.user

SubscribedFirst ==
  \A t \in Tabs :
    /\ pc[t] \in Away => form[t] = {}
    /\ pc[t] \in {"backfill", "select_token", "insert_token"} /\ form[t] # {}
         => Subscribed(t)

ReachInv == RowsInv /\ LoginsOfBrowser /\ PersonsOfBrowser /\ OwnSubscriptions /\ SubscribedFirst

LEMMA PersonsOfBrowserStep ==
  RowsInv /\ LoginsOfBrowser /\ PersonsOfBrowser /\ [Next]_vars => PersonsOfBrowser'
<1> SUFFICES ASSUME RowsInv, LoginsOfBrowser, PersonsOfBrowser, [Next]_vars, NEW t \in Tabs
             PROVE  \A p \in person'[t] : p.user \in MayLogin[BrowserOf[t]]
  BY DEF PersonsOfBrowser
<1>0. /\ TabTypes /\ BrowserOf[t] \in Browsers /\ NoUser \notin Accounts
      /\ (pc[t] \in Inserting => as[t] \in Accounts)
  BY RegistrationAssumption DEF RowsInv, TypeOK
<1>1. CASE person'[t] = person[t] \/ person'[t] = {}
  BY <1>1 DEF PersonsOfBrowser
<1>2. CASE FindPerson(t)
  <2>1. User(t) \in MayLogin[BrowserOf[t]]
    BY <1>0, <1>2 DEF FindPerson, User, LoginsOfBrowser
  <2>2. person'[t] = person[t] \/ \E p \in PersonsOf(User(t)) : person'[t] = {p}
    BY <1>0, <1>2 DEF FindPerson, UsePerson, SameLabel, TabTypes
  <2> QED
    BY <1>1, <2>1, <2>2 DEF PersonsOf
<1>3. CASE InsertPerson(t)
  <2>1. /\ person'[t] = NewPersons(t)
        /\ \A p \in NewPersons(t) : p.user = as[t]
    BY <1>0, <1>3, PersonInserted DEF TabTypes
  <2>2. as[t] \in MayLogin[BrowserOf[t]]
    BY <1>0, <1>3 DEF InsertPerson, Inserting, LoginsOfBrowser
  <2> QED
    BY <2>1, <2>2
<1>4. CASE Submit(t) \/ Continues(t)
  BY <1>0, <1>1, <1>4 DEF Submit, Continues, ResolveRegion, SelectSubscription, Backfill,
    InsertSubscription, Conflict, SelectToken, TokenStored, Leave, Goto, local, TabTypes
<1>5. CASE CountPersons(t)
  BY <1>0, <1>1, <1>5 DEF CountPersons, Leave, TabTypes
<1> QED
  BY <1>1, <1>2, <1>3, <1>4, <1>5, TabMoves DEF Stands, Left, Pages, Requests

LEMMA OwnSubscriptionsStep ==
  ASSUME OneAccount
  PROVE  /\ RowsInv /\ LoginsOfBrowser /\ PersonsOfBrowser /\ OwnSubscriptions /\ [Next]_vars
         => OwnSubscriptions'
<1> SUFFICES ASSUME RowsInv, LoginsOfBrowser, PersonsOfBrowser, OwnSubscriptions, [Next]_vars
             PROVE  OwnSubscriptions'
  OBVIOUS
<1>1. CASE subscriptions' = subscriptions
  BY <1>1 DEF OwnSubscriptions
<1>2. ASSUME NEW t \in Tabs, InsertSubscription(t), ~Subscribed(t)
      PROVE  OwnSubscriptions'
  <2>1. subscriptions' = subscriptions \cup NewSubscriptions(t)
    BY <1>2, SubscriptionInserted
  <2>2. as[t] \in MayLogin[BrowserOf[t]] /\ BrowserOf[t] \in Browsers
    BY <1>2, RegistrationAssumption
      DEF InsertSubscription, Inserting, LoginsOfBrowser, RowsInv, TypeOK
  <2>3. ASSUME NEW s \in NewSubscriptions(t) PROVE s.user = s.person.user
    <3>1. PICK w \in Wanted(t) :
            s = [user |-> as[t], person |-> w[1], region |-> w[2],
                 n |-> Cardinality(subscriptions)]
      BY Zenon DEF NewSubscriptions
    <3>2. w[1] \in person[t]
      BY WantedIsOne
    <3>3. w[1].user \in MayLogin[BrowserOf[t]]
      BY <3>2 DEF PersonsOfBrowser
    <3>4. w[1].user = as[t]
      BY <2>2, <3>3 DEF OneAccount
    <3>5. s.user = as[t] /\ s.person = w[1]
      BY <3>1
    <3> QED
      BY <3>4, <3>5
  <2> QED
    BY <2>1, <2>3 DEF OwnSubscriptions
<1> QED
  BY <1>1, <1>2, TablesGrow

\* The rows InsertSubscription adds are those the tab wants.
LEMMA InsertedIsWanted ==
  ASSUME RowsInv, NEW t \in Tabs, InsertSubscription(t), ~Subscribed(t),
         form[t] # {}, person[t] # {}
  PROVE  Subscribed(t)'
<1>1. /\ subscriptions' = subscriptions \cup NewSubscriptions(t)
      /\ form' = form /\ person' = person
  BY SubscriptionInserted DEF InsertSubscription, Conflict, local
<1>2. PICK p \in person[t], f \in form[t] : TRUE
  OBVIOUS
<1>3. <<p, f.region>> \in Wanted(t)
  BY <1>2 DEF Wanted
<1> DEFINE s == [user |-> as[t], person |-> p, region |-> f.region,
                 n |-> Cardinality(subscriptions)]
<1>4. s \in NewSubscriptions(t)
  <2>1. <<p, f.region>>[1] = p /\ <<p, f.region>>[2] = f.region
    OBVIOUS
  <2> QED
    BY <1>3, <2>1, Zenon DEF NewSubscriptions
<1>5. s.person = p /\ s.region = f.region
  OBVIOUS
<1>6. Wanted(t)' = Wanted(t)
  BY <1>1 DEF Wanted
<1> HIDE DEF s
<1> QED
  BY <1>1, <1>3, <1>4, <1>5, <1>6 DEF Subscribed

LEMMA SubscribedFirstStep == RowsInv /\ SubscribedFirst /\ [Next]_vars => SubscribedFirst'
<1> SUFFICES ASSUME RowsInv, SubscribedFirst, [Next]_vars, NEW t \in Tabs
             PROVE  /\ pc'[t] \in Away => form'[t] = {}
                    /\ pc'[t] \in {"backfill", "select_token", "insert_token"} /\ form'[t] # {}
                         => Subscribed(t)'
  BY DEF SubscribedFirst
<1> DEFINE Goal == /\ pc'[t] \in Away => form'[t] = {}
                   /\ pc'[t] \in {"backfill", "select_token", "insert_token"} /\ form'[t] # {}
                        => Subscribed(t)'
<1>0. /\ TabTypes /\ (pc[t] \in Forming => form[t] # {})
      /\ (pc[t] = "insert_sub" => person[t] # {})
      /\ subscriptions \subseteq subscriptions'
  BY TablesGrow, SubscriptionInserted DEF RowsInv, TypeOK, TabsHold
<1>1. ASSUME form'[t] = form[t], person'[t] = person[t], Subscribed(t)
      PROVE  Subscribed(t)'
  BY <1>0, <1>1 DEF Subscribed, Wanted
<1>2. CASE Stands(t)
  BY <1>1, <1>2 DEF Stands, SubscribedFirst
<1>3. CASE Left(t)
  BY <1>3 DEF Left
<1>4. CASE Pages(t)
  BY <1>4 DEF Pages, SubscribedFirst, Away
<1>5. CASE Submit(t) \/ FindPerson(t) \/ InsertPerson(t) \/ ResolveRegion(t)
  BY <1>0, <1>5 DEF Submit, FindPerson, InsertPerson, ResolveRegion, Goto, TabTypes, Away
<1>6. CASE CountPersons(t) /\ pc'[t] = "insert_person"
  BY <1>6 DEF Away
<1>7. CASE SelectSubscription(t)
  <2>1. /\ pc'[t] = AfterSelect(t)
        /\ form'[t] = form[t] /\ person'[t] = person[t]
    BY <1>0, <1>7 DEF SelectSubscription, Goto, TabTypes
  <2> QED
    BY <1>1, <2>1 DEF AfterSelect, Away
<1>8. CASE InsertSubscription(t) /\ ~Subscribed(t)
  <2>1. pc[t] = "insert_sub" /\ pc'[t] = "backfill"
    BY <1>0, <1>8 DEF InsertSubscription, Conflict, Goto, TabTypes
  <2> QED
    BY <1>0, <1>8, <2>1, InsertedIsWanted DEF Away, Forming
<1>9. CASE Backfill(t)
  BY <1>0, <1>1, <1>9 DEF Backfill, Goto, local, TabTypes, Away, SubscribedFirst
<1>10. CASE SelectToken(t) /\ pc'[t] = "insert_token"
  <2>1. /\ pc[t] = "select_token"
        /\ form'[t] = form[t] /\ person'[t] = person[t]
    BY <1>0, <1>10 DEF SelectToken, TokenStored, Leave, Goto, TabTypes
  <2> QED
    BY <1>1, <1>10, <2>1 DEF Away, SubscribedFirst
<1> QED
  BY <1>2, <1>3, <1>4, <1>5, <1>6, <1>7, <1>8, <1>9, <1>10, TabMoves
    DEF Requests, Continues

\* The step that tells a tab stores the token for its user.
LEMMA ToldStep ==
  ASSUME RowsInv, LoginsOfBrowser, [Next]_vars, NEW t \in registered' \ registered
  PROVE  /\ t \in Tabs /\ pc[t] \in {"select_token", "insert_token"} /\ form[t] # {}
         /\ deviceTokens'[BrowserOf[t]] \in MayLogin[BrowserOf[t]]
<1>0. /\ deviceTokens \in [Browsers -> users \cup {NoUser}]
      /\ BrowserOf \in [Tabs -> Browsers] /\ NoUser \notin Accounts
      /\ \A u \in Tabs : pc[u] \in Inserting => as[u] \in Accounts
  BY RegistrationAssumption DEF RowsInv, TypeOK, TableTypes
<1>1. PICK u \in Tabs : SelectToken(u) \/ InsertToken(u)
  <2>1. SUFFICES ASSUME \A u \in Tabs : ~SelectToken(u) /\ ~InsertToken(u)
                 PROVE  registered' = registered
    OBVIOUS
  <2> USE DEF history
  <2>2. CASE \E u \in Tabs : LoginStep(u) \/ Callback(u) \/ Submit(u) \/ SyncToken(u)
                               \/ RequestFails(u)
    BY <2>2 DEF LoginStep, StartLogin, OpenApp, CallbackRefused, InsertUser, Callback, Submit,
      SyncToken, RequestFails
  <2>3. CASE \E u \in Tabs : FormStep(u)
    BY <2>1, <2>3 DEF FormStep, FindPerson, CountPersons, InsertPerson, ResolveRegion,
      SelectSubscription, InsertSubscription, Backfill, Unauthorised
  <2>4. CASE (\E b \in Browsers : Logout(b) \/ LoseToken(b)) \/ UNCHANGED vars
    BY <2>4 DEF Logout, LoseToken, vars
  <2> QED
    BY <2>2, <2>3, <2>4 DEF Next
<1>2. PICK v \in MayLogin[BrowserOf[u]] : TokenStored(u, v)
  <2>1. CASE SelectToken(u)
    <3>1. deviceTokens[BrowserOf[u]] # NoUser
      BY <2>1 DEF SelectToken
    <3>2. User(u) \in MayLogin[BrowserOf[u]]
      BY <1>0, <2>1 DEF SelectToken, User, LoginsOfBrowser
    <3> QED
      BY <2>1, <3>1, <3>2 DEF SelectToken
  <2>2. CASE InsertToken(u)
    <3>1. deviceTokens[BrowserOf[u]] = NoUser
      BY <2>2 DEF InsertToken
    <3>2. as[u] \in MayLogin[BrowserOf[u]]
      BY <1>0, <2>2 DEF InsertToken, Inserting, LoginsOfBrowser
    <3> QED
      BY <2>2, <3>1, <3>2 DEF InsertToken
  <2> QED
    BY <1>1, <2>1, <2>2
<1>3. u = t /\ form[t] # {}
  BY <1>2 DEF TokenStored
<1>4. deviceTokens'[BrowserOf[u]] = v
  BY <1>0, <1>2 DEF TokenStored
<1> QED
  BY <1>1, <1>2, <1>3, <1>4 DEF SelectToken, InsertToken

\* When a tab is told that it is registered, its subscription is stored, and the
\* user of that subscription has this browser's token.
THEOREM DoneIsReachableHolds ==
  ASSUME OneAccount
  PROVE  Spec => DoneIsReachable
<1> DEFINE Told(t) ==
      \E s \in subscriptions :
        <<s.person, s.region>> \in Wanted(t) /\ deviceTokens'[BrowserOf[t]] = s.user
<1>1. Init => ReachInv
  BY RowsInit DEF Init, ReachInv, LoginsOfBrowser, PersonsOfBrowser, OwnSubscriptions,
    SubscribedFirst
<1>2. ReachInv /\ [Next]_vars => ReachInv'
  BY RowsStep, LoginsStep, PersonsOfBrowserStep, OwnSubscriptionsStep, SubscribedFirstStep
    DEF ReachInv
<1>3. ReachInv /\ [Next]_vars => [\A t \in registered' \ registered : Told(t)]_vars
  <2> SUFFICES ASSUME ReachInv, [Next]_vars, NEW t \in registered' \ registered
               PROVE  Told(t)
    OBVIOUS
  <2>1. /\ t \in Tabs /\ pc[t] \in {"select_token", "insert_token"} /\ form[t] # {}
        /\ deviceTokens'[BrowserOf[t]] \in MayLogin[BrowserOf[t]]
    BY ToldStep DEF ReachInv
  <2>2. PICK s \in subscriptions : <<s.person, s.region>> \in Wanted(t)
    BY <2>1 DEF ReachInv, SubscribedFirst, Subscribed
  <2>3. s.person \in person[t]
    BY <2>1, <2>2, WantedIsOne DEF ReachInv
  <2>4. s.user \in MayLogin[BrowserOf[t]]
    BY <2>1, <2>3 DEF ReachInv, PersonsOfBrowser, OwnSubscriptions
  <2>5. s.user = deviceTokens'[BrowserOf[t]]
    BY <2>1, <2>4, RegistrationAssumption DEF OneAccount
  <2> QED
    BY <2>2, <2>5
<1> QED
  BY <1>1, <1>2, <1>3, PTL DEF Spec, DoneIsReachable

(***************************************************************************)
(* The names of regions.                                                   *)
(***************************************************************************)
Names == Seq(STRING)

\* Normalising takes at most the last syllable away.
LEMMA NormalizedIsPrefix ==
  ASSUME NEW n \in Names
  PROVE  /\ NormalizeSigungu(n) \in Names
         /\ \A i \in 1..Len(NormalizeSigungu(n)) : NormalizeSigungu(n)[i] = n[i]
         /\ \/ Len(NormalizeSigungu(n)) = Len(n)
            \/ Len(NormalizeSigungu(n)) = Len(n) - 1 /\ Len(n) >= 3
<1> DEFINE m == NormalizeSigungu(n)
<1>1. CASE m = n
  <2>1. \A i \in 1..Len(m) : m[i] = n[i]
    BY <1>1, Zenon
  <2>2. m \in Names /\ Len(m) = Len(n)
    BY <1>1, Zenon
  <2> QED
    BY <2>1, <2>2, Zenon
<1>2. CASE m = SubSeq(n, 1, Len(n) - 1) /\ Len(n) >= 3
  BY <1>2 DEF Names
<1> QED
  BY <1>1, <1>2 DEF NormalizeSigungu

\* A name that begins with another still does so, or the other way round,
\* when both are normalised.
LEMMA NormalizingKeepsStart ==
  ASSUME NEW a \in Names, NEW b \in Names, StartsWith(a, b)
  PROVE  \/ StartsWith(NormalizeSigungu(a), NormalizeSigungu(b))
         \/ StartsWith(NormalizeSigungu(b), NormalizeSigungu(a))
<1> DEFINE na == NormalizeSigungu(a)
           nb == NormalizeSigungu(b)
<1>1. /\ na \in Names /\ nb \in Names
      /\ \A i \in 1..Len(na) : na[i] = a[i]
      /\ \A i \in 1..Len(nb) : nb[i] = b[i]
      /\ Len(na) \in Nat /\ Len(nb) \in Nat
      /\ Len(na) <= Len(a) /\ Len(nb) <= Len(b)
  <2>1. na \in Names /\ nb \in Names
    BY NormalizedIsPrefix
  <2>2. Len(na) \in Nat /\ Len(nb) \in Nat /\ Len(a) \in Nat /\ Len(b) \in Nat
    BY <2>1 DEF Names
  <2> QED
    BY <2>1, <2>2, NormalizedIsPrefix
<1>2. \A i \in 1..Len(b) : a[i] = b[i]
  BY DEF StartsWith
<1>3. Len(a) \in Nat /\ Len(b) \in Nat /\ Len(b) <= Len(a)
  BY DEF StartsWith, Names
<1> HIDE DEF na, nb
<1>4. CASE Len(nb) <= Len(na)
  <2>1. StartsWith(na, nb)
    BY <1>1, <1>2, <1>3, <1>4 DEF StartsWith
  <2> QED
    BY <2>1 DEF na, nb
<1>5. CASE Len(na) < Len(nb)
  <2>1. StartsWith(nb, na)
    BY <1>1, <1>2, <1>3, <1>5 DEF StartsWith
  <2> QED
    BY <2>1 DEF na, nb
<1> QED
  BY <1>1, <1>4, <1>5

\* The whole of a sido is stored under its own name.
LEMMA WholeIsKept == NormalizeSigungu(Whole) = Whole
BY DEF NormalizeSigungu, Whole

\* get_or_create_region stores names normalised and regions_match normalises
\* them again: that never turns a match into a mismatch.
THEOREM StoringKeepsMatches ==
  ASSUME NEW sido1, NEW sido2, NEW a \in Names, NEW b \in Names,
         RegionsMatch([sido |-> sido1, sigungu |-> a], [sido |-> sido2, sigungu |-> b])
  PROVE  RegionsMatch(StoredRegion(sido1, a), StoredRegion(sido2, b))
<1> DEFINE na == NormalizeSigungu(a)
           nb == NormalizeSigungu(b)
<1>1. CanonicalSido(sido1) = CanonicalSido(sido2)
  BY DEF RegionsMatch
<1>2. na \in Names /\ nb \in Names
  BY NormalizedIsPrefix
<1>3. CASE Whole \in {a, b}
  BY <1>1, <1>3, WholeIsKept DEF RegionsMatch, StoredRegion
<1>4. CASE StartsWith(na, nb) \/ StartsWith(nb, na)
  <2>1. \/ StartsWith(NormalizeSigungu(na), NormalizeSigungu(nb))
        \/ StartsWith(NormalizeSigungu(nb), NormalizeSigungu(na))
    BY <1>2, <1>4, NormalizingKeepsStart
  <2> QED
    BY <1>1, <2>1 DEF RegionsMatch, StoredRegion
<1> QED
  BY <1>3, <1>4 DEF RegionsMatch
=============================================================================
