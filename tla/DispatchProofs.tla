--------------------------- MODULE DispatchProofs ---------------------------
(***************************************************************************)
(* Proofs about Dispatch, for any number of dispatchers, alerts, devices   *)
(* and tokens, with crashes.                                               *)
(***************************************************************************)
EXTENDS Dispatch, FiniteSetTheorems, TLAPS

\* A push the client calls good was accepted, and only a dead token is called
\* invalid.
LEMMA AnswersOfFcm ==
  ASSUME NEW t \in Tokens, NEW answer \in Answers(t)
  PROVE  /\ Ok(answer.status) => answer.accepted
         /\ Invalid(answer.status) => t \notin alive
<1>1. CASE ~FcmEnabled
  BY <1>1 DEF Answers, Ok, Invalid
<1>2. CASE FcmEnabled /\ t \in alive
  <2>1. answer = [status |-> "sent", accepted |-> TRUE] \/ answer \in [status : {"error"}, accepted : BOOLEAN]
    BY <1>2 DEF Answers
  <2>2. answer.status \in {"sent", "error"} /\ (answer.status = "sent" => answer.accepted)
    BY <2>1
  <2> QED
    BY <2>2 DEF Ok, Invalid
<1>3. CASE FcmEnabled /\ t \notin alive
  <2>1. answer \in [status : {"invalid_token", "error"}, accepted : {FALSE}]
    BY <1>3 DEF Answers
  <2>2. answer.status \in {"invalid_token", "error"}
    BY <2>1
  <2> QED
    BY <1>3, <2>2 DEF Ok, Invalid
<1> QED
  BY <1>1, <1>2, <1>3

\* The tables and the dispatchers' local variables keep their types.
THEOREM TypeCorrect == Spec => []TypeOK
<1> USE DispatchAssumption
<1>1. Init => TypeOK
  BY DEF Init, TypeOK
<1>2. TypeOK /\ [Next]_vars => TypeOK'
  <2> SUFFICES ASSUME TypeOK, [Next]_vars PROVE TypeOK'
    OBVIOUS
  <2> USE DEF TypeOK, deviceVars, localVars, history
  <2>1. ASSUME NEW n \in Alerts, CreateAlert(n) PROVE TypeOK'
    BY <2>1 DEF CreateAlert
  <2>2. ASSUME NEW t \in Tokens, TokenDies(t) PROVE TypeOK'
    BY <2>2 DEF TokenDies
  <2>3. ASSUME NEW b \in Devices, OpenPage(b) PROVE TypeOK'
    BY <2>3 DEF OpenPage
  <2>4. ASSUME NEW b \in Devices, Register(b) PROVE TypeOK'
    BY <2>4 DEF Register
  <2>5. ASSUME NEW d \in Dispatchers, ListUnsent(d) PROVE TypeOK'
    BY <2>5 DEF ListUnsent
  <2>6. ASSUME NEW d \in Dispatchers, NextAlert(d) PROVE TypeOK'
    <3>1. PICK n \in unsent[d] :
            /\ unsent' = [unsent EXCEPT ![d] = @ \ {n}]
            /\ \/ UNCHANGED <<current, left>>
               \/ /\ current' = [current EXCEPT ![d] = {n}]
                  /\ left' = [left EXCEPT ![d] = VisibleTokens(d, Owner[n])]
      BY <2>6 DEF NextAlert
    <3>2. VisibleTokens(d, Owner[n]) \subseteq Tokens
      BY DEF VisibleTokens, TokensOf
    <3>3. left' \in [Dispatchers -> SUBSET Tokens]
      BY <3>1, <3>2
    <3>4. current' \in [Dispatchers -> SUBSET created] /\ unsent' \in [Dispatchers -> SUBSET created]
      BY <3>1
    <3>5. /\ delivered' \in [Dispatchers -> BOOLEAN]
          /\ UNCHANGED <<created, sent, deviceVars, pc, marked, deleted, removed,
                         history>>
      BY <2>6 DEF NextAlert
    <3> QED
      BY <3>3, <3>4, <3>5
  <2>7. ASSUME NEW d \in Dispatchers, NEW t \in Tokens, NEW answer, Send(d, t, answer)
        PROVE  TypeOK'
    <3>1. current[d] \subseteq Alerts
      OBVIOUS
    <3>2. pushes' \in [Alerts \X Tokens -> Nat] /\ unheard' \in [Alerts \X Tokens -> Nat]
      BY <2>7, <3>1 DEF Send, OneMore
    <3>3. delivered' \in [Dispatchers -> BOOLEAN]
      BY <2>7 DEF Send, Ok
    <3>4. /\ deleted' \in [Dispatchers -> SUBSET Tokens]
          /\ removed' \in [Dispatchers -> Nat]
          /\ left' \in [Dispatchers -> SUBSET Tokens]
      BY <2>7 DEF Send
    <3> QED
      BY <2>7, <3>2, <3>3, <3>4 DEF Send
  <2>8. ASSUME NEW d \in Dispatchers, EndAlert(d) PROVE TypeOK'
    BY <2>8 DEF EndAlert
  <2>9. ASSUME NEW d \in Dispatchers, Commit(d) PROVE TypeOK'
    BY <2>9 DEF Commit
  <2>10. ASSUME NEW d \in Dispatchers, Die(d) PROVE TypeOK'
    BY <2>10 DEF Die
  <2>11. CASE UNCHANGED vars
    BY <2>11 DEF vars
  <2> QED
    BY <2>1, <2>2, <2>3, <2>4, <2>5, <2>6, <2>7, <2>8, <2>9, <2>10, <2>11
       DEF Next, DispatchStep
<1>3. QED
  BY <1>1, <1>2, PTL DEF Spec

\* What a dispatcher is about to write was accepted by a device.
MarkedWasAccepted ==
  \A d \in Dispatchers :
    /\ \A n \in marked[d] : WasAccepted(n)
    /\ delivered[d] => \A n \in current[d] : WasAccepted(n)

\* An alert whose sent_at is set was accepted by a device of its user, with
\* any number of dispatchers, dead tokens and crashes: sent_at is only written
\* from the flag that a successful push sets.
THEOREM SentCorrect == Spec => []SentWasAccepted
<1> DEFINE Inv == SentWasAccepted /\ MarkedWasAccepted
<1>1. Init => Inv
  BY DEF Init, SentWasAccepted, MarkedWasAccepted
<1>2. TypeOK /\ Inv /\ [Next]_vars => Inv'
  <2> SUFFICES ASSUME TypeOK, Inv, [Next]_vars PROVE Inv'
    OBVIOUS
  <2>0. pushes' = pushes => \A n : WasAccepted(n) => WasAccepted(n)'
    BY DEF WasAccepted
  <2> USE DEF TypeOK, SentWasAccepted, MarkedWasAccepted, deviceVars, localVars, history
  <2>1. ASSUME NEW d \in Dispatchers, NextAlert(d) PROVE Inv'
    BY <2>0, <2>1 DEF NextAlert
  <2>2. ASSUME NEW d \in Dispatchers, NEW t \in Tokens, NEW answer, Send(d, t, answer)
        PROVE  Inv'
    <3>1. \A n \in created : WasAccepted(n) => WasAccepted(n)'
      <4>1. \A p \in Alerts \X Tokens : pushes[p] > 0 => pushes'[p] > 0
        BY <2>2 DEF Send, OneMore
      <4>2. \A n \in created, u \in Tokens : <<n, u>> \in Alerts \X Tokens
        OBVIOUS
      <4> QED
        BY <4>1, <4>2 DEF WasAccepted
    <3>2. Ok(answer.status) => \A n \in current[d] : WasAccepted(n)'
      <4>1. Ok(answer.status) => answer.accepted
        BY <2>2, AnswersOfFcm DEF Send
      <4> QED
        BY <2>2, <4>1 DEF Send, OneMore, WasAccepted
    <3> QED
      BY <2>2, <3>1, <3>2 DEF Send
  <2>3. ASSUME NEW d \in Dispatchers, EndAlert(d) PROVE Inv'
    BY <2>0, <2>3 DEF EndAlert
  <2>4. ASSUME NEW d \in Dispatchers, Commit(d) PROVE Inv'
    BY <2>0, <2>4 DEF Commit
  <2>5. ASSUME NEW d \in Dispatchers, ListUnsent(d) \/ Die(d) PROVE Inv'
    BY <2>0, <2>5 DEF ListUnsent, Die
  <2>6. CASE \/ UNCHANGED vars
             \/ \E n \in Alerts : CreateAlert(n)
             \/ \E t \in Tokens : TokenDies(t)
             \/ \E b \in Devices : OpenPage(b) \/ Register(b)
    BY <2>0, <2>6 DEF vars, CreateAlert, TokenDies, OpenPage, Register
  <2> QED
    BY <2>1, <2>2, <2>3, <2>4, <2>5, <2>6 DEF Next, DispatchStep
<1>3. QED
  BY <1>1, <1>2, TypeCorrect, PTL DEF Spec

\* Registered tokens and the ones about to be registered were issued, and the
\* tokens a dispatcher deletes are dead for good.
DeletedAreDead ==
  /\ \A b \in Devices : deviceToken[b] \in issued
  /\ \A t \in Tokens : tokenOwner[t] # NoUser => t \in issued
  /\ \A d \in Dispatchers : left[d] \subseteq issued
  /\ \A d \in Dispatchers : deleted[d] \subseteq issued \ alive

\* A live registration is never removed: only a 404 puts a token on the list
\* of deletions, and a token FCM has given up never becomes valid again.
THEOREM ForgottenCorrect == Spec => OnlyDeadForgotten
<1> USE DispatchAssumption
<1>1. Init => DeletedAreDead
  BY DEF Init, DeletedAreDead
<1>2. TypeOK /\ DeletedAreDead /\ [Next]_vars => DeletedAreDead'
  <2> SUFFICES ASSUME TypeOK, DeletedAreDead, [Next]_vars PROVE DeletedAreDead'
    OBVIOUS
  <2> USE DEF TypeOK, DeletedAreDead, deviceVars, localVars, history
  <2>1. ASSUME NEW b \in Devices, OpenPage(b) PROVE DeletedAreDead'
    BY <2>1 DEF OpenPage
  <2>2. ASSUME NEW b \in Devices, Register(b) PROVE DeletedAreDead'
    BY <2>2 DEF Register
  <2>3. ASSUME NEW d \in Dispatchers, NextAlert(d) PROVE DeletedAreDead'
    <3>1. \A u \in Users : VisibleTokens(d, u) \subseteq issued
      BY DEF VisibleTokens, TokensOf
    <3>2. PICK n \in unsent[d] :
            \/ UNCHANGED left
            \/ left' = [left EXCEPT ![d] = VisibleTokens(d, Owner[n])]
      BY <2>3 DEF NextAlert
    <3>3. Owner[n] \in Users
      OBVIOUS
    <3>4. \A e \in Dispatchers : left'[e] \subseteq issued
      BY <3>1, <3>2, <3>3
    <3>5. UNCHANGED <<deviceToken, tokenOwner, issued, alive, deleted>>
      BY <2>3 DEF NextAlert
    <3> QED
      BY <3>4, <3>5
  <2>4. ASSUME NEW d \in Dispatchers, NEW t \in Tokens, NEW answer, Send(d, t, answer)
        PROVE  DeletedAreDead'
    <3>1. Invalid(answer.status) => t \in issued \ alive
      BY <2>4, AnswersOfFcm DEF Send
    <3>2. \A e \in Dispatchers : deleted'[e] \subseteq issued \ alive
      BY <2>4, <3>1 DEF Send
    <3>3. \A e \in Dispatchers : left'[e] \subseteq issued
      BY <2>4 DEF Send
    <3>4. UNCHANGED <<deviceToken, tokenOwner, issued, alive>>
      BY <2>4 DEF Send
    <3> QED
      BY <3>2, <3>3, <3>4
  <2>5. ASSUME NEW d \in Dispatchers, Commit(d) PROVE DeletedAreDead'
    BY <2>5 DEF Commit
  <2>6. ASSUME NEW d \in Dispatchers, ListUnsent(d) \/ EndAlert(d) \/ Die(d)
        PROVE  DeletedAreDead'
    BY <2>6 DEF ListUnsent, EndAlert, Die
  <2>7. CASE \/ UNCHANGED vars
             \/ \E n \in Alerts : CreateAlert(n)
             \/ \E t \in Tokens : TokenDies(t)
    BY <2>7 DEF vars, CreateAlert, TokenDies
  <2> QED
    BY <2>1, <2>2, <2>3, <2>4, <2>5, <2>6, <2>7 DEF Next, DispatchStep
<1>3. TypeOK /\ DeletedAreDead /\ [Next]_vars =>
        [\A t \in alive : tokenOwner[t] # NoUser => tokenOwner'[t] # NoUser]_vars
  <2> SUFFICES ASSUME TypeOK, DeletedAreDead, Next,
                      NEW t \in alive, tokenOwner[t] # NoUser
               PROVE  tokenOwner'[t] # NoUser
    OBVIOUS
  <2> USE DEF TypeOK, deviceVars, localVars, history
  <2>1. ASSUME NEW b \in Devices, Register(b) PROVE tokenOwner'[t] # NoUser
    BY <2>1 DEF Register
  <2>2. ASSUME NEW d \in Dispatchers, Commit(d) PROVE tokenOwner'[t] # NoUser
    BY <2>2 DEF Commit, DeletedAreDead
  <2>3. CASE UNCHANGED tokenOwner
    BY <2>3
  <2> QED
    BY <2>1, <2>2, <2>3 DEF Next, DispatchStep, CreateAlert, TokenDies, OpenPage,
       ListUnsent, NextAlert, Send, EndAlert, Die
<1>4. QED
  BY <1>1, <1>2, <1>3, TypeCorrect, PTL DEF Spec, OnlyDeadForgotten

(***************************************************************************)
(* How often a push is repeated.                                           *)
(***************************************************************************)
\* Dispatcher d still has the push of n to t ahead of it.
MayPush(d, n, t) == n \in unsent[d] \/ (n \in current[d] /\ t \in left[d])

\* The dispatchers that have had their push of n to t: they have it in hand,
\* or are kept from another because the alert is marked as sent.
HadPush(n, t) ==
  {d \in Dispatchers :
     \/ n \in marked[d]
     \/ n \in current[d] /\ t \notin left[d] /\ delivered[d]
     \/ n \in sent /\ ~MayPush(d, n, t)}

\* A dispatcher has an alert in one place, and none when it is idle.
OnePlace ==
  \A d \in Dispatchers :
    /\ unsent[d] \cap current[d] = {} /\ unsent[d] \cap marked[d] = {}
    /\ current[d] \cap marked[d] = {}
    /\ pc[d] = "idle" => unsent[d] = {} /\ current[d] = {} /\ marked[d] = {}

\* Each push is one a dispatcher has had, was forgotten in a crash, or was
\* never heard of.
PushesAccounted ==
  \A n \in Alerts, t \in Tokens :
    pushes[<<n, t>>] <= Cardinality(HadPush(n, t)) + failures + unheard[<<n, t>>]

LEMMA OnePlaceInductive == TypeOK /\ OnePlace /\ [Next]_vars => OnePlace'
<1> SUFFICES ASSUME TypeOK, OnePlace, [Next]_vars PROVE OnePlace'
  OBVIOUS
<1> USE DEF TypeOK, OnePlace, deviceVars, localVars, history
<1>1. ASSUME NEW d \in Dispatchers, ListUnsent(d) PROVE OnePlace'
  BY <1>1 DEF ListUnsent
<1>2. ASSUME NEW d \in Dispatchers, NextAlert(d) PROVE OnePlace'
  BY <1>2 DEF NextAlert
<1>3. ASSUME NEW d \in Dispatchers, NEW t \in Tokens, NEW answer, Send(d, t, answer)
      PROVE  OnePlace'
  BY <1>3 DEF Send
<1>4. ASSUME NEW d \in Dispatchers, EndAlert(d) PROVE OnePlace'
  BY <1>4 DEF EndAlert
<1>5. ASSUME NEW d \in Dispatchers, Commit(d) \/ Die(d) PROVE OnePlace'
  BY <1>5 DEF Commit, Die
<1>6. CASE \/ UNCHANGED vars
           \/ \E n \in Alerts : CreateAlert(n)
           \/ \E t \in Tokens : TokenDies(t)
           \/ \E b \in Devices : OpenPage(b) \/ Register(b)
  BY <1>6 DEF vars, CreateAlert, TokenDies, OpenPage, Register
<1> QED
  BY <1>1, <1>2, <1>3, <1>4, <1>5, <1>6 DEF Next, DispatchStep

\* The dispatchers are finitely many, and so are those that had their push.
LEMMA HadPushFinite ==
  ASSUME NEW n, NEW t
  PROVE  /\ IsFiniteSet(HadPush(n, t))
         /\ Cardinality(HadPush(n, t)) \in Nat
         /\ Cardinality(HadPush(n, t)) <= Cardinality(Dispatchers)
  BY DispatchAssumption, FS_Subset, FS_CardinalityType DEF HadPush

\* A step that adds no push and forgets none keeps the account.
LEMMA AccountKept ==
  ASSUME TypeOK, TypeOK', PushesAccounted, UNCHANGED <<pushes, failures, unheard>>,
         \A n \in Alerts, t \in Tokens : HadPush(n, t) \subseteq HadPush(n, t)'
  PROVE  PushesAccounted'
<1> SUFFICES ASSUME NEW n \in Alerts, NEW t \in Tokens
             PROVE  pushes[<<n, t>>] <= Cardinality(HadPush(n, t)') + failures + unheard[<<n, t>>]
  BY DEF PushesAccounted
<1>1. IsFiniteSet(HadPush(n, t)')
  BY DispatchAssumption, FS_Subset DEF HadPush
<1>2. /\ Cardinality(HadPush(n, t)) <= Cardinality(HadPush(n, t)')
      /\ Cardinality(HadPush(n, t)') \in Nat
  BY <1>1, FS_Subset, FS_CardinalityType
<1>3. /\ Cardinality(HadPush(n, t)) \in Nat /\ pushes[<<n, t>>] \in Nat
      /\ failures \in Nat /\ unheard[<<n, t>>] \in Nat
  BY HadPushFinite DEF TypeOK
<1> QED
  BY <1>2, <1>3 DEF PushesAccounted

\* A push that is accepted: its dispatcher now has had it.
LEMMA AccountAfterSend ==
  ASSUME TypeOK, TypeOK', OnePlace, PushesAccounted,
         NEW d \in Dispatchers, NEW u \in Tokens, NEW answer, Send(d, u, answer)
  PROVE  PushesAccounted'
<1> USE DEF TypeOK, deviceVars, localVars, history
<1> SUFFICES ASSUME NEW n \in Alerts, NEW t \in Tokens
             PROVE  pushes'[<<n, t>>] <= Cardinality(HadPush(n, t)') + failures' + unheard'[<<n, t>>]
  BY DEF PushesAccounted
<1>1. HadPush(n, t) \subseteq HadPush(n, t)'
  BY DEF Send, HadPush, MayPush
<1>2. /\ IsFiniteSet(HadPush(n, t)) /\ IsFiniteSet(HadPush(n, t)')
      /\ Cardinality(HadPush(n, t)) \in Nat /\ Cardinality(HadPush(n, t)') \in Nat
  BY DispatchAssumption, FS_Subset, FS_CardinalityType DEF HadPush
<1>3. Cardinality(HadPush(n, t)) <= Cardinality(HadPush(n, t)')
  BY <1>1, <1>2, FS_Subset
<1>4. /\ failures' = failures /\ failures \in Nat
      /\ pushes[<<n, t>>] \in Nat /\ unheard[<<n, t>>] \in Nat
      /\ pushes[<<n, t>>] <= Cardinality(HadPush(n, t)) + failures + unheard[<<n, t>>]
  BY DEF Send, PushesAccounted
<1>5. CASE <<n, t>> \notin current[d] \X {u} \/ ~answer.accepted
  <2>1. pushes'[<<n, t>>] = pushes[<<n, t>>] /\ unheard'[<<n, t>>] = unheard[<<n, t>>]
    BY <1>5 DEF Send, Unheard, OneMore
  <2> QED
    BY <1>2, <1>3, <1>4, <2>1
<1>6. CASE <<n, t>> \in current[d] \X {u} /\ Unheard(answer)
  <2>1. /\ pushes'[<<n, t>>] = pushes[<<n, t>>] + 1
        /\ unheard'[<<n, t>>] = unheard[<<n, t>>] + 1
    BY <1>6 DEF Send, Unheard, OneMore
  <2> QED
    BY <1>2, <1>3, <1>4, <2>1
<1>7. CASE <<n, t>> \in current[d] \X {u} /\ answer.accepted /\ Ok(answer.status)
  <2>1. /\ pushes'[<<n, t>>] = pushes[<<n, t>>] + 1
        /\ unheard'[<<n, t>>] = unheard[<<n, t>>]
    BY <1>7 DEF Send, Unheard, OneMore
  <2>2. d \notin HadPush(n, t)
    BY <1>7 DEF Send, HadPush, MayPush, OnePlace
  <2>3. d \in HadPush(n, t)'
    BY <1>7 DEF Send, HadPush
  <2>4. Cardinality(HadPush(n, t) \cup {d}) = Cardinality(HadPush(n, t)) + 1
    BY <2>2, <1>2, FS_AddElement
  <2>5. Cardinality(HadPush(n, t) \cup {d}) <= Cardinality(HadPush(n, t)')
    BY <2>3, <1>1, <1>2, FS_Subset
  <2> QED
    BY <2>1, <2>4, <2>5, <1>2, <1>4
<1> QED
  BY <1>5, <1>6, <1>7 DEF Unheard

\* A crash forgets at most the push its dispatcher had, and is counted.
LEMMA AccountAfterDeath ==
  ASSUME TypeOK, TypeOK', PushesAccounted, NEW d \in Dispatchers, Die(d)
  PROVE  PushesAccounted'
<1> USE DEF TypeOK, deviceVars, localVars, history
<1> SUFFICES ASSUME NEW n \in Alerts, NEW t \in Tokens
             PROVE  pushes'[<<n, t>>] <= Cardinality(HadPush(n, t)') + failures' + unheard'[<<n, t>>]
  BY DEF PushesAccounted
<1>1. HadPush(n, t) \subseteq HadPush(n, t)' \cup {d}
  BY DEF Die, HadPush, MayPush
<1>2. /\ IsFiniteSet(HadPush(n, t)) /\ IsFiniteSet(HadPush(n, t)')
      /\ Cardinality(HadPush(n, t)) \in Nat /\ Cardinality(HadPush(n, t)') \in Nat
  BY DispatchAssumption, FS_Subset, FS_CardinalityType DEF HadPush
<1>3. /\ IsFiniteSet(HadPush(n, t)' \cup {d})
      /\ Cardinality(HadPush(n, t)' \cup {d}) \in Nat
      /\ Cardinality(HadPush(n, t)' \cup {d}) <= Cardinality(HadPush(n, t)') + 1
  <2> DEFINE after == HadPush(n, t)'
  <2> HIDE DEF after
  <2>1. IsFiniteSet(after) /\ Cardinality(after) \in Nat
    BY <1>2 DEF after
  <2>2. /\ IsFiniteSet(after \cup {d})
        /\ Cardinality(after \cup {d}) \in {Cardinality(after), Cardinality(after) + 1}
    BY <2>1, FS_AddElement
  <2> QED
    BY <2>1, <2>2 DEF after
<1>4. Cardinality(HadPush(n, t)) <= Cardinality(HadPush(n, t)' \cup {d})
  BY <1>1, <1>2, <1>3, FS_Subset
<1>5. /\ failures' = failures + 1 /\ failures \in Nat
      /\ pushes[<<n, t>>] \in Nat /\ unheard[<<n, t>>] \in Nat
      /\ pushes'[<<n, t>>] = pushes[<<n, t>>] /\ unheard'[<<n, t>>] = unheard[<<n, t>>]
      /\ pushes[<<n, t>>] <= Cardinality(HadPush(n, t)) + failures + unheard[<<n, t>>]
  BY DEF Die, PushesAccounted
<1> QED
  BY <1>2, <1>3, <1>4, <1>5

\* However dispatchers overlap, tokens die and return and cycles list again,
\* a device gets an alert no more often than there are dispatchers, crashes
\* and answers of its own that were lost.
THEOREM RepeatsCorrect == Spec => []RepeatsBounded
<1> DEFINE Inv == OnePlace /\ PushesAccounted
<1>1. Init => Inv
  <2> SUFFICES ASSUME Init PROVE Inv
    OBVIOUS
  <2>1. OnePlace
    BY DEF Init, OnePlace
  <2>2. ASSUME NEW n \in Alerts, NEW t \in Tokens
        PROVE  pushes[<<n, t>>] <= Cardinality(HadPush(n, t)) + failures + unheard[<<n, t>>]
    <3>1. pushes[<<n, t>>] = 0 /\ failures = 0 /\ unheard[<<n, t>>] = 0
      BY DEF Init
    <3> QED
      BY <3>1, HadPushFinite
  <2> QED
    BY <2>1, <2>2 DEF PushesAccounted
<1>2. TypeOK /\ TypeOK' /\ Inv /\ [Next]_vars => Inv'
  <2> SUFFICES ASSUME TypeOK, TypeOK', OnePlace, PushesAccounted, [Next]_vars
               PROVE  PushesAccounted'
    BY OnePlaceInductive
  <2>1. ASSUME NEW d \in Dispatchers, ListUnsent(d) PROVE PushesAccounted'
    <3>1. \A n \in Alerts, t \in Tokens : HadPush(n, t) \subseteq HadPush(n, t)'
      BY <2>1 DEF ListUnsent, HadPush, MayPush, OnePlace, TypeOK
    <3> QED
      BY <2>1, <3>1, AccountKept DEF ListUnsent, history
  <2>2. ASSUME NEW d \in Dispatchers, NextAlert(d) PROVE PushesAccounted'
    <3>1. \A n \in Alerts, t \in Tokens : HadPush(n, t) \subseteq HadPush(n, t)'
      BY <2>2 DEF NextAlert, HadPush, MayPush, OnePlace, TypeOK
    <3> QED
      BY <2>2, <3>1, AccountKept DEF NextAlert, history
  <2>3. ASSUME NEW d \in Dispatchers, NEW t \in Tokens, NEW answer, Send(d, t, answer)
        PROVE  PushesAccounted'
    BY <2>3, AccountAfterSend
  <2>4. ASSUME NEW d \in Dispatchers, EndAlert(d) PROVE PushesAccounted'
    <3>1. \A n \in Alerts, t \in Tokens : HadPush(n, t) \subseteq HadPush(n, t)'
      BY <2>4 DEF EndAlert, HadPush, MayPush, OnePlace, TypeOK
    <3> QED
      BY <2>4, <3>1, AccountKept DEF EndAlert, history
  <2>5. ASSUME NEW d \in Dispatchers, Commit(d) PROVE PushesAccounted'
    <3>1. \A n \in Alerts, t \in Tokens : HadPush(n, t) \subseteq HadPush(n, t)'
      BY <2>5 DEF Commit, HadPush, MayPush, OnePlace, TypeOK
    <3> QED
      BY <2>5, <3>1, AccountKept DEF Commit, history
  <2>6. ASSUME NEW d \in Dispatchers, Die(d) PROVE PushesAccounted'
    BY <2>6, AccountAfterDeath
  <2>7. CASE \/ UNCHANGED vars
             \/ \E n \in Alerts : CreateAlert(n)
             \/ \E t \in Tokens : TokenDies(t)
             \/ \E b \in Devices : OpenPage(b) \/ Register(b)
    <3>1. UNCHANGED <<sent, localVars, pushes, failures, unheard>>
      BY <2>7 DEF history, vars, CreateAlert, TokenDies, OpenPage, Register
    <3>2. \A n \in Alerts, t \in Tokens : HadPush(n, t) \subseteq HadPush(n, t)'
      BY <3>1 DEF localVars, HadPush, MayPush
    <3> QED
      BY <3>1, <3>2, AccountKept
  <2> QED
    BY <2>1, <2>2, <2>3, <2>4, <2>5, <2>6, <2>7 DEF Next, DispatchStep
<1>3. TypeOK /\ Inv => RepeatsBounded
  <2> SUFFICES ASSUME TypeOK, PushesAccounted, NEW n \in Alerts, NEW t \in Tokens
               PROVE  pushes[<<n, t>>] <= Cardinality(Dispatchers) + failures + unheard[<<n, t>>]
    BY DEF RepeatsBounded
  <2>1. /\ Cardinality(HadPush(n, t)) \in Nat
        /\ Cardinality(HadPush(n, t)) <= Cardinality(Dispatchers)
        /\ Cardinality(Dispatchers) \in Nat
    BY HadPushFinite, DispatchAssumption, FS_CardinalityType
  <2>2. pushes[<<n, t>>] \in Nat /\ failures \in Nat /\ unheard[<<n, t>>] \in Nat
    BY DEF TypeOK
  <2> QED
    BY <2>1, <2>2 DEF PushesAccounted
<1> QED
  BY <1>1, <1>2, <1>3, TypeCorrect, PTL DEF Spec
=============================================================================
