------------------------------ MODULE Dispatch ------------------------------
(***************************************************************************)
(* The dispatch stage (app/services/dispatch.py, app/services/push.py) and *)
(* the registration of devices it depends on (crud.register_device_token,  *)
(* syncPushToken of app/static/app.js).                                    *)
(*                                                                         *)
(* A dispatcher is the end of an ingestion cycle: it lists the unsent      *)
(* notifications once, pushes each to every device of its user and writes  *)
(* sent_at and the deletion of dead tokens in a single commit at the very  *)
(* end.  FCM is external: it accepts a push, says 404 for a dead token, or *)
(* fails in passing; and it may accept a push whose answer does not come   *)
(* back within the 10 seconds the client waits.  A dead token never comes  *)
(* back; the page gets a fresh one from the browser when it is opened.     *)
(***************************************************************************)
EXTENDS Naturals, FiniteSets

LOCAL INSTANCE Functions

CONSTANTS
  Dispatchers,   \* threads that may run dispatch_unsent_notifications
  Alerts,        \* rows of notifications
  Users, NoUser,
  Owner,         \* the user behind an alert's subscription
  Devices,       \* browsers
  UserOf,        \* who is logged in on a device
  Tokens,        \* bound: the FCM tokens there are
  InitialTokens, \* the token each device has issued and registered at first
  FcmEnabled,    \* whether FCM credentials are configured
  AutoFlush,     \* the session option: FALSE in app/database.py
  MaxFailures,   \* bound: how many dispatchers may die
  MaxUnheard,    \* bound: how many accepted pushes may look like an error
  MaxFaults      \* bound: how many of both there may be

ASSUME DispatchAssumption ==
  /\ IsFiniteSet(Dispatchers)
  /\ NoUser \notin Users
  /\ Owner \in [Alerts -> Users]
  /\ UserOf \in [Devices -> Users]
  /\ InitialTokens \in [Devices -> Tokens]
  /\ FcmEnabled \in BOOLEAN /\ AutoFlush \in BOOLEAN
  /\ MaxFailures \in Nat /\ MaxUnheard \in Nat /\ MaxFaults \in Nat

VARIABLES
  created,       \* notifications committed by the pipeline
  sent,          \* those whose sent_at is set
  tokenOwner,    \* table device_tokens: the user a token is registered for
  alive,         \* FCM: the tokens a push can reach
  issued,        \* FCM: the tokens handed out so far
  deviceToken,   \* the token a device last got from getToken
  opening,       \* devices whose page has a token and has not posted it yet
  pc, unsent, current, left, delivered, marked, deleted, removed,
                 \* a dispatcher's place and local variables
  pushes,        \* history: how often FCM accepted an alert for a token
  failures,      \* history: dispatchers that died
  unheard        \* history: how often FCM accepted an alert for a token and the
                 \* answer was lost

deviceVars == <<tokenOwner, alive, issued, deviceToken, opening>>
localVars == <<unsent, current, left, delivered, marked, deleted, removed>>
history == <<pushes, failures, unheard>>
vars == <<created, sent, deviceVars, pc, localVars, history>>

Faults == failures + SumFunction(unheard)

TokensOf(u) == {t \in Tokens : tokenOwner[t] = u}

Init ==
  /\ created = {} /\ sent = {}
  /\ issued = {InitialTokens[b] : b \in Devices} /\ alive = issued
  /\ tokenOwner = [t \in Tokens |->
                     IF t \in issued
                       THEN UserOf[CHOOSE b \in Devices : InitialTokens[b] = t]
                       ELSE NoUser]
  /\ deviceToken = InitialTokens
  /\ opening = {}
  /\ pc = [d \in Dispatchers |-> "idle"]
  /\ unsent = [d \in Dispatchers |-> {}]
  /\ current = [d \in Dispatchers |-> {}]
  /\ left = [d \in Dispatchers |-> {}]
  /\ delivered = [d \in Dispatchers |-> FALSE]
  /\ marked = [d \in Dispatchers |-> {}]
  /\ deleted = [d \in Dispatchers |-> {}]
  /\ removed = [d \in Dispatchers |-> 0]
  /\ pushes = [p \in Alerts \X Tokens |-> 0] /\ failures = 0
  /\ unheard = [p \in Alerts \X Tokens |-> 0]

(***************************************************************************)
(* The environment: new notifications, tokens that die, pages that open.   *)
(***************************************************************************)
CreateAlert(n) ==
  /\ n \notin created
  /\ created' = created \cup {n}
  /\ UNCHANGED <<sent, deviceVars, pc, localVars, history>>

\* FCM drops a token (app removed, subscription gone).  Bound: only while an
\* unused token is left for the device to get.
TokenDies(t) ==
  /\ t \in alive /\ Tokens # issued
  /\ alive' = alive \ {t}
  /\ UNCHANGED <<created, sent, tokenOwner, issued, deviceToken, opening, pc,
                 localVars, history>>

\* Mutant: the page registers the token of its local storage, as it did
\* before the incident of 2026-07-29.
IssueCachedToken(b, t) == t = deviceToken[b]

\* issuePushToken: getToken answers the device's token, or a fresh one when
\* that token is dead.
IssueToken(b, t) == IF deviceToken[b] \in alive THEN t = deviceToken[b]
                                                ELSE t \in Tokens \ issued

OpenPage(b) ==
  /\ b \notin opening
  /\ \E t \in Tokens :
       /\ IssueToken(b, t)
       /\ issued' = issued \cup {t}
       /\ alive' = alive \cup ({t} \ issued)
       /\ deviceToken' = [deviceToken EXCEPT ![b] = t]
  /\ opening' = opening \cup {b}
  /\ UNCHANGED <<created, sent, tokenOwner, pc, localVars, history>>

\* POST /device-tokens: the token's row is created or moved to this user.
Register(b) ==
  /\ b \in opening
  /\ opening' = opening \ {b}
  /\ tokenOwner' = [tokenOwner EXCEPT ![deviceToken[b]] = UserOf[b]]
  /\ UNCHANGED <<created, sent, alive, issued, deviceToken, pc, localVars,
                 history>>

(***************************************************************************)
(* dispatch_unsent_notifications.                                          *)
(***************************************************************************)
\* Mutant: the rows of a transaction that is not committed are listed too.
ListUncommitted(d) ==
  /\ pc[d] = "idle"
  /\ pc' = [pc EXCEPT ![d] = "loop"]
  /\ unsent' = [unsent EXCEPT ![d] = Alerts \ sent]
  /\ UNCHANGED <<created, sent, deviceVars, current, left, delivered, marked,
                 deleted, removed, history>>

\* Mutant: the filter on sent_at is lost.
ListAll(d) ==
  /\ pc[d] = "idle"
  /\ pc' = [pc EXCEPT ![d] = "loop"]
  /\ unsent' = [unsent EXCEPT ![d] = created]
  /\ UNCHANGED <<created, sent, deviceVars, current, left, delivered, marked,
                 deleted, removed, history>>

ListUnsent(d) ==
  /\ pc[d] = "idle"
  /\ pc' = [pc EXCEPT ![d] = "loop"]
  /\ unsent' = [unsent EXCEPT ![d] = created \ sent]
  /\ UNCHANGED <<created, sent, deviceVars, current, left, delivered, marked,
                 deleted, removed, history>>

\* The user's tokens as the session sees them: without autoflush a token it
\* has already deleted is still selected.
VisibleTokens(d, u) == TokensOf(u) \ (IF AutoFlush THEN deleted[d] ELSE {})

\* The next notification.  Without a device it stays unsent (no_target).
NextAlert(d) ==
  /\ pc[d] = "loop" /\ current[d] = {}
  /\ \E n \in unsent[d] :
       /\ unsent' = [unsent EXCEPT ![d] = @ \ {n}]
       /\ LET tokens == VisibleTokens(d, Owner[n])
          IN  IF tokens = {}
                THEN UNCHANGED <<current, left>>
                ELSE /\ current' = [current EXCEPT ![d] = {n}]
                     /\ left' = [left EXCEPT ![d] = tokens]
  /\ delivered' = [delivered EXCEPT ![d] = FALSE]
  /\ UNCHANGED <<created, sent, deviceVars, pc, marked, deleted, removed,
                 history>>

\* FcmClient.send: "mock" without credentials; else what FCM answers.  Any
\* failure but a 404 is "error", also a timeout or a broken connection after
\* FCM has accepted the push.
Answers(t) ==
  IF ~FcmEnabled THEN {[status |-> "mock", accepted |-> TRUE]}
  ELSE IF t \in alive THEN {[status |-> "sent", accepted |-> TRUE]}
                           \cup [status : {"error"}, accepted : BOOLEAN]
  ELSE [status : {"invalid_token", "error"}, accepted : {FALSE}]

Ok(status) == status \in {"sent", "mock"}

\* Mutant: any failure costs the registration.
InvalidWhenFailed(status) == status \in {"invalid_token", "error"}

Invalid(status) == status = "invalid_token"

\* Accepted by FCM, and an error to the dispatcher.
Unheard(answer) == answer.accepted /\ ~Ok(answer.status)

\* A count per alert and token, after one more for the alert in hand.
OneMore(count, d, t) ==
  [p \in Alerts \X Tokens |-> IF p \in current[d] \X {t} THEN count[p] + 1 ELSE count[p]]

Send(d, t, answer) ==
  /\ t \in left[d] /\ answer \in Answers(t)
  /\ left' = [left EXCEPT ![d] = @ \ {t}]
  /\ IF Invalid(answer.status)
       THEN /\ deleted' = [deleted EXCEPT ![d] = @ \cup {t}]
            /\ removed' = [removed EXCEPT ![d] = @ + 1]
       ELSE UNCHANGED <<deleted, removed>>
  /\ delivered' = [delivered EXCEPT ![d] = @ \/ Ok(answer.status)]
  /\ pushes' = IF answer.accepted THEN OneMore(pushes, d, t) ELSE pushes
  /\ unheard' = IF Unheard(answer) THEN OneMore(unheard, d, t) ELSE unheard
  /\ Unheard(answer) => SumFunction(unheard) < MaxUnheard /\ Faults < MaxFaults
  /\ UNCHANGED <<created, sent, deviceVars, pc, unsent, current, marked, failures>>

\* Mutant: an alert is marked sent once its devices have been tried.
EndAlertAnyway(d) ==
  /\ current[d] # {} /\ left[d] = {}
  /\ marked' = [marked EXCEPT ![d] = @ \cup current[d]]
  /\ current' = [current EXCEPT ![d] = {}]
  /\ UNCHANGED <<created, sent, deviceVars, pc, unsent, left, delivered, deleted,
                 removed, history>>

\* All devices tried: sent_at is set if one of them accepted.
EndAlert(d) ==
  /\ current[d] # {} /\ left[d] = {}
  /\ marked' = [marked EXCEPT ![d] = IF delivered[d] THEN @ \cup current[d] ELSE @]
  /\ current' = [current EXCEPT ![d] = {}]
  /\ UNCHANGED <<created, sent, deviceVars, pc, unsent, left, delivered, deleted,
                 removed, history>>

Commit(d) ==
  /\ pc[d] = "loop" /\ unsent[d] = {} /\ current[d] = {}
  /\ pc' = [pc EXCEPT ![d] = "idle"]
  /\ sent' = sent \cup marked[d]
  /\ tokenOwner' = [t \in Tokens |-> IF t \in deleted[d] THEN NoUser ELSE tokenOwner[t]]
  /\ marked' = [marked EXCEPT ![d] = {}]
  /\ deleted' = [deleted EXCEPT ![d] = {}]
  /\ removed' = [removed EXCEPT ![d] = 0]
  /\ UNCHANGED <<created, alive, issued, deviceToken, opening, unsent, current,
                 left, delivered, history>>

\* The instance stops before the commit: what FCM accepted stays accepted.
Die(d) ==
  /\ pc[d] # "idle" /\ failures < MaxFailures /\ Faults < MaxFaults
  /\ failures' = failures + 1
  /\ pc' = [pc EXCEPT ![d] = "idle"]
  /\ unsent' = [unsent EXCEPT ![d] = {}]
  /\ current' = [current EXCEPT ![d] = {}]
  /\ left' = [left EXCEPT ![d] = {}]
  /\ delivered' = [delivered EXCEPT ![d] = FALSE]
  /\ marked' = [marked EXCEPT ![d] = {}]
  /\ deleted' = [deleted EXCEPT ![d] = {}]
  /\ removed' = [removed EXCEPT ![d] = 0]
  /\ UNCHANGED <<created, sent, deviceVars, pushes, unheard>>

DispatchStep(d) ==
  \/ ListUnsent(d) \/ NextAlert(d) \/ EndAlert(d) \/ Commit(d)
  \/ \E t \in Tokens : \E answer \in Answers(t) : Send(d, t, answer)

Next ==
  \/ \E n \in Alerts : CreateAlert(n)
  \/ \E t \in Tokens : TokenDies(t)
  \/ \E b \in Devices : OpenPage(b) \/ Register(b)
  \/ \E d \in Dispatchers : DispatchStep(d) \/ Die(d)

Spec == Init /\ [][Next]_vars

\* A push of n to t that goes through and is answered.
Reaches(d, n, t) ==
  n \in current[d] /\ \E answer \in Answers(t) : Ok(answer.status) /\ Send(d, t, answer)

\* Cycles run for ever, users open the page again and again, and an alert
\* that is pushed again and again to live tokens is accepted, and answered,
\* at last.
FairSpec ==
  /\ Spec
  /\ \A d \in Dispatchers : WF_vars(DispatchStep(d))
  /\ \A b \in Devices : WF_vars(OpenPage(b) \/ Register(b))
  /\ \A n \in Alerts : SF_vars(\E d \in Dispatchers, t \in Tokens : Reaches(d, n, t))

\* The same where each token, tried again and again, accepts at last.
TokenFairSpec ==
  /\ FairSpec
  /\ \A d \in Dispatchers, n \in Alerts, t \in Tokens : SF_vars(Reaches(d, n, t))

(***************************************************************************)
(* Properties.                                                             *)
(***************************************************************************)
\* The tables and the dispatchers' local variables hold what they should.
TypeOK ==
  /\ created \subseteq Alerts /\ sent \subseteq created
  /\ tokenOwner \in [Tokens -> Users \cup {NoUser}]
  /\ issued \subseteq Tokens /\ alive \subseteq issued
  /\ deviceToken \in [Devices -> Tokens] /\ opening \subseteq Devices
  /\ pc \in [Dispatchers -> {"idle", "loop"}]
  /\ unsent \in [Dispatchers -> SUBSET created]
  /\ current \in [Dispatchers -> SUBSET created]
  /\ left \in [Dispatchers -> SUBSET Tokens]
  /\ delivered \in [Dispatchers -> BOOLEAN]
  /\ marked \in [Dispatchers -> SUBSET created]
  /\ deleted \in [Dispatchers -> SUBSET Tokens]
  /\ removed \in [Dispatchers -> Nat]
  /\ pushes \in [Alerts \X Tokens -> Nat]
  /\ failures \in 0..MaxFailures
  /\ unheard \in [Alerts \X Tokens -> Nat]

WasAccepted(n) == \E t \in Tokens : pushes[<<n, t>>] > 0

\* An alert shown as sent reached at least one device, whatever errors, dead
\* tokens, crashes and other dispatchers there were.
SentWasAccepted == \A n \in sent : WasAccepted(n)

\* A device is forgotten only when FCM has said that its token is dead:
\* transient errors never cost a registration.
OnlyDeadForgotten ==
  [][\A t \in alive : tokenOwner[t] # NoUser => tokenOwner'[t] # NoUser]_vars

\* What was accepted by a device is not pushed to it again.
NoRepeatedPush == \A p \in Alerts \X Tokens : pushes[p] <= 1

\* A device gets an alert at most once from each dispatcher, once more for
\* each dispatcher that died between a push and its commit, and once more for
\* each of its own answers that was lost: neither listing again, nor a failure
\* at another device, nor a new registration of the token repeats a push.
RepeatsBounded ==
  \A p \in Alerts \X Tokens :
    pushes[p] <= Cardinality(Dispatchers) + failures + unheard[p]

\* The log line on removed tokens counts the rows that are deleted.
RemovedCountExact ==
  \A d \in Dispatchers : removed[d] = Cardinality(deleted[d])

\* An alert does not stay unsent for ever: its user's page registers a live
\* token again and some cycle gets it through.
EventuallySent == \A n \in Alerts : n \in created ~> n \in sent

\* Every device of the user gets the alert unless it is gone: a device whose
\* push failed is tried again.
EveryDeviceReached ==
  \A n \in Alerts, t \in Tokens :
    (n \in created /\ tokenOwner[t] = Owner[n])
      ~> (pushes[<<n, t>>] > 0 \/ t \notin alive \/ tokenOwner[t] # Owner[n])
=============================================================================
