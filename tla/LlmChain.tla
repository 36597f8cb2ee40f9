------------------------------ MODULE LlmChain ------------------------------
(***************************************************************************)
(* The provider chain of app/services/llm.py and its two callers: the      *)
(* judgement of Layer 2 (app/services/risk_ai.py) and the text of an alert *)
(* (app/services/message.py), as _notify_subscription_for_event calls them *)
(* for one (subscription, event) pair.                                     *)
(*                                                                         *)
(* The threads of one process share the cooldowns and the decision cache,  *)
(* both module globals without a lock.  A provider is external: it         *)
(* answers, refuses for want of a key or of quota (401, 402, 429), or      *)
(* fails otherwise, at the latest when the call times out.                 *)
(***************************************************************************)
EXTENDS Naturals, Sequences

CONSTANTS
  Threads,     \* threads that evaluate: the scheduler's and those of requests
  Providers,
  Chain,       \* the configured providers, in order of priority
  Combos,      \* (event type, severity, age group, tags)
  Ruled,       \* the combinations Layer 1 has a level for
  Levels,      \* RiskLevel; "LOW" is the one that needs no alert
  Cooldown,    \* _QUOTA_COOLDOWN
  MaxChat,     \* bound: the longest a call of chat takes
  MaxTime,     \* bound: the time explored
  MaxRestarts  \* bound: how often the process restarts

ASSUME ChainAssumption ==
  /\ Chain \in Seq(Providers)
  /\ Ruled \subseteq Combos
  /\ "unknown" \notin Levels
  /\ Cooldown \in Nat /\ MaxChat \in Nat /\ MaxTime \in Nat /\ MaxRestarts \in Nat

VARIABLES
  now,            \* the wall clock, from 1 on
  cooldownUntil,  \* _cooldowns; 0 where the dict has no entry
  decisions,      \* _decision_cache: combination -> level, or "unknown"
  pc,             \* a thread's place
  combo,          \* what it evaluates
  purpose,        \* what it chats for: a judgement or the text of an alert
  start,          \* chat's local variable now
  next,           \* the position in the chain it is about to try
  alert,          \* what became of the pair a thread considered last
  failed,         \* history: providers that failed in a thread's chat
  refusedAt,      \* history: when a provider last refused, since the restart,
                  \* or 0
  restarts        \* history: how often the process restarted

chatVars == <<combo, purpose, start, next, failed>>
memory == <<cooldownUntil, decisions, refusedAt>>
vars == <<now, memory, pc, chatVars, alert, restarts>>

Init ==
  /\ now = 1
  /\ cooldownUntil = [p \in Providers |-> 0]
  /\ decisions = [k \in Combos |-> "unknown"]
  /\ pc = [t \in Threads |-> "idle"]
  /\ combo \in [Threads -> Combos]
  /\ purpose = [t \in Threads |-> "judge"]
  /\ start = [t \in Threads |-> 0]
  /\ next = [t \in Threads |-> 1]
  /\ alert = [t \in Threads |-> "none"]
  /\ failed = [t \in Threads |-> {}]
  /\ refusedAt = [p \in Providers |-> 0]
  /\ restarts = 0

(***************************************************************************)
(* The callers.                                                            *)
(***************************************************************************)
\* chat begins: the time is taken once, for all providers.
BeginChat(t, why) ==
  /\ pc' = [pc EXCEPT ![t] = "try"]
  /\ purpose' = [purpose EXCEPT ![t] = why]
  /\ start' = [start EXCEPT ![t] = now]
  /\ next' = [next EXCEPT ![t] = 1]
  /\ failed' = [failed EXCEPT ![t] = {}]
  /\ alert' = [alert EXCEPT ![t] = "none"]

\* The pair is done with, with or without an alert; chat's variables are gone.
Conclude(t, result) ==
  /\ pc' = [pc EXCEPT ![t] = "idle"]
  /\ alert' = [alert EXCEPT ![t] = result]
  /\ purpose' = [purpose EXCEPT ![t] = "judge"]
  /\ start' = [start EXCEPT ![t] = 0]
  /\ next' = [next EXCEPT ![t] = 1]
  /\ failed' = [failed EXCEPT ![t] = {}]

\* A judged pair: LOW ends it, any other level asks for the text.
Judged(t, level) ==
  IF level = "LOW" THEN Conclude(t, "none") ELSE BeginChat(t, "write")

Consider(t, k) ==
  /\ pc[t] = "idle"
  /\ combo' = [combo EXCEPT ![t] = k]
  /\ IF k \in Ruled THEN BeginChat(t, "write")
     ELSE IF decisions[k] # "unknown" THEN Judged(t, decisions[k])
     ELSE BeginChat(t, "judge")
  /\ UNCHANGED <<now, memory, restarts>>

(***************************************************************************)
(* chat.                                                                   *)
(***************************************************************************)
Provider(t) == Chain[next[t]]

Trying(t) == pc[t] = "try" /\ next[t] <= Len(Chain)

Cooling(t) == start[t] < cooldownUntil[Provider(t)]

Advance(t) == next' = [next EXCEPT ![t] = @ + 1]

SkipProvider(t) ==
  /\ Trying(t) /\ Cooling(t)
  /\ Advance(t)
  /\ UNCHANGED <<now, memory, pc, combo, purpose, start, failed, alert, restarts>>

CallProvider(t) ==
  /\ Trying(t) /\ ~Cooling(t)
  /\ pc' = [pc EXCEPT ![t] = "calling"]
  /\ UNCHANGED <<now, memory, chatVars, alert, restarts>>

\* The provider answers with the text of the alert.
AnswerText(t) ==
  /\ pc[t] = "calling" /\ purpose[t] = "write"
  /\ Conclude(t, "made")
  /\ UNCHANGED <<now, memory, combo, restarts>>

\* It answers with a level: the decision is cached, whoever cached one since.
AnswerLevel(t, level) ==
  /\ pc[t] = "calling" /\ purpose[t] = "judge"
  /\ decisions' = [decisions EXCEPT ![combo[t]] = level]
  /\ Judged(t, level)
  /\ UNCHANGED <<now, cooldownUntil, refusedAt, combo, restarts>>

\* It answers without one of the three levels: no other provider is asked.
AnswerUnreadable(t) ==
  /\ pc[t] = "calling" /\ purpose[t] = "judge"
  /\ Conclude(t, "none")
  /\ UNCHANGED <<now, memory, combo, restarts>>

\* The call fails and chat goes on to the next provider.
GiveUpProvider(t) ==
  /\ pc[t] = "calling"
  /\ pc' = [pc EXCEPT ![t] = "try"]
  /\ failed' = [failed EXCEPT ![t] = @ \cup {Provider(t)}]
  /\ Advance(t)
  /\ UNCHANGED <<now, decisions, combo, purpose, start, alert, restarts>>

\* Mutant: each refusal prolongs the cooldown there was.
CooldownEndProlonged(t) == cooldownUntil[Provider(t)] + Cooldown

\* A cooldown is counted from the beginning of the chat.
CooldownEnd(t) == start[t] + Cooldown

\* Mutant: 402 is missing from the list.
QuotaErrorForgotten(t) ==
  /\ GiveUpProvider(t)
  /\ refusedAt' = [refusedAt EXCEPT ![Provider(t)] = now]
  /\ UNCHANGED cooldownUntil

QuotaError(t) ==
  /\ GiveUpProvider(t)
  /\ cooldownUntil' = [cooldownUntil EXCEPT ![Provider(t)] = CooldownEnd(t)]
  /\ refusedAt' = [refusedAt EXCEPT ![Provider(t)] = now]

\* Mutant: every failure puts the provider into cooldown.
OtherErrorCools(t) ==
  /\ GiveUpProvider(t)
  /\ cooldownUntil' = [cooldownUntil EXCEPT ![Provider(t)] = CooldownEnd(t)]
  /\ UNCHANGED refusedAt

\* Another status, a timeout, a broken or an empty answer.
OtherError(t) ==
  /\ GiveUpProvider(t)
  /\ UNCHANGED <<cooldownUntil, refusedAt>>

\* Mutant: no text, no alert.
ExhaustedWithoutTemplate(t) ==
  /\ pc[t] = "try" /\ next[t] > Len(Chain)
  /\ Conclude(t, "none")
  /\ UNCHANGED <<now, memory, combo, restarts>>

\* chat returns None: an alert gets the template, a judgement is withheld.
Exhausted(t) ==
  /\ pc[t] = "try" /\ next[t] > Len(Chain)
  /\ Conclude(t, IF purpose[t] = "write" THEN "made" ELSE "none")
  /\ UNCHANGED <<now, memory, combo, restarts>>

(***************************************************************************)
(* The process and the clock.                                              *)
(***************************************************************************)
\* The process restarts: its memory is gone and so is what it was doing.
Restart ==
  /\ restarts < MaxRestarts
  /\ restarts' = restarts + 1
  /\ cooldownUntil' = [p \in Providers |-> 0]
  /\ decisions' = [k \in Combos |-> "unknown"]
  /\ refusedAt' = [p \in Providers |-> 0]
  /\ pc' = [t \in Threads |-> "idle"]
  /\ purpose' = [t \in Threads |-> "judge"]
  /\ start' = [t \in Threads |-> 0]
  /\ next' = [t \in Threads |-> 1]
  /\ failed' = [t \in Threads |-> {}]
  /\ alert' = [t \in Threads |-> IF pc[t] = "idle" THEN alert[t] ELSE "lost"]
  /\ UNCHANGED <<now, combo>>

\* Time passes, but a chat takes no longer than its providers' timeouts.
Tick ==
  /\ now < MaxTime
  /\ \A t \in Threads : pc[t] # "idle" => now < start[t] + MaxChat
  /\ now' = now + 1
  /\ UNCHANGED <<memory, pc, chatVars, alert, restarts>>

ChatStep(t) ==
  \/ SkipProvider(t) \/ CallProvider(t)
  \/ AnswerText(t) \/ AnswerUnreadable(t)
  \/ \E level \in Levels : AnswerLevel(t, level)
  \/ QuotaError(t) \/ OtherError(t) \/ Exhausted(t)

Next ==
  \/ Tick \/ Restart
  \/ \E t \in Threads : ChatStep(t) \/ \E k \in Combos : Consider(t, k)

Spec == Init /\ [][Next]_vars

\* The call to a provider ends by its timeout, and the rest is the thread's.
FairSpec == Spec /\ \A t \in Threads : WF_vars(ChatStep(t))

(***************************************************************************)
(* Properties.                                                             *)
(***************************************************************************)
\* The variables have their types; a chat is within the chain and within its
\* time, and no cooldown ends more than one period from now.
TypeOK ==
  /\ now \in Nat
  /\ cooldownUntil \in [Providers -> Nat]
  /\ \A p \in Providers : cooldownUntil[p] <= now + Cooldown
  /\ decisions \in [Combos -> Levels \cup {"unknown"}]
  /\ pc \in [Threads -> {"idle", "try", "calling"}]
  /\ combo \in [Threads -> Combos]
  /\ purpose \in [Threads -> {"judge", "write"}]
  /\ start \in [Threads -> Nat] /\ \A t \in Threads : start[t] <= now
  /\ next \in [Threads -> 1 .. Len(Chain) + 1]
  /\ \A t \in Threads : pc[t] # "idle" => now <= start[t] + MaxChat
  /\ \A t \in Threads : pc[t] = "calling" => next[t] <= Len(Chain)
  /\ alert \in [Threads -> {"none", "made", "lost"}]
  /\ failed \in [Threads -> SUBSET Providers]
  /\ refusedAt \in [Providers -> Nat] /\ \A p \in Providers : refusedAt[p] <= now
  /\ restarts \in 0 .. MaxRestarts

\* A provider that refused is left alone for the cooldown less the length of
\* a chat: threads that set its cooldown from different beginnings may
\* shorten it, but never below that.  (Calls already made are not recalled.)
QuarantineHolds ==
  [][\A t \in Threads : pc[t] = "try" /\ pc'[t] = "calling" =>
       \/ refusedAt[Provider(t)] = 0
       \/ start[t] + MaxChat >= refusedAt[Provider(t)] + Cooldown]_vars

\* A provider is passed over only with reason: it failed in this very chat,
\* or it refused less than a cooldown before the chat began.  So the paid
\* provider is used again once its cooldown has passed, and a judgement is
\* withheld for want of providers only when all have failed or refused.
FallbackJustified ==
  \A t \in Threads : pc[t] # "idle" =>
    \A i \in 1 .. Len(Chain) : i < next[t] =>
      \/ Chain[i] \in failed[t]
      \/ /\ refusedAt[Chain[i]] # 0
         /\ start[t] < refusedAt[Chain[i]] + Cooldown

\* Whatever the providers do, a pair with a Layer 1 level becomes an alert,
\* unless the process goes down meanwhile.
RuledAlertDelivered ==
  \A t \in Threads :
    (pc[t] # "idle" /\ combo[t] \in Ruled) ~> alert[t] \in {"made", "lost"}
=============================================================================
