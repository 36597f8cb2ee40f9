--------------------------- MODULE LlmChainProofs ---------------------------
(***************************************************************************)
(* Theorems about module LlmChain: for any chain of providers, number of   *)
(* threads, cooldown and length of a chat, a provider that refused is left *)
(* alone for as long as it should be, and for no longer.                   *)
(***************************************************************************)
EXTENDS LlmChain, TLAPS

\* A cooldown and the refusal it comes from: it ends at most one period after
\* the refusal and at least one period less the length of a chat.
CooldownFromRefusal ==
  /\ now >= 1
  /\ \A p \in Providers :
       IF refusedAt[p] = 0 THEN cooldownUntil[p] = 0
       ELSE /\ cooldownUntil[p] <= refusedAt[p] + Cooldown
            /\ cooldownUntil[p] + MaxChat >= refusedAt[p] + Cooldown

ChainInv == TypeOK /\ CooldownFromRefusal /\ FallbackJustified

\* The chain is a sequence: its positions hold providers.
LEMMA ChainTyped ==
  /\ Len(Chain) \in Nat
  /\ \A i \in 1 .. Len(Chain) : Chain[i] \in Providers
BY ChainAssumption

\* What the arithmetic of the chain needs from the types.
LEMMA Bounds ==
  ASSUME TypeOK
  PROVE  /\ now \in Nat /\ Cooldown \in Nat /\ MaxChat \in Nat
         /\ \A p \in Providers : refusedAt[p] \in Nat /\ refusedAt[p] <= now
         /\ \A t \in Threads : start[t] \in Nat /\ start[t] <= now
         /\ \A t \in Threads : pc[t] # "idle" => now <= start[t] + MaxChat
         /\ \A t \in Threads : next[t] \in 1 .. Len(Chain) + 1
BY ChainAssumption DEF TypeOK

\* Beginning a chat keeps the types of the variables it sets.
LEMMA BeginChatTypes ==
  ASSUME TypeOK, NEW t \in Threads, NEW why \in {"judge", "write"},
         BeginChat(t, why), UNCHANGED now
  PROVE  /\ pc' \in [Threads -> {"idle", "try", "calling"}]
         /\ purpose' \in [Threads -> {"judge", "write"}]
         /\ start' \in [Threads -> Nat] /\ \A u \in Threads : start'[u] <= now'
         /\ next' \in [Threads -> 1 .. Len(Chain) + 1]
         /\ \A u \in Threads : pc'[u] # "idle" => now' <= start'[u] + MaxChat
         /\ \A u \in Threads : pc'[u] = "calling" => next'[u] <= Len(Chain)
         /\ alert' \in [Threads -> {"none", "made", "lost"}]
         /\ failed' \in [Threads -> SUBSET Providers]
<1> USE ChainAssumption, ChainTyped DEF TypeOK, BeginChat
<1>1. 1 \in 1 .. Len(Chain) + 1
  OBVIOUS
<1>2. \A u \in Threads : pc'[u] # "idle" => now' <= start'[u] + MaxChat
  OBVIOUS
<1> QED
  BY <1>1, <1>2

\* Concluding a pair keeps the types of the variables it resets.
LEMMA ConcludeTypes ==
  ASSUME TypeOK, NEW t \in Threads, NEW result \in {"none", "made"},
         Conclude(t, result), UNCHANGED now
  PROVE  /\ pc' \in [Threads -> {"idle", "try", "calling"}]
         /\ purpose' \in [Threads -> {"judge", "write"}]
         /\ start' \in [Threads -> Nat] /\ \A u \in Threads : start'[u] <= now'
         /\ next' \in [Threads -> 1 .. Len(Chain) + 1]
         /\ \A u \in Threads : pc'[u] # "idle" => now' <= start'[u] + MaxChat
         /\ \A u \in Threads : pc'[u] = "calling" => next'[u] <= Len(Chain)
         /\ alert' \in [Threads -> {"none", "made", "lost"}]
         /\ failed' \in [Threads -> SUBSET Providers]
<1> USE ChainAssumption, ChainTyped DEF TypeOK, Conclude
<1>1. 1 \in 1 .. Len(Chain) + 1
  OBVIOUS
<1> QED
  BY <1>1

\* Giving a provider up keeps the types of the variables it sets.
LEMMA GiveUpTypes ==
  ASSUME TypeOK, NEW t \in Threads, GiveUpProvider(t)
  PROVE  /\ pc' \in [Threads -> {"idle", "try", "calling"}]
         /\ next' \in [Threads -> 1 .. Len(Chain) + 1]
         /\ \A u \in Threads : pc'[u] # "idle" => now' <= start'[u] + MaxChat
         /\ \A u \in Threads : pc'[u] = "calling" => next'[u] <= Len(Chain)
         /\ failed' \in [Threads -> SUBSET Providers]
         /\ Provider(t) \in Providers
<1> USE ChainAssumption, ChainTyped DEF TypeOK, GiveUpProvider, Advance, Provider
<1>1. next[t] \in 1 .. Len(Chain) /\ Provider(t) \in Providers
  OBVIOUS
<1>2. next[t] + 1 \in 1 .. Len(Chain) + 1
  BY <1>1
<1> QED
  BY <1>1, <1>2

\* A judged pair either ends or asks for its text.
LEMMA JudgedCases ==
  ASSUME NEW t \in Threads, NEW level, Judged(t, level)
  PROVE  Conclude(t, "none") \/ BeginChat(t, "write")
BY DEF Judged

\* The initial state has the types.
LEMMA TypeInit == Init => TypeOK
<1> SUFFICES ASSUME Init PROVE TypeOK
  OBVIOUS
<1> USE ChainAssumption, ChainTyped DEF Init, TypeOK
<1>1. 1 \in 1 .. Len(Chain) + 1
  OBVIOUS
<1>2. \A p \in Providers : cooldownUntil[p] <= now + Cooldown
  OBVIOUS
<1> QED
  BY <1>1, <1>2

\* Every step keeps the types.
LEMMA TypeStep == TypeOK /\ [Next]_vars => TypeOK'
<1> SUFFICES ASSUME TypeOK, [Next]_vars PROVE TypeOK'
  OBVIOUS
<1> USE ChainAssumption, ChainTyped
<1>1. CASE Tick
  BY <1>1 DEF Tick, TypeOK, memory, chatVars
<1>2. CASE Restart
  <2>1. 1 \in 1 .. Len(Chain) + 1
    OBVIOUS
  <2> QED
    BY <1>2, <2>1 DEF Restart, TypeOK
<1>3. ASSUME NEW t \in Threads, NEW k \in Combos, Consider(t, k) PROVE TypeOK'
  <2>1. PICK why \in {"judge", "write"} : BeginChat(t, why) \/ Conclude(t, "none")
    BY <1>3, JudgedCases DEF Consider
  <2>2. CASE BeginChat(t, why)
    BY <1>3, <2>2, BeginChatTypes DEF Consider, memory, TypeOK
  <2>3. CASE Conclude(t, "none")
    BY <1>3, <2>3, ConcludeTypes DEF Consider, memory, TypeOK
  <2> QED
    BY <2>1, <2>2, <2>3
<1>4. ASSUME NEW t \in Threads, SkipProvider(t) PROVE TypeOK'
  <2>1. next[t] + 1 \in 1 .. Len(Chain) + 1
    BY <1>4 DEF SkipProvider, Trying, TypeOK
  <2> QED
    BY <1>4, <2>1 DEF SkipProvider, Trying, Advance, TypeOK, memory
<1>5. ASSUME NEW t \in Threads, CallProvider(t) PROVE TypeOK'
  BY <1>5 DEF CallProvider, Trying, TypeOK, memory, chatVars
<1>6. ASSUME NEW t \in Threads, AnswerText(t) PROVE TypeOK'
  BY <1>6, ConcludeTypes DEF AnswerText, TypeOK, memory
<1>7. ASSUME NEW t \in Threads, AnswerUnreadable(t) PROVE TypeOK'
  BY <1>7, ConcludeTypes DEF AnswerUnreadable, TypeOK, memory
<1>8. ASSUME NEW t \in Threads, NEW level \in Levels, AnswerLevel(t, level) PROVE TypeOK'
  <2>1. decisions' \in [Combos -> Levels \cup {"unknown"}]
    BY <1>8 DEF AnswerLevel, TypeOK
  <2>2. CASE BeginChat(t, "write")
    BY <1>8, <2>1, <2>2, BeginChatTypes DEF AnswerLevel, TypeOK
  <2>3. CASE Conclude(t, "none")
    BY <1>8, <2>1, <2>3, ConcludeTypes DEF AnswerLevel, TypeOK
  <2> QED
    BY <1>8, <2>2, <2>3, JudgedCases DEF AnswerLevel
<1>9. ASSUME NEW t \in Threads, QuotaError(t) PROVE TypeOK'
  <2>1. GiveUpProvider(t) /\ Provider(t) \in Providers
    BY <1>9, GiveUpTypes DEF QuotaError
  <2>2. CooldownEnd(t) \in Nat /\ CooldownEnd(t) <= now + Cooldown
    BY DEF CooldownEnd, TypeOK
  <2>3. /\ cooldownUntil' \in [Providers -> Nat]
        /\ \A p \in Providers : cooldownUntil'[p] <= now + Cooldown
        /\ refusedAt' \in [Providers -> Nat]
        /\ \A p \in Providers : refusedAt'[p] <= now
    BY <1>9, <2>1, <2>2 DEF QuotaError, TypeOK
  <2> QED
    BY <2>1, <2>3, GiveUpTypes DEF GiveUpProvider, TypeOK
<1>10. ASSUME NEW t \in Threads, OtherError(t) PROVE TypeOK'
  BY <1>10, GiveUpTypes DEF OtherError, GiveUpProvider, TypeOK
<1>11. ASSUME NEW t \in Threads, Exhausted(t) PROVE TypeOK'
  BY <1>11, ConcludeTypes DEF Exhausted, TypeOK, memory
<1>12. CASE UNCHANGED vars
  BY <1>12 DEF vars, memory, chatVars, TypeOK
<1> QED
  BY <1>1, <1>2, <1>3, <1>4, <1>5, <1>6, <1>7, <1>8, <1>9, <1>10, <1>11, <1>12
  DEF Next, ChatStep

\* Every step keeps the relation between cooldowns and refusals.
LEMMA CooldownStep == ChainInv /\ [Next]_vars => CooldownFromRefusal'
<1> SUFFICES ASSUME ChainInv, [Next]_vars PROVE CooldownFromRefusal'
  OBVIOUS
<1>0. TypeOK /\ CooldownFromRefusal
  BY DEF ChainInv
<1>1. CASE Restart
  BY <1>0, <1>1 DEF Restart, CooldownFromRefusal
<1>2. ASSUME NEW t \in Threads, QuotaError(t) PROVE CooldownFromRefusal'
  <2>1. /\ GiveUpProvider(t) /\ Provider(t) \in Providers
        /\ now' = now /\ pc[t] = "calling"
    BY <1>0, <1>2, GiveUpTypes DEF QuotaError, GiveUpProvider
  <2>2. /\ CooldownEnd(t) \in Nat
        /\ CooldownEnd(t) <= now + Cooldown
        /\ CooldownEnd(t) + MaxChat >= now + Cooldown
    BY <1>0, <2>1, Bounds DEF CooldownEnd
  <2> QED
    BY <1>0, <1>2, <2>1, <2>2 DEF QuotaError, CooldownFromRefusal, TypeOK
<1>3. ASSUME UNCHANGED <<cooldownUntil, refusedAt>>, now' \in {now, now + 1}
      PROVE  CooldownFromRefusal'
  BY <1>0, <1>3 DEF CooldownFromRefusal, TypeOK
<1>4. CASE Tick
  BY <1>3, <1>4 DEF Tick, memory
<1>5. ASSUME NEW t \in Threads, NEW k \in Combos, Consider(t, k)
      PROVE  CooldownFromRefusal'
  BY <1>3, <1>5 DEF Consider, memory
<1>6. ASSUME NEW t \in Threads, ChatStep(t), ~QuotaError(t)
      PROVE  CooldownFromRefusal'
  BY <1>3, <1>6 DEF ChatStep, SkipProvider, CallProvider, AnswerText, AnswerUnreadable,
     AnswerLevel, OtherError, GiveUpProvider, Exhausted, memory
<1>7. CASE UNCHANGED vars
  BY <1>3, <1>7 DEF vars, memory
<1> QED
  BY <1>1, <1>2, <1>4, <1>5, <1>6, <1>7 DEF Next

\* What one thread's chat has passed over, and why.
Justified(t) ==
  pc[t] # "idle" =>
    \A i \in 1 .. Len(Chain) : i < next[t] =>
      \/ Chain[i] \in failed[t]
      \/ /\ refusedAt[Chain[i]] # 0
         /\ start[t] < refusedAt[Chain[i]] + Cooldown

\* A thread whose chat is not touched stays justified: refusals get later only.
LEMMA OthersJustified ==
  ASSUME ChainInv, NEW t \in Threads,
         pc'[t] = pc[t], next'[t] = next[t], failed'[t] = failed[t], start'[t] = start[t],
         \A p \in Providers :
           refusedAt'[p] \in Nat /\ (refusedAt'[p] = refusedAt[p] \/ refusedAt'[p] = now)
  PROVE  Justified(t)'
<1>0. TypeOK /\ Justified(t)
  BY DEF ChainInv, FallbackJustified, Justified
<1>1. \A p \in Providers : refusedAt[p] \in Nat /\ refusedAt[p] <= refusedAt'[p]
  BY <1>0, Bounds
<1> SUFFICES ASSUME pc[t] # "idle", NEW i \in 1 .. Len(Chain), i < next[t]
             PROVE  \/ Chain[i] \in failed[t]
                    \/ /\ refusedAt'[Chain[i]] # 0
                       /\ start[t] < refusedAt'[Chain[i]] + Cooldown
  BY DEF Justified
<1>2. \/ Chain[i] \in failed[t]
      \/ refusedAt[Chain[i]] # 0 /\ start[t] < refusedAt[Chain[i]] + Cooldown
  BY <1>0 DEF Justified
<1>3. start[t] \in Nat /\ Cooldown \in Nat /\ Chain[i] \in Providers
  BY <1>0, Bounds, ChainTyped
<1> QED
  BY <1>1, <1>2, <1>3

\* Beginning a chat, or ending one, leaves nothing passed over.
LEMMA FreshJustified ==
  ASSUME ChainInv, NEW t \in Threads, NEW u \in Threads, UNCHANGED refusedAt,
         (\E why \in {"judge", "write"} : BeginChat(t, why))
           \/ (\E result \in {"none", "made"} : Conclude(t, result))
  PROVE  Justified(u)'
<1> USE ChainAssumption, ChainTyped DEF ChainInv
<1>1. CASE u = t
  BY <1>1 DEF Justified, BeginChat, Conclude, TypeOK
<1>2. CASE u # t
  BY <1>2, OthersJustified DEF BeginChat, Conclude, TypeOK
<1> QED
  BY <1>1, <1>2

\* A provider that failed is passed over with that reason.
LEMMA GiveUpJustified ==
  ASSUME ChainInv, NEW t \in Threads, NEW u \in Threads, GiveUpProvider(t),
         \A p \in Providers :
           refusedAt'[p] \in Nat /\ (refusedAt'[p] = refusedAt[p] \/ refusedAt'[p] = now)
  PROVE  Justified(u)'
<1>0. TypeOK /\ Justified(t)
  BY DEF ChainInv, FallbackJustified, Justified
<1>1. CASE u = t
  <2> SUFFICES ASSUME NEW i \in 1 .. Len(Chain), i < next'[t]
               PROVE  \/ Chain[i] \in failed'[t]
                      \/ /\ refusedAt'[Chain[i]] # 0
                         /\ start'[t] < refusedAt'[Chain[i]] + Cooldown
    BY <1>1 DEF Justified
  <2>1. /\ next'[t] = next[t] + 1 /\ start'[t] = start[t] /\ pc[t] = "calling"
        /\ failed'[t] = failed[t] \cup {Chain[next[t]]}
    BY <1>0 DEF GiveUpProvider, Advance, Provider, TypeOK
  <2>2. /\ refusedAt[Chain[i]] \in Nat /\ refusedAt'[Chain[i]] \in Nat
        /\ refusedAt[Chain[i]] <= refusedAt'[Chain[i]]
        /\ start[t] \in Nat /\ Cooldown \in Nat /\ next[t] \in Nat /\ i \in Nat
    BY <1>0, Bounds, ChainTyped
  <2>3. CASE i = next[t]
    BY <2>1, <2>3
  <2>4. CASE i < next[t]
    <3>1. \/ Chain[i] \in failed[t]
          \/ refusedAt[Chain[i]] # 0 /\ start[t] < refusedAt[Chain[i]] + Cooldown
      BY <1>0, <2>1, <2>4 DEF Justified
    <3> QED
      BY <2>1, <2>2, <3>1
  <2> QED
    BY <2>1, <2>2, <2>3, <2>4
<1>2. CASE u # t
  BY <1>0, <1>2, OthersJustified DEF GiveUpProvider, Advance, TypeOK
<1> QED
  BY <1>1, <1>2

\* Every step keeps every chat's detours justified.
LEMMA JustifiedStep == ChainInv /\ [Next]_vars => FallbackJustified'
<1> SUFFICES ASSUME ChainInv, [Next]_vars, NEW u \in Threads PROVE Justified(u)'
  BY DEF FallbackJustified, Justified
<1> USE ChainAssumption, ChainTyped DEF ChainInv
<1>0. ASSUME UNCHANGED <<pc, start, next, failed, refusedAt>> PROVE Justified(u)'
  BY <1>0, OthersJustified DEF TypeOK
<1>1. CASE Tick
  BY <1>0, <1>1 DEF Tick, memory, chatVars
<1>2. CASE Restart
  BY <1>2 DEF Restart, Justified
<1>3. ASSUME NEW t \in Threads, NEW k \in Combos, Consider(t, k) PROVE Justified(u)'
  <2>1. PICK why \in {"judge", "write"} : BeginChat(t, why) \/ Conclude(t, "none")
    BY <1>3, JudgedCases DEF Consider
  <2> QED
    BY <1>3, <2>1, FreshJustified DEF Consider, memory
<1>4. ASSUME NEW t \in Threads, SkipProvider(t) PROVE Justified(u)'
  <2>1. CASE u # t
    BY <1>4, <2>1, OthersJustified DEF SkipProvider, Advance, memory, TypeOK
  <2>2. CASE u = t
    <3>1. /\ next[t] \in 1 .. Len(Chain) /\ next'[t] = next[t] + 1
          /\ UNCHANGED <<pc, start, failed, refusedAt>>
      BY <1>4 DEF SkipProvider, Trying, Advance, memory, TypeOK
    <3>2. start[t] < cooldownUntil[Chain[next[t]]]
      BY <1>4 DEF SkipProvider, Cooling, Provider
    <3>3. /\ refusedAt[Chain[next[t]]] # 0
          /\ start[t] < refusedAt[Chain[next[t]]] + Cooldown
      BY <3>1, <3>2 DEF CooldownFromRefusal, TypeOK
    <3>4. pc[t] # "idle" /\ next[t] \in Nat
      BY <1>4, <3>1, ChainTyped DEF SkipProvider, Trying
    <3>5. Justified(t)
      BY DEF FallbackJustified, Justified
    <3> QED
      BY ONLY <2>2, <3>1, <3>3, <3>4, <3>5, ChainTyped DEF Justified
  <2> QED
    BY <2>1, <2>2
<1>5. ASSUME NEW t \in Threads, CallProvider(t) PROVE Justified(u)'
  <2>1. (pc'[u] = "idle") = (pc[u] = "idle")
    BY <1>5 DEF CallProvider, Trying, TypeOK
  <2> QED
    BY <1>5, <2>1 DEF CallProvider, memory, chatVars, Justified, FallbackJustified
<1>6. ASSUME NEW t \in Threads,
             AnswerText(t) \/ AnswerUnreadable(t) \/ Exhausted(t)
      PROVE  Justified(u)'
  BY <1>6, FreshJustified DEF AnswerText, AnswerUnreadable, Exhausted, memory
<1>7. ASSUME NEW t \in Threads, NEW level \in Levels, AnswerLevel(t, level)
      PROVE  Justified(u)'
  BY <1>7, JudgedCases, FreshJustified DEF AnswerLevel
<1>8. ASSUME NEW t \in Threads, QuotaError(t) PROVE Justified(u)'
  BY <1>8, GiveUpTypes, GiveUpJustified DEF QuotaError, TypeOK
<1>9. ASSUME NEW t \in Threads, OtherError(t) PROVE Justified(u)'
  BY <1>9, GiveUpJustified DEF OtherError, TypeOK
<1>10. CASE UNCHANGED vars
  BY <1>0, <1>10 DEF vars, memory, chatVars
<1> QED
  BY <1>1, <1>2, <1>3, <1>4, <1>5, <1>6, <1>7, <1>8, <1>9, <1>10 DEF Next, ChatStep

\* The invariant holds at first.
LEMMA ChainInvInit == Init => ChainInv
<1> SUFFICES ASSUME Init PROVE CooldownFromRefusal /\ FallbackJustified
  BY TypeInit DEF ChainInv
<1> QED
  BY DEF Init, CooldownFromRefusal, FallbackJustified

\* The invariant holds in every state.
LEMMA ChainInvariant == Spec => []ChainInv
<1>1. ChainInv /\ [Next]_vars => ChainInv'
  BY TypeStep, CooldownStep, JustifiedStep DEF ChainInv
<1> QED
  BY <1>1, ChainInvInit, PTL DEF Spec

\* The variables of the chain have their types: no cooldown ends more than a
\* period from now, and no chat leaves the chain.
THEOREM TypeCorrect == Spec => []TypeOK
BY ChainInvariant, PTL DEF ChainInv

\* A provider is passed over only because it failed in the same chat or
\* refused less than a cooldown before the chat began.
THEOREM DetoursJustified == Spec => []FallbackJustified
BY ChainInvariant, PTL DEF ChainInv

\* After a refusal no chat that begins within the cooldown, less the length
\* of a chat, calls the provider.
THEOREM Quarantined == Spec => QuarantineHolds
<1>1. ChainInv /\ [Next]_vars =>
        [\A t \in Threads : pc[t] = "try" /\ pc'[t] = "calling" =>
           \/ refusedAt[Provider(t)] = 0
           \/ start[t] + MaxChat >= refusedAt[Provider(t)] + Cooldown]_vars
  <2> SUFFICES ASSUME ChainInv, [Next]_vars,
                      NEW t \in Threads, pc[t] = "try", pc'[t] = "calling",
                      refusedAt[Provider(t)] # 0
               PROVE  start[t] + MaxChat >= refusedAt[Provider(t)] + Cooldown
    OBVIOUS
  <2>1. CallProvider(t)
    <3> USE DEF ChainInv, TypeOK
    <3>1. CASE Tick \/ Restart \/ UNCHANGED vars
      BY <3>1 DEF Tick, Restart, vars
    <3>2. ASSUME NEW u \in Threads, NEW k \in Combos, Consider(u, k) PROVE FALSE
      BY <3>2 DEF Consider, Judged, BeginChat, Conclude
    <3>3. ASSUME NEW u \in Threads, ChatStep(u) PROVE CallProvider(t)
      <4>1. CASE CallProvider(u)
        BY <4>1 DEF CallProvider
      <4>2. CASE SkipProvider(u)
        BY <4>2 DEF SkipProvider
      <4>3. CASE QuotaError(u) \/ OtherError(u)
        BY <4>3 DEF QuotaError, OtherError, GiveUpProvider
      <4>4. CASE AnswerText(u) \/ AnswerUnreadable(u) \/ Exhausted(u)
        BY <4>4 DEF AnswerText, AnswerUnreadable, Exhausted, Conclude
      <4>5. ASSUME NEW level \in Levels, AnswerLevel(u, level) PROVE FALSE
        BY <4>5 DEF AnswerLevel, Judged, BeginChat, Conclude
      <4> QED
        BY <3>3, <4>1, <4>2, <4>3, <4>4, <4>5 DEF ChatStep
    <3> QED
      BY <3>1, <3>2, <3>3 DEF Next
  <2>2. Provider(t) \in Providers /\ cooldownUntil[Provider(t)] <= start[t]
    BY <2>1, ChainTyped DEF CallProvider, Trying, Cooling, Provider, ChainInv, TypeOK
  <2> QED
    BY <2>2, ChainAssumption DEF ChainInv, CooldownFromRefusal, TypeOK
<1> QED
  BY <1>1, ChainInvariant, PTL DEF Spec, QuarantineHolds
=============================================================================
