------------------------ MODULE AlertPipelineProofs ------------------------
(***************************************************************************)
(* Proofs about AlertPipeline, for any number of cycles, requests, events  *)
(* and subscriptions, any matrix and any region matching.                  *)
(***************************************************************************)
EXTENDS AlertPipeline, TLAPS

\* Every table, field and history variable keeps its type: the basis of
\* every other proof about the pipeline.
THEOREM TypeCorrect == Spec => []TypeOK
<1> USE SessionsAssumption, DataAssumption
<1>1. Init => TypeOK
  BY DEF Init, TypeOK, PcType, TableTypes, SessionTypes, HistoryTypes, Sessions,
         SourceNames, Kmas, Broadcasts, NamedRegion
<1>2. TypeOK /\ [Next]_vars => TypeOK'
  <2> SUFFICES ASSUME TypeOK, [Next]_vars PROVE TypeOK'
    OBVIOUS
  <2> USE DEF TypeOK, PcType, TableTypes, SessionTypes, HistoryTypes, Goto,
             tables, ingestVars, loopVars, history, Sessions
  <2>1. ASSUME NEW c \in Cycles, StartCycle(c) PROVE TypeOK'
    BY <2>1 DEF StartCycle, NamedRegion, KeyType
  <2>2. ASSUME NEW c \in Cycles, Fetch(c) PROVE TypeOK'
    BY <2>2 DEF Fetch, NamedRegion, KeyType
  <2>3. ASSUME NEW c \in Cycles, SelectRegion(c) PROVE TypeOK'
    BY <2>3 DEF SelectRegion, NamedRegion, KeyType
  <2>4. ASSUME NEW c \in Cycles, InsertRegion(c, "select_event") PROVE TypeOK'
    BY <2>4 DEF InsertRegion, NamedRegion, KeyType
  <2>5. ASSUME NEW c \in Cycles, RegionConflict(c) PROVE TypeOK'
    BY <2>5 DEF RegionConflict, NamedRegion, KeyType
  <2>6. ASSUME NEW c \in Cycles, SelectEvent(c) PROVE TypeOK'
    BY <2>6 DEF SelectEvent, NamedRegion, KeyType
  <2>7. ASSUME NEW c \in Cycles, InsertEvent(c) PROVE TypeOK'
    BY <2>7 DEF InsertEvent, EventRows, NamedRegion, KeyType
  <2>8. ASSUME NEW c \in Cycles, EndFetch(c) PROVE TypeOK'
    <3>1. stored[c] \subseteq EventRows
      OBVIOUS
    <3>2. Unevaluated(c) \subseteq Pairs
      BY <3>1 DEF Unevaluated, Pair, Pairs
    <3>5. HistoryTypes' /\ TableTypes'
      BY <2>8, <3>2 DEF EndFetch
    <3>3. CASE poisoned[c]
      <4>1. SessionTypes'
        BY <2>8, <3>3 DEF EndFetch
      <4>2. PcType'
        BY <2>8, <3>3 DEF EndFetch, NamedRegion
      <4> QED
        BY <4>1, <4>2, <3>5
    <3>4. CASE ~poisoned[c]
      BY <2>8, <3>5, <3>4 DEF EndFetch, NamedRegion
    <3> QED
      BY <3>3, <3>4
  <2>9. ASSUME NEW c \in Cycles, Evaluate(c) PROVE TypeOK'
    BY <2>9 DEF Evaluate, Pair, Pairs, EventRows, NamedRegion, KeyType
  <2>10. ASSUME NEW c \in Cycles, CommitEvaluation(c) PROVE TypeOK'
    BY <2>10 DEF CommitEvaluation, CommitLoop, NamedRegion, KeyType
  <2>11. ASSUME NEW c \in Cycles, FinishCycle(c) PROVE TypeOK'
    BY <2>11 DEF FinishCycle, NamedRegion, KeyType
  <2>12. ASSUME NEW x \in Clients, RequestRegion(x) PROVE TypeOK'
    BY <2>12 DEF RequestRegion, NamedRegion, KeyType
  <2>13. ASSUME NEW x \in Clients, InsertRegion(x, "subscribe") PROVE TypeOK'
    BY <2>13 DEF InsertRegion, NamedRegion, KeyType
  <2>14. ASSUME NEW x \in Clients, RequestFails(x) PROVE TypeOK'
    BY <2>14 DEF RequestFails, NamedRegion, KeyType
  <2>15. ASSUME NEW x \in Clients, SelectSubscription(x) PROVE TypeOK'
    BY <2>15 DEF SelectSubscription, NamedRegion, KeyType
  <2>16. ASSUME NEW x \in Clients, InsertSubscription(x) PROVE TypeOK'
    BY <2>16 DEF InsertSubscription, NamedRegion, KeyType
  <2>17. ASSUME NEW x \in Clients, Backfill(x) PROVE TypeOK'
    BY <2>17 DEF Backfill, Pair, Pairs, NamedRegion, KeyType
  <2>18. ASSUME NEW x \in Clients, CommitBackfill(x) PROVE TypeOK'
    BY <2>18 DEF CommitBackfill, CommitLoop, NamedRegion, KeyType
  <2>19. ASSUME NEW w \in Sessions, Consider(w) PROVE TypeOK'
    <3>1. PICK p \in pairs[w] : Consider(w)!2!(p)
      BY <2>19 DEF Consider
    <3>2. p \in Pairs
      BY <3>1
    <3>3. /\ CacheKey(p) \in CacheKeys
          /\ RuleLevel(p) \in Levels \cup {"NONE"}
          /\ RuleSource(p) \in {"matrix", "broadcast"}
      BY <3>2 DEF Pairs, EventRows, KeyType, CacheKey, CacheKeys, RuleLevel, RuleSource, Levels
    <3>4. ASSUME NEW level \in Levels, NEW source \in {"matrix", "ai", "broadcast"}
          PROVE  /\ Notification(w, p, level, source) \in NotificationRows
                 /\ AIRiskLog(w, p, level) \in LogRows
      BY <3>2 DEF Pairs, Notification, AIRiskLog, NotificationRows, LogRows
    <3>5. pending' \in [Sessions -> SUBSET NotificationRows]
      BY <3>1, <3>3, <3>4 DEF AddNotification, AddJudgement
    <3>6. pendingLogs' \in [Sessions -> SUBSET LogRows]
      BY <3>1, <3>3, <3>4 DEF AddJudgement
    <3>7. /\ pairs' \in [Sessions -> SUBSET Pairs]
          /\ asked' \in [Sessions -> SUBSET Pairs]
      BY <3>1, <3>2
    <3> QED
      BY <2>19, <3>5, <3>6, <3>7 DEF Consider, NamedRegion
  <2>20. ASSUME NEW w \in Sessions, LlmAnswers(w) PROVE TypeOK'
    BY <2>20 DEF LlmAnswers, AddNotification, AddJudgement, Notification, AIRiskLog, NotificationRows, LogRows, Pairs, Levels, CacheKey, CacheKeys, KeyType, EventRows, NamedRegion, KeyType
  <2>21. ASSUME NEW w \in Sessions, LlmFails(w) PROVE TypeOK'
    BY <2>21 DEF LlmFails, NamedRegion, KeyType
  <2>25. ASSUME NEW dead \in SUBSET Sessions, Die(dead),
                decisionCache' \in [CacheKeys -> Levels \cup {"NONE"}]
         PROVE  TypeOK'
    <3>1. \A c \in Cycles : Unevaluated(c) \subseteq Pairs
      BY DEF Unevaluated, Pair, Pairs
    <3>2. \A x \in Clients : Unbackfilled(x) \subseteq Pairs
      BY DEF Unbackfilled, Pair, Pairs
    <3>3. HistoryTypes' /\ TableTypes'
      <4>1. UNION {Unevaluated(c) : c \in dead \cap Cycles} \subseteq Pairs
        BY <3>1
      <4>2. UNION {Unbackfilled(x) : x \in dead \cap Clients} \subseteq Pairs
        BY <3>2
      <4>3. lost' = lost \cup (UNION {Unevaluated(c) : c \in dead \cap Cycles})
                         \cup (UNION {Unbackfilled(x) : x \in dead \cap Clients})
        BY <2>25, Zenon DEF Die
      <4>4. lost' \subseteq Pairs
        BY <4>1, <4>2, <4>3, Zenon DEF TypeOK, HistoryTypes
      <4> QED
        BY <2>25, <4>4 DEF Die
    <3> QED
      BY <2>25, <3>3 DEF Die, NamedRegion, KeyType
  <2>22. ASSUME NEW w \in Sessions, SessionDies(w) PROVE TypeOK'
    <3>1. Die({w}) /\ UNCHANGED decisionCache
      BY <2>22 DEF SessionDies
    <3> QED
      BY <2>25, <3>1
  <2>23. ASSUME ProcessRestarts PROVE TypeOK'
    <3>1. Die(Sessions) /\ decisionCache' \in [CacheKeys -> Levels \cup {"NONE"}]
      BY <2>23 DEF ProcessRestarts
    <3> QED
      BY <2>25, <3>1
  <2>24. CASE UNCHANGED vars
    BY <2>24 DEF vars, NamedRegion
  <2> QED
    BY <2>1, <2>2, <2>3, <2>4, <2>5, <2>6, <2>7, <2>8, <2>9, <2>10, <2>11, <2>12, <2>13, <2>14, <2>15, <2>16, <2>17, <2>18, <2>19, <2>20, <2>21, <2>22, <2>23, <2>24 DEF Next, IngestStep, RequestStep, PairStep
<1>3. QED
  BY <1>1, <1>2, PTL DEF Spec

\* A session holds rows and pairs only while it is in its loop, a cycle's
\* list holds events it stored itself, a backfill is for a stored subscription.
THEOREM SessionsDisciplined == Spec => []SessionDiscipline
<1> USE SessionsAssumption
<1>1. Init => SessionDiscipline
  BY DEF Init, SessionDiscipline, Sessions
<1>2. TypeOK /\ SessionDiscipline /\ [Next]_vars => SessionDiscipline'
  <2> SUFFICES ASSUME TypeOK, SessionDiscipline, [Next]_vars PROVE SessionDiscipline'
    OBVIOUS
  <2> USE DEF TypeOK, PcType, SessionTypes, SessionDiscipline, Goto,
             tables, ingestVars, loopVars, history, Sessions
  <2>1. ASSUME NEW c \in Cycles, StartCycle(c) PROVE SessionDiscipline'
    BY <2>1 DEF StartCycle
  <2>2. ASSUME NEW c \in Cycles, Fetch(c) PROVE SessionDiscipline'
    BY <2>2 DEF Fetch
  <2>3. ASSUME NEW c \in Cycles, SelectRegion(c) PROVE SessionDiscipline'
    BY <2>3 DEF SelectRegion
  <2>4. ASSUME NEW c \in Cycles, InsertRegion(c, "select_event") PROVE SessionDiscipline'
    BY <2>4 DEF InsertRegion
  <2>5. ASSUME NEW c \in Cycles, RegionConflict(c) PROVE SessionDiscipline'
    BY <2>5 DEF RegionConflict
  <2>6. ASSUME NEW c \in Cycles, SelectEvent(c) PROVE SessionDiscipline'
    BY <2>6 DEF SelectEvent
  <2>7. ASSUME NEW c \in Cycles, InsertEvent(c) PROVE SessionDiscipline'
    BY <2>7 DEF InsertEvent, EventRows
  <2>8. ASSUME NEW c \in Cycles, EndFetch(c) PROVE SessionDiscipline'
    BY <2>8 DEF EndFetch
  <2>9. ASSUME NEW c \in Cycles, Evaluate(c) PROVE SessionDiscipline'
    BY <2>9 DEF Evaluate
  <2>10. ASSUME NEW c \in Cycles, CommitEvaluation(c) PROVE SessionDiscipline'
    BY <2>10 DEF CommitEvaluation, CommitLoop
  <2>11. ASSUME NEW c \in Cycles, FinishCycle(c) PROVE SessionDiscipline'
    BY <2>11 DEF FinishCycle
  <2>12. ASSUME NEW x \in Clients, RequestRegion(x) PROVE SessionDiscipline'
    BY <2>12 DEF RequestRegion
  <2>13. ASSUME NEW x \in Clients, InsertRegion(x, "subscribe") PROVE SessionDiscipline'
    BY <2>13 DEF InsertRegion
  <2>14. ASSUME NEW x \in Clients, RequestFails(x) PROVE SessionDiscipline'
    BY <2>14 DEF RequestFails
  <2>15. ASSUME NEW x \in Clients, SelectSubscription(x) PROVE SessionDiscipline'
    BY <2>15 DEF SelectSubscription
  <2>16. ASSUME NEW x \in Clients, InsertSubscription(x) PROVE SessionDiscipline'
    BY <2>16 DEF InsertSubscription
  <2>17. ASSUME NEW x \in Clients, Backfill(x) PROVE SessionDiscipline'
    BY <2>17 DEF Backfill
  <2>18. ASSUME NEW x \in Clients, CommitBackfill(x) PROVE SessionDiscipline'
    BY <2>18 DEF CommitBackfill, CommitLoop
  <2>19. ASSUME NEW w \in Sessions, Consider(w) PROVE SessionDiscipline'
    BY <2>19 DEF Consider, AddNotification, AddJudgement
  <2>20. ASSUME NEW w \in Sessions, LlmAnswers(w) PROVE SessionDiscipline'
    BY <2>20 DEF LlmAnswers, AddNotification, AddJudgement
  <2>21. ASSUME NEW w \in Sessions, LlmFails(w) PROVE SessionDiscipline'
    BY <2>21 DEF LlmFails
  <2>22. ASSUME NEW w \in Sessions, SessionDies(w) PROVE SessionDiscipline'
    BY <2>22 DEF SessionDies, Die, Unbackfilled
  <2>23. ASSUME ProcessRestarts PROVE SessionDiscipline'
    BY <2>23 DEF ProcessRestarts, Die, Unbackfilled
  <2>24. CASE UNCHANGED vars
    BY <2>24 DEF vars
  <2> QED
    BY <2>1, <2>2, <2>3, <2>4, <2>5, <2>6, <2>7, <2>8, <2>9, <2>10, <2>11, <2>12, <2>13, <2>14, <2>15, <2>16, <2>17, <2>18, <2>19, <2>20, <2>21, <2>22, <2>23, <2>24 DEF Next, IngestStep, RequestStep, PairStep
<1>3. QED
  BY <1>1, <1>2, TypeCorrect, PTL DEF Spec

\* No alert is lost between a cycle and a backfill: a stored pair that must
\* alert is alerted, or owed by a running session, or was owed by a session
\* that died.
THEOREM AlertsOwed == Spec => []EveryAlertOwed
<1> USE SessionsAssumption
<1>1. Init => EveryAlertOwed
  BY DEF Init, EveryAlertOwed
<1>2. TypeOK /\ SessionDiscipline /\ EveryAlertOwed /\ [Next]_vars => EveryAlertOwed'
  <2> SUFFICES ASSUME TypeOK, SessionDiscipline, EveryAlertOwed, [Next]_vars,
                      NEW s \in subscriptions', NEW e \in events',
                      MustAlert(Pair(s, e))'
               PROVE  Settled(Pair(s, e))'
    BY DEF EveryAlertOwed
  <2> DEFINE p == Pair(s, e)
  <2>0. s \in subscriptions /\ e \in events => Settled(p)
    BY DEF EveryAlertOwed, MustAlert
  <2> USE DEF TypeOK, PcType, SessionTypes, Goto, tables, ingestVars, loopVars,
             history, Sessions, Settled, Alerted, Owed, StillToEvaluate,
             StillToBackfill, InHand, Answerable
  <2>1. ASSUME NEW c \in Cycles, StartCycle(c) PROVE Settled(p)'
    BY <2>0, <2>1 DEF StartCycle, SessionDiscipline
  <2>2. ASSUME NEW c \in Cycles, Fetch(c) PROVE Settled(p)'
    BY <2>0, <2>2 DEF Fetch, SessionDiscipline
  <2>3. ASSUME NEW c \in Cycles, SelectRegion(c) PROVE Settled(p)'
    BY <2>0, <2>3 DEF SelectRegion, SessionDiscipline
  <2>4. ASSUME NEW c \in Cycles, InsertRegion(c, "select_event") PROVE Settled(p)'
    BY <2>0, <2>4 DEF InsertRegion, SessionDiscipline
  <2>5. ASSUME NEW c \in Cycles, RegionConflict(c) PROVE Settled(p)'
    BY <2>0, <2>5 DEF RegionConflict, SessionDiscipline
  <2>6. ASSUME NEW c \in Cycles, SelectEvent(c) PROVE Settled(p)'
    BY <2>0, <2>6 DEF SelectEvent, SessionDiscipline
  <2>7. ASSUME NEW c \in Cycles, InsertEvent(c) PROVE Settled(p)'
    <3>1. CASE e \in events
      BY <2>0, <2>7, <3>1 DEF InsertEvent
    <3>2. CASE e \notin events
      <4>1. e \in stored'[c] /\ pc'[c] = "fetch"
        BY <2>7, <3>2 DEF InsertEvent
      <4> QED
        BY <4>1 DEF Pair
    <3> QED
      BY <3>1, <3>2
  <2>8. ASSUME NEW c \in Cycles, EndFetch(c) PROVE Settled(p)'
    <3>1. e \in stored[c] => p \in Unevaluated(c)
      BY <2>8 DEF EndFetch, Unevaluated
    <3>2. p.ev = e
      BY DEF Pair
    <3> QED
      BY <2>0, <2>8, <3>1, <3>2 DEF EndFetch, SessionDiscipline
  <2>9. ASSUME NEW c \in Cycles, Evaluate(c) PROVE Settled(p)'
    <3>1. PICK e0 \in stored[c] :
            /\ item' = [item EXCEPT ![c] = {e0.key}]
            /\ pairs' = [pairs EXCEPT ![c] =
                  {Pair(t, e0) : t \in {t \in subscriptions : Matches(t, e0)}}]
      BY <2>9 DEF Evaluate
    <3>2. CASE e = e0
      <4>1. p \in pairs'[c] /\ e \in stored'[c]
        BY <2>9, <3>1, <3>2 DEF Evaluate, MustAlert, Pair
      <4> QED
        BY <4>1 DEF Pair
    <3>3. CASE e # e0
      <4>1. StillToEvaluate(c, p) => StillToEvaluate(c, p)'
        <5>1. SUFFICES ASSUME e \in stored[c] PROVE e.key # e0.key
          BY <2>9, <3>1 DEF Evaluate, Pair
        <5>2. e.by = c /\ e0.by = c /\ e \in EventRows /\ e0 \in EventRows
          BY <5>1 DEF SessionDiscipline
        <5> QED
          BY <5>2, <3>3 DEF EventRows
      <4>2. \A w \in Sessions : InHand(w, p) /\ Answerable(w, p)
                                => InHand(w, p)' /\ Answerable(w, p)'
        BY <2>9, <3>1 DEF Evaluate, SessionDiscipline
      <4> QED
        BY <2>0, <2>9, <3>1, <4>1, <4>2 DEF Evaluate
    <3> QED
      BY <3>2, <3>3
  <2>10. ASSUME NEW c \in Cycles, CommitEvaluation(c) PROVE Settled(p)'
    <3>1. CASE e \in stored[c] /\ e.key \notin item[c]
      <4>1. e \in stored'[c] /\ pc'[c] = "evaluate"
        BY <2>10, <3>1 DEF CommitEvaluation, CommitLoop
      <4> QED
        BY <4>1 DEF Pair
    <3>2. CASE ~(e \in stored[c] /\ e.key \notin item[c])
      <4>1. ~StillToEvaluate(c, p)
        BY <2>10, <3>2 DEF CommitEvaluation, CommitLoop, Pair
      <4>2. InHand(c, p) => Alerted(p)'
        BY <2>10 DEF CommitEvaluation, CommitLoop
      <4>3. ASSUME NEW w \in Sessions, w # c, InHand(w, p), Answerable(w, p)
            PROVE  InHand(w, p)' /\ Answerable(w, p)'
        BY <2>10, <4>3 DEF CommitEvaluation, CommitLoop
      <4>4. ASSUME NEW d \in Cycles, d # c, StillToEvaluate(d, p)
            PROVE  StillToEvaluate(d, p)'
        BY <2>10, <4>4 DEF CommitEvaluation, CommitLoop
      <4>5. /\ Alerted(p) \/ p \in lost => Settled(p)'
            /\ \A x \in Clients : StillToBackfill(x, p) => StillToBackfill(x, p)'
        BY <2>10 DEF CommitEvaluation, CommitLoop
      <4> QED
        BY <2>0, <2>10, <4>1, <4>2, <4>3, <4>4, <4>5 DEF CommitEvaluation
    <3> QED
      BY <3>1, <3>2
  <2>11. ASSUME NEW c \in Cycles, FinishCycle(c) PROVE Settled(p)'
    BY <2>0, <2>11 DEF FinishCycle, SessionDiscipline
  <2>12. ASSUME NEW x \in Clients, RequestRegion(x) PROVE Settled(p)'
    BY <2>0, <2>12 DEF RequestRegion, SessionDiscipline
  <2>13. ASSUME NEW x \in Clients, InsertRegion(x, "subscribe") PROVE Settled(p)'
    BY <2>0, <2>13 DEF InsertRegion, SessionDiscipline
  <2>14. ASSUME NEW x \in Clients, RequestFails(x) PROVE Settled(p)'
    BY <2>0, <2>14 DEF RequestFails, SessionDiscipline
  <2>15. ASSUME NEW x \in Clients, SelectSubscription(x) PROVE Settled(p)'
    <3>1. p \in lost => p \in lost' \/ StillToBackfill(x, p)'
      BY <2>15 DEF SelectSubscription
    <3> QED
      BY <2>0, <2>15, <3>1 DEF SelectSubscription, SessionDiscipline
  <2>16. ASSUME NEW x \in Clients, InsertSubscription(x) PROVE Settled(p)'
    <3>1. CASE s \in subscriptions
      BY <2>0, <2>16, <3>1 DEF InsertSubscription
    <3>2. CASE s \notin subscriptions
      <4>1. s \in wanted'[x] /\ pc'[x] = "backfill"
        BY <2>16, <3>2 DEF InsertSubscription
      <4> QED
        BY <4>1 DEF Pair
    <3> QED
      BY <3>1, <3>2
  <2>17. ASSUME NEW x \in Clients, Backfill(x) PROVE Settled(p)'
    <3>1. CASE StillToBackfill(x, p)
      <4>1. s \in wanted[x] /\ e \in events
        BY <2>17, <3>1 DEF Backfill, Pair
      <4>2. p \in pairs'[x]
        <5>1. <<s, e>> \in {se \in wanted[x] \X events :
                              Recent(se[2]) /\ Matches(se[1], se[2])}
          BY <4>1 DEF MustAlert, Pair
        <5> QED
          BY <2>17, <5>1 DEF Backfill
      <4> QED
        BY <2>17, <4>1, <4>2 DEF Backfill, Pair
    <3>2. CASE ~StillToBackfill(x, p)
      BY <2>0, <2>17, <3>2 DEF Backfill, SessionDiscipline
    <3> QED
      BY <3>1, <3>2
  <2>18. ASSUME NEW x \in Clients, CommitBackfill(x) PROVE Settled(p)'
    BY <2>0, <2>18 DEF CommitBackfill, CommitLoop, SessionDiscipline
  <2>19. ASSUME NEW w \in Sessions, Consider(w) PROVE Settled(p)'
    <3>1. PICK q \in pairs[w] : Consider(w)!2!(q)
      BY <2>19 DEF Consider
    <3>2. UNCHANGED <<tables, pc, wanted, ingestVars, history>>
      BY <2>19 DEF Consider
    <3>3. \A v \in Sessions : pending[v] \subseteq pending'[v]
      BY <3>1 DEF AddJudgement, AddNotification
    <3>4. \A v \in Sessions : InHand(v, p) /\ ~(v = w /\ p = q) => InHand(v, p)'
      BY <3>1, <3>3
    <3>5. CASE p = q
      <4>1. RuleLevel(p) # "NONE"
        BY DEF MustAlert
      <4>2. CASE \E n \in Visible(w) : Covers(n, p)
        BY <2>0, <3>2, <3>3, <3>4, <4>2, <3>5 DEF Visible
      <4>3. CASE \A n \in Visible(w) : ~Covers(n, p)
        <5>1. Notification(w, p, RuleLevel(p), RuleSource(p)) \in pending'[w]
          BY <3>1, <3>5, <4>1, <4>3 DEF AddNotification
        <5>2. InHand(w, p)'
          BY <5>1 DEF Covers, Notification
        <5> QED
          BY <2>0, <3>2, <3>4, <5>2
      <4> QED
        BY <4>2, <4>3
    <3>6. CASE p # q
      BY <2>0, <3>2, <3>4, <3>6
    <3> QED
      BY <3>5, <3>6
  <2>20. ASSUME NEW w \in Sessions, LlmAnswers(w) PROVE Settled(p)'
    BY <2>0, <2>20 DEF LlmAnswers, AddNotification, AddJudgement, SessionDiscipline
  <2>21. ASSUME NEW w \in Sessions, LlmFails(w) PROVE Settled(p)'
    BY <2>0, <2>21 DEF LlmFails, SessionDiscipline
  <2>25. ASSUME NEW dead \in SUBSET Sessions, Die(dead) PROVE Settled(p)'
    <3>1. Settled(p)
      BY <2>0, <2>25 DEF Die
    <3>2. Alerted(p) \/ p \in lost => Settled(p)'
      BY <2>25 DEF Die
    <3>3. ASSUME NEW c \in Cycles, p.ev \in stored[c], c \in dead PROVE p \in lost'
      <4>1. p \in Unevaluated(c)
        BY <2>25, <3>3 DEF Die, Unevaluated, Pair
      <4> QED
        BY <2>25, <3>3, <4>1 DEF Die
    <3>4. ASSUME NEW x \in Clients, p.sub \in wanted[x], x \in dead,
                 pc[x] \in {"backfill", "notify"}
          PROVE  p \in lost'
      <4>1. p \in Unbackfilled(x)
        BY <2>25, <3>4 DEF Die, Unbackfilled, Pair
      <4>2. p \in UNION {Unbackfilled(y) : y \in dead \cap Clients}
        BY <3>4, <4>1
      <4>3. lost' = lost \cup (UNION {Unevaluated(c) : c \in dead \cap Cycles})
                         \cup (UNION {Unbackfilled(y) : y \in dead \cap Clients})
        BY <2>25, Zenon DEF Die
      <4> QED
        BY <4>2, <4>3, Zenon
    <3>5. ASSUME NEW c \in Cycles, StillToEvaluate(c, p) PROVE Settled(p)'
      BY <2>25, <3>3, <3>5 DEF Die
    <3>6. ASSUME NEW x \in Clients, StillToBackfill(x, p) PROVE Settled(p)'
      BY <2>25, <3>4, <3>6 DEF Die
    <3>7. ASSUME NEW w \in Sessions, InHand(w, p), Answerable(w, p) PROVE Settled(p)'
      <4>1. pc[w] = "notify"
        BY <3>7 DEF SessionDiscipline
      <4>2. CASE w \in dead
        BY <3>3, <3>4, <3>7, <4>1, <4>2
      <4>3. CASE w \notin dead
        BY <2>25, <3>7, <4>3 DEF Die
      <4> QED
        BY <4>2, <4>3
    <3> QED
      BY <3>1, <3>2, <3>5, <3>6, <3>7
  <2>22. ASSUME NEW w \in Sessions, SessionDies(w) PROVE Settled(p)'
    <3>1. Die({w})
      BY <2>22 DEF SessionDies
    <3> QED
      BY <2>25, <3>1
  <2>23. ASSUME ProcessRestarts PROVE Settled(p)'
    <3>1. Die(Sessions)
      BY <2>23 DEF ProcessRestarts
    <3> QED
      BY <2>25, <3>1
  <2>24. CASE UNCHANGED vars
    BY <2>0, <2>24 DEF vars
  <2> QED
    BY <2>1, <2>2, <2>3, <2>4, <2>5, <2>6, <2>7, <2>8, <2>9, <2>10, <2>11, <2>12, <2>13, <2>14, <2>15, <2>16, <2>17, <2>18, <2>19, <2>20, <2>21, <2>22, <2>23, <2>24 DEF Next, IngestStep, RequestStep, PairStep
<1>3. QED
  BY <1>1, <1>2, TypeCorrect, SessionsDisciplined, PTL DEF Spec

\* With every session at rest, a stored pair that must alert is alerted
\* unless a session died on it.
THEOREM NothingMissed == Spec => []NoMissedAlert
<1>1. TypeOK /\ SessionDiscipline /\ EveryAlertOwed => NoMissedAlert
  BY DEF TypeOK, SessionTypes, SessionDiscipline, EveryAlertOwed, NoMissedAlert, Settled,
         Owed, StillToEvaluate, StillToBackfill, InHand, Sessions
<1>2. QED
  BY <1>1, TypeCorrect, SessionsDisciplined, AlertsOwed, PTL

\* Rows that have a log and logs that have a row stay so when sets are joined.
LEMMA AiLoggedUnion ==
  ASSUME NEW ns1, NEW ls1, NEW ns2, NEW ls2, AiLogged(ns1, ls1), AiLogged(ns2, ls2)
  PROVE  AiLogged(ns1 \cup ns2, ls1 \cup ls2)
BY DEF AiLogged

\* One judgement of Layer 2 adds a log and, unless it is LOW, its row.
LEMMA JudgementLogged ==
  ASSUME NEW w \in Sessions, NEW p, NEW level,
         pending \in [Sessions -> SUBSET NotificationRows],
         pendingLogs \in [Sessions -> SUBSET LogRows],
         \A v \in Sessions : AiLogged(pending[v], pendingLogs[v]),
         AddJudgement(w, p, level)
  PROVE  \A v \in Sessions : AiLogged(pending'[v], pendingLogs'[v])
<1> DEFINE ns == IF level = "LOW" THEN {} ELSE {Notification(w, p, level, "ai")}
<1> DEFINE ls == {AIRiskLog(w, p, level)}
<1>1. AiLogged(ns, ls)
  BY DEF AiLogged, Notification, AIRiskLog
<1>2. AiLogged(pending[w] \cup ns, pendingLogs[w] \cup ls)
  BY <1>1, AiLoggedUnion
<1>3. pending'[w] = pending[w] \cup ns /\ pendingLogs'[w] = pendingLogs[w] \cup ls
  BY DEF AddJudgement, AddNotification
<1>4. \A v \in Sessions : v # w => pending'[v] = pending[v] /\ pendingLogs'[v] = pendingLogs[v]
  BY DEF AddJudgement, AddNotification
<1> QED
  BY <1>2, <1>3, <1>4

PendingLogged == \A w \in Sessions : AiLogged(pending[w], pendingLogs[w])

\* Every Layer 2 notification has its ai_risk_logs row and every judgement
\* above LOW its notification, whatever dies: both rows are added to the same
\* session before its single commit.
THEOREM JudgementsLogged == Spec => []AiAlertsLogged
<1> USE SessionsAssumption
<1> DEFINE Inv == AiAlertsLogged /\ PendingLogged
<1>1. Init => Inv
  BY DEF Init, AiAlertsLogged, PendingLogged, AiLogged
<1>2. TypeOK /\ Inv /\ [Next]_vars => Inv'
  <2> SUFFICES ASSUME TypeOK, Inv, [Next]_vars PROVE Inv'
    OBVIOUS
  <2> USE DEF TypeOK, SessionTypes, AiAlertsLogged, PendingLogged,
             tables, ingestVars, loopVars, history, Sessions
  <2>1. ASSUME NEW c \in Cycles, StartCycle(c) PROVE Inv'
    BY <2>1 DEF StartCycle
  <2>2. ASSUME NEW c \in Cycles, Fetch(c) PROVE Inv'
    BY <2>2 DEF Fetch
  <2>3. ASSUME NEW c \in Cycles, SelectRegion(c) PROVE Inv'
    BY <2>3 DEF SelectRegion
  <2>4. ASSUME NEW c \in Cycles, InsertRegion(c, "select_event") PROVE Inv'
    BY <2>4 DEF InsertRegion
  <2>5. ASSUME NEW c \in Cycles, RegionConflict(c) PROVE Inv'
    BY <2>5 DEF RegionConflict
  <2>6. ASSUME NEW c \in Cycles, SelectEvent(c) PROVE Inv'
    BY <2>6 DEF SelectEvent
  <2>7. ASSUME NEW c \in Cycles, InsertEvent(c) PROVE Inv'
    BY <2>7 DEF InsertEvent, EventRows
  <2>8. ASSUME NEW c \in Cycles, EndFetch(c) PROVE Inv'
    BY <2>8 DEF EndFetch
  <2>9. ASSUME NEW c \in Cycles, Evaluate(c) PROVE Inv'
    BY <2>9 DEF Evaluate
  <2>10. ASSUME NEW c \in Cycles, CommitEvaluation(c) PROVE Inv'
    <3>1. AiLogged(notifications', aiRiskLogs')
      BY <2>10, AiLoggedUnion DEF CommitEvaluation, CommitLoop
    <3>2. AiLogged({}, {})
      BY DEF AiLogged
    <3> QED
      BY <2>10, <3>1, <3>2 DEF CommitEvaluation, CommitLoop
  <2>11. ASSUME NEW c \in Cycles, FinishCycle(c) PROVE Inv'
    BY <2>11 DEF FinishCycle
  <2>12. ASSUME NEW x \in Clients, RequestRegion(x) PROVE Inv'
    BY <2>12 DEF RequestRegion
  <2>13. ASSUME NEW x \in Clients, InsertRegion(x, "subscribe") PROVE Inv'
    BY <2>13 DEF InsertRegion
  <2>14. ASSUME NEW x \in Clients, RequestFails(x) PROVE Inv'
    BY <2>14 DEF RequestFails
  <2>15. ASSUME NEW x \in Clients, SelectSubscription(x) PROVE Inv'
    BY <2>15 DEF SelectSubscription
  <2>16. ASSUME NEW x \in Clients, InsertSubscription(x) PROVE Inv'
    BY <2>16 DEF InsertSubscription
  <2>17. ASSUME NEW x \in Clients, Backfill(x) PROVE Inv'
    BY <2>17 DEF Backfill
  <2>18. ASSUME NEW x \in Clients, CommitBackfill(x) PROVE Inv'
    <3>1. AiLogged(notifications', aiRiskLogs')
      BY <2>18, AiLoggedUnion DEF CommitBackfill, CommitLoop
    <3>2. AiLogged({}, {})
      BY DEF AiLogged
    <3> QED
      BY <2>18, <3>1, <3>2 DEF CommitBackfill, CommitLoop
  <2>19. ASSUME NEW w \in Sessions, Consider(w) PROVE Inv'
    <3>1. PICK p \in pairs[w] : Consider(w)!2!(p)
      BY <2>19 DEF Consider
    <3>2. UNCHANGED <<notifications, aiRiskLogs>>
      BY <2>19 DEF Consider
    <3>3. CASE AddJudgement(w, p, decisionCache[CacheKey(p)])
      BY <3>2, <3>3, JudgementLogged
    <3>4. CASE AddNotification(w, p, RuleLevel(p), RuleSource(p)) /\ UNCHANGED pendingLogs
      <4>1. Notification(w, p, RuleLevel(p), RuleSource(p)).source # "ai"
        BY DEF Notification, RuleSource
      <4>2. ASSUME NEW v \in Sessions PROVE AiLogged(pending'[v], pendingLogs'[v])
        BY <3>4, <4>1 DEF AddNotification, AiLogged
      <4> QED
        BY <3>2, <4>2
    <3>5. CASE UNCHANGED <<pending, pendingLogs>>
      BY <3>2, <3>5
    <3> QED
      BY <3>1, <3>3, <3>4, <3>5
  <2>20. ASSUME NEW w \in Sessions, LlmAnswers(w) PROVE Inv'
    <3>1. PICK p \in asked[w], level \in Levels : AddJudgement(w, p, level)
      BY <2>20 DEF LlmAnswers
    <3>2. UNCHANGED <<notifications, aiRiskLogs>>
      BY <2>20 DEF LlmAnswers
    <3> QED
      BY <3>1, <3>2, JudgementLogged
  <2>21. ASSUME NEW w \in Sessions, LlmFails(w) PROVE Inv'
    BY <2>21 DEF LlmFails
  <2>22. ASSUME NEW w \in Sessions, SessionDies(w) PROVE Inv'
    <3>1. AiLogged({}, {})
      BY DEF AiLogged
    <3> QED
      BY <2>22, <3>1 DEF SessionDies, Die
  <2>23. ASSUME ProcessRestarts PROVE Inv'
    <3>1. AiLogged({}, {})
      BY DEF AiLogged
    <3> QED
      BY <2>23, <3>1 DEF ProcessRestarts, Die
  <2>24. CASE UNCHANGED vars
    BY <2>24 DEF vars
  <2> QED
    BY <2>1, <2>2, <2>3, <2>4, <2>5, <2>6, <2>7, <2>8, <2>9, <2>10, <2>11, <2>12, <2>13, <2>14, <2>15, <2>16, <2>17, <2>18, <2>19, <2>20, <2>21, <2>22, <2>23, <2>24 DEF Next, IngestStep, RequestStep, PairStep
<1>3. QED
  BY <1>1, <1>2, TypeCorrect, PTL DEF Spec

\* A pair or row r is about a stored subscription and a stored event that match.
Grounded(r) == r.sub \in subscriptions /\ r.ev \in events /\ Matches(r.sub, r.ev)

HandsGrounded ==
  \A w \in Sessions : \A r \in pairs[w] \cup asked[w] \cup pending[w] : Grounded(r)

\* Nobody is notified of an event of another place, or of one that is not
\* stored: sessions only take up pairs they read from the tables.
THEOREM AlertsGrounded == Spec => [](NoSpuriousAlert /\ HandsGrounded)
<1> USE SessionsAssumption
<1> DEFINE Inv == NoSpuriousAlert /\ HandsGrounded
<1>1. Init => Inv
  BY DEF Init, NoSpuriousAlert, HandsGrounded
<1>2. TypeOK /\ SessionDiscipline /\ Inv /\ [Next]_vars => Inv'
  <2> SUFFICES ASSUME TypeOK, SessionDiscipline, Inv, [Next]_vars PROVE Inv'
    OBVIOUS
  <2> USE DEF TypeOK, SessionTypes, NoSpuriousAlert, HandsGrounded, Grounded,
             tables, ingestVars, loopVars, history, Sessions
  <2>1. ASSUME NEW c \in Cycles, StartCycle(c) PROVE Inv'
    BY <2>1 DEF StartCycle
  <2>2. ASSUME NEW c \in Cycles, Fetch(c) PROVE Inv'
    BY <2>2 DEF Fetch
  <2>3. ASSUME NEW c \in Cycles, SelectRegion(c) PROVE Inv'
    BY <2>3 DEF SelectRegion
  <2>4. ASSUME NEW c \in Cycles, InsertRegion(c, "select_event") PROVE Inv'
    BY <2>4 DEF InsertRegion
  <2>5. ASSUME NEW c \in Cycles, RegionConflict(c) PROVE Inv'
    BY <2>5 DEF RegionConflict
  <2>6. ASSUME NEW c \in Cycles, SelectEvent(c) PROVE Inv'
    BY <2>6 DEF SelectEvent
  <2>7. ASSUME NEW c \in Cycles, InsertEvent(c) PROVE Inv'
    BY <2>7 DEF InsertEvent, EventRows
  <2>8. ASSUME NEW c \in Cycles, EndFetch(c) PROVE Inv'
    BY <2>8 DEF EndFetch
  <2>9. ASSUME NEW c \in Cycles, Evaluate(c) PROVE Inv'
    <3>1. PICK e \in stored[c] :
            pairs' = [pairs EXCEPT ![c] =
                        {Pair(s, e) : s \in {s \in subscriptions : Matches(s, e)}}]
      BY <2>9 DEF Evaluate
    <3>2. e \in events
      BY DEF SessionDiscipline
    <3>3. ASSUME NEW r \in pairs'[c] PROVE Grounded(r)
      <4>1. PICK s \in subscriptions : Matches(s, e) /\ r = Pair(s, e)
        BY <3>1, <3>3
      <4> QED
        BY <3>2, <4>1 DEF Pair
    <3> QED
      BY <2>9, <3>1, <3>3 DEF Evaluate, Matches
  <2>10. ASSUME NEW c \in Cycles, CommitEvaluation(c) PROVE Inv'
    BY <2>10 DEF CommitEvaluation, CommitLoop
  <2>11. ASSUME NEW c \in Cycles, FinishCycle(c) PROVE Inv'
    BY <2>11 DEF FinishCycle
  <2>12. ASSUME NEW x \in Clients, RequestRegion(x) PROVE Inv'
    BY <2>12 DEF RequestRegion
  <2>13. ASSUME NEW x \in Clients, InsertRegion(x, "subscribe") PROVE Inv'
    BY <2>13 DEF InsertRegion
  <2>14. ASSUME NEW x \in Clients, RequestFails(x) PROVE Inv'
    BY <2>14 DEF RequestFails
  <2>15. ASSUME NEW x \in Clients, SelectSubscription(x) PROVE Inv'
    BY <2>15 DEF SelectSubscription
  <2>16. ASSUME NEW x \in Clients, InsertSubscription(x) PROVE Inv'
    BY <2>16 DEF InsertSubscription
  <2>17. ASSUME NEW x \in Clients, Backfill(x) PROVE Inv'
    <3>1. wanted[x] \subseteq subscriptions
      BY <2>17 DEF Backfill, SessionDiscipline
    <3>2. ASSUME NEW r \in pairs'[x] PROVE Grounded(r)
      <4>1. PICK se \in wanted[x] \X events :
              Matches(se[1], se[2]) /\ r = Pair(se[1], se[2])
        BY <2>17, <3>2 DEF Backfill
      <4> QED
        BY <3>1, <4>1 DEF Pair
    <3> QED
      BY <2>17, <3>2 DEF Backfill, Matches
  <2>18. ASSUME NEW x \in Clients, CommitBackfill(x) PROVE Inv'
    BY <2>18 DEF CommitBackfill, CommitLoop
  <2>19. ASSUME NEW w \in Sessions, Consider(w) PROVE Inv'
    BY <2>19 DEF Consider, AddNotification, AddJudgement, Notification
  <2>20. ASSUME NEW w \in Sessions, LlmAnswers(w) PROVE Inv'
    BY <2>20 DEF LlmAnswers, AddNotification, AddJudgement, Notification
  <2>21. ASSUME NEW w \in Sessions, LlmFails(w) PROVE Inv'
    BY <2>21 DEF LlmFails
  <2>22. ASSUME NEW w \in Sessions, SessionDies(w) PROVE Inv'
    BY <2>22 DEF SessionDies, Die, Unbackfilled
  <2>23. ASSUME ProcessRestarts PROVE Inv'
    BY <2>23 DEF ProcessRestarts, Die, Unbackfilled
  <2>24. CASE UNCHANGED vars
    BY <2>24 DEF vars
  <2> QED
    BY <2>1, <2>2, <2>3, <2>4, <2>5, <2>6, <2>7, <2>8, <2>9, <2>10, <2>11, <2>12, <2>13, <2>14, <2>15, <2>16, <2>17, <2>18, <2>19, <2>20, <2>21, <2>22, <2>23, <2>24 DEF Next, IngestStep, RequestStep, PairStep
<1>3. QED
  BY <1>1, <1>2, TypeCorrect, SessionsDisciplined, PTL DEF Spec

\* What a session has in hand is its own, and no commit of its own covers it.
NotNotifiedBefore ==
  \A w \in Sessions :
    /\ \A n \in pending[w] : n.by = w
    /\ \A r \in asked[w] \cup pending[w], m \in notifications :
         Covers(m, r) => m.by # w

\* Rows and pairs with the same subscription and event are covered alike.
LEMMA CoversAlike ==
  ASSUME NEW m, NEW r, NEW p, r.sub = p.sub, r.ev = p.ev
  PROVE  Covers(m, r) <=> Covers(m, p)
BY DEF Covers

\* A session tells again of a pair, or of a warning to a person, only what
\* another session told first.
THEOREM OwnAlertsOnce == Spec => []OwnAlertsNotRepeated
<1>1. Init => NotNotifiedBefore
  BY DEF Init, NotNotifiedBefore
<1>2. TypeOK /\ NotNotifiedBefore /\ [Next]_vars => NotNotifiedBefore'
  <2> SUFFICES ASSUME TypeOK, NotNotifiedBefore, [Next]_vars PROVE NotNotifiedBefore'
    OBVIOUS
  <2> USE DEF TypeOK, SessionTypes, NotNotifiedBefore
  <2>1. ASSUME NEW w \in Sessions, CommitLoop(w), UNCHANGED <<asked>>
        PROVE  NotNotifiedBefore'
    BY <2>1 DEF CommitLoop
  <2>2. ASSUME NEW w \in Sessions, Consider(w) PROVE NotNotifiedBefore'
    <3>1. PICK p \in pairs[w] : Consider(w)!2!(p)
      BY <2>2 DEF Consider
    <3>2. UNCHANGED notifications
      BY <2>2 DEF Consider, tables
    <3>3. CASE UNCHANGED <<pending, asked>>
      BY <3>2, <3>3
    <3>4. CASE \A n \in Visible(w) : ~Covers(n, p)
      <4>1. \A m \in notifications : ~Covers(m, p)
        BY <3>4 DEF Visible
      <4>2. CASE asked' = [asked EXCEPT ![w] = {p}] /\ UNCHANGED pending
        BY <3>2, <4>1, <4>2
      <4>3. CASE UNCHANGED asked /\ \E level, source : AddNotification(w, p, level, source)
        <5>1. PICK level, source :
                pending' = [pending EXCEPT ![w] = @ \cup {Notification(w, p, level, source)}]
          BY <4>3 DEF AddNotification
        <5>2. /\ Notification(w, p, level, source).by = w
              /\ Notification(w, p, level, source).sub = p.sub
              /\ Notification(w, p, level, source).ev = p.ev
          BY DEF Notification
        <5>3. \A m \in notifications : ~Covers(m, Notification(w, p, level, source))
          BY <4>1, <5>2, CoversAlike
        <5> QED
          BY <3>2, <4>1, <4>3, <5>1, <5>2, <5>3
      <4> QED
        BY <3>1, <3>3, <4>2, <4>3 DEF AddJudgement
    <3> QED
      BY <3>1, <3>3, <3>4
  <2>3. ASSUME NEW w \in Sessions, LlmAnswers(w) PROVE NotNotifiedBefore'
    <3>1. PICK p \in asked[w], level \in Levels : AddJudgement(w, p, level)
      BY <2>3 DEF LlmAnswers
    <3>2. UNCHANGED notifications /\ asked' = [asked EXCEPT ![w] = {}]
      BY <2>3 DEF LlmAnswers, tables
    <3>3. CASE UNCHANGED pending
      BY <3>2, <3>3
    <3>4. CASE AddNotification(w, p, level, "ai")
      <4>1. /\ Notification(w, p, level, "ai").by = w
            /\ Notification(w, p, level, "ai").sub = p.sub
            /\ Notification(w, p, level, "ai").ev = p.ev
        BY DEF Notification
      <4>2. \A m \in notifications :
              Covers(m, Notification(w, p, level, "ai")) => m.by # w
        BY <4>1, CoversAlike
      <4> QED
        BY <3>1, <3>2, <3>4, <4>1, <4>2 DEF AddNotification
    <3> QED
      BY <3>1, <3>3, <3>4 DEF AddJudgement
  <2>4. ASSUME NEW w \in Sessions, LlmFails(w) PROVE NotNotifiedBefore'
    BY <2>4 DEF LlmFails, tables
  <2>5. ASSUME NEW dead \in SUBSET Sessions, Die(dead) PROVE NotNotifiedBefore'
    BY <2>5 DEF Die, tables
  <2>6. CASE UNCHANGED <<notifications, asked, pending>>
    BY <2>6
  <2>7. ASSUME NEW c \in Cycles, StartCycle(c) \/ IngestStep(c) PROVE NotNotifiedBefore'
    <3>1. CASE CommitEvaluation(c)
      BY <2>1, <3>1 DEF CommitEvaluation, Sessions
    <3> QED
      BY <2>6, <2>7, <3>1 DEF IngestStep, StartCycle, Fetch, SelectRegion, InsertRegion,
         RegionConflict, SelectEvent, InsertEvent, EndFetch, Evaluate, FinishCycle,
         tables, loopVars
  <2>8. ASSUME NEW x \in Clients, RequestRegion(x) \/ RequestStep(x) PROVE NotNotifiedBefore'
    <3>1. CASE CommitBackfill(x)
      BY <2>1, <3>1 DEF CommitBackfill, Sessions
    <3> QED
      BY <2>6, <2>8, <3>1 DEF RequestStep, RequestRegion, InsertRegion, RequestFails,
         SelectSubscription, InsertSubscription, Backfill, tables, loopVars
  <2>9. CASE UNCHANGED vars
    BY <2>6, <2>9 DEF vars, tables, loopVars
  <2> QED
    BY <2>2, <2>3, <2>4, <2>5, <2>7, <2>8, <2>9
       DEF Next, PairStep, SessionDies, ProcessRestarts
<1>3. NotNotifiedBefore => OwnAlertsNotRepeated
  BY DEF NotNotifiedBefore, OwnAlertsNotRepeated
<1> QED
  BY <1>1, <1>2, <1>3, TypeCorrect, PTL DEF Spec

(***************************************************************************)
(* The refinement: what subscribers see of the tables changes as on the    *)
(* board of Alerting, by announcements, subscriptions, tellings and        *)
(* losses.                                                                 *)
(***************************************************************************)

\* Why one commit tells of one event, or one subscriber: a cycle works on one
\* event at a time and a request on one subscription.
InHands(w) == pairs[w] \cup asked[w] \cup pending[w]

OneTopic ==
  /\ \A c \in Cycles : \A k, l \in item[c] : k = l
  /\ \A x \in Clients : \A s, t \in wanted[x] : s = t
  /\ \A c \in Cycles : \A r \in InHands(c) : r.ev.key \in item[c] /\ r.ev.by = c
  /\ \A x \in Clients : \A r \in InHands(x) : r.sub \in wanted[x]

LEMMA OneTopicHolds == Spec => []OneTopic
<1> USE SessionsAssumption
<1>1. Init => OneTopic
  BY DEF Init, OneTopic, InHands, Sessions
<1>2. TypeOK /\ SessionDiscipline /\ OneTopic /\ [Next]_vars => OneTopic'
  <2> SUFFICES ASSUME TypeOK, SessionDiscipline, OneTopic, [Next]_vars PROVE OneTopic'
    OBVIOUS
  <2> USE DEF TypeOK, SessionTypes, OneTopic, InHands, Goto,
             tables, ingestVars, loopVars, history, Sessions
  <2>1. ASSUME NEW c \in Cycles, StartCycle(c) PROVE OneTopic'
    BY <2>1 DEF StartCycle
  <2>2. ASSUME NEW c \in Cycles, Fetch(c) PROVE OneTopic'
    BY <2>2 DEF Fetch
  <2>3. ASSUME NEW c \in Cycles, SelectRegion(c) PROVE OneTopic'
    BY <2>3 DEF SelectRegion, SessionDiscipline
  <2>4. ASSUME NEW c \in Cycles, InsertRegion(c, "select_event") PROVE OneTopic'
    BY <2>4 DEF InsertRegion
  <2>5. ASSUME NEW c \in Cycles, RegionConflict(c) PROVE OneTopic'
    BY <2>5 DEF RegionConflict, SessionDiscipline
  <2>6. ASSUME NEW c \in Cycles, SelectEvent(c) PROVE OneTopic'
    BY <2>6 DEF SelectEvent, SessionDiscipline
  <2>7. ASSUME NEW c \in Cycles, InsertEvent(c) PROVE OneTopic'
    BY <2>7 DEF InsertEvent, SessionDiscipline
  <2>8. ASSUME NEW c \in Cycles, EndFetch(c) PROVE OneTopic'
    BY <2>8 DEF EndFetch
  <2>9. ASSUME NEW c \in Cycles, Evaluate(c) PROVE OneTopic'
    <3>1. PICK e \in stored[c] :
            /\ item' = [item EXCEPT ![c] = {e.key}]
            /\ pairs' = [pairs EXCEPT ![c] =
                  {Pair(s, e) : s \in {s \in subscriptions : Matches(s, e)}}]
      BY <2>9 DEF Evaluate
    <3>2. e.by = c
      BY DEF SessionDiscipline
    <3>3. asked'[c] = {} /\ pending'[c] = {}
      BY <2>9 DEF Evaluate, SessionDiscipline
    <3>4. \A r \in pairs'[c] : r.ev = e
      BY <3>1 DEF Pair
    <3>5. \A r \in InHands(c)' : r.ev.key \in item'[c] /\ r.ev.by = c
      BY <3>1, <3>2, <3>3, <3>4
    <3>6. /\ UNCHANGED <<wanted, asked, pending>>
          /\ \A w \in Sessions : w # c => pairs'[w] = pairs[w]
          /\ \A d \in Cycles : d # c => item'[d] = item[d]
          /\ \A k, l \in item'[c] : k = l
      BY <2>9, <3>1 DEF Evaluate
    <3> QED
      BY <3>5, <3>6
  <2>10. ASSUME NEW c \in Cycles, CommitEvaluation(c) PROVE OneTopic'
    BY <2>10 DEF CommitEvaluation, CommitLoop
  <2>11. ASSUME NEW c \in Cycles, FinishCycle(c) PROVE OneTopic'
    BY <2>11 DEF FinishCycle
  <2>12. ASSUME NEW x \in Clients, RequestRegion(x) PROVE OneTopic'
    BY <2>12 DEF RequestRegion, SessionDiscipline
  <2>13. ASSUME NEW x \in Clients, InsertRegion(x, "subscribe") PROVE OneTopic'
    BY <2>13 DEF InsertRegion
  <2>14. ASSUME NEW x \in Clients, RequestFails(x) PROVE OneTopic'
    BY <2>14 DEF RequestFails, SessionDiscipline
  <2>15. ASSUME NEW x \in Clients, SelectSubscription(x) PROVE OneTopic'
    BY <2>15 DEF SelectSubscription
  <2>16. ASSUME NEW x \in Clients, InsertSubscription(x) PROVE OneTopic'
    BY <2>16 DEF InsertSubscription
  <2>17. ASSUME NEW x \in Clients, Backfill(x) PROVE OneTopic'
    <3>1. asked'[x] = {} /\ pending'[x] = {}
      BY <2>17 DEF Backfill, SessionDiscipline
    <3>2. \A r \in pairs'[x] : r.sub \in wanted[x]
      BY <2>17 DEF Backfill, Pair
    <3> QED
      BY <2>17, <3>1, <3>2 DEF Backfill
  <2>18. ASSUME NEW x \in Clients, CommitBackfill(x) PROVE OneTopic'
    BY <2>18 DEF CommitBackfill, CommitLoop
  <2>19. ASSUME NEW w \in Sessions, Consider(w) PROVE OneTopic'
    BY <2>19 DEF Consider, AddNotification, AddJudgement, Notification
  <2>20. ASSUME NEW w \in Sessions, LlmAnswers(w) PROVE OneTopic'
    BY <2>20 DEF LlmAnswers, AddNotification, AddJudgement, Notification
  <2>21. ASSUME NEW w \in Sessions, LlmFails(w) PROVE OneTopic'
    BY <2>21 DEF LlmFails
  <2>22. ASSUME NEW dead \in SUBSET Sessions, Die(dead) PROVE OneTopic'
    BY <2>22 DEF Die
  <2>23. ASSUME NEW w \in Sessions, SessionDies(w) PROVE OneTopic'
    <3>1. Die({w})
      BY <2>23 DEF SessionDies
    <3> QED
      BY <2>22, <3>1
  <2>24. ASSUME ProcessRestarts PROVE OneTopic'
    <3>1. Die(Sessions)
      BY <2>24 DEF ProcessRestarts
    <3> QED
      BY <2>22, <3>1
  <2>25. CASE UNCHANGED vars
    BY <2>25 DEF vars
  <2> QED
    BY <2>1, <2>2, <2>3, <2>4, <2>5, <2>6, <2>7, <2>8, <2>9, <2>10, <2>11, <2>12,
       <2>13, <2>14, <2>15, <2>16, <2>17, <2>18, <2>19, <2>20, <2>21, <2>23, <2>24, <2>25
       DEF Next, IngestStep, RequestStep, PairStep
<1> QED
  BY <1>1, <1>2, TypeCorrect, SessionsDisciplined, PTL DEF Spec

(***************************************************************************)
(* The board, and the kinds of steps on it.                                *)
(***************************************************************************)
Told == {Pair(n.sub, n.ev) : n \in notifications}

\* What a session commits is a telling: of one event, or to one subscriber.
LEMMA CommitTells ==
  ASSUME TypeOK, HandsGrounded, OneTopic,
         NEW w \in Sessions, CommitLoop(w), UNCHANGED <<subscriptions, events, lost>>
  PROVE  Promise!Tell
<1> DEFINE new == Told' \ Told
<1>1. \A p \in new : \E n \in pending[w] : p = Pair(n.sub, n.ev)
  BY DEF Told, CommitLoop
<1>2. Told \subseteq Told'
  BY DEF Told, CommitLoop
<1>3. pending[w] \subseteq NotificationRows
  BY DEF TypeOK, SessionTypes
<1>4. ASSUME NEW p \in new
      PROVE  /\ p.sub \in subscriptions /\ p.ev \in events
             /\ p \in {q \in Pairs : Matches(q.sub, q.ev)}
  <2>1. PICK n \in pending[w] : p = Pair(n.sub, n.ev)
    BY <1>1
  <2>2. p.sub = n.sub /\ p.ev = n.ev
    BY <2>1 DEF Pair
  <2>3. p \in Pairs
    BY <1>3, <2>1 DEF Pair, Pairs, NotificationRows
  <2> QED
    BY <2>2, <2>3 DEF HandsGrounded, Grounded
<1>5. ASSUME w \in Cycles, NEW p \in new, NEW q \in new PROVE p.ev = q.ev
  <2>1. PICK n, m \in pending[w] : p = Pair(n.sub, n.ev) /\ q = Pair(m.sub, m.ev)
    BY <1>1
  <2>2. n.ev.key = m.ev.key /\ n.ev.by = m.ev.by
    BY <1>5 DEF OneTopic, InHands
  <2>3. n.ev \in EventRows /\ m.ev \in EventRows
    BY <1>3 DEF NotificationRows
  <2>4. n.ev = m.ev
    BY <2>2, <2>3 DEF EventRows
  <2> QED
    BY <2>1, <2>4 DEF Pair
<1>6. ASSUME w \in Clients, NEW p \in new, NEW q \in new PROVE p.sub = q.sub
  <2>1. PICK n, m \in pending[w] : p = Pair(n.sub, n.ev) /\ q = Pair(m.sub, m.ev)
    BY <1>1
  <2>2. n.sub = m.sub
    BY <1>6 DEF OneTopic, InHands
  <2> QED
    BY <2>1, <2>2 DEF Pair
<1> QED
  BY <1>2, <1>4, <1>5, <1>6 DEF Told, Promise!Tell, Promise!OnBoard, Sessions

\* A session that dies loses stored pairs only.
LEMMA DeathLoses ==
  ASSUME SessionDiscipline, NEW dead \in SUBSET Sessions, Die(dead)
  PROVE  Promise!Lose
<1> DEFINE L1 == UNION {Unevaluated(c) : c \in dead \cap Cycles}
           L2 == UNION {Unbackfilled(x) : x \in dead \cap Clients}
<1>1. lost' = lost \cup L1 \cup L2
  BY Zenon DEF Die
<1>2. \A p \in L1 : p.sub \in subscriptions /\ p.ev \in events
  BY DEF Unevaluated, Pair, SessionDiscipline
<1>3. \A p \in L2 : p.sub \in subscriptions /\ p.ev \in events
  BY DEF Unbackfilled, Pair, SessionDiscipline
<1>4. UNCHANGED <<subscriptions, events, Told>>
  BY DEF Die, tables, Told
<1> HIDE DEF L1, L2
<1> QED
  BY <1>1, <1>2, <1>3, <1>4 DEF Promise!Lose, Promise!OnBoard, Told

\* Every step of a cycle, a request or a failure is a step of the board or
\* changes nothing on it: it only grows, each commit tells of one event or
\* to one subscriber, and only a failure loses anything.
THEOREM Implements == Spec => ImplementsAlerting
<1> USE SessionsAssumption
<1>1. Init => Promise!Init
  BY DataAssumption DEF Init, Promise!Init
<1>2. /\ TypeOK /\ SessionDiscipline /\ NoSpuriousAlert /\ HandsGrounded /\ OneTopic
      /\ [Next]_vars
      => [Promise!Next]_Promise!board
  <2> SUFFICES ASSUME TypeOK, SessionDiscipline, HandsGrounded, OneTopic, [Next]_vars
               PROVE  Promise!Next \/ UNCHANGED Promise!board
    OBVIOUS
  <2>1. CASE UNCHANGED <<subscriptions, events, notifications, lost>>
    BY <2>1 DEF Promise!board
  <2>2. ASSUME NEW c \in Cycles, StartCycle(c) \/ IngestStep(c)
        PROVE  Promise!Next \/ UNCHANGED Promise!board
    <3>1. CASE CommitEvaluation(c)
      <4>1. CommitLoop(c) /\ UNCHANGED <<subscriptions, events, lost>>
        BY <3>1 DEF CommitEvaluation, history
      <4>2. Promise!Tell
        BY <4>1, CommitTells DEF Sessions
      <4> QED
        BY <4>2 DEF Promise!Next
    <3>2. CASE InsertEvent(c)
      <4>1. item[c] = {} \/ \E k \in Keys : item[c] = {k}
        BY DEF OneTopic, TypeOK, SessionTypes
      <4>2. CASE item[c] = {}
        BY <2>1, <3>2, <4>2 DEF InsertEvent, history
      <4>3. ASSUME NEW k \in Keys, item[c] = {k} PROVE Promise!Next
        <5>1. DEFINE e == [key |-> k, by |-> c]
        <5>2. e \in EventRows
          BY DEF EventRows
        <5>3. events' = events \cup {e}
          BY <3>2, <4>3 DEF InsertEvent
        <5>4. Promise!Announce(e)
          BY <3>2, <5>3 DEF InsertEvent, history, Promise!Announce
        <5> QED
          BY <5>2, <5>4 DEF Promise!Next
      <4> QED
        BY <4>1, <4>2, <4>3
    <3>3. CASE EndFetch(c)
      <4>1. CASE poisoned[c]
        <5>1. lost' = lost \cup Unevaluated(c)
          BY <3>3, <4>1 DEF EndFetch
        <5>2. \A p \in Unevaluated(c) : p.sub \in subscriptions /\ p.ev \in events
          BY DEF Unevaluated, Pair, SessionDiscipline
        <5>3. UNCHANGED <<subscriptions, events, notifications>>
          BY <3>3 DEF EndFetch, tables
        <5>4. Promise!Lose
          BY <5>1, <5>2, <5>3 DEF Promise!Lose, Promise!OnBoard
        <5> QED
          BY <5>4 DEF Promise!Next
      <4>2. CASE ~poisoned[c]
        BY <2>1, <3>3, <4>2 DEF EndFetch, tables
      <4> QED
        BY <4>1, <4>2
    <3> QED
      BY <2>1, <2>2, <3>1, <3>2, <3>3
         DEF IngestStep, StartCycle, Fetch, SelectRegion, InsertRegion, RegionConflict,
             SelectEvent, Evaluate, FinishCycle, tables, history
  <2>3. ASSUME NEW x \in Clients, RequestRegion(x) \/ RequestStep(x)
        PROVE  Promise!Next \/ UNCHANGED Promise!board
    <3>1. wanted[x] = {} \/ \E s \in Subs : wanted[x] = {s}
      BY DEF OneTopic, TypeOK, SessionTypes
    <3>2. CASE CommitBackfill(x)
      <4>1. CommitLoop(x) /\ UNCHANGED <<subscriptions, events, lost>>
        BY <3>2 DEF CommitBackfill, history
      <4>2. Promise!Tell
        BY <4>1, CommitTells DEF Sessions
      <4> QED
        BY <4>2 DEF Promise!Next
    <3>3. CASE InsertSubscription(x)
      <4>1. PICK s \in Subs : wanted[x] = {s}
        BY <3>1, <3>3 DEF InsertSubscription
      <4>2. Promise!Subscribe(s)
        BY <3>3, <4>1 DEF InsertSubscription, history, Promise!Subscribe
      <4> QED
        BY <4>2 DEF Promise!Next
    <3>4. CASE SelectSubscription(x)
      <4>1. CASE wanted[x] = {} \/ ~(wanted[x] \subseteq subscriptions)
        <5>1. UNCHANGED lost
          BY <3>4, <4>1 DEF SelectSubscription
        <5> QED
          BY <2>1, <3>4, <5>1 DEF SelectSubscription, tables
      <4>2. ASSUME NEW s \in Subs, wanted[x] = {s}, s \in subscriptions
            PROVE  Promise!Next
        <5>1. lost' = {p \in lost : p.sub # s}
          BY <3>4, <4>2 DEF SelectSubscription
        <5>2. Promise!AskAgain(s)
          BY <3>4, <4>2, <5>1 DEF SelectSubscription, tables, Promise!AskAgain
        <5> QED
          BY <5>2 DEF Promise!Next
      <4> QED
        BY <3>1, <4>1, <4>2
    <3> QED
      BY <2>1, <2>3, <3>2, <3>3, <3>4
         DEF RequestStep, RequestRegion, InsertRegion, RequestFails, Backfill, tables, history
  <2>4. ASSUME NEW w \in Sessions, PairStep(w) PROVE UNCHANGED Promise!board
    BY <2>4 DEF PairStep, Consider, LlmAnswers, LlmFails, tables, history, Promise!board
  <2>5. ASSUME NEW dead \in SUBSET Sessions, Die(dead) PROVE Promise!Next
    BY <2>5, DeathLoses DEF Promise!Next
  <2>6. CASE UNCHANGED vars
    BY <2>1, <2>6 DEF vars, tables, history
  <2> QED
    BY <2>2, <2>3, <2>4, <2>5, <2>6 DEF Next, SessionDies, ProcessRestarts
<1> QED
  BY <1>1, <1>2, TypeCorrect, SessionsDisciplined, AlertsGrounded, OneTopicHolds, PTL
     DEF Spec, ImplementsAlerting, Promise!Spec

(***************************************************************************)
(* One alert, as long as one session runs at a time.                       *)
(***************************************************************************)
OneAtATime ==
  \A v, w \in Sessions : pc[v] # "idle" /\ pc[w] # "idle" => v = w

LEMMA CyclesOneAtATime ==
  ASSUME ~Overlapping, Clients = {}
  PROVE  Spec => []OneAtATime
<1> USE DEF TypeOK, PcType, OneAtATime, Goto, Sessions
<1>1. Init => OneAtATime
  BY DEF Init
<1>2. TypeOK /\ OneAtATime /\ [Next]_vars => OneAtATime'
  <2> SUFFICES ASSUME TypeOK, OneAtATime, [Next]_vars PROVE OneAtATime'
    OBVIOUS
  <2>1. ASSUME NEW c \in Cycles, StartCycle(c) PROVE OneAtATime'
    BY <2>1 DEF StartCycle
  <2>2. ASSUME NEW c \in Cycles, IngestStep(c) PROVE OneAtATime'
    <3>1. pc[c] # "idle" /\ \A d \in Cycles : d # c => pc'[d] = pc[d]
      BY <2>2 DEF IngestStep, Fetch, SelectRegion, InsertRegion, RegionConflict, SelectEvent,
        InsertEvent, EndFetch, Evaluate, CommitEvaluation, CommitLoop, FinishCycle
    <3> QED
      BY <3>1
  <2>3. ASSUME NEW w \in Sessions, PairStep(w) PROVE OneAtATime'
    BY <2>3 DEF PairStep, Consider, LlmAnswers, LlmFails
  <2>4. ASSUME NEW dead \in SUBSET Sessions, Die(dead) PROVE OneAtATime'
    BY <2>4 DEF Die
  <2>5. CASE UNCHANGED vars
    BY <2>5 DEF vars
  <2>6. ASSUME NEW w \in Sessions, SessionDies(w) PROVE OneAtATime'
    <3>1. {w} \in SUBSET Sessions /\ Die({w})
      BY <2>6 DEF SessionDies
    <3> QED
      BY <2>4, <3>1
  <2>7. ASSUME ProcessRestarts PROVE OneAtATime'
    <3>1. Sessions \in SUBSET Sessions /\ Die(Sessions)
      BY <2>7 DEF ProcessRestarts
    <3> QED
      BY <2>4, <3>1
  <2> QED
    BY <2>1, <2>2, <2>3, <2>5, <2>6, <2>7 DEF Next
<1> QED
  BY <1>1, <1>2, TypeCorrect, PTL DEF Spec

\* A step as one session sees it: it leaves the session alone, ends its loop,
\* fills its list of pairs, considers one of them or answers for one.
Rests(w) == pairs'[w] = pairs[w] /\ asked'[w] = asked[w] /\ pending'[w] = pending[w]

Ends(w) == pairs'[w] = {} /\ asked'[w] = {} /\ pending'[w] = {}

Loads(w) == asked[w] = {} /\ pending[w] = {} /\ asked'[w] = {} /\ pending'[w] = {}

Adds(w, p) ==
  \/ pending'[w] = pending[w]
  \/ \E n : n.sub = p.sub /\ n.ev = p.ev /\ pending'[w] = pending[w] \cup {n}

Considers(w) ==
  \E p \in pairs[w] :
    /\ pairs'[w] = pairs[w] \ {p} /\ asked[w] = {}
    /\ \/ asked'[w] = {} /\ pending'[w] = pending[w]
       \/ /\ \A n \in Visible(w) : ~Covers(n, p)
          /\ \/ asked'[w] = {p} /\ pending'[w] = pending[w]
             \/ asked'[w] = {} /\ Adds(w, p)

Answers(w) ==
  \E p \in asked[w] : pairs'[w] = pairs[w] /\ asked'[w] = {} /\ Adds(w, p)

LEMMA HandsMove ==
  ASSUME TypeOK, SessionDiscipline, [Next]_vars, NEW w \in Sessions
  PROVE  Rests(w) \/ Ends(w) \/ Loads(w) \/ Considers(w) \/ Answers(w)
<1> DEFINE Goal == Rests(w) \/ Ends(w) \/ Loads(w) \/ Considers(w) \/ Answers(w)
<1>0. /\ pairs \in [Sessions -> SUBSET Pairs] /\ asked \in [Sessions -> SUBSET Pairs]
      /\ pending \in [Sessions -> SUBSET NotificationRows]
  BY DEF TypeOK, SessionTypes
<1>1. ASSUME NEW v \in Sessions, NEW p, NEW level, NEW source, AddNotification(v, p, level, source)
      PROVE  Adds(v, p) /\ \A x \in Sessions : x # v => pending'[x] = pending[x]
  <2>1. /\ Notification(v, p, level, source).sub = p.sub
        /\ Notification(v, p, level, source).ev = p.ev
    BY DEF Notification
  <2> QED
    BY <1>0, <1>1, <2>1 DEF AddNotification, Adds
<1>2. ASSUME NEW v \in Sessions, NEW p, NEW level, AddJudgement(v, p, level)
      PROVE  Adds(v, p) /\ \A x \in Sessions : x # v => pending'[x] = pending[x]
  BY <1>1, <1>2 DEF AddJudgement, Adds
<1>3. ASSUME NEW v \in Sessions, Consider(v) PROVE Goal
  <2>1. PICK p \in pairs[v] : Consider(v)!2!(p)
    BY <1>3 DEF Consider
  <2>2. pairs' = [pairs EXCEPT ![v] = @ \ {p}] /\ asked[v] = {}
    BY <1>3, <2>1 DEF Consider
  <2>3. \/ UNCHANGED <<pending, asked>>
        \/ /\ \A n \in Visible(v) : ~Covers(n, p)
           /\ UNCHANGED asked /\ Adds(v, p)
           /\ \A x \in Sessions : x # v => pending'[x] = pending[x]
        \/ /\ \A n \in Visible(v) : ~Covers(n, p)
           /\ asked' = [asked EXCEPT ![v] = {p}] /\ UNCHANGED pending
    BY <1>1, <1>2, <2>1
  <2> QED
    BY <1>0, <2>2, <2>3 DEF Considers, Rests
<1>4. ASSUME NEW v \in Sessions, LlmAnswers(v) PROVE Goal
  <2>1. PICK p \in asked[v], level \in Levels : AddJudgement(v, p, level)
    BY <1>4 DEF LlmAnswers
  <2>2. asked' = [asked EXCEPT ![v] = {}] /\ UNCHANGED pairs
    BY <1>4 DEF LlmAnswers
  <2> QED
    BY <1>0, <1>2, <2>1, <2>2 DEF Answers, Rests
<1>5. ASSUME NEW v \in Sessions, LlmFails(v) PROVE Goal
  BY <1>0, <1>5 DEF LlmFails, Answers, Adds, Rests
<1>6. ASSUME NEW v \in Sessions, CommitLoop(v), UNCHANGED <<pairs, asked>> PROVE Goal
  BY <1>0, <1>6 DEF CommitLoop, Ends, Rests
<1>7. ASSUME NEW v \in Sessions, pc[v] # "notify", UNCHANGED <<asked, pending>>,
             \A x \in Sessions : x # v => pairs'[x] = pairs[x]
      PROVE  Goal
  BY <1>7 DEF SessionDiscipline, Loads, Rests
<1>8. ASSUME NEW c \in Cycles, Evaluate(c) PROVE Goal
  BY <1>0, <1>7, <1>8 DEF Evaluate, Sessions
<1>9. ASSUME NEW x \in Clients, Backfill(x) PROVE Goal
  BY <1>0, <1>7, <1>9 DEF Backfill, Sessions
<1>10. ASSUME NEW dead \in SUBSET Sessions, Die(dead) PROVE Goal
  BY <1>0, <1>10 DEF Die, Ends, Rests
<1>11. CASE UNCHANGED loopVars
  BY <1>11 DEF loopVars, Rests
<1>12. ASSUME NEW c \in Cycles, StartCycle(c) \/ IngestStep(c) PROVE Goal
  <2>1. CASE CommitEvaluation(c)
    BY <1>6, <2>1 DEF CommitEvaluation, Sessions
  <2> QED
    BY <1>8, <1>11, <1>12, <2>1 DEF IngestStep, StartCycle, Fetch, SelectRegion,
      InsertRegion, RegionConflict, SelectEvent, InsertEvent, EndFetch, FinishCycle
<1>13. ASSUME NEW x \in Clients, RequestRegion(x) \/ RequestStep(x) PROVE Goal
  <2>1. CASE CommitBackfill(x)
    BY <1>6, <2>1 DEF CommitBackfill, Sessions
  <2> QED
    BY <1>9, <1>11, <1>13, <2>1 DEF RequestStep, RequestRegion, InsertRegion, RequestFails,
      SelectSubscription, InsertSubscription
<1>14. CASE UNCHANGED vars
  BY <1>11, <1>14 DEF vars
<1> QED
  BY <1>3, <1>4, <1>5, <1>10, <1>12, <1>13, <1>14
    DEF Next, PairStep, SessionDies, ProcessRestarts

\* Notifications are added by the commit that ends a session's loop.
Commits(v) ==
  /\ pc[v] = "notify" /\ notifications' = notifications \cup pending[v]
  /\ Ends(v) /\ \A w \in Sessions : w # v => Rests(w)

LEMMA OnlyCommitsTell ==
  ASSUME TypeOK, [Next]_vars
  PROVE  notifications' = notifications \/ \E v \in Sessions : Commits(v)
<1>1. ASSUME NEW v \in Sessions, CommitLoop(v), UNCHANGED <<pairs, asked>>
      PROVE  Commits(v)
  BY <1>1 DEF CommitLoop, Commits, Ends, Rests, TypeOK, SessionTypes
<1>2. ASSUME NEW c \in Cycles, CommitEvaluation(c)
      PROVE  \E v \in Sessions : Commits(v)
  BY <1>1, <1>2 DEF CommitEvaluation, Sessions
<1>3. ASSUME NEW x \in Clients, CommitBackfill(x)
      PROVE  \E v \in Sessions : Commits(v)
  BY <1>1, <1>3 DEF CommitBackfill, Sessions
<1>4. ASSUME NEW c \in Cycles, StartCycle(c) \/ IngestStep(c), ~CommitEvaluation(c)
      PROVE  notifications' = notifications
  BY <1>4 DEF IngestStep, StartCycle, Fetch, SelectRegion, InsertRegion, RegionConflict,
    SelectEvent, InsertEvent, EndFetch, Evaluate, FinishCycle, tables
<1>5. ASSUME NEW x \in Clients, RequestRegion(x) \/ RequestStep(x), ~CommitBackfill(x)
      PROVE  notifications' = notifications
  BY <1>5 DEF RequestStep, RequestRegion, InsertRegion, RequestFails, SelectSubscription,
    InsertSubscription, Backfill, tables
<1>6. ASSUME \/ \E w \in Sessions : PairStep(w) \/ SessionDies(w)
             \/ ProcessRestarts \/ UNCHANGED vars
      PROVE  notifications' = notifications
  BY <1>6 DEF PairStep, Consider, LlmAnswers, LlmFails, SessionDies, ProcessRestarts, Die,
    tables, vars
<1> QED
  BY <1>2, <1>3, <1>4, <1>5, <1>6 DEF Next

\* A key is inserted by the one session that did not find it.
NewIsNew ==
  \A c \in Cycles : pc[c] = "new_event" => \A k \in item[c] : ~IsStored(k)

LEMMA OnlyInsertsAnnounce ==
  [Next]_vars => events' = events \/ \E c \in Cycles : InsertEvent(c)
<1> SUFFICES ASSUME [Next]_vars, \A c \in Cycles : ~InsertEvent(c) PROVE events' = events
  OBVIOUS
<1> USE DEF tables
<1>1. CASE \E c \in Cycles : StartCycle(c) \/ IngestStep(c)
  BY <1>1 DEF IngestStep, StartCycle, Fetch, SelectRegion, InsertRegion, RegionConflict,
    SelectEvent, EndFetch, Evaluate, CommitEvaluation, FinishCycle
<1>2. CASE \E x \in Clients : RequestRegion(x) \/ RequestStep(x)
  BY <1>2 DEF RequestStep, RequestRegion, InsertRegion, RequestFails, SelectSubscription,
    InsertSubscription, Backfill, CommitBackfill
<1>3. CASE \/ \E w \in Sessions : PairStep(w) \/ SessionDies(w)
           \/ ProcessRestarts \/ UNCHANGED vars
  BY <1>3 DEF PairStep, Consider, LlmAnswers, LlmFails, SessionDies, ProcessRestarts, Die, vars
<1> QED
  BY <1>1, <1>2, <1>3 DEF Next

\* A step moves a cycle to its insert only from the select that found nothing.
LEMMA InsertAfterSelect ==
  ASSUME TypeOK, [Next]_vars, NEW c \in Cycles, pc'[c] = "new_event"
  PROVE  \/ pc[c] = "new_event" /\ item'[c] = item[c]
         \/ \E k \in item[c] : ~IsStored(k) /\ item'[c] = item[c] /\ events' = events
<1> DEFINE Goal == \/ pc[c] = "new_event" /\ item'[c] = item[c]
                   \/ \E k \in item[c] : ~IsStored(k) /\ item'[c] = item[c] /\ events' = events
<1> USE SessionsAssumption
<1>0. /\ pc \in [Sessions -> {"idle", "fetch", "new_region", "select_event", "new_event",
                              "evaluate", "notify", "subscribe", "new_subscription", "backfill"}]
      /\ item \in [Cycles -> SUBSET Keys] /\ c \in Sessions
  BY DEF TypeOK, PcType, SessionTypes, Sessions
<1> USE DEF Goto, tables, ingestVars
<1>1. ASSUME NEW d \in Cycles, SelectEvent(d) PROVE Goal
  BY <1>0, <1>1 DEF SelectEvent, Sessions
<1>2. ASSUME NEW d \in Cycles,
             \/ StartCycle(d) \/ Fetch(d) \/ SelectRegion(d) \/ InsertRegion(d, "select_event")
             \/ RegionConflict(d) \/ InsertEvent(d) \/ EndFetch(d) \/ Evaluate(d)
             \/ CommitEvaluation(d) \/ FinishCycle(d)
      PROVE  Goal
  BY <1>0, <1>2 DEF StartCycle, Fetch, SelectRegion, InsertRegion, RegionConflict,
    InsertEvent, EndFetch, Evaluate, CommitEvaluation, FinishCycle, Sessions
<1>3. ASSUME NEW x \in Clients, RequestRegion(x) \/ RequestStep(x) PROVE Goal
  BY <1>0, <1>3 DEF RequestStep, RequestRegion, InsertRegion, RequestFails,
    SelectSubscription, InsertSubscription, Backfill, CommitBackfill, Sessions
<1>4. ASSUME NEW w \in Sessions, PairStep(w) PROVE Goal
  BY <1>4 DEF PairStep, Consider, LlmAnswers, LlmFails
<1>5. ASSUME NEW dead \in SUBSET Sessions, Die(dead) PROVE Goal
  BY <1>0, <1>5 DEF Die
<1>6. CASE UNCHANGED vars
  BY <1>6 DEF vars
<1>7. ASSUME NEW w \in Sessions, SessionDies(w) PROVE Goal
  <2>1. {w} \in SUBSET Sessions /\ Die({w})
    BY <1>7 DEF SessionDies
  <2> QED
    BY <1>5, <2>1
<1>8. ASSUME ProcessRestarts PROVE Goal
  <2>1. Sessions \in SUBSET Sessions /\ Die(Sessions)
    BY <1>8 DEF ProcessRestarts
  <2> QED
    BY <1>5, <2>1
<1> QED
  BY <1>1, <1>2, <1>3, <1>4, <1>6, <1>7, <1>8 DEF Next, IngestStep

\* One row for what a source repeats, when cycles do not overlap.
LEMMA EventsUnique == Spec /\ []OneAtATime => [](UniqueEvents /\ NewIsNew)
<1> DEFINE Inv == UniqueEvents /\ NewIsNew
<1>1. Init => Inv
  BY SessionsAssumption DEF Init, UniqueEvents, NewIsNew, Sessions
<1>2. /\ TypeOK /\ OneTopic /\ OneTopic' /\ OneAtATime /\ OneAtATime' /\ Inv /\ [Next]_vars
      => Inv'
  <2> SUFFICES ASSUME TypeOK, OneTopic, OneTopic', OneAtATime, OneAtATime', Inv, [Next]_vars
               PROVE  Inv'
    OBVIOUS
  <2>1. \A c \in Cycles : \A k, l \in item'[c] : k = l
    BY DEF OneTopic
  <2>2. CASE events' = events
    <3>1. ASSUME NEW c \in Cycles, pc'[c] = "new_event", NEW k \in item'[c]
          PROVE  ~IsStored(k)'
      BY <2>1, <2>2, <3>1, InsertAfterSelect DEF NewIsNew, IsStored
    <3> QED
      BY <2>2, <3>1 DEF UniqueEvents, NewIsNew
  <2>3. ASSUME NEW c \in Cycles, InsertEvent(c) PROVE Inv'
    <3>1. /\ pc[c] = "new_event" /\ pc' = [pc EXCEPT ![c] = "fetch"]
          /\ events' = events \cup {[key |-> k, by |-> c] : k \in item[c]}
      BY <2>3 DEF InsertEvent, Goto
    <3>2. UniqueEvents'
      BY <3>1 DEF UniqueEvents, NewIsNew, IsStored, OneTopic
    <3>3. ASSUME NEW d \in Cycles, pc'[d] = "new_event" PROVE FALSE
      <4>1. pc[d] = "new_event" /\ d # c
        BY <3>1, <3>3 DEF TypeOK, PcType, Sessions
      <4> QED
        BY <3>1, <4>1 DEF OneAtATime, Sessions
    <3> QED
      BY <3>2, <3>3 DEF NewIsNew
  <2> QED
    BY <2>2, <2>3, OnlyInsertsAnnounce
<1> QED
  BY <1>1, <1>2, TypeCorrect, OneTopicHolds, PTL DEF Spec

(***************************************************************************)
(* A session has a pair in its hands once, and one that is not notified.   *)
(***************************************************************************)
Alike(n, p) == n.sub = p.sub /\ n.ev = p.ev

PairsOnce ==
  \A w \in Sessions :
    /\ asked[w] \cap pairs[w] = {}
    /\ \A p \in pairs[w] \cup asked[w], n \in pending[w] : ~Alike(n, p)
    /\ \A p \in asked[w] \cup pending[w], m \in notifications : ~Alike(m, p)
    /\ \A n, m \in pending[w] : Alike(n, m) => n = m

\* The other sessions have nothing in their hands when one commits.
LEMMA OthersIdle ==
  ASSUME SessionDiscipline, OneAtATime, NEW v \in Sessions, Commits(v)
  PROVE  \A w \in Sessions : pairs'[w] = {} /\ asked'[w] = {} /\ pending'[w] = {}
BY DEF SessionDiscipline, OneAtATime, Commits, Ends, Rests

LEMMA PairsOnceStep ==
  TypeOK /\ SessionDiscipline /\ OneAtATime /\ PairsOnce /\ OneAlertPerPair /\ [Next]_vars
    => PairsOnce' /\ OneAlertPerPair'
<1> SUFFICES ASSUME TypeOK, SessionDiscipline, OneAtATime, PairsOnce, OneAlertPerPair,
                    [Next]_vars
             PROVE  PairsOnce' /\ OneAlertPerPair'
  OBVIOUS
<1>1. CASE notifications' = notifications
  <2>1. ASSUME NEW w \in Sessions
        PROVE  /\ asked'[w] \cap pairs'[w] = {}
               /\ \A p \in pairs'[w] \cup asked'[w], n \in pending'[w] : ~Alike(n, p)
               /\ \A p \in asked'[w] \cup pending'[w], m \in notifications : ~Alike(m, p)
               /\ \A n, m \in pending'[w] : Alike(n, m) => n = m
    <3>0. /\ pairs[w] \subseteq Pairs /\ asked[w] \subseteq Pairs
          /\ \A p, q \in Pairs : Alike(p, q) => p = q
      BY DEF TypeOK, SessionTypes, Pairs, Alike
    <3>1. CASE Rests(w) \/ Ends(w) \/ Loads(w)
      BY <3>1 DEF Rests, Ends, Loads, PairsOnce
    <3>2. CASE Considers(w)
      <4>1. PICK p \in pairs[w] :
              /\ pairs'[w] = pairs[w] \ {p} /\ asked[w] = {}
              /\ \/ asked'[w] = {} /\ pending'[w] = pending[w]
                 \/ /\ \A n \in Visible(w) : ~Covers(n, p)
                    /\ \/ asked'[w] = {p} /\ pending'[w] = pending[w]
                       \/ asked'[w] = {} /\ Adds(w, p)
        BY <3>2 DEF Considers
      <4>2. CASE asked'[w] = {} /\ pending'[w] = pending[w]
        BY <4>1, <4>2 DEF PairsOnce
      <4>3. ASSUME \A n \in Visible(w) : ~Covers(n, p)
            PROVE  \A m \in notifications : ~Alike(m, p)
        BY <4>3 DEF Visible, Covers, Alike
      <4>4. CASE /\ \A n \in Visible(w) : ~Covers(n, p)
                 /\ asked'[w] = {p} /\ pending'[w] = pending[w]
        BY <4>1, <4>3, <4>4 DEF PairsOnce
      <4>5. ASSUME \A n \in Visible(w) : ~Covers(n, p), asked'[w] = {},
                   NEW n, Alike(n, p), pending'[w] = pending[w] \cup {n}
            PROVE  /\ \A q \in pairs'[w], m \in pending'[w] : ~Alike(m, q)
                   /\ \A q \in pending'[w], m \in notifications : ~Alike(m, q)
                   /\ \A q, m \in pending'[w] : Alike(q, m) => q = m
        <5>1. \A q \in pairs'[w] : ~Alike(n, q)
          BY <3>0, <4>1, <4>5 DEF Alike
        <5>2. \A m \in pending[w] \cup notifications : ~Alike(m, n) /\ ~Alike(n, m)
          BY <4>1, <4>3, <4>5 DEF PairsOnce, Alike
        <5> QED
          BY <4>1, <4>5, <5>1, <5>2 DEF PairsOnce
      <4> QED
        BY <4>1, <4>2, <4>4, <4>5 DEF Adds, Alike
    <3>3. CASE Answers(w)
      <4>1. PICK p \in asked[w] : pairs'[w] = pairs[w] /\ asked'[w] = {} /\ Adds(w, p)
        BY <3>3 DEF Answers
      <4>2. CASE pending'[w] = pending[w]
        BY <4>1, <4>2 DEF PairsOnce
      <4>3. ASSUME NEW n, Alike(n, p), pending'[w] = pending[w] \cup {n}
            PROVE  /\ \A q \in pairs'[w], m \in pending'[w] : ~Alike(m, q)
                   /\ \A q \in pending'[w], m \in notifications : ~Alike(m, q)
                   /\ \A q, m \in pending'[w] : Alike(q, m) => q = m
        <5>1. \A q \in pairs'[w] : ~Alike(n, q)
          BY <3>0, <4>1, <4>3 DEF Alike, PairsOnce
        <5>2. \A m \in pending[w] \cup notifications : ~Alike(m, n) /\ ~Alike(n, m)
          BY <4>1, <4>3 DEF PairsOnce, Alike
        <5> QED
          BY <4>1, <4>3, <5>1, <5>2 DEF PairsOnce
      <4> QED
        BY <4>1, <4>2, <4>3 DEF Adds, Alike
    <3> QED
      BY <3>1, <3>2, <3>3, HandsMove
  <2> QED
    BY <1>1, <2>1 DEF PairsOnce, OneAlertPerPair
<1>2. ASSUME NEW v \in Sessions, Commits(v) PROVE PairsOnce' /\ OneAlertPerPair'
  <2>1. \A n, m \in notifications' : Alike(n, m) => n = m
    BY <1>2 DEF Commits, PairsOnce, OneAlertPerPair, Alike
  <2> QED
    BY <1>2, <2>1, OthersIdle DEF PairsOnce, OneAlertPerPair, Alike
<1> QED
  BY <1>1, <1>2, OnlyCommitsTell

\* What a source repeats in every cycle is notified to a subscriber once, as
\* long as one session runs at a time: one event row, and one alert for it.
THEOREM OneAlertPerMessageHolds == Spec /\ []OneAtATime => []OneAlertPerMessage
<1>1. Init => PairsOnce /\ OneAlertPerPair
  BY DEF Init, PairsOnce, OneAlertPerPair
<1>2. UniqueEvents /\ NoSpuriousAlert /\ OneAlertPerPair => OneAlertPerMessage
  BY DEF UniqueEvents, NoSpuriousAlert, OneAlertPerPair, OneAlertPerMessage
<1> QED
  BY <1>1, <1>2, PairsOnceStep, TypeCorrect, SessionsDisciplined, EventsUnique,
     AlertsGrounded, PTL DEF Spec

(***************************************************************************)
(* The zones of a weather warning, and the subscriptions of a person.      *)
(***************************************************************************)

\* What a session has passed the dedupe selects with, no commit covers.
HandsUncovered ==
  \A w \in Sessions :
    \A r \in asked[w] \cup pending[w], m \in notifications : ~Covers(m, r)

LEMMA HandsUncoveredStep ==
  /\ TypeOK /\ SessionDiscipline /\ OneAtATime /\ HandsUncovered /\ [Next]_vars
  => HandsUncovered'
<1> SUFFICES ASSUME TypeOK, SessionDiscipline, OneAtATime, HandsUncovered, [Next]_vars
             PROVE  HandsUncovered'
  OBVIOUS
<1>1. CASE notifications' = notifications
  <2>1. ASSUME NEW w \in Sessions, NEW r \in asked'[w] \cup pending'[w],
               NEW m \in notifications
        PROVE  ~Covers(m, r)
    <3>1. CASE Rests(w) \/ Ends(w) \/ Loads(w)
      BY <2>1, <3>1 DEF Rests, Ends, Loads, HandsUncovered
    <3>2. ASSUME NEW p, Adds(w, p), ~Covers(m, p), r \in pending'[w]
          PROVE  ~Covers(m, r)
      BY <3>2, CoversAlike DEF Adds, HandsUncovered
    <3>3. CASE Considers(w)
      <4>1. PICK p \in pairs[w] :
              /\ asked[w] = {}
              /\ \/ asked'[w] = {} /\ pending'[w] = pending[w]
                 \/ /\ \A n \in Visible(w) : ~Covers(n, p)
                    /\ \/ asked'[w] = {p} /\ pending'[w] = pending[w]
                       \/ asked'[w] = {} /\ Adds(w, p)
        BY <3>3 DEF Considers
      <4>2. CASE asked'[w] = {} /\ pending'[w] = pending[w]
        BY <2>1, <4>2 DEF HandsUncovered
      <4>3. CASE \A n \in Visible(w) : ~Covers(n, p)
        <5>1. ~Covers(m, p)
          BY <4>3 DEF Visible
        <5> QED
          BY <2>1, <3>2, <4>1, <5>1 DEF HandsUncovered
      <4> QED
        BY <4>1, <4>2, <4>3
    <3>4. CASE Answers(w)
      BY <2>1, <3>2, <3>4 DEF Answers, HandsUncovered
    <3> QED
      BY <3>1, <3>3, <3>4, HandsMove
  <2> QED
    BY <1>1, <2>1 DEF HandsUncovered
<1>2. ASSUME NEW v \in Sessions, Commits(v) PROVE HandsUncovered'
  BY <1>2, OthersIdle DEF HandsUncovered
<1> QED
  BY <1>1, <1>2, OnlyCommitsTell

\* Autoflush or not, whatever subscriptions a person has and whatever requests
\* come between the cycles: as long as one session runs at a time, what one
\* commit told no later one tells again.
THEOREM RepeatsWithinALoop == Spec /\ []OneAtATime => RepeatsOnlyWithinALoop
<1>1. Init => HandsUncovered
  BY DEF Init, HandsUncovered
<1>2. TypeOK /\ HandsUncovered /\ [Next]_vars
      => [\A n \in notifications' \ notifications, m \in notifications : ~Covers(m, n)]_vars
  BY OnlyCommitsTell DEF HandsUncovered, Commits
<1> QED
  BY <1>1, <1>2, HandsUncoveredStep, TypeCorrect, SessionsDisciplined, PTL
     DEF Spec, RepeatsOnlyWithinALoop

\* Cycles that never overlap, without requests beside them, are an instance.
COROLLARY CyclesRepeatNothing ==
  ASSUME ~Overlapping, Clients = {}
  PROVE  Spec => []OneAlertPerMessage /\ RepeatsOnlyWithinALoop
BY CyclesOneAtATime, OneAlertPerMessageHolds, RepeatsWithinALoop, PTL
=============================================================================
