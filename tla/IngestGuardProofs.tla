------------------------- MODULE IngestGuardProofs -------------------------
(***************************************************************************)
(* Theorems about module IngestGuard: for any loops, posters, gap and      *)
(* interval, no thread starts two cycles within the minimum gap, and only  *)
(* runs that bring nothing make the data older than one period.            *)
(***************************************************************************)
EXTENDS IngestGuard, FiniteSetTheorems, TLAPS

\* No row and no call in progress is dated in the future.
NothingFromTheFuture ==
  /\ \A r \in runs : r.at <= now
  /\ \A c \in Callers : start[c] <= now

\* A caller past the check is the gap away from every row of its own: only
\* its own calls could have added one since.
CheckedApart ==
  \A c \in Callers : pc[c] = "insert" =>
    \A r \in runs : r.by = c => start[c] >= r.at + MinGap

GuardInv == TypeOK /\ NothingFromTheFuture /\ CheckedApart /\ OwnSpacing

\* Every step keeps the types: the clock, the table and the places.
LEMMA TypeStep == TypeOK /\ [Next]_vars => TypeOK'
<1> SUFFICES ASSUME TypeOK, [Next]_vars PROVE TypeOK'
  OBVIOUS
<1> USE GuardAssumption DEF TypeOK, Rows, Row, Goto, Return, SleepUntil
<1>1. CASE Tick
  BY <1>1 DEF Tick
<1>2. ASSUME NEW c \in Callers, Call(c) PROVE TypeOK'
  BY <1>2 DEF Call
<1>3. ASSUME NEW c \in Callers, Skip(c) PROVE TypeOK'
  BY <1>3 DEF Skip
<1>4. ASSUME NEW c \in Callers, Pass(c) PROVE TypeOK'
  BY <1>4 DEF Pass
<1>5. ASSUME NEW c \in Callers, InsertRun(c) PROVE TypeOK'
  BY <1>5 DEF InsertRun
<1>6. ASSUME NEW c \in Callers, FinishRun(c) PROVE TypeOK'
  BY <1>6 DEF FinishRun
<1>7. ASSUME NEW c \in Callers, FailRun(c) PROVE TypeOK'
  BY <1>7 DEF FailRun
<1>8. ASSUME NEW c \in Callers, Restart(c) PROVE TypeOK'
  BY <1>8 DEF Restart
<1>9. CASE UNCHANGED vars
  BY <1>9 DEF vars
<1> QED
  BY <1>1, <1>2, <1>3, <1>4, <1>5, <1>6, <1>7, <1>8, <1>9 DEF Next

\* Every step keeps the invariant.
LEMMA GuardStep == GuardInv /\ [Next]_vars => GuardInv'
<1> SUFFICES ASSUME GuardInv, [Next]_vars PROVE GuardInv'
  OBVIOUS
<1>t. TypeOK'
  BY TypeStep DEF GuardInv
<1> USE GuardAssumption
    DEF GuardInv, TypeOK, Rows, NothingFromTheFuture, CheckedApart, OwnSpacing,
        Row, Goto, Return
<1>1. CASE Tick
  BY <1>1, <1>t DEF Tick
<1>2. ASSUME NEW c \in Callers, Call(c) PROVE GuardInv'
  BY <1>2, <1>t DEF Call
<1>3. ASSUME NEW c \in Callers, Skip(c) PROVE GuardInv'
  BY <1>3, <1>t DEF Skip
<1>4. ASSUME NEW c \in Callers, Pass(c) PROVE GuardInv'
  <2>1. CheckedApart'
    <3> SUFFICES ASSUME NEW d \in Callers, pc'[d] = "insert",
                        NEW r \in runs, r.by = d
                 PROVE  start[d] >= r.at + MinGap
      BY <1>4 DEF Pass
    <3>1. CASE d = c
      BY <1>4, <3>1 DEF Pass, TooSoon
    <3>2. CASE d # c
      BY <1>4, <3>2 DEF Pass
    <3> QED
      BY <3>1, <3>2
  <2> QED
    BY <1>4, <1>t, <2>1 DEF Pass
<1>5. ASSUME NEW c \in Callers, InsertRun(c) PROVE GuardInv'
  <2>1. NothingFromTheFuture'
    BY <1>5 DEF InsertRun
  <2>2. CheckedApart'
    BY <1>5 DEF InsertRun
  <2>3. OwnSpacing'
    <3>1. \A r \in runs : r.by = c => start[c] >= r.at + MinGap
      BY <1>5 DEF InsertRun
    <3> QED
      BY <1>5, <3>1 DEF InsertRun
  <2> QED
    BY <1>t, <2>1, <2>2, <2>3
<1>6. ASSUME NEW c \in Callers, FinishRun(c) PROVE GuardInv'
  BY <1>6, <1>t DEF FinishRun
<1>7. ASSUME NEW c \in Callers, FailRun(c) PROVE GuardInv'
  BY <1>7, <1>t DEF FailRun
<1>8. ASSUME NEW c \in Callers, Restart(c) PROVE GuardInv'
  BY <1>8, <1>t DEF Restart
<1>9. CASE UNCHANGED vars
  BY <1>9, <1>t DEF vars
<1> QED
  BY <1>1, <1>2, <1>3, <1>4, <1>5, <1>6, <1>7, <1>8, <1>9 DEF Next

\* In every behaviour the types hold and a thread's own cycles are spaced by
\* the minimum gap, whatever the other threads do and however calls fail.
THEOREM OwnSpacingHolds == Spec => [](TypeOK /\ OwnSpacing)
<1>1. Init => GuardInv
  BY GuardAssumption
  DEF Init, GuardInv, TypeOK, Rows, NothingFromTheFuture, CheckedApart, OwnSpacing
<1>2. GuardInv => TypeOK /\ OwnSpacing
  BY DEF GuardInv
<1> QED
  BY <1>1, <1>2, GuardStep, PTL DEF Spec

\* The types hold in every state, for any number of callers: in particular what
\* is finished was started, and a cycle that runs has its row committed.
THEOREM TypeCorrect == Spec => []TypeOK
<1>1. TypeOK /\ OwnSpacing => TypeOK
  OBVIOUS
<1> QED
  BY <1>1, OwnSpacingHolds, PTL

(***************************************************************************)
(* Freshness.  A loop is at rest until a time at which the data is still   *)
(* fresh; when it is awake time stands still, or its own row is recent.    *)
(***************************************************************************)
FreshAt(t) ==
  \/ t <= FreshnessBound
  \/ \E r \in runs : t <= r.at + FreshnessBound

LoopIsOnTime(l) ==
  /\ pc[l] = "idle" => now <= wake[l] /\ FreshAt(wake[l])
  /\ pc[l] \in {"check", "insert"} => start[l] = now /\ FreshAt(now)
  /\ pc[l] = "cycle" => now <= start[l] + MaxCycle

LoopsAreOnTime == \A l \in Loops : LoopIsOnTime(l)

LEMMA BoundCovers ==
  /\ FreshnessBound \in Nat
  /\ FreshnessBound >= Interval + MaxCycle
  /\ FreshnessBound >= Interval + MinGap
BY GuardAssumption DEF FreshnessBound

\* What is fresh at some time was so before it.
LEMMA FreshEarlier ==
  ASSUME TypeOK, NEW t \in Nat, NEW u \in Nat, u <= t, FreshAt(t)
  PROVE  FreshAt(u)
BY BoundCovers DEF FreshAt, TypeOK, Rows

\* A loop that is on time sees fresh data.
LEMMA OnTimeIsFresh ==
  ASSUME TypeOK, NEW l \in Loops, LoopIsOnTime(l)
  PROVE  FreshAt(now)
<1> USE DEF LoopIsOnTime
<1>0. l \in Callers
  BY DEF Callers
<1>1. CASE pc[l] = "idle"
  BY <1>0, <1>1, FreshEarlier DEF TypeOK
<1>2. CASE pc[l] \in {"check", "insert"}
  BY <1>2
<1>3. CASE pc[l] = "cycle"
  <2>1. Row(l) \in runs /\ Row(l).at = start[l] /\ start[l] \in Nat /\ now \in Nat
    BY <1>0, <1>3 DEF TypeOK, Row
  <2>2. now <= Row(l).at + FreshnessBound
    BY <1>3, <2>1, BoundCovers, GuardAssumption
  <2> QED
    BY <2>1, <2>2 DEF FreshAt
<1> QED
  BY <1>0, <1>1, <1>2, <1>3 DEF TypeOK

\* A step of c leaves the other loops on time: rows are only added.
LEMMA OthersOnTime ==
  ASSUME TypeOK, NEW c \in Callers, NEW l \in Loops, l # c, LoopIsOnTime(l),
         now' = now, runs \subseteq runs',
         pc'[l] = pc[l], start'[l] = start[l], wake'[l] = wake[l]
  PROVE  LoopIsOnTime(l)'
BY DEF LoopIsOnTime, FreshAt

LEMMA OnTimeStep == TypeOK /\ LoopsAreOnTime /\ [Next]_vars => LoopsAreOnTime'
<1> SUFFICES ASSUME TypeOK, LoopsAreOnTime, [Next]_vars, NEW l \in Loops
             PROVE  LoopIsOnTime(l)'
  BY DEF LoopsAreOnTime
<1>0. /\ l \in Callers /\ LoopIsOnTime(l) /\ FreshAt(now)
      /\ now \in Nat /\ start[l] \in Nat /\ wake[l] \in Nat
  BY OnTimeIsFresh DEF LoopsAreOnTime, Callers, TypeOK
<1>1. CASE Tick
  <2>1. pc[l] = "idle" => now' <= wake[l]
    BY <1>0, <1>1 DEF Tick
  <2>2. pc[l] = "cycle" => now' <= start[l] + MaxCycle
    BY <1>0, <1>1, GuardAssumption DEF Tick
  <2>3. pc[l] \notin {"check", "insert"}
    BY <1>0, <1>1 DEF Tick
  <2> QED
    BY <1>0, <1>1, <2>1, <2>2, <2>3 DEF Tick, LoopIsOnTime, FreshAt
<1>2. ASSUME NEW c \in Callers, c # l,
             \/ Call(c) \/ Skip(c) \/ Pass(c) \/ InsertRun(c)
             \/ FinishRun(c) \/ FailRun(c) \/ Restart(c)
      PROVE  LoopIsOnTime(l)'
  <2>1. now' = now /\ runs \subseteq runs'
    BY <1>2 DEF Call, Skip, Pass, InsertRun, FinishRun, FailRun, Restart
  <2>2. pc'[l] = pc[l] /\ start'[l] = start[l] /\ wake'[l] = wake[l]
    BY <1>0, <1>2 DEF Call, Skip, Pass, InsertRun, FinishRun, FailRun, Restart, Return,
                      Goto, SleepUntil, TypeOK
  <2> QED
    BY <1>0, <1>2, <2>1, <2>2, OthersOnTime
<1>3. CASE Call(l)
  BY <1>0, <1>3 DEF Call, Goto, TypeOK, LoopIsOnTime, FreshAt
<1>4. CASE Skip(l)
  <2>1. PICK r \in runs : now < r.at + MinGap
    BY <1>0, <1>4 DEF Skip, TooSoon, LoopIsOnTime
  <2>2. now + Interval <= r.at + FreshnessBound
    BY <1>0, <2>1, BoundCovers, GuardAssumption DEF TypeOK, Rows
  <2>3. pc'[l] = "idle" /\ wake'[l] = now + Interval /\ now' = now /\ runs' = runs
    BY <1>0, <1>4 DEF Skip, Return, Goto, SleepUntil, TypeOK
  <2> QED
    BY <1>0, <2>2, <2>3, GuardAssumption DEF LoopIsOnTime, FreshAt
<1>5. CASE Pass(l)
  BY <1>0, <1>5 DEF Pass, Goto, TypeOK, LoopIsOnTime, FreshAt
<1>6. CASE InsertRun(l)
  BY <1>0, <1>6, GuardAssumption DEF InsertRun, Goto, TypeOK, LoopIsOnTime
<1>7. CASE FinishRun(l) \/ FailRun(l)
  <2>1. /\ Row(l) \in runs /\ Row(l).at = start[l] /\ now <= start[l] + MaxCycle
    BY <1>0, <1>7 DEF FinishRun, FailRun, TypeOK, Row, LoopIsOnTime
  <2>2. now + Interval <= Row(l).at + FreshnessBound
    BY <1>0, <2>1, BoundCovers, GuardAssumption
  <2>3. pc'[l] = "idle" /\ wake'[l] = now + Interval /\ now' = now /\ runs' = runs
    BY <1>0, <1>7 DEF FinishRun, FailRun, Return, Goto, SleepUntil, TypeOK
  <2> QED
    BY <1>0, <2>1, <2>2, <2>3, GuardAssumption DEF LoopIsOnTime, FreshAt
<1>8. CASE Restart(l)
  BY <1>0, <1>8 DEF Restart, Goto, SleepUntil, TypeOK, LoopIsOnTime, FreshAt
<1>9. CASE UNCHANGED vars
  BY <1>0, <1>9 DEF vars, LoopIsOnTime, FreshAt
<1> QED
  BY <1>1, <1>2, <1>3, <1>4, <1>5, <1>6, <1>7, <1>8, <1>9 DEF Next

(***************************************************************************)
(* The runs since a moment pay for the time since: each of them covers one *)
(* period.                                                                 *)
(***************************************************************************)
Covered(t) ==
  \A s \in Nat : t <= s + (1 + Cardinality(RunsSince(s))) * FreshnessBound

\* A run is later than a moment by a period for each run since, itself included.
RowsCovered ==
  \A r \in runs, s \in Nat :
    s < r.at => r.at <= s + Cardinality(RunsSince(s)) * FreshnessBound

\* The last collection is among those that there were.
HasLast == \E t \in Collections : \A u \in Collections : u <= t

\* A caller in the guard has just taken the time.
StartIsNow == \A c \in Callers : pc[c] \in {"check", "insert"} => start[c] = now

RowsInv ==
  /\ GuardInv /\ LoopsAreOnTime
  /\ IsFiniteSet(runs) /\ StartIsNow /\ HasLast
  /\ Loops # {} => RowsCovered

\* The arithmetic of periods: n + 1 of them are n and one more, and more runs
\* cover no less.
LEMMA Periods ==
  ASSUME NEW b \in Nat, NEW n \in Nat
  PROVE  /\ n * b \in Nat
         /\ (1 + n) * b = n * b + b
         /\ \A m \in Nat : n <= m => n * b <= m * b
<1>1. n * b \in Nat /\ (1 + n) * b = n * b + b
  OBVIOUS
<1>2. ASSUME NEW m \in Nat, n <= m PROVE n * b <= m * b
  <2>1. PICK k \in Nat : m = n + k
    <3>1. m - n \in Nat /\ m = n + (m - n)
      BY <1>2
    <3> QED
      BY <3>1
  <2>2. m * b = n * b + k * b /\ k * b \in Nat
    BY <2>1
  <2> QED
    BY <1>1, <2>2
<1> QED
  BY <1>1, <1>2

\* Finitely many rows: those since a moment can be counted.
LEMMA RunsSinceFinite ==
  ASSUME IsFiniteSet(runs), NEW s
  PROVE  IsFiniteSet(RunsSince(s)) /\ Cardinality(RunsSince(s)) \in Nat
BY FS_Subset, FS_CardinalityType DEF RunsSince

\* Fresh data and covered rows: the moment is covered.
LEMMA FreshIsCovered ==
  ASSUME TypeOK, IsFiniteSet(runs), RowsCovered, NEW t \in Nat, FreshAt(t)
  PROVE  Covered(t)
<1> SUFFICES ASSUME NEW s \in Nat
             PROVE  t <= s + (1 + Cardinality(RunsSince(s))) * FreshnessBound
  BY DEF Covered
<1> DEFINE n == Cardinality(RunsSince(s))
           paid == n * FreshnessBound
<1>1. n \in Nat /\ FreshnessBound \in Nat
  BY RunsSinceFinite, BoundCovers
<1>2. paid \in Nat /\ (1 + n) * FreshnessBound = paid + FreshnessBound
  BY <1>1, Periods
<1> HIDE DEF n, paid
<1>3. t <= s + paid + FreshnessBound
  <2>1. CASE t <= FreshnessBound
    BY <2>1, <1>1, <1>2
  <2>2. ASSUME NEW r \in runs, t <= r.at + FreshnessBound
        PROVE  t <= s + paid + FreshnessBound
    <3>1. r.at \in Nat
      BY DEF TypeOK, Rows
    <3>2. CASE r.at <= s
      BY <1>1, <1>2, <2>2, <3>1, <3>2
    <3>3. CASE s < r.at
      <4>1. r.at <= s + paid
        BY <3>3 DEF RowsCovered, n, paid
      <4> QED
        BY <1>1, <1>2, <2>2, <3>1, <4>1
    <3> QED
      BY <3>1, <3>2, <3>3
  <2> QED
    BY <2>1, <2>2 DEF FreshAt
<1> QED
  BY <1>1, <1>2, <1>3 DEF n

\* A row inserted while the data is fresh is covered, and covers more.
LEMMA InsertCovered ==
  ASSUME GuardInv, IsFiniteSet(runs), RowsCovered, StartIsNow, FreshAt(now),
         NEW c \in Callers, InsertRun(c)
  PROVE  IsFiniteSet(runs)' /\ RowsCovered'
<1>1. runs' = runs \cup {Row(c)} /\ Row(c).at = now /\ Row(c).by = c /\ now \in Nat
  BY DEF InsertRun, StartIsNow, Row, GuardInv, TypeOK
<1>2. Row(c) \notin runs
  <2> SUFFICES ASSUME Row(c) \in runs PROVE FALSE
    OBVIOUS
  <2>1. start[c] >= Row(c).at + MinGap /\ start[c] = now
    BY <1>1 DEF GuardInv, CheckedApart, InsertRun, StartIsNow
  <2> QED
    BY <1>1, <2>1, GuardAssumption
<1>3. IsFiniteSet(runs')
  BY <1>1, FS_AddElement
<1>4. Covered(now)
  BY <1>1, FreshIsCovered DEF GuardInv
<1>5. ASSUME NEW r \in runs', NEW s \in Nat, s < r.at
      PROVE  r.at <= s + Cardinality(RunsSince(s)') * FreshnessBound
  <2> DEFINE n == Cardinality(RunsSince(s))
             m == Cardinality(RunsSince(s)')
  <2>1. n \in Nat /\ m \in Nat /\ IsFiniteSet(RunsSince(s)) /\ IsFiniteSet(RunsSince(s)')
    BY <1>3, RunsSinceFinite, FS_Subset, FS_CardinalityType DEF RunsSince
  <2>2. FreshnessBound \in Nat
    BY BoundCovers
  <2>3. CASE r \in runs
    <3>1. RunsSince(s) \subseteq RunsSince(s)'
      BY <1>1 DEF RunsSince
    <3>2. n <= m
      BY <2>1, <3>1, FS_Subset
    <3>3. r.at <= s + n * FreshnessBound /\ r.at \in Nat
      BY <1>5, <2>3 DEF RowsCovered, GuardInv, TypeOK, Rows
    <3>4. n * FreshnessBound <= m * FreshnessBound /\ n * FreshnessBound \in Nat
          /\ m * FreshnessBound \in Nat
      BY <2>1, <2>2, <3>2, Periods
    <3> HIDE DEF n, m
    <3> QED
      BY <3>3, <3>4 DEF m
  <2>4. CASE r \notin runs
    <3>1. r = Row(c) /\ r.at = now
      BY <1>1, <2>4
    <3>2. RunsSince(s)' = RunsSince(s) \cup {r}
      BY <1>1, <1>5, <3>1 DEF RunsSince
    <3>3. r \notin RunsSince(s)
      BY <2>4 DEF RunsSince
    <3>4. m = n + 1
      BY <2>1, <3>2, <3>3, FS_AddElement
    <3>5. now <= s + (1 + n) * FreshnessBound
      BY <1>4 DEF Covered
    <3> HIDE DEF n, m
    <3>6. 1 + n = m
      BY <2>1, <3>4
    <3> QED
      BY <3>1, <3>5, <3>6 DEF m
  <2> QED
    BY <2>3, <2>4
<1> QED
  BY <1>3, <1>5 DEF RowsCovered

LEMMA RowsStep == RowsInv /\ [Next]_vars => RowsInv'
<1> SUFFICES ASSUME RowsInv, [Next]_vars PROVE RowsInv'
  OBVIOUS
<1>1. GuardInv' /\ LoopsAreOnTime' /\ TypeOK
  BY GuardStep, OnTimeStep DEF RowsInv, GuardInv
<1>2. StartIsNow'
  BY <1>1 DEF RowsInv, StartIsNow, TypeOK, Next, vars, Tick, Call, Skip, Pass, InsertRun,
     FinishRun, FailRun, Restart, Return, Goto, SleepUntil
<1>3. HasLast'
  <2>1. CASE UNCHANGED collected
    BY <2>1 DEF RowsInv, HasLast, Collections
  <2>2. ASSUME NEW c \in Callers, collected' = collected \cup {Row(c)} PROVE HasLast'
    <3>1. Collections' = Collections \cup {start[c]} /\ start[c] \in Nat
      <4>1. Row(c).at = start[c]
        BY DEF Row
      <4>2. {r.at : r \in collected'} = {r.at : r \in collected} \cup {start[c]}
        BY <2>2, <4>1
      <4> QED
        BY <1>1, <4>2 DEF Collections, TypeOK
    <3>2. PICK t \in Collections : \A u \in Collections : u <= t
      BY DEF RowsInv, HasLast
    <3>3. Collections \subseteq Nat
      BY <1>1 DEF Collections, TypeOK, Rows
    <3>4. CASE start[c] <= t
      BY <3>1, <3>2, <3>4 DEF HasLast
    <3>5. CASE t <= start[c]
      <4>1. \A u \in Collections : u <= start[c]
        BY <3>1, <3>2, <3>3, <3>5
      <4> QED
        BY <3>1, <4>1 DEF HasLast
    <3> QED
      BY <3>1, <3>3, <3>4, <3>5
  <2> QED
    BY <2>1, <2>2 DEF Next, vars, Tick, Call, Skip, Pass, InsertRun, FinishRun, FailRun,
       Restart
<1>4. IsFiniteSet(runs)' /\ (Loops # {} => RowsCovered')
  <2>1. CASE UNCHANGED runs
    BY <2>1 DEF RowsInv, RowsCovered, RunsSince
  <2>2. ASSUME NEW c \in Callers, InsertRun(c)
        PROVE  IsFiniteSet(runs)' /\ (Loops # {} => RowsCovered')
    <3>1. IsFiniteSet(runs)'
      BY <2>2, FS_AddElement DEF InsertRun, RowsInv
    <3>2. Loops # {} => FreshAt(now)
      BY <1>1, OnTimeIsFresh DEF RowsInv, LoopsAreOnTime
    <3> QED
      BY <2>2, <3>1, <3>2, InsertCovered DEF RowsInv
  <2> QED
    BY <2>1, <2>2 DEF Next, vars, Tick, Call, Skip, Pass, FinishRun, FailRun, Restart
<1> QED
  BY <1>1, <1>2, <1>3, <1>4 DEF RowsInv

\* As long as there is a loop the data is older than one period only by runs
\* that did not bring it, one period for each: for any callers, gap, interval
\* and length of cycles, whatever skips, fails, restarts or is posted.
THEOREM FreshHolds == Spec => []Fresh
<1>1. Init => RowsInv
  <2> SUFFICES ASSUME Init PROVE RowsInv
    OBVIOUS
  <2>1. GuardInv
    BY GuardAssumption
    DEF Init, GuardInv, TypeOK, Rows, NothingFromTheFuture, CheckedApart, OwnSpacing
  <2>2. LoopsAreOnTime
    BY GuardAssumption, BoundCovers
       DEF Init, LoopsAreOnTime, LoopIsOnTime, FreshAt, Callers
  <2>3. IsFiniteSet(runs) /\ RowsCovered /\ StartIsNow
    BY FS_EmptySet DEF Init, RowsCovered, StartIsNow
  <2>4. Collections = {0}
    BY DEF Init, Collections
  <2>5. HasLast
    BY <2>4 DEF HasLast
  <2> QED
    BY <2>1, <2>2, <2>3, <2>5 DEF RowsInv
<1>2. RowsInv => Fresh
  <2> SUFFICES ASSUME RowsInv, NEW l \in Loops
               PROVE  now <= LastCollected
                             + (1 + Cardinality(RunsSince(LastCollected))) * FreshnessBound
    BY DEF Fresh
  <2>1. LastCollected \in Nat
    <3>1. LastCollected \in Collections
      BY DEF RowsInv, HasLast, LastCollected
    <3>2. Collections \subseteq Nat
      BY DEF RowsInv, GuardInv, Collections, TypeOK, Rows
    <3> QED
      BY <3>1, <3>2
  <2>2. FreshAt(now)
    BY OnTimeIsFresh DEF RowsInv, GuardInv, LoopsAreOnTime
  <2>3. Covered(now)
    BY <2>2, FreshIsCovered DEF RowsInv, GuardInv, TypeOK
  <2> QED
    BY <2>1, <2>3 DEF Covered
<1> QED
  BY <1>1, <1>2, RowsStep, PTL DEF Spec
=============================================================================
