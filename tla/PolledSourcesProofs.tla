------------------------ MODULE PolledSourcesProofs ------------------------
(***************************************************************************)
(* Proofs about PolledSources: the rate of the calls to the flood service, *)
(* for every interval, however long sleeps overrun and answers take; and   *)
(* what a fetch stores, for any stations, zones, bulletins and levels.     *)
(***************************************************************************)
EXTENDS PolledSources, SequenceTheorems, FiniteSetTheorems, WellFoundedInduction,
        TLAPS

(***************************************************************************)
(* The limiter.                                                            *)
(***************************************************************************)

\* The slot booked last is as many intervals after each call but the last as
\* there were calls since; no call was made later than the clock shows.
BookedAhead ==
  \A i \in DOMAIN calls :
    /\ calls[i] <= clock
    /\ i < Len(calls) => nextAllowed >= calls[i] + (Len(calls) - i) * Interval

LimiterInv ==
  /\ clock \in Nat /\ nextAllowed \in Nat /\ calls \in Seq(Nat)
  /\ BookedAhead
  /\ CallsSpread

\* One more interval.
LEMMA Stretch ==
  ASSUME NEW n \in Int, NEW d \in Int
  PROVE  (n + 1) * d = n * d + d
  BY SMT

\* A call keeps the invariant: it is made when it is due or later, and it
\* books the slot an interval after it was due.
LEMMA WaitKeepsSpread == LimiterInv /\ Wait => LimiterInv'
<1> SUFFICES ASSUME LimiterInv, NEW t \in Awake, NEW latency \in 0..MaxDelay,
                    calls' = Append(calls, t), clock' = t + latency,
                    nextAllowed' = Record
             PROVE  LimiterInv'
  BY DEF Wait
<1> USE LimiterAssumption
<1> DEFINE n == Len(calls)
<1>1. /\ clock \in Nat /\ nextAllowed \in Nat /\ calls \in Seq(Nat) /\ n \in Nat
      /\ Due \in Nat /\ Due >= clock /\ Due >= nextAllowed
  BY DEF LimiterInv, Due
<1>2. t \in Nat /\ t >= Due /\ Record = Due + Interval
  <2>1. Record = Due + Interval
    BY DEF Record
  <2>2. CASE clock < nextAllowed
    <3>1. t \in Due..(Due + MaxDelay)
      BY <2>2 DEF Awake
    <3> QED
      BY <2>1, <3>1, <1>1
  <2>3. CASE ~(clock < nextAllowed)
    <3>1. t = clock /\ Due = clock
      BY <2>3 DEF Awake, Due
    <3> QED
      BY <2>1, <3>1, <1>1
  <2> QED
    BY <2>2, <2>3
<1>3. /\ calls' \in Seq(Nat) /\ Len(calls') = n + 1 /\ calls'[n + 1] = t
      /\ \A i \in 1..n : calls'[i] = calls[i] /\ calls[i] \in Nat
      /\ DOMAIN calls' = 1..(n + 1) /\ DOMAIN calls = 1..n
  BY <1>1, <1>2
<1> HIDE DEF n
<1>4. clock' \in Nat /\ clock' >= t /\ nextAllowed' \in Nat
  BY <1>1, <1>2
<1>5. ASSUME NEW i \in 1..n
      PROVE  /\ calls[i] <= Due
             /\ Due >= calls[i] + (n - i) * Interval
  <2>1. CASE i = n
    <3>1. (n - i) * Interval = 0
      BY <2>1, <1>1
    <3> QED
      <4>1. i \in DOMAIN calls
        BY <1>3
      <4>2. calls[i] <= clock
        BY <4>1 DEF LimiterInv, BookedAhead
      <4> QED
        BY <4>2, <3>1, <1>1, <1>3
  <2>2. CASE i # n
    <3>1. i \in Int /\ i < n /\ i \in DOMAIN calls
      BY <2>2, <1>1, <1>3
    <3>2. nextAllowed >= calls[i] + (n - i) * Interval /\ calls[i] <= clock
      BY <3>1 DEF LimiterInv, BookedAhead, n
    <3>3. (n - i) * Interval \in Int
      BY <1>1
    <3> QED
      BY <3>2, <3>3, <1>1, <1>3
  <2> QED
    BY <2>1, <2>2
<1>6. BookedAhead'
  <2> SUFFICES ASSUME NEW i \in 1..(n + 1)
               PROVE  /\ calls'[i] <= clock'
                      /\ i < Len(calls') =>
                           nextAllowed' >= calls'[i] + (Len(calls') - i) * Interval
    <3>1. DOMAIN calls' = 1..(n + 1)
      BY <1>3
    <3> QED
      BY <3>1, Zenon DEF BookedAhead
  <2>1. CASE i = n + 1
    BY <2>1, <1>1, <1>3, <1>4
  <2>2. CASE i \in 1..n
    <3>1. (n + 1 - i) * Interval = (n - i) * Interval + Interval
      <4>1. n - i \in Int /\ Interval \in Int /\ n + 1 - i = (n - i) + 1
        BY <1>1, <2>2
      <4> QED
        BY <4>1, Stretch
    <3>2. (n - i) * Interval \in Int
      BY <1>1, <2>2
    <3> QED
      BY <3>1, <3>2, <2>2, <1>5, <1>1, <1>2, <1>3, <1>4
  <2>3. i = n + 1 \/ i \in 1..n
    BY <1>1
  <2> QED
    BY <2>1, <2>2, <2>3
<1>7. CallsSpread'
  <2> SUFFICES ASSUME NEW i \in 1..(n + 1), NEW j \in 1..(n + 1), i < j
               PROVE  calls'[j] >= calls'[i] + (j - i - 1) * Interval
    BY <1>3 DEF CallsSpread
  <2>1. CASE j \in 1..n
    <3>1. i \in 1..n
      BY <2>1, <1>1
    <3>2. calls[j] >= calls[i] + (j - i - 1) * Interval
      BY <2>1, <3>1, <1>3 DEF LimiterInv, CallsSpread
    <3> QED
      BY <2>1, <3>1, <3>2, <1>3
  <2>2. CASE j = n + 1
    <3>1. i \in 1..n /\ j - i - 1 = n - i
      BY <2>2, <1>1
    <3>2. (n - i) * Interval \in Int
      BY <1>1, <3>1
    <3> QED
      BY <3>1, <3>2, <2>2, <1>5, <1>1, <1>2, <1>3
  <2>3. j = n + 1 \/ j \in 1..n
    BY <1>1
  <2> QED
    BY <2>1, <2>2, <2>3
<1> QED
  BY <1>3, <1>4, <1>6, <1>7 DEF LimiterInv

LEMMA NewLimiterSpread == NewLimiter => LimiterInv'
  BY DEF NewLimiter, LimiterInv, BookedAhead, CallsSpread

LEMMA UnchangedSpread == LimiterInv /\ UNCHANGED limiterVars => LimiterInv'
  BY DEF limiterVars, LimiterInv, BookedAhead, CallsSpread

\* Every step of a client makes a call, leaves the limiter alone or drops it.
LEMMA StepOfLimiter ==
  [Next]_vars => Wait \/ NewLimiter \/ UNCHANGED limiterVars
<1> SUFFICES ASSUME [Next]_vars PROVE Wait \/ NewLimiter \/ UNCHANGED limiterVars
  OBVIOUS
<1>1. CASE Publish
  BY <1>1 DEF Publish, cycleVars
<1>2. CASE Tick
  BY <1>2 DEF Tick, cycleVars
<1>3. CASE Fail
  BY <1>3 DEF Fail
<1>4. CASE Fetch
  BY <1>4 DEF Fetch, StartFetch, FetchWarnings, FetchQuakes, FetchStationInfo,
              FetchLatestLevel, SkipStation, EndFetch,
              StoreEvent, Finish
<1>5. CASE UNCHANGED vars
  BY <1>5 DEF vars
<1> QED
  BY <1>1, <1>2, <1>3, <1>4, <1>5 DEF Next

\* A flood client's calls are spread out: n + 2 of them take n intervals at
\* least, whatever the clock, the sleeps and the service do.
THEOREM RateIsKept == Spec => []CallsSpread
<1>1. Init => LimiterInv
  BY DEF Init, LimiterInit, LimiterInv, BookedAhead, CallsSpread
<1>2. LimiterInv /\ [Next]_vars => LimiterInv'
  BY StepOfLimiter, WaitKeepsSpread, NewLimiterSpread, UnchangedSpread
<1>3. LimiterInv => CallsSpread
  BY DEF LimiterInv
<1> QED
  BY <1>1, <1>2, <1>3, PTL DEF Spec

(***************************************************************************)
(* The newest report.                                                      *)
(***************************************************************************)
\* A set of naturals has a least element: of the sets of its elements up to
\* one of them, which are finite, one contains no other.
LEMMA LeastNatural ==
  ASSUME NEW T \in SUBSET Nat, T # {}
  PROVE  \E x \in T : \A y \in T : x <= y
<1> DEFINE UpTo(x) == {y \in T : y <= x}
           Starts == {UpTo(x) : x \in T}
<1>1. ASSUME NEW x \in T PROVE UpTo(x) \in FiniteSubsetsOf(Nat)
  <2>1. x \in Nat /\ \A z \in UpTo(x) : z \in 0..x /\ z \in Nat
    OBVIOUS
  <2>2. IsFiniteSet(0..x)
    BY <2>1, FS_Interval
  <2> QED
    BY <2>1, <2>2, FS_Subset DEF FiniteSubsetsOf
<1>2. Starts \subseteq FiniteSubsetsOf(Nat) /\ Starts # {}
  BY <1>1, Zenon
<1>3. PICK A \in Starts : \A B \in Starts : <<B, A>> \notin StrictSubsetOrdering(Nat)
  <2>1. IsWellFoundedOn(StrictSubsetOrdering(Nat), FiniteSubsetsOf(Nat))
    BY FS_StrictSubsetOrderingWellFounded
  <2> QED
    BY <1>2, <2>1, WFMin, Zenon
<1>4. PICK x \in T : A = UpTo(x)
  BY <1>3
<1>5. ASSUME NEW y \in T, y < x PROVE FALSE
  <2>1. x \in Nat /\ y \in Nat /\ x \in UpTo(x) /\ x \notin UpTo(y)
    BY <1>5
  <2>2. \A z \in UpTo(y) : z \in UpTo(x)
    BY <1>5, <2>1
  <2>3. UpTo(y) \in Starts
    OBVIOUS
  <2> QED
    BY <1>3, <1>4, <2>1, <2>2, <2>3 DEF StrictSubsetOrdering
<1> QED
  BY <1>5

\* What a service has published is of its kind and not from the future.
PublishedTypes ==
  \A r \in published :
    /\ r.at \in Nat /\ r.at <= now
    /\ client = Kma => r.force \in Snapshots
    /\ client = Hrfco => /\ r.station \in StationSet /\ HasThreshold(r.station)
                         /\ r.level \in LevelsAt[r.station] \cup {NoLevel}

\* A set of reports has a newest one: the one published the least time ago.
LEMMA LatestIsNewest ==
  ASSUME PublishedTypes, now \in Nat, NEW items \in SUBSET published, items # {}
  PROVE  Latest(items) \in items /\ \A q \in items : q.at <= Latest(items).at
<1> DEFINE Ages == {now - r.at : r \in items}
<1>1. \A r \in items : r.at \in Nat /\ now - r.at \in Nat
  BY DEF PublishedTypes
<1>2. Ages \in SUBSET Nat /\ Ages # {}
  BY <1>1
<1>3. PICK age \in Ages : \A other \in Ages : age <= other
  BY <1>2, LeastNatural
<1>4. PICK r \in items : age = now - r.at
  BY <1>3
<1>5. ASSUME NEW q \in items PROVE q.at <= r.at
  <2>1. now - q.at \in Ages
    OBVIOUS
  <2>2. now - r.at <= now - q.at
    BY <1>3, <1>4, <2>1
  <2> QED
    BY <1>1, <2>2
<1>6. \E x \in items : \A q \in items : q.at <= x.at
  BY <1>5
<1> QED
  BY <1>6 DEF Latest

(***************************************************************************)
(* What a bulletin says and what is read from it.                          *)
(***************************************************************************)
Bulletins == SUBSET [kind : STRING, severity : Severities, area : Areas]

\* The zones read from a line are those in which it is in force, or "all".
LEMMA LineIsRead ==
  ASSUME NEW b, b.force \in Bulletins, NEW line \in Lines(b)
  PROVE  ParseLine(NamesOn(b, line)) =
           IF InForce(b, line) = Areas THEN {"all"} ELSE InForce(b, line)
<1>1. InForce(b, line) # {}
  <2>1. PICK w \in b.force : line = [kind |-> w.kind, severity |-> w.severity]
    BY DEF Lines
  <2>2. w.area \in InForce(b, line)
    BY <2>1 DEF InForce
  <2> QED
    BY <2>2
<1>2. CASE InForce(b, line) = Areas
  BY <1>2 DEF ParseLine, NamesOn
<1>3. CASE InForce(b, line) # Areas
  <2> DEFINE names == NamesOn(b, line)
  <2>1. names = (InForce(b, line) \X {FALSE}) \cup ((Excepted \ InForce(b, line)) \X {TRUE})
    BY <1>3 DEF NamesOn
  <2>2. \A a : <<a, FALSE>> \in names <=> a \in InForce(b, line)
    BY <2>1
  <2>3. \A n \in names : ~n[2] => n[1] \in InForce(b, line)
    <3> SUFFICES ASSUME NEW n \in names, ~n[2] PROVE n[1] \in InForce(b, line)
      OBVIOUS
    <3>1. CASE n \in InForce(b, line) \X {FALSE}
      BY <3>1
    <3>2. CASE n \in (Excepted \ InForce(b, line)) \X {TRUE}
      <4>1. n[2] = TRUE
        BY <3>2
      <4> QED
        BY <4>1
    <3> QED
      BY <2>1, <3>1, <3>2
  <2>4. names # {}
    BY <1>1, <2>2
  <2> HIDE DEF names
  <2>5. \A a \in InForce(b, line) : \E n \in {n \in names : ~n[2]} : n[1] = a
    <3> SUFFICES ASSUME NEW a \in InForce(b, line)
                 PROVE  \E n \in {n \in names : ~n[2]} : n[1] = a
      OBVIOUS
    <3> DEFINE n == <<a, FALSE>>
    <3>1. n \in names
      BY <2>2
    <3>2. n[1] = a /\ n[2] = FALSE
      OBVIOUS
    <3> HIDE DEF n
    <3> QED
      BY <3>1, <3>2
  <2>6. {n[1] : n \in {n \in names : ~n[2]}} = InForce(b, line)
    BY <2>3, <2>5
  <2> QED
    BY <1>3, <2>4, <2>6 DEF ParseLine, names
<1> QED
  BY <1>2, <1>3

\* What is read is in force, and in every zone if it is read for all.
LEMMA ActiveIsInForce ==
  ASSUME NEW b, b.force \in Bulletins, NEW w \in ActiveWarnings(b)
  PROVE  /\ w.severity \in Severities /\ w.area \in Areas \cup {"all"}
         /\ \A a \in (IF w.area = "all" THEN Areas ELSE {w.area}) :
              \E v \in b.force : v.area = a /\ v.severity = w.severity /\ v.kind = w.kind
<1>1. PICK line \in Lines(b) :
        w \in {[kind |-> line.kind, severity |-> line.severity, area |-> a] :
                a \in ParseLine(NamesOn(b, line))}
  BY Zenon DEF ActiveWarnings
<1>2. PICK a \in ParseLine(NamesOn(b, line)) :
        w = [kind |-> line.kind, severity |-> line.severity, area |-> a]
  BY <1>1
<1>3. w.kind = line.kind /\ w.severity = line.severity /\ w.area = a
  BY <1>2
<1>4. \A z \in InForce(b, line) :
        /\ z \in Areas
        /\ \E v \in b.force : v.area = z /\ v.severity = line.severity /\ v.kind = line.kind
  BY DEF InForce, Bulletins
<1>5. line.severity \in Severities
  BY DEF Lines, Bulletins
<1>6. a \in IF InForce(b, line) = Areas THEN {"all"} ELSE InForce(b, line)
  BY <1>2, LineIsRead
<1>7. "all" \notin Areas
  BY SourcesAssumption
<1> QED
  BY <1>3, <1>4, <1>5, <1>6, <1>7

\* What is in force is read, by zone or for all.
LEMMA InForceIsActive ==
  ASSUME NEW b, b.force \in Bulletins, NEW v \in b.force
  PROVE  \E w \in ActiveWarnings(b) :
           w.kind = v.kind /\ w.severity = v.severity /\ w.area \in {v.area, "all"}
<1> DEFINE line == [kind |-> v.kind, severity |-> v.severity]
           Read(l) == {[kind |-> l.kind, severity |-> l.severity, area |-> a] :
                         a \in ParseLine(NamesOn(b, l))}
<1>1. line \in Lines(b)
  BY DEF Lines
<1>2. v.area \in InForce(b, line)
  BY DEF InForce
<1>3. PICK a \in ParseLine(NamesOn(b, line)) : a \in {v.area, "all"}
  BY <1>1, <1>2, LineIsRead
<1>4. [kind |-> v.kind, severity |-> v.severity, area |-> a] \in Read(line)
  OBVIOUS
<1>5. ActiveWarnings(b) = UNION {Read(l) : l \in Lines(b)}
  BY Zenon DEF ActiveWarnings
<1>6. Read(line) \subseteq ActiveWarnings(b)
  <2> HIDE DEF Read, line
  <2> QED
    BY <1>1, <1>5, Zenon
<1> QED
  BY <1>3, <1>4, <1>6

(***************************************************************************)
(* Rows are reported.                                                      *)
(***************************************************************************)
RowsReported == \A e \in rows \cup events : \E r \in published : Reports(r, e)

SourcesInv == TypeOK /\ LimiterInv /\ PublishedTypes /\ RowsReported

LEMMA PublishedSlot ==
  ASSUME TypeOK, PublishedTypes, NEW r \in published
  PROVE  r.at \in Slots /\ now \in Nat
<1>1. client \in Clients /\ LastSlot[client] \in 0..LatestSlot /\ LatestSlot \in Nat
  BY SourcesAssumption DEF TypeOK, Slots
<1>2. now \in 0..LastSlot[client]
  BY DEF TypeOK
<1>3. r.at \in Nat /\ r.at <= now
  BY DEF PublishedTypes
<1> QED
  BY <1>1, <1>2, <1>3 DEF Slots

\* A row is dated by its report, or within the time in which that is shown.
LEMMA DateIsReported ==
  ASSUME TypeOK, PublishedTypes, NEW r \in Shown
  PROVE  /\ Dated(r) \in Slots /\ Dated(r) \in Nat /\ r.at <= Dated(r)
         /\ r.at \notin Unreadable => Dated(r) = r.at
         /\ \/ r.at = Dated(r)
            \/ r.at \in Unreadable /\ r.at <= Dated(r) /\ ShownAt(r, Dated(r))
<1>1. r \in published /\ ShownAt(r, now)
  BY DEF Shown, Shows
<1>2. r.at \in Slots /\ r.at \in Nat /\ r.at <= now /\ now \in Nat
  BY <1>1, PublishedSlot DEF PublishedTypes
<1>3. now \in Slots
  BY SourcesAssumption DEF TypeOK, Slots
<1> QED
  BY <1>1, <1>2, <1>3 DEF Dated

LEMMA ItemsArePublished == Items \subseteq Shown /\ Items \subseteq published /\ Shown \subseteq published
BY DEF Items, Shown, Page

LEMMA BulletinForce ==
  ASSUME PublishedTypes, client = Kma, NEW b \in published
  PROVE  b.force \in Bulletins
BY SourcesAssumption DEF PublishedTypes, Bulletins

\* A row of the warnings is in force where it says, by the newest bulletin.
LEMMA WarningRowsReported ==
  ASSUME TypeOK, PublishedTypes, client = Kma, NEW e \in WarningRows
  PROVE  e \in RowType /\ e.source = client /\ \E r \in published : Reports(r, e)
<1> DEFINE b == Latest(Items)
           Outlooked == {w \in ActiveWarnings(b) : w.kind \in DOMAIN TypeOf}
<1>1. Items # {} /\ WarningRows = {Row(Kma, TypeOf[w.kind], w.severity, w.area, Dated(b)) : w \in Outlooked}
  BY DEF WarningRows
<1>2. b \in published /\ b \in Shown
  <2>1. PICK r \in published : r \in Items
    BY <1>1, ItemsArePublished
  <2>2. now \in Nat
    BY <2>1, PublishedSlot
  <2>3. Latest(Items) \in Items
    BY <1>1, <2>2, ItemsArePublished, LatestIsNewest
  <2> QED
    BY <2>3, ItemsArePublished
<1>3. b.force \in Bulletins
  BY <1>2, BulletinForce
<1> HIDE DEF b
<1>4. PICK w \in Outlooked : e = Row(Kma, TypeOf[w.kind], w.severity, w.area, Dated(b))
  BY <1>1
<1>5. w \in ActiveWarnings(b) /\ w.kind \in DOMAIN TypeOf
  BY <1>4
<1>6. /\ w.severity \in Severities /\ w.area \in Areas \cup {"all"}
      /\ \A a \in (IF w.area = "all" THEN Areas ELSE {w.area}) :
           \E v \in b.force : v.area = a /\ v.severity = w.severity /\ v.kind = w.kind
  BY <1>3, <1>5, ActiveIsInForce
<1>7. /\ e.source = Kma /\ e.type = TypeOf[w.kind] /\ e.severity = w.severity
      /\ e.region = w.area /\ e.at = Dated(b)
      /\ e = [source |-> e.source, type |-> e.type, severity |-> e.severity,
              region |-> e.region, at |-> e.at]
  BY <1>4 DEF Row
<1>8. e \in RowType
  <2>1. Kma \in Clients
    BY DEF TypeOK
  <2>2. e.type \in {TypeOf[k] : k \in DOMAIN TypeOf}
    BY <1>5, <1>7
  <2> QED
    BY <1>2, <1>6, <1>7, <2>1, <2>2, DateIsReported DEF RowType
<1>9. Reports(b, e)
  BY <1>2, <1>5, <1>6, <1>7, DateIsReported DEF Reports, Kma, Eqk, Hrfco
<1> QED
  BY <1>2, <1>7, <1>8, <1>9

LEMMA QuakeRowsReported ==
  ASSUME TypeOK, PublishedTypes, client = Eqk, NEW e \in QuakeRows
  PROVE  e \in RowType /\ e.source = client /\ \E r \in published : Reports(r, e)
<1>1. PICK r \in Items : e = Row(Eqk, "earthquake", "none", "none", Dated(r))
  BY DEF QuakeRows
<1>2. r \in published /\ r \in Shown /\ Dated(r) \in Slots
  BY ItemsArePublished, DateIsReported
<1>3. Eqk \in Clients
  BY DEF TypeOK
<1>4. e \in RowType
  BY <1>1, <1>2, <1>3 DEF Row, RowType
<1>5. Reports(r, e)
  BY <1>1, <1>2, DateIsReported DEF Reports, Row, Kma, Eqk, Hrfco
<1> QED
  BY <1>1, <1>2, <1>4, <1>5 DEF Row

LEMMA SeverityFromThreshold ==
  ASSUME NEW s, NEW level
  PROVE  /\ FloodSeverity(s, level) \in {"WARNING", "ADVISORY", "none"}
         /\ FloodSeverity(s, level) = "WARNING" => level >= Warning[s]
         /\ FloodSeverity(s, level) = "ADVISORY" => level >= Attention[s]
BY DEF FloodSeverity

\* A row of a station is the verdict on its newest level.
LEMMA FloodRowsReported ==
  ASSUME TypeOK, PublishedTypes, client = Hrfco, NEW s \in StationSet, NEW e \in FloodRows(s)
  PROVE  e \in RowType /\ e.source = client /\ \E r \in published : Reports(r, e)
<1> DEFINE r == Latest(LevelsOf(s))
           severity == FloodSeverity(s, r.level)
<1>1. LevelsOf(s) # {} /\ e = Row(Hrfco, "flood", severity, RegionOf[s], Dated(r)) /\ severity # "none"
  BY DEF FloodRows
<1>2. /\ r \in published /\ r \in Shown /\ r.station = s /\ r.level # NoLevel
      /\ Dated(r) \in Slots
  <2>1. LevelsOf(s) \in SUBSET published
    BY ItemsArePublished DEF LevelsOf
  <2>2. PICK q \in published : q \in LevelsOf(s)
    BY <1>1, <2>1
  <2>3. now \in Nat
    BY <2>2, PublishedSlot
  <2>4. r \in LevelsOf(s)
    BY <1>1, <2>1, <2>3, LatestIsNewest
  <2> HIDE DEF r
  <2> QED
    BY <2>4, ItemsArePublished, DateIsReported DEF LevelsOf
<1> HIDE DEF r
<1>3. /\ severity \in {"WARNING", "ADVISORY"}
      /\ severity = "WARNING" => r.level >= Warning[s]
      /\ severity = "ADVISORY" => r.level >= Attention[s]
  BY <1>1, SeverityFromThreshold
<1> HIDE DEF severity
<1>4. RegionOf[s] \in Areas
  BY SourcesAssumption
<1>5. Hrfco \in Clients
  BY DEF TypeOK
<1>6. e \in RowType
  BY <1>1, <1>2, <1>3, <1>4, <1>5 DEF Row, RowType, Severities
<1>7. Reports(r, e)
  <2>1. /\ e.at = Dated(r) /\ RegionOf[r.station] = e.region
        /\ \/ e.severity = "WARNING" /\ r.level >= Warning[r.station]
           \/ e.severity = "ADVISORY" /\ r.level >= Attention[r.station]
    BY <1>1, <1>2, <1>3 DEF Row
  <2> QED
    BY <1>2, <2>1, DateIsReported DEF Reports, Kma, Eqk, Hrfco
<1> QED
  BY <1>1, <1>2, <1>6, <1>7 DEF Row

\* What the service shows could be stored as it is.
LEMMA DangersAreRows ==
  ASSUME TypeOK, PublishedTypes
  PROVE  Dangers \subseteq RowType
<1> SUFFICES ASSUME NEW h \in Dangers PROVE h \in RowType
  OBVIOUS
<1>0. client \in Clients /\ client \in {Kma, Eqk, Hrfco}
  BY SourcesAssumption DEF TypeOK
<1>1. CASE client = Kma
  <2> DEFINE Of(b) == {Row(Kma, TypeOf[w.kind], w.severity, w.area, b.at) :
                         w \in {w \in b.force : w.kind \in DOMAIN TypeOf}}
             Newest == {b \in Shown : \A c \in Shown : c.at <= b.at}
  <2>1. Dangers = UNION {Of(b) : b \in Newest}
    BY <1>1 DEF Dangers, Kma, Eqk, Hrfco
  <2>2. PICK b \in Newest : h \in Of(b)
    <3> HIDE DEF Of, Newest
    <3> QED
      BY <2>1
  <2>3. PICK w \in b.force : h = Row(Kma, TypeOf[w.kind], w.severity, w.area, b.at)
                             /\ w.kind \in DOMAIN TypeOf
    BY <2>2
  <2>4. b \in published /\ b.at \in Slots
    BY ItemsArePublished, PublishedSlot
  <2>5. w.severity \in Severities /\ w.area \in Areas
    BY <1>1, <2>4, BulletinForce DEF Bulletins
  <2> QED
    BY <1>0, <1>1, <2>3, <2>4, <2>5 DEF Row, RowType
<1>2. CASE client = Eqk
  <2>1. Dangers = {Row(Eqk, "earthquake", "none", "none", r.at) : r \in Shown}
    BY <1>2 DEF Dangers, Kma, Eqk, Hrfco
  <2>2. PICK r \in Shown : h = Row(Eqk, "earthquake", "none", "none", r.at)
    BY <2>1
  <2>3. r.at \in Slots
    BY ItemsArePublished, PublishedSlot
  <2> QED
    BY <1>0, <1>2, <2>2, <2>3 DEF Row, RowType
<1>3. CASE client = Hrfco
  <2>1. PICK r \in Shown :
          /\ h = Row(Hrfco, "flood", FloodSeverity(r.station, r.level), RegionOf[r.station], r.at)
          /\ FloodSeverity(r.station, r.level) # "none"
    BY <1>3 DEF Dangers, Kma, Eqk, Hrfco
  <2>2. r \in published /\ r.at \in Slots
    BY ItemsArePublished, PublishedSlot
  <2>3. RegionOf[r.station] \in Areas
    BY <1>3, <2>2, SourcesAssumption DEF PublishedTypes
  <2>4. FloodSeverity(r.station, r.level) \in Severities
    BY <2>1, SeverityFromThreshold DEF Severities
  <2> QED
    BY <1>0, <1>3, <2>1, <2>2, <2>3, <2>4 DEF Row, RowType
<1> QED
  BY <1>0, <1>1, <1>2, <1>3

(***************************************************************************)
(* The types.                                                              *)
(***************************************************************************)
Calling == {client} \cup (IF client = Hrfco THEN StationSet ELSE {})

\* Only the client itself and, of the flood client, stations are called.
LEMMA HeadIsCall ==
  ASSUME TypeOK, NEW what, Calls(what)
  PROVE  /\ what \in Calling /\ Tail(todo) \in Seq(Calling)
         /\ what \in StationSet => client = Hrfco
         /\ what \in {Kma, Eqk, Hrfco} => client = what
<1>1. todo \in Seq(Calling) /\ todo # <<>> /\ Head(todo) = what
  BY DEF TypeOK, Calling, Calls
<1>2. what \in Calling /\ Tail(todo) \in Seq(Calling)
  BY <1>1
<1>3. client \in {Kma, Eqk, Hrfco} /\ StationSet \cap {Kma, Eqk, Hrfco} = {}
  BY SourcesAssumption DEF TypeOK
<1> QED
  BY <1>2, <1>3 DEF Calling

\* The service and the clock go on, and nothing published is taken back.
LEMMA ServiceGrows ==
  ASSUME SourcesInv, [Next]_vars
  PROVE  /\ client' = client /\ now \in Nat /\ now' \in 0..LastSlot[client] /\ now <= now'
         /\ published \subseteq published' /\ PublishedTypes'
         /\ UNCHANGED <<now, published>> \/ Publish \/ Tick
<1>0. /\ client \in Clients /\ now \in 0..LastSlot[client] /\ LastSlot[client] \in Nat
      /\ now \in Nat /\ client \in {Kma, Eqk, Hrfco} /\ PublishedTypes
  BY SourcesAssumption DEF SourcesInv, TypeOK, Slots
<1>1. CASE Publish
  <2>1. PICK r \in Publications : published' = published \cup {r}
    BY <1>1 DEF Publish
  <2>2. client' = client /\ now' = now
    BY <1>1 DEF Publish
  <2>3. /\ r.at = now
        /\ client = Kma => r.force \in Snapshots
        /\ client = Hrfco => /\ r.station \in StationSet /\ HasThreshold(r.station)
                             /\ r.level \in LevelsAt[r.station] \cup {NoLevel}
    <3>1. CASE client = Kma
      BY <3>1 DEF Publications, Kma, Eqk, Hrfco
    <3>2. CASE client = Eqk
      BY <3>2 DEF Publications, Kma, Eqk, Hrfco
    <3>3. CASE client = Hrfco
      <4>1. PICK s \in {s \in StationSet : HasThreshold(s)} :
              r \in [at : {now}, station : {s}, level : LevelsAt[s] \cup {NoLevel}]
        BY <3>3 DEF Publications, Kma, Eqk, Hrfco
      <4> QED
        BY <3>3, <4>1 DEF Kma, Hrfco
    <3> QED
      BY <1>0, <3>1, <3>2, <3>3
  <2>4. PublishedTypes'
    BY <1>0, <2>1, <2>2, <2>3 DEF PublishedTypes, HasThreshold
  <2> QED
    BY <1>0, <1>1, <2>1, <2>2, <2>4
<1>2. CASE Tick
  BY <1>0, <1>2 DEF Tick, PublishedTypes, HasThreshold
<1>3. CASE UNCHANGED <<client, now, published>>
  BY <1>0, <1>3 DEF PublishedTypes, HasThreshold
<1> QED
  BY <1>1, <1>2, <1>3
  DEF Next, Fetch, Fail, StartFetch, FetchWarnings, FetchQuakes, FetchStationInfo,
      FetchLatestLevel, SkipStation, EndFetch, StoreEvent, Finish, Answered, world, vars

Reported(e) == e.source = client /\ e \in RowType /\ \E r \in published : Reports(r, e)

\* Only what a call answered is put together, and only that is stored.
LEMMA RowsStep ==
  ASSUME SourcesInv, [Next]_vars, NEW e \in rows' \cup events'
  PROVE  Reported(e)
<1>1. \A x \in rows \cup events : Reported(x)
  BY DEF SourcesInv, TypeOK, RowsReported, Reported
<1>2. CASE FetchWarnings
  <2>1. client = Kma
    BY <1>2, HeadIsCall DEF FetchWarnings, SourcesInv
  <2> QED
    BY <1>1, <1>2, <2>1, WarningRowsReported DEF FetchWarnings, Answered, SourcesInv, Reported
<1>3. CASE FetchQuakes
  <2>1. client = Eqk
    BY <1>3, HeadIsCall DEF FetchQuakes, SourcesInv
  <2> QED
    BY <1>1, <1>3, <2>1, QuakeRowsReported DEF FetchQuakes, Answered, SourcesInv, Reported
<1>4. ASSUME NEW s \in StationSet, FetchLatestLevel(s) PROVE Reported(e)
  <2>1. client = Hrfco
    BY <1>4, HeadIsCall DEF FetchLatestLevel, SourcesInv
  <2> QED
    BY <1>1, <1>4, <2>1, FloodRowsReported DEF FetchLatestLevel, Answered, SourcesInv, Reported
<1>5. CASE rows' \cup events' \subseteq rows \cup events
  BY <1>1, <1>5
<1> QED
  BY <1>2, <1>3, <1>4, <1>5
  DEF Next, Fetch, Publish, Tick, Fail, StartFetch, FetchStationInfo, SkipStation, EndFetch,
      StoreEvent, Finish, Answered, cycleVars, vars

\* What is reported stays so.
LEMMA ReportedStays ==
  ASSUME SourcesInv, [Next]_vars, NEW e, Reported(e)
  PROVE  Reported(e)'
<1>1. client' = client /\ published \subseteq published'
  BY ServiceGrows
<1>2. \A r : Reports(r, e)' <=> Reports(r, e)
  BY <1>1 DEF Reports, ShownAt
<1> QED
  BY <1>1, <1>2 DEF Reported

\* The fetch's place, its calls and its failures keep their types.
LEMMA FetchTypesStep ==
  ASSUME SourcesInv, [Next]_vars
  PROVE  /\ pc' \in {"idle", "fetch", "store"} /\ todo' \in Seq(Calling)
         /\ failures' \in 0..MaxFailures
<1>0. /\ TypeOK /\ pc \in {"idle", "fetch", "store"} /\ todo \in Seq(Calling)
      /\ failures \in 0..MaxFailures /\ MaxFailures \in Nat /\ client \in Calling
      /\ <<>> \in Seq(Calling)
  BY SourcesAssumption DEF SourcesInv, TypeOK, Calling
<1>1. CASE FetchStationInfo
  <2>1. client = Hrfco /\ Tail(todo) \in Seq(Calling)
    BY <1>0, <1>1, HeadIsCall DEF FetchStationInfo
  <2>2. Stations \in Seq(Calling)
    BY <2>1, SourcesAssumption DEF Calling
  <2>3. Tail(todo) \o Stations \in Seq(Calling)
    BY <2>1, <2>2
  <2> QED
    BY <1>0, <1>1, <2>3 DEF FetchStationInfo, Answered
<1>2. ASSUME NEW what, Calls(what), todo' = Tail(todo), UNCHANGED <<pc, failures>>
      PROVE  /\ pc' \in {"idle", "fetch", "store"} /\ todo' \in Seq(Calling)
             /\ failures' \in 0..MaxFailures
  BY <1>0, <1>2, HeadIsCall
<1>3. ASSUME NEW what, NEW new, Calls(what), Answered(new, <<>>)
      PROVE  todo' = Tail(todo) /\ UNCHANGED <<pc, failures>>
  <2>1. Tail(todo) \in Seq(Calling)
    BY <1>0, <1>3, HeadIsCall
  <2> QED
    BY <1>3, <2>1 DEF Answered
<1>4. CASE FetchWarnings
  BY <1>2, <1>3, <1>4 DEF FetchWarnings
<1>5. CASE FetchQuakes
  BY <1>2, <1>3, <1>5 DEF FetchQuakes
<1>6. ASSUME NEW s \in StationSet, FetchLatestLevel(s)
      PROVE  /\ pc' \in {"idle", "fetch", "store"} /\ todo' \in Seq(Calling)
             /\ failures' \in 0..MaxFailures
  BY <1>2, <1>3, <1>6 DEF FetchLatestLevel
<1>7. ASSUME NEW s \in StationSet, SkipStation(s)
      PROVE  /\ pc' \in {"idle", "fetch", "store"} /\ todo' \in Seq(Calling)
             /\ failures' \in 0..MaxFailures
  BY <1>2, <1>7 DEF SkipStation, AfterSkip
<1>8. CASE StartFetch
  <2>1. <<client>> \in Seq(Calling)
    BY <1>0
  <2> QED
    BY <1>0, <1>8, <2>1 DEF StartFetch
<1>9. CASE Fail
  BY <1>0, <1>9 DEF Fail
<1>10. CASE EndFetch
  BY <1>0, <1>10 DEF EndFetch
<1>11. CASE Finish
  BY <1>0, <1>11 DEF Finish
<1>12. CASE UNCHANGED <<pc, todo, failures>>
  BY <1>0, <1>12
<1> QED
  BY <1>1, <1>4, <1>5, <1>6, <1>7, <1>8, <1>9, <1>10, <1>11, <1>12
  DEF Next, Fetch, Publish, Tick, StoreEvent, cycleVars, vars

LEMMA SourcesStep == SourcesInv /\ [Next]_vars => SourcesInv'
<1> SUFFICES ASSUME SourcesInv, [Next]_vars PROVE SourcesInv'
  OBVIOUS
<1>1. /\ client' = client /\ client' \in Clients /\ now' \in 0..LastSlot[client']
      /\ PublishedTypes'
  BY ServiceGrows DEF SourcesInv, TypeOK
<1>2. LimiterInv'
  BY StepOfLimiter, WaitKeepsSpread, NewLimiterSpread, UnchangedSpread DEF SourcesInv
<1>3. \A e \in rows' \cup events' : Reported(e)'
  BY RowsStep, ReportedStays
<1>4. steady' \subseteq RowType
  <2>1. CASE StartFetch
    BY <2>1, DangersAreRows DEF StartFetch, SourcesInv
  <2>2. CASE ~StartFetch
    <3>1. steady' \subseteq steady
      BY <2>2
      DEF Next, Fetch, Publish, Tick, Fail, FetchWarnings, FetchQuakes, FetchStationInfo,
          FetchLatestLevel, SkipStation, EndFetch, StoreEvent, Finish, Answered, vars
    <3> QED
      BY <3>1 DEF SourcesInv, TypeOK
  <2> QED
    BY <2>1, <2>2
<1>5. todo' \in Seq(Calling) /\ Calling' = Calling
  BY <1>1, FetchTypesStep DEF Calling
<1>6. TypeOK'
  <2>1. \A r \in published' : r.at <= now'
    BY <1>1 DEF PublishedTypes
  <2>2. rows' \subseteq RowType /\ events' \subseteq RowType
        /\ \A e \in rows' \cup events' : e.source = client'
    BY <1>3 DEF Reported
  <2>3. clock' \in Nat /\ nextAllowed' \in Nat /\ calls' \in Seq(Nat)
    BY <1>2 DEF LimiterInv
  <2> QED
    BY <1>1, <1>4, <1>5, <2>1, <2>2, <2>3, FetchTypesStep DEF TypeOK, Calling
<1>7. RowsReported'
  BY <1>3 DEF RowsReported, Reported
<1> QED
  BY <1>1, <1>2, <1>6, <1>7 DEF SourcesInv

LEMMA SourcesInit == Init => SourcesInv
<1> SUFFICES ASSUME Init PROVE SourcesInv
  OBVIOUS
<1>1. LimiterInv
  BY DEF Init, LimiterInit, LimiterInv, BookedAhead, CallsSpread
<1>2. PublishedTypes /\ RowsReported
  BY DEF Init, PublishedTypes, RowsReported
<1>3. now \in 0..LastSlot[client] /\ failures \in 0..MaxFailures
  BY SourcesAssumption DEF Init, Slots
<1>4. TypeOK
  BY <1>1, <1>3 DEF Init, TypeOK, LimiterInv
<1> QED
  BY <1>1, <1>2, <1>4 DEF SourcesInv

\* The types hold in every state: rows are events of the schema and of the
\* client that made them, and a client calls nothing but its own service.
THEOREM TypeCorrect == Spec => []TypeOK
<1>1. SourcesInv => TypeOK
  BY DEF SourcesInv
<1> QED
  BY <1>1, SourcesInit, SourcesStep, PTL DEF Spec

\* No event without a report that says so for its region: for any bulletins,
\* exceptions, stations, thresholds and levels, and whatever is published
\* between the calls of a fetch and before its rows are stored.
THEOREM RowsAreReportedHolds == Spec => []RowsAreReported
<1>1. SourcesInv => RowsAreReported
  BY DEF SourcesInv, RowsReported, RowsAreReported
<1> QED
  BY <1>1, SourcesInit, SourcesStep, PTL DEF Spec

(***************************************************************************)
(* What a service goes on showing is told of by its answers.               *)
(***************************************************************************)
\* One bulletin a slot, one level a station and slot.
OneReport ==
  \A q, r \in published : q.at = r.at =>
    /\ client = Kma => q = r
    /\ client = Hrfco /\ q.station = r.station => q = r

\* The report that showed danger h when the fetch began, which a later one may
\* have followed.
Source(h) ==
  \E r \in published :
    /\ r.at = h.at
    /\ client = Hrfco => r.level # NoLevel /\ RegionOf[r.station] = h.region

ToldBy(es, h) == \E e \in es : Tells(e, h)

\* Days follow each other.
LEMMA DaysFollow ==
  ASSUME NEW a \in Nat, NEW b \in Nat, a <= b
  PROVE  Day(a) \in Nat /\ Day(b) \in Nat /\ Day(a) <= Day(b)
<1> DEFINE x == Day(a)
           y == Day(b)
<1>0. DayLength \in Nat /\ DayLength > 0
  BY SourcesAssumption
<1>1. x \in Nat /\ DayLength * x <= a
  BY <1>0 DEF Day
<1>2. y \in Nat /\ b < DayLength * (y + 1)
  BY <1>0 DEF Day
<1> HIDE DEF x, y
<1>3. ASSUME y + 1 <= x PROVE FALSE
  <2>1. DayLength * (y + 1) <= DayLength * x
    BY <1>0, <1>1, <1>2, <1>3
  <2>2. DayLength * (y + 1) \in Nat /\ DayLength * x \in Nat
    BY <1>0, <1>1, <1>2
  <2> QED
    BY <1>1, <1>2, <2>1, <2>2
<1>4. x <= y
  BY <1>1, <1>2, <1>3
<1> QED
  BY <1>1, <1>2, <1>4 DEF x, y

\* A request that shows a report shows the later ones.
LEMMA LaterIsShown ==
  ASSUME TypeOK, PublishedTypes, NEW r \in published, NEW q \in published, r.at <= q.at, Shows(r)
  PROVE  Shows(q)
<1>1. /\ client \in {Kma, Eqk, Hrfco} /\ {WarningDays, QuakeDays, LevelSlots} \subseteq Nat
      /\ r.at \in Nat /\ q.at \in Nat /\ q.at <= now /\ now \in Nat
  BY SourcesAssumption, PublishedSlot DEF TypeOK, PublishedTypes
<1>2. Day(r.at) <= Day(q.at) /\ Day(r.at) \in Nat /\ Day(q.at) \in Nat /\ Day(now) \in Nat
  BY <1>1, DaysFollow
<1>3. CASE client = Kma
  BY <1>1, <1>2, <1>3 DEF Shows, ShownAt, Kma, Eqk, Hrfco
<1>4. CASE client = Eqk
  BY <1>1, <1>2, <1>4 DEF Shows, ShownAt, Kma, Eqk, Hrfco
<1>5. CASE client = Hrfco
  BY <1>1, <1>5 DEF Shows, ShownAt, Kma, Eqk, Hrfco
<1> QED
  BY <1>1, <1>3, <1>4, <1>5

\* The newest bulletin is read, and it tells of all that is in force.
LEMMA WarningsTell ==
  ASSUME TypeOK, PublishedTypes, OneReport, client = Kma, NEW h, StillShown(h), Source(h)
  PROVE  ToldBy(WarningRows, h)
<1> DEFINE Of(b) == {Row(Kma, TypeOf[w.kind], w.severity, w.area, b.at) :
                       w \in {w \in b.force : w.kind \in DOMAIN TypeOf}}
           Newest == {b \in Shown : \A c \in Shown : c.at <= b.at}
<1>1. PICK g \in Dangers : SameDanger(g, h)
  BY DEF StillShown
<1>2. Dangers = UNION {Of(b) : b \in Newest}
  BY DEF Dangers, Kma, Eqk, Hrfco
<1>3. PICK b \in Newest : g \in Of(b)
  <2> HIDE DEF Of, Newest
  <2> QED
    BY <1>1, <1>2
<1>4. PICK v \in b.force : /\ g = Row(Kma, TypeOf[v.kind], v.severity, v.area, b.at)
                           /\ v.kind \in DOMAIN TypeOf
  BY <1>3
<1>5. b \in Shown /\ b \in published /\ b.at \in Nat
  BY <1>3, ItemsArePublished DEF PublishedTypes
<1>6. b \in Items
  <2>1. {q \in Shown : q.at > b.at} = {}
    <3> SUFFICES ASSUME NEW q \in Shown, q.at > b.at PROVE FALSE
      OBVIOUS
    <3>1. q.at <= b.at /\ q.at \in Nat
      BY <1>3, ItemsArePublished DEF PublishedTypes
    <3> QED
      BY <1>5, <3>1
  <2>2. Cardinality({q \in Shown : q.at > b.at}) < PageSize
    <3>1. Cardinality({q \in Shown : q.at > b.at}) = 0
      BY <2>1, FS_EmptySet, Zenon
    <3> QED
      BY <3>1, SourcesAssumption
  <2> QED
    BY <1>5, <2>2 DEF Items, Page, Kma, Hrfco
<1>7. Latest(Items) = b
  <2>1. \A q \in Items : q \in Shown
    BY DEF Items, Page
  <2>2. \A q \in Items : q.at <= b.at
    BY <1>3, <2>1
  <2>3. Latest(Items) \in Items /\ b.at <= Latest(Items).at
    BY <1>6, <2>2 DEF Latest
  <2>4. Latest(Items) \in published /\ Latest(Items).at <= b.at
    BY <2>1, <2>2, <2>3, ItemsArePublished
  <2>5. Latest(Items).at \in Nat
    BY <2>4 DEF PublishedTypes
  <2>6. Latest(Items).at = b.at
    BY <1>5, <2>3, <2>4, <2>5
  <2> QED
    BY <1>5, <2>4, <2>6 DEF OneReport
<1>8. PICK w \in ActiveWarnings(b) :
        w.kind = v.kind /\ w.severity = v.severity /\ w.area \in {v.area, "all"}
  BY <1>5, BulletinForce, InForceIsActive
<1> DEFINE e == Row(Kma, TypeOf[w.kind], w.severity, w.area, Dated(b))
<1>9. e \in WarningRows
  BY <1>4, <1>6, <1>7, <1>8 DEF WarningRows
<1>10. /\ e.type = g.type /\ e.severity = g.severity /\ e.region \in {g.region, "all"}
       /\ e.at >= b.at /\ e.at \in Nat /\ g.at = b.at
       /\ b.at \notin Unreadable => e.at = g.at
  BY <1>4, <1>5, <1>8, DateIsReported DEF Row
<1>11. b.at >= h.at /\ h.at \in Nat /\ b.at \in Nat
  <2>1. PICK r \in published : r.at = h.at
    BY DEF Source
  <2>2. r.at \in Nat
    BY <2>1 DEF PublishedTypes
  <2>3. ASSUME b.at < r.at PROVE FALSE
    <3>1. Shows(r)
      BY <1>5, <2>2, <2>3, LaterIsShown DEF Shown
    <3>2. r.at <= b.at
      BY <1>3, <2>1, <3>1 DEF Shown
    <3> QED
      BY <1>5, <2>2, <2>3, <3>2
  <2> QED
    BY <1>5, <2>1, <2>2, <2>3
<1> HIDE DEF e
<1>12. Tells(e, h)
  <2>1. e.at >= h.at
    BY <1>10, <1>11
  <2>2. h.type = "earthquake" /\ h.at \notin Unreadable => e.at = h.at
    BY <1>1, <1>10 DEF SameDanger
  <2> QED
    BY <1>1, <1>10, <2>1, <2>2 DEF Tells, SameDanger
<1> QED
  BY <1>9, <1>12 DEF ToldBy

\* The reports on earthquakes that fit a page are all read.
LEMMA QuakesTell ==
  ASSUME TypeOK, PublishedTypes, client = Eqk, NEW h, StillShown(h),
         IsFiniteSet(published), Cardinality(Shown) <= PageSize
  PROVE  ToldBy(QuakeRows, h)
<1>1. PICK g \in Dangers : SameDanger(g, h)
  BY DEF StillShown
<1>2. PICK r \in Shown : g = Row(Eqk, "earthquake", "none", "none", r.at)
  BY <1>1 DEF Dangers, Kma, Eqk, Hrfco
<1>3. r \in Items
  <2> DEFINE later == {q \in Shown : q.at > r.at}
  <2>1. IsFiniteSet(Shown)
    BY ItemsArePublished, FS_Subset
  <2>2. IsFiniteSet(Shown \ {r}) /\ Cardinality(Shown \ {r}) = Cardinality(Shown) - 1
    BY <1>2, <2>1, FS_RemoveElement
  <2>3. r.at \in Nat
    BY <1>2, ItemsArePublished DEF PublishedTypes
  <2>4. later \in SUBSET (Shown \ {r})
    BY <2>3
  <2>5. Cardinality(later) <= Cardinality(Shown \ {r}) /\ IsFiniteSet(later)
    BY <2>2, <2>4, FS_Subset
  <2>6. Cardinality(later) \in Nat /\ Cardinality(Shown) \in Nat
    BY <2>1, <2>5, FS_CardinalityType
  <2>7. Cardinality(later) < PageSize
    BY <2>2, <2>5, <2>6, SourcesAssumption
  <2> QED
    BY <1>2, <2>7 DEF Items, Page, Eqk, Hrfco
<1> DEFINE e == Row(Eqk, "earthquake", "none", "none", Dated(r))
<1>4. e \in QuakeRows
  BY <1>3 DEF QuakeRows
<1>5. Tells(e, h)
  <2>1. Dated(r) >= r.at /\ (r.at \notin Unreadable => Dated(r) = r.at)
    BY <1>2, DateIsReported
  <2> QED
    BY <1>1, <1>2, <2>1 DEF Tells, SameDanger, Row
<1> HIDE DEF e
<1> QED
  BY <1>4, <1>5 DEF ToldBy

\* A station that goes on showing a danger has a threshold, and the newest of
\* its levels that are not blank tells of it.
LEMMA LevelTells ==
  ASSUME TypeOK, PublishedTypes, OneReport, client = Hrfco, NEW h, StillShown(h), Source(h),
         NEW s \in StationSet, RegionOf[s] = h.region
  PROVE  HasThreshold(s) /\ ToldBy(FloodRows(s), h)
<1>1. PICK g \in Dangers : SameDanger(g, h)
  BY DEF StillShown
<1>2. PICK r \in Shown :
        /\ g = Row(Hrfco, "flood", FloodSeverity(r.station, r.level), RegionOf[r.station], r.at)
        /\ r.level # NoLevel /\ FloodSeverity(r.station, r.level) # "none"
        /\ ~ \E q \in published :
               q.station = r.station /\ q.level # NoLevel /\ q.at > r.at
  BY <1>1 DEF Dangers, Kma, Eqk, Hrfco
<1>3. /\ r \in published /\ r.at \in Nat /\ r.station \in StationSet
      /\ HasThreshold(r.station)
  BY <1>2, ItemsArePublished DEF PublishedTypes
<1>4. r.station = s
  <2>1. RegionOf[r.station] = h.region
    BY <1>1, <1>2 DEF SameDanger, Row
  <2> QED
    BY <1>3, <2>1, SourcesAssumption
<1>5. r \in LevelsOf(s)
  BY <1>2, <1>4 DEF LevelsOf, Items
<1>6. \A q \in LevelsOf(s) :
        q \in published /\ q.station = s /\ q.at \in Nat /\ q.at <= r.at
  <2> SUFFICES ASSUME NEW q \in LevelsOf(s)
               PROVE  q \in published /\ q.station = s /\ q.at \in Nat /\ q.at <= r.at
    OBVIOUS
  <2>1. q \in published /\ q.station = s /\ q.level # NoLevel
    BY ItemsArePublished DEF LevelsOf
  <2>2. q.at \in Nat /\ ~(q.at > r.at)
    BY <1>2, <1>4, <2>1 DEF PublishedTypes
  <2> QED
    BY <1>3, <2>1, <2>2
<1>7. Latest(LevelsOf(s)) = r
  <2> DEFINE x == Latest(LevelsOf(s))
  <2>1. x \in LevelsOf(s) /\ r.at <= x.at
    BY <1>5, <1>6 DEF Latest
  <2> HIDE DEF x
  <2>2. x \in published /\ x.station = s /\ x.at = r.at
    BY <1>3, <1>6, <2>1
  <2>3. x = r
    BY <1>3, <1>4, <2>2 DEF OneReport
  <2> QED
    BY <2>3 DEF x
<1> DEFINE e == Row(Hrfco, "flood", FloodSeverity(r.station, r.level), RegionOf[r.station], Dated(r))
<1>8. e \in FloodRows(s)
  BY <1>2, <1>4, <1>5, <1>7 DEF FloodRows
<1>9. e.at >= h.at
  <2>1. PICK q \in published :
          q.at = h.at /\ q.level # NoLevel /\ RegionOf[q.station] = h.region
    BY DEF Source
  <2>2. q.at \in Nat /\ q.station \in StationSet
    BY <2>1 DEF PublishedTypes
  <2>3. q.station = r.station
    BY <1>4, <2>1, <2>2, SourcesAssumption
  <2>4. ~(q.at > r.at)
    BY <1>2, <2>1, <2>3
  <2>5. e.at \in Nat /\ e.at >= r.at
    BY <1>2, DateIsReported DEF Row
  <2> QED
    BY <1>3, <2>1, <2>2, <2>4, <2>5
<1>10. Tells(e, h)
  <2>1. /\ g.type = "flood" /\ e.type = g.type /\ e.severity = g.severity
        /\ e.region = g.region
    BY <1>2 DEF Row
  <2> QED
    BY <1>1, <1>9, <2>1 DEF Tells, SameDanger
<1> HIDE DEF e
<1> QED
  BY <1>3, <1>4, <1>8, <1>10 DEF ToldBy

(***************************************************************************)
(* What is shown all the time is stored.                                   *)
(***************************************************************************)
\* Calling what may tell of danger h.
Awaits(what, h) == what = client \/ (what \in StationSet /\ RegionOf[what] = h.region)

Pending(h) == \E i \in DOMAIN todo : Awaits(todo[i], h)

\* While a fetch runs each danger that was shown ever since is told of by a row
\* or a call is to come that will; then by a row or an event.
OnItsWay ==
  /\ pc = "fetch" => \A h \in steady : ToldBy(rows, h) \/ Pending(h)
  /\ pc = "store" => \A h \in steady : ToldBy(rows \cup events, h)

SteadyInv ==
  /\ OneReport /\ IsFiniteSet(published)
  /\ \A h \in steady : StillShown(h) /\ Source(h)
  /\ OnItsWay

\* The reports on earthquakes of the days that are asked for fit a page while a
\* fetch runs (kma_earthquake.py:46 asks for one page).
PageFits == client = Eqk /\ pc = "fetch" => Cardinality(Shown) <= PageSize

LEMMA ReportsStep ==
  ASSUME SourcesInv, SteadyInv, [Next]_vars
  PROVE  OneReport' /\ IsFiniteSet(published')
<1>0. client' = client /\ client \in {Kma, Eqk, Hrfco} /\ now \in Nat
  BY ServiceGrows, SourcesAssumption DEF SourcesInv, TypeOK
<1>1. CASE Publish
  <2>1. PICK r \in Publications : IsNew(r) /\ published' = published \cup {r}
    BY <1>1 DEF Publish
  <2>2. IsFiniteSet(published')
    BY <2>1, FS_AddElement DEF SteadyInv
  <2>3. ASSUME NEW q \in published, q.at = r.at
        PROVE  client # Kma /\ (client = Hrfco => q.station # r.station)
    BY <2>1, <2>3 DEF IsNew, Kma, Eqk, Hrfco
  <2>4. OneReport'
    BY <1>0, <2>1, <2>3 DEF OneReport, SteadyInv
  <2> QED
    BY <2>2, <2>4
<1>2. CASE published' = published
  BY <1>0, <1>2 DEF OneReport, SteadyInv
<1> QED
  BY <1>1, <1>2
  DEF Next, Fetch, Tick, Fail, StartFetch, FetchWarnings, FetchQuakes, FetchStationInfo,
      FetchLatestLevel, SkipStation, EndFetch, StoreEvent, Finish, Answered, world, vars

\* What is shown has a report.
LEMMA DangerHasSource ==
  ASSUME TypeOK, NEW h \in Dangers
  PROVE  StillShown(h) /\ Source(h)
<1>0. client \in {Kma, Eqk, Hrfco}
  BY SourcesAssumption DEF TypeOK
<1>1. StillShown(h)
  BY DEF StillShown, SameDanger
<1>2. CASE client = Kma
  <2> DEFINE Of(b) == {Row(Kma, TypeOf[w.kind], w.severity, w.area, b.at) :
                         w \in {w \in b.force : w.kind \in DOMAIN TypeOf}}
             Newest == {b \in Shown : \A c \in Shown : c.at <= b.at}
  <2>1. Dangers = UNION {Of(b) : b \in Newest}
    BY <1>2 DEF Dangers, Kma, Eqk, Hrfco
  <2>2. PICK b \in Newest : h \in Of(b)
    <3> HIDE DEF Of, Newest
    <3> QED
      BY <2>1
  <2>3. b \in published /\ h.at = b.at
    BY <2>2, ItemsArePublished DEF Row
  <2> QED
    BY <1>1, <1>2, <2>3 DEF Source, Kma, Hrfco
<1>3. CASE client = Eqk
  <2>1. PICK r \in Shown : h = Row(Eqk, "earthquake", "none", "none", r.at)
    BY <1>3 DEF Dangers, Kma, Eqk, Hrfco
  <2> QED
    BY <1>1, <1>3, <2>1, ItemsArePublished DEF Source, Row, Eqk, Hrfco
<1>4. CASE client = Hrfco
  <2>1. PICK r \in Shown :
          /\ h = Row(Hrfco, "flood", FloodSeverity(r.station, r.level), RegionOf[r.station], r.at)
          /\ r.level # NoLevel
    BY <1>4 DEF Dangers, Kma, Eqk, Hrfco
  <2>2. r \in published /\ r.at = h.at /\ RegionOf[r.station] = h.region
    BY <2>1, ItemsArePublished DEF Row
  <2> QED
    BY <1>1, <2>1, <2>2 DEF Source
<1> QED
  BY <1>0, <1>2, <1>3, <1>4

\* Dangers that are no longer shown are dropped; the others keep their report.
LEMMA SteadyStep ==
  ASSUME SourcesInv, SteadyInv, [Next]_vars
  PROVE  \A h \in steady' : (StillShown(h) /\ Source(h))'
<1>0. client' = client /\ published \subseteq published'
  BY ServiceGrows
<1>1. \A h : Source(h) => Source(h)'
  BY <1>0 DEF Source
<1>2. CASE Publish \/ Tick
  <2>1. steady' = {h \in steady : StillShown(h)'}
    BY <1>2 DEF Publish, Tick
  <2> QED
    BY <1>1, <2>1 DEF SteadyInv
<1>3. CASE UNCHANGED world
  <2>1. Dangers' = Dangers
    BY <1>3 DEF Dangers, Shown, Shows, ShownAt, world
  <2>2. \A h : StillShown(h)' <=> StillShown(h)
    BY <2>1 DEF StillShown
  <2>3. \A h \in steady' : h \in steady \/ h \in Dangers
    <3>1. CASE StartFetch
      BY <3>1 DEF StartFetch
    <3>2. CASE ~StartFetch /\ ~Publish /\ ~Tick
      BY <3>2
      DEF Next, Fetch, Fail, FetchWarnings, FetchQuakes, FetchStationInfo, FetchLatestLevel,
          SkipStation, EndFetch, StoreEvent, Finish, Answered, vars
    <3>3. CASE Publish \/ Tick
      BY <3>3 DEF Publish, Tick
    <3> QED
      BY <3>1, <3>2, <3>3
  <2>4. \A h \in steady' : StillShown(h) /\ Source(h)
    BY <2>3, DangerHasSource DEF SteadyInv, SourcesInv
  <2> QED
    BY <1>1, <2>2, <2>4
<1> QED
  BY <1>2, <1>3
  DEF Next, Fetch, Fail, StartFetch, FetchWarnings, FetchQuakes, FetchStationInfo,
      FetchLatestLevel, SkipStation, EndFetch, StoreEvent, Finish, Answered, world, vars

\* When a call is made, what waits for another goes on waiting.
LEMMA PendingRests ==
  ASSUME TypeOK, NEW what, Calls(what), NEW h, Pending(h), ~Awaits(what, h),
         todo' = Tail(todo), client' = client
  PROVE  Pending(h)'
<1>1. todo \in Seq(Calling) /\ todo # <<>> /\ todo[1] = what
  BY DEF TypeOK, Calling, Calls
<1>2. PICK i \in DOMAIN todo : Awaits(todo[i], h)
  BY DEF Pending
<1>3. i \in 1..Len(todo) /\ i # 1 /\ Len(todo) \in Nat
  BY <1>1, <1>2
<1>4. i - 1 \in DOMAIN Tail(todo) /\ Tail(todo)[i - 1] = todo[i]
  BY <1>1, <1>3
<1>5. i - 1 \in DOMAIN todo' /\ todo'[i - 1] = todo[i]
  BY <1>4
<1>6. \/ todo[i] = client'
      \/ todo[i] \in StationSet /\ RegionOf[todo[i]] = h.region
  BY <1>2 DEF Awaits
<1> QED
  BY <1>5, <1>6 DEF Pending, Awaits

LEMMA OnItsWayStep ==
  ASSUME SourcesInv, SteadyInv, PageFits, [Next]_vars
  PROVE  OnItsWay'
<1>0. /\ TypeOK /\ PublishedTypes /\ OneReport /\ IsFiniteSet(published) /\ OnItsWay
      /\ client' = client /\ \A h \in steady : StillShown(h) /\ Source(h)
      /\ client \in {Kma, Eqk, Hrfco} /\ StationSet \cap {Kma, Eqk, Hrfco} = {}
  BY ServiceGrows, SourcesAssumption DEF SourcesInv, SteadyInv, TypeOK
<1>a. \A h, es : ToldBy(es, h)' <=> ToldBy(es', h)
  BY DEF ToldBy
\* A call that answers with new rows tells of all that waited for it.
<1>b. ASSUME NEW what, NEW new, Calls(what), Answered(new, <<>>),
             \A h \in steady : Awaits(what, h) => ToldBy(new, h)
      PROVE  OnItsWay'
  <2>1. /\ pc = "fetch" /\ pc' = "fetch" /\ steady' = steady /\ rows' = rows \cup new
        /\ todo' = Tail(todo)
    <3>1. Tail(todo) \in Seq(Calling)
      BY <1>0, <1>b, HeadIsCall
    <3> QED
      BY <1>b, <3>1 DEF Answered, Calls
  <2>2. ASSUME NEW h \in steady PROVE ToldBy(rows', h) \/ Pending(h)'
    <3>1. CASE ToldBy(rows, h)
      BY <2>1, <3>1 DEF ToldBy
    <3>2. CASE Awaits(what, h)
      BY <1>b, <2>1, <3>2 DEF ToldBy
    <3>3. CASE Pending(h) /\ ~Awaits(what, h)
      BY <1>0, <1>b, <2>1, <3>3, PendingRests
    <3> QED
      BY <1>0, <2>1, <3>1, <3>2, <3>3 DEF OnItsWay
  <2> QED
    BY <2>1, <2>2 DEF OnItsWay, ToldBy
<1>1. CASE FetchWarnings
  <2>1. client = Kma
    BY <1>0, <1>1, HeadIsCall DEF FetchWarnings
  <2>2. \A h \in steady : ToldBy(WarningRows, h)
    BY <1>0, <2>1, WarningsTell
  <2> QED
    BY <1>1, <1>b, <2>2 DEF FetchWarnings
<1>2. CASE FetchQuakes
  <2>1. client = Eqk /\ pc = "fetch"
    BY <1>0, <1>2, HeadIsCall DEF FetchQuakes, Calls
  <2>2. \A h \in steady : ToldBy(QuakeRows, h)
    BY <1>0, <2>1, QuakesTell DEF PageFits
  <2> QED
    BY <1>2, <1>b, <2>2 DEF FetchQuakes
<1>3. ASSUME NEW s \in StationSet, FetchLatestLevel(s) PROVE OnItsWay'
  <2>1. client = Hrfco
    BY <1>0, <1>3, HeadIsCall DEF FetchLatestLevel
  <2>2. \A h \in steady : Awaits(s, h) => ToldBy(FloodRows(s), h)
    BY <1>0, <2>1, LevelTells DEF Awaits
  <2> QED
    BY <1>3, <1>b, <2>2 DEF FetchLatestLevel
<1>4. ASSUME NEW s \in StationSet, SkipStation(s) PROVE OnItsWay'
  <2>1. client = Hrfco /\ Calls(s) /\ ~HasThreshold(s) /\ todo' = Tail(todo) /\ pc = "fetch"
        /\ UNCHANGED <<pc, rows, steady>>
    BY <1>0, <1>4, HeadIsCall DEF SkipStation, AfterSkip, Calls
  <2>2. ASSUME NEW h \in steady PROVE ToldBy(rows', h) \/ Pending(h)'
    <3>1. CASE ToldBy(rows, h)
      BY <2>1, <3>1
    <3>2. ~Awaits(s, h)
      BY <1>0, <2>1, LevelTells DEF Awaits
    <3>3. CASE Pending(h)
      BY <1>0, <2>1, <3>2, <3>3, PendingRests
    <3> QED
      BY <1>0, <2>1, <3>1, <3>3 DEF OnItsWay
  <2> QED
    BY <2>1, <2>2 DEF OnItsWay, ToldBy
<1>5. CASE FetchStationInfo
  <2>1. client = Hrfco /\ Tail(todo) \in Seq(Calling) /\ Stations \in Seq(Calling)
    <3>1. client = Hrfco /\ Tail(todo) \in Seq(Calling)
      BY <1>0, <1>5, HeadIsCall DEF FetchStationInfo
    <3> QED
      BY <3>1, SourcesAssumption DEF Calling
  <2>2. /\ pc = "fetch" /\ pc' = "fetch" /\ steady' = steady
        /\ todo' = Tail(todo) \o Stations
    BY <1>5 DEF FetchStationInfo, Answered, Calls
  <2>3. ASSUME NEW h \in steady PROVE Pending(h)'
    <3>1. PICK r \in published : RegionOf[r.station] = h.region
      BY <1>0, <2>1 DEF Source
    <3>2. PICK i \in DOMAIN Stations : r.station = Stations[i] /\ Stations[i] \in StationSet
      BY <1>0, <2>1 DEF PublishedTypes, StationSet
    <3> DEFINE j == Len(Tail(todo)) + i
    <3>3. j \in DOMAIN (Tail(todo) \o Stations) /\ (Tail(todo) \o Stations)[j] = Stations[i]
      BY <2>1
    <3>4. j \in DOMAIN todo' /\ todo'[j] = Stations[i]
      BY <2>2, <3>3
    <3> HIDE DEF j
    <3> QED
      BY <3>1, <3>2, <3>4 DEF Pending, Awaits
  <2> QED
    BY <2>2, <2>3 DEF OnItsWay
<1>6. CASE StartFetch
  <2>1. pc' = "fetch" /\ todo' = <<client>>
    BY <1>6 DEF StartFetch
  <2>2. 1 \in DOMAIN todo' /\ todo'[1] = client'
    BY <1>0, <2>1
  <2> QED
    BY <2>1, <2>2 DEF OnItsWay, Pending, Awaits
<1>7. CASE EndFetch
  <2>1. pc = "fetch" /\ todo = <<>> /\ pc' = "store" /\ UNCHANGED <<rows, events, steady>>
    BY <1>7 DEF EndFetch
  <2>2. \A h : ~Pending(h)
    BY <2>1 DEF Pending
  <2>3. \A h \in steady : ToldBy(rows, h)
    BY <1>0, <2>1, <2>2 DEF OnItsWay
  <2> QED
    BY <2>1, <2>3 DEF OnItsWay, ToldBy
<1>8. ASSUME NEW e \in rows, StoreEvent(e) PROVE OnItsWay'
  <2>1. /\ pc = "store" /\ pc' = "store" /\ steady' = steady
        /\ rows' \cup events' = rows \cup events
    BY <1>8 DEF StoreEvent
  <2> QED
    BY <1>0, <2>1 DEF OnItsWay, ToldBy
<1>9. CASE Finish \/ Fail
  <2>1. pc' = "idle"
    BY <1>9 DEF Finish, Fail
  <2> QED
    BY <2>1 DEF OnItsWay
<1>10. CASE UNCHANGED <<client, pc, todo, rows, events>> /\ steady' \subseteq steady
  BY <1>0, <1>10 DEF OnItsWay, ToldBy, Pending, Awaits
<1> QED
  BY <1>1, <1>2, <1>3, <1>4, <1>5, <1>6, <1>7, <1>8, <1>9, <1>10
  DEF Next, Fetch, Publish, Tick, cycleVars, vars

LEMMA SteadyInitially == Init => SteadyInv
BY FS_EmptySet DEF Init, SteadyInv, OneReport, OnItsWay

\* A fetch that has come to its end has stored each danger that the service
\* showed all the time it ran, whatever was published, replaced and left blank
\* between its calls, as long as the reports on earthquakes fit the page.
THEOREM SteadyIsStoredHolds == Spec /\ []PageFits => []SteadyIsStored
<1>1. SourcesInv /\ SteadyInv /\ PageFits /\ [Next]_vars => SteadyInv'
  BY ReportsStep, SteadyStep, OnItsWayStep DEF SteadyInv
<1>2. SteadyInv => SteadyIsStored
  BY DEF SteadyInv, OnItsWay, ToldBy, SteadyIsStored, Told
<1> QED
  BY <1>1, <1>2, SourcesInit, SourcesStep, SteadyInitially, PTL DEF Spec
=============================================================================
