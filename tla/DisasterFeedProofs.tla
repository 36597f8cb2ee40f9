------------------------- MODULE DisasterFeedProofs -------------------------
(***************************************************************************)
(* Proofs about DisasterFeed, for any page size and any number of days,    *)
(* messages and failed fetches.                                            *)
(***************************************************************************)
EXTENDS DisasterFeed, FiniteSetTheorems, WellFoundedInduction, TLAPS

(***************************************************************************)
(* Numbers.                                                                *)
(***************************************************************************)
\* A set of naturals has a least element: of the sets of its elements up to
\* one of them, which are finite, one contains no other.
LEMMA LeastNatural ==
  ASSUME NEW T \in SUBSET Nat, T # {}
  PROVE  \E x \in T : \A y \in T : x <= y
<1> DEFINE UpTo(x) == {y \in T : y <= x}
           Starts == {UpTo(x) : x \in T}
<1>1. ASSUME NEW x \in T PROVE UpTo(x) \in FiniteSubsetsOf(Nat)
  <2>1. x \in Nat /\ \A z \in UpTo(x) : z \in 0..x /\ z \in Nat
    OBVIOUS
  <2>2. IsFiniteSet(0..x)
    BY <2>1, FS_Interval
  <2> QED
    BY <2>1, <2>2, FS_Subset DEF FiniteSubsetsOf
<1>2. Starts \subseteq FiniteSubsetsOf(Nat) /\ Starts # {}
  BY <1>1, Zenon
<1>3. PICK A \in Starts : \A B \in Starts : <<B, A>> \notin StrictSubsetOrdering(Nat)
  <2>1. IsWellFoundedOn(StrictSubsetOrdering(Nat), FiniteSubsetsOf(Nat))
    BY FS_StrictSubsetOrderingWellFounded
  <2> QED
    BY <1>2, <2>1, WFMin, Zenon
<1>4. PICK x \in T : A = UpTo(x)
  BY <1>3
<1>5. ASSUME NEW y \in T, y < x PROVE FALSE
  <2>1. x \in Nat /\ y \in Nat /\ x \in UpTo(x) /\ x \notin UpTo(y)
    BY <1>5
  <2>2. \A z \in UpTo(y) : z \in UpTo(x)
    BY <1>5, <2>1
  <2>3. UpTo(y) \in Starts
    OBVIOUS
  <2> QED
    BY <1>3, <1>4, <2>1, <2>2, <2>3 DEF StrictSubsetOrdering
<1> QED
  BY <1>5

\* The last page of n messages ends with the last of them or after it.
LEMMA LastPageEnds ==
  ASSUME NEW n \in Nat
  PROVE  LastPage(n) \in Nat /\ n <= LastPage(n) * PageSize
BY FeedAssumption DEF LastPage

(***************************************************************************)
(* What a page becomes.                                                    *)
(***************************************************************************)
Messages == [content : Contents, at : Nat]

Feeds == feed \in [1..Days -> Seq(Messages)]

LEMMA FeedOfDay ==
  ASSUME Feeds, NEW d \in 1..Days
  PROVE  /\ feed[d] \in Seq(Messages) /\ Len(feed[d]) \in Nat
         /\ DOMAIN feed[d] = 1..Len(feed[d])
         /\ \A i \in DOMAIN feed[d] :
              i \in Nat /\ feed[d][i].content \in Contents /\ feed[d][i].at \in Nat
<1>1. feed[d] \in Seq(Messages)
  BY DEF Feeds
<1>2. Len(feed[d]) \in Nat /\ DOMAIN feed[d] = 1..Len(feed[d])
  BY <1>1
<1>3. ASSUME NEW i \in DOMAIN feed[d]
      PROVE  i \in Nat /\ feed[d][i].content \in Contents /\ feed[d][i].at \in Nat
  <2>1. i \in 1..Len(feed[d]) /\ i \in Nat
    BY <1>2
  <2>2. feed[d][i] \in Messages
    BY <1>1, <2>1
  <2> QED
    BY <2>1, <2>2 DEF Messages
<1> QED
  BY <1>1, <1>2, <1>3

\* The moment of a message is a moment; only unread times have a message in it.
LEMMA MomentType ==
  ASSUME Feeds, reads \in Nat, NEW d \in 1..Days, Len(feed[d]) <= MaxSent,
         NEW i \in DOMAIN feed[d]
  PROVE  /\ Moment(d, i) \in Moments
         /\ feed[d][i].content.dated => Moment(d, i) = SentAt(d, i)
         /\ ~feed[d][i].content.dated => Moment(d, i) = <<reads, d, i>>
<1>1. i \in 1..MaxSent /\ d \in 0..Days /\ feed[d][i].at \in Nat /\ 0 \in 0..Days /\ 0 \in 0..MaxSent
  BY FeedOfDay, FeedAssumption
<1> QED
  BY <1>1 DEF Moment, SentAt, Moments

LEMMA FirstIsSent ==
  ASSUME NEW d \in 1..Days, NEW page \in SUBSET Nat, NEW r, NEW at,
         SentTo(d, page, r, at) # {}
  PROVE  First(d, page, r, at) \in SentTo(d, page, r, at)
<1>1. SentTo(d, page, r, at) \in SUBSET Nat
  BY DEF SentTo
<1>2. \E i \in SentTo(d, page, r, at) : \A j \in SentTo(d, page, r, at) : i <= j
  BY <1>1, LeastNatural
<1> QED
  BY <1>2 DEF First

\* A row is about a message of the page, one that was sent to its region and has
\* its moment.
LEMMA RowsOfPage ==
  ASSUME Feeds, reads \in Nat, NEW d \in 1..Days, Len(feed[d]) <= MaxSent,
         NEW page \in SUBSET (DOMAIN feed[d]),
         NEW row \in RowsOf(d, page)
  PROVE  \E r \in Regions, at \in Moments :
           /\ row = Row(d, page, r, at)
           /\ First(d, page, r, at) \in SentTo(d, page, r, at)
<1>1. page \in SUBSET Nat
  BY FeedOfDay
<1>2. PICK i \in page : /\ IsHazard(d, i)
                        /\ row \in {Row(d, page, r, Moment(d, i)) : r \in RegionsOf(d, i)}
  BY Zenon DEF RowsOf
<1>3. PICK r \in RegionsOf(d, i) : row = Row(d, page, r, Moment(d, i))
  BY <1>2
<1>5. feed[d][i].content \in Contents /\ Moment(d, i) \in Moments
  BY FeedOfDay, MomentType
<1>6. r \in Regions
  BY <1>3, <1>5, Zenon DEF RegionsOf, Regions
<1>7. i \in SentTo(d, page, r, Moment(d, i))
  BY <1>2, <1>3 DEF SentTo
<1> QED
  BY <1>1, <1>3, <1>5, <1>6, <1>7, FirstIsSent

\* Every hazard of the page has a row in each of its regions.
LEMMA HazardHasRow ==
  ASSUME NEW d, NEW page, NEW i \in page, IsHazard(d, i), NEW r \in RegionsOf(d, i)
  PROVE  Row(d, page, r, Moment(d, i)) \in RowsOf(d, page)
<1> DEFINE RowsOfMessage(j) == {Row(d, page, q, Moment(d, j)) : q \in RegionsOf(d, j)}
<1>1. Row(d, page, r, Moment(d, i)) \in RowsOfMessage(i)
  OBVIOUS
<1>2. i \in {j \in page : IsHazard(d, j)}
  OBVIOUS
<1>3. RowsOf(d, page) = UNION {RowsOfMessage(j) : j \in {k \in page : IsHazard(d, k)}}
  BY Zenon DEF RowsOf
<1> HIDE DEF RowsOfMessage
<1> QED
  BY <1>1, <1>2, <1>3, Zenon

(***************************************************************************)
(* The types.                                                              *)
(***************************************************************************)
\* Counts and rows are about messages that were sent.
Told ==
  /\ \A d \in 1..Days : Len(feed[d]) <= MaxSent
  /\ pc = "page" => total >= 1 /\ total <= Len(feed[day])
  /\ \A d \in 1..Days, p \in Pages : seen[d][p] <= Len(feed[d])
  /\ \A r \in events : r.of[2] \in DOMAIN feed[r.of[1]]

FeedInv == TypeOK /\ Told

\* Messages are only added, at the end of today's.
LEMMA SentAtTheEnd ==
  ASSUME FeedInv, Send
  PROVE  \E m \in Messages :
           /\ feed' = [feed EXCEPT ![today] = Append(@, m)]
           /\ second' = m.at
           /\ Len(feed[today]) < MaxSent
<1>1. PICK c \in Contents, later \in {0, 1} :
        /\ second' = second + later
        /\ feed' = [feed EXCEPT ![today] = Append(@, [content |-> c, at |-> second'])]
  BY DEF Send
<1>2. second' \in Nat
  BY <1>1 DEF FeedInv, TypeOK
<1> DEFINE m == [content |-> c, at |-> second']
<1>3. m \in Messages /\ m.at = second'
  BY <1>2 DEF Messages
<1>4. feed' = [feed EXCEPT ![today] = Append(@, m)]
  BY <1>1
<1> HIDE DEF m
<1> QED
  BY <1>3, <1>4 DEF Send

LEMMA FeedGrows ==
  ASSUME FeedInv, [Next]_vars, NEW d \in 1..Days
  PROVE  /\ Feeds'
         /\ Len(feed[d]) <= Len(feed'[d]) /\ Len(feed'[d]) <= MaxSent
         /\ DOMAIN feed[d] \subseteq DOMAIN feed'[d]
         /\ \A i \in DOMAIN feed[d] : feed'[d][i] = feed[d][i]
         /\ feed' = feed \/ Send
<1>0. Feeds /\ today \in 1..Days /\ feed[d] \in Seq(Messages)
      /\ Len(feed[d]) <= MaxSent /\ Len(feed[d]) \in Nat
  <2>1. Feeds /\ today \in 1..Days /\ Len(feed[d]) <= MaxSent
    BY DEF FeedInv, TypeOK, Told, Feeds, Messages
  <2> QED
    BY <2>1, FeedOfDay
<1>1. CASE Send
  <2>1. PICK m \in Messages :
          /\ feed' = [feed EXCEPT ![today] = Append(@, m)]
          /\ Len(feed[today]) < MaxSent
    BY <1>1, SentAtTheEnd
  <2>2. Feeds'
    BY <1>0, <2>1 DEF Feeds
  <2>3. CASE d = today
    <3>1. feed'[d] = Append(feed[d], m)
      BY <1>0, <2>1, <2>3 DEF Feeds
    <3> QED
      BY <1>0, <1>1, <2>1, <2>2, <2>3, <3>1, FeedAssumption
  <2>4. CASE d # today
    BY <1>0, <1>1, <2>1, <2>2, <2>4 DEF Feeds
  <2> QED
    BY <2>3, <2>4
<1>2. CASE feed' = feed
  BY <1>0, <1>2 DEF Feeds
<1> QED
  BY <1>1, <1>2 DEF Next, FetchStep, StartFetch, Count, ReadPage, Fail, Midnight, vars

LEMMA FeedInit == Init => FeedInv
<1> SUFFICES ASSUME Init PROVE FeedInv
  OBVIOUS
<1>1. /\ feed = [d \in 1..Days |-> <<>>] /\ <<>> \in Seq(Messages)
      /\ \A d \in 1..Days : Len(feed[d]) = 0
  BY DEF Init
<1>2. Feeds
  BY <1>1 DEF Feeds
<1> QED
  BY <1>1, <1>2, FeedAssumption DEF Init, FeedInv, TypeOK, Told, Feeds, Messages, Pages

\* The rows that a page adds.
LEMMA PageRead ==
  ASSUME FeedInv, ReadPage
  PROVE  /\ feed' = feed /\ day \in 1..Days /\ total \in 1..Len(feed[day])
         /\ events' = events \cup {r \in RowsOf(day, OnPage(day, LastPage(total))) :
                                     ~Stored(events, r.region, r.at)}
         /\ \A row \in RowsOf(day, OnPage(day, LastPage(total))) :
              \E r \in Regions, at \in Moments :
                /\ row = Row(day, OnPage(day, LastPage(total)), r, at)
                /\ First(day, OnPage(day, LastPage(total)), r, at)
                     \in SentTo(day, OnPage(day, LastPage(total)), r, at)
         /\ \A d \in 1..Days, p \in Pages :
              \/ seen'[d][p] = seen[d][p]
              \/ d = day /\ p = LastPage(total) /\ seen'[d][p] = total
         /\ seen' \in [1..Days -> [Pages -> 0..MaxSent]]
<1>0. Feeds /\ reads \in 0..MaxReads /\ day \in 1..Days /\ Len(feed[day]) <= MaxSent
  BY DEF FeedInv, TypeOK, Told, Feeds, Messages
<1>1. /\ Feeds /\ reads \in Nat /\ Len(feed[day]) <= MaxSent
      /\ day \in 1..Days /\ total \in 0..MaxSent /\ feed' = feed
      /\ seen \in [1..Days -> [Pages -> 0..MaxSent]]
      /\ total >= 1 /\ total <= Len(feed[day])
  BY <1>0, FeedAssumption DEF FeedInv, TypeOK, Told, ReadPage
<1>2. total \in 1..Len(feed[day])
  BY <1>1, FeedOfDay, FeedAssumption
<1>3. seen' = [seen EXCEPT ![day][LastPage(total)] = total]
  BY DEF ReadPage
<1>4. /\ \A d \in 1..Days, p \in Pages :
           \/ seen'[d][p] = seen[d][p]
           \/ d = day /\ p = LastPage(total) /\ seen'[d][p] = total
      /\ seen' \in [1..Days -> [Pages -> 0..MaxSent]]
  BY <1>1, <1>3
<1>5. OnPage(day, LastPage(total)) \in SUBSET (DOMAIN feed[day])
  BY DEF OnPage
<1>6. events' = events \cup {r \in RowsOf(day, OnPage(day, LastPage(total))) :
                               ~Stored(events, r.region, r.at)}
  BY DEF ReadPage
<1> QED
  BY <1>1, <1>2, <1>4, <1>5, <1>6, RowsOfPage

LEMMA FeedStep == FeedInv /\ [Next]_vars => FeedInv'
<1> SUFFICES ASSUME FeedInv, [Next]_vars PROVE FeedInv'
  OBVIOUS
<1>0. /\ TypeOK /\ Feeds /\ day \in 1..Days /\ today \in 1..Days
      /\ \A d \in 1..Days : feed[d] \in Seq(Messages) /\ Len(feed[d]) \in Nat
  BY FeedOfDay DEF FeedInv, TypeOK, Feeds, Messages
<1>1. /\ feed' \in [1..Days -> Seq(Messages)]
      /\ \A d \in 1..Days : /\ Len(feed[d]) <= Len(feed'[d]) /\ Len(feed'[d]) <= MaxSent
                            /\ DOMAIN feed[d] \subseteq DOMAIN feed'[d]
  BY <1>0, FeedGrows DEF Feeds
<1>2. \A d \in 1..Days : Len(feed'[d]) \in Nat
  BY <1>1
<1>3. CASE UNCHANGED <<events, seen>>
  <2>1. /\ today' \in 1..Days /\ day' \in 1..Days /\ second' \in Nat
        /\ pc' \in {"idle", "count", "page"}
        /\ total' \in 0..MaxSent /\ recent' \in 0..Burst /\ failures' \in 0..MaxFailures
        /\ reads' \in 0..MaxReads
        /\ pc' = "page" => total' >= 1 /\ total' <= Len(feed'[day'])
    <3>1. CASE Send
      <4>1. PICK m \in Messages : second' = m.at
        BY <3>1, SentAtTheEnd
      <4>2. second' \in Nat
        BY <4>1 DEF Messages
      <4>3. /\ recent' = recent + 1 /\ recent < Burst
            /\ UNCHANGED <<today, pc, day, total, reads, failures>>
        BY <3>1 DEF Send, fetchVars
      <4>4. pc = "page" => total <= Len(feed[day])
        BY DEF FeedInv, Told
      <4> QED
        BY <1>0, <1>1, <1>2, <4>2, <4>3, <4>4, FeedAssumption DEF FeedInv, Told, TypeOK
    <3>2. CASE Midnight
      BY <1>0, <3>2, FeedAssumption DEF Midnight, fetchVars, FeedInv, TypeOK, Told
    <3>3. CASE StartFetch
      BY <1>0, <3>3, FeedAssumption DEF StartFetch, Today, TypeOK
    <3>4. CASE Count
      <4>1. /\ total' = Len(feed[day]) /\ feed' = feed
            /\ pc' = IF total' = 0 THEN "idle" ELSE "page"
            /\ UNCHANGED <<today, second, day, reads, recent, failures>>
        BY <3>4 DEF Count
      <4>2. Len(feed[day]) \in 0..MaxSent
        BY <1>0, FeedAssumption DEF FeedInv, Told
      <4> QED
        BY <1>0, <4>1, <4>2 DEF TypeOK
    <3>5. CASE Fail
      BY <1>0, <3>5, FeedAssumption DEF Fail, TypeOK
    <3>6. CASE UNCHANGED vars
      BY <1>0, <3>6 DEF vars, fetchVars, FeedInv, TypeOK, Told
    <3>7. CASE ReadPage
      BY <1>0, <3>7, FeedAssumption DEF ReadPage, TypeOK
    <3> QED
      BY <3>1, <3>2, <3>3, <3>4, <3>5, <3>6, <3>7 DEF Next, FetchStep
  <2>2. /\ events' \subseteq RowType /\ seen' \in [1..Days -> [Pages -> 0..MaxSent]]
    BY <1>3 DEF FeedInv, TypeOK
  <2>3. \A d \in 1..Days, p \in Pages : seen'[d][p] <= Len(feed'[d])
    <3> SUFFICES ASSUME NEW d \in 1..Days, NEW p \in Pages PROVE seen'[d][p] <= Len(feed'[d])
      OBVIOUS
    <3>1. seen'[d][p] = seen[d][p] /\ seen[d][p] \in 0..MaxSent /\ seen[d][p] <= Len(feed[d])
      BY <1>3 DEF FeedInv, TypeOK, Told
    <3> QED
      BY <1>0, <1>1, <1>2, <3>1
  <2>4. \A r \in events' : r.of[2] \in DOMAIN feed'[r.of[1]]
    <3> SUFFICES ASSUME NEW r \in events PROVE r.of[2] \in DOMAIN feed'[r.of[1]]
      BY <1>3
    <3>1. r.of[1] \in 1..Days /\ r.of[2] \in DOMAIN feed[r.of[1]]
      BY DEF FeedInv, TypeOK, Told, RowType
    <3> QED
      BY <1>1, <3>1
  <2> QED
    BY <1>1, <2>1, <2>2, <2>3, <2>4 DEF FeedInv, TypeOK, Told, Messages
<1>4. CASE ReadPage
  <2> DEFINE page == OnPage(day, LastPage(total))
             Added == {r \in RowsOf(day, page) : ~Stored(events, r.region, r.at)}
  <2>1. /\ feed' = feed /\ total \in 1..Len(feed[day]) /\ events' = events \cup Added
        /\ \A d \in 1..Days, p \in Pages :
             \/ seen'[d][p] = seen[d][p]
             \/ d = day /\ p = LastPage(total) /\ seen'[d][p] = total
        /\ seen' \in [1..Days -> [Pages -> 0..MaxSent]]
    BY <1>4, PageRead
  <2>2. ASSUME NEW row \in RowsOf(day, page)
        PROVE  row \in RowType /\ row.of[2] \in DOMAIN feed[row.of[1]]
    <3>1. PICK r \in Regions, at \in Moments :
            row = Row(day, page, r, at) /\ First(day, page, r, at) \in SentTo(day, page, r, at)
      BY <1>4, PageRead
    <3> DEFINE i == First(day, page, r, at)
    <3>2. i \in DOMAIN feed[day]
      BY <3>1 DEF SentTo, OnPage
    <3>3. i \in 1..MaxSent
      BY <1>0, <1>1, <1>2, <2>1, <3>2, FeedAssumption
    <3>4. row = [region |-> r, at |-> at, of |-> <<day, i>>]
      BY <3>1 DEF Row
    <3> HIDE DEF i
    <3> QED
      BY <1>0, <3>2, <3>3, <3>4 DEF RowType
  <2>3. events' \subseteq RowType /\ \A r \in events' : r.of[2] \in DOMAIN feed'[r.of[1]]
    BY <2>1, <2>2 DEF FeedInv, TypeOK, Told
  <2>4. \A d \in 1..Days, p \in Pages : seen'[d][p] <= Len(feed'[d])
    BY <2>1 DEF FeedInv, Told
  <2>5. /\ today' \in 1..Days /\ second' \in Nat /\ day' \in 1..Days
        /\ pc' = "idle" /\ total' \in 0..MaxSent /\ recent' \in 0..Burst
        /\ failures' \in 0..MaxFailures /\ reads' \in 0..MaxReads
    BY <1>0, <1>4, FeedAssumption DEF ReadPage, TypeOK
  <2> HIDE DEF page, Added
  <2>6. TypeOK'
    BY <1>1, <2>1, <2>3, <2>5 DEF TypeOK, Messages
  <2>7. Told'
    BY <1>1, <2>3, <2>4, <2>5 DEF Told
  <2> QED
    BY <2>6, <2>7 DEF FeedInv
<1> QED
  BY <1>3, <1>4 DEF Next, FetchStep, Send, Midnight, StartFetch, Count, Fail, vars

\* The types hold in every state: a row names a message that was sent and a
\* region that a message may be sent to.
THEOREM TypeCorrect == Spec => []TypeOK
<1>1. FeedInv => TypeOK
  BY DEF FeedInv
<1> QED
  BY <1>1, FeedInit, FeedStep, PTL DEF Spec

(***************************************************************************)
(* What a row tells of its message.                                        *)
(***************************************************************************)
\* A row is about a hazard sent to its region.  It has the second of a message
\* that is dated; the moment of another names the message.
OfItsMessage(row, m) ==
  /\ m.content.hazard /\ row.region \in m.content.regions
  /\ m.content.dated => row.at = <<m.at, 0, 0>>
  /\ ~m.content.dated => row.at[2] = row.of[1] /\ row.at[3] = row.of[2]

RowsDated == \A row \in events : OfItsMessage(row, feed[row.of[1]][row.of[2]])

\* What a page adds is such a row.
LEMMA AddedDated ==
  ASSUME FeedInv, ReadPage, NEW row \in RowsOf(day, OnPage(day, LastPage(total)))
  PROVE  OfItsMessage(row, feed[row.of[1]][row.of[2]])
<1> DEFINE page == OnPage(day, LastPage(total))
<1>1. PICK r \in Regions, at \in Moments :
        row = Row(day, page, r, at) /\ First(day, page, r, at) \in SentTo(day, page, r, at)
  BY PageRead
<1> DEFINE i == First(day, page, r, at)
           m == feed[day][i]
<1>2. i \in DOMAIN feed[day] /\ IsHazard(day, i) /\ r \in RegionsOf(day, i) /\ Moment(day, i) = at
  BY <1>1 DEF SentTo, OnPage
<1>3. /\ m.content.dated => at = <<m.at, 0, 0>>
      /\ ~m.content.dated => at = <<reads, day, i>>
  BY <1>2 DEF Moment, SentAt
<1>4. row.region = r /\ row.at = at /\ row.of[1] = day /\ row.of[2] = i
  BY <1>1 DEF Row
<1>5. m.content.hazard /\ r \in m.content.regions
  BY <1>2 DEF IsHazard, RegionsOf
<1>6. ~m.content.dated => at[2] = day /\ at[3] = i
  BY <1>3
<1> HIDE DEF i, page
<1> QED
  BY <1>3, <1>4, <1>5, <1>6 DEF OfItsMessage

LEMMA DatedStep == FeedInv /\ RowsDated /\ [Next]_vars => RowsDated'
<1> SUFFICES ASSUME FeedInv, RowsDated, [Next]_vars, NEW row \in events'
             PROVE  OfItsMessage(row, feed'[row.of[1]][row.of[2]])
  BY DEF RowsDated, OfItsMessage
<1>1. CASE row \in events
  <2>1. row.of[1] \in 1..Days /\ row.of[2] \in DOMAIN feed[row.of[1]]
    BY <1>1 DEF FeedInv, TypeOK, Told, RowType
  <2>2. feed'[row.of[1]][row.of[2]] = feed[row.of[1]][row.of[2]]
    BY <2>1, FeedGrows
  <2> QED
    BY <1>1, <2>2 DEF RowsDated
<1>2. CASE row \notin events
  <2>1. ReadPage
    BY <1>2 DEF Next, FetchStep, Send, Midnight, StartFetch, Count, Fail, vars
  <2>2. feed' = feed /\ row \in RowsOf(day, OnPage(day, LastPage(total)))
    BY <1>2, <2>1, PageRead
  <2> QED
    BY <2>1, <2>2, AddedDated
<1> QED
  BY <1>1, <1>2

\* A row whose moment names a message is that message's.
LEMMA NamedByMoment ==
  ASSUME FeedInv, NEW row \in RowType, OfItsMessage(row, feed[row.of[1]][row.of[2]]),
         NEW n, NEW d \in 1..Days, NEW i \in Nat \ {0}, row.at = <<n, d, i>>
  PROVE  row.of = <<d, i>>
<1> DEFINE m == feed[row.of[1]][row.of[2]]
<1>1. row.at[2] = d /\ row.at[3] = i
  OBVIOUS
<1>2. ~m.content.dated
  <2> SUFFICES ASSUME m.content.dated PROVE FALSE
    OBVIOUS
  <2>1. row.at = <<m.at, 0, 0>>
    BY DEF OfItsMessage
  <2>2. row.at[3] = 0
    BY <2>1
  <2> QED
    BY <1>1, <2>2
<1>3. row.of[1] = d /\ row.of[2] = i
  BY <1>1, <1>2 DEF OfItsMessage
<1> HIDE DEF m
<1>4. row.of \in (1..Days) \X (1..MaxSent)
  BY DEF RowType
<1> QED
  BY <1>3, <1>4

(***************************************************************************)
(* What was seen is stored.                                                *)
(***************************************************************************)
\* A row answers for message i in region r.
AnswersFor(rows, m, d, i, r) ==
  IF m.content.dated THEN Stored(rows, r, <<m.at, 0, 0>>)
                     ELSE \E row \in rows : row.region = r /\ row.of = <<d, i>>

LEMMA SeenStep == FeedInv /\ RowsDated /\ SeenIsStored /\ [Next]_vars => SeenIsStored'
<1> SUFFICES ASSUME FeedInv, RowsDated, SeenIsStored, [Next]_vars,
                    NEW d \in 1..Days, NEW p \in Pages, NEW i \in DOMAIN feed'[d],
                    feed'[d][i].content.hazard,
                    (p - 1) * PageSize < i, i <= seen'[d][p],
                    NEW r \in feed'[d][i].content.regions
             PROVE  AnswersFor(events', feed'[d][i], d, i, r)
  BY DEF SeenIsStored, IsStored, Stored, AnswersFor, SentAt
<1>0. /\ Feeds /\ seen[d][p] \in Nat /\ seen[d][p] <= Len(feed[d])
      /\ Len(feed[d]) \in Nat /\ DOMAIN feed[d] = 1..Len(feed[d])
      /\ Feeds' /\ DOMAIN feed'[d] = 1..Len(feed'[d]) /\ Len(feed'[d]) \in Nat
      /\ \A j \in DOMAIN feed[d] : feed'[d][j] = feed[d][j]
  <2>1. Feeds /\ seen[d][p] \in Nat /\ seen[d][p] <= Len(feed[d])
    <3>1. Feeds /\ seen[d][p] \in 0..MaxSent
      BY DEF FeedInv, TypeOK, Feeds, Messages
    <3> QED
      BY <3>1, FeedAssumption DEF FeedInv, Told
  <2>2. Feeds' /\ \A j \in DOMAIN feed[d] : feed'[d][j] = feed[d][j]
    BY FeedGrows
  <2>3. feed'[d] \in Seq(Messages)
    BY <2>2 DEF Feeds
  <2> QED
    BY <2>1, <2>2, <2>3, FeedOfDay
<1>1. ASSUME seen'[d][p] = seen[d][p], events \subseteq events'
      PROVE  AnswersFor(events', feed'[d][i], d, i, r)
  <2>1. i \in DOMAIN feed[d] /\ feed'[d][i] = feed[d][i] /\ i <= seen[d][p]
    BY <1>0, <1>1
  <2>2. AnswersFor(events, feed[d][i], d, i, r)
    <3>1. IsStored(d, i)
      BY <2>1 DEF SeenIsStored
    <3> QED
      BY <2>1, <3>1 DEF IsStored, AnswersFor, SentAt
  <2> QED
    BY <1>1, <2>1, <2>2 DEF AnswersFor, Stored
<1>2. CASE ReadPage
  <2> DEFINE page == OnPage(day, LastPage(total))
             row == Row(day, page, r, Moment(day, i))
  <2>1. /\ feed' = feed /\ total \in 1..Len(feed[day])
        /\ events' = events \cup {s \in RowsOf(day, page) : ~Stored(events, s.region, s.at)}
        /\ \/ seen'[d][p] = seen[d][p]
           \/ d = day /\ p = LastPage(total) /\ seen'[d][p] = total
    BY <1>2, PageRead
  <2>2. CASE seen'[d][p] = seen[d][p]
    BY <1>1, <2>1, <2>2
  <2>3. CASE d = day /\ p = LastPage(total) /\ seen'[d][p] = total
    <3>1. i \in page /\ i \in Nat \ {0}
      <4>1. i \in Nat /\ i <= total /\ total \in Nat /\ i \in DOMAIN feed[day] /\ i # 0
        BY <1>0, <2>1, <2>3
      <4>2. LastPage(total) \in Nat /\ total <= LastPage(total) * PageSize
        BY <4>1, LastPageEnds
      <4>3. i <= LastPage(total) * PageSize
        BY <4>1, <4>2, FeedAssumption
      <4> QED
        BY <2>3, <4>1, <4>3 DEF OnPage
    <3>2. row \in RowsOf(day, page)
      BY <2>1, <2>3, <3>1, HazardHasRow DEF IsHazard, RegionsOf
    <3>3. row.region = r /\ row.at = Moment(day, i)
      BY DEF Row
    <3>4. Stored(events', r, Moment(day, i))
      <4> HIDE DEF row, page
      <4> QED
        BY <2>1, <3>2, <3>3 DEF Stored
    <3>5. CASE feed[day][i].content.dated
      BY <2>1, <2>3, <3>4, <3>5 DEF AnswersFor, Moment, SentAt
    <3>6. CASE ~feed[day][i].content.dated
      <4>1. PICK q \in events' : q.region = r /\ q.at = <<reads, day, i>>
        BY <3>4, <3>6 DEF Stored, Moment
      <4>2. q \in RowType /\ OfItsMessage(q, feed[q.of[1]][q.of[2]])
        <5>1. RowsDated' /\ FeedInv'
          BY DatedStep, FeedStep
        <5> QED
          BY <2>1, <5>1 DEF RowsDated, FeedInv, TypeOK
      <4>3. q.of = <<day, i>>
        BY <2>3, <3>1, <4>1, <4>2, NamedByMoment
      <4> QED
        BY <2>1, <2>3, <3>6, <4>1, <4>3 DEF AnswersFor
    <3> QED
      BY <3>5, <3>6
  <2> QED
    BY <2>1, <2>2, <2>3
<1>3. CASE UNCHANGED <<events, seen>>
  BY <1>1, <1>3
<1> QED
  BY <1>2, <1>3 DEF Next, FetchStep, Send, Midnight, StartFetch, Count, Fail, vars

LEMMA DatedInit == Init => RowsDated
  BY DEF Init, RowsDated

\* Whatever is sent between the two calls of a fetch and wherever the pages end:
\* a hazard that the fetch was told of and that is on the page it reads is
\* stored for each of its regions, and stays so.
THEOREM SeenIsStoredHolds == Spec => []SeenIsStored
<1>1. Init => SeenIsStored
  <2> SUFFICES ASSUME Init, NEW d \in 1..Days PROVE DOMAIN feed[d] = {}
    BY DEF SeenIsStored
  <2>1. feed[d] = <<>>
    BY DEF Init
  <2> QED
    BY <2>1
<1> QED
  BY <1>1, FeedInit, DatedInit, FeedStep, DatedStep, SeenStep, PTL DEF Spec

\* Only hazards are stored, each for a region it was sent to; a message whose
\* time can be read is one row of the region however often its page is read.
THEOREM EachHazardOnceHolds == Spec => []EachHazardOnce
<1>1. FeedInv /\ RowsDated => EachHazardOnce
  <2> SUFFICES ASSUME FeedInv, RowsDated PROVE EachHazardOnce
    OBVIOUS
  <2>1. ASSUME NEW row \in events, NEW other \in events,
               row.of = other.of, row.region = other.region,
               feed[row.of[1]][row.of[2]].content.dated
        PROVE  row = other
    <3>1. row.at = other.at
      BY <2>1 DEF RowsDated, OfItsMessage
    <3>2. row \in RowType /\ other \in RowType
      BY DEF FeedInv, TypeOK
    <3> QED
      BY <2>1, <3>1, <3>2 DEF RowType
  <2>2. \A row \in events :
          LET m == feed[row.of[1]][row.of[2]]
          IN  m.content.hazard /\ row.region \in m.content.regions
    BY DEF RowsDated, OfItsMessage
  <2> QED
    BY <2>1, <2>2 DEF EachHazardOnce
<1> QED
  BY <1>1, FeedInit, DatedInit, FeedStep, DatedStep, PTL DEF Spec
=============================================================================
