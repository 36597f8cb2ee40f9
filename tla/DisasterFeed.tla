---------------------------- MODULE DisasterFeed ----------------------------
(***************************************************************************)
(* The emergency messages of a day, as app/ingestion/safety_disaster.py    *)
(* reads them: one call for the number of today's messages, one for the    *)
(* last page (the feed is in the order of sending), then one event per     *)
(* region of every message that is not denylisted.  Messages are sent      *)
(* while a fetch runs and midnight passes; a failed call ends the fetch.   *)
(*                                                                         *)
(* A message is dated by CRT_DT, the second it was sent in; when that does *)
(* not parse it is dated by the moment it is read.  _store_event merges    *)
(* what has one region and one moment (module AlertPipeline has its        *)
(* races); here the rows of a fetch are stored at once, in the order of    *)
(* the feed.  A row's raw_payload keeps the SN, so it names its message.   *)
(***************************************************************************)
EXTENDS Naturals, Sequences, FiniteSets

CONSTANTS
  PageSize,      \* PAGE_SIZE
  Contents,      \* what may be sent: [hazard, dated : BOOLEAN, regions : a set],
                 \* dated when its CRT_DT parses
  Days,          \* bound: the days of a behaviour are 1..Days
  MaxSent,       \* bound: messages a day
  Burst,         \* most messages sent between two fetches that succeed
  MaxFailures,   \* bound: failed fetches
  MaxReads       \* bound: moments of reading told apart; later ones are as the
                 \* last

Regions == UNION {c.regions : c \in Contents}

ASSUME FeedAssumption ==
  /\ PageSize \in Nat \ {0} /\ Days \in Nat \ {0}
  /\ MaxSent \in Nat /\ Burst \in Nat /\ MaxFailures \in Nat /\ MaxReads \in Nat
  /\ \A c \in Contents : /\ DOMAIN c = {"hazard", "dated", "regions"}
                         /\ c.hazard \in BOOLEAN /\ c.dated \in BOOLEAN

VARIABLES
  feed,       \* a day's messages in the order of sending: content and second
  today,      \* the day it is in Korea
  second,     \* the second in which the latest message was sent
  pc, day,    \* where a fetch is, and the day it asks for
  total,      \* the number of messages it was told of
  reads,      \* the moment of reading: how many pages were read before
  events,     \* the rows stored: [region, at, of], of the message <<day, i>>
  seen,       \* history: how many messages a page of a day had when fetched
  recent,     \* history: messages sent since the last fetch that succeeded
  failures    \* history: failed fetches so far

fetchVars == <<pc, day, total, reads>>
vars == <<feed, today, second, fetchVars, events, seen, recent, failures>>

Pages == 0..MaxSent

Init ==
  /\ feed = [d \in 1..Days |-> <<>>]
  /\ today = 1 /\ second = 0
  /\ pc = "idle" /\ day = 1 /\ total = 0 /\ reads = 0
  /\ events = {}
  /\ seen = [d \in 1..Days |-> [p \in Pages |-> 0]]
  /\ recent = 0 /\ failures = 0

(***************************************************************************)
(* The platform.                                                           *)
(***************************************************************************)
\* A message is sent, perhaps in the second of the one before.  The clock is
\* not looked at where no time can be read.
Send ==
  /\ Len(feed[today]) < MaxSent /\ recent < Burst
  /\ \E c \in Contents, later \in {0, 1} :
       /\ c.dated \/ later = 0
       /\ second' = second + later
       /\ feed' = [feed EXCEPT ![today] = Append(@, [content |-> c, at |-> second'])]
  /\ recent' = recent + 1
  /\ UNCHANGED <<today, fetchVars, events, seen, failures>>

Midnight ==
  /\ today < Days
  /\ today' = today + 1 /\ second' = second + 1
  /\ UNCHANGED <<feed, fetchVars, events, seen, recent, failures>>

(***************************************************************************)
(* _fetch_live.                                                            *)
(***************************************************************************)
\* Mutant: the day is that of the process's start.
FirstDay == 1

Today == today

StartFetch ==
  /\ pc = "idle"
  /\ pc' = "count" /\ day' = Today
  /\ UNCHANGED <<feed, today, second, total, reads, events, seen, recent, failures>>

\* Mutant: the division is not rounded up.
PageBefore(n) == n \div PageSize

LastPage(n) == (n + PageSize - 1) \div PageSize

Count ==
  /\ pc = "count"
  /\ total' = Len(feed[day])
  /\ pc' = IF total' = 0 THEN "idle" ELSE "page"
  /\ UNCHANGED <<feed, today, second, day, reads, events, seen, recent, failures>>

OnPage(d, p) ==
  {i \in DOMAIN feed[d] : (p - 1) * PageSize < i /\ i <= p * PageSize}

\* Mutant: nothing is denylisted.
AllHazards(d, i) == TRUE

IsHazard(d, i) == feed[d][i].content.hazard

SentAt(d, i) == <<feed[d][i].at, 0, 0>>

\* Mutant: a message is dated by the moment it is read, always.
MomentOfReading(d, i) == <<reads, d, i>>

\* occurred_at: the second of CRT_DT, or now() in the middle of the read.
Moment(d, i) == IF feed[d][i].content.dated THEN SentAt(d, i) ELSE <<reads, d, i>>

\* What _store_event compares: a region's messages of one moment are one.
Stored(rows, region, at) == \E r \in rows : r.region = region /\ r.at = at

\* Mutant: the names are not split at the commas.
Unsplit(d, i) == {"north,south"}

RegionsOf(d, i) == feed[d][i].content.regions

\* The messages of a page that _store_event takes for one event, and the first
\* of them, whose row is kept.
SentTo(d, page, r, at) ==
  {i \in page : IsHazard(d, i) /\ r \in RegionsOf(d, i) /\ Moment(d, i) = at}

First(d, page, r, at) ==
  CHOOSE i \in SentTo(d, page, r, at) : \A j \in SentTo(d, page, r, at) : i <= j

Row(d, page, r, at) ==
  [region |-> r, at |-> at, of |-> <<d, First(d, page, r, at)>>]

RowsOf(d, page) ==
  UNION {{Row(d, page, r, Moment(d, i)) : r \in RegionsOf(d, i)} :
           i \in {j \in page : IsHazard(d, j)}}

ReadPage ==
  /\ pc = "page"
  /\ LET p == LastPage(total)
     IN  /\ events' = events \cup {r \in RowsOf(day, OnPage(day, p)) :
                                     ~Stored(events, r.region, r.at)}
         /\ seen' = [seen EXCEPT ![day][p] = total]
  /\ reads' = IF reads < MaxReads THEN reads + 1 ELSE reads
  /\ recent' = 0
  /\ pc' = "idle" /\ total' = 0
  /\ UNCHANGED <<feed, today, second, day, failures>>

Fail ==
  /\ pc \in {"count", "page"} /\ failures < MaxFailures
  /\ failures' = failures + 1
  /\ pc' = "idle" /\ total' = 0
  /\ UNCHANGED <<feed, today, second, day, reads, events, seen, recent>>

FetchStep == StartFetch \/ Count \/ ReadPage

Next == Send \/ Midnight \/ FetchStep \/ Fail

Spec == Init /\ [][Next]_vars

\* The scheduler starts a fetch every ten minutes and a call is answered.
FairSpec == Spec /\ WF_vars(FetchStep)

(***************************************************************************)
(* Properties.                                                             *)
(***************************************************************************)
Moments == Nat \X (0..Days) \X (0..MaxSent)

RowType == [region : Regions, at : Moments, of : (1..Days) \X (1..MaxSent)]

\* The feed, the fetch and the rows have their types.
TypeOK ==
  /\ feed \in [1..Days -> Seq([content : Contents, at : Nat])]
  /\ today \in 1..Days /\ day \in 1..Days /\ second \in Nat
  /\ pc \in {"idle", "count", "page"}
  /\ total \in 0..MaxSent /\ recent \in 0..Burst /\ failures \in 0..MaxFailures
  /\ reads \in 0..MaxReads
  /\ events \subseteq RowType
  /\ seen \in [1..Days -> [Pages -> 0..MaxSent]]

\* The regions of message i of day d have its alarm: a row of its second, or a
\* row of its own when it has no readable second.
IsStored(d, i) ==
  \A r \in feed[d][i].content.regions :
    IF feed[d][i].content.dated
      THEN Stored(events, r, SentAt(d, i))
      ELSE \E row \in events : row.region = r /\ row.of = <<d, i>>

\* Every hazard that a page had when it was last fetched is stored, for every
\* region it was sent to: messages that arrive between the two calls, and
\* the page boundary, cost nothing that the fetch was told of.
SeenIsStored ==
  \A d \in 1..Days, p \in Pages : \A i \in DOMAIN feed[d] :
    /\ feed[d][i].content.hazard
    /\ (p - 1) * PageSize < i /\ i <= seen[d][p]
    => IsStored(d, i)

\* Only hazards become events, for the regions they were sent to; and however
\* often a page is read again, as it grows and over failures, a message whose
\* time can be read becomes one event for each of them.
EachHazardOnce ==
  /\ \A row \in events :
       LET m == feed[row.of[1]][row.of[2]]
       IN  m.content.hazard /\ row.region \in m.content.regions
  /\ \A row, other \in events :
       /\ row.of = other.of /\ row.region = other.region
       /\ feed[row.of[1]][row.of[2]].content.dated
       => row = other

\* When the messages of a day stop and the day lasts, its last page is stored
\* in the end, over failed fetches and after any midnight.
LastPageEventuallyStored ==
  <>[](\A i \in OnPage(today, LastPage(Len(feed[today]))) :
         feed[today][i].content.hazard => IsStored(today, i))

\* As long as at most a page of messages is sent between two fetches, every
\* hazard counted so far is stored.
PageIsEnough ==
  \A d \in 1..Days : \A i \in DOMAIN feed[d] :
    /\ feed[d][i].content.hazard
    /\ \E p \in Pages : i <= seen[d][p]
    => IsStored(d, i)

\* Two hazards are never stored as one.
DistinctMessagesKept ==
  \A d \in 1..Days, p \in Pages : \A i \in DOMAIN feed[d] :
    /\ feed[d][i].content.hazard
    /\ (p - 1) * PageSize < i /\ i <= seen[d][p]
    => \A r \in feed[d][i].content.regions :
         \E row \in events : row.region = r /\ row.of = <<d, i>>
=============================================================================
