--------------------------- MODULE PolledSources ---------------------------
(***************************************************************************)
(* The three sources that are polled for a state of affairs:               *)
(*   kma_warning     the newest bulletin lists every warning in force,     *)
(*   kma_earthquake  the reports of the last days,                         *)
(*   hrfco_flood     one call for the list of stations and their           *)
(*                   thresholds, one per station for its newest level;     *)
(* app/ingestion/kma_warnings.py, kma_earthquake.py, hrfco_flood.py and    *)
(* base.py, with the storing of what they yield (services/ingest.py).      *)
(* The services are external.  They go on while a fetch runs; a call that  *)
(* fails ends it, and nothing it had read is kept.                         *)
(*                                                                         *)
(* The clients do not meet (AlertPipeline has one cycle run them in turn), *)
(* so a behaviour follows one of them.  Time is in slots; a day has        *)
(* DayLength slots, and a bulletin or a level is dated by its slot.        *)
(***************************************************************************)
EXTENDS RateLimiter, FiniteSets

CONSTANTS
  Clients,       \* which clients behaviours follow
  LatestSlot,    \* bound: the last slot of a behaviour
  LastSlot,      \* the same for each client
  DayLength, WarningDays, QuakeDays, LevelSlots,  \* how far a fetch looks back
  PageSize,      \* numOfRows
  Areas,         \* forecast zones of a province
  TypeOf,        \* _WARNING_TYPE_MAP: kind of warning to event type
  Snapshots,     \* what may be in force: sets of [kind, severity, area]
  Excepted,      \* zones that a line names as excepted when it does not hold there
  Magnitudes,    \* of the reports on one earthquake
  Stations,      \* MONITORED_STATIONS, a sequence
  RegionOf,      \* where a station is: in a region of its own
  Attention, Warning,  \* thresholds, NoLevel where the list has none
  LevelsAt,      \* the water levels a station may report
  NoLevel,       \* a threshold or a level that is blank
  Unreadable,    \* slots whose reports state their time in an odd form
  MaxFailures    \* bound: how many fetches may fail

Kma == "kma_warning"
Eqk == "kma_earthquake"
Hrfco == "hrfco_flood"
Slots == 0..LatestSlot
StationSet == {Stations[i] : i \in DOMAIN Stations}
Severities == {"ADVISORY", "WARNING"}

ASSUME SourcesAssumption ==
  /\ Clients \subseteq {Kma, Eqk, Hrfco} /\ LatestSlot \in Nat
  /\ LastSlot \in [Clients -> Slots]
  /\ {DayLength, PageSize} \subseteq Nat \ {0}
  /\ {WarningDays, QuakeDays, LevelSlots, MaxFailures} \subseteq Nat
  /\ Unreadable \subseteq Slots
  /\ Excepted \subseteq Areas /\ "all" \notin Areas
  /\ Stations \in Seq(StationSet) /\ StationSet \cap {Kma, Eqk, Hrfco} = {}
  /\ Snapshots \subseteq SUBSET [kind : STRING, severity : Severities, area : Areas]
  /\ LevelsAt \in [StationSet -> SUBSET Nat] /\ NoLevel \notin Nat
  /\ RegionOf \in [StationSet -> Areas]
  /\ \A s, t \in StationSet : RegionOf[s] = RegionOf[t] => s = t
  /\ {Attention, Warning} \subseteq [StationSet -> Nat \cup {NoLevel}]

VARIABLES
  client,      \* the client this behaviour is about
  now,         \* the present slot
  published,   \* what its service has published
  pc,          \* where run_ingestion_cycle is with it
  todo,        \* the calls _fetch_live has yet to make
  rows,        \* the events it has put together and not stored yet
  events,      \* table events
  steady,      \* history: dangers shown ever since the fetch began
  failures     \* history: fetches that failed

vars == <<client, now, published, pc, todo, rows, events, steady, failures,
          limiterVars>>

Row(source, type, severity, region, at) ==
  [source |-> source, type |-> type, severity |-> severity, region |-> region,
   at |-> at]

(***************************************************************************)
(* What the services publish, and what of it a request shows: all reports  *)
(* of the days or slots asked for, newest first; of bulletins and reports  *)
(* on earthquakes at most a page.                                          *)
(***************************************************************************)
HasThreshold(s) == Attention[s] # NoLevel \/ Warning[s] # NoLevel

Publications ==
  CASE client = Kma ->
         [at : {now}, force : Snapshots]
    [] client = Eqk -> [at : {now}, magnitude : Magnitudes]
    [] client = Hrfco ->
         UNION {[at : {now}, station : {s}, level : LevelsAt[s] \cup {NoLevel}] :
                  s \in {s \in StationSet : HasThreshold(s)}}

\* One bulletin a slot and one level per station and slot; an earthquake may
\* be reported again with another magnitude.
IsNew(r) ==
  \A q \in published : q.at = r.at =>
    CASE client = Kma -> FALSE
      [] client = Eqk -> q # r
      [] client = Hrfco -> q.station # r.station

Day(slot) == slot \div DayLength

ShownAt(r, slot) ==
  CASE client = Kma -> Day(r.at) + WarningDays >= Day(slot)
    [] client = Eqk -> Day(r.at) + QuakeDays >= Day(slot)
    [] client = Hrfco -> r.at + LevelSlots >= slot

Shows(r) == ShownAt(r, now)

Page(rs) ==
  {r \in rs : Cardinality({q \in rs : q.at > r.at}) < PageSize}

Shown == {r \in published : Shows(r)}

Items == IF client = Hrfco THEN Shown ELSE Page(Shown)

\* Mutant: the items are taken to be in the order of their times.
Oldest(items) == CHOOSE r \in items : \A q \in items : r.at <= q.at

Latest(items) == CHOOSE r \in items : \A q \in items : q.at <= r.at

\* _parse_tm_fc, _parse_tm_eqk and _parse_ymdhm: a time that does not parse
\* falls back to the moment of the fetch, and again in the next fetch.
Dated(r) == IF r.at \in Unreadable THEN now ELSE r.at

(***************************************************************************)
(* kma_warnings.py.  A line of a bulletin names the zones of the province  *)
(* one by one, or the province alone when the warning holds in all of it;  *)
(* some zones are named as excepted ("... excluded").                      *)
(***************************************************************************)
Lines(b) == {[kind |-> w.kind, severity |-> w.severity] : w \in b.force}

InForce(b, line) ==
  {w.area : w \in {w \in b.force : w.kind = line.kind /\ w.severity = line.severity}}

\* External: the names on a line, with whether they are excepted.
NamesOn(b, line) ==
  IF InForce(b, line) = Areas THEN {}
  ELSE (InForce(b, line) \X {FALSE}) \cup ((Excepted \ InForce(b, line)) \X {TRUE})

\* Mutant: an excepted zone is read like the others.
ParseAll(names) == IF names = {} THEN {"all"} ELSE {n[1] : n \in names}

\* _parse_active_warnings on one line; "all" is sigungu "전체".
ParseLine(names) ==
  IF names = {} THEN {"all"} ELSE {n[1] : n \in {n \in names : ~n[2]}}

ActiveWarnings(b) ==
  UNION {{[kind |-> line.kind, severity |-> line.severity, area |-> a] :
            a \in ParseLine(NamesOn(b, line))} : line \in Lines(b)}

WarningRows ==
  IF Items = {} THEN {}
  ELSE LET latest == Latest(Items)
       IN  {Row(Kma, TypeOf[w.kind], w.severity, w.area, Dated(latest)) :
              w \in {w \in ActiveWarnings(latest) : w.kind \in DOMAIN TypeOf}}

(***************************************************************************)
(* kma_earthquake.py: no province, so no region, and no severity.          *)
(***************************************************************************)
QuakeRows == {Row(Eqk, "earthquake", "none", "none", Dated(r)) : r \in Items}

(***************************************************************************)
(* hrfco_flood.py.                                                         *)
(***************************************************************************)
LevelsOf(s) == {r \in Items : r.station = s /\ r.level # NoLevel}

\* Mutant: below both thresholds a row is made all the same.
SeverityOrNormal(s, level) ==
  IF Warning[s] # NoLevel /\ level >= Warning[s] THEN "WARNING"
  ELSE IF Attention[s] # NoLevel /\ level >= Attention[s] THEN "ADVISORY"
  ELSE "NORMAL"

FloodSeverity(s, level) ==
  IF Warning[s] # NoLevel /\ level >= Warning[s] THEN "WARNING"
  ELSE IF Attention[s] # NoLevel /\ level >= Attention[s] THEN "ADVISORY"
  ELSE "none"

\* _fetch_latest_level and the verdict on it.
FloodRows(s) ==
  IF LevelsOf(s) = {} THEN {}
  ELSE LET latest == Latest(LevelsOf(s))
       IN  {Row(Hrfco, "flood", severity, RegionOf[s], Dated(latest)) :
              severity \in {FloodSeverity(s, latest.level)} \ {"none"}}

(***************************************************************************)
(* The dangers a service shows: for each, what it is, where, and the       *)
(* report that is the newest on it.  Rows are compared with these.         *)
(***************************************************************************)
Dangers ==
  CASE client = Kma ->
         UNION {{Row(Kma, TypeOf[w.kind], w.severity, w.area, b.at) :
                   w \in {w \in b.force : w.kind \in DOMAIN TypeOf}} :
                b \in {b \in Shown : \A c \in Shown : c.at <= b.at}}
    [] client = Eqk ->
         {Row(Eqk, "earthquake", "none", "none", r.at) : r \in Shown}
    [] client = Hrfco ->
         {Row(Hrfco, "flood", FloodSeverity(r.station, r.level), RegionOf[r.station], r.at) :
            r \in {r \in Shown :
                     /\ r.level # NoLevel
                     /\ FloodSeverity(r.station, r.level) # "none"
                     /\ ~ \E q \in published :
                            q.station = r.station /\ q.level # NoLevel /\ q.at > r.at}}

\* Two reports on the same danger; each earthquake is one of its own.
SameDanger(g, h) ==
  /\ g.type = h.type /\ g.severity = h.severity /\ g.region = h.region
  /\ g.type = "earthquake" => g.at = h.at

StillShown(h) == \E g \in Dangers : SameDanger(g, h)

\* Row e tells of h, from the same report or from a newer one; a report whose
\* time is unreadable is told of at the time of a fetch.
Tells(e, h) ==
  /\ e.type = h.type /\ e.severity = h.severity /\ e.region \in {h.region, "all"}
  /\ IF h.type = "earthquake" /\ h.at \notin Unreadable
       THEN e.at = h.at ELSE e.at >= h.at

Told(h) == \E e \in events : Tells(e, h)

(***************************************************************************)
(* The specification.                                                      *)
(***************************************************************************)
Init ==
  /\ client \in Clients
  /\ now = 0 /\ published = {} /\ events = {} /\ failures = 0
  /\ pc = "idle" /\ todo = <<>> /\ rows = {} /\ steady = {}
  /\ LimiterInit

cycleVars == <<pc, todo, rows, events, failures, limiterVars>>

Publish ==
  /\ \E r \in Publications :
       IsNew(r) /\ published' = published \cup {r}
  /\ UNCHANGED <<client, now, cycleVars>>
  /\ steady' = {h \in steady : StillShown(h)'}

Tick ==
  /\ now < LastSlot[client]
  /\ now' = now + 1
  /\ UNCHANGED <<client, published, cycleVars>>
  /\ steady' = {h \in steady : StillShown(h)'}

world == <<client, now, published>>

StartFetch ==
  /\ pc = "idle"
  /\ pc' = "fetch" /\ todo' = <<client>>
  /\ steady' = Dangers
  /\ UNCHANGED <<world, rows, events, failures, limiterVars>>

Answered(new, more) ==
  /\ rows' = rows \cup new
  /\ todo' = Tail(todo) \o more
  /\ UNCHANGED <<world, pc, events, steady, failures>>

Calls(what) == pc = "fetch" /\ todo # <<>> /\ Head(todo) = what

FetchWarnings ==
  Calls(Kma) /\ Answered(WarningRows, <<>>) /\ UNCHANGED limiterVars

FetchQuakes ==
  Calls(Eqk) /\ Answered(QuakeRows, <<>>) /\ UNCHANGED limiterVars

FetchStationInfo ==
  Calls(Hrfco) /\ Wait /\ Answered({}, Stations)

\* Mutant: the first station without thresholds ends the loop.
AfterGap == <<>>

AfterSkip == Tail(todo)

\* A station without thresholds is skipped without a call.
SkipStation(s) ==
  /\ Calls(s) /\ ~HasThreshold(s)
  /\ todo' = AfterSkip
  /\ UNCHANGED <<world, pc, rows, events, steady, failures, limiterVars>>

FetchLatestLevel(s) ==
  Calls(s) /\ HasThreshold(s) /\ Wait /\ Answered(FloodRows(s), <<>>)

\* The client has made its calls; the next cycle makes a client, and with it
\* a limiter, of its own.
EndFetch ==
  /\ pc = "fetch" /\ todo = <<>>
  /\ pc' = "store"
  /\ NewLimiter
  /\ UNCHANGED <<world, todo, rows, events, steady, failures>>

\* _store_event, one commit per row, unless an equal row is there.
StoreEvent(e) ==
  /\ pc = "store" /\ e \in rows
  /\ rows' = rows \ {e}
  /\ events' = events \cup {e}
  /\ UNCHANGED <<world, pc, todo, steady, failures, limiterVars>>

Finish ==
  /\ pc = "store" /\ rows = {}
  /\ pc' = "idle" /\ steady' = {}
  /\ UNCHANGED <<world, todo, rows, events, failures, limiterVars>>

\* A call or a commit fails, or the process ends.
Fail ==
  /\ pc # "idle" /\ failures < MaxFailures
  /\ failures' = failures + 1
  /\ pc' = "idle" /\ todo' = <<>> /\ rows' = {} /\ steady' = {}
  /\ NewLimiter
  /\ UNCHANGED <<world, events>>

Fetch ==
  \/ StartFetch \/ FetchWarnings \/ FetchQuakes \/ FetchStationInfo
  \/ \E s \in StationSet : FetchLatestLevel(s) \/ SkipStation(s)
  \/ EndFetch \/ (\E e \in rows : StoreEvent(e)) \/ Finish

Next == Publish \/ Tick \/ Fetch \/ Fail

Spec == Init /\ [][Next]_vars

\* The scheduler fetches for ever.
FairSpec == Spec /\ WF_vars(Fetch)

(***************************************************************************)
(* Properties.                                                             *)
(***************************************************************************)
RowType ==
  [source : Clients, type : {TypeOf[k] : k \in DOMAIN TypeOf} \cup {"earthquake", "flood"},
   severity : Severities \cup {"none"}, region : Areas \cup {"all", "none"}, at : Slots]

\* Rows are events of the normalised schema, calls are those of the client.
TypeOK ==
  /\ client \in Clients /\ now \in 0..LastSlot[client]
  /\ \A r \in published : r.at <= now
  /\ pc \in {"idle", "fetch", "store"}
  /\ todo \in Seq({client} \cup (IF client = Hrfco THEN StationSet ELSE {}))
  /\ rows \subseteq RowType /\ events \subseteq RowType /\ steady \subseteq RowType
  /\ \A e \in rows \cup events : e.source = client
  /\ failures \in 0..MaxFailures
  /\ clock \in Nat /\ nextAllowed \in Nat /\ calls \in Seq(Nat)

\* A fetch that has come to its end has stored every danger that the service
\* showed all the time it ran, whatever was published in the meantime, in
\* which slots it ran, and although it took a call per station.
SteadyIsStored == (pc = "store" /\ rows = {}) => \A h \in steady : Told(h)

\* What a report says of an area, a quake or a station, at its time or, when
\* that is unreadable, as long as the service shows it.
Reports(r, e) ==
  /\ \/ r.at = e.at
     \/ r.at \in Unreadable /\ r.at <= e.at /\ ShownAt(r, e.at)
  /\ CASE client = Kma ->
            \A a \in (IF e.region = "all" THEN Areas ELSE {e.region}) :
              \E w \in r.force : /\ w.area = a /\ w.severity = e.severity
                                 /\ w.kind \in DOMAIN TypeOf /\ TypeOf[w.kind] = e.type
       [] client = Eqk -> TRUE
       [] client = Hrfco ->
            /\ RegionOf[r.station] = e.region /\ r.level # NoLevel
            /\ \/ e.severity = "WARNING" /\ r.level >= Warning[r.station]
               \/ e.severity = "ADVISORY" /\ r.level >= Attention[r.station]

\* No event without a report that says so for its region: an excepted zone,
\* a zone of another warning, a level below the threshold raise no event.
RowsAreReported == \A e \in events : \E r \in published : Reports(r, e)

\* When a service has published its last (every behaviour comes to that, by
\* the bounds), all the dangers it goes on showing are stored in the end,
\* although bulletins and levels were replaced between and during fetches
\* and fetches failed.
ShownIsStored == <>[](\A h \in Dangers : Told(h))
=============================================================================
