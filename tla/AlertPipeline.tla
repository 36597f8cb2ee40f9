--------------------------- MODULE AlertPipeline ---------------------------
(***************************************************************************)
(* The alert pipeline of app/services/ingest.py and the two handlers that  *)
(* share its tables.  Ingestion cycles store the events the four sources   *)
(* publish and evaluate the ones they stored; POST /subscriptions stores a *)
(* subscription and evaluates the recent events it finds ("backfill").     *)
(*                                                                         *)
(* Every cycle and every request works on a database session of its own:   *)
(*  - the tables hold what has been committed;                             *)
(*  - pending and pendingLogs hold what a session has added and not        *)
(*    committed, dropped when the session ends without a commit;           *)
(*  - a select reads the committed rows of that moment (READ COMMITTED),   *)
(*    and the session's own pending rows only if the session autoflushes:  *)
(*    app/database.py says autoflush=False, the test fixtures leave TRUE.  *)
(*                                                                         *)
(* An event row is named by its key and the cycle that inserted it (by);   *)
(* a cycle reads its own commits, so it never inserts one key twice.       *)
(***************************************************************************)
EXTENDS Naturals, FiniteSets

CONSTANTS
  Cycles,        \* threads that may run an ingestion cycle
  Clients,       \* requests that may register a subscription
  Keys,          \* what the sources publish: the tuple _store_event compares
  Subs,          \* the subscriptions users may ask for: [person, region]
  Regions,       \* region names, as stored (after normalize_sigungu)
  NoRegion,      \* the region of an event that names none
  Matching,      \* the pairs <<subscription region, event region>> that match
  Persons, Kinds, Profiles,
  Profile,       \* a person's age group and tags
  Layer1,        \* the risk matrix, with "NONE" where it has no rule
  Cutoff,        \* the oldest announcement time a backfill looks at
  InitialSubs,   \* subscriptions that exist from the start
  AutoFlush,     \* the sessions' autoflush option
  Overlapping,   \* whether two cycles may run at once (module IngestGuard)
  MaxFailures    \* bound: how many times sessions may die

Levels == {"LOW", "MEDIUM", "HIGH"}
Sessions == Cycles \cup Clients
Kmas == "kma_warning"
Broadcasts == "disaster_message"
SourceNames == {Kmas, "kma_earthquake", "hrfco_flood", Broadcasts}
CacheKeys == Kinds \X Profiles

KeyType == [source : SourceNames, kind : Kinds, at : Nat,
            region : Regions \cup {NoRegion}]

ASSUME SessionsAssumption == Cycles \cap Clients = {}
ASSUME DataAssumption ==
  /\ Keys \subseteq KeyType
  /\ Subs \subseteq [person : Persons, region : Regions]
  /\ NoRegion \notin Regions
  /\ Matching \subseteq Regions \X Regions
  /\ Profile \in [Persons -> Profiles]
  /\ Layer1 \in [CacheKeys -> Levels \cup {"NONE"}]
  /\ InitialSubs \subseteq Subs
  /\ Cutoff \in Nat /\ MaxFailures \in Nat /\ AutoFlush \in BOOLEAN
  /\ Overlapping \in BOOLEAN

VARIABLES
  \* committed tables, and the process-wide cache of risk_ai.py
  regions, subscriptions, events, notifications, aiRiskLogs, decisionCache,
  \* where a session is, and the key or the subscription it works on
  pc, item, wanted,
  \* a cycle's run_ingestion_cycle: sources left, items left of the source
  \* being read, events stored and not yet evaluated, session in need of a
  \* rollback
  sources, batch, stored, poisoned,
  \* a session's loop over (subscription, event) pairs
  pairs, asked, pending, pendingLogs,
  \* history: crashes so far, and the pairs whose session died on them
  failures, lost

tables == <<subscriptions, events, notifications, aiRiskLogs>>
ingestVars == <<item, sources, batch, stored, poisoned>>
loopVars == <<pairs, asked, pending, pendingLogs>>
history == <<failures, lost>>
vars == <<regions, tables, decisionCache, pc, wanted, ingestVars, loopVars,
          history>>

(***************************************************************************)
(* Rows.                                                                   *)
(***************************************************************************)
EventRows == [key : Keys, by : Cycles]
Pairs == [sub : Subs, ev : EventRows]
NotificationRows ==
  [sub : Subs, ev : EventRows, level : Levels,
   source : {"matrix", "ai", "broadcast"}, by : Sessions]
LogRows == [sub : Subs, ev : EventRows, level : Levels, by : Sessions]

Pair(s, e) == [sub |-> s, ev |-> e]

Matches(s, e) == <<s.region, e.key.region>> \in Matching

Recent(e) == e.key.at >= Cutoff

Signature(k) == <<k.source, k.kind, k.at>>

CacheKey(p) == <<p.ev.key.kind, Profile[p.sub.person]>>

(***************************************************************************)
(* Notification n makes _notify_subscription_for_event skip the pair p:    *)
(* it is for the same subscription and event, or p's event is one zone of  *)
(* a weather warning and n told the same person of the same warning.       *)
(***************************************************************************)
Covers(n, p) ==
  \/ n.sub = p.sub /\ n.ev = p.ev
  \/ /\ p.ev.key.source = Kmas
     /\ n.sub.person = p.sub.person
     /\ Signature(n.ev.key) = Signature(p.ev.key)

\* Mutant: the dedupe selects are dropped.
VisibleNone(w) == {}

\* Mutant: a session looks at the notifications it made itself.
VisibleOwn(w) == {n \in notifications : n.by = w}

Visible(w) == notifications \cup (IF AutoFlush THEN pending[w] ELSE {})

\* What Layer 1 or the broadcast default decides; "NONE" sends p to Layer 2.
RuleLevel(p) ==
  IF p.ev.key.source = Broadcasts THEN "MEDIUM" ELSE Layer1[CacheKey(p)]

\* Mutant: a source the column's type does not have.
RuleSourceUnknown(p) == "rule"

RuleSource(p) == IF p.ev.key.source = Broadcasts THEN "broadcast" ELSE "matrix"

Notification(w, p, level, source) ==
  [sub |-> p.sub, ev |-> p.ev, level |-> level, source |-> source, by |-> w]

AIRiskLog(w, p, level) ==
  [sub |-> p.sub, ev |-> p.ev, level |-> level, by |-> w]

(***************************************************************************)
(* Initial state: nothing ingested, InitialSubs and their regions stored.  *)
(***************************************************************************)
Init ==
  /\ regions = {s.region : s \in InitialSubs}
  /\ subscriptions = InitialSubs
  /\ events = {} /\ notifications = {} /\ aiRiskLogs = {}
  /\ decisionCache = [k \in CacheKeys |-> "NONE"]
  /\ pc = [w \in Sessions |-> "idle"]
  /\ item = [c \in Cycles |-> {}]
  /\ wanted = [x \in Clients |-> {}]
  /\ sources = [c \in Cycles |-> {}]
  /\ batch = [c \in Cycles |-> {}]
  /\ stored = [c \in Cycles |-> {}]
  /\ poisoned = [c \in Cycles |-> FALSE]
  /\ pairs = [w \in Sessions |-> {}]
  /\ asked = [w \in Sessions |-> {}]
  /\ pending = [w \in Sessions |-> {}]
  /\ pendingLogs = [w \in Sessions |-> {}]
  /\ failures = 0 /\ lost = {}

Goto(w, label) == pc' = [pc EXCEPT ![w] = label]

(***************************************************************************)
(* get_or_create_region: select, and if there is no such region insert and *)
(* commit.  The unique index refuses the loser of a race.  A request then  *)
(* answers 500.  A cycle catches the error with its source's try, without  *)
(* a rollback: the session refuses every later statement (poisoned).       *)
(***************************************************************************)
NamedRegion(w) == {r.region : r \in IF w \in Cycles THEN item[w] ELSE wanted[w]}

InsertRegion(w, next) ==
  /\ pc[w] = "new_region" /\ ~(NamedRegion(w) \subseteq regions)
  /\ regions' = regions \cup NamedRegion(w)
  /\ Goto(w, next)
  /\ UNCHANGED <<tables, decisionCache, wanted, ingestVars, loopVars, history>>

(***************************************************************************)
(* run_ingestion_cycle.                                                    *)
(***************************************************************************)
StartCycle(c) ==
  /\ pc[c] = "idle"
  /\ Overlapping \/ \A d \in Cycles : pc[d] = "idle"
  /\ Goto(c, "fetch")
  /\ sources' = [sources EXCEPT ![c] = {k.source : k \in Keys}]
  /\ UNCHANGED <<regions, tables, decisionCache, item, wanted, batch, stored,
                 poisoned, loopVars, history>>

\* client.fetch() of the next source: some of what it may publish, nothing
\* when it fails.  On a poisoned session the first statement raises and the
\* rest of the source is skipped.
Fetch(c) ==
  /\ pc[c] = "fetch" /\ batch[c] = {}
  /\ \E src \in sources[c] :
       /\ sources' = [sources EXCEPT ![c] = @ \ {src}]
       /\ \E items \in SUBSET {k \in Keys : k.source = src} :
            batch' = [batch EXCEPT ![c] = IF poisoned[c] THEN {} ELSE items]
  /\ UNCHANGED <<regions, tables, decisionCache, pc, item, wanted,
                 stored, poisoned, loopVars, history>>

\* _store_event, first the region's select.
SelectRegion(c) ==
  /\ pc[c] = "fetch"
  /\ \E k \in batch[c] :
       /\ batch' = [batch EXCEPT ![c] = @ \ {k}]
       /\ item' = [item EXCEPT ![c] = {k}]
       /\ Goto(c, IF k.region \in regions \cup {NoRegion}
                  THEN "select_event" ELSE "new_region")
  /\ UNCHANGED <<regions, tables, decisionCache, wanted, sources, stored,
                 poisoned, loopVars, history>>

RegionConflict(c) ==
  /\ pc[c] = "new_region" /\ NamedRegion(c) \subseteq regions
  /\ poisoned' = [poisoned EXCEPT ![c] = TRUE]
  /\ batch' = [batch EXCEPT ![c] = {}]
  /\ item' = [item EXCEPT ![c] = {}]
  /\ Goto(c, "fetch")
  /\ UNCHANGED <<regions, tables, decisionCache, wanted, sources, stored,
                 loopVars, history>>

\* _store_event, the select of an equal event, then the insert and commit.
\* Mutant: only weather warnings are compared with the stored events.
IsStoredWarning(k) == k.source = Kmas /\ \E e \in events : e.key = k

IsStored(k) == \E e \in events : e.key = k

SelectEvent(c) ==
  /\ pc[c] = "select_event"
  /\ \E k \in item[c] :
       IF IsStored(k)
         THEN Goto(c, "fetch") /\ item' = [item EXCEPT ![c] = {}]
         ELSE Goto(c, "new_event") /\ UNCHANGED item
  /\ UNCHANGED <<regions, tables, decisionCache, wanted, sources, batch, stored,
                 poisoned, loopVars, history>>

InsertEvent(c) ==
  /\ pc[c] = "new_event"
  /\ LET rows == {[key |-> k, by |-> c] : k \in item[c]}
     IN  /\ events' = events \cup rows
         /\ stored' = [stored EXCEPT ![c] = @ \cup rows]
  /\ item' = [item EXCEPT ![c] = {}]
  /\ Goto(c, "fetch")
  /\ UNCHANGED <<regions, subscriptions, notifications, aiRiskLogs,
                 decisionCache, wanted, sources, batch, poisoned, loopVars,
                 history>>

\* The pairs a dying cycle leaves: of an event it has stored.
Unevaluated(c) == {Pair(s, e) : s \in subscriptions, e \in stored[c]}

\* All sources done: the evaluation loop starts, or its first statement
\* raises out of the cycle when the session is poisoned.
EndFetch(c) ==
  /\ pc[c] = "fetch" /\ batch[c] = {} /\ sources[c] = {}
  /\ IF poisoned[c]
       THEN /\ Goto(c, "idle")
            /\ lost' = lost \cup Unevaluated(c)
            /\ stored' = [stored EXCEPT ![c] = {}]
            /\ poisoned' = [poisoned EXCEPT ![c] = FALSE]
       ELSE /\ Goto(c, "evaluate")
            /\ UNCHANGED <<lost, stored, poisoned>>
  /\ UNCHANGED <<regions, tables, decisionCache, item, wanted, sources, batch,
                 loopVars, failures>>

\* Mutant: the region is not looked at.
EvaluateEverywhere(c) ==
  /\ pc[c] = "evaluate"
  /\ \E e \in stored[c] :
       /\ item' = [item EXCEPT ![c] = {e.key}]
       /\ pairs' = [pairs EXCEPT ![c] = {Pair(s, e) : s \in subscriptions}]
  /\ Goto(c, "notify")
  /\ UNCHANGED <<regions, tables, decisionCache, wanted, sources, batch,
                 stored, poisoned, asked, pending, pendingLogs, history>>

\* _evaluate_and_notify reads the subscriptions that match the event.
Evaluate(c) ==
  /\ pc[c] = "evaluate"
  /\ \E e \in stored[c] :
       /\ item' = [item EXCEPT ![c] = {e.key}]
       /\ pairs' = [pairs EXCEPT ![c] =
                      {Pair(s, e) : s \in {s \in subscriptions : Matches(s, e)}}]
  /\ Goto(c, "notify")
  /\ UNCHANGED <<regions, tables, decisionCache, wanted, sources, batch,
                 stored, poisoned, asked, pending, pendingLogs, history>>

\* Every stored event evaluated: dispatch (module Dispatch) and the end.
FinishCycle(c) ==
  /\ pc[c] = "evaluate" /\ stored[c] = {}
  /\ Goto(c, "idle")
  /\ UNCHANGED <<regions, tables, decisionCache, wanted, ingestVars,
                 loopVars, history>>

(***************************************************************************)
(* _notify_subscription_for_event, shared by the cycle and the backfill.   *)
(***************************************************************************)
AddNotification(w, p, level, source) ==
  pending' = [pending EXCEPT ![w] = @ \cup {Notification(w, p, level, source)}]

\* Mutant: LOW is notified too.
AddJudgementAlways(w, p, level) ==
  /\ pendingLogs' = [pendingLogs EXCEPT ![w] = @ \cup {AIRiskLog(w, p, level)}]
  /\ AddNotification(w, p, level, "ai")

\* Layer 2's answer for p: logged, and notified unless it is LOW.
AddJudgement(w, p, level) ==
  /\ pendingLogs' = [pendingLogs EXCEPT ![w] = @ \cup {AIRiskLog(w, p, level)}]
  /\ IF level = "LOW" THEN UNCHANGED pending
                      ELSE AddNotification(w, p, level, "ai")

\* One pair up to the point where the LLM must be asked: the two dedupe
\* selects, the broadcast default or the matrix, the decision cache.
Consider(w) ==
  /\ pc[w] = "notify" /\ asked[w] = {}
  /\ \E p \in pairs[w] :
       /\ pairs' = [pairs EXCEPT ![w] = @ \ {p}]
       /\ LET cached == decisionCache[CacheKey(p)]
          IN  \/ /\ \E n \in Visible(w) : Covers(n, p)
                 /\ UNCHANGED <<pending, pendingLogs, asked>>
              \/ /\ \A n \in Visible(w) : ~Covers(n, p)
                 /\ RuleLevel(p) # "NONE"
                 /\ AddNotification(w, p, RuleLevel(p), RuleSource(p))
                 /\ UNCHANGED <<pendingLogs, asked>>
              \/ /\ \A n \in Visible(w) : ~Covers(n, p)
                 /\ RuleLevel(p) = "NONE" /\ cached # "NONE"
                 /\ AddJudgement(w, p, cached)
                 /\ UNCHANGED asked
              \/ /\ \A n \in Visible(w) : ~Covers(n, p)
                 /\ RuleLevel(p) = "NONE" /\ cached = "NONE"
                 /\ asked' = [asked EXCEPT ![w] = {p}]
                 /\ UNCHANGED <<pending, pendingLogs>>
  /\ UNCHANGED <<regions, tables, decisionCache, pc, wanted, ingestVars,
                 history>>

\* The chain of providers answers with a level: cached, then logged.
LlmAnswers(w) ==
  /\ \E p \in asked[w], level \in Levels :
       /\ decisionCache' = [decisionCache EXCEPT ![CacheKey(p)] = level]
       /\ AddJudgement(w, p, level)
  /\ asked' = [asked EXCEPT ![w] = {}]
  /\ UNCHANGED <<regions, tables, pc, wanted, ingestVars, pairs, history>>

\* Every provider fails or the answer names no level: no verdict.
LlmFails(w) ==
  /\ asked[w] # {}
  /\ asked' = [asked EXCEPT ![w] = {}]
  /\ UNCHANGED <<regions, tables, decisionCache, pc, wanted, ingestVars,
                 pairs, pending, pendingLogs, history>>

\* Mutant: the commit is forgotten and the added rows are lost.
LoopWithoutCommit(w) ==
  /\ pc[w] = "notify" /\ pairs[w] = {} /\ asked[w] = {}
  /\ pending' = [pending EXCEPT ![w] = {}]
  /\ pendingLogs' = [pendingLogs EXCEPT ![w] = {}]
  /\ UNCHANGED <<notifications, aiRiskLogs>>

\* The commit that ends the loop over the pairs.
CommitLoop(w) ==
  /\ pc[w] = "notify" /\ pairs[w] = {} /\ asked[w] = {}
  /\ notifications' = notifications \cup pending[w]
  /\ aiRiskLogs' = aiRiskLogs \cup pendingLogs[w]
  /\ pending' = [pending EXCEPT ![w] = {}]
  /\ pendingLogs' = [pendingLogs EXCEPT ![w] = {}]

CommitEvaluation(c) ==
  /\ CommitLoop(c)
  /\ stored' = [stored EXCEPT ![c] = @ \ {[key |-> k, by |-> c] : k \in item[c]}]
  /\ item' = [item EXCEPT ![c] = {}]
  /\ Goto(c, "evaluate")
  /\ UNCHANGED <<regions, subscriptions, events, decisionCache, wanted, sources,
                 batch, poisoned, pairs, asked, history>>

CommitBackfill(x) ==
  /\ CommitLoop(x)
  /\ wanted' = [wanted EXCEPT ![x] = {}]
  /\ Goto(x, "idle")
  /\ UNCHANGED <<regions, subscriptions, events, decisionCache, ingestVars,
                 pairs, asked, history>>

(***************************************************************************)
(* A request for a subscription: POST /regions, then POST /subscriptions.  *)
(***************************************************************************)
RequestRegion(x) ==
  /\ pc[x] = "idle"
  /\ \E s \in Subs :
       /\ wanted' = [wanted EXCEPT ![x] = {s}]
       /\ Goto(x, IF s.region \in regions THEN "subscribe" ELSE "new_region")
  /\ UNCHANGED <<regions, tables, decisionCache, ingestVars, loopVars, history>>

RequestFails(x) ==
  /\ \/ pc[x] = "new_region" /\ NamedRegion(x) \subseteq regions
     \/ pc[x] = "new_subscription" /\ wanted[x] \subseteq subscriptions
  /\ wanted' = [wanted EXCEPT ![x] = {}]
  /\ Goto(x, "idle")
  /\ UNCHANGED <<regions, tables, decisionCache, ingestVars, loopVars, history>>

\* create_subscription: an existing row is returned and backfilled again.
SelectSubscription(x) ==
  /\ pc[x] = "subscribe"
  /\ IF wanted[x] \subseteq subscriptions
       THEN Goto(x, "backfill") /\ lost' = {p \in lost : p.sub \notin wanted[x]}
       ELSE Goto(x, "new_subscription") /\ UNCHANGED lost
  /\ UNCHANGED <<regions, tables, decisionCache, wanted, ingestVars,
                 loopVars, failures>>

InsertSubscription(x) ==
  /\ pc[x] = "new_subscription" /\ ~(wanted[x] \subseteq subscriptions)
  /\ subscriptions' = subscriptions \cup wanted[x]
  /\ Goto(x, "backfill")
  /\ UNCHANGED <<regions, events, notifications, aiRiskLogs, decisionCache,
                 wanted, ingestVars, loopVars, history>>

\* Mutant: regions are compared for equality, as before regions_match.
BackfillSameRegion(x) ==
  /\ pc[x] = "backfill"
  /\ pairs' = [pairs EXCEPT ![x] =
                 {Pair(se[1], se[2]) :
                    se \in {se \in wanted[x] \X events :
                              Recent(se[2]) /\ se[1].region = se[2].key.region}}]
  /\ Goto(x, "notify")
  /\ UNCHANGED <<regions, tables, decisionCache, wanted, ingestVars,
                 asked, pending, pendingLogs, history>>

\* backfill_subscription reads the recent events that match.
Backfill(x) ==
  /\ pc[x] = "backfill"
  /\ pairs' = [pairs EXCEPT ![x] =
                 {Pair(se[1], se[2]) :
                    se \in {se \in wanted[x] \X events :
                              Recent(se[2]) /\ Matches(se[1], se[2])}}]
  /\ Goto(x, "notify")
  /\ UNCHANGED <<regions, tables, decisionCache, wanted, ingestVars,
                 asked, pending, pendingLogs, history>>

(***************************************************************************)
(* Death of sessions: an exception out of the handler, or the end of the   *)
(* process, which also empties the decision cache.  Uncommitted rows are   *)
(* gone; the stored pairs it still had to evaluate are lost.               *)
(***************************************************************************)
\* The pairs a dying request leaves: of a subscription it has stored.
Unbackfilled(x) ==
  IF pc[x] \in {"backfill", "notify"}
    THEN {Pair(s, e) : s \in wanted[x], e \in events} ELSE {}

Die(dead) ==
  /\ failures < MaxFailures
  /\ failures' = failures + 1
  /\ pc' = [w \in Sessions |-> IF w \in dead THEN "idle" ELSE pc[w]]
  /\ lost' = lost \cup (UNION {Unevaluated(c) : c \in dead \cap Cycles})
                  \cup (UNION {Unbackfilled(x) : x \in dead \cap Clients})
  /\ item' = [c \in Cycles |-> IF c \in dead THEN {} ELSE item[c]]
  /\ wanted' = [x \in Clients |-> IF x \in dead THEN {} ELSE wanted[x]]
  /\ sources' = [c \in Cycles |-> IF c \in dead THEN {} ELSE sources[c]]
  /\ poisoned' = [c \in Cycles |-> poisoned[c] /\ c \notin dead]
  /\ stored' = [c \in Cycles |-> IF c \in dead THEN {} ELSE stored[c]]
  /\ batch' = [c \in Cycles |-> IF c \in dead THEN {} ELSE batch[c]]
  /\ pairs' = [w \in Sessions |-> IF w \in dead THEN {} ELSE pairs[w]]
  /\ asked' = [w \in Sessions |-> IF w \in dead THEN {} ELSE asked[w]]
  /\ pending' = [w \in Sessions |-> IF w \in dead THEN {} ELSE pending[w]]
  /\ pendingLogs' = [w \in Sessions |-> IF w \in dead THEN {} ELSE pendingLogs[w]]
  /\ UNCHANGED <<regions, tables>>

SessionDies(w) == pc[w] # "idle" /\ Die({w}) /\ UNCHANGED decisionCache

ProcessRestarts ==
  /\ \E w \in Sessions : pc[w] # "idle"
  /\ Die(Sessions)
  /\ decisionCache' = [k \in CacheKeys |-> "NONE"]

(***************************************************************************)
(* The specification.                                                      *)
(***************************************************************************)
IngestStep(c) ==
  \/ Fetch(c) \/ SelectRegion(c) \/ InsertRegion(c, "select_event")
  \/ RegionConflict(c) \/ SelectEvent(c) \/ InsertEvent(c) \/ EndFetch(c)
  \/ Evaluate(c) \/ CommitEvaluation(c) \/ FinishCycle(c)

RequestStep(x) ==
  \/ InsertRegion(x, "subscribe") \/ RequestFails(x) \/ SelectSubscription(x)
  \/ InsertSubscription(x) \/ Backfill(x) \/ CommitBackfill(x)

PairStep(w) == Consider(w) \/ LlmAnswers(w) \/ LlmFails(w)

Next ==
  \/ \E c \in Cycles : StartCycle(c) \/ IngestStep(c)
  \/ \E x \in Clients : RequestRegion(x) \/ RequestStep(x)
  \/ \E w \in Sessions : PairStep(w) \/ SessionDies(w)
  \/ ProcessRestarts

Spec == Init /\ [][Next]_vars

\* A thread that runs keeps running, the scheduler starts cycles for ever,
\* and an LLM that is asked again and again answers at last.
FairSpec ==
  /\ Spec
  /\ \A c \in Cycles : WF_vars(StartCycle(c)) /\ WF_vars(IngestStep(c))
  /\ \A x \in Clients : WF_vars(RequestStep(x))
  /\ \A w \in Sessions : WF_vars(PairStep(w)) /\ SF_vars(LlmAnswers(w))

(***************************************************************************)
(* The promise, and what of it the tables show.                            *)
(***************************************************************************)
Promise == INSTANCE Alerting WITH
  Events <- EventRows,
  Concerned <- {p \in Pairs : Matches(p.sub, p.ev)},
  subscribed <- subscriptions,
  announced <- events,
  told <- {Pair(n.sub, n.ev) : n \in notifications}

\* However cycles, requests and deaths interleave, subscribers see a board
\* that only grows, where each commit tells of one event, or one subscriber,
\* what is stored and matches, and where nothing is lost but by a failure.
ImplementsAlerting == Promise!Spec

(***************************************************************************)
(* Properties.                                                             *)
(***************************************************************************)
PcType ==
  /\ pc \in [Sessions -> {"idle", "fetch", "new_region", "select_event",
                          "new_event", "evaluate", "notify", "subscribe",
                          "new_subscription", "backfill"}]
  /\ \A c \in Cycles : pc[c] \notin {"subscribe", "new_subscription", "backfill"}
  /\ \A x \in Clients : pc[x] \notin {"fetch", "select_event", "new_event", "evaluate"}
  /\ \A w \in Sessions : pc[w] = "new_region" => NamedRegion(w) \subseteq Regions

TableTypes ==
  /\ regions \subseteq Regions
  /\ subscriptions \subseteq Subs
  /\ events \subseteq EventRows
  /\ notifications \subseteq NotificationRows
  /\ aiRiskLogs \subseteq LogRows
  /\ decisionCache \in [CacheKeys -> Levels \cup {"NONE"}]

SessionTypes ==
  /\ item \in [Cycles -> SUBSET Keys]
  /\ wanted \in [Clients -> SUBSET Subs]
  /\ sources \in [Cycles -> SUBSET SourceNames]
  /\ batch \in [Cycles -> SUBSET Keys]
  /\ stored \in [Cycles -> SUBSET EventRows]
  /\ poisoned \in [Cycles -> BOOLEAN]
  /\ pairs \in [Sessions -> SUBSET Pairs]
  /\ asked \in [Sessions -> SUBSET Pairs]
  /\ pending \in [Sessions -> SUBSET NotificationRows]
  /\ pendingLogs \in [Sessions -> SUBSET LogRows]

HistoryTypes ==
  /\ failures \in 0..MaxFailures
  /\ lost \subseteq Pairs

\* Every table, session field and history variable holds rows of its kind,
\* and no session is at a line its handler does not have
\* or about to store a region nobody named.
TypeOK == PcType /\ TableTypes /\ SessionTypes /\ HistoryTypes

\* The pairs for which a notification is due whatever the LLM says: the
\* regions match, the event is recent, a rule or the broadcast decides.
MustAlert(p) ==
  Matches(p.sub, p.ev) /\ Recent(p.ev) /\ RuleLevel(p) # "NONE"

Alerted(p) == \E n \in notifications : Covers(n, p)

\* Cycle c stored p's event and has not read its subscriptions yet.
StillToEvaluate(c, p) ==
  p.ev \in stored[c] /\ ~(pc[c] = "notify" /\ p.ev.key \in item[c])

\* Request x stored p's subscription and has not read the events yet.
StillToBackfill(x, p) == pc[x] = "backfill" /\ p.sub \in wanted[x]

\* Session w has p on its list, or has added what will cover p.
InHand(w, p) == p \in pairs[w] \/ \E n \in pending[w] : Covers(n, p)

\* The session whose death would lose p.
Answerable(w, p) ==
  \/ w \in Cycles /\ p.ev \in stored[w]
  \/ w \in Clients /\ p.sub \in wanted[w]

\* What a session has in its hands: rows and pairs only inside its loop, the
\* events this very cycle stored, a subscription that is really there.
SessionDiscipline ==
  /\ \A w \in Sessions : pc[w] # "notify" =>
       pairs[w] = {} /\ asked[w] = {} /\ pending[w] = {} /\ pendingLogs[w] = {}
  /\ \A c \in Cycles : pc[c] = "idle" => stored[c] = {}
  /\ \A c \in Cycles : \A e \in stored[c] : e.by = c /\ e \in events
  /\ \A x \in Clients : pc[x] \in {"backfill", "notify"} => wanted[x] \subseteq subscriptions

Owed(p) ==
  \/ \E c \in Cycles : StillToEvaluate(c, p)
  \/ \E x \in Clients : StillToBackfill(x, p)
  \/ \E w \in Sessions : InHand(w, p) /\ Answerable(w, p)

Settled(p) == Alerted(p) \/ p \in lost \/ Owed(p)

\* No subscriber falls between a cycle and a backfill: however they
\* interleave, a stored pair that must alert is alerted, or some running
\* session is bound to consider it, or the session that was bound to died
\* when both were stored already.
\* The code relies on the order of commits: the subscription before the
\* backfill reads events, the event before the cycle reads subscriptions.
EveryAlertOwed ==
  \A s \in subscriptions, e \in events :
    MustAlert(Pair(s, e)) => Settled(Pair(s, e))

\* The same when everything has come to rest: alerted, unless a session died.
NoMissedAlert ==
  (\A w \in Sessions : pc[w] = "idle") =>
    \A s \in subscriptions, e \in events :
      MustAlert(Pair(s, e)) => Alerted(Pair(s, e)) \/ Pair(s, e) \in lost

\* The rows ns with source "ai" and the logs ls that are not LOW are the same.
AiLogged(ns, ls) ==
  /\ \A n \in ns : n.source = "ai" =>
       /\ n.level # "LOW"
       /\ [sub |-> n.sub, ev |-> n.ev, level |-> n.level, by |-> n.by] \in ls
  /\ \A l \in ls : l.level # "LOW" =>
       [sub |-> l.sub, ev |-> l.ev, level |-> l.level, source |-> "ai",
        by |-> l.by] \in ns

\* A Layer 2 notification and the log of its judgement stand or fall
\* together, whichever session dies, and a LOW judgement is logged without
\* a notification.
AiAlertsLogged == AiLogged(notifications, aiRiskLogs)

\* Nobody is told of an event that is not stored, or that is elsewhere.
NoSpuriousAlert ==
  \A n \in notifications :
    n.sub \in subscriptions /\ n.ev \in events /\ Matches(n.sub, n.ev)

\* _store_event keeps one row per (source, type, severity, region, time).
UniqueEvents == \A e, f \in events : e.key = f.key => e = f

\* One notification for a subscription and an event, and one per person for
\* all the zones of a weather warning (tests/test_dedupe.py).
OneAlertPerWarning ==
  \A n, m \in notifications : Covers(n, Pair(m.sub, m.ev)) => n = m

\* One notification for a subscription and an event row.
OneAlertPerPair ==
  \A n, m \in notifications : n.sub = m.sub /\ n.ev = m.ev => n = m

\* A session that is about to commit a second notification for a pair, or for a
\* person and a warning, has met another session, which committed the first:
\* asked again, retried or restarted, no session repeats what it committed.
OwnAlertsNotRepeated ==
  \A w \in Sessions : \A n \in pending[w], m \in notifications :
    Covers(m, n) => m.by # w

\* The stale select of a session without autoflush costs one loop at most: as
\* long as sessions do not overlap, what a person was told of a warning, or a
\* subscription of an event, in one commit is not told again in a later one,
\* whatever number of zones, subscriptions, cycles and deaths come between.
RepeatsOnlyWithinALoop ==
  [][\A n \in notifications' \ notifications, m \in notifications :
       ~Covers(m, n)]_vars

\* What a source repeats in every cycle is notified to a subscriber once.
OneAlertPerMessage ==
  \A n, m \in notifications : n.sub = m.sub /\ n.ev.key = m.ev.key => n = m

\* The same type, severity, age group and tags get the same judgement.
OneJudgementPerCombination ==
  \A l, m \in aiRiskLogs : CacheKey(l) = CacheKey(m) => l.level = m.level

\* Only the death of a session may lose a stored pair: the
\* failure of one source is isolated from the others.
SourceFailureIsolated == failures = 0 => lost = {}

\* Whoever is subscribed to a place is alerted to what is stored for it.
EventuallyAlerted ==
  \A s \in Subs, e \in EventRows :
    (s \in subscriptions /\ e \in events /\ MustAlert(Pair(s, e)))
      ~> Alerted(Pair(s, e))

\* The same while sessions may die: whoever is subscribed is alerted in the
\* end, unless the session that had the pair to evaluate died.
EventuallySettled ==
  \A s \in Subs, e \in EventRows :
    (s \in subscriptions /\ e \in events /\ MustAlert(Pair(s, e)))
      ~> (Alerted(Pair(s, e)) \/ Pair(s, e) \in lost)

\* A pair without a rule is judged by Layer 2 in the end (or dropped because
\* the person has an alert for the same warning).
EventuallyJudged ==
  \A s \in Subs, e \in EventRows :
    (/\ s \in subscriptions /\ e \in events
     /\ Matches(s, e) /\ Recent(e) /\ RuleLevel(Pair(s, e)) = "NONE")
      ~> (Alerted(Pair(s, e)) \/ \E l \in aiRiskLogs : l.sub = s /\ l.ev = e)
=============================================================================
