# hazard_fighter: verification

TLA+ models of hazard_fighter (a FastAPI service that collects weather
warnings, earthquakes, flood warnings and emergency messages, decides who must
hear of them and pushes alerts to browsers), TLC configurations that check them
on small instances, and TLAPS proofs of the properties that matter most.

## 1. The system

| Part | Source | State | Operations |
|---|---|---|---|
| Ingestion and alert pipeline | `services/ingest.py`, `crud.py`, `database.py` | tables `regions`, `subscriptions`, `events`, `notifications`, `ai_risk_logs`; a session per cycle and per request | `run_ingestion_cycle`, `_store_event`, `_evaluate_and_notify`, `_notify_subscription_for_event`, `backfill_subscription` |
| Layer 1 risk engine | `risk/matrix.py` | none | `evaluate_risk`, `evaluate_earthquake_risk` |
| Layer 2 judgement | `services/risk_ai.py` | `_decision_cache` (process memory), `ai_risk_logs` | `evaluate_and_log`, `_ask_llm` |
| LLM chain, alert text | `services/llm.py`, `services/message.py` | `_cooldowns` (process memory) | `chat`, `generate_notification_message`, `template_message` |
| Push dispatch | `services/dispatch.py`, `services/push.py` | `notifications.sent_at`, `device_tokens` | `dispatch_unsent_notifications`, `FcmClient.send` |
| Ingestion guard, scheduler | `scheduler.py`, `services/ingest.py`, `main.py` | `ingest_runs` | `run_ingestion_cycle_guarded`, `ingest_loop`, `POST /events/ingest` |
| Registration and accounts | `static/app.js`, `api/routes/*`, `services/auth.py`, `crud.py` | `users`, `persons`, `subscriptions`, `device_tokens`; a browser's login, cookie and token | OAuth callback, `submit` of the form, `POST /persons`, `/regions`, `/subscriptions`, `/device-tokens`, `syncPushToken` |
| Disaster message feed | `ingestion/safety_disaster.py` | none of its own; what it yields becomes `events` | `_fetch_live`, `_call`, `_parse_regions` |
| KMA and HRFCO clients | `ingestion/kma_*.py`, `ingestion/hrfco_flood.py` | the next call's time, in a limiter that each HRFCO client makes (one client per cycle) | `fetch`, `_RateLimiter.wait` |
| Region matching | `crud.py` | table `regions` | `normalize_sigungu`, `canonical_sido`, `regions_match`, `get_or_create_region` |
| Pages, read-only endpoints, config, redaction, migrations, scripts | the rest | none, or none that changes | |

How they interact.  The scheduler loop of every instance and the ingest
endpoint call the guard; a caller that passes runs a cycle: read every source,
store what is new (one commit per row), evaluate what was stored against all
subscriptions (Layer 1, else Layer 2, which asks the LLM chain), commit the
notifications, dispatch the unsent ones over FCM.  Meanwhile requests create
persons, regions and subscriptions, and a new subscription is evaluated against
the recent events ("backfill") in the request's own session.  Pages get FCM
tokens and register them; dispatch deletes the ones FCM declares dead.  The
database is the only thing that instances share; the cooldowns and the decision
cache are shared by the threads of a process.

Which behaviours are hard:

* *A cycle and a request race.*  Each reads what the other may be about to
  commit.  Nobody may fall between the two, and nobody may be told twice.
* *Commits are many and small.*  An event is committed before it is evaluated;
  a process may die in between; later cycles take the event for a duplicate.
* *Sessions do not flush by themselves.*  `autoflush=False` in
  `app/database.py` lets a select miss what the same loop has added; the test
  fixtures leave autoflush on.
* *External effects before the commit.*  FCM accepts a push long before
  `sent_at` is committed.
* *A guard that reads and then writes*, callers in several processes.
* *Providers that fail in different ways*, with shared cooldowns and threads.
* *A feed that grows while it is read*, page by page and day by day.
* *Services that show only the present*: a bulletin replaces the last, a level
  is one of a window of hours, a list ends at its page; a fetch takes many calls
  and one that fails discards the others.
* *Two vocabularies of places*: users name districts, services name zones.
* *A form that makes a sequence of requests*, each of which may fail before or
  after its commit, with tabs that share a login.

What makes each part correct is stated by the properties of section 3.

## 2. Modules

| Module | Models | Instance | Proofs |
|---|---|---|---|
| `Alerting` | what the pipeline promises: a board of who is subscribed, what is announced, who was told, what was lost | by `AlertPipeline` | |
| `AlertPipeline` | pipeline, Layer 2 log and cache, backfill | `MCAlertPipeline` | `AlertPipelineProofs`, with the proof that it implements `Alerting` |
| `RegionNames` | the names of regions and how they match | `MCRegionNames` (a gazetteer), extended by `MCAlertPipeline` | in `RegistrationProofs` |
| `Dispatch` | dispatch, device tokens, FCM, pages | `MCDispatch` | `DispatchProofs` |
| `IngestGuard` | guard, scheduler loops, endpoint | itself | `IngestGuardProofs` |
| `Registration` | login, form, the API behind them | `MCRegistration` | `RegistrationProofs` |
| `RiskMatrix` | Layer 1 over any table | `MCRiskMatrix` (the table of the code) | `RiskMatrixProofs` |
| `LlmChain` | provider chain and its callers | `MCLlmChain` | `LlmChainProofs` |
| `DisasterFeed` | feed, paging, days | `MCDisasterFeed` | `DisasterFeedProofs` |
| `RateLimiter` | the limiter of HRFCO's calls | in `PolledSources` | `PolledSourcesProofs` |
| `PolledSources` | the three clients that poll a state of affairs | `MCPolledSources` | `PolledSourcesProofs` |

The modules share tables but not variables; each fixes what the others do to
what it sees:

* `IngestGuard` decides when cycles overlap; `AlertPipeline` takes the answer as
  the constant `Overlapping` (the guard keeps a thread's own cycles apart, and
  neither two callers at once nor a cycle longer than the gap).
* `AlertPipeline` asks Layer 1 through the constant `Layer1`, any function from
  combinations to levels; `RiskMatrix` is about that function.
* `AlertPipeline` has `LlmAnswers` and `LlmFails`; `LlmChain` is what happens
  between asking and either.  The decision cache is in both, for its races with
  sessions in the first and with the chain's callers in the second.
* `AlertPipeline`, `DisasterFeed` and `PolledSources` store events: the first
  with the races of select and insert, the others with what becomes of what the
  services publish between and during fetches.  `Fetch` of the first is any
  result of the others.
* `AlertPipeline` takes the matching of regions as the constant `Matching`;
  `MCAlertPipeline` gives its value, and TLC checks on every run that this is
  what `RegionNames` makes of the names.
* `Dispatch` starts from committed notifications (`CreateAlert`), the result of
  `CommitEvaluation` and `CommitBackfill`.
* `Registration` stops where a subscription is stored and `AlertPipeline`
  begins with that store; `Dispatch` and `Registration` both have the device
  token, the first for its death and renewal, the second for its owner.

### AlertPipeline

The tables hold what is committed.  `pending` and `pendingLogs` are what a
session has added and not committed; a death drops them.  `Visible(w)` is what
the dedupe select of a session returns: the committed rows, and its own pending
ones only with autoflush.  A cycle goes through `StartCycle`, `Fetch`,
`SelectRegion`/`InsertRegion`, `SelectEvent`/`InsertEvent`, `EndFetch` (one
commit at a time), then `Evaluate`, which reads the subscriptions for one stored
event and puts the pairs on a list, `Consider` and, for a pair without a rule,
`LlmAnswers` or `LlmFails`, `CommitEvaluation` and `FinishCycle`.  A request goes
through `RequestRegion`, `SelectSubscription`/`InsertSubscription`, `Backfill`,
the same `Consider`, and `CommitBackfill`.  `RegionConflict` is the failed insert
of a region, after which the session is *poisoned*: nothing rolls it back, so
every later statement of the cycle fails.  `SessionDies` and `ProcessRestarts`
are the crashes.  An event row is named by its key and the cycle that inserted
it; wording, severities and raw payloads are left out; the age of an event is
relative to the constant `Cutoff`.

`lost` is history: the stored (subscription, event) pairs whose session died, or
gave up a poisoned session, before it had considered them.  Asking again for the
subscription takes its pairs out of it, since the backfill runs again.

`Promise == INSTANCE Alerting` maps the pipeline to the board: announced are the
stored events, told the pairs that have a committed notification.  Each step is
one of the board's (`InsertEvent` announces, `InsertSubscription` subscribes, a
commit tells of one event or tells one subscriber, a death loses, asking again
gives another chance) or changes nothing on it: in particular nobody is told of
what is not stored or lies elsewhere, and nothing is lost but by a failure.

### Region names

A name is a sequence of syllables (Hangul characters).  `NormalizeSigungu`,
`CanonicalSido` with its table, and `RegionsMatch` are those of `crud.py`;
blanks around a name are left out.  `MCRegionNames` gives each of twenty-three
entries the ground it stands for, and TLC checks as assumptions of every
pipeline run that two names match exactly when they share ground, as written and
as stored, and that at most one entry of the sido table applies.  A further
assumption keeps the known limit in view: the docstring of `regions_match` says
that zones such as 제주도산지 are not caught by the prefix; in fact all zones
whose names begin with 제주도 match the city 제주시 and none matches 서귀포시.

### Dispatch

A dispatcher lists the unsent alerts once, takes them one by one, selects the
tokens of the user, sends to each and, at the end, commits `sent_at` and the
deletions.  FCM is external: it accepts, fails in passing, or answers that the
token is dead.  An answer has two parts, what `send` returns and whether FCM had
accepted: a push that is accepted and whose answer times out is an error to the
dispatcher (`push.py:96`), the alert stays unsent and is pushed again.
`Unheard` is that case, bounded by `MaxUnheard` (and with the crashes by
`MaxFaults`).  A dead token never comes back; `OpenPage` asks FCM for a token
(`getToken` renews a dead one) and `Register` posts it.  `pushes` counts what
FCM accepted for each alert and token, and `unheard` how often the dispatcher
was not told; the database knows neither.

### IngestGuard

Time is in minutes.  A call takes the time, reads `max(started_at)`, skips or
inserts its row, runs and completes the row, with the sources that failed in its
`errors` or, when every source was read, without (`collected`); an exception, or
a restart, leaves the row open.  A loop sleeps for the interval after each call, whatever the outcome.
The guard's statements take no time, a cycle up to `MaxCycle`.

### Registration

A tab makes one request at a time; `pc` is the request, `as` the user it was
authorised as.  Handlers that select and then insert do so in two steps: a
unique index makes the loser of a race answer 500, and `persons` has none.
`RequestFails` is a failure before or after the commit.  Logging in another
account in another tab changes what the first tab does next.

### PolledSources, RateLimiter

A behaviour follows one client: the clients of a cycle run one after the other
and do not meet.  Time is in slots, several to a day; the service publishes while
the fetch makes its calls: bulletins (`Snapshots` of what is in force), reports
on earthquakes, levels of stations.  `FetchWarnings` reads the newest bulletin
line by line, `FetchQuakes` one page of the last days' reports, `FetchStationInfo`
and `FetchLatestLevel` one call each, through the limiter; `SkipStation` passes a
station without thresholds.  HRFCO's answers have no pages.  Nothing is stored
before the last call is answered; `Fail` discards what was read.  External is
what services publish, and that a bulletin's line names the zones where a warning
is in force (or the province alone) beside those it names as excepted.
`steady` is history: the dangers the service has shown ever since the fetch
began.  A time that does not parse (`Unreadable`) makes the client date the event
by the fetch (`Dated`), so a report that several fetches read becomes an event in
each of them; that such a bulletin sorts in its place among the others is
assumed.

`RateLimiter` is `wait()`: the time is read, a thread that is early sleeps, maybe
longer than asked for, and the slot it slept for is booked.

### RiskMatrix, DisasterFeed, LlmChain

`RiskMatrix` is the loop over an arbitrary table, rule by rule;
`MCRiskMatrix` has the table of the code.  `DisasterFeed` has the two calls of
a fetch, messages that arrive in between, midnight, and `_store_event`'s notion
of a duplicate (one region, one moment).  The moment is the second of sending, or
for a message whose `CRT_DT` does not parse the place where this reading of a page
came to it (`SentAt`): it is a row of its own, and another one when its page is
read again.  Moments of reading are told apart up to `MaxReads` pages.  `LlmChain` has the threads of one
process in `chat`, the cooldowns they share, the kinds of failure and the two
callers: no text means the template, no judgement means no alert.

## 3. Runs

| Run | Asks | Bounds |
|---|---|---|
| `PipelineRaces` | Do two overlapping cycles, a request and a death leave a subscriber unalerted, does a session repeat what it told in an earlier commit, and is every step one of `Alerting`? | a warning; a request for its region, the city around it or a distant one, repeated; the two cycles are symmetric |
| `PipelineSerial` | When cycles do not overlap and sources repeat themselves, is a message told once, is a warning told in one commit, are Layer 2 alerts logged, is every pair settled? | a split warning, a message, a person with two subscriptions and one without a rule, one death, production's sessions (no autoflush) |
| `Dispatch` | Is an alert marked sent only if a device has it, are only dead tokens forgotten, how often may a push be repeated, is an alert sent in the end? | two overlapping dispatchers, two devices of a user, three tokens, an alert, a crash or a lost answer |
| `PolledSources` | Is what a service goes on showing stored in spite of all it publishes meanwhile, is only what it reported stored, do HRFCO's calls keep their rate? | four slots (three for HRFCO), each slot a day, four bulletins, three zones, a page of four, three stations of which one has no thresholds, a slot whose times cannot be read, one failed fetch |
| `IngestGuardSafe` | Are a thread's cycles apart, and is the data older than a period only by the runs that brought nothing? | a loop, a poster, gap 2, interval 1, cycles of a minute at most, 7 minutes (two periods and more) |
| `Registration` | Do races of tabs, retries and failures give one subscription, keep the limit and reach an end? | two tabs of one browser, two accounts, a limit of two, one failure |
| `RiskMatrix` | Does the code's table, evaluated by the code's loop, return the highest level, monotone in tags and severity? | every profile with up to all tags, magnitudes around 3 and 4 (tenths) |
| `DisasterFeed` | Is what a fetch was told of stored, only hazards, and each of them once however often its page is read? | page of two, three messages a day (an alarm for two regions, an alarm and a notice without a readable time), two days, one failed fetch |
| `LlmChain` | Does quarantine last as long as it should and no longer; does a pair with a rule get its alert? | two threads, two providers, cooldown 3, a chat of 1, five ticks, one restart |
| `PipelineNoAutoflush` | *violated*: the dedupe of a split warning | one cycle, one person with two subscriptions |
| `PipelineFailedCycle` | *violated*: an event of a failed cycle alerts in the end | one cycle, one death |
| `FeedPageTurn` | *violated*: the newest page is enough | page of two, four messages |

Why the bounds are enough to be of interest: every race here is between two
sessions (a third adds another of the same pairs), every dedupe rule relates two
rows, and every crash matters at one place at a time, so one death covers each
place.  The instances have exactly the second row, zone, device, page, tab or
provider that a rule can confuse with the first.  Each property has a plausible
error of the code (the `Mutant` definitions beside what they replace) under
which its run fails.

What the violated runs show:

* `PipelineNoAutoflush`: with the session options of production a person with
  two subscriptions that match one warning gets two notifications
  (`database.py:11`, `ingest.py:253`); the tests pass because their sessions
  autoflush.
* `PipelineFailedCycle`: a process that dies after it committed an event and
  before it evaluated it leaves existing subscribers unalerted for ever: the
  next cycle takes the event for stored (`ingest.py:139`).
* `FeedPageTurn`: when the count passes a multiple of the page size between two
  fetches, the rest of the old page is never read (`safety_disaster.py:74`).

Further configurations, to be run by hand (`tlc -config X.cfg MCAlertPipeline`
and so on), each with one property that TLC finds violated:

| Configuration | Property | What happens |
|---|---|---|
| `PipelineBackfillRace` | `OneAlertPerPair` | cycle and backfill consider one pair at once; there is no unique constraint |
| `PipelineTwoCycles` | `UniqueEvents` | two overlapping cycles insert one announcement twice |
| `PipelineWithheld` | `EventuallyJudged` | a withheld judgement is not retried (`risk_ai.py:64` says it is) |
| `PipelineIsolation` | `SourceFailureIsolated` | a region conflict in one source ends the whole cycle, unevaluated |
| `PipelineJudgements` | `OneJudgementPerCombination` | two sessions get two judgements of one combination |
| `DispatchCrash`, `DispatchOverlap` | `NoRepeatedPush` | a crash before the commit, or two cycles at once, repeat a push |
| `DispatchUnheard` | `NoRepeatedPush` | FCM accepts, the answer times out, the next cycle pushes again |
| `DispatchCount` | `RemovedCountExact` | a deleted token is selected and counted again (autoflush) |
| `DispatchPartial` | `EveryDeviceReached` | a device that failed is not tried again once another accepted, though each would accept if tried again and again (`TokenFairSpec`) |
| `PolledOversleep` | `CallsApart` | after a sleep that overran two calls are closer than the interval `hrfco_flood.py:40` speaks of; the rate is kept all the same (`CallsSpread`) |
| `PolledSwarm` | `SteadyIsStored` | more earthquake reports than a page: the older ones are never read |
| `IngestGuardRace`, `IngestGuardOverrun` | `Spacing`, `NoOverlap` | two callers at once; a cycle longer than the gap |
| `FeedSameSecond` | `DistinctMessagesKept` | two messages to one region in one second are one row, although `SN` tells them apart (`safety_disaster.py:12`): one is lost |

Noticed while reading, and not modelled: the pipeline never passes a magnitude
to `evaluate_risk` (`ingest.py:278`), so earthquakes always go to Layer 2, whose
cache key has no magnitude either; earthquakes from the live source have no
region, so they match no subscription.

## 4. Fairness

* `AlertPipeline`: a running cycle or request goes on (threads), the scheduler
  starts cycles for ever (`ingest_loop` has no exit), and an LLM asked again and
  again answers at last (strong fairness on `LlmAnswers`; without it a withheld
  pair proves nothing).  Requests need not be made.
* `Dispatch`: dispatchers and pages that are open go on, cycles come again, and
  of an alert that is pushed again and again to live tokens one push succeeds
  and is answered (for some dispatcher and some token: strong fairness per alert,
  not per device).  A page that is opened again and again takes its next step
  (weak fairness of `OpenPage` or `Register` per device).  Deaths, lost answers
  and dying tokens are bounded, not fair.
* `PolledSources`: the scheduler fetches for ever (weak fairness of `Fetch`);
  nothing is assumed of what the service publishes, and failed fetches are
  bounded.
* `Registration`: a served request is answered, and a user signs in and submits
  until it works.
* `DisasterFeed`: the scheduler fetches for ever; failed fetches are bounded.
* `LlmChain`: a call ends by its timeout (`llm.py:86`; httpx counts it per read,
  and `MaxChat` bounds the whole), and a thread in `chat` goes on.  Nothing is
  assumed of what providers answer.

`IngestGuard` and `RiskMatrix` need none: `Fresh` is a bound that safety
states, since time does not pass a loop that is due.  It does not say that the
data is fresh: a run may fail, be cut short or end with a source in error, and
then the data gets older by a period.  It says that nothing else makes it older.

## 5. Proofs

For every value of the constants that meets the named assumptions, every safety
property that the passing runs check is a theorem.  The runs check the same
formulas on their instances, so a theorem never stands on hypotheses that no
state meets: where a theorem has a hypothesis beyond the assumptions, it is said
here which run satisfies it and which configuration shows that it is needed.

* `AlertPipelineProofs`: types; `SessionDiscipline`; `EveryAlertOwed`: a stored
  pair that must alert is alerted, owed by a running session, or was in the
  hands of one that died.  This is the inductive form: it holds at every step
  because a subscription is committed before the backfill reads events and an
  event before the cycle reads subscriptions, so of the two commits the later
  one's session sees the earlier.  `NoMissedAlert` follows with the discipline:
  a session at rest owes nothing.  `AiAlertsLogged` is strengthened to each
  session's pending rows, `NoSpuriousAlert` to what sessions have in hand.
  `OwnAlertsNotRepeated`: what a session is asking about or about to add none of
  its own commits covers (`NotNotifiedBefore`), for a pair and for a person and a
  warning, because the dedupe select comes first, finds what was committed even
  without autoflush, and nobody else writes in its name.

  `Implements`: `Spec => ImplementsAlerting`, step by step.  It needs, beside
  the invariants above, that what a cycle has in hand is of one event and what a
  request has in hand of one subscription (`OneTopic`).

  `OneAlertPerMessage` and `RepeatsOnlyWithinALoop`: under the hypothesis
  `[]OneAtATime`, that one session, a cycle or a request, is at work at a time.
  Then a select that finds nothing is still right when its insert comes
  (`EventsUnique`: one row per announcement), and what a session has in hand,
  among itself and against the committed notifications, is one row per
  subscription and event (`PairsOnce`).  For the zones of a warning and the
  subscriptions of a person, no commit covers what a session has in hand
  (`HandsUncovered`), so what one commit told no later one tells again.  This
  holds with production's `autoflush=False`, for persons with any number of
  subscriptions; what that option breaks is left to one loop, which may tell a
  person twice of a warning (`PipelineNoAutoflush`).  `CyclesOneAtATime` derives
  the hypothesis for cycles that do not overlap, as in `PipelineSerial`.
  Without it both fail (`PipelineBackfillRace`, `PipelineTwoCycles`).
* `DispatchProofs`: types; `SentWasAccepted`, strengthened to what a dispatcher
  has marked; `OnlyDeadForgotten` from what FCM may answer; `RepeatsBounded`:
  each push of an alert to a token belongs to a dispatcher that has yet to commit,
  to a failure or to an answer that was lost, and the dispatchers are finitely
  many.  Of the program it follows that a push is repeated without bound only
  when crashes or lost answers are.
* `RegistrationProofs`: types (`RowsInv`), together with what makes the rows
  well-typed: a tab has at most one form and one person, has its form from the
  first request to the last and inserts only for a stored user (`TabsHold`); the
  tables are finite and a person's number tells it from all others
  (`FiniteTables`).  From these, `OneSubscription`.  `LimitKept` counts: a tab
  that is about to insert a person has counted fewer than the limit
  (`CountedBelow`), so an insert that finds more was `overtaken`.
  `RetryReuses` counts the rows of one label in the same way: between list and
  insert, as long as the user has as many persons as were listed, none has the
  form's label (`ListedWithout`); an insert after an outdated list is
  `outlisted`.  `DoneIsReachable`, an action property, from `ReachInv`: logins,
  persons and subscriptions belong to the account of the browser, and a form
  that comes to its device token is already subscribed (`SubscribedFirst`), the
  token being stored by the very step that registers the tab.
  The last two are for browsers that are used by one account (`OneAccount`; the
  instance has one).  The code does not ask for that: tabs share the session,
  `POST /subscriptions` does not ask whose person it is, and a login with
  another account in the middle of a form takes the rest of its requests along;
  that case is listed among the hazards.

  Also there: names of regions are normalised when stored and once more when
  compared; for names of any length that turns no match into a mismatch.
* `DisasterFeedProofs`: types with `FeedInv` (counts and rows are about messages
  that were sent, and the feed only grows).  `SeenIsStored`: what a count covers
  and the last page shows is a row for each of its regions, whatever was sent in
  between, because the last page of n messages ends with the n-th or after it
  (`LastPageEnds`).  `EachHazardOnce`: a row is about a hazard, for a region it
  was sent to, and a message with a readable time has one row a region, however
  often its page is read, since every reading gives it the same moment
  (`RowsDated`).  Nothing is claimed of two messages of one moment, which the
  code merges.
* `PolledSourcesProofs`: `CallsSpread`, from the invariant (`BookedAhead`) that
  the slot booked last is as many intervals after each call but the last as there
  were calls since.  Types and `RowsAreReported`, through rows not yet stored:
  what is read from a bulletin's line is what is in force on it (`LineIsRead`:
  excepted zones drop out, and a line without names stands for all zones), and
  the verdict on a level reaches the threshold it names.  `SteadyIsStored` from
  `OnItsWay`: while a fetch runs, each danger that was shown ever since it began
  is told of by a row, or a call that will tell of it is still to come; it stays
  so because the newest report is never older than the one that showed the
  danger first (`Source`, `LaterIsShown`) and a row is never dated before its
  report (`DateIsReported`), because bulletins and levels are one
  per slot (`OneReport`), and because a station that shows a danger has
  thresholds and is not skipped.  The hypothesis `[]PageFits`, that the reports
  on earthquakes fit the page while they are read, holds in the run (a page of
  four, two days of two reports) and is needed (`PolledSwarm`).
* `IngestGuardProofs`: types; `OwnSpacing`, with a caller past the check being a gap
  away from all its rows (`CheckedApart`).  The rule for two callers is false,
  and the invariant shows where: the check of one does not bind the other.
  `Fresh`, with each loop on time (`LoopsAreOnTime`): one that rests wakes within
  a period of the last run, one that is awake stands still in time or has a
  recent row.  So runs, whatever becomes of them, are never more than a period
  apart (`RowsCovered`: from any moment to a run, a period for each run between),
  and counting those since the last one that was `collected` gives the age of the
  data.
* `RiskMatrixProofs`: the loop's invariant (what is matched is the highest level
  of the rules looked at) gives `ResultIsHighest`, and that `MoreTagsNeverLower`,
  for every table.  `EscalationNeverLowers` is not true of every table: it is
  proved of those in which each rule for advisories has a rule that holds at
  warnings, catches the same persons and is no lower (`AdvisoriesCovered`), and
  the table of the code is proved to be one (`EscalationOfTheCode`).
* `LlmChainProofs`: a cooldown ends at most a period after the refusal it comes
  from and at least a period less a chat's length (`CooldownFromRefusal`),
  although threads overwrite each other's; hence `QuarantineHolds` and
  `FallbackJustified`.

That a non-empty set of naturals has a least element is proved where it is
needed (`LeastNatural`), without induction: of the sets of its elements up to
one of them one contains no other, since the strict subsets of finite sets are
well-founded.

Only model-checked: everything under fairness (`EventuallySettled`,
`EventuallySent`, `EventuallyAnswered`, `LastPageEventuallyStored`, `ShownIsStored`,
`RuledAlertDelivered`), which is out of the prover's reach, and the gazetteer of
`RegionNames`, whose names are an instance.

## 6. Left out, and why

* How a bulletin's text, an XML or a JSON answer is split into fields: the
  models begin with the fields.  A station's address is its region.
* The sample events that a client without an API key yields (`base.py:37`).
* Blanks around region names, and region codes, which nothing compares.
* Prompts, texts, redaction, rendering, static files, schemas, health: no state.
* Deleting users, persons or subscriptions: the API has no such operation; the
  only rows the program deletes are dead device tokens (`dispatch.py:55`).
* The exchange with login providers and the cookie's signature: a callback
  either gives a user or refuses.

## 7. Plan

Done in this order: `AlertPipeline` with its proofs, `Dispatch`, `IngestGuard`,
`Registration`, `RiskMatrix`, `DisasterFeed`, `LlmChain`; then `RateLimiter` and
`PolledSources` with the proof of the rate, `Alerting` with the refinement and
its proof, the bound on repeated pushes and its proof, `RegionNames`.

Then the proofs of the dedupe rules of `AlertPipeline`, of `Registration`,
`DisasterFeed` and `PolledSources`, and of escalations in `RiskMatrix`.

Next:

1. `Dispatch` from an abstract at-least-once delivery, by refinement and with
   its proof.
2. `DisasterFeed` and `PolledSources` from one abstract source whose events are
   stored once and never withdrawn.
