---------------------------- MODULE IngestGuard ----------------------------
(***************************************************************************)
(* Who may run an ingestion cycle and when: run_ingestion_cycle_guarded    *)
(* over the table ingest_runs, called by the scheduler loops of            *)
(* app/scheduler.py and by POST /events/ingest.  A loop belongs to an      *)
(* instance of the service, a poster is a thread that serves the endpoint; *)
(* each makes one call at a time.  Time is in minutes; the guard's own     *)
(* statements take less than one, a cycle takes up to MaxCycle.            *)
(***************************************************************************)
EXTENDS Naturals, FiniteSets

CONSTANTS
  Loops,      \* scheduler loops (SCHEDULER_ENABLED)
  Posters,    \* threads serving POST /events/ingest
  MinGap,     \* ingest_min_gap_minutes
  Interval,   \* ingest_interval_minutes
  MaxCycle,   \* bound: the longest a cycle takes
  MaxTime     \* bound: minutes explored

Callers == Loops \cup Posters

ASSUME GuardAssumption ==
  /\ Loops \cap Posters = {}
  /\ MinGap \in Nat \ {0} /\ Interval \in Nat /\ MaxCycle \in Nat /\ MaxTime \in Nat

VARIABLES
  now,        \* the wall clock
  runs,       \* table ingest_runs: [by, at], at being started_at
  finished,   \* the rows whose finished_at is set
  collected,  \* those of them whose errors are NULL: every source was read
  pc,         \* a caller's place in the guard
  start,      \* its local variable now
  wake        \* when a loop's sleep ends; a poster may call at any time

vars == <<now, runs, finished, collected, pc, start, wake>>

Init ==
  /\ now = 0 /\ runs = {} /\ finished = {} /\ collected = {}
  /\ pc = [c \in Callers |-> "idle"]
  /\ start = [c \in Callers |-> 0]
  /\ wake = [c \in Callers |-> 0]

Goto(c, label) == pc' = [pc EXCEPT ![c] = label]

Row(c) == [by |-> c, at |-> start[c]]

\* Back from a call: a loop sleeps for the interval, whatever the outcome.
SleepUntil(c, t) == wake' = [wake EXCEPT ![c] = IF c \in Loops THEN t ELSE 0]

Return(c) == Goto(c, "idle") /\ SleepUntil(c, now + Interval)

\* The call: the current time is taken first.
Call(c) ==
  /\ pc[c] = "idle" /\ wake[c] <= now
  /\ start' = [start EXCEPT ![c] = now]
  /\ Goto(c, "check")
  /\ UNCHANGED <<now, runs, finished, collected, wake>>

\* Mutant: only completed runs are looked at.
TooSoonAfterFinished(t) == \E r \in finished : t < r.at + MinGap

\* now - max(started_at) < the minimum gap.
TooSoon(t) == \E r \in runs : t < r.at + MinGap

Skip(c) ==
  /\ pc[c] = "check" /\ TooSoon(start[c])
  /\ Return(c)
  /\ UNCHANGED <<now, runs, finished, collected, start>>

Pass(c) ==
  /\ pc[c] = "check" /\ ~TooSoon(start[c])
  /\ Goto(c, "insert")
  /\ UNCHANGED <<now, runs, finished, collected, start, wake>>

\* Mutant: the row is not committed before the cycle.
InsertNothing(c) ==
  /\ pc[c] = "insert"
  /\ Goto(c, "cycle")
  /\ UNCHANGED <<now, runs, finished, collected, start, wake>>

\* The run's row is committed before the cycle starts.
InsertRun(c) ==
  /\ pc[c] = "insert"
  /\ runs' = runs \cup {Row(c)}
  /\ Goto(c, "cycle")
  /\ UNCHANGED <<now, finished, collected, start, wake>>

\* The cycle ends and the row is completed.  A source that failed is in the
\* row's errors; the others were read all the same.
FinishRun(c) ==
  /\ pc[c] = "cycle"
  /\ finished' = finished \cup {Row(c)}
  /\ \/ collected' = collected \cup {Row(c)}
     \/ UNCHANGED collected
  /\ Return(c)
  /\ UNCHANGED <<now, runs, start>>

\* Mutant: the exception ends the loop.
FailLoop(c) ==
  /\ pc[c] = "cycle"
  /\ Goto(c, "idle") /\ SleepUntil(c, MaxTime + 1)
  /\ UNCHANGED <<now, runs, finished, collected, start>>

\* An exception leaves the cycle: the loop logs it, the request answers 500.
FailRun(c) ==
  /\ pc[c] = "cycle"
  /\ Return(c)
  /\ UNCHANGED <<now, runs, finished, collected, start>>

\* The instance restarts (lifespan): its loop calls at once.
Restart(c) ==
  /\ pc[c] # "idle"
  /\ Goto(c, "idle")
  /\ SleepUntil(c, now)
  /\ UNCHANGED <<now, runs, finished, collected, start>>

\* A minute passes; a loop that is due, a guard and a cycle at its longest
\* do not wait for it.
Tick ==
  /\ now < MaxTime
  /\ \A c \in Loops : pc[c] = "idle" => now < wake[c]
  /\ \A c \in Callers :
       /\ pc[c] = "cycle" => now < start[c] + MaxCycle
       /\ pc[c] \notin {"check", "insert"}
  /\ now' = now + 1
  /\ UNCHANGED <<runs, finished, collected, pc, start, wake>>

Next ==
  \/ Tick
  \/ \E c \in Callers :
       \/ Call(c) \/ Skip(c) \/ Pass(c) \/ InsertRun(c)
       \/ FinishRun(c) \/ FailRun(c) \/ Restart(c)

Spec == Init /\ [][Next]_vars

(***************************************************************************)
(* Properties.                                                             *)
(***************************************************************************)
Rows == [by : Callers, at : Nat]

\* The clock, the table and the callers' places have their types, and only a
\* run that was recorded is ever completed.
TypeOK ==
  /\ now \in Nat
  /\ runs \subseteq Rows /\ finished \subseteq runs /\ collected \subseteq finished
  /\ pc \in [Callers -> {"idle", "check", "insert", "cycle"}]
  /\ start \in [Callers -> Nat]
  /\ wake \in [Callers -> Nat]
  /\ \A c \in Callers : pc[c] = "cycle" => Row(c) \in runs

\* One caller never starts two cycles within the minimum gap, however its
\* calls interleave with others', fail or are cut short by restarts: the row
\* is committed before the cycle and read by the caller's next call.
OwnSpacing ==
  \A r, q \in runs : r.by = q.by /\ r # q =>
    r.at >= q.at + MinGap \/ q.at >= r.at + MinGap

\* Cycles are never duplicated: two starts are the minimum gap apart,
\* whoever the callers are.
Spacing ==
  \A r, q \in runs : r # q => r.at >= q.at + MinGap \/ q.at >= r.at + MinGap

\* A cycle that is running keeps later calls out: two cycles at once can only
\* have started in the same minute.
NoOverlap ==
  \A c, d \in Callers :
    pc[c] = "cycle" /\ pc[d] = "cycle" => start[c] = start[d]

\* One sleep and one cycle or one guard gap: the longest a loop goes without
\* a run.
FreshnessBound == Interval + (IF MaxCycle > MinGap THEN MaxCycle ELSE MinGap)

\* When the last run that read every source began; 0 before the first.
Collections == {0} \cup {r.at : r \in collected}
LastCollected == CHOOSE t \in Collections : \A u \in Collections : u <= t

\* The runs since: they failed, were cut short, ended with errors or go on.
RunsSince(t) == {r \in runs : r.at > t}

\* While a loop is up, the data is older than one period only by the runs that
\* did not bring it: each of them costs at most one period, and skipped calls,
\* requests to the endpoint, exceptions and restarts cost nothing else.
Fresh ==
  Loops # {} =>
    now <= LastCollected + (1 + Cardinality(RunsSince(LastCollected))) * FreshnessBound
=============================================================================
