---------------------------- MODULE RateLimiter ----------------------------
(***************************************************************************)
(* _RateLimiter of app/ingestion/hrfco_flood.py: before each call the one  *)
(* thread that owns the limiter waits until the next call is allowed.      *)
(* Sleeping may take longer than asked for, and an answer takes any time.  *)
(* The clock is time.monotonic() since the limiter was made; nextAllowed   *)
(* is 0 where the code has None (no clock shows less).                     *)
(***************************************************************************)
EXTENDS Naturals, Sequences

CONSTANTS
  Interval,   \* _min_interval, in ticks
  MaxDelay    \* bound: by how much a sleep overruns, how long an answer takes

ASSUME LimiterAssumption == Interval \in Nat \ {0} /\ MaxDelay \in Nat

VARIABLES clock, nextAllowed,
          calls   \* history: when the calls of this limiter were made

limiterVars == <<clock, nextAllowed, calls>>

\* __init__: a client makes a limiter of its own.
NewLimiter ==
  /\ clock' = 0 /\ nextAllowed' = 0 /\ calls' = <<>>

LimiterInit ==
  /\ clock = 0 /\ nextAllowed = 0 /\ calls = <<>>

\* When a call that is asked for now is due: at once, or after a sleep.
Due == IF clock < nextAllowed THEN nextAllowed ELSE clock

\* Due, or later if the thread had to sleep.
Awake == IF clock < nextAllowed THEN Due..(Due + MaxDelay) ELSE {clock}

\* Mutant: only a call that had to sleep books the next slot.
RecordAfterSleep == IF clock < nextAllowed THEN Due + Interval ELSE nextAllowed

\* The code books the slot it slept for, not the time at which it woke.
Record == Due + Interval

\* wait(), the call and its answer (or failure).
Wait ==
  \E t \in Awake, latency \in 0..MaxDelay :
    /\ calls' = Append(calls, t)
    /\ clock' = t + latency
    /\ nextAllowed' = Record

\* Of the calls of one limiter, all but one of any run of calls are an
\* interval apart: n + 2 calls never fit into n intervals, however sleeps
\* overrun, so a minute sees at most max_per_minute + 1 of them.  (Two calls
\* alone may be closer: the one that woke late keeps the slot it had.)
CallsSpread ==
  \A i, j \in DOMAIN calls :
    i < j => calls[j] >= calls[i] + (j - i - 1) * Interval

\* Two calls are an interval apart (hrfco_flood.py:40).
CallsApart ==
  \A i \in DOMAIN calls : i + 1 \in DOMAIN calls => calls[i + 1] >= calls[i] + Interval
=============================================================================
