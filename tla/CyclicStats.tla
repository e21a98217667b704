----------------------------- MODULE CyclicStats -----------------------------
(***************************************************************************)
(* The cadence the driver measures: updateCyclicStats at each SYNC, with   *)
(* the interval since the one before.  Durations are whole microseconds;   *)
(* the mean is kept as the sum it is divided out of.                       *)
(***************************************************************************)
EXTENDS Integers

CONSTANT nominal    \* config_.sync_period_us, 0 if there is none

VARIABLES seeded,   \* last_sync_time_ is set
          stats     \* stats_ and interval_sum_us_

statsVars == <<seeded, stats>>

Larger(a, b) == IF a < b THEN b ELSE a
Smaller(a, b) == IF a < b THEN a ELSE b
Distance(a, b) == IF a < b THEN b - a ELSE a - b

StatsInit ==
    /\ seeded = FALSE
    /\ stats = [cycles |-> 0, last |-> 0, min |-> 0, max |-> 0, sum |-> 0, jitter |-> 0]

\* The first SYNC seeds the time, the second the extremes.
updateCyclicStats(interval) ==
    /\ seeded' = TRUE
    /\ stats' = IF ~seeded THEN stats ELSE
         [cycles |-> stats.cycles + 1,
          last   |-> interval,
          min    |-> IF stats.cycles = 0 THEN interval ELSE Smaller(stats.min, interval),
          max    |-> IF stats.cycles = 0 THEN interval ELSE Larger(stats.max, interval),
          sum    |-> stats.sum + interval,
          jitter |-> IF nominal > 0
                     THEN Larger(stats.jitter, Distance(interval, nominal))
                     ELSE stats.jitter]

StatsNext == \E interval \in Nat : updateCyclicStats(interval)
StatsSpec == StatsInit /\ [][StatsNext]_statsVars
-----------------------------------------------------------------------------
\* The mean lies between the extremes, and so does the last interval; the
\* jitter is that of the extreme further from the nominal period.
StatsAgree ==
    stats.cycles > 0 =>
        /\ stats.min <= stats.last /\ stats.last <= stats.max
        /\ stats.min * stats.cycles <= stats.sum
        /\ stats.sum <= stats.max * stats.cycles
        /\ nominal > 0 =>
               stats.jitter = Larger(Distance(stats.min, nominal),
                                     Distance(stats.max, nominal))
==============================================================================
