---------------------------- MODULE MetricRollup ----------------------------
(***************************************************************************)
(* The history of one port in the database: raw samples, written by every   *)
(* poll cycle, and hourly trends, rebuilt from them by the housekeeper      *)
(* (storage/housekeeper.py, repositories/metric_repo.py).  Ports do not      *)
(* share anything here but the times at which the housekeeper runs.          *)
(*                                                                         *)
(* A sample is known by its timestamp.  A trend holds count, average,       *)
(* maximum and minimum of samples of its hour; here it is the set of the    *)
(* samples it was computed from.  The housekeeper reads outside of any      *)
(* transaction, statement by statement (SQLite begins one with the first    *)
(* write), so that cycles and resets come between.                          *)
(***************************************************************************)
EXTENDS Integers

CONSTANTS HourLen,     \* length of an hour
          RollupLag,   \* age from which samples are rolled up (two hours)
          CycleLen,    \* bound: how long a poll cycle takes
          Retentions,  \* settings: how long samples and trends are kept
          Idle,        \* the housekeeper does nothing
          MaxTime      \* bound: the clock

Times     == 0..MaxTime
HourOf(s) == s \div HourLen
Hours     == 0..MaxTime
NoTrends  == [h \in Hours |-> {}]
Trends    == [Hours -> SUBSET Times]
\* What a run of the housekeeper has read.
Run       == [at : Times, sums : Trends, found : Trends, todo : SUBSET Hours]

ASSUME RollupAssumption ==
  /\ HourLen \in Nat \ {0} /\ RollupLag \in Nat /\ CycleLen \in Nat /\ MaxTime \in Nat
  /\ CycleLen < RollupLag
  /\ Retentions \subseteq [raw : {n \in Nat : n >= RollupLag}, trends : Nat]
  /\ Idle \notin Run

VARIABLES clock,
          raw,       \* table metric_history
          trends,    \* table metric_trends; {}: no row
          work,      \* what the housekeeper has read, or Idle
          recorded,  \* samples recorded since the last reset
          done,      \* up to here samples have been rolled up
          horizon    \* older samples or trends may have been purged

rollupVars == <<clock, raw, trends, work, recorded, done, horizon>>

RollupInit ==
  /\ clock = 0
  /\ raw = {} /\ recorded = {}
  /\ trends = NoTrends
  /\ work = Idle
  /\ done = -RollupLag
  /\ horizon = 0

Tick ==
  /\ clock < MaxTime
  /\ clock' = clock + 1
  /\ UNCHANGED <<raw, trends, work, recorded, done, horizon>>

\* record_samples_batch at the end of a cycle that began at s
Record(s) ==
  /\ s \notin raw
  /\ s <= clock /\ clock <= s + CycleLen
  /\ raw' = raw \cup {s}
  /\ recorded' = recorded \cup {s}
  /\ UNCHANGED <<clock, trends, work, done, horizon>>

\* reset_all_counters: one transaction
ResetHistory ==
  /\ raw' = {} /\ recorded' = {}
  /\ trends' = NoTrends
  /\ UNCHANGED <<clock, work, done, horizon>>

-----------------------------------------------------------------------------
(* The housekeeper.                                                        *)

\* Mutant: only what the last run has not rolled up is read.
OldSamplesOnce == {s \in raw : done < s /\ s <= clock - RollupLag}

OldSamples == {s \in raw : s <= clock - RollupLag}

\* The samples are summed up by hour.
Collect ==
  /\ work = Idle
  /\ work' = [at    |-> clock,
              sums  |-> [h \in Hours |-> {s \in OldSamples : HourOf(s) = h}],
              found |-> NoTrends,
              todo  |-> {HourOf(s) : s \in OldSamples}]
  /\ UNCHANGED <<clock, raw, trends, recorded, done, horizon>>

\* The trend of an hour is looked up.
LookUp(h) ==
  /\ work # Idle
  /\ h \in work.todo
  /\ work' = [work EXCEPT !.found[h] = trends[h], !.todo = @ \ {h}]
  /\ UNCHANGED <<clock, raw, trends, recorded, done, horizon>>

Expired(h, keep) == h * HourLen < work.at - keep.trends
Changed(h) == work.sums[h] # {} /\ work.found[h] # {} /\ work.sums[h] # work.found[h]

\* The trends after the transaction: expired ones go first, then new ones are
\* added and changed ones written.
Rolled(keep) ==
  [h \in Hours |->
     IF work.sums[h] # {} /\ work.found[h] = {} THEN work.sums[h]
     ELSE IF Expired(h, keep) THEN {}
     ELSE IF Changed(h) THEN work.sums[h]
     ELSE trends[h]]

\* Mutant: samples are purged by the time of the purge.
PurgedNow(keep) == {s \in raw : s < clock - keep.raw}

Purged(keep) == {s \in raw : s < work.at - keep.raw}

Later(a, b) == IF a > b THEN a ELSE b

\* A changed trend that is no longer there makes the transaction fail.
Store(keep) ==
  /\ work # Idle
  /\ work.todo = {}
  /\ \A h \in Hours : Changed(h) /\ ~Expired(h, keep) => trends[h] # {}
  /\ raw' = raw \ Purged(keep)
  /\ trends' = Rolled(keep)
  /\ work' = Idle
  /\ done' = work.at - RollupLag
  /\ horizon' = Later(horizon, Later(work.at - keep.raw, work.at - keep.trends))
  /\ UNCHANGED <<clock, recorded>>

\* Any statement of the run may fail, and the process may end.
GiveUp ==
  /\ work # Idle
  /\ work' = Idle
  /\ UNCHANGED <<clock, raw, trends, recorded, done, horizon>>

RollupNext ==
  \/ Tick
  \/ \E s \in Times : Record(s)
  \/ ResetHistory
  \/ Collect
  \/ \E h \in Hours : LookUp(h)
  \/ \E keep \in Retentions : Store(keep)
  \/ GiveUp

RollupSpec == RollupInit /\ [][RollupNext]_rollupVars

-----------------------------------------------------------------------------
\* The variables have their types.
RollupTypeOK ==
  /\ clock \in Times
  /\ raw \in SUBSET Times /\ recorded \in SUBSET Times
  /\ trends \in Trends
  /\ work \in Run \cup {Idle}
  /\ done \in Int /\ horizon \in Int

\* The trend of every hour that the housekeeper has reached and no retention
\* has begun to eat away has all samples recorded in that hour, however runs,
\* cycles, failures and resets (housekeeper.py:55-97) fall together.  Of the
\* hour in which the retention of the samples ends, the next run makes a trend
\* of the samples that are left: such hours are beyond the horizon.
TrendsComplete ==
  \A s \in recorded :
    s <= done /\ horizon <= HourOf(s) * HourLen => s \in trends[HourOf(s)]

\* The housekeeper purges no sample (housekeeper.py:106-108) that is not in the trend
\* of its hour at that moment, unless that trend has expired itself.
CountedBeforePurged ==
  [][\A s \in raw :
       s \notin raw' =>
         \/ raw' = {} /\ trends' = NoTrends
         \/ s \in trends'[HourOf(s)]
         \/ HourOf(s) * HourLen < horizon' /\ trends'[HourOf(s)] = {}]_rollupVars
=============================================================================
