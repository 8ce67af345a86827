------------------------------ MODULE MacTables ------------------------------
(***************************************************************************)
(* The MAC table of one switch on its way to the screen: the poller reads it *)
(* from the device when a timer says so, keeps it in memory, stores a copy,  *)
(* and puts it on the board with every cycle; a request may read it at any   *)
(* time and changes the board only (services/poller_service.py,              *)
(* web/blueprints/dashboard.py, storage/repositories/device_repo.py).        *)
(*                                                                         *)
(* Whose turn the cycles are and which devices they poll is in PollCycle: the *)
(* switch is enabled here, and its driver can read MAC tables.  Entries that  *)
(* are filtered on the way (no port, ignored addresses) are left out.         *)
(***************************************************************************)
EXTENDS Naturals

CONSTANTS MacEntries,  \* addresses with their port
          RealTables,  \* tables the switch may have
          Period,      \* refresh_interval * mac_refresh_multiplier
          Nothing      \* no table, which is not an empty one

ASSUME MacAssumption ==
  /\ RealTables \subseteq SUBSET MacEntries
  /\ Period \in Nat \ {0}

VARIABLES actual,    \* the table in the switch
          inMemory,  \* _mac_tables
          sinceRead, \* time since _last_mac_scrape_times, at most Period
          rows,      \* table mac_table
          shown,     \* mac_table of the switch in _cached_data
          saved,     \* and in device_state_cache
          stage,     \* of the cycle: "idle", "polling", "storing", "polled"
          sinceNow,  \* time since the cycle took the time, at most Period
          due,       \* whether the timer had run out then
          result,    \* mac_table in the results of the cycle
          fetched,   \* what a request has read and not put on the board yet
          trouble    \* something may fail, or the process be started anew

macCycle == <<stage, sinceNow, due, result>>
macVars == <<actual, inMemory, sinceRead, rows, shown, saved, macCycle, fetched,
           trouble>>

NoMacCycle == stage = "idle" /\ sinceNow = 0 /\ due = FALSE /\ result = Nothing

\* The first start, or a service at rest that has everything it can have.
Settled(t) ==
  actual = t /\ inMemory = t /\ rows = t /\ shown = t /\ saved = t /\ sinceRead = 0

MacInit ==
  /\ \/ /\ actual \in RealTables
        /\ inMemory = Nothing /\ sinceRead = Period
        /\ rows = {} /\ shown = Nothing /\ saved = Nothing
     \/ \E t \in RealTables : Settled(t)
  /\ NoMacCycle /\ fetched = Nothing
  /\ trouble \in BOOLEAN

-----------------------------------------------------------------------------
(* The worker of the cycle.                                                *)

\* The time is taken once, for all that the cycle does.
BeginPoll ==
  /\ stage = "idle"
  /\ stage' = "polling" /\ sinceNow' = 0 /\ due' = (sinceRead = Period)
  /\ UNCHANGED <<actual, inMemory, sinceRead, rows, shown, saved, result, fetched,
                 trouble>>

Due == due \/ inMemory = Nothing

\* The worker is done and hands over table t.
HandOver(t) ==
  /\ stage' = "polled" /\ result' = t
  /\ UNCHANGED <<actual, shown, saved, sinceNow, due, fetched, trouble>>

InResult(t) == IF t = Nothing THEN {} ELSE t

ReadTable ==
  /\ stage = "polling" /\ Due
  /\ inMemory' = actual /\ sinceRead' = sinceNow
  /\ stage' = "storing"
  /\ UNCHANGED <<actual, rows, shown, saved, sinceNow, due, result,
                 fetched, trouble>>

\* update_mac_table replaces the rows in one transaction.
Store ==
  /\ stage = "storing"
  /\ rows' = inMemory
  /\ HandOver(inMemory)
  /\ UNCHANGED <<inMemory, sinceRead>>

NotYetDue ==
  /\ stage = "polling" /\ ~Due
  /\ HandOver(inMemory)
  /\ UNCHANGED <<inMemory, sinceRead, rows>>

-----------------------------------------------------------------------------
(* What may fail.                                                          *)

\* The switch does not answer: its table is the last one.
Offline ==
  /\ trouble /\ stage = "polling"
  /\ HandOver(InResult(inMemory))
  /\ UNCHANGED <<inMemory, sinceRead, rows>>

\* No driver for it, or the worker raises, be it after the table was read: the
\* entry has no table.
NoDriver ==
  /\ trouble /\ stage \in {"polling", "polled"}
  /\ HandOver({})
  /\ UNCHANGED <<inMemory, sinceRead, rows>>

\* The handler of both failures below: without a table, or with an empty one,
\* the stored copy is taken; if that cannot be read the worker raises.
FallBack ==
  IF inMemory \in {Nothing, {}}
    THEN \/ inMemory' = rows /\ HandOver(rows)
         \/ inMemory' = inMemory /\ HandOver({})
    ELSE inMemory' = inMemory /\ HandOver(inMemory)

ReadFails ==
  /\ trouble /\ stage = "polling" /\ Due
  /\ FallBack
  /\ UNCHANGED <<sinceRead, rows>>

\* The transaction fails; or only the deletion did, and the rows of the table
\* are merged with those that are there, unless that fails too, which is logged.
StoreFails ==
  /\ trouble /\ stage = "storing"
  /\ \/ FallBack /\ rows' = rows
     \/ rows' \in {rows, rows \cup inMemory} /\ HandOver(inMemory) /\ inMemory' = inMemory
  /\ UNCHANGED sinceRead

\* The end of a cycle: save_all_cached_device_states, whose failure is logged,
\* and the results become the board.
SaveResult ==
  /\ stage = "polled" /\ saved # result
  /\ saved' = result
  /\ UNCHANGED <<actual, inMemory, sinceRead, rows, shown, macCycle, fetched,
                 trouble>>

EndCycleMac ==
  /\ stage' = "idle" /\ sinceNow' = 0 /\ due' = FALSE /\ result' = Nothing

PutOnBoard ==
  /\ stage = "polled"
  /\ shown' = result
  /\ EndCycleMac
  /\ UNCHANGED <<actual, inMemory, sinceRead, rows, saved, fetched, trouble>>

\* The process stops or dies, and starts: the board comes from the snapshot, the
\* table in memory from the rows; either read may fail.
RestartPoller ==
  /\ trouble
  /\ shown' \in {saved, Nothing}
  /\ inMemory' \in {IF rows = {} THEN Nothing ELSE rows, Nothing}
  /\ sinceRead' = Period
  /\ EndCycleMac /\ fetched' = Nothing
  /\ UNCHANGED <<actual, rows, saved, trouble>>

-----------------------------------------------------------------------------
(* Requests, the network and time.                                         *)

\* refresh_mac reads the table; several requests are as good as the last.
Fetch ==
  /\ fetched = Nothing
  /\ fetched' = actual
  /\ UNCHANGED <<actual, inMemory, sinceRead, rows, shown, saved, macCycle, trouble>>

\* Mutant: the request counts as a reading of the poller.
ShowFetchedAsRead ==
  /\ fetched # Nothing
  /\ shown' = IF shown = Nothing THEN Nothing ELSE fetched
  /\ sinceRead' = 0 /\ fetched' = Nothing
  /\ UNCHANGED <<actual, inMemory, rows, saved, macCycle, trouble>>

ShowFetched ==
  /\ fetched # Nothing
  /\ shown' = IF shown = Nothing THEN Nothing ELSE fetched
  /\ fetched' = Nothing
  /\ UNCHANGED <<actual, inMemory, sinceRead, rows, saved, macCycle, trouble>>

\* The request fails, or the process ended before.
FetchFails ==
  /\ fetched # Nothing
  /\ fetched' = Nothing
  /\ UNCHANGED <<actual, inMemory, sinceRead, rows, shown, saved, macCycle, trouble>>

Rewire(t) ==
  /\ t # actual
  /\ actual' = t
  /\ UNCHANGED <<inMemory, sinceRead, rows, shown, saved, macCycle, fetched, trouble>>

Later(n) == IF n = Period THEN Period ELSE n + 1

TimePasses ==
  /\ sinceRead' = Later(sinceRead)
  /\ sinceNow' = IF stage = "idle" THEN 0 ELSE Later(sinceNow)
  /\ UNCHANGED <<actual, inMemory, rows, shown, saved, stage, due, result, fetched,
                 trouble>>

TroubleEnds ==
  /\ trouble
  /\ trouble' = FALSE
  /\ UNCHANGED <<actual, inMemory, sinceRead, rows, shown, saved, macCycle, fetched>>

MacFault == Offline \/ NoDriver \/ ReadFails \/ StoreFails \/ RestartPoller

MacNext ==
  \/ BeginPoll
  \/ ReadTable
  \/ Store
  \/ NotYetDue
  \/ MacFault
  \/ SaveResult
  \/ PutOnBoard
  \/ Fetch
  \/ ShowFetched
  \/ FetchFails
  \/ \E t \in RealTables : Rewire(t)
  \/ TimePasses
  \/ TroubleEnds

MacSpec == MacInit /\ [][MacNext]_macVars

\* The loop and its workers go on (PollCycle), a request ends, time passes, and
\* the failures and restarts end some day.
MacFairness ==
  /\ WF_macVars(BeginPoll)
  /\ WF_macVars(ReadTable \/ NotYetDue \/ Store)
  /\ WF_macVars(PutOnBoard)
  /\ WF_macVars(ShowFetched \/ FetchFails)
  /\ WF_macVars(TimePasses)
  /\ WF_macVars(TroubleEnds)

MacFairSpec == MacSpec /\ MacFairness

-----------------------------------------------------------------------------
(* Properties.                                                             *)

MaybeTable == (SUBSET MacEntries) \cup {Nothing}

MacTypeOK ==
  /\ actual \in RealTables
  /\ rows \subseteq MacEntries
  /\ inMemory \in MaybeTable /\ shown \in MaybeTable /\ saved \in MaybeTable
  /\ result \in MaybeTable /\ fetched \in MaybeTable
  /\ sinceRead \in 0 .. Period /\ sinceNow \in 0 .. Period
  /\ stage \in {"idle", "polling", "storing", "polled"}
  /\ due \in BOOLEAN /\ trouble \in BOOLEAN

\* What the dashboard and the map take: the table of the board, or the rows if
\* that has none.
Displayed == IF shown \in {Nothing, {}} THEN rows ELSE shown

\* When the table of the switch stays the same, it is the one displayed from
\* some time on, and stays: a cycle that puts an older table over the one a
\* request has just read, a request that comes late with an older one, a copy
\* that was not stored, a fallback to it or a restart from it are made up for by
\* the next reading of the poller, however often requests read the table.
TableCatchesUp ==
  \A t \in RealTables : <>[](actual = t) => <>[](Displayed = t)
=============================================================================
