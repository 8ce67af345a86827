------------------------------ MODULE PollCycle ------------------------------
(***************************************************************************)
(* The cycles of the poller: a background thread polls the enabled devices  *)
(* in parallel and replaces the board the dashboard shows; request threads  *)
(* change the configuration and start cycles of their own; a lock that is   *)
(* only tried keeps two cycles from overlapping                             *)
(* (services/poller_service.py, config.py, web/blueprints/config.py).       *)
(*                                                                         *)
(* A device is on the board or not: what a cycle says of it is left to the  *)
(* modules of the parts, MacTables, PortCounters and ClientTracking.        *)
(***************************************************************************)
EXTENDS Naturals

CONSTANTS Devices,     \* devices the configuration may hold
          MaxRestarts  \* bound on the restarts of the process

ASSUME PollAssumption == MaxRestarts \in Nat

VARIABLES enabled,    \* the devices enabled in the configuration
          cfgCached,  \* _cached_config is not None
          loop,       \* "ready", "polling", "waiting": the background thread
          triggered,  \* a manual poll thread has not tried the lock yet
          stopping,   \* _stop_event
          holder,     \* of _poll_lock: "none", "loop", "manual" or "reset"
          phase,      \* "idle", "pruning", "polling", "publishing"
          targets,    \* active_switches of the cycle
          todo,       \* those of them whose worker is not done
          results,    \* devices in the results of the cycle
          cached,     \* devices in _cached_data, the board
          snapshots,  \* devices in table device_state_cache
          restarts

configVars == <<enabled, cfgCached>>
cycleVars  == <<holder, phase, targets, todo, results>>
pollVars == <<configVars, loop, triggered, stopping, cycleVars, cached, snapshots,
          restarts>>

PollInit ==
  /\ enabled \in SUBSET Devices
  /\ cfgCached = TRUE
  /\ loop = "ready" /\ triggered = FALSE /\ stopping = FALSE
  /\ holder = "none" /\ phase = "idle"
  /\ targets = {} /\ todo = {} /\ results = {}
  /\ cached = {} /\ snapshots = {}
  /\ restarts = 0

-----------------------------------------------------------------------------
(* The threads that want the lock.                                         *)

\* load_config re-reads the database after a change; if that fails it returns
\* the default configuration, in which there are no devices.
ConfigRead(on) ==
  \/ on = enabled /\ cfgCached' = TRUE
  \/ ~cfgCached /\ on = {} /\ cfgCached' = FALSE

\* The lock is taken and the configuration read.
Begin(h, on) ==
  /\ holder = "none"
  /\ ConfigRead(on)
  /\ holder' = h
  /\ phase' = "pruning"
  /\ targets' = on
  /\ UNCHANGED <<enabled, stopping, todo, results, cached, snapshots, restarts>>

LoopStarts(on) ==
  /\ loop = "ready" /\ ~stopping
  /\ Begin("loop", on)
  /\ loop' = "polling"
  /\ UNCHANGED triggered

\* Mutant: an error ends the loop.
LoopPassesForGood ==
  /\ loop = "ready" /\ ~stopping
  /\ loop' = "ended"
  /\ UNCHANGED <<configVars, triggered, stopping, cycleVars, cached, snapshots,
                 restarts>>

\* The lock is taken, or reading the counters raises.
LoopPasses ==
  /\ loop = "ready" /\ ~stopping
  /\ loop' = "waiting"
  /\ UNCHANGED <<configVars, triggered, stopping, cycleVars, cached, snapshots,
                 restarts>>

LoopWakes ==
  /\ loop = "waiting" /\ ~stopping
  /\ loop' = "ready"
  /\ UNCHANGED <<configVars, triggered, stopping, cycleVars, cached, snapshots,
                 restarts>>

ManualStarts(on) ==
  /\ triggered
  /\ Begin("manual", on)
  /\ triggered' = FALSE
  /\ UNCHANGED loop

ManualPasses ==
  /\ triggered
  /\ triggered' = FALSE
  /\ UNCHANGED <<configVars, loop, stopping, cycleVars, cached, snapshots,
                 restarts>>

\* reset_all_counters waits for the lock and keeps it while it works.
ResetBegins ==
  /\ holder = "none"
  /\ holder' = "reset"
  /\ UNCHANGED <<configVars, loop, triggered, stopping, phase, targets, todo,
                 results, cached, snapshots, restarts>>

ResetEnds ==
  /\ holder = "reset"
  /\ holder' = "none"
  /\ UNCHANGED <<configVars, loop, triggered, stopping, phase, targets, todo,
                 results, cached, snapshots, restarts>>

-----------------------------------------------------------------------------
(* The cycle.                                                              *)

\* The cycle returns or raises: the lock is released and the loop waits.
End ==
  /\ phase' = "idle"
  /\ targets' = {} /\ todo' = {} /\ results' = {}
  /\ holder' = "none"
  /\ loop' = IF holder = "loop" THEN "waiting" ELSE loop

\* Disabled devices leave the board.  Without any enabled device the cycle is
\* over at once.
Prune ==
  /\ phase = "pruning"
  /\ cached' = cached \cap targets
  /\ IF targets = {}
       THEN End
       ELSE /\ phase' = "polling" /\ todo' = targets
            /\ UNCHANGED <<loop, holder, targets, results>>
  /\ UNCHANGED <<configVars, triggered, stopping, snapshots, restarts>>

\* Mutants: a worker that raises leaves no entry; the error ends the cycle
\* with the lock held.
PollDeviceLost(d) ==
  /\ phase = "polling" /\ d \in todo /\ ~stopping
  /\ todo' = todo \ {d}
  /\ results' \in {results, results \cup {d}}
  /\ UNCHANGED <<configVars, loop, triggered, stopping, holder, phase, targets,
                 cached, snapshots, restarts>>

PollDeviceRaises(d) ==
  /\ phase = "polling" /\ d \in todo /\ ~stopping
  /\ phase' = "idle" /\ todo' = {} /\ results' = {}
  /\ loop' = IF holder = "loop" THEN "waiting" ELSE loop
  /\ UNCHANGED <<configVars, triggered, stopping, holder, targets, cached,
                 snapshots, restarts>>

\* A worker ends; one that raises leaves an entry with the error.
PollDevice(d) ==
  /\ phase = "polling" /\ d \in todo /\ ~stopping
  /\ todo' = todo \ {d}
  /\ results' = results \cup {d}
  /\ UNCHANGED <<configVars, loop, triggered, stopping, holder, phase, targets,
                 cached, snapshots, restarts>>

\* stop() during a cycle: the workers that are not done are given up.
GiveUp ==
  /\ phase = "polling" /\ stopping /\ todo # {}
  /\ todo' = {}
  /\ UNCHANGED <<configVars, loop, triggered, stopping, holder, phase, targets,
                 results, cached, snapshots, restarts>>

\* save_all_cached_device_states adds or replaces the rows of the devices
\* polled; a failure is logged.  Counters and clients are handled beside it.
SaveSnapshots ==
  /\ phase = "polling" /\ todo = {}
  /\ snapshots' \in {snapshots, snapshots \cup results}
  /\ phase' = "publishing"
  /\ UNCHANGED <<configVars, loop, triggered, stopping, holder, targets, todo,
                 results, cached, restarts>>

\* Mutant: the results are added to the board, as if it were the snapshots.
PublishMerges ==
  /\ phase = "publishing"
  /\ cached' = snapshots \cup results
  /\ End
  /\ UNCHANGED <<configVars, triggered, stopping, snapshots, restarts>>

Publish ==
  /\ phase = "publishing"
  /\ cached' = results
  /\ End
  /\ UNCHANGED <<configVars, triggered, stopping, snapshots, restarts>>

-----------------------------------------------------------------------------
(* Request threads and the process.                                        *)

\* A device is added, removed, enabled or disabled; some of the requests start
\* a poll.
ChangeConfig(d) ==
  /\ enabled' = IF d \in enabled THEN enabled \ {d} ELSE enabled \cup {d}
  /\ cfgCached' = FALSE
  /\ triggered' \in {triggered, TRUE}
  /\ UNCHANGED <<loop, stopping, cycleVars, cached, snapshots, restarts>>

\* A request reads the configuration.
ReadConfig ==
  /\ ~cfgCached
  /\ cfgCached' = TRUE
  /\ UNCHANGED <<enabled, loop, triggered, stopping, cycleVars, cached, snapshots,
                 restarts>>

Stop ==
  /\ ~stopping /\ restarts < MaxRestarts
  /\ stopping' = TRUE
  /\ UNCHANGED <<configVars, loop, triggered, cycleVars, cached, snapshots,
                 restarts>>

\* After stop() or a crash; the board is filled from the snapshots of every
\* device that was ever polled, unless reading them fails.
Restart ==
  /\ restarts < MaxRestarts
  /\ restarts' = restarts + 1
  /\ cached' \in {snapshots, {}}
  /\ cfgCached' \in BOOLEAN
  /\ loop' = "ready" /\ triggered' = FALSE /\ stopping' = FALSE
  /\ holder' = "none" /\ phase' = "idle"
  /\ targets' = {} /\ todo' = {} /\ results' = {}
  /\ UNCHANGED <<enabled, snapshots>>

Starts == \E on \in {enabled, {}} : LoopStarts(on) \/ ManualStarts(on)

PollNext ==
  \/ Starts
  \/ LoopPasses
  \/ LoopWakes
  \/ ManualPasses
  \/ ResetBegins
  \/ ResetEnds
  \/ Prune
  \/ \E d \in Devices : PollDevice(d)
  \/ GiveUp
  \/ SaveSnapshots
  \/ Publish
  \/ \E d \in Devices : ChangeConfig(d)
  \/ ReadConfig
  \/ Stop
  \/ Restart

PollSpec == PollInit /\ [][PollNext]_pollVars

\* The loop runs until stop(), after which the process ends and is started
\* again; every scrape has a timeout and every write of the database ends.  The
\* reads do not fail for ever.  The users do not reset the counters for ever: the
\* loop only tries the lock, and resets could hold it at each of its attempts.
PollFairness ==
  /\ WF_pollVars(Prune)
  /\ \A d \in Devices : WF_pollVars(PollDevice(d))
  /\ WF_pollVars(GiveUp) /\ WF_pollVars(SaveSnapshots) /\ WF_pollVars(Publish)
  /\ WF_pollVars(ResetEnds)
  /\ WF_pollVars(LoopPasses) /\ WF_pollVars(LoopWakes)
  /\ SF_pollVars((LoopStarts(enabled) \/ ManualStarts(enabled)) /\ cfgCached')
  /\ WF_pollVars(stopping /\ Restart)
  /\ <>[][~ResetBegins]_pollVars

PollFairSpec == PollSpec /\ PollFairness

-----------------------------------------------------------------------------
(* Properties.                                                             *)

PollTypeOK ==
  /\ enabled \subseteq Devices /\ cfgCached \in BOOLEAN
  /\ loop \in {"ready", "polling", "waiting"}
  /\ triggered \in BOOLEAN /\ stopping \in BOOLEAN
  /\ holder \in {"none", "loop", "manual", "reset"}
  /\ phase \in {"idle", "pruning", "polling", "publishing"}
  /\ targets \subseteq Devices
  /\ todo \subseteq targets /\ results \subseteq targets \ todo
  /\ cached \subseteq Devices /\ snapshots \subseteq Devices
  /\ restarts \in 0 .. MaxRestarts

\* The threads agree on who is polling, so cycles never overlap, nor does a
\* reset of the counters with a cycle: the lock is held for a cycle exactly
\* while one is in progress, and by the background thread exactly while that
\* thread is in its cycle.
CyclesExclusive ==
  /\ holder \in {"loop", "manual"} <=> phase # "idle"
  /\ holder = "loop" <=> loop = "polling"

\* A device leaves the board only when the configuration the cycle has read
\* does not enable it or when the process stops: whatever its own worker or
\* those of the other devices do, a failed poll shows it as offline.
TargetsStayShown ==
  [][\A d \in cached \ cached' :
       d \notin targets \/ stopping \/ restarts' # restarts]_pollVars

\* The board only gains devices that the configuration enabled when the cycle
\* began, or, when the process starts, devices polled before.
OnlyTargetsAppear ==
  [][\A d \in cached' \ cached : d \in targets \/ restarts' # restarts]_pollVars

\* A device that stays disabled leaves the board for good, although a cycle
\* that began before shows it again and a restart brings back its snapshot; for
\* that the lock must be released whatever fails.
DisabledDisappears ==
  \A d \in Devices : <>[](d \notin enabled) => <>[](d \notin cached)

\* A device that stays enabled is on the board again and again: a request to
\* poll may be dropped while a cycle runs that knows nothing of the device,
\* but the loop makes up for it.
EnabledAppears ==
  \A d \in Devices : <>[](d \in enabled) => []<>(d \in cached)
=============================================================================
