--------------------------- MODULE PollCycleProofs ---------------------------
(***************************************************************************)
(* The poll cycles of module PollCycle, for any set of devices and any      *)
(* number of restarts, and the copies of a table of module MacTables.       *)
(* Fairness is not used: the theorems are about PollSpec and MacSpec.       *)
(***************************************************************************)
EXTENDS PollCycle, MacTables, TLAPS

-----------------------------------------------------------------------------
(* The inductive invariant.                                                *)

\* Between cycles, and until the workers start, nothing is left of a cycle.
NothingCollected ==
  phase \in {"idle", "pruning"} => todo = {} /\ results = {}

\* Until the process is told to stop, every device of the cycle has an entry
\* or a worker at work.
EveryTargetCovered ==
  phase \in {"polling", "publishing"} /\ ~stopping =>
    targets \subseteq results \cup todo

\* When the snapshots are saved no worker is at work.
AllCollected == phase = "publishing" => todo = {}

CycleInv == /\ PollTypeOK /\ CyclesExclusive
            /\ NothingCollected /\ EveryTargetCovered /\ AllCollected

LEMMA InitInv == PollInit => CycleInv
  <1> SUFFICES ASSUME PollInit PROVE CycleInv
    OBVIOUS
  <1>1. enabled \subseteq Devices /\ restarts \in 0 .. MaxRestarts
    BY PollAssumption DEF PollInit
  <1> QED BY <1>1 DEF PollInit, CycleInv, PollTypeOK, CyclesExclusive, NothingCollected,
                      EveryTargetCovered, AllCollected

\* Who takes the lock holds it alone.
LEMMA StartInv ==
  ASSUME CycleInv, Starts
  PROVE  CycleInv'
  <1>1. PICK on \in {enabled, {}} : LoopStarts(on) \/ ManualStarts(on)
    BY DEF Starts
  <1>2. on \subseteq Devices /\ cfgCached' \in BOOLEAN
    BY <1>1 DEF CycleInv, PollTypeOK, LoopStarts, ManualStarts, Begin, ConfigRead
  <1>3. holder = "none" /\ phase = "idle" /\ loop # "polling"
    BY <1>1 DEF CycleInv, PollTypeOK, CyclesExclusive, LoopStarts, ManualStarts, Begin
  <1>4. /\ phase' = "pruning" /\ targets' = on
        /\ UNCHANGED <<enabled, stopping, todo, results, cached, snapshots,
                       restarts>>
    BY <1>1 DEF LoopStarts, ManualStarts, Begin
  <1>5. CASE LoopStarts(on)
    BY <1>2, <1>3, <1>4, <1>5
       DEF CycleInv, PollTypeOK, CyclesExclusive, NothingCollected,
           EveryTargetCovered, AllCollected, LoopStarts, Begin
  <1>6. CASE ManualStarts(on)
    BY <1>2, <1>3, <1>4, <1>6
       DEF CycleInv, PollTypeOK, CyclesExclusive, NothingCollected,
           EveryTargetCovered, AllCollected, ManualStarts, Begin
  <1> QED BY <1>1, <1>5, <1>6

\* Who ends a cycle gives the lock back.
LEMMA EndInv ==
  ASSUME CycleInv, phase # "idle", End, cached' \subseteq Devices,
         UNCHANGED <<configVars, triggered, stopping, snapshots, restarts>>
  PROVE  CycleInv'
  BY DEF CycleInv, PollTypeOK, CyclesExclusive, NothingCollected,
         EveryTargetCovered, AllCollected, End, configVars

LEMMA PruneInv ==
  ASSUME CycleInv, Prune
  PROVE  CycleInv'
  <1>1. cached' \subseteq Devices
    BY DEF CycleInv, PollTypeOK, Prune
  <1>2. CASE targets = {}
    BY <1>1, <1>2, EndInv DEF Prune
  <1>3. CASE targets # {}
    BY <1>1, <1>3
       DEF CycleInv, PollTypeOK, CyclesExclusive, NothingCollected,
           EveryTargetCovered, AllCollected, Prune, configVars
  <1> QED BY <1>2, <1>3

\* The steps of a cycle between its beginning and its end.
LEMMA CollectInv ==
  ASSUME CycleInv,
         (\E d \in Devices : PollDevice(d)) \/ GiveUp \/ SaveSnapshots
  PROVE  CycleInv'
  <1>1. CASE \E d \in Devices : PollDevice(d)
    <2>1. PICK d \in Devices : PollDevice(d)
      BY <1>1
    <2> QED BY <2>1
            DEF CycleInv, PollTypeOK, CyclesExclusive, NothingCollected,
                EveryTargetCovered, AllCollected, PollDevice, configVars
  <1>2. CASE GiveUp
    BY <1>2 DEF CycleInv, PollTypeOK, CyclesExclusive, NothingCollected,
                EveryTargetCovered, AllCollected, GiveUp, configVars
  <1>3. CASE SaveSnapshots
    <2>1. snapshots' \subseteq Devices
      BY <1>3 DEF CycleInv, PollTypeOK, SaveSnapshots
    <2> QED BY <1>3, <2>1
            DEF CycleInv, PollTypeOK, CyclesExclusive, NothingCollected,
                EveryTargetCovered, AllCollected, SaveSnapshots, configVars
  <1> QED BY <1>1, <1>2, <1>3

\* The steps that leave the cycle, if any, as it is.
LEMMA IdleInv ==
  ASSUME CycleInv,
         \/ LoopPasses \/ LoopWakes \/ ManualPasses \/ ResetBegins \/ ResetEnds
         \/ ReadConfig \/ Stop \/ \E d \in Devices : ChangeConfig(d)
         \/ UNCHANGED pollVars
  PROVE  CycleInv'
  <1> USE DEF CycleInv, PollTypeOK, CyclesExclusive, NothingCollected,
              EveryTargetCovered, AllCollected, configVars, cycleVars
  <1>1. CASE LoopPasses
    BY <1>1 DEF LoopPasses
  <1>2. CASE LoopWakes
    BY <1>2 DEF LoopWakes
  <1>3. CASE ManualPasses
    BY <1>3 DEF ManualPasses
  <1>4. CASE ResetBegins \/ ResetEnds
    BY <1>4 DEF ResetBegins, ResetEnds
  <1>5. CASE ReadConfig
    BY <1>5 DEF ReadConfig
  <1>6. CASE Stop
    BY <1>6 DEF Stop
  <1>7. CASE \E d \in Devices : ChangeConfig(d)
    <2>1. PICK d \in Devices : ChangeConfig(d)
      BY <1>7
    <2>2. enabled' \subseteq Devices /\ triggered' \in BOOLEAN
      BY <2>1 DEF ChangeConfig
    <2> QED BY <2>1, <2>2 DEF ChangeConfig
  <1>8. CASE UNCHANGED pollVars
    BY <1>8 DEF pollVars
  <1> QED BY <1>1, <1>2, <1>3, <1>4, <1>5, <1>6, <1>7, <1>8

LEMMA RestartInv ==
  ASSUME CycleInv, Restart
  PROVE  CycleInv'
  <1>1. cached' \subseteq Devices /\ restarts' \in 0 .. MaxRestarts
    BY PollAssumption DEF CycleInv, PollTypeOK, Restart
  <1> QED BY <1>1
          DEF CycleInv, PollTypeOK, CyclesExclusive, NothingCollected,
              EveryTargetCovered, AllCollected, Restart

LEMMA StepInv == CycleInv /\ [PollNext]_pollVars => CycleInv'
  <1> SUFFICES ASSUME CycleInv, [PollNext]_pollVars PROVE CycleInv'
    OBVIOUS
  <1>1. CASE Publish
    <2>1. cached' \subseteq Devices
      BY <1>1 DEF CycleInv, PollTypeOK, Publish
    <2> QED BY <1>1, <2>1, EndInv DEF Publish
  <1> QED BY <1>1, StartInv, PruneInv, CollectInv, IdleInv, RestartInv DEF PollNext

\* The invariant holds in every state.
LEMMA Invariance == PollSpec => []CycleInv
  BY InitInv, StepInv, PTL DEF PollSpec

-----------------------------------------------------------------------------
(* The theorems.                                                           *)

\* Every variable has its type; in particular the results of a cycle are those
\* of workers that are done, and the workers are those of the cycle's devices.
THEOREM PollTypeCorrect == PollSpec => []PollTypeOK
  <1>1. CycleInv => PollTypeOK
    BY DEF CycleInv
  <1> QED BY <1>1, Invariance, PTL

\* Cycles never overlap, with each other or with a reset of the counters.
THEOREM CyclesNeverOverlap == PollSpec => []CyclesExclusive
  <1>1. CycleInv => CyclesExclusive
    BY DEF CycleInv
  <1> QED BY <1>1, Invariance, PTL

\* Only three steps touch the board.
LEMMA BoardFrame ==
  ASSUME [PollNext]_pollVars, ~Prune, ~Publish, ~Restart
  PROVE  cached' = cached
  <1>1. CASE Starts
    BY <1>1 DEF Starts, LoopStarts, ManualStarts, Begin
  <1>2. CASE \/ LoopPasses \/ LoopWakes \/ ManualPasses \/ ResetBegins
             \/ ResetEnds \/ ReadConfig \/ Stop \/ GiveUp \/ SaveSnapshots
    BY <1>2 DEF LoopPasses, LoopWakes, ManualPasses, ResetBegins, ResetEnds,
                ReadConfig, Stop, GiveUp, SaveSnapshots
  <1>3. CASE \E d \in Devices : PollDevice(d) \/ ChangeConfig(d)
    BY <1>3 DEF PollDevice, ChangeConfig
  <1>4. CASE UNCHANGED pollVars
    BY <1>4 DEF pollVars
  <1> QED BY <1>1, <1>2, <1>3, <1>4 DEF PollNext

LEMMA RestartCounts ==
  ASSUME PollTypeOK, Restart
  PROVE  restarts' # restarts
  BY PollAssumption DEF PollTypeOK, Restart

\* A step that takes a device off the board is the beginning of a cycle that
\* does not target it, or the process is stopping.
LEMMA StepKeepsTargets ==
  ASSUME CycleInv, [PollNext]_pollVars, NEW d \in cached \ cached',
         ~stopping, restarts' = restarts
  PROVE  d \notin targets
  <1>1. Prune \/ Publish
    BY BoardFrame, RestartCounts DEF CycleInv
  <1>2. CASE Prune
    BY <1>2 DEF Prune
  <1>3. CASE Publish
    BY <1>3 DEF Publish, CycleInv, EveryTargetCovered, AllCollected
  <1> QED BY <1>1, <1>2, <1>3

\* A device the cycle polls never leaves the board.
THEOREM PolledStayShown == PollSpec => TargetsStayShown
  <1>1. CycleInv /\ [PollNext]_pollVars =>
          [\A d \in cached \ cached' :
             d \notin targets \/ stopping \/ restarts' # restarts]_pollVars
    BY StepKeepsTargets
  <1> QED BY <1>1, Invariance, PTL DEF PollSpec, TargetsStayShown

\* A step that puts a device on the board polled it, or starts the process.
LEMMA StepShowsTargets ==
  ASSUME CycleInv, [PollNext]_pollVars, NEW d \in cached' \ cached,
         restarts' = restarts
  PROVE  d \in targets
  <1>1. Publish
    <2>1. ~Prune
      BY DEF Prune
    <2> QED BY <2>1, BoardFrame, RestartCounts DEF CycleInv
  <1> QED BY <1>1 DEF Publish, CycleInv, PollTypeOK

\* Only the devices the cycle polls come to the board.
THEOREM OnlyPolledAppear == PollSpec => OnlyTargetsAppear
  <1>1. CycleInv /\ [PollNext]_pollVars =>
          [\A d \in cached' \ cached : d \in targets \/ restarts' # restarts]_pollVars
    BY StepShowsTargets
  <1> QED BY <1>1, Invariance, PTL DEF PollSpec, OnlyTargetsAppear

-----------------------------------------------------------------------------
(* The safety halves of DisabledDisappears and EnabledAppears.              *)

\* What is polled is what a configuration enabled when it was read.
LEMMA StepTargets ==
  ASSUME [PollNext]_pollVars
  PROVE  /\ targets' \subseteq targets \cup enabled
         /\ phase' # "idle" => \/ phase # "idle" /\ targets' = targets
                               \/ cfgCached => targets' = enabled
  <1>1. CASE Starts
    <2>1. PICK on \in {enabled, {}} : LoopStarts(on) \/ ManualStarts(on)
      BY <1>1 DEF Starts
    <2>2. targets' = on /\ ConfigRead(on)
      BY <2>1 DEF LoopStarts, ManualStarts, Begin
    <2> QED BY <2>1, <2>2 DEF ConfigRead
  <1>2. CASE Prune \/ Publish \/ Restart
    BY <1>2 DEF Prune, Publish, Restart, End
  <1>3. CASE \E d \in Devices : PollDevice(d) \/ ChangeConfig(d)
    BY <1>3 DEF PollDevice, ChangeConfig, cycleVars
  <1>4. CASE \/ LoopPasses \/ LoopWakes \/ ManualPasses \/ ResetBegins \/ ResetEnds
             \/ GiveUp \/ SaveSnapshots \/ ReadConfig \/ Stop \/ UNCHANGED pollVars
    BY <1>4
       DEF LoopPasses, LoopWakes, ManualPasses, ResetBegins, ResetEnds, GiveUp,
           SaveSnapshots, ReadConfig, Stop, pollVars, cycleVars
  <1> QED BY <1>1, <1>2, <1>3, <1>4 DEF PollNext

\* A disabled device that is off the board, and that no cycle is polling.
Off(d) == d \notin enabled \cup targets \cup cached

\* Such a device stays off the board until it is enabled or the process starts
\* anew and shows its snapshot: no cycle of an older configuration is left.
THEOREM GoneStaysOff ==
  ASSUME NEW d
  PROVE  PollSpec =>
           [](Off(d) /\ [][d \notin enabled' /\ restarts' = restarts]_pollVars
                => [](d \notin cached))
  <1>1. /\ CycleInv /\ [PollNext]_pollVars /\ Off(d)
        /\ [d \notin enabled' /\ restarts' = restarts]_pollVars
        => Off(d)'
    <2>1. CASE UNCHANGED pollVars
      BY <2>1 DEF pollVars, configVars, cycleVars, Off
    <2>2. SUFFICES ASSUME CycleInv, [PollNext]_pollVars, Off(d), d \notin enabled',
                          restarts' = restarts
                   PROVE  Off(d)'
      BY <2>1
    <2>3. d \notin targets' /\ d \notin cached'
      BY <2>2, StepTargets, StepShowsTargets DEF Off
    <2> QED BY <2>2, <2>3 DEF Off
  <1>2. Off(d) => d \notin cached
    BY DEF Off
  <1> QED BY <1>1, <1>2, Invariance, PTL DEF PollSpec

\* An enabled device that is on the board, with the configuration in the cache
\* and no cycle that does not know of it.
On(d) == d \in enabled \cap cached /\ cfgCached /\ (phase # "idle" => d \in targets)

\* The configuration stays, and the process goes on.
Undisturbed == enabled' = enabled /\ restarts' = restarts /\ ~stopping

\* Such a device stays on the board until the configuration changes or the process
\* stops, whatever its own worker and those of the other devices do.
THEOREM ShownStaysOn ==
  ASSUME NEW d
  PROVE  PollSpec =>
           [](On(d) /\ [][Undisturbed]_pollVars => [](d \in cached))
  <1>1. CycleInv /\ [PollNext]_pollVars /\ On(d) /\ [Undisturbed]_pollVars => On(d)'
    <2>1. CASE UNCHANGED pollVars
      BY <2>1 DEF pollVars, configVars, cycleVars, On
    <2>2. SUFFICES ASSUME CycleInv, [PollNext]_pollVars, On(d), enabled' = enabled,
                          restarts' = restarts, ~stopping
                   PROVE  On(d)'
      BY <2>1 DEF Undisturbed
    <2>3. d \in cached'
      <3>1. CASE phase = "idle"
        <4>1. ~Prune /\ ~Publish /\ ~Restart
          BY <2>2, <3>1, RestartCounts DEF Prune, Publish, CycleInv
        <4> QED BY <2>2, <4>1, BoardFrame DEF On
      <3>2. CASE phase # "idle"
        BY <2>2, <3>2, StepKeepsTargets DEF On
      <3> QED BY <3>1, <3>2
    <2>4. cfgCached'
      <3>1. ~Restart
        BY <2>2, RestartCounts DEF CycleInv
      <3>2. ASSUME NEW e \in Devices PROVE ~ChangeConfig(e)
        BY <2>2 DEF ChangeConfig
      <3>3. ASSUME Starts PROVE cfgCached'
        BY <2>2, <3>3 DEF Starts, LoopStarts, ManualStarts, Begin, ConfigRead, On
      <3> QED BY <2>2, <3>1, <3>2, <3>3
              DEF PollNext, On, LoopPasses, LoopWakes, ManualPasses, ResetBegins,
                  ResetEnds, Prune, PollDevice, GiveUp, SaveSnapshots, Publish,
                  ReadConfig, Stop, pollVars, configVars
    <2>5. phase' # "idle" => d \in targets'
      BY <2>2, StepTargets DEF On
    <2> QED BY <2>2, <2>3, <2>4, <2>5 DEF On
  <1>2. On(d) => d \in cached
    BY DEF On
  <1> QED BY <1>1, <1>2, Invariance, PTL DEF PollSpec

-----------------------------------------------------------------------------
(* MAC tables.                                                             *)

\* What is about to be stored is a table.
MacInv ==
  /\ MacTypeOK
  /\ stage = "storing" => inMemory \in SUBSET MacEntries

LEMMA MacInitInv == MacInit => MacInv
  <1> SUFFICES ASSUME MacInit PROVE MacInv
    OBVIOUS
  <1>1. 0 \in 0 .. Period /\ Period \in 0 .. Period
    BY MacAssumption
  <1>2. \A t \in RealTables : t \subseteq MacEntries
    BY MacAssumption
  <1> QED BY <1>1, <1>2 DEF MacInit, MacInv, MacTypeOK, MaybeTable, Settled, NoMacCycle

\* What the worker hands over is a table or nothing.
LEMMA HandOverInv ==
  ASSUME MacInv, NEW t \in MaybeTable, HandOver(t),
         inMemory' \in MaybeTable, rows' \subseteq MacEntries, sinceRead' = sinceRead
  PROVE  MacInv'
  BY DEF MacInv, MacTypeOK, HandOver, MaybeTable

LEMMA FallBackInv ==
  ASSUME MacInv, FallBack, rows' = rows, sinceRead' = sinceRead
  PROVE  MacInv'
  <1>1. /\ rows \in MaybeTable /\ inMemory \in MaybeTable /\ {} \in MaybeTable
        /\ rows' \subseteq MacEntries
    BY DEF MacInv, MacTypeOK, MaybeTable
  <1>2. CASE inMemory \in {Nothing, {}}
    <2>1. CASE inMemory' = rows /\ HandOver(rows)
      BY <1>1, <2>1, HandOverInv
    <2>2. CASE inMemory' = inMemory /\ HandOver({})
      BY <1>1, <2>2, HandOverInv
    <2> QED BY <1>2, <2>1, <2>2 DEF FallBack
  <1>3. CASE inMemory \notin {Nothing, {}}
    BY <1>1, <1>3, HandOverInv DEF FallBack
  <1> QED BY <1>2, <1>3

LEMMA MacFaultInv ==
  ASSUME MacInv, MacFault
  PROVE  MacInv'
  <1>1. rows \subseteq MacEntries /\ inMemory \in MaybeTable /\ {} \in MaybeTable
    BY DEF MacInv, MacTypeOK, MaybeTable
  <1>2. CASE Offline
    <2>1. InResult(inMemory) \in MaybeTable
      BY <1>1 DEF InResult
    <2> QED BY <1>1, <1>2, <2>1, HandOverInv DEF Offline
  <1>3. CASE NoDriver
    BY <1>1, <1>3, HandOverInv DEF NoDriver
  <1>4. CASE ReadFails
    BY <1>4, FallBackInv DEF ReadFails
  <1>5. CASE StoreFails
    <2>1. inMemory \in SUBSET MacEntries
      BY <1>5 DEF StoreFails, MacInv
    <2>2. CASE FallBack /\ rows' = rows
      BY <1>5, <2>2, FallBackInv DEF StoreFails
    <2>3. CASE /\ rows' \in {rows, rows \cup inMemory}
               /\ HandOver(inMemory) /\ inMemory' = inMemory
      <3>1. rows' \subseteq MacEntries
        BY <1>1, <2>1, <2>3
      <3> QED BY <1>1, <1>5, <2>3, <3>1, HandOverInv DEF StoreFails
    <2> QED BY <1>5, <2>2, <2>3 DEF StoreFails
  <1>6. CASE RestartPoller
    <2>1. 0 \in 0 .. Period /\ Period \in 0 .. Period
      BY MacAssumption
    <2> QED BY <1>6, <2>1
            DEF RestartPoller, EndCycleMac, MacInv, MacTypeOK, MaybeTable
  <1> QED BY <1>2, <1>3, <1>4, <1>5, <1>6 DEF MacFault

LEMMA MacStepInv ==
  ASSUME MacInv, [MacNext]_macVars
  PROVE  MacInv'
  <1> USE DEF MacInv, MacTypeOK, MaybeTable
  <1>1. /\ 0 \in 0 .. Period /\ actual \in MaybeTable
        /\ \A n \in 0 .. Period : Later(n) \in 0 .. Period
    BY MacAssumption DEF Later
  <1>2. CASE BeginPoll
    BY <1>1, <1>2 DEF BeginPoll
  <1>3. CASE ReadTable
    BY <1>1, <1>3, MacAssumption DEF ReadTable
  <1>4. CASE Store
    BY <1>4 DEF Store, HandOver
  <1>5. CASE NotYetDue
    BY <1>5 DEF NotYetDue, HandOver
  <1>6. CASE MacFault
    BY <1>6, MacFaultInv
  <1>7. CASE SaveResult
    BY <1>7 DEF SaveResult, macCycle
  <1>8. CASE PutOnBoard
    BY <1>1, <1>8 DEF PutOnBoard, EndCycleMac
  <1>9. CASE Fetch \/ ShowFetched \/ FetchFails
    BY <1>1, <1>9 DEF Fetch, ShowFetched, FetchFails, macCycle
  <1>10. CASE \E t \in RealTables : Rewire(t)
    BY <1>10 DEF Rewire, macCycle
  <1>11. CASE TimePasses
    BY <1>1, <1>11 DEF TimePasses
  <1>12. CASE TroubleEnds
    BY <1>12 DEF TroubleEnds, macCycle
  <1>13. CASE UNCHANGED macVars
    BY <1>13 DEF macVars, macCycle
  <1> QED BY <1>2, <1>3, <1>4, <1>5, <1>6, <1>7, <1>8, <1>9, <1>10, <1>11, <1>12, <1>13
          DEF MacNext

\* The table on its way keeps its type: whatever fails or starts anew, what is
\* stored is a table and never the absence of one.
THEOREM MacTypeCorrect == MacSpec => []MacTypeOK
  <1>1. MacInv => MacTypeOK
    BY DEF MacInv
  <1> QED BY <1>1, MacInitInv, MacStepInv, PTL DEF MacSpec

-----------------------------------------------------------------------------
(* The safety half of TableCatchesUp: what was caught up stays so.          *)

\* The rows have the table of the switch, and every other copy, be it on its way
\* to the board, has it too or has none.
CopiesAgree ==
  /\ rows = actual
  /\ {inMemory, shown, saved, result, fetched} \subseteq {Nothing, {}, actual}
  /\ stage = "storing" => inMemory = actual

LEMMA AgreedIsDisplayed == CopiesAgree => Displayed = actual
  BY DEF CopiesAgree, Displayed

\* No failure makes the copies differ: the fallback is to the rows, the snapshot
\* and the rows are what a restart begins with.
LEMMA FaultsAgree ==
  ASSUME CopiesAgree, MacFault
  PROVE  CopiesAgree'
  <1>1. CASE Offline
    BY <1>1 DEF CopiesAgree, Offline, HandOver, InResult
  <1>2. CASE NoDriver
    BY <1>2 DEF CopiesAgree, NoDriver, HandOver
  <1>3. CASE ReadFails
    BY <1>3 DEF CopiesAgree, ReadFails, FallBack, HandOver
  <1>4. CASE StoreFails
    BY <1>4 DEF CopiesAgree, StoreFails, FallBack, HandOver
  <1>5. CASE RestartPoller
    BY <1>5 DEF CopiesAgree, RestartPoller, EndCycleMac
  <1> QED BY <1>1, <1>2, <1>3, <1>4, <1>5 DEF MacFault

LEMMA AgreeStep ==
  ASSUME CopiesAgree, [MacNext]_macVars, actual' = actual
  PROVE  CopiesAgree'
  <1>1. CASE BeginPoll \/ TimePasses \/ TroubleEnds
    BY <1>1 DEF CopiesAgree, BeginPoll, TimePasses, TroubleEnds, macCycle
  <1>2. CASE ReadTable
    BY <1>2 DEF CopiesAgree, ReadTable
  <1>3. CASE Store
    BY <1>3 DEF CopiesAgree, Store, HandOver
  <1>4. CASE NotYetDue
    BY <1>4 DEF CopiesAgree, NotYetDue, HandOver
  <1>5. CASE MacFault
    BY <1>5, FaultsAgree
  <1>6. CASE SaveResult
    BY <1>6 DEF CopiesAgree, SaveResult, macCycle
  <1>7. CASE PutOnBoard
    BY <1>7 DEF CopiesAgree, PutOnBoard, EndCycleMac
  <1>8. CASE Fetch \/ ShowFetched \/ FetchFails
    BY <1>8 DEF CopiesAgree, Fetch, ShowFetched, FetchFails, macCycle
  <1>9. CASE \E t \in RealTables : Rewire(t)
    BY <1>9 DEF Rewire
  <1>10. CASE UNCHANGED macVars
    BY <1>10 DEF CopiesAgree, macVars, macCycle
  <1> QED BY <1>1, <1>2, <1>3, <1>4, <1>5, <1>6, <1>7, <1>8, <1>9, <1>10 DEF MacNext

\* Once the copies agree with the switch, its table is displayed for as long as it
\* stays the same: no failed read or write, restart, request or cycle
\* brings an older one back.
THEOREM ShownTableStays ==
  MacSpec => [](CopiesAgree /\ [][actual' = actual]_macVars => [](Displayed = actual))
  <1>1. CopiesAgree /\ [MacNext]_macVars /\ [actual' = actual]_macVars => CopiesAgree'
    <2>1. CASE actual' = actual
      BY <2>1, AgreeStep
    <2>2. CASE UNCHANGED macVars
      BY <2>2, AgreeStep DEF macVars
    <2> QED BY <2>1, <2>2
  <1> QED BY <1>1, AgreedIsDisplayed, PTL DEF MacSpec
=============================================================================
