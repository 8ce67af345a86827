--------------------------- MODULE ClientTracking ---------------------------
(***************************************************************************)
(* The client monitor: after every poll, the pipeline decides for each MAC  *)
(* address that was seen where the client is attached, the mobility tracker *)
(* turns changes of place into connection events, and the rows of the       *)
(* discovered clients are written in one batch at the end of the cycle      *)
(* (services/clients/pipeline.py, mobility.py, repositories/device_repo.py).*)
(*                                                                         *)
(* Memory, lost by a restart: loc, lastHash, history, warmed, and the cycle *)
(* in progress.  Database, kept: rows, events.  Connection events are       *)
(* committed one by one while the rows wait for the batch, so a restart or  *)
(* a failed write can separate them.                                        *)
(***************************************************************************)
EXTENDS EdgeResolver, FiniteSets

CONSTANTS Macs,           \* client MAC addresses
          Reports,        \* what the devices may say of one MAC in one poll
          LinkReports,    \* the sets of inter-device ports a poll may report
          MapPlaces,      \* the places the network map may show a client at
          Debounce,       \* min_roam_debounce_seconds (15 s)
          Window,         \* the flapping window (180 s)
          CleanupWindow,  \* window_seconds of the clean-up at start (60 s)
          MaxTime,        \* bound on the clock
          None            \* absent value (Python's None)

FlapLimit == 3

Location == [place : Place, connected : Nat, roamed : Nat]
Row      == [place : Place, seen : Nat]
Visit    == [place : Place, at : Nat]
Event    == [mac : Macs, kind : {"connected", "roamed"}, to : Place,
             from : Place \cup {None}, at : Nat]
Verdict  == {"unchanged", "connected", "same", "flapping_dampened",
             "roamed", "debounced"}
Outcome  == [place : Place, verdict : Verdict]

ASSUME TrackingAssumption ==
  /\ IsFiniteSet(Macs)
  /\ Reports \subseteq Seq(Sighting)
  /\ <<>> \in Reports
  /\ LinkReports \subseteq SUBSET Place
  /\ MapPlaces \subseteq {p \in Place : p[2] # NoPort}
  /\ Debounce \in Nat /\ Window \in Nat /\ CleanupWindow \in Nat
  /\ MaxTime \in Nat
  /\ None \notin Location /\ None \notin Row
  /\ None \notin Place /\ None \notin Outcome

VARIABLES clock,     \* timestamp of the latest cycle
          phase,     \* "idle" or "clients": a cycle is being processed
          report,    \* the sightings of each MAC in this cycle
          links,     \* the inter-device ports reported in this cycle
          todo,      \* MACs seen in this cycle and not yet handled
          batch,     \* rows collected for the batch write of this cycle
          warmed,    \* _warmed, and whether the read it stands for succeeded
          loc,       \* _locations
          lastHash,  \* _last_footprint_hashes
          history,   \* _transition_history
          rows,      \* table discovered_clients
          events,    \* table client_connection_history
          bootAt     \* clock when the process last started

cycleVars  == <<clock, phase, report, links, todo, batch>>
memoryVars == <<warmed, loc, lastHash, history>>
tableVars  == <<rows, events>>
vars == <<cycleVars, memoryVars, tableVars, bootAt>>

EmptyBatch == [m \in Macs |-> None]
Nothing    == [m \in Macs |-> <<>>]

Init ==
  /\ clock = 0
  /\ phase = "idle"
  /\ report = Nothing
  /\ links = {}
  /\ todo = {}
  /\ batch = EmptyBatch
  /\ warmed = "no"
  /\ loc = [m \in Macs |-> None]
  /\ lastHash = [m \in Macs |-> None]
  /\ history = [m \in Macs |-> {}]
  /\ rows = [m \in Macs |-> None]
  /\ events = {}
  /\ bootAt = 0

-----------------------------------------------------------------------------
(* Reading one cycle's report.                                             *)

\* The items of the dictionary {node: port}: a later sighting on the same
\* node replaces an earlier one and a sighting without a port is left out.
\* The hash of the code tells exactly these sets apart.
Footprint(s) ==
  {PlaceOf(s[i]) : i \in {k \in DOMAIN s :
     /\ s[k].port # NoPort
     /\ \A j \in DOMAIN s :
          s[j].node = s[k].node /\ s[j].port # NoPort => j <= k}}

\* port_mac_sets: MACs in the forwarding table of that port (guests of a
\* virtualisation host are listed elsewhere and do not count).
MacsOn(place) ==
  {m \in Macs : \E i \in DOMAIN report[m] :
     PlaceOf(report[m][i]) = place /\ place[2] # NoPort /\ ~report[m][i].child}

Incumbent(m) == IF loc[m] = None THEN {} ELSE {loc[m].place}

Scores(m) ==
  [i \in DOMAIN report[m] |->
     LET s == report[m][i]
     IN  ScoreSighting(s, Cardinality(MacsOn(PlaceOf(s))), links, Incumbent(m))]

\* The places resolve_edge may return: there is exactly one.
Edges(m) ==
  {PlaceOf(report[m][i]) :
     i \in {k \in DOMAIN report[m] : Wins(k, report[m], Scores(m))}}

FootprintUnchanged(m) ==
  /\ loc[m] # None
  /\ lastHash[m] = Footprint(report[m])

-----------------------------------------------------------------------------
(* A cycle begins.                                                         *)

Hydrated ==
  [m \in Macs |->
     IF rows[m] # None /\ rows[m].place[2] # NoPort
     THEN [place |-> rows[m].place, connected |-> rows[m].seen, roamed |-> 0]
     ELSE loc[m]]

\* The first cycle after a start reads the known places from the database; a
\* failed read is logged and not tried again.
WarmLocations ==
  \/ warmed = "no" /\ warmed' = "hydrated" /\ loc' = Hydrated
  \/ warmed = "no" /\ warmed' = "failed" /\ loc' = loc
  \/ warmed # "no" /\ UNCHANGED <<warmed, loc>>

StartCycle ==
  /\ phase = "idle"
  /\ \E t \in (clock + 1) .. MaxTime : clock' = t
  /\ report' \in [Macs -> Reports]
  /\ links' \in LinkReports
  /\ todo' = {m \in Macs : report'[m] # <<>>}
  /\ phase' = "clients"
  /\ WarmLocations
  /\ UNCHANGED <<batch, lastHash, history, tableVars, bootAt>>

-----------------------------------------------------------------------------
(* One client of the cycle: the gate on the footprint, the resolution of    *)
(* the edge, and evaluate_mobility.                                         *)

Collect(m, place, verdict) ==
  /\ todo' = todo \ {m}
  /\ batch' = [batch EXCEPT ![m] = [place |-> place, verdict |-> verdict]]
  /\ UNCHANGED <<clock, phase, report, links, warmed, rows, bootAt>>

\* Mutant: the row takes the resolved edge, not the tracked place.
KeepUnchangedCollectsEdge(m) ==
  /\ FootprintUnchanged(m)
  /\ \E edge \in Edges(m) : Collect(m, edge, "unchanged")
  /\ UNCHANGED <<loc, lastHash, history, events>>

KeepUnchanged(m) ==
  /\ FootprintUnchanged(m)
  /\ Collect(m, loc[m].place, "unchanged")
  /\ UNCHANGED <<loc, lastHash, history, events>>

\* The edge is resolved; lastHash takes the footprint whatever the verdict.
Evaluated(m, edge, verdict) ==
  /\ ~FootprintUnchanged(m)
  /\ Collect(m, edge, verdict)
  /\ lastHash' = [lastHash EXCEPT ![m] = Footprint(report[m])]

Connect(m, edge) ==
  /\ loc[m] = None
  /\ Evaluated(m, edge, "connected")
  /\ events' = events \cup {[mac |-> m, kind |-> "connected", to |-> edge,
                             from |-> None, at |-> clock]}
  /\ loc' = [loc EXCEPT ![m] =
               [place |-> edge, connected |-> clock, roamed |-> clock]]
  /\ UNCHANGED history

Moved(m, edge) ==
  /\ loc[m] # None
  /\ ~SamePlace(loc[m].place, edge)
  /\ edge[2] # NoPort

Recent(m) == {h \in history[m] : h.at >= clock - Window}

\* Mutants: one of the two tests for flapping is missing.
FlappingByCount(m, edge) == Cardinality(Recent(m)) >= FlapLimit
FlappingByPlace(m, edge) == \E h \in Recent(m) : SamePlace(h.place, edge)

Flapping(m, edge) ==
  \/ \E h \in Recent(m) : SamePlace(h.place, edge)
  \/ Cardinality(Recent(m)) >= FlapLimit

LastRoamed(m) ==
  IF loc[m].roamed # 0 THEN loc[m].roamed ELSE loc[m].connected

Settled(m) == clock - LastRoamed(m) >= Debounce

SameEdge(m, edge) ==
  /\ loc[m] # None /\ ~Moved(m, edge)
  /\ Evaluated(m, edge, "same")
  /\ UNCHANGED <<loc, history, events>>

\* Mutant: a dampened move still changes the tracked place.
DampenMoves(m, edge) ==
  /\ Moved(m, edge) /\ Flapping(m, edge)
  /\ Evaluated(m, edge, "flapping_dampened")
  /\ history' = [history EXCEPT ![m] = Recent(m)]
  /\ loc' = [loc EXCEPT ![m].place = edge]
  /\ UNCHANGED events

Dampen(m, edge) ==
  /\ Moved(m, edge) /\ Flapping(m, edge)
  /\ Evaluated(m, edge, "flapping_dampened")
  /\ history' = [history EXCEPT ![m] = Recent(m)]
  /\ UNCHANGED <<loc, events>>

Roam(m, edge) ==
  /\ Moved(m, edge) /\ ~Flapping(m, edge) /\ Settled(m)
  /\ Evaluated(m, edge, "roamed")
  /\ events' = events \cup {[mac |-> m, kind |-> "roamed", to |-> edge,
                             from |-> loc[m].place, at |-> clock]}
  /\ history' = [history EXCEPT ![m] =
                   Recent(m) \cup {[place |-> loc[m].place, at |-> clock]}]
  /\ loc' = [loc EXCEPT ![m].place = edge, ![m].roamed = clock]

HoldBack(m, edge) ==
  /\ Moved(m, edge) /\ ~Flapping(m, edge) /\ ~Settled(m)
  /\ Evaluated(m, edge, "debounced")
  /\ history' = [history EXCEPT ![m] = Recent(m)]
  /\ UNCHANGED <<loc, events>>

\* Mutants: the tracked place changes before the event is written; the error
\* comes after the event was committed.
EventWriteFailsLate(m, edge) ==
  /\ ~FootprintUnchanged(m)
  /\ Moved(m, edge) /\ ~Flapping(m, edge) /\ Settled(m)
  /\ phase' = "idle" /\ todo' = {} /\ batch' = EmptyBatch
  /\ report' = Nothing /\ links' = {}
  /\ history' = [history EXCEPT ![m] = Recent(m)]
  /\ loc' = [loc EXCEPT ![m].place = edge]
  /\ UNCHANGED <<clock, warmed, lastHash, tableVars, bootAt>>

EventWriteCommitted(m, edge) ==
  /\ ~FootprintUnchanged(m)
  /\ loc[m] = None
  /\ phase' = "idle" /\ todo' = {} /\ batch' = EmptyBatch
  /\ report' = Nothing /\ links' = {}
  /\ events' = events \cup {[mac |-> m, kind |-> "connected", to |-> edge,
                             from |-> None, at |-> clock]}
  /\ UNCHANGED <<clock, warmed, loc, lastHash, history, rows, bootAt>>

\* Recording a connection event raises: process_cycle is abandoned, the
\* poller logs the exception, and the collected rows are never written.
EventWriteFails(m, edge) ==
  /\ ~FootprintUnchanged(m)
  /\ \/ loc[m] = None
     \/ Moved(m, edge) /\ ~Flapping(m, edge) /\ Settled(m)
  /\ phase' = "idle"
  /\ todo' = {}
  /\ batch' = EmptyBatch
  /\ report' = Nothing
  /\ links' = {}
  /\ history' = [history EXCEPT ![m] = Recent(m)]
  /\ UNCHANGED <<clock, warmed, loc, lastHash, tableVars, bootAt>>

HandleClient(m) ==
  /\ phase = "clients"
  /\ m \in todo
  /\ \/ KeepUnchanged(m)
     \/ \E edge \in Edges(m) :
          \/ Connect(m, edge)
          \/ SameEdge(m, edge)
          \/ Dampen(m, edge)
          \/ Roam(m, edge)
          \/ HoldBack(m, edge)
          \/ EventWriteFails(m, edge)

-----------------------------------------------------------------------------
(* The end of a cycle, and what happens beside it.                          *)

\* An update leaves the stored port alone when the new one is empty.
Upserted(row, place) ==
  [place |-> IF row = None \/ place[2] # NoPort THEN place
             ELSE <<place[1], row.place[2]>>,
   seen  |-> clock]

EndCycle ==
  /\ phase' = "idle"
  /\ batch' = EmptyBatch
  /\ report' = Nothing
  /\ links' = {}
  /\ UNCHANGED <<clock, todo, memoryVars, events, bootAt>>

\* upsert_discovered_clients_batch is one transaction; its failure is logged.
WriteBatch ==
  /\ phase = "clients" /\ todo = {}
  /\ \/ rows' = [m \in Macs |->
                   IF batch[m] = None THEN rows[m]
                   ELSE Upserted(rows[m], batch[m].place)]
     \/ rows' = rows
  /\ EndCycle

\* POST /api/clients/delete, on a request thread.
DeleteClient(m) ==
  /\ rows[m] # None
  /\ rows' = [rows EXCEPT ![m] = None]
  /\ UNCHANGED <<cycleVars, memoryVars, events, bootAt>>

\* GET /api/topology, on a request thread: drawing the network map stores the
\* clients it shows.  It read rows and MAC tables before, so that the place it
\* stores may be an old one, and a row deleted meanwhile returns.  The time it
\* stores is that of the row it read.
MapView ==
  /\ \E shown \in SUBSET Macs : \E at \in [shown -> MapPlaces] :
       rows' = [m \in Macs |->
                  IF m \notin shown THEN rows[m]
                  ELSE [place |-> at[m],
                        seen  |-> IF rows[m] # None THEN rows[m].seen ELSE clock]]
  /\ UNCHANGED <<cycleVars, memoryVars, events, bootAt>>

\* cleanup_spurious_roamed_events: roamed events soon after another event of
\* the client go first, then those that repeat the place before them.
WithoutRapid(es) ==
  {e \in es : ~ /\ e.kind = "roamed"
                /\ \E f \in es : /\ f.mac = e.mac /\ f.at < e.at
                                 /\ e.at - f.at < CleanupWindow}

Precedes(f, e, es) ==
  /\ f.mac = e.mac /\ f.at < e.at
  /\ \A g \in es : g.mac = e.mac => g.at <= f.at \/ g.at >= e.at

WithoutRepeats(es) ==
  {e \in es : ~ /\ e.kind = "roamed"
                /\ \E f \in es : Precedes(f, e, es) /\ f.to = e.to}

\* The process stops at any point and starts again; building the monitor
\* cleans the event table, and a failure of either deletion is ignored.
Restart ==
  /\ phase' = "idle"
  /\ report' = Nothing /\ links' = {} /\ todo' = {} /\ batch' = EmptyBatch
  /\ warmed' = "no"
  /\ loc' = [m \in Macs |-> None]
  /\ lastHash' = [m \in Macs |-> None]
  /\ history' = [m \in Macs |-> {}]
  /\ \/ events' = WithoutRepeats(WithoutRapid(events))
     \/ events' = WithoutRapid(events)
     \/ events' = events
  /\ bootAt' = clock
  /\ UNCHANGED <<clock, rows>>

Next ==
  \/ StartCycle
  \/ \E m \in Macs : HandleClient(m)
  \/ WriteBatch
  \/ \E m \in Macs : DeleteClient(m)
  \/ MapView
  \/ Restart

Spec == Init /\ [][Next]_vars
-----------------------------------------------------------------------------
(* Properties.                                                             *)

TypeOK ==
  /\ clock \in Nat /\ bootAt \in Nat
  /\ phase \in {"idle", "clients"}
  /\ report \in [Macs -> Reports]
  /\ links \in SUBSET Place
  /\ todo \subseteq Macs
  /\ batch \in [Macs -> Outcome \cup {None}]
  /\ warmed \in {"no", "hydrated", "failed"}
  /\ loc \in [Macs -> Location \cup {None}]
  /\ lastHash \in [Macs -> (SUBSET Place) \cup {None}]
  /\ history \in [Macs -> SUBSET Visit]
  /\ rows \in [Macs -> Row \cup {None}]
  /\ events \subseteq Event

\* The events of a client that the running process has recorded.
LifeEvents(m) == {e \in events : e.mac = m /\ e.at > bootAt}
LifeRoams(m)  == {e \in LifeEvents(m) : e.kind = "roamed"}

\* The recorded movements of a client form a path: each roamed event departs
\* from the place where the event before it arrived, although refused moves,
\* failed event writes and lost batches may lie between the two.
PathConnected ==
  \A m \in Macs : \A e \in LifeRoams(m) : \A f \in LifeEvents(m) :
    Precedes(f, e, LifeEvents(m)) => e.from = f.to

\* The place a client is tracked at is the one its latest event reports.
LocationIsReported ==
  \A m \in Macs : \A e \in LifeEvents(m) :
    (\A f \in LifeEvents(m) : f.at <= e.at) =>
      loc[m] # None /\ loc[m].place = e.to

\* Debouncing: two events of a client are at least Debounce apart.
RoamsSpaced ==
  \A m \in Macs : \A e \in LifeRoams(m) : \A f \in LifeEvents(m) :
    f.at < e.at => e.at - f.at >= Debounce

\* Ping-pong dampening: a client does not return to a place it left less than
\* the flapping window ago.
NoRevisit ==
  \A m \in Macs : \A e, f \in LifeRoams(m) :
    f.at < e.at /\ e.at - f.at <= Window => ~SamePlace(e.to, f.from)

\* Flapping dampening: no four roams of a client fall into one window.
RoamBudget ==
  \A m \in Macs : \A a, b, c, d \in LifeRoams(m) :
    a.at < b.at /\ b.at < c.at /\ c.at < d.at => d.at - a.at > Window

\* A client is announced as newly connected at most once in a life of the
\* process, before anything else is recorded of it, however often it is
\* deleted, and whatever the network map stores of it.
AnnouncedFirst ==
  \A m \in Macs : \A e, f \in LifeEvents(m) :
    e.kind = "connected" => e.at <= f.at

\* A batch that stores a place other than the tracked one does so for a move
\* the tracker refused, or for a sighting without a port.
RowExplained ==
  [][\A m \in Macs :
       /\ phase = "clients" /\ phase' = "idle"
       /\ rows'[m] # rows[m] /\ rows'[m] # None
       => \/ SamePlace(rows'[m].place, loc[m].place)
          \/ batch[m].verdict \in {"flapping_dampened", "debounced"}
          \/ batch[m].place[2] = NoPort]_vars

\* What test_client_mobility.py:84-91 expects of a client that is seen again
\* at its new place after the debounce interval: the move is accepted.
DebouncedRoamAccepted ==
  [][\A m \in Macs : \A edge \in Edges(m) :
       /\ phase = "clients" /\ phase' = "clients"
       /\ m \in todo /\ m \notin todo'
       /\ Moved(m, edge) /\ ~Flapping(m, edge) /\ Settled(m)
       => loc'[m].place = edge]_vars
=============================================================================
