------------------------ MODULE ClientTrackingProofs ------------------------
(***************************************************************************)
(* Proofs about ClientTracking, for any number of clients, any set of       *)
(* reports, and any debounce interval and flapping window.                  *)
(***************************************************************************)
EXTENDS ClientTracking, FiniteSetTheorems, WellFoundedInduction, TLAPS

(***************************************************************************)
(* Lemmas about the operators.                                             *)
(***************************************************************************)

\* Three different elements make a finite set of at least three.
LEMMA ThreeElements ==
  ASSUME NEW S, IsFiniteSet(S), NEW x \in S, NEW y \in S, NEW z \in S,
         x # y, x # z, y # z
  PROVE  Cardinality(S) >= 3
<1>1. IsFiniteSet({}) /\ Cardinality({}) = 0
  BY FS_EmptySet
<1>2. IsFiniteSet({x}) /\ Cardinality({x}) = 1
  BY FS_Singleton
<1>3. IsFiniteSet({x} \cup {y}) /\ Cardinality({x} \cup {y}) = 2
  <2>1. y \notin {x}
    OBVIOUS
  <2> QED
    <3>1. Cardinality({x} \cup {y}) = Cardinality({x}) + 1
      BY <1>2, <2>1, FS_AddElement, Zenon
    <3>2. IsFiniteSet({x} \cup {y})
      BY <1>2, FS_AddElement
    <3> QED
      BY <1>2, <3>1, <3>2
<1>4. /\ IsFiniteSet(({x} \cup {y}) \cup {z})
      /\ Cardinality(({x} \cup {y}) \cup {z}) = 3
  <2>1. z \notin {x} \cup {y}
    OBVIOUS
  <2> QED
    <3>1. Cardinality(({x} \cup {y}) \cup {z}) = Cardinality({x} \cup {y}) + 1
      BY <1>3, <2>1, FS_AddElement, Zenon
    <3>2. IsFiniteSet(({x} \cup {y}) \cup {z})
      BY <1>3, FS_AddElement
    <3> QED
      BY <1>3, <3>1, <3>2
<1>5. ({x} \cup {y}) \cup {z} \subseteq S
  OBVIOUS
<1>6. Cardinality(({x} \cup {y}) \cup {z}) <= Cardinality(S)
  BY <1>5, FS_Subset
<1>7. Cardinality(S) \in Nat
  BY FS_CardinalityType
<1> QED
  BY <1>4, <1>6, <1>7

\* The places and the footprint read from a report are places.
LEMMA FootprintIsPlaces ==
  ASSUME NEW s \in Seq(Sighting)
  PROVE  /\ Footprint(s) \subseteq Place
         /\ \A i \in DOMAIN s : PlaceOf(s[i]) \in Place
<1>1. \A i \in DOMAIN s : s[i] \in Sighting
  OBVIOUS
<1>2. \A i \in DOMAIN s : PlaceOf(s[i]) \in Place
  BY <1>1 DEF PlaceOf, Place, Sighting
<1> QED
  BY <1>2 DEF Footprint

\* resolve_edge returns the place of one of the client's sightings.
LEMMA EdgesArePlaces ==
  ASSUME TypeOK, NEW m \in Macs
  PROVE  Edges(m) \subseteq Place
<1>1. report[m] \in Seq(Sighting)
  BY TrackingAssumption DEF TypeOK
<1>2. \A i \in DOMAIN report[m] : PlaceOf(report[m][i]) \in Place
  BY <1>1, FootprintIsPlaces
<1> QED
  BY <1>2 DEF Edges

\* Every verdict of evaluate_mobility stores a well-typed outcome.
LEMMA CollectType ==
  ASSUME TypeOK, NEW m \in Macs, NEW place \in Place, NEW verdict \in Verdict,
         Collect(m, place, verdict)
  PROVE  /\ batch' \in [Macs -> Outcome \cup {None}]
         /\ todo' \subseteq Macs
         /\ clock' \in Nat /\ bootAt' \in Nat
         /\ phase' \in {"idle", "clients"}
         /\ report' \in [Macs -> Reports]
         /\ links' \in SUBSET Place
         /\ warmed' \in {"no", "hydrated", "failed"}
         /\ rows' \in [Macs -> Row \cup {None}]
  BY DEF Collect, TypeOK, Outcome

LEMMA EvaluatedType ==
  ASSUME TypeOK, NEW m \in Macs, NEW edge \in Place, NEW verdict \in Verdict,
         Evaluated(m, edge, verdict)
  PROVE  /\ Collect(m, edge, verdict)
         /\ lastHash' \in [Macs -> (SUBSET Place) \cup {None}]
<1>1. report[m] \in Seq(Sighting)
  BY TrackingAssumption DEF TypeOK
<1>2. Footprint(report[m]) \in SUBSET Place
  BY <1>1, FootprintIsPlaces
<1> QED
  BY <1>2 DEF Evaluated, TypeOK

LEMMA RecentType ==
  ASSUME TypeOK, NEW m \in Macs
  PROVE  Recent(m) \in SUBSET Visit
  BY DEF Recent, TypeOK

LEMMA EmptyType ==
  /\ Nothing \in [Macs -> Reports]
  /\ EmptyBatch \in [Macs -> Outcome \cup {None}]
  BY TrackingAssumption DEF Nothing, EmptyBatch

(***************************************************************************)
(* Type correctness.                                                       *)
(***************************************************************************)

LEMMA TypeInit == Init => TypeOK
<1> SUFFICES ASSUME Init
             PROVE  TypeOK
  OBVIOUS
<1>1. \A m \in Macs : None \in Location \cup {None} /\ {} \in SUBSET Visit
  OBVIOUS
<1> QED
  BY <1>1, EmptyType DEF Init, TypeOK

LEMMA TypeHandleClient ==
  ASSUME TypeOK, NEW m \in Macs, HandleClient(m)
  PROVE  TypeOK'
<1>1. CASE KeepUnchanged(m)
  <2>1. loc[m].place \in Place /\ "unchanged" \in Verdict
    BY <1>1 DEF KeepUnchanged, FootprintUnchanged, TypeOK, Location, Verdict
  <2> QED
    BY <1>1, <2>1, CollectType DEF KeepUnchanged, TypeOK
<1>2. ASSUME NEW edge \in Edges(m), Connect(m, edge)
      PROVE  TypeOK'
  <2>1. edge \in Place /\ "connected" \in Verdict
    BY <1>2, EdgesArePlaces DEF Verdict
  <2>2. [place |-> edge, connected |-> clock, roamed |-> clock] \in Location
    BY <2>1 DEF Location, TypeOK
  <2>3. [mac |-> m, kind |-> "connected", to |-> edge,
         from |-> None, at |-> clock] \in Event
    BY <2>1 DEF Event, TypeOK
  <2> QED
    BY <1>2, <2>1, <2>2, <2>3, CollectType, EvaluatedType
       DEF Connect, TypeOK
<1>3. ASSUME NEW edge \in Edges(m), SameEdge(m, edge)
      PROVE  TypeOK'
  <2>1. edge \in Place /\ "same" \in Verdict
    BY <1>3, EdgesArePlaces DEF Verdict
  <2> QED
    BY <1>3, <2>1, CollectType, EvaluatedType DEF SameEdge, TypeOK
<1>4. ASSUME NEW edge \in Edges(m), Dampen(m, edge)
      PROVE  TypeOK'
  <2>1. edge \in Place /\ "flapping_dampened" \in Verdict
    BY <1>4, EdgesArePlaces DEF Verdict
  <2> QED
    BY <1>4, <2>1, CollectType, EvaluatedType, RecentType DEF Dampen, TypeOK
<1>5. ASSUME NEW edge \in Edges(m), Roam(m, edge)
      PROVE  TypeOK'
  <2>1. edge \in Place /\ "roamed" \in Verdict
    BY <1>5, EdgesArePlaces DEF Verdict
  <2>2. loc[m] \in Location
    BY <1>5 DEF Roam, Moved, TypeOK
  <2>3. loc' \in [Macs -> Location \cup {None}]
    BY <1>5, <2>1, <2>2 DEF Roam, TypeOK, Location
  <2>4. [mac |-> m, kind |-> "roamed", to |-> edge,
         from |-> loc[m].place, at |-> clock] \in Event
    BY <2>1, <2>2 DEF Event, TypeOK, Location
  <2>5. [place |-> loc[m].place, at |-> clock] \in Visit
    BY <2>2 DEF Visit, TypeOK, Location
  <2>6. history' \in [Macs -> SUBSET Visit]
    BY <1>5, <2>5, RecentType DEF Roam, TypeOK
  <2> QED
    BY <1>5, <2>1, <2>3, <2>4, <2>6, CollectType, EvaluatedType
       DEF Roam, TypeOK
<1>6. ASSUME NEW edge \in Edges(m), HoldBack(m, edge)
      PROVE  TypeOK'
  <2>1. edge \in Place /\ "debounced" \in Verdict
    BY <1>6, EdgesArePlaces DEF Verdict
  <2> QED
    BY <1>6, <2>1, CollectType, EvaluatedType, RecentType
       DEF HoldBack, TypeOK
<1>7. ASSUME NEW edge \in Edges(m), EventWriteFails(m, edge)
      PROVE  TypeOK'
  BY <1>7, EmptyType, RecentType DEF EventWriteFails, tableVars, TypeOK
<1> QED
  BY <1>1, <1>2, <1>3, <1>4, <1>5, <1>6, <1>7 DEF HandleClient

LEMMA TypeNext == TypeOK /\ [Next]_vars => TypeOK'
<1> SUFFICES ASSUME TypeOK, [Next]_vars
             PROVE  TypeOK'
  OBVIOUS
<1>1. CASE StartCycle
  <2>1. clock' \in Nat
    BY <1>1, TrackingAssumption DEF StartCycle, TypeOK
  <2>2. warmed' \in {"no", "hydrated", "failed"}
    BY <1>1 DEF StartCycle, WarmLocations, TypeOK
  <2>3. Hydrated \in [Macs -> Location \cup {None}]
    BY DEF Hydrated, TypeOK, Row, Location
  <2>4. loc' \in [Macs -> Location \cup {None}]
    BY <1>1, <2>3 DEF StartCycle, WarmLocations, TypeOK
  <2>5. links' \in SUBSET Place
    BY <1>1, TrackingAssumption DEF StartCycle
  <2> QED
    BY <1>1, <2>1, <2>2, <2>4, <2>5 DEF StartCycle, tableVars, TypeOK
<1>2. ASSUME NEW m \in Macs, HandleClient(m)
      PROVE  TypeOK'
  BY <1>2, TypeHandleClient
<1>3. CASE WriteBatch
  <2>1. \A m \in Macs : batch[m] # None =>
           Upserted(rows[m], batch[m].place) \in Row
    BY DEF Upserted, TypeOK, Row, Outcome, Place
  <2>2. rows' \in [Macs -> Row \cup {None}]
    BY <1>3, <2>1 DEF WriteBatch, TypeOK
  <2> QED
    BY <1>3, <2>2, EmptyType DEF WriteBatch, EndCycle, memoryVars, TypeOK
<1>4. ASSUME NEW m \in Macs, DeleteClient(m)
      PROVE  TypeOK'
  BY <1>4 DEF DeleteClient, cycleVars, memoryVars, TypeOK
<1>7. CASE MapView
  <2>1. MapPlaces \subseteq Place
    BY TrackingAssumption
  <2>2. rows' \in [Macs -> Row \cup {None}]
    BY <1>7, <2>1 DEF MapView, TypeOK, Row
  <2> QED
    BY <1>7, <2>2 DEF MapView, cycleVars, memoryVars, TypeOK
<1>5. CASE Restart
  <2>1. events' \subseteq events
    BY <1>5 DEF Restart, WithoutRepeats, WithoutRapid
  <2> QED
    BY <1>5, <2>1, EmptyType DEF Restart, TypeOK
<1>6. CASE UNCHANGED vars
  BY <1>6 DEF vars, cycleVars, memoryVars, tableVars, TypeOK
<1> QED
  BY <1>1, <1>2, <1>3, <1>4, <1>5, <1>6, <1>7 DEF Next

\* Every variable keeps its type: what the pipeline stores in memory and in
\* the tables is well formed whatever the devices report and whatever fails.
THEOREM TypeCorrect == Spec => []TypeOK
<1>1. Init => TypeOK
  BY TypeInit
<1>2. TypeOK /\ [Next]_vars => TypeOK'
  BY TypeNext
<1> QED
  BY <1>1, <1>2, PTL DEF Spec

(***************************************************************************)
(* The inductive invariant behind the properties of the recorded movements. *)
(***************************************************************************)

\* A process that handles a cycle started before the cycle did, and a client
\* still to be handled in the cycle has no event of this cycle.
ClockInv ==
  /\ bootAt <= clock
  /\ phase = "clients" => bootAt < clock
  /\ \A e \in events : e.at <= clock
  /\ phase = "clients" =>
       \A m \in todo : \A e \in LifeEvents(m) : e.at < clock

\* e is the latest of the events in es.
IsLatest(e, es) == e \in es /\ \A f \in es : f = e \/ f.at < e.at

\* What the tracker remembers of a client agrees with its latest event.
LatestInv ==
  /\ phase = "clients" => warmed # "no"
  /\ warmed = "no" => \A m \in Macs : loc[m] = None
  /\ \A m \in Macs :
       IF loc[m] = None THEN LifeEvents(m) = {}
       ELSE \/ LifeEvents(m) = {}
            \/ \E e \in LifeEvents(m) :
                 /\ IsLatest(e, LifeEvents(m))
                 /\ e.to = loc[m].place
                 /\ e.at = loc[m].roamed

\* The transition history holds the departure of every roam that still counts.
VisitOf(e) == [place |-> e.from, at |-> e.at]

HistoryInv ==
  \A m \in Macs :
    /\ IsFiniteSet(history[m])
    /\ \A e \in LifeRoams(m) :
         VisitOf(e) \in history[m] \/ e.at < clock - Window

MovementInv == PathConnected /\ RoamsSpaced /\ NoRevisit /\ RoamBudget

TrackingInv == ClockInv /\ LatestInv /\ HistoryInv /\ MovementInv

(***************************************************************************)
(* Steps that record no event.                                             *)
(***************************************************************************)

LEMMA LifeUnchanged ==
  ASSUME events' = events, bootAt' = bootAt
  PROVE  /\ \A m \in Macs : LifeEvents(m)' = LifeEvents(m)
         /\ \A m \in Macs : LifeRoams(m)' = LifeRoams(m)
  BY DEF LifeEvents, LifeRoams

LEMMA MovementUnchanged ==
  ASSUME MovementInv, events' = events, bootAt' = bootAt
  PROVE  MovementInv'
<1>1. PathConnected'
  BY LifeUnchanged DEF MovementInv, PathConnected, Precedes
<1>2. RoamsSpaced'
  BY LifeUnchanged DEF MovementInv, RoamsSpaced
<1>3. NoRevisit'
  BY LifeUnchanged DEF MovementInv, NoRevisit, SamePlace
<1>4. RoamBudget'
  BY LifeUnchanged DEF MovementInv, RoamBudget
<1> QED
  BY <1>1, <1>2, <1>3, <1>4 DEF MovementInv

\* A step of the cycle that leaves events and places alone and at most trims
\* the history of a client.
LEMMA QuietStep ==
  ASSUME TypeOK, TrackingInv, UNCHANGED <<clock, bootAt, events, loc, warmed>>,
         todo' \subseteq todo, phase' = "clients" => phase = "clients",
         \A m \in Macs : history'[m] = history[m] \/ history'[m] = Recent(m)
  PROVE  TrackingInv'
<1>1. ClockInv'
  BY LifeUnchanged DEF TrackingInv, ClockInv, TypeOK
<1>2. LatestInv'
  BY LifeUnchanged DEF TrackingInv, LatestInv, IsLatest
<1>3. HistoryInv'
  <2> SUFFICES ASSUME NEW m \in Macs
               PROVE  /\ IsFiniteSet(history'[m])
                      /\ \A e \in LifeRoams(m) :
                           \/ VisitOf(e) \in history'[m]
                           \/ e.at < clock - Window
    BY LifeUnchanged DEF HistoryInv, VisitOf
  <2>1. CASE history'[m] = history[m]
    BY <2>1 DEF TrackingInv, HistoryInv
  <2>2. CASE history'[m] = Recent(m)
    <3>1. Recent(m) \in SUBSET history[m]
      BY DEF Recent
    <3>2. IsFiniteSet(Recent(m))
      BY <3>1, FS_Subset DEF TrackingInv, HistoryInv
    <3>3. ASSUME NEW e \in LifeRoams(m), VisitOf(e) \in history[m]
          PROVE  VisitOf(e) \in Recent(m) \/ e.at < clock - Window
      <4>1. e.at \in Nat /\ clock \in Nat /\ Window \in Nat
        BY TrackingAssumption DEF TypeOK, LifeRoams, LifeEvents, Event
      <4> QED
        BY <3>3, <4>1 DEF Recent, VisitOf
    <3> QED
      BY <2>2, <3>2, <3>3 DEF TrackingInv, HistoryInv
  <2> QED
    BY <2>1, <2>2
<1>4. MovementInv'
  BY MovementUnchanged DEF TrackingInv
<1> QED
  BY <1>1, <1>2, <1>3, <1>4 DEF TrackingInv

(***************************************************************************)
(* Steps that record one event, dated by the running cycle.                *)
(***************************************************************************)

LEMMA LifeAppended ==
  ASSUME TypeOK, ClockInv, phase = "clients", NEW m \in Macs,
         NEW e \in Event, e.mac = m, e.at = clock,
         events' = events \cup {e}, bootAt' = bootAt
  PROVE  /\ LifeEvents(m)' = LifeEvents(m) \cup {e}
         /\ LifeRoams(m)' = IF e.kind = "roamed" THEN LifeRoams(m) \cup {e}
                            ELSE LifeRoams(m)
         /\ \A k \in Macs \ {m} : /\ LifeEvents(k)' = LifeEvents(k)
                                   /\ LifeRoams(k)' = LifeRoams(k)
<1>1. e.at > bootAt
  BY DEF ClockInv, TypeOK
<1>2. LifeEvents(m)' = LifeEvents(m) \cup {e}
  BY <1>1 DEF LifeEvents
<1>3. \A k \in Macs \ {m} : LifeEvents(k)' = LifeEvents(k)
  BY DEF LifeEvents
<1> QED
  BY <1>2, <1>3 DEF LifeRoams

\* The clock and the process start stay, and only this client was to do.
LEMMA ClockStep ==
  ASSUME TypeOK, ClockInv, NEW m \in todo, phase = "clients",
         NEW e \in Event, e.mac = m, e.at = clock,
         events' = events \cup {e}, UNCHANGED <<clock, phase, bootAt>>,
         todo' = todo \ {m}
  PROVE  ClockInv'
<1>1. m \in Macs /\ todo' \subseteq Macs
  BY DEF TypeOK
<1>2. \A f \in events' : f.at <= clock'
  BY DEF ClockInv, TypeOK
<1>3. ASSUME NEW k \in todo', NEW f \in LifeEvents(k)'
      PROVE  f.at < clock'
  BY <1>1, <1>3, LifeAppended DEF ClockInv
<1> QED
  BY <1>2, <1>3 DEF ClockInv

\* Every earlier event of a client that is still to do is older than the clock.
LEMMA EarlierEvents ==
  ASSUME TypeOK, ClockInv, phase = "clients", NEW m \in todo
  PROVE  \A f \in LifeEvents(m) : f.at \in Nat /\ f.at < clock
  BY DEF ClockInv, LifeEvents, TypeOK, Event

LEMMA ConnectStep ==
  ASSUME TypeOK, TrackingInv, NEW m \in todo, phase = "clients",
         NEW edge \in Place, Connect(m, edge)
  PROVE  TrackingInv'
<1> DEFINE e == [mac |-> m, kind |-> "connected", to |-> edge,
                 from |-> None, at |-> clock]
<1>1. m \in Macs /\ e \in Event /\ e.mac = m /\ e.at = clock
  BY DEF TypeOK, Event
<1>2. /\ events' = events \cup {e}
      /\ todo' = todo \ {m}
      /\ UNCHANGED <<clock, phase, bootAt, warmed, history>>
      /\ loc' = [loc EXCEPT ![m] =
                   [place |-> edge, connected |-> clock, roamed |-> clock]]
      /\ loc[m] = None
  BY DEF Connect, Evaluated, Collect
<1>3. LifeEvents(m) = {} /\ LifeRoams(m) = {}
  BY <1>1, <1>2 DEF TrackingInv, LatestInv, LifeRoams
<1>4. /\ LifeEvents(m)' = {e} /\ LifeRoams(m)' = {}
      /\ \A k \in Macs \ {m} : /\ LifeEvents(k)' = LifeEvents(k)
                                /\ LifeRoams(k)' = LifeRoams(k)
  <2> HIDE DEF e
  <2>1. e.kind # "roamed"
    BY DEF e
  <2> QED
    BY <1>1, <1>2, <1>3, <2>1, LifeAppended DEF TrackingInv
<1>5. ClockInv'
  <2> HIDE DEF e
  <2> QED
    BY <1>1, <1>2, ClockStep DEF TrackingInv
<1>6. LatestInv'
  <2>1. warmed' # "no"
    BY <1>2 DEF TrackingInv, LatestInv
  <2>2. /\ loc'[m] # None /\ loc'[m].place = edge /\ loc'[m].roamed = clock
        /\ \A k \in Macs \ {m} : loc'[k] = loc[k]
    <3>1. [place |-> edge, connected |-> clock, roamed |-> clock] \in Location
      BY DEF TypeOK, Location
    <3> QED
      BY <1>1, <1>2, <3>1, TrackingAssumption DEF TypeOK
  <2>3. IsLatest(e, LifeEvents(m)') /\ e.to = edge
    BY <1>4 DEF IsLatest
  <2>4. ASSUME NEW k \in Macs \ {m}
        PROVE  IF loc'[k] = None THEN LifeEvents(k)' = {}
               ELSE \/ LifeEvents(k)' = {}
                    \/ \E f \in LifeEvents(k)' :
                         /\ IsLatest(f, LifeEvents(k)')
                         /\ f.to = loc'[k].place
                         /\ f.at = loc'[k].roamed
    BY <1>4, <2>2, <2>4 DEF TrackingInv, LatestInv
  <2> HIDE DEF e
  <2>5. \E f \in LifeEvents(m)' :
          /\ IsLatest(f, LifeEvents(m)')
          /\ f.to = loc'[m].place
          /\ f.at = loc'[m].roamed
    BY <1>1, <1>4, <2>2, <2>3
  <2> QED
    BY <1>1, <2>1, <2>2, <2>4, <2>5 DEF LatestInv, IsLatest
<1>7. HistoryInv'
  BY <1>2, <1>4 DEF TrackingInv, HistoryInv, VisitOf
<1>8. MovementInv'
  <2>1. PathConnected'
    BY <1>4 DEF TrackingInv, MovementInv, PathConnected, Precedes
  <2>2. RoamsSpaced'
    BY <1>4 DEF TrackingInv, MovementInv, RoamsSpaced
  <2>3. NoRevisit'
    BY <1>4 DEF TrackingInv, MovementInv, NoRevisit, SamePlace
  <2>4. RoamBudget'
    BY <1>4 DEF TrackingInv, MovementInv, RoamBudget
  <2> QED
    BY <2>1, <2>2, <2>3, <2>4 DEF MovementInv
<1> QED
  BY <1>5, <1>6, <1>7, <1>8 DEF TrackingInv

\* The event of a roam departs from the tracked place, late enough after the
\* client's other events, to a place not left within the window, and not as
\* the fourth roam of the window.
LEMMA RoamFacts ==
  ASSUME TypeOK, TrackingInv, NEW m \in todo, phase = "clients",
         NEW edge \in Place, Roam(m, edge)
  PROVE  /\ \A f \in LifeEvents(m) :
              (\A g \in LifeEvents(m) : g.at <= f.at) => f.to = loc[m].place
         /\ \A f \in LifeEvents(m) : clock - f.at >= Debounce
         /\ \A f \in LifeRoams(m) :
              clock - f.at <= Window => ~SamePlace(edge, f.from)
         /\ \A a, b, c \in LifeRoams(m) :
              a.at < b.at /\ b.at < c.at => clock - a.at > Window
<1>1. m \in Macs /\ loc[m] # None /\ loc[m] \in Location
  BY DEF TypeOK, Roam, Moved
<1>2. ~Flapping(m, edge) /\ Settled(m)
  BY DEF Roam
<1>3. clock \in Nat /\ Window \in Nat /\ Debounce \in Nat /\ bootAt \in Nat
  BY TrackingAssumption DEF TypeOK
<1>4. \A f \in LifeEvents(m) : f.at \in Nat /\ f.at < clock /\ f.at > bootAt
  BY EarlierEvents DEF TrackingInv, LifeEvents
<1>5. ASSUME NEW f \in LifeEvents(m)
      PROVE  /\ (\A g \in LifeEvents(m) : g.at <= f.at) => f.to = loc[m].place
             /\ clock - f.at >= Debounce
  <2>1. PICK e \in LifeEvents(m) : /\ IsLatest(e, LifeEvents(m))
                                  /\ e.to = loc[m].place
                                  /\ e.at = loc[m].roamed
    BY <1>1, <1>5 DEF TrackingInv, LatestInv
  <2>2. LastRoamed(m) = e.at
    BY <1>3, <1>4, <2>1 DEF LastRoamed
  <2>3. clock - e.at >= Debounce
    BY <1>2, <2>2 DEF Settled
  <2>4. f.at <= e.at
    BY <1>4, <2>1 DEF IsLatest
  <2>5. (\A g \in LifeEvents(m) : g.at <= f.at) => f = e
    BY <1>4, <2>1 DEF IsLatest
  <2> QED
    BY <1>3, <1>4, <2>1, <2>3, <2>4, <2>5
<1>6. ASSUME NEW f \in LifeRoams(m), clock - f.at <= Window
      PROVE  VisitOf(f) \in Recent(m)
  <2>1. f.at \in Nat
    BY <1>4 DEF LifeRoams
  <2>2. VisitOf(f) \in history[m]
    BY <1>1, <1>3, <1>6, <2>1 DEF TrackingInv, HistoryInv
  <2> QED
    BY <1>3, <1>6, <2>1, <2>2 DEF Recent, VisitOf
<1>7. ASSUME NEW f \in LifeRoams(m), clock - f.at <= Window
      PROVE  ~SamePlace(edge, f.from)
  BY <1>2, <1>6, <1>7 DEF Flapping, SamePlace, VisitOf
<1>8. ASSUME NEW a \in LifeRoams(m), NEW b \in LifeRoams(m),
             NEW c \in LifeRoams(m), a.at < b.at, b.at < c.at
      PROVE  clock - a.at > Window
  <2>1. a.at \in Nat /\ b.at \in Nat /\ c.at \in Nat
    BY <1>4 DEF LifeRoams
  <2>2. SUFFICES ASSUME clock - a.at <= Window
                 PROVE  FALSE
    BY <1>3, <2>1
  <2>3. clock - b.at <= Window /\ clock - c.at <= Window
    BY <1>3, <1>8, <2>1, <2>2
  <2>4. /\ VisitOf(a) \in Recent(m)
        /\ VisitOf(b) \in Recent(m)
        /\ VisitOf(c) \in Recent(m)
    BY <1>6, <2>2, <2>3
  <2>5. VisitOf(a).at = a.at /\ VisitOf(b).at = b.at /\ VisitOf(c).at = c.at
    BY DEF VisitOf
  <2>6. /\ VisitOf(a) # VisitOf(b)
        /\ VisitOf(a) # VisitOf(c)
        /\ VisitOf(b) # VisitOf(c)
    BY <1>8, <2>1, <2>5
  <2>7. IsFiniteSet(Recent(m))
    <3>1. Recent(m) \in SUBSET history[m] /\ IsFiniteSet(history[m])
      BY <1>1 DEF Recent, TrackingInv, HistoryInv
    <3> QED
      BY <3>1, FS_Subset
  <2>8. Cardinality(Recent(m)) >= 3
    BY <2>4, <2>6, <2>7, ThreeElements
  <2> QED
    BY <1>2, <2>8 DEF Flapping, FlapLimit
<1> QED
  BY <1>5, <1>7, <1>8

LEMMA RoamStep ==
  ASSUME TypeOK, TrackingInv, NEW m \in todo, phase = "clients",
         NEW edge \in Place, Roam(m, edge)
  PROVE  TrackingInv'
<1> DEFINE e == [mac |-> m, kind |-> "roamed", to |-> edge,
                 from |-> loc[m].place, at |-> clock]
<1>1. m \in Macs /\ loc[m] # None /\ loc[m] \in Location
  BY DEF TypeOK, Roam, Moved
<1>2. /\ e \in Event /\ e.mac = m /\ e.at = clock /\ e.kind = "roamed"
      /\ e.to = edge /\ e.from = loc[m].place
  BY <1>1 DEF TypeOK, Event, Location
<1>3. /\ events' = events \cup {e}
      /\ todo' = todo \ {m}
      /\ UNCHANGED <<clock, phase, bootAt, warmed>>
      /\ loc' = [loc EXCEPT ![m].place = edge, ![m].roamed = clock]
      /\ history' = [history EXCEPT ![m] = Recent(m) \cup {VisitOf(e)}]
  BY DEF Roam, Evaluated, Collect, VisitOf
<1>4. \A f \in LifeEvents(m) : f.at \in Nat /\ f.at < clock
  BY EarlierEvents DEF TrackingInv
<1>5. clock \in Nat /\ Window \in Nat /\ Debounce \in Nat
  BY TrackingAssumption DEF TypeOK
<1> HIDE DEF e
<1>6. /\ LifeEvents(m)' = LifeEvents(m) \cup {e}
      /\ LifeRoams(m)' = LifeRoams(m) \cup {e}
      /\ \A k \in Macs \ {m} : /\ LifeEvents(k)' = LifeEvents(k)
                                /\ LifeRoams(k)' = LifeRoams(k)
  BY <1>1, <1>2, <1>3, LifeAppended DEF TrackingInv
<1>7. ClockInv'
  BY <1>2, <1>3, ClockStep DEF TrackingInv
<1>8. LatestInv'
  <2>1. warmed' # "no"
    BY <1>3 DEF TrackingInv, LatestInv
  <2>2. /\ loc'[m] # None /\ loc'[m].place = edge /\ loc'[m].roamed = clock
        /\ \A k \in Macs \ {m} : loc'[k] = loc[k]
    <3>1. [loc[m] EXCEPT !.place = edge, !.roamed = clock] \in Location
      BY <1>1, <1>5 DEF Location
    <3> QED
      BY <1>1, <1>3, <3>1, TrackingAssumption DEF TypeOK, Location
  <2>3. IsLatest(e, LifeEvents(m)')
    BY <1>2, <1>4, <1>6 DEF IsLatest
  <2>4. \E f \in LifeEvents(m)' :
          /\ IsLatest(f, LifeEvents(m)')
          /\ f.to = loc'[m].place
          /\ f.at = loc'[m].roamed
    BY <1>2, <1>6, <2>2, <2>3
  <2>5. ASSUME NEW k \in Macs \ {m}
        PROVE  IF loc'[k] = None THEN LifeEvents(k)' = {}
               ELSE \/ LifeEvents(k)' = {}
                    \/ \E f \in LifeEvents(k)' :
                         /\ IsLatest(f, LifeEvents(k)')
                         /\ f.to = loc'[k].place
                         /\ f.at = loc'[k].roamed
    BY <1>6, <2>2, <2>5 DEF TrackingInv, LatestInv
  <2> QED
    BY <1>1, <2>1, <2>2, <2>4, <2>5 DEF LatestInv, IsLatest
<1>9. HistoryInv'
  <2>1. IsFiniteSet(history'[m])
    <3>1. Recent(m) \in SUBSET history[m] /\ IsFiniteSet(history[m])
      BY <1>1 DEF Recent, TrackingInv, HistoryInv
    <3>2. IsFiniteSet(Recent(m) \cup {VisitOf(e)})
      BY <3>1, FS_Subset, FS_AddElement
    <3> QED
      BY <1>1, <1>3, <3>2 DEF TypeOK
  <2>2. ASSUME NEW f \in LifeRoams(m)'
        PROVE  VisitOf(f) \in history'[m] \/ f.at < clock - Window
    <3>1. VisitOf(f) \in Recent(m) \cup {VisitOf(e)} \/ f.at < clock - Window
      <4>1. CASE f = e
        BY <4>1
      <4>2. CASE f \in LifeRoams(m)
        <5>1. f.at \in Nat
          BY <1>4, <4>2 DEF LifeRoams
        <5>2. VisitOf(f) \in history[m] \/ f.at < clock - Window
          BY <1>1, <4>2 DEF TrackingInv, HistoryInv
        <5> QED
          BY <1>5, <5>1, <5>2 DEF Recent, VisitOf
      <4> QED
        BY <1>6, <2>2, <4>1, <4>2
    <3> QED
      BY <1>1, <1>3, <3>1 DEF TypeOK
  <2>3. \A k \in Macs \ {m} : history'[k] = history[k]
    BY <1>1, <1>3 DEF TypeOK
  <2> QED
    BY <1>1, <1>3, <1>6, <2>1, <2>2, <2>3
       DEF TrackingInv, HistoryInv, VisitOf
<1>10. MovementInv'
  <2>1. PathConnected'
    <3>1. ASSUME NEW d \in LifeRoams(m)', NEW f \in LifeEvents(m)',
                 Precedes(f, d, LifeEvents(m)')
          PROVE  d.from = f.to
      <4>1. CASE d = e
        <5>1. f \in LifeEvents(m)
          BY <1>2, <1>6, <3>1, <4>1, <1>5 DEF Precedes
        <5>2. \A g \in LifeEvents(m) : g.at <= f.at
          <6> SUFFICES ASSUME NEW g \in LifeEvents(m)
                       PROVE  g.at <= f.at
            OBVIOUS
          <6>1. g \in LifeEvents(m)' /\ g.mac = m /\ d.mac = m
            BY <1>2, <1>6, <4>1 DEF LifeEvents
          <6>2. g.at <= f.at \/ g.at >= d.at
            BY <3>1, <6>1 DEF Precedes
          <6> QED
            BY <1>2, <1>4, <1>5, <4>1, <6>2
        <5> QED
          BY <1>2, <4>1, <5>1, <5>2, RoamFacts
      <4>2. CASE d # e
        <5>1. d \in LifeRoams(m) /\ d.at < clock /\ d.at \in Nat
          BY <1>4, <1>6, <4>2 DEF LifeRoams
        <5>2. f \in LifeEvents(m)
          BY <1>2, <1>5, <1>6, <3>1, <5>1 DEF Precedes
        <5>3. Precedes(f, d, LifeEvents(m))
          BY <1>6, <3>1 DEF Precedes
        <5> QED
          BY <1>1, <5>1, <5>2, <5>3 DEF TrackingInv, MovementInv, PathConnected
      <4> QED
        BY <4>1, <4>2
    <3> QED
      BY <1>6, <3>1 DEF TrackingInv, MovementInv, PathConnected, Precedes
  <2>2. RoamsSpaced'
    <3>1. ASSUME NEW d \in LifeRoams(m)', NEW f \in LifeEvents(m)', f.at < d.at
          PROVE  d.at - f.at >= Debounce
      <4>1. CASE d = e
        BY <1>2, <1>5, <1>6, <3>1, <4>1, RoamFacts
      <4>2. CASE d # e
        <5>1. d \in LifeRoams(m) /\ d.at < clock /\ d.at \in Nat
          BY <1>4, <1>6, <4>2 DEF LifeRoams
        <5>2. f \in LifeEvents(m)
          BY <1>2, <1>5, <1>6, <3>1, <5>1
        <5> QED
          BY <1>1, <3>1, <5>1, <5>2 DEF TrackingInv, MovementInv, RoamsSpaced
      <4> QED
        BY <4>1, <4>2
    <3> QED
      BY <1>6, <3>1 DEF TrackingInv, MovementInv, RoamsSpaced
  <2>3. NoRevisit'
    <3>1. ASSUME NEW d \in LifeRoams(m)', NEW f \in LifeRoams(m)',
                 f.at < d.at, d.at - f.at <= Window
          PROVE  ~SamePlace(d.to, f.from)
      <4>1. CASE d = e
        BY <1>2, <1>5, <1>6, <3>1, <4>1, RoamFacts
      <4>2. CASE d # e
        <5>1. d \in LifeRoams(m) /\ d.at < clock /\ d.at \in Nat
          BY <1>4, <1>6, <4>2 DEF LifeRoams
        <5>2. f \in LifeRoams(m)
          BY <1>2, <1>5, <1>6, <3>1, <5>1
        <5> QED
          BY <1>1, <3>1, <5>1, <5>2 DEF TrackingInv, MovementInv, NoRevisit
      <4> QED
        BY <4>1, <4>2
    <3> QED
      BY <1>6, <3>1 DEF TrackingInv, MovementInv, NoRevisit, SamePlace
  <2>4. RoamBudget'
    <3>1. ASSUME NEW a \in LifeRoams(m)', NEW b \in LifeRoams(m)',
                 NEW c \in LifeRoams(m)', NEW d \in LifeRoams(m)',
                 a.at < b.at, b.at < c.at, c.at < d.at
          PROVE  d.at - a.at > Window
      <4>1. \A f \in LifeRoams(m)' :
               \/ f = e
               \/ f \in LifeRoams(m) /\ f.at < clock /\ f.at \in Nat
        BY <1>4, <1>6 DEF LifeRoams
      <4>2. a \in LifeRoams(m) /\ b \in LifeRoams(m) /\ c \in LifeRoams(m)
        BY <1>2, <1>5, <3>1, <4>1
      <4>3. CASE d = e
        BY <1>2, <3>1, <4>2, <4>3, RoamFacts
      <4>4. CASE d # e
        BY <1>1, <3>1, <4>1, <4>2, <4>4 DEF TrackingInv, MovementInv, RoamBudget
      <4> QED
        BY <4>3, <4>4
    <3> QED
      BY <1>6, <3>1 DEF TrackingInv, MovementInv, RoamBudget
  <2> QED
    BY <2>1, <2>2, <2>3, <2>4 DEF MovementInv
<1> QED
  BY <1>7, <1>8, <1>9, <1>10 DEF TrackingInv

(***************************************************************************)
(* The invariant holds.                                                    *)
(***************************************************************************)

LEMMA TrackingInit == Init => TrackingInv
<1> SUFFICES ASSUME Init
             PROVE  TrackingInv
  OBVIOUS
<1>1. \A m \in Macs : LifeEvents(m) = {} /\ LifeRoams(m) = {}
  BY DEF Init, LifeEvents, LifeRoams
<1>2. ClockInv
  BY DEF Init, ClockInv
<1>3. LatestInv
  BY <1>1 DEF Init, LatestInv
<1>4. HistoryInv
  BY <1>1, FS_EmptySet DEF Init, HistoryInv
<1>5. MovementInv
  BY <1>1 DEF MovementInv, PathConnected, RoamsSpaced, NoRevisit, RoamBudget
<1> QED
  BY <1>2, <1>3, <1>4, <1>5 DEF TrackingInv

LEMMA HandleClientStep ==
  ASSUME TypeOK, TrackingInv, NEW m \in Macs, HandleClient(m)
  PROVE  TrackingInv'
<1>1. phase = "clients" /\ m \in todo
  BY DEF HandleClient
<1>2. CASE KeepUnchanged(m)
  BY <1>2, QuietStep DEF KeepUnchanged, Collect
<1>3. ASSUME NEW edge \in Edges(m), Connect(m, edge)
      PROVE  TrackingInv'
  BY <1>1, <1>3, EdgesArePlaces, ConnectStep
<1>4. ASSUME NEW edge \in Edges(m), SameEdge(m, edge)
      PROVE  TrackingInv'
  BY <1>4, QuietStep DEF SameEdge, Evaluated, Collect
<1>5. ASSUME NEW edge \in Edges(m), Dampen(m, edge)
      PROVE  TrackingInv'
  BY <1>5, QuietStep DEF Dampen, Evaluated, Collect, TypeOK
<1>6. ASSUME NEW edge \in Edges(m), Roam(m, edge)
      PROVE  TrackingInv'
  BY <1>1, <1>6, EdgesArePlaces, RoamStep
<1>7. ASSUME NEW edge \in Edges(m), HoldBack(m, edge)
      PROVE  TrackingInv'
  BY <1>7, QuietStep DEF HoldBack, Evaluated, Collect, TypeOK
<1>8. ASSUME NEW edge \in Edges(m), EventWriteFails(m, edge)
      PROVE  TrackingInv'
  BY <1>8, QuietStep DEF EventWriteFails, tableVars, TypeOK
<1> QED
  BY <1>2, <1>3, <1>4, <1>5, <1>6, <1>7, <1>8 DEF HandleClient

LEMMA StartCycleStep ==
  ASSUME TypeOK, TrackingInv, StartCycle
  PROVE  TrackingInv'
<1>1. /\ clock \in Nat /\ clock' \in Nat /\ clock' > clock
      /\ bootAt \in Nat /\ Window \in Nat
      /\ UNCHANGED <<events, bootAt, history>>
  BY TrackingAssumption DEF StartCycle, tableVars, TypeOK
<1>2. \A e \in events : e.at \in Nat /\ e.at <= clock
  BY DEF TrackingInv, ClockInv, TypeOK, Event
<1>3. ClockInv'
  BY <1>1, <1>2 DEF TrackingInv, ClockInv, LifeEvents
<1>4. LatestInv'
  <2>1. warmed' # "no"
    BY DEF StartCycle, WarmLocations
  <2>2. CASE warmed = "no"
    <3>1. \A m \in Macs : LifeEvents(m)' = {}
      BY <1>1, <2>2, LifeUnchanged DEF TrackingInv, LatestInv
    <3> QED
      BY <2>1, <3>1 DEF LatestInv
  <2>3. CASE warmed # "no"
    <3>1. loc' = loc
      BY <2>3 DEF StartCycle, WarmLocations
    <3> QED
      BY <1>1, <2>1, <3>1, LifeUnchanged DEF TrackingInv, LatestInv, IsLatest
  <2> QED
    BY <2>2, <2>3
<1>5. HistoryInv'
  <2>1. \A m \in Macs : \A e \in LifeRoams(m) : e.at \in Nat
    BY <1>2 DEF LifeRoams, LifeEvents
  <2> QED
    BY <1>1, <2>1, LifeUnchanged DEF TrackingInv, HistoryInv, VisitOf
<1>6. MovementInv'
  BY <1>1, MovementUnchanged DEF TrackingInv
<1> QED
  BY <1>3, <1>4, <1>5, <1>6 DEF TrackingInv

LEMMA RestartStep ==
  ASSUME TypeOK, TrackingInv, Restart
  PROVE  TrackingInv'
<1>1. events' \subseteq events /\ clock' = clock /\ bootAt' = clock
  BY DEF Restart, WithoutRepeats, WithoutRapid
<1>2. \A e \in events : e.at \in Nat /\ e.at <= clock /\ clock \in Nat
  BY DEF TrackingInv, ClockInv, TypeOK, Event
<1>3. \A m \in Macs : LifeEvents(m)' = {} /\ LifeRoams(m)' = {}
  BY <1>1, <1>2 DEF LifeEvents, LifeRoams
<1>4. ClockInv'
  BY <1>1, <1>2 DEF Restart, ClockInv, TypeOK
<1>5. LatestInv'
  BY <1>3 DEF Restart, LatestInv
<1>6. HistoryInv'
  BY <1>3, FS_EmptySet DEF Restart, HistoryInv
<1>7. MovementInv'
  BY <1>3 DEF MovementInv, PathConnected, RoamsSpaced, NoRevisit, RoamBudget
<1> QED
  BY <1>4, <1>5, <1>6, <1>7 DEF TrackingInv

LEMMA TrackingNext == TypeOK /\ TrackingInv /\ [Next]_vars => TrackingInv'
<1> SUFFICES ASSUME TypeOK, TrackingInv, [Next]_vars
             PROVE  TrackingInv'
  OBVIOUS
<1>1. CASE WriteBatch
  BY <1>1, QuietStep DEF WriteBatch, EndCycle, memoryVars
<1>2. ASSUME NEW m \in Macs, DeleteClient(m)
      PROVE  TrackingInv'
  BY <1>2, QuietStep DEF DeleteClient, cycleVars, memoryVars
<1>3. CASE UNCHANGED vars
  BY <1>3, QuietStep DEF vars, cycleVars, memoryVars, tableVars
<1>4. CASE MapView
  BY <1>4, QuietStep DEF MapView, cycleVars, memoryVars
<1> QED
  BY <1>1, <1>2, <1>3, <1>4, StartCycleStep, HandleClientStep, RestartStep DEF Next

LEMMA TrackingInvariant == Spec => []TrackingInv
<1>1. Init => TrackingInv
  BY TrackingInit
<1>2. TypeOK /\ TrackingInv /\ [Next]_vars => TrackingInv'
  BY TrackingNext
<1> QED
  BY <1>1, <1>2, TypeCorrect, PTL DEF Spec

\* The roamed events a process records for a client form a path, whatever
\* moves were refused and whatever writes failed between them.
THEOREM MovementsFormPath == Spec => []PathConnected
<1>1. TrackingInv => PathConnected
  BY DEF TrackingInv, MovementInv
<1> QED
  BY <1>1, TrackingInvariant, PTL

\* Roams of a client are at least the debounce interval apart from its other
\* events of the same process.
THEOREM RoamsAreSpaced == Spec => []RoamsSpaced
<1>1. TrackingInv => RoamsSpaced
  BY DEF TrackingInv, MovementInv
<1> QED
  BY <1>1, TrackingInvariant, PTL

\* A client is not sent back to a place it left within the flapping window.
THEOREM NoPingPong == Spec => []NoRevisit
<1>1. TrackingInv => NoRevisit
  BY DEF TrackingInv, MovementInv
<1> QED
  BY <1>1, TrackingInvariant, PTL

\* At most three roams of a client fall into one flapping window.
THEOREM RoamsAreBounded == Spec => []RoamBudget
<1>1. TrackingInv => RoamBudget
  BY DEF TrackingInv, MovementInv
<1> QED
  BY <1>1, TrackingInvariant, PTL

\* The tracked place of a client is the destination of its latest event.
THEOREM LocationMatchesHistory == Spec => []LocationIsReported
<1>1. TypeOK /\ TrackingInv => LocationIsReported
  <2> SUFFICES ASSUME TypeOK, TrackingInv, NEW m \in Macs,
                      NEW e \in LifeEvents(m),
                      \A f \in LifeEvents(m) : f.at <= e.at
               PROVE  loc[m] # None /\ loc[m].place = e.to
    BY DEF LocationIsReported
  <2>1. \A f \in LifeEvents(m) : f.at \in Nat
    BY DEF TypeOK, LifeEvents, Event
  <2>2. loc[m] # None
    BY DEF TrackingInv, LatestInv
  <2>3. PICK f \in LifeEvents(m) : /\ IsLatest(f, LifeEvents(m))
                                  /\ f.to = loc[m].place
    BY <2>2 DEF TrackingInv, LatestInv
  <2>4. f = e
    BY <2>1, <2>3 DEF IsLatest
  <2> QED
    BY <2>2, <2>3, <2>4
<1> QED
  BY <1>1, TypeCorrect, TrackingInvariant, PTL

\* A step that records an event records the first of its client or a roam.
LEMMA AnnouncedStep ==
  ASSUME TypeOK, TrackingInv, AnnouncedFirst, [Next]_vars
  PROVE  AnnouncedFirst'
<1>1. \A e \in events : e.at \in Nat /\ e.at <= clock /\ clock \in Nat
  BY DEF TrackingInv, ClockInv, TypeOK, Event
<1>2. CASE UNCHANGED <<events, bootAt>>
  BY <1>2, LifeUnchanged DEF AnnouncedFirst
<1>3. ASSUME NEW m \in Macs, NEW edge \in Edges(m), Connect(m, edge)
      PROVE  AnnouncedFirst'
  <2>1. LifeEvents(m) = {}
    BY <1>3 DEF Connect, TrackingInv, LatestInv
  <2> DEFINE e == [mac |-> m, kind |-> "connected", to |-> edge,
                   from |-> None, at |-> clock]
  <2>2. events' = events \cup {e} /\ bootAt' = bootAt /\ e.mac = m
    BY <1>3 DEF Connect, Evaluated, Collect
  <2>3. \A f \in LifeEvents(m)' : f = e
    BY <2>1, <2>2 DEF LifeEvents
  <2>4. \A k \in Macs \ {m} : LifeEvents(k)' = LifeEvents(k)
    BY <2>2 DEF LifeEvents
  <2>5. e.at <= e.at
    BY DEF TypeOK
  <2> HIDE DEF e
  <2> QED
    BY <2>3, <2>4, <2>5 DEF AnnouncedFirst
<1>4. ASSUME NEW m \in Macs, NEW edge \in Edges(m), Roam(m, edge)
      PROVE  AnnouncedFirst'
  <2> DEFINE e == [mac |-> m, kind |-> "roamed", to |-> edge,
                   from |-> loc[m].place, at |-> clock]
  <2>1. /\ events' = events \cup {e} /\ bootAt' = bootAt
        /\ e.kind # "connected" /\ e.at = clock
    BY <1>4 DEF Roam, Evaluated, Collect
  <2> HIDE DEF e
  <2>2. \A k \in Macs : \A f \in LifeEvents(k)' : f = e \/ f \in LifeEvents(k)
    BY <2>1 DEF LifeEvents
  <2>3. \A k \in Macs : \A f \in LifeEvents(k) : f.at <= e.at
    BY <1>1, <2>1 DEF LifeEvents
  <2> QED
    BY <2>1, <2>2, <2>3 DEF AnnouncedFirst
<1>5. CASE Restart
  <2>1. events' \subseteq events /\ bootAt' = clock
    BY <1>5 DEF Restart, WithoutRepeats, WithoutRapid
  <2>2. \A m \in Macs : LifeEvents(m)' = {}
    BY <1>1, <2>1 DEF LifeEvents
  <2> QED
    BY <2>2 DEF AnnouncedFirst
<1>6. ASSUME NEW m \in Macs, HandleClient(m)
      PROVE  AnnouncedFirst'
  <2>1. CASE KeepUnchanged(m)
    BY <1>2, <2>1 DEF KeepUnchanged, Collect
  <2>2. ASSUME NEW edge \in Edges(m),
               \/ SameEdge(m, edge) \/ Dampen(m, edge) \/ HoldBack(m, edge)
               \/ EventWriteFails(m, edge)
        PROVE  AnnouncedFirst'
    BY <1>2, <2>2
       DEF SameEdge, Dampen, HoldBack, EventWriteFails, Evaluated, Collect,
           tableVars
  <2> QED
    BY <1>3, <1>4, <1>6, <2>1, <2>2 DEF HandleClient
<1>7. CASE StartCycle \/ WriteBatch \/ MapView
  BY <1>2, <1>7 DEF StartCycle, WriteBatch, EndCycle, MapView, tableVars
<1>8. ASSUME NEW m \in Macs, DeleteClient(m)
      PROVE  AnnouncedFirst'
  BY <1>2, <1>8 DEF DeleteClient
<1>9. CASE UNCHANGED vars
  BY <1>2, <1>9 DEF vars, tableVars
<1> QED
  BY <1>5, <1>6, <1>7, <1>8, <1>9 DEF Next

\* No client is announced as newly connected again by the same process,
\* whatever requests delete it and whatever the network map stores of it.
THEOREM AnnouncedOnce == Spec => []AnnouncedFirst
<1>1. Init => AnnouncedFirst
  BY DEF Init, AnnouncedFirst, LifeEvents
<1>2. TypeOK /\ TrackingInv /\ AnnouncedFirst /\ [Next]_vars => AnnouncedFirst'
  BY AnnouncedStep
<1> QED
  BY <1>1, <1>2, TypeCorrect, TrackingInvariant, PTL DEF Spec

(***************************************************************************)
(* What the batch of a cycle stores.                                       *)
(***************************************************************************)

\* A collected row has the tracked place, or one that was refused or has no port.
Explains(o, place) ==
  \/ SamePlace(o.place, place)
  \/ o.verdict \in {"flapping_dampened", "debounced"}
  \/ o.place[2] = NoPort

\* Rows are collected in a cycle only, each of a client that is tracked, and the
\* tracked place does not change between a verdict and the write of the batch.
BatchInv ==
  \A m \in Macs : batch[m] # None =>
    phase = "clients" /\ loc[m] # None /\ Explains(batch[m], loc[m].place)

\* A verdict explains what it collects, and leaves the other clients alone.
LEMMA VerdictStep ==
  ASSUME TypeOK, BatchInv, NEW m \in Macs, phase = "clients",
         NEW place \in Place, NEW verdict \in Verdict, Collect(m, place, verdict),
         \A k \in Macs \ {m} : loc'[k] = loc[k],
         loc'[m] # None, Explains([place |-> place, verdict |-> verdict], loc'[m].place)
  PROVE  BatchInv'
<1>1. /\ batch' = [batch EXCEPT ![m] = [place |-> place, verdict |-> verdict]]
      /\ phase' = "clients"
  BY DEF Collect
<1>2. batch'[m] = [place |-> place, verdict |-> verdict]
  BY <1>1 DEF TypeOK
<1>3. ASSUME NEW k \in Macs \ {m} PROVE batch'[k] = batch[k]
  BY <1>1, <1>3 DEF TypeOK
<1>4. ASSUME NEW k \in Macs, batch'[k] # None
      PROVE  loc'[k] # None /\ Explains(batch'[k], loc'[k].place)
  BY <1>2, <1>3, <1>4 DEF BatchInv
<1> QED
  BY <1>1, <1>4 DEF BatchInv, Explains

LEMMA BatchHandleStep ==
  ASSUME TypeOK, BatchInv, NEW m \in Macs, HandleClient(m)
  PROVE  BatchInv'
<1>1. phase = "clients" /\ Edges(m) \subseteq Place
  BY EdgesArePlaces DEF HandleClient
<1>2. CASE KeepUnchanged(m)
  <2>1. /\ loc' = loc /\ loc[m] # None /\ loc[m].place \in Place
        /\ Collect(m, loc[m].place, "unchanged")
    BY <1>2 DEF KeepUnchanged, FootprintUnchanged, TypeOK, Location
  <2>2. Explains([place |-> loc[m].place, verdict |-> "unchanged"], loc[m].place)
    BY DEF Explains, SamePlace
  <2> QED
    BY <1>1, <2>1, <2>2, VerdictStep DEF Verdict
<1>3. ASSUME NEW edge \in Edges(m), Connect(m, edge)
      PROVE  BatchInv'
  <2>1. /\ \A k \in Macs \ {m} : loc'[k] = loc[k]
        /\ loc'[m] = [place |-> edge, connected |-> clock, roamed |-> clock]
        /\ Collect(m, edge, "connected")
    BY <1>3 DEF Connect, Evaluated, TypeOK
  <2>2. loc'[m] # None
    BY <1>1, <2>1, TrackingAssumption DEF TypeOK, Location
  <2>3. Explains([place |-> edge, verdict |-> "connected"], loc'[m].place)
    BY <2>1 DEF Explains, SamePlace
  <2> QED
    BY <1>1, <2>1, <2>2, <2>3, VerdictStep DEF Verdict
<1>4. ASSUME NEW edge \in Edges(m), SameEdge(m, edge)
      PROVE  BatchInv'
  <2>1. loc' = loc /\ loc[m] # None /\ ~Moved(m, edge) /\ Collect(m, edge, "same")
    BY <1>4 DEF SameEdge, Evaluated
  <2>2. Explains([place |-> edge, verdict |-> "same"], loc[m].place)
    BY <2>1 DEF Moved, Explains, SamePlace
  <2> QED
    BY <1>1, <2>1, <2>2, VerdictStep DEF Verdict
<1>5. ASSUME NEW edge \in Edges(m), Dampen(m, edge)
      PROVE  BatchInv'
  <2>1. loc' = loc /\ loc[m] # None /\ Collect(m, edge, "flapping_dampened")
    BY <1>5 DEF Dampen, Moved, Evaluated
  <2> QED
    BY <1>1, <2>1, VerdictStep DEF Verdict, Explains
<1>6. ASSUME NEW edge \in Edges(m), Roam(m, edge)
      PROVE  BatchInv'
  <2>1. /\ \A k \in Macs \ {m} : loc'[k] = loc[k]
        /\ loc[m] \in Location
        /\ loc'[m] = [loc[m] EXCEPT !.place = edge, !.roamed = clock]
        /\ Collect(m, edge, "roamed")
    BY <1>6 DEF Roam, Moved, Evaluated, TypeOK
  <2>2. loc'[m] \in Location /\ loc'[m].place = edge
    BY <1>1, <2>1 DEF Location, TypeOK
  <2>3. Explains([place |-> edge, verdict |-> "roamed"], loc'[m].place)
    BY <2>2 DEF Explains, SamePlace
  <2> QED
    BY <1>1, <2>1, <2>2, <2>3, TrackingAssumption, VerdictStep DEF Verdict
<1>7. ASSUME NEW edge \in Edges(m), HoldBack(m, edge)
      PROVE  BatchInv'
  <2>1. loc' = loc /\ loc[m] # None /\ Collect(m, edge, "debounced")
    BY <1>7 DEF HoldBack, Moved, Evaluated
  <2> QED
    BY <1>1, <2>1, VerdictStep DEF Verdict, Explains
<1>8. ASSUME NEW edge \in Edges(m), EventWriteFails(m, edge)
      PROVE  BatchInv'
  BY <1>8 DEF EventWriteFails, BatchInv, EmptyBatch
<1> QED
  BY <1>2, <1>3, <1>4, <1>5, <1>6, <1>7, <1>8 DEF HandleClient

LEMMA BatchNext == TypeOK /\ BatchInv /\ [Next]_vars => BatchInv'
<1> SUFFICES ASSUME TypeOK, BatchInv, [Next]_vars
             PROVE  BatchInv'
  OBVIOUS
<1>1. CASE StartCycle
  <2>1. batch' = batch /\ \A m \in Macs : batch[m] = None
    BY <1>1 DEF StartCycle, BatchInv
  <2> QED
    BY <2>1 DEF BatchInv
<1>2. CASE WriteBatch \/ Restart
  BY <1>2 DEF WriteBatch, EndCycle, Restart, BatchInv, EmptyBatch
<1>3. ASSUME NEW m \in Macs, DeleteClient(m)
      PROVE  BatchInv'
  BY <1>3 DEF DeleteClient, cycleVars, memoryVars, BatchInv, Explains
<1>4. CASE MapView \/ UNCHANGED vars
  BY <1>4 DEF MapView, vars, cycleVars, memoryVars, BatchInv, Explains
<1> QED
  BY <1>1, <1>2, <1>3, <1>4, BatchHandleStep DEF Next

\* A step that ends a cycle and stores a row is the write of the batch.
LEMMA BatchWritten ==
  ASSUME [Next]_vars, phase = "clients", phase' = "idle",
         NEW m \in Macs, rows'[m] # rows[m]
  PROVE  batch[m] # None /\ rows'[m] = Upserted(rows[m], batch[m].place)
<1>1. ASSUME NEW k \in Macs, HandleClient(k) PROVE FALSE
  <2>1. rows' = rows
    BY <1>1
       DEF HandleClient, KeepUnchanged, Connect, SameEdge, Dampen, Roam, HoldBack,
           EventWriteFails, Evaluated, Collect, tableVars
  <2> QED
    BY <2>1
<1>2. ~StartCycle /\ ~Restart /\ ~MapView /\ ~UNCHANGED vars
  BY DEF StartCycle, Restart, MapView, vars, cycleVars
<1>3. ASSUME NEW k \in Macs PROVE ~DeleteClient(k)
  BY DEF DeleteClient, cycleVars
<1>4. WriteBatch
  BY <1>1, <1>2, <1>3 DEF Next
<1> QED
  BY <1>4 DEF WriteBatch

\* A batch that stores a place other than the tracked one does so because the
\* tracker refused the move or the sighting had no port, whatever requests and
\* drawings of the map wrote to the rows meanwhile
\* (upsert_discovered_clients_batch).
THEOREM RowsAreExplained == Spec => RowExplained
<1> DEFINE Step == [\A m \in Macs :
       /\ phase = "clients" /\ phase' = "idle"
       /\ rows'[m] # rows[m] /\ rows'[m] # None
       => \/ SamePlace(rows'[m].place, loc[m].place)
          \/ batch[m].verdict \in {"flapping_dampened", "debounced"}
          \/ batch[m].place[2] = NoPort]_vars
<1>1. Init => BatchInv
  BY DEF Init, BatchInv, EmptyBatch
<1>2. BatchInv /\ [Next]_vars => Step
  <2>1. SUFFICES ASSUME BatchInv, [Next]_vars, NEW m \in Macs,
                        phase = "clients", phase' = "idle", rows'[m] # rows[m]
                 PROVE  \/ SamePlace(rows'[m].place, loc[m].place)
                        \/ batch[m].verdict \in {"flapping_dampened", "debounced"}
                        \/ batch[m].place[2] = NoPort
    OBVIOUS
  <2>2. batch[m] # None /\ rows'[m] = Upserted(rows[m], batch[m].place)
    BY <2>1, BatchWritten
  <2>3. batch[m].place[2] # NoPort => rows'[m].place = batch[m].place
    BY <2>2 DEF Upserted
  <2>4. Explains(batch[m], loc[m].place)
    BY <2>1, <2>2 DEF BatchInv
  <2> QED
    BY <2>3, <2>4 DEF Explains
<1>3. TypeOK /\ BatchInv /\ [Next]_vars => BatchInv'
  BY BatchNext
<1>4. Spec => []BatchInv
  BY <1>1, <1>3, TypeCorrect, PTL DEF Spec
<1> QED
  BY <1>2, <1>4, PTL DEF Spec, RowExplained

(***************************************************************************)
(* The edge that is resolved, and the moves that are accepted.             *)
(***************************************************************************)

\* A set of numbers that is not empty has a least one.
LEMMA LeastNumber ==
  ASSUME NEW S, S \subseteq Nat, S # {}
  PROVE  \E x \in S : \A y \in S : x <= y
<1> DEFINE Below == {p \in Nat \X Nat : p[1] < p[2]}
<1>1. IsWellFoundedOn(Below, Nat)
  BY NatLessThanWellFounded DEF OpToRel
<1>2. PICK x \in S : \A y \in S : <<y, x>> \notin Below
  BY <1>1, WFMin
<1>3. ASSUME NEW y \in S, ~(x <= y) PROVE FALSE
  <2>1. <<y, x>> \in Below
    BY <1>3
  <2> QED
    BY <1>2, <2>1
<1> QED
  BY <1>3

\* A rank in the natural numbers has a least value on a set.
LEMMA LeastRank ==
  ASSUME NEW S, S # {}, NEW r \in [S -> Nat]
  PROVE  \E x \in S : \A y \in S : r[x] <= r[y]
<1>1. PICK n \in {r[x] : x \in S} : \A k \in {r[x] : x \in S} : n <= k
  BY LeastNumber
<1> QED
  BY <1>1

\* Scores are numbers up to that of the guests of a host.
LEMMA ScoreType ==
  ASSUME TypeOK, NEW m \in Macs, NEW i \in DOMAIN report[m]
  PROVE  Scores(m)[i] \in Int /\ Scores(m)[i] <= 10000
<1> DEFINE s == report[m][i]
           n == Cardinality(MacsOn(PlaceOf(s)))
<1>1. MacsOn(PlaceOf(s)) \subseteq Macs
  BY DEF MacsOn
<1>2. n \in Nat
  BY <1>1, TrackingAssumption, FS_Subset, FS_CardinalityType
<1>3. DensityScore(n) \in 0 .. 500
  BY <1>2 DEF DensityScore, Largest
<1>4. WirelessScore(s) \in 0 .. 1300 /\ RouterPenalty(s) \in 0 .. 1000
  BY DEF WirelessScore, RouterPenalty
<1>5. Scores(m)[i] = ScoreSighting(s, n, links, Incumbent(m))
  BY DEF Scores
<1> HIDE DEF n, s
<1>6. CASE s.child
  BY <1>5, <1>6 DEF ScoreSighting
<1>7. CASE ~s.child
  <2>1. PICK trunk \in {0, 500}, bonus \in {0, 350} :
          Scores(m)[i] = WirelessScore(s) + DensityScore(n) - trunk - RouterPenalty(s) + bonus
    BY <1>5, <1>7 DEF ScoreSighting
  <2> DEFINE w == WirelessScore(s)
             c == DensityScore(n)
             r == RouterPenalty(s)
  <2>2. w \in 0 .. 1300 /\ c \in 0 .. 500 /\ r \in 0 .. 1000
    BY <1>3, <1>4
  <2>3. Scores(m)[i] = w + c - trunk - r + bonus
    BY <2>1
  <2> HIDE DEF w, c, r
  <2>4. w \in Int /\ w <= 1300 /\ c \in Int /\ c <= 500 /\ r \in Int /\ r >= 0
    BY <2>2
  <2>5. trunk \in Int /\ trunk >= 0 /\ bonus \in Int /\ bonus <= 350
    BY <2>1
  <2> QED
    BY <2>3, <2>4, <2>5
<1> QED
  BY <1>6, <1>7

\* Exactly one place wins for a client that was reported (resolve_edge).
LEMMA OneEdge ==
  ASSUME TypeOK, NEW m \in Macs, report[m] # <<>>
  PROVE  \E edge \in Place : Edges(m) = {edge}
<1>1. report[m] \in Seq(Sighting) /\ DOMAIN report[m] \subseteq Nat /\ DOMAIN report[m] # {}
  BY TrackingAssumption DEF TypeOK
<1> DEFINE D == DOMAIN report[m]
           short == [i \in D |-> 10000 - Scores(m)[i]]
<1>2. \A i \in D : short[i] \in Nat /\ Scores(m)[i] \in Int /\ short[i] = 10000 - Scores(m)[i]
  BY ScoreType
<1> HIDE DEF D, short
<1>3. D # {} /\ D \subseteq Nat
  BY <1>1 DEF D
<1>4. PICK v \in D : \A i \in D : short[v] <= short[i]
  <2>1. short \in [D -> Nat]
    BY <1>2 DEF short
  <2> QED
    BY <1>3, <2>1, LeastRank
<1>5. PICK w \in D : /\ short[w] = short[v]
                    /\ \A i \in D : short[i] = short[v] => w <= i
  <2> DEFINE T == {i \in D : short[i] = short[v]}
  <2>1. T \subseteq Nat /\ T # {}
    BY <1>3, <1>4
  <2> HIDE DEF T
  <2>2. PICK i \in T : \A k \in T : i <= k
    BY <2>1, LeastNumber
  <2> QED
    BY <2>2 DEF T
<1>6. ASSUME NEW j \in D
      PROVE  Scores(m)[j] < Scores(m)[w] \/ (Scores(m)[j] = Scores(m)[w] /\ w <= j)
  BY <1>2, <1>4, <1>5
<1>7. ASSUME NEW i \in D, \A j \in D : \/ Scores(m)[j] < Scores(m)[i]
                                       \/ Scores(m)[j] = Scores(m)[i] /\ i <= j
      PROVE  i = w
  BY <1>2, <1>3, <1>5, <1>6, <1>7
<1>8. w \in D /\ \A i : Wins(i, report[m], Scores(m)) <=> i = w
  BY <1>5, <1>6, <1>7 DEF Wins, D
<1>9. Edges(m) = {PlaceOf(report[m][w])}
  BY <1>8 DEF Edges, D
<1>10. PlaceOf(report[m][w]) \in Place
  BY <1>9, EdgesArePlaces
<1> QED
  BY <1>9, <1>10

\* Every client that a cycle has still to handle was reported in it.
TodoReported == \A m \in todo : report[m] # <<>>

LEMMA TodoStep ==
  ASSUME TypeOK, TodoReported, [Next]_vars
  PROVE  TodoReported'
<1>1. CASE StartCycle
  BY <1>1 DEF StartCycle, TodoReported
<1>2. ASSUME NEW m \in Macs, HandleClient(m)
      PROVE  TodoReported'
  <2>1. \/ todo' \subseteq todo /\ report' = report
        \/ todo' = {}
    BY <1>2
       DEF HandleClient, KeepUnchanged, Connect, SameEdge, Dampen, Roam, HoldBack,
           EventWriteFails, Evaluated, Collect
  <2> QED
    BY <2>1 DEF TodoReported
<1>3. CASE WriteBatch \/ Restart
  BY <1>3 DEF WriteBatch, EndCycle, Restart, TodoReported
<1>4. ASSUME NEW m \in Macs, DeleteClient(m)
      PROVE  TodoReported'
  BY <1>4 DEF DeleteClient, cycleVars, TodoReported
<1>5. CASE MapView \/ UNCHANGED vars
  BY <1>5 DEF MapView, vars, cycleVars, TodoReported
<1> QED
  BY <1>1, <1>2, <1>3, <1>4, <1>5 DEF Next

\* In a cycle, every client that is to be handled has one edge, so that none is
\* left out and the order of equal scores decides nothing else.
EdgeResolved == \A m \in todo : \E edge \in Place : Edges(m) = {edge}

THEOREM EdgesAreResolved == Spec => []EdgeResolved
<1>1. Init => TodoReported
  BY DEF Init, TodoReported
<1>2. TypeOK /\ TodoReported /\ [Next]_vars => TodoReported'
  BY TodoStep
<1>3. TypeOK /\ TodoReported => EdgeResolved
  BY OneEdge DEF TodoReported, EdgeResolved, TypeOK
<1> QED
  BY <1>1, <1>2, <1>3, TypeCorrect, PTL DEF Spec

\* A client is moved to its edge unless the move is flapping, comes before the
\* debounce interval is over, or is stopped by the gate on the footprint.
OnlyGateRefuses ==
  [][\A m \in Macs : \A edge \in Edges(m) :
       /\ phase = "clients" /\ phase' = "clients" /\ m \in todo \ todo'
       /\ ~FootprintUnchanged(m)
       /\ Moved(m, edge) /\ ~Flapping(m, edge) /\ Settled(m)
       => loc'[m].place = edge]_vars

\* The step that handles a client.
LEMMA HandledBy ==
  ASSUME [Next]_vars, phase = "clients", phase' = "clients", NEW m \in Macs,
         m \in todo \ todo'
  PROVE  HandleClient(m)
<1>1. ~StartCycle /\ ~WriteBatch /\ ~Restart /\ ~MapView /\ ~UNCHANGED vars
  BY DEF StartCycle, WriteBatch, EndCycle, Restart, MapView, vars, cycleVars
<1>2. ASSUME NEW k \in Macs PROVE ~DeleteClient(k)
  BY DEF DeleteClient, cycleVars
<1>3. PICK k \in Macs : HandleClient(k)
  BY <1>1, <1>2 DEF Next
<1>4. todo' = todo \ {k}
  BY <1>3
     DEF HandleClient, KeepUnchanged, Connect, SameEdge, Dampen, Roam, HoldBack,
         EventWriteFails, Evaluated, Collect
<1> QED
  BY <1>3, <1>4

\* What the tests expect of a client that stays at its new place holds but for the
\* gate, which the run ClientTracking_debounce shows (evaluate_mobility).
THEOREM MovesAreAccepted == Spec => OnlyGateRefuses
<1> DEFINE Step == [\A m \in Macs : \A edge \in Edges(m) :
       /\ phase = "clients" /\ phase' = "clients" /\ m \in todo \ todo'
       /\ ~FootprintUnchanged(m)
       /\ Moved(m, edge) /\ ~Flapping(m, edge) /\ Settled(m)
       => loc'[m].place = edge]_vars
<1>1. TypeOK /\ EdgeResolved /\ [Next]_vars => Step
  <2>1. SUFFICES ASSUME TypeOK, EdgeResolved, [Next]_vars, NEW m \in Macs,
                        NEW edge \in Edges(m), phase = "clients", phase' = "clients",
                        m \in todo \ todo', ~FootprintUnchanged(m), Moved(m, edge),
                        ~Flapping(m, edge), Settled(m)
                 PROVE  loc'[m].place = edge
    OBVIOUS
  <2>2. HandleClient(m)
    BY <2>1, HandledBy
  <2>3. \A e \in Edges(m) : e = edge
    BY <2>1 DEF EdgeResolved
  <2>4. Roam(m, edge)
    BY <2>1, <2>2, <2>3
       DEF HandleClient, KeepUnchanged, Connect, SameEdge, Dampen, HoldBack,
           EventWriteFails, Moved
  <2> QED
    BY <2>1, <2>4 DEF Roam, Moved, TypeOK, Location
<1> QED
  BY <1>1, TypeCorrect, EdgesAreResolved, PTL DEF Spec, OnlyGateRefuses
=============================================================================
