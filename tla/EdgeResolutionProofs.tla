------------------------ MODULE EdgeResolutionProofs ------------------------
(* Proofs about EdgeResolution, for any tree of devices, any clients and any *)
(* order in which the devices of a poll are listed.                          *)
EXTENDS EdgeResolution, FiniteSetTheorems, TLAPS

\* A port on which fewer MAC addresses are seen scores no less, and one on
\* which a single address is seen scores 200 more than any other.
LEMMA DensityOrder ==
  ASSUME NEW n \in Nat \ {0}, NEW k \in Nat, n <= k
  PROVE  /\ DensityScore(n) \in Nat /\ DensityScore(k) \in Nat
         /\ DensityScore(k) <= 500 /\ DensityScore(n) <= 500
         /\ n = 1 => DensityScore(n) = 500
         /\ k # 1 => DensityScore(k) <= 300
         /\ n \in 2 .. 3 => DensityScore(n) = 300
         /\ ~(k \in 1 .. 3) => DensityScore(k) < 100
<1>1. CASE n = 1 /\ k = 1
  BY <1>1 DEF DensityScore, Largest
<1>2. CASE n = 1 /\ k \in 2 .. 3
  BY <1>2 DEF DensityScore, Largest
<1>3. CASE n = 1 /\ k > 3
  BY <1>3 DEF DensityScore, Largest
<1>4. CASE n \in 2 .. 3 /\ k \in 2 .. 3
  BY <1>4 DEF DensityScore, Largest
<1>5. CASE n \in 2 .. 3 /\ k > 3
  BY <1>5 DEF DensityScore, Largest
<1>6. CASE n > 3 /\ k > 3
  BY <1>6 DEF DensityScore, Largest
<1> QED
  BY <1>1, <1>2, <1>3, <1>4, <1>5, <1>6

\* The score of a port that is neither a router's nor known to lead to another
\* device, and of one that is wired and does.
LEMMA LeafScore ==
  ASSUME NEW s \in Sighting, NEW n \in Nat \ {0}, NEW links, NEW incumbent,
         s.role # "router", PlaceOf(s) \notin links
  PROVE  LET score == ScoreSighting(s, n, links, incumbent)
         IN  /\ score \in Int
             /\ score >= DensityScore(n)
             /\ PlaceOf(s) \in incumbent => score >= DensityScore(n) + 350
<1>1. DensityScore(n) \in Nat /\ DensityScore(n) <= 500
  BY DensityOrder
<1>2. WirelessScore(s) \in Nat /\ RouterPenalty(s) = 0
  BY DEF WirelessScore, RouterPenalty
<1>3. PlaceOf(s) \in incumbent => \E p \in incumbent : SamePlace(PlaceOf(s), p)
  BY DEF SamePlace
<1> QED
  BY <1>1, <1>2, <1>3 DEF ScoreSighting

LEMMA TrunkScore ==
  ASSUME NEW t \in Sighting, NEW k \in Nat \ {0}, NEW links, NEW incumbent,
         ~t.child, ~IsWireless(t)
  PROVE  LET score == ScoreSighting(t, k, links, incumbent)
             bonus == IF \E p \in incumbent : SamePlace(PlaceOf(t), p) THEN 350 ELSE 0
             malus == IF PlaceOf(t) \in links THEN 500 ELSE 0
         IN  score \in Int /\ score <= DensityScore(k) - malus + bonus
<1>1. DensityScore(k) \in Nat /\ DensityScore(k) <= 500
  BY DensityOrder
<1>2. WirelessScore(t) = 0 /\ RouterPenalty(t) \in {0, 300, 1000}
  BY DEF WirelessScore, RouterPenalty
<1> QED
  BY <1>1, <1>2 DEF ScoreSighting

-----------------------------------------------------------------------------
(* With fresh tables, a client is seen at its leaf and at trunks.           *)

LEMMA AtLeaf ==
  ASSUME TypeOK, NEW c \in Clients, Fresh(c)
  PROVE  /\ at[c][1] \in Nodes /\ at[c][2] \in Ports
         /\ at[c] = <<at[c][1], at[c][2]>> /\ at[c] \notin Trunks
         /\ table[at[c][1]][c] = at[c][2] /\ at[c][2] # NoPort
<1>1. at[c] \in (Nodes \X Ports) \ Trunks
  BY NetworkAssumption DEF TypeOK
<1>2. at[c][1] \in Nodes /\ at[c][2] \in Ports /\ at[c] = <<at[c][1], at[c][2]>>
  BY <1>1
<1>3. PortOf(at[c][1], c) = at[c][2]
  BY DEF PortOf, Listens
<1>4. table[at[c][1]][c] = at[c][2]
  BY <1>2, <1>3 DEF Fresh
<1> QED
  BY <1>1, <1>2, <1>4, PortsAssumption

LEMMA AtTrunk ==
  ASSUME TypeOK, NEW c \in Clients, Fresh(c),
         NEW m \in Nodes, m # at[c][1], table[m][c] # NoPort
  PROVE  /\ Role[m] # "access_point" /\ m \notin Hosts
         /\ <<m, at[c][1]>> \in Hop
         /\ table[m][c] = Toward[<<m, at[c][1]>>] /\ table[m][c] \in Ports
         /\ <<m, table[m][c]>> \in Trunks
<1>1. at[c][1] \in Nodes
  BY AtLeaf
<1>2. Role[m] # "access_point" /\ m \notin Hosts /\ table[m][c] = Toward[<<m, at[c][1]>>]
  BY DEF Fresh, PortOf, Listens
<1>3. <<m, at[c][1]>> \in Hop
  BY <1>1 DEF Hop
<1>4. <<m, Toward[<<m, at[c][1]>>]>> \in Trunks
  BY <1>3 DEF Trunks
<1> QED
  BY <1>2, <1>3, <1>4, NetworkAssumption

\* Whoever is seen on the leaf port of a client is seen on each trunk that
\* leads there.
LEMMA TrunkIsDenser ==
  ASSUME TypeOK, AllFresh, NEW c \in Clients, at[c][1] \notin Hosts,
         NEW m \in Nodes, m # at[c][1], table[m][c] # NoPort
  PROVE  /\ Density(at[c]) \in Nat \ {0}
         /\ Density(<<m, table[m][c]>>) \in Nat
         /\ Density(at[c]) <= Density(<<m, table[m][c]>>)
<1> DEFINE L == {x \in Clients : at[c][1] \notin Hosts /\ table[at[c][1]][x] = at[c][2]}
           T == {x \in Clients : m \notin Hosts /\ table[m][x] = table[m][c]}
<1>1. Fresh(c) /\ \A x \in Clients : Fresh(x)
  BY DEF AllFresh
<1>2. c \in L
  BY <1>1, AtLeaf
<1>3. ASSUME NEW x \in L PROVE x \in T
  <2>1. PortOf(at[c][1], x) = at[c][2] /\ at[c][2] # NoPort /\ at[c][1] \in Nodes
    BY <1>1, AtLeaf DEF Fresh
  <2>2. at[x][1] \in Nodes
    BY <1>1, AtLeaf
  <2>3. CASE at[x][1] # at[c][1]
    <3>1. at[c][2] = Toward[<<at[c][1], at[x][1]>>]
      BY <2>1, <2>3 DEF PortOf
    <3>2. <<at[c][1], at[x][1]>> \in Hop
      BY <2>1, <2>2, <2>3 DEF Hop
    <3>3. <<at[c][1], at[c][2]>> \in Trunks
      BY <3>1, <3>2 DEF Trunks
    <3> QED
      BY <3>3, <1>1, AtLeaf
  <2>4. CASE at[x][1] = at[c][1]
    <3>1. PortOf(m, x) = Toward[<<m, at[c][1]>>]
      BY <1>1, <2>4, AtTrunk DEF PortOf, Listens
    <3>2. table[m][x] = Toward[<<m, at[c][1]>>]
      BY <3>1, <1>1 DEF Fresh
    <3> QED
      BY <3>2, <1>1, AtTrunk
  <2> QED
    BY <2>3, <2>4
<1>4. IsFiniteSet(L) /\ IsFiniteSet(T)
  BY NetworkAssumption, FS_Subset
<1>5. Cardinality(L) \in Nat /\ Cardinality(T) \in Nat /\ Cardinality(L) <= Cardinality(T)
  BY <1>3, <1>4, FS_Subset, FS_CardinalityType
<1>6. Cardinality(L) # 0
  BY <1>2, <1>4, FS_EmptySet
<1>7. Density(at[c]) = Cardinality(L) /\ Density(<<m, table[m][c]>>) = Cardinality(T)
  BY DEF Density
<1> QED
  BY <1>5, <1>6, <1>7

LEMMA SightingType ==
  ASSUME TypeOK, NEW c \in Clients, NEW m \in Nodes
  PROVE  SightingOf(m, c) \in Sighting /\ PlaceOf(SightingOf(m, c)) = <<m, table[m][c]>>
  BY NetworkAssumption DEF SightingOf, Sighting, PlaceOf, TypeOK

\* The leaf beats every trunk, once the trunks are known or if the client is
\* tracked at its leaf.
LEMMA LeafBeatsTrunk ==
  ASSUME TypeOK, AllFresh, NEW c \in Clients, Role[at[c][1]] # "router",
         known = Trunks \/ tracked[c] = at[c],
         NEW m \in Nodes, m # at[c][1], table[m][c] # NoPort
  PROVE  /\ Score(c, SightingOf(m, c)) \in Int
         /\ Score(c, SightingOf(at[c][1], c)) \in Int
         /\ Score(c, SightingOf(m, c)) < Score(c, SightingOf(at[c][1], c))
<1> DEFINE s == SightingOf(at[c][1], c)
           t == SightingOf(m, c)
           n == Density(at[c])
           k == Density(<<m, table[m][c]>>)
           inc == {tracked[c]} \ {NoPlace}
<1>1. Fresh(c)
  BY DEF AllFresh
<1>2. s \in Sighting /\ PlaceOf(s) = at[c] /\ t \in Sighting /\ PlaceOf(t) = <<m, table[m][c]>>
  BY <1>1, AtLeaf, SightingType
<1>3. s.role # "router" /\ PlaceOf(s) \notin known
  BY <1>1, <1>2, AtLeaf DEF SightingOf, TypeOK
<1>4. ~t.child /\ ~IsWireless(t) /\ PlaceOf(t) \in Trunks
  BY <1>1, <1>2, AtTrunk DEF SightingOf, IsWireless
<1>5. tracked[c] = at[c] => PlaceOf(s) \in inc /\ ~\E p \in inc : SamePlace(PlaceOf(t), p)
  BY <1>1, <1>2, AtLeaf, NetworkAssumption DEF SamePlace, Place
<1>6. Score(c, s) = ScoreSighting(s, n, known, inc) /\ Score(c, t) = ScoreSighting(t, k, known, inc)
  BY <1>2 DEF Score
<1>7. CASE at[c][1] \notin Hosts
  <2>1. n \in Nat \ {0} /\ k \in Nat \ {0} /\ n <= k
    BY <1>7, TrunkIsDenser
  <2>2. /\ Score(c, s) \in Int /\ Score(c, s) >= DensityScore(n)
        /\ tracked[c] = at[c] => Score(c, s) >= DensityScore(n) + 350
    BY <1>2, <1>3, <1>5, <1>6, <2>1, LeafScore
  <2>3. Score(c, t) \in Int
    BY <1>2, <1>4, <1>6, <2>1, TrunkScore
  <2>4. tracked[c] = at[c] => Score(c, t) <= DensityScore(k)
    <3>1. DensityScore(k) \in Nat
      BY <2>1, DensityOrder
    <3> QED
      BY <1>2, <1>4, <1>5, <1>6, <2>1, <3>1, TrunkScore
  <2>5. known = Trunks => Score(c, t) <= DensityScore(k) - 150
    <3>1. DensityScore(k) \in Nat
      BY <2>1, DensityOrder
    <3> QED
      BY <1>2, <1>4, <1>6, <2>1, <3>1, TrunkScore
  <2>6. /\ DensityScore(n) \in Nat /\ DensityScore(k) \in Nat
        /\ DensityScore(k) <= 500 /\ DensityScore(n) <= 500
        /\ n = 1 => DensityScore(n) = 500
        /\ k # 1 => DensityScore(k) <= 300
        /\ n \in 2 .. 3 => DensityScore(n) = 300
        /\ ~(k \in 1 .. 3) => DensityScore(k) < 100
    BY <2>1, DensityOrder
  <2> HIDE DEF n, k, inc
  <2>7. DensityScore(k) - 150 < DensityScore(n) /\ DensityScore(k) < DensityScore(n) + 350
    BY <2>1, <2>6
  <2>8. CASE known = Trunks
    BY <2>2, <2>3, <2>5, <2>6, <2>7, <2>8
  <2>9. CASE tracked[c] = at[c]
    BY <2>2, <2>3, <2>4, <2>6, <2>7, <2>9
  <2> QED
    BY <2>8, <2>9
<1>8. CASE at[c][1] \in Hosts
  <2>0. s.child
    BY <1>8 DEF SightingOf
  <2>1. Score(c, s) = 10000
    BY <1>6, <2>0 DEF ScoreSighting
  <2>2. Score(c, t) \in Int /\ Score(c, t) < 10000
    <3>1. k \in Nat
      BY NetworkAssumption, FS_Subset, FS_CardinalityType DEF Density
    <3>2. DensityScore(k) \in Nat /\ DensityScore(k) <= 500
      BY <3>1 DEF DensityScore, Largest
    <3>3. WirelessScore(t) = 0 /\ RouterPenalty(t) \in {0, 300, 1000}
      BY <1>4 DEF WirelessScore, RouterPenalty
    <3> HIDE DEF k, t, inc
    <3> QED
      BY <1>4, <1>6, <3>2, <3>3 DEF ScoreSighting
  <2> QED
    BY <2>1, <2>2
<1> QED
  BY <1>7, <1>8

-----------------------------------------------------------------------------
(* The choice of the resolver.                                             *)

\* What Resolve tracks is the port of a device that sees the client.
LEMMA ResolvedPlace ==
  ASSUME TypeOK, NEW c \in Clients, Resolve(c)
  PROVE  \E order \in Orders : \E i \in DOMAIN order :
           /\ order[i] \in Nodes /\ table[order[i]][c] # NoPort
           /\ tracked' = [tracked EXCEPT ![c] = <<order[i], table[order[i]][c]>>]
           /\ \A j \in DOMAIN order : table[order[j]][c] # NoPort =>
                \/ Score(c, SightingOf(order[j], c)) < Score(c, SightingOf(order[i], c))
                \/ Score(c, SightingOf(order[j], c)) = Score(c, SightingOf(order[i], c))
<1> DEFINE seen(order)  == Sightings(c, order)
           score(order) == [j \in DOMAIN seen(order) |-> Score(c, seen(order)[j])]
<1>0. PICK order \in Orders : \E i \in DOMAIN seen(order) :
        /\ Wins(i, seen(order), score(order))
        /\ tracked' = [tracked EXCEPT ![c] = PlaceOf(seen(order)[i])]
  BY DEF Resolve
<1>1. PICK i \in DOMAIN seen(order) :
        /\ Wins(i, seen(order), score(order))
        /\ tracked' = [tracked EXCEPT ![c] = PlaceOf(seen(order)[i])]
  BY <1>0
<1>2. i \in DOMAIN order /\ table[order[i]][c] # NoPort /\ order[i] \in Nodes
  BY NetworkAssumption DEF Sightings
<1>3. \A j \in DOMAIN order : table[order[j]][c] # NoPort =>
        j \in DOMAIN seen(order) /\ seen(order)[j] = SightingOf(order[j], c)
  BY DEF Sightings
<1>4. \A j \in DOMAIN seen(order) :
        Score(c, seen(order)[j]) < Score(c, seen(order)[i])
          \/ Score(c, seen(order)[j]) = Score(c, seen(order)[i])
  BY <1>1 DEF Wins
<1>5. seen(order)[i] = SightingOf(order[i], c)
  BY <1>2, <1>3
<1>6. PlaceOf(seen(order)[i]) = <<order[i], table[order[i]][c]>>
  BY <1>2, <1>5, SightingType
<1>7. \A j \in DOMAIN order : table[order[j]][c] # NoPort =>
        \/ Score(c, SightingOf(order[j], c)) < Score(c, SightingOf(order[i], c))
        \/ Score(c, SightingOf(order[j], c)) = Score(c, SightingOf(order[i], c))
  BY <1>3, <1>4, <1>5
<1> QED
  BY <1>1, <1>2, <1>6, <1>7

\* A client is found at its leaf.
LEMMA LeafResolved ==
  ASSUME TypeOK, AllFresh, NEW c \in Clients, Role[at[c][1]] # "router",
         known = Trunks \/ tracked[c] = at[c], Resolve(c)
  PROVE  tracked'[c] = at[c]
<1>0. PICK order \in Orders : \E i \in DOMAIN order :
        /\ order[i] \in Nodes /\ table[order[i]][c] # NoPort
        /\ tracked' = [tracked EXCEPT ![c] = <<order[i], table[order[i]][c]>>]
        /\ \A j \in DOMAIN order : table[order[j]][c] # NoPort =>
             \/ Score(c, SightingOf(order[j], c)) < Score(c, SightingOf(order[i], c))
             \/ Score(c, SightingOf(order[j], c)) = Score(c, SightingOf(order[i], c))
  BY ResolvedPlace
<1>1. PICK i \in DOMAIN order :
        /\ order[i] \in Nodes /\ table[order[i]][c] # NoPort
        /\ tracked' = [tracked EXCEPT ![c] = <<order[i], table[order[i]][c]>>]
        /\ \A j \in DOMAIN order : table[order[j]][c] # NoPort =>
             \/ Score(c, SightingOf(order[j], c)) < Score(c, SightingOf(order[i], c))
             \/ Score(c, SightingOf(order[j], c)) = Score(c, SightingOf(order[i], c))
  BY <1>0
<1>2. /\ at[c][1] \in Nodes /\ at[c] = <<at[c][1], at[c][2]>>
      /\ table[at[c][1]][c] = at[c][2] /\ at[c][2] # NoPort
  BY AtLeaf DEF AllFresh
<1>3. PICK j \in DOMAIN order : order[j] = at[c][1]
  BY <1>2, NetworkAssumption
<1>4. order[i] = at[c][1]
  <2> SUFFICES ASSUME order[i] # at[c][1] PROVE FALSE
    OBVIOUS
  <2>1. /\ Score(c, SightingOf(order[i], c)) \in Int
        /\ Score(c, SightingOf(at[c][1], c)) \in Int
        /\ Score(c, SightingOf(order[i], c)) < Score(c, SightingOf(at[c][1], c))
    BY <1>1, LeafBeatsTrunk
  <2>2. \/ Score(c, SightingOf(at[c][1], c)) < Score(c, SightingOf(order[i], c))
        \/ Score(c, SightingOf(at[c][1], c)) = Score(c, SightingOf(order[i], c))
    BY <1>1, <1>2, <1>3
  <2> QED
    BY <2>1, <2>2
<1>5. tracked' = [tracked EXCEPT ![c] = at[c]]
  BY <1>1, <1>2, <1>4
<1> QED
  BY <1>5 DEF TypeOK

-----------------------------------------------------------------------------
(* Theorems.                                                               *)

\* The tables and the tracked places keep their types.
THEOREM ResolutionTypeCorrect == Spec => []TypeOK
<1>1. Init => TypeOK
  BY DEF Init, TypeOK
<1>2. TypeOK /\ [Next]_vars => TypeOK'
  <2> SUFFICES ASSUME TypeOK, [Next]_vars
               PROVE  TypeOK'
    OBVIOUS
  <2>1. ASSUME NEW c \in Clients, NEW place \in Attach, Move(c, place)
        PROVE  TypeOK'
    BY <2>1 DEF Move, TypeOK
  <2>2. ASSUME NEW n \in Nodes, Scrape(n)
        PROVE  TypeOK'
    <3>1. \A c \in Clients : PortOf(n, c) \in Ports \cup {NoPort}
      <4> TAKE c \in Clients
      <4>1. at[c] \in Nodes \X Ports
        BY NetworkAssumption DEF TypeOK
      <4>2. n # at[c][1] => <<n, at[c][1]>> \in Hop
        BY <4>1 DEF Hop
      <4> QED
        BY <4>1, <4>2, NetworkAssumption DEF PortOf
    <3> QED
      BY <2>2, <3>1 DEF Scrape, TypeOK
  <2>3. ASSUME NEW links \in {{}, Trunks}, Announce(links)
        PROVE  TypeOK'
    BY <2>3 DEF Announce, TypeOK
  <2>4. ASSUME NEW c \in Clients, Resolve(c)
        PROVE  TypeOK'
    <3>1. PICK n \in Nodes : /\ table[n][c] # NoPort
                             /\ tracked' = [tracked EXCEPT ![c] = <<n, table[n][c]>>]
      BY <2>4, ResolvedPlace
    <3>2. table[n][c] \in Ports
      BY <3>1 DEF TypeOK
    <3>3. UNCHANGED <<at, table, known>>
      BY <2>4 DEF Resolve
    <3> QED
      BY <3>1, <3>2, <3>3 DEF TypeOK
  <2>5. CASE UNCHANGED vars
    BY <2>5 DEF vars, TypeOK
  <2> QED
    BY <2>1, <2>2, <2>3, <2>4, <2>5 DEF Next
<1> QED
  BY <1>1, <1>2, PTL DEF Spec

\* With fresh tables and known trunks, every client that is not attached to a
\* router is resolved to the port it is attached to.
THEOREM LeavesAreFound == Spec => LeafFound
<1>1. TypeOK => [\A c \in Clients :
         /\ AllFresh /\ known = Trunks /\ Role[at[c][1]] # "router"
         /\ Resolve(c)
         => tracked'[c] = at[c]]_vars
  BY LeafResolved
<1> QED
  BY <1>1, ResolutionTypeCorrect, PTL DEF LeafFound

\* With fresh tables, a client tracked at its port stays there, whatever the
\* devices tell of their neighbours.
THEOREM NoGhostMoves == Spec => NoGhostMove
<1>1. TypeOK => [\A c \in Clients :
         /\ AllFresh /\ tracked[c] = at[c] /\ Role[at[c][1]] # "router"
         /\ Resolve(c)
         => tracked'[c] = at[c]]_vars
  BY LeafResolved
<1> QED
  BY <1>1, ResolutionTypeCorrect, PTL DEF NoGhostMove
=============================================================================
