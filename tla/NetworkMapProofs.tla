-------------------------- MODULE NetworkMapProofs --------------------------
(* Proofs about the network map: for any network, any configuration and any  *)
(* age of the tables.                                                        *)
EXTENDS NetworkMap, FiniteSetTheorems, WellFoundedInduction, TLAPS

-----------------------------------------------------------------------------
(* Choosing the first one.                                                  *)

\* A set of numbers that is not empty has a least one.
LEMMA LeastNumber ==
  ASSUME NEW S, S \subseteq Nat, S # {}
  PROVE  \E x \in S : \A y \in S : x <= y
<1>1. IsWellFoundedOn({x \in Nat \X Nat : x[1] < x[2]}, Nat)
  BY NatLessThanWellFounded DEF OpToRel
<1>2. PICK x \in S : \A y \in S : <<y, x>> \notin {z \in Nat \X Nat : z[1] < z[2]}
  BY <1>1, WFMin
<1>3. ASSUME NEW y \in S PROVE x <= y
  <2>1. <<y, x>> \in Nat \X Nat /\ <<y, x>>[1] = y /\ <<y, x>>[2] = x
    OBVIOUS
  <2> QED
    BY <1>2, <2>1
<1> QED
  BY <1>3

LEMMA LeastIsFirst ==
  ASSUME NEW S, S \subseteq Nat, S # {}
  PROVE  Least(S) \in S /\ \A y \in S : Least(S) <= y
BY LeastNumber DEF Least

\* A rank in the natural numbers has a least value on a set.
LEMMA LeastRank ==
  ASSUME NEW S, S # {}, NEW r \in [S -> Nat]
  PROVE  \E x \in S : \A y \in S : r[x] <= r[y]
<1>1. PICK n \in {r[x] : x \in S} : \A k \in {r[x] : x \in S} : n <= k
  BY LeastNumber
<1> QED
  BY <1>1

\* The first of several places.
LEMMA FirstPlaceIsOne ==
  ASSUME NEW S, S \subseteq Nat \X Nat, S # {}
  PROVE  FirstPlace(S) \in S
<1> DEFINE r1 == [x \in S |-> x[1]]
<1>1. r1 \in [S -> Nat]
  OBVIOUS
<1>2. PICK a \in S : \A y \in S : r1[a] <= r1[y]
  <2> HIDE DEF r1
  <2> QED BY <1>1, LeastRank
<1> DEFINE T == {x \in S : x[1] = a[1]}
           r2 == [x \in T |-> x[2]]
<1>3. r2 \in [T -> Nat] /\ T # {}
  OBVIOUS
<1>4. PICK b \in T : \A y \in T : r2[b] <= r2[y]
  <2> HIDE DEF r2, T
  <2> QED BY <1>3, LeastRank
<1>5. ASSUME NEW y \in S PROVE Before(b, y)
  <2>1. b[1] = a[1] /\ b[1] <= y[1] /\ b[1] \in Nat /\ y[1] \in Nat
    BY <1>2
  <2>2. y[1] = a[1] => b[2] <= y[2]
    BY <1>4
  <2> QED
    BY <2>1, <2>2 DEF Before
<1>6. b \in S
  OBVIOUS
<1> QED
  BY <1>5, <1>6 DEF FirstPlace

-----------------------------------------------------------------------------
(* What the variables hold.                                                 *)

\* Where a client may be shown.
ShownPlace == (Devices \cup {Elsewhere}) \X (Ports \cup {Unnamed})

Rows == [Clients -> [place : ShownPlace, online : BOOLEAN] \cup {None}]

TypeInv ==
  /\ scene \in Scenes
  /\ conf \in Conf
  /\ cables \in scene.cables
  /\ plugged \in [Stations -> Place \cup {None}]
  /\ table \in [Devices -> [Ports -> SUBSET Macs]]
  /\ hostLink \in [Hosts -> Place \cup {None}]
  /\ row \in Rows

LEMMA RowsReadType ==
  ASSUME TypeInv, NEW read
  PROVE  RowsRead(read) \in Rows
BY DEF TypeInv, RowsRead, Rows

LEMMA NoPlaceIsNone ==
  /\ None \notin Place /\ None \notin ShownPlace
  /\ Devices \subseteq Nat /\ Ports \subseteq Nat /\ Place \subseteq Nat \X Nat
  /\ Place \subseteq ShownPlace
BY ThingsAssumption DEF Place, ShownPlace

\* Finitely many addresses are learned on a port, and finitely many are of
\* switches.
LEMMA FinitePorts ==
  ASSUME TypeInv, NEW d \in Devices, NEW p \in Ports
  PROVE  /\ IsFiniteSet(OnPort(d, p)) /\ Cardinality(OnPort(d, p)) \in Nat
         /\ IsFiniteSet(OtherSwitches(d, p)) /\ Cardinality(OtherSwitches(d, p)) \in Nat
<1>1. table[d][p] \subseteq Macs
  BY DEF TypeInv
<1>2. OnPort(d, p) \subseteq Macs /\ OtherSwitches(d, p) \subseteq Macs
  BY <1>1 DEF OnPort, OtherSwitches
<1>3. IsFiniteSet(Macs)
  BY ThingsAssumption
<1> QED
  BY <1>2, <1>3, FS_Subset, FS_CardinalityType

-----------------------------------------------------------------------------
(* Where a host is shown.                                                   *)

LEMMA RankType ==
  ASSUME TypeInv, NEW x \in Place, NEW i \in 1 .. 5
  PROVE  HostRank(x)[i] \in Nat
<1>1. x[1] \in Devices /\ x[2] \in Ports
  BY DEF Place
<1>2. x[1] \in Nat /\ x[2] \in Nat
  BY <1>1, ThingsAssumption
<1>3. /\ Cardinality(OtherSwitches(x[1], x[2])) \in Nat
      /\ Cardinality(OnPort(x[1], x[2])) \in Nat
  BY <1>1, FinitePorts
<1> QED
  BY <1>2, <1>3 DEF HostRank

\* Among those that precede no less in the first i ranks there is one that
\* precedes no less in the next one.
LEMMA NextRank ==
  ASSUME TypeInv, NEW S, S \subseteq Place, S # {}, NEW i \in 1 .. 5
  PROVE  \E x \in S : \A y \in S : HostRank(x)[i] <= HostRank(y)[i]
<1> DEFINE r == [x \in S |-> HostRank(x)[i]]
<1>1. r \in [S -> Nat]
  BY RankType
<1>2. PICK x \in S : \A y \in S : r[x] <= r[y]
  <2> HIDE DEF r
  <2> QED
    BY <1>1, LeastRank
<1> QED
  BY <1>2

\* Of several places, one precedes the others.
LEMMA OnePrecedes ==
  ASSUME TypeInv, NEW S, S \subseteq Place, S # {}
  PROVE  \E x \in S : \A y \in S \ {x} : Preceding(x, y)
<1>0. 1 \in 1 .. 5 /\ 2 \in 1 .. 5 /\ 3 \in 1 .. 5 /\ 4 \in 1 .. 5 /\ 5 \in 1 .. 5
  OBVIOUS
<1>1. PICK a \in S : \A y \in S : HostRank(a)[1] <= HostRank(y)[1]
  BY <1>0, NextRank
<1> DEFINE A == {x \in S : HostRank(x)[1] = HostRank(a)[1]}
<1>2. PICK b \in A : \A y \in A : HostRank(b)[2] <= HostRank(y)[2]
  <2>1. A \subseteq Place /\ A # {}
    OBVIOUS
  <2> HIDE DEF A
  <2> QED
    BY <1>0, <2>1, NextRank
<1> DEFINE B == {x \in A : HostRank(x)[2] = HostRank(b)[2]}
<1>3. PICK c \in B : \A y \in B : HostRank(c)[3] <= HostRank(y)[3]
  <2>1. B \subseteq Place /\ B # {}
    OBVIOUS
  <2> HIDE DEF B
  <2> QED
    BY <1>0, <2>1, NextRank
<1> DEFINE C == {x \in B : HostRank(x)[3] = HostRank(c)[3]}
<1>4. PICK d \in C : \A y \in C : HostRank(d)[4] <= HostRank(y)[4]
  <2>1. C \subseteq Place /\ C # {}
    OBVIOUS
  <2> HIDE DEF C
  <2> QED
    BY <1>0, <2>1, NextRank
<1> DEFINE D == {x \in C : HostRank(x)[4] = HostRank(d)[4]}
<1>5. PICK e \in D : \A y \in D : HostRank(e)[5] <= HostRank(y)[5]
  <2>1. D \subseteq Place /\ D # {}
    OBVIOUS
  <2> HIDE DEF D
  <2> QED
    BY <1>0, <2>1, NextRank
<1>6. ASSUME NEW y \in S \ {e} PROVE Preceding(e, y)
  <2>1. /\ e \in Place /\ y \in Place
        /\ \A i \in 1 .. 5 : HostRank(e)[i] \in Nat /\ HostRank(y)[i] \in Nat
    BY RankType
  <2>2. HostRank(e)[1] <= HostRank(y)[1]
    BY <1>1
  <2>3. HostRank(y)[1] = HostRank(e)[1] => y \in A /\ HostRank(e)[2] <= HostRank(y)[2]
    BY <1>2
  <2>4. y \in A /\ HostRank(y)[2] = HostRank(e)[2] =>
          y \in B /\ HostRank(e)[3] <= HostRank(y)[3]
    BY <1>3
  <2>5. y \in B /\ HostRank(y)[3] = HostRank(e)[3] =>
          y \in C /\ HostRank(e)[4] <= HostRank(y)[4]
    BY <1>4
  <2>6. y \in C /\ HostRank(y)[4] = HostRank(e)[4] => HostRank(e)[5] <= HostRank(y)[5]
    BY <1>5
  <2>7. ~(HostRank(y)[4] = HostRank(e)[4] /\ HostRank(y)[5] = HostRank(e)[5])
    <3>1. y # e /\ y = <<y[1], y[2]>> /\ e = <<e[1], e[2]>>
      BY <2>1 DEF Place
    <3> QED
      BY <3>1 DEF HostRank
  <2> HIDE DEF A, B, C, D
  <2>8. CASE HostRank(e)[1] < HostRank(y)[1]
    BY <2>8 DEF Preceding
  <2>9. CASE HostRank(y)[1] = HostRank(e)[1] /\ HostRank(e)[2] < HostRank(y)[2]
    BY <2>9 DEF Preceding
  <2>10. CASE /\ \A j \in 1 .. 2 : HostRank(y)[j] = HostRank(e)[j]
              /\ HostRank(e)[3] < HostRank(y)[3]
    BY <2>10 DEF Preceding
  <2>11. CASE /\ \A j \in 1 .. 3 : HostRank(y)[j] = HostRank(e)[j]
              /\ HostRank(e)[4] < HostRank(y)[4]
    BY <2>11 DEF Preceding
  <2>12. CASE /\ \A j \in 1 .. 4 : HostRank(y)[j] = HostRank(e)[j]
              /\ HostRank(e)[5] < HostRank(y)[5]
    BY <2>12 DEF Preceding
  <2>13. \A j, k \in Nat : j <= k => j < k \/ k = j
    OBVIOUS
  <2>14. 1 .. 2 = {1, 2} /\ 1 .. 3 = {1, 2, 3} /\ 1 .. 4 = {1, 2, 3, 4}
         /\ {1, 2, 3, 4, 5} \subseteq 1 .. 5
    OBVIOUS
  <2> QED
    BY <2>1, <2>2, <2>3, <2>4, <2>5, <2>6, <2>7, <2>8, <2>9, <2>10, <2>11, <2>12,
       <2>13, <2>14
<1> QED
  BY <1>6

\* A host is placed on a free port that is not of a router.
LEMMA HostPlaced ==
  ASSUME TypeInv, NEW up, NEW h \in Hosts, HostPlace(up, h) # None
  PROVE  /\ HostPlace(up, h) \in Place \ Occupied(up)
         /\ HostPlace(up, h)[1] \in Managed
         /\ Role(HostPlace(up, h)[1]) # "router"
         /\ HostPlace(up, h) = hostLink[h] \/ HostPlace(up, h) \in HostSightings(up, h)
<1> DEFINE seen   == {x \in HostSightings(up, h) : Role(x[1]) # "router"}
           direct == {x \in seen : OtherSwitches(x[1], x[2]) = {}}
           pool   == IF direct # {} THEN direct ELSE seen
<1>1. CASE HostSightings(up, h) = {}
  <2>1. CachedValid(up, h) /\ HostPlace(up, h) = hostLink[h]
    BY <1>1 DEF HostPlace
  <2>2. hostLink[h] \in Place
    BY <2>1 DEF TypeInv, CachedValid
  <2> QED
    BY <2>1, <2>2 DEF CachedValid
<1>2. CASE HostSightings(up, h) # {}
  <2>1. pool # {} /\ HostPlace(up, h) = CHOOSE x \in pool : \A y \in pool \ {x} : Preceding(x, y)
    BY <1>2 DEF HostPlace
  <2>2. /\ pool \subseteq HostSightings(up, h)
        /\ \A x \in pool : Role(x[1]) # "router"
    OBVIOUS
  <2>3. HostSightings(up, h) \subseteq (Managed \X Ports) \ Occupied(up)
    BY DEF HostSightings
  <2>4. Managed \X Ports \subseteq Place
    BY DEF Managed, Place
  <2> HIDE DEF pool
  <2>5. \E x \in pool : \A y \in pool \ {x} : Preceding(x, y)
    BY <2>1, <2>2, <2>3, <2>4, OnePrecedes
  <2>6. HostPlace(up, h) \in pool
    BY <2>1, <2>5
  <2> QED
    BY <2>2, <2>3, <2>4, <2>6
<1> QED
  BY <1>1, <1>2

LEMMA HostRememberedType ==
  ASSUME TypeInv, NEW up, NEW h \in Hosts
  PROVE  HostRemembered(up, h) \in Place \cup {None}
<1>1. hostLink[h] \in Place \cup {None}
  BY DEF TypeInv
<1>2. HostPlace(up, h) # None => HostPlace(up, h) \in Place
  BY HostPlaced
<1> QED
  BY <1>1, <1>2 DEF HostRemembered

-----------------------------------------------------------------------------
(* The links of a map.                                                      *)

Backbone == Uplinks \cup HostLinks(Uplinks)
Trunks   == EndsOf(Backbone)

\* Links between devices lead to a device.
LEMMA UplinkEnds ==
  ASSUME NEW l \in Uplinks
  PROVE  /\ l.kind = "uplink" /\ l.on = TRUE /\ l.dst \in Managed
         /\ l.src \in Devices \/ l.src = conf.uplink[l.dst].parent
<1>1. Managed \subseteq Devices /\ SwitchMacs \subseteq Managed
  BY DEF Managed, SwitchMacs
<1>2. l \in LinksBetween(Sees)
  BY DEF Uplinks
<1>3. CASE \E d \in Uplinked : l = StaticLink(Sees, d)
  <2>1. PICK d \in Uplinked : l = StaticLink(Sees, d)
    BY <1>3
  <2>2. l.kind = "uplink" /\ l.on = TRUE /\ l.dst = d /\ l.src = conf.uplink[d].parent
    BY <2>1 DEF StaticLink, Link
  <2> QED
    BY <2>2 DEF Uplinked
<1>4. CASE \E k \in AnnouncedLinks \cup DeducedLinks(Sees) :
             l = Link(k.src, k.sp, k.dst, Sees[k.dst][k.src], "uplink")
  <2>1. PICK k \in AnnouncedLinks \cup DeducedLinks(Sees) :
             l = Link(k.src, k.sp, k.dst, Sees[k.dst][k.src], "uplink")
    BY <1>4
  <2>2. l.kind = "uplink" /\ l.on = TRUE /\ l.dst = k.dst /\ l.src = k.src
    BY <2>1 DEF Link
  <2>3. CASE k \in AnnouncedLinks
    <3>1. PICK x \in Devices \X Devices :
                 Announced(x[1], x[2]) # {} /\ k.src = x[1] /\ k.dst = x[2]
      BY <2>3 DEF AnnouncedLinks
    <3>2. x[2] \in SwitchMacs
      BY <3>1 DEF Announced
    <3> QED
      BY <2>2, <3>1, <3>2, <1>1
  <2>4. CASE k \in DeducedLinks(Sees)
    <3>1. PICK x \in Candidates(Sees) : k.src = x[1] /\ k.dst = x[3]
      <4>1. PICK x \in Candidates(Sees) :
              k = [src |-> x[1], sp |-> Least(Picks(Candidates(Sees), x[1], x[3])), dst |-> x[3]]
        BY <2>4, Zenon DEF DeducedLinks
      <4> QED
        BY <4>1
    <3>2. PICK y \in Sources \X Ports : \E t \in DirectNeighbors(Sees, y[1], y[2]) :
                                          x = <<y[1], y[2], t>>
      BY <3>1 DEF Candidates
    <3>3. x[1] \in Sources /\ x[3] \in DirectNeighbors(Sees, y[1], y[2])
      BY <3>2
    <3>4. x[1] \in Managed /\ x[3] \in Managed
      BY <3>3, <1>1 DEF Sources, DirectNeighbors, Behind
    <3> QED
      BY <2>2, <3>1, <3>4, <1>1
  <2> QED
    BY <2>1, <2>3, <2>4
<1> QED
  BY <1>2, <1>3, <1>4 DEF LinksBetween

\* A link of the map is between devices, to a host, to something else that is no
\* client, or to a client that is shown.
LEMMA DrawnLinks ==
  ASSUME TypeInv, NEW read, NEW written, Draw(Uplinks, read, written), NEW l \in map'.links
  PROVE  \/ l \in Uplinks
         \/ l \in HostLinks(Uplinks)
         \/ /\ l.kind \notin {"client", "physical_host"}
            /\ l.dst \notin Clients
            /\ l.kind = "uplink" => ~({l.src, l.dst} \subseteq Devices)
         \/ \E m \in ShownClients(RowsRead(read), Trunks) : l = ClientLink(RowsRead(read), Trunks, m)
<1>1. map' = Drawn(Backbone, Trunks, RowsRead(read), ShownClients(RowsRead(read), Trunks))
  BY DEF Draw, Backbone, Trunks
<1>2. \/ l \in Backbone \/ l \in GuestLinks \/ l \in ApLinks \/ l \in UnmanagedLinks
      \/ l \in PhoneLinks(Trunks) \/ l \in InfraLinks \/ l \in OntLinks
      \/ \E m \in ShownClients(RowsRead(read), Trunks) : l = ClientLink(RowsRead(read), Trunks, m)
  BY <1>1 DEF Drawn
<1>3. CASE l \in Backbone
  BY <1>3 DEF Backbone
<1>4. CASE l \in GuestLinks
  <2>1. PICK g \in Guests : l.dst = g /\ l.kind = "virtual_child"
    BY <1>4 DEF GuestLinks, ShownGuests, Link
  <2> QED
    BY <2>1, ThingsAssumption
<1>5. CASE l \in ApLinks
  <2>1. PICK g \in AccessPoints : l.dst = g /\ l.kind = "ap"
    BY <1>5 DEF ApLinks, Link
  <2> QED
    BY <2>1, ThingsAssumption
<1>6. CASE l \in UnmanagedLinks
  <2>1. PICK g \in Unmanaged : l.dst = g /\ l.kind = "infra"
    BY <1>6 DEF UnmanagedLinks, Link
  <2> QED
    BY <2>1, ThingsAssumption
<1>7. CASE l \in PhoneLinks(Trunks)
  <2>1. PICK g \in Phones : l.dst = g /\ l.kind = "uplink"
    BY <1>7 DEF PhoneLinks, Link
  <2> QED
    BY <2>1, ThingsAssumption
<1>8. CASE l \in InfraLinks
  <2>1. PICK g \in Infra : l.dst = g /\ l.kind = "infra"
    BY <1>8 DEF InfraLinks, Link
  <2> QED
    BY <2>1, ThingsAssumption
<1>9. CASE l \in OntLinks
  <2>1. CASE \E o \in Onts : l = Link(Internet, Unnamed, o, Unnamed, "internet")
    <3>1. PICK o \in Onts : l.dst = o /\ l.kind = "internet"
      BY <2>1 DEF Link
    <3> QED
      BY <3>1, ThingsAssumption
  <2>2. CASE \E o \in Onts : /\ conf.ontAt[o] # None
                             /\ l = Link(o, Unnamed, conf.ontAt[o][1], conf.ontAt[o][2], "uplink")
    <3>1. PICK o \in Onts : /\ conf.ontAt[o] # None /\ l.src = o
                            /\ l.dst = conf.ontAt[o][1] /\ l.kind = "uplink"
      BY <2>2 DEF Link
    <3>2. conf.ontAt[o] \in Place
      BY <3>1 DEF TypeInv, Conf
    <3> QED
      BY <3>1, <3>2, ThingsAssumption DEF Place
  <2> QED
    BY <1>9, <2>1, <2>2 DEF OntLinks
<1> QED
  BY <1>2, <1>3, <1>4, <1>5, <1>6, <1>7, <1>8, <1>9

\* Links between devices are the uplinks that were deduced.
LEMMA DrawnUplinks ==
  ASSUME TypeInv, NEW read, NEW written, Draw(Uplinks, read, written)
  PROVE  DeviceLinks' = {l \in Uplinks : l.src \in Devices}
<1>1. ASSUME NEW l \in HostLinks(Uplinks) PROVE l.kind = "physical_host"
  BY <1>1 DEF HostLinks, Link
<1>2. ASSUME NEW m, NEW l, l = ClientLink(RowsRead(read), Trunks, m) PROVE l.kind = "client"
  BY <1>2 DEF ClientLink, Link
<1>3. ASSUME NEW l \in Uplinks PROVE l.kind = "uplink" /\ l.dst \in Devices /\ l \in map'.links
  BY <1>3, UplinkEnds DEF Managed, Draw, Drawn
<1>4. ASSUME NEW l \in map'.links, l.kind = "uplink", {l.src, l.dst} \subseteq Devices
      PROVE  l \in Uplinks
  BY <1>1, <1>2, <1>4, DrawnLinks
<1> QED
  BY <1>3, <1>4 DEF DeviceLinks

-----------------------------------------------------------------------------
(* Where a client is shown.                                                 *)

LEMMA LeafPlaceType ==
  ASSUME TypeInv, NEW trunks, NEW m, LeafPlace(trunks, m) # None
  PROVE  LeafPlace(trunks, m) \in LeafPorts(trunks, m)
<1>1. Managed \X Ports \subseteq Nat \X Nat
  BY NoPlaceIsNone DEF Managed
<1>2. LeafPorts(trunks, m) \subseteq Nat \X Nat
  BY <1>1 DEF LeafPorts, SightingsOf
<1> DEFINE switched == {x \in LeafPorts(trunks, m) : ~RoutesLike(x[1])}
<1>3. switched # {} => FirstPlace(switched) \in switched
  BY <1>2, FirstPlaceIsOne
<1>4. LeafPorts(trunks, m) # {} => FirstPlace(LeafPorts(trunks, m)) \in LeafPorts(trunks, m)
  BY <1>2, FirstPlaceIsOne
<1> QED
  BY <1>3, <1>4 DEF LeafPlace

\* The last known place of a client is not on a device that is disabled.
LEMMA LastPlaceType ==
  ASSUME TypeInv, NEW known \in Rows, NEW m \in Clients, LastPlace(known, m) # None
  PROVE  /\ LastPlace(known, m) \in ShownPlace
         /\ LastPlace(known, m)[1] \notin conf.disabled
<1> DEFINE given  == {x \in {conf.client[m]} : x # None}
           stored == IF known[m] # None THEN {known[m].place} ELSE {}
           dev    == {x[1] : x \in given} \ {None}
           port   == {x[2] : x \in given} \ {Unnamed}
           devs   == IF dev # {} THEN dev ELSE {x[1] : x \in stored}
           ports  == IF port # {} THEN port ELSE {x[2] : x \in stored}
<1>1. m \in Clients /\ devs # {} /\ ports # {} /\ ~(devs \subseteq conf.disabled)
      /\ LastPlace(known, m) = CHOOSE x \in devs \X ports : TRUE
  BY DEF LastPlace
<1>2. given \subseteq (Devices \cup {None}) \X (Ports \cup {Unnamed})
  BY DEF TypeInv, Conf
<1>3. stored \subseteq ShownPlace
  BY DEF Rows
<1>4. devs \subseteq Devices \cup {Elsewhere} /\ ports \subseteq Ports \cup {Unnamed}
  BY <1>2, <1>3 DEF ShownPlace
<1>5. \A x, y \in devs : x = y
  OBVIOUS
<1> HIDE DEF devs, ports
<1>6. LastPlace(known, m) \in devs \X ports
  BY <1>1
<1>7. LastPlace(known, m)[1] \in devs /\ devs \cap conf.disabled = {}
  BY <1>1, <1>5, <1>6
<1> QED
  BY <1>4, <1>6, <1>7 DEF ShownPlace

\* A client that is shown is drawn at an access point, or at a place that is not
\* on a device that is disabled.
LEMMA ShownAtType ==
  ASSUME TypeInv, NEW known \in Rows, NEW trunks, NEW m \in ShownClients(known, trunks)
  PROVE  /\ ShownAt(known, trunks, m) \in ShownPlace
         /\ ShownAt(known, trunks, m)[1] \notin conf.disabled
<1>0. conf.disabled \subseteq Devices
  BY DEF TypeInv, Conf
<1>1. CASE OverAir(m) # {}
  BY <1>0, <1>1, ThingsAssumption DEF ShownAt, ShownPlace
<1>2. CASE OverAir(m) = {} /\ LeafPlace(trunks, m) # None
  <2>1. ShownAt(known, trunks, m) \in Managed \X Ports
    BY <1>2, LeafPlaceType DEF ShownAt, LeafPorts, SightingsOf
  <2> QED
    BY <2>1 DEF Managed, ShownPlace
<1>3. CASE OverAir(m) = {} /\ LeafPlace(trunks, m) = None
  <2>1. ShownAt(known, trunks, m) = LastPlace(known, m) /\ LastPlace(known, m) # None
    BY <1>3 DEF ShownAt, ShownClients
  <2>2. m \in Clients
    BY <2>1 DEF LastPlace
  <2> QED
    BY <2>1, <2>2, LastPlaceType
<1> QED
  BY <1>1, <1>2, <1>3

-----------------------------------------------------------------------------
(* The types are kept.                                                      *)

LEMMA LearnedType ==
  ASSUME NEW d \in Devices
  PROVE  Learned(d) \in [Ports -> SUBSET Macs]
<1>1. Stations \subseteq Macs /\ Devices \subseteq Macs
  BY DEF Stations, Macs
<1>2. ASSUME NEW e PROVE Beyond(d, e) \subseteq Macs /\ PluggedInto(Beyond(d, e)) \subseteq Macs
  BY <1>1 DEF Beyond, BeyondIn, PluggedInto
<1>3. ASSUME NEW p \in Ports
      PROVE  {m \in Stations : plugged[m] = <<d, p>>} \cup
             UNION {Beyond(d, e) \cup PluggedInto(Beyond(d, e)) :
                      e \in {x \in Devices : {d, x} \in cables /\ Toward[<<d, x>>] = p}}
             \in SUBSET Macs
  BY <1>1, <1>2
<1> QED
  BY <1>3 DEF Learned

LEMMA DrawnRowType ==
  ASSUME TypeInv, NEW read, NEW written, Draw(Uplinks, read, written)
  PROVE  row' \in Rows
<1>1. row' = [m \in Clients |->
                IF written /\ m \in ShownClients(RowsRead(read), Trunks)
                THEN [place |-> ShownAt(RowsRead(read), Trunks, m), online |-> Online(Trunks, m)]
                ELSE row[m]]
  BY DEF Draw, Backbone, Trunks
<1>2. ASSUME NEW m \in ShownClients(RowsRead(read), Trunks)
      PROVE  ShownAt(RowsRead(read), Trunks, m) \in ShownPlace /\ Online(Trunks, m) \in BOOLEAN
  BY RowsReadType, ShownAtType DEF Online
<1>3. \A m \in Clients : row[m] \in [place : ShownPlace, online : BOOLEAN] \cup {None}
  BY DEF TypeInv, Rows
<1> QED
  BY <1>1, <1>2, <1>3 DEF Rows

LEMMA InitTypes == Init => TypeInv
<1> SUFFICES ASSUME Init PROVE TypeInv
  OBVIOUS
<1>1. scene \in Scenes /\ conf \in Conf /\ cables \in scene.cables
  BY ScenesAssumption DEF Init
<1>2. plugged \in [Stations -> Place \cup {None}]
  <2>1. plugged \in [Stations -> UNION {scene.plugs[m] : m \in Stations}]
        /\ \A m \in Stations : plugged[m] \in scene.plugs[m]
    BY DEF Init
  <2>2. \A m \in Stations : scene.plugs[m] \subseteq Place \cup {None}
    BY <1>1, ScenesAssumption
  <2> QED
    BY <2>1, <2>2
<1>3. table \in [Devices -> [Ports -> SUBSET Macs]]
  BY LearnedType DEF Init
<1>4. /\ hostLink \in [Hosts -> Place \cup {None}]
      /\ row \in Rows
  BY DEF Init, Rows
<1> QED
  BY <1>1, <1>2, <1>3, <1>4 DEF TypeInv

LEMMA NextTypes ==
  ASSUME TypeInv, [Next]_vars
  PROVE  TypeInv'
<1>1. ASSUME NEW m \in Stations, Replug(m) PROVE TypeInv'
  <2>1. scene.plugs[m] \subseteq Place \cup {None}
    BY ScenesAssumption DEF TypeInv
  <2>2. plugged' \in [Stations -> Place \cup {None}]
    BY <1>1, <2>1 DEF TypeInv, Replug
  <2> QED
    BY <1>1, <2>2 DEF TypeInv, Replug, topologyVars
<1>2. CASE Recable
  BY <1>2 DEF TypeInv, Recable, topologyVars
<1>3. ASSUME NEW d \in Devices, ReadTable(d) PROVE TypeInv'
  <2>1. table' \in [Devices -> [Ports -> SUBSET Macs]]
    BY <1>3, LearnedType DEF TypeInv, ReadTable
  <2> QED
    BY <1>3, <2>1 DEF TypeInv, ReadTable
<1>4. ASSUME NEW d \in Devices, Switch(d) PROVE TypeInv'
  <2>1. conf' \in Conf
    BY <1>4 DEF TypeInv, Switch, Conf
  <2> QED
    BY <1>4, <2>1 DEF TypeInv, Switch
<1>5. ASSUME NEW read \in BOOLEAN, NEW written \in BOOLEAN, DrawMap(Uplinks, read, written)
      PROVE  TypeInv'
  <2>1. /\ Draw(Uplinks, read, written)
        /\ UNCHANGED <<conf, table, scene, cables, plugged>>
    BY <1>5 DEF DrawMap, Draw
  <2>2. hostLink' = [h \in Hosts |-> IF conf.cluster[h] \in Managed
                                     THEN HostRemembered(Uplinks, h) ELSE hostLink[h]]
    BY <2>1 DEF Draw
  <2>3. hostLink' \in [Hosts -> Place \cup {None}]
    BY <2>2, HostRememberedType DEF TypeInv
  <2> QED
    BY <2>1, <2>3, DrawnRowType DEF TypeInv
<1>6. CASE UNCHANGED vars
  BY <1>6 DEF TypeInv, vars, topologyVars
<1> QED
  BY <1>1, <1>2, <1>3, <1>4, <1>5, <1>6 DEF Next

LEMMA MapTypes == Spec => []TypeInv
<1>1. Init => TypeInv
  BY InitTypes
<1>2. TypeInv /\ [Next]_vars => TypeInv'
  BY NextTypes
<1> QED
  BY <1>1, <1>2, PTL DEF Spec

-----------------------------------------------------------------------------
(* What is true of every map.                                               *)

\* A step either draws the map or leaves nothing drawn.
LEMMA DrawnByDraw ==
  ASSUME [Next]_vars, drawn'
  PROVE  \/ \E read, written \in BOOLEAN :
              Draw(Uplinks, read, written) /\ UNCHANGED <<scene, cables, plugged>>
         \/ UNCHANGED vars
BY DEF Next, Replug, Recable, ReadTable, Switch, DrawMap

\* What a place hangs from is no device that is disabled, and no unmanaged switch
\* below one, if the place is not on one.
LEMMA HangsFromShown ==
  ASSUME TypeInv, NEW trunks, NEW x \in ShownPlace, x[1] \notin conf.disabled
  PROVE  /\ HangsFrom(trunks, x) \notin conf.disabled
         /\ HangsFrom(trunks, x) \in Unmanaged =>
              conf.below[HangsFrom(trunks, x)][1] \notin conf.disabled
<1> DEFINE node  == HangsFrom(trunks, x)
           infra == {i \in Infra : InfraPlace(i) = x}
<1>1. conf.disabled \subseteq Devices /\ conf.passthrough \subseteq Phones
  BY DEF TypeInv, Conf
<1>2. x[1] \in Devices \cup {Elsewhere}
  BY DEF ShownPlace
<1>3. CASE infra # {}
  <2>1. node \in Infra
    BY <1>3 DEF HangsFrom
  <2> QED
    BY <1>1, <2>1, ThingsAssumption
<1>4. CASE infra = {} /\ PhonesAt(trunks, x) # {}
  <2>1. node \in PhonesAt(trunks, x)
    BY <1>4 DEF HangsFrom
  <2>2. node \in Phones
    BY <2>1, <1>1 DEF PhonesAt
  <2> QED
    BY <1>1, <2>2, ThingsAssumption
<1>5. CASE infra = {} /\ PhonesAt(trunks, x) = {} /\ UnmanagedAt(x) # {}
  <2>1. node \in UnmanagedAt(x)
    BY <1>5 DEF HangsFrom
  <2>2. node \in Unmanaged /\ conf.below[node] = x
    BY <2>1 DEF UnmanagedAt
  <2> QED
    BY <1>1, <2>2, ThingsAssumption
<1>6. CASE infra = {} /\ PhonesAt(trunks, x) = {} /\ UnmanagedAt(x) = {}
  <2>1. node = x[1]
    BY <1>6 DEF HangsFrom
  <2> QED
    BY <1>2, <2>1, ThingsAssumption
<1> QED
  BY <1>3, <1>4, <1>5, <1>6

LEMMA ClientLinkShown ==
  ASSUME TypeInv, NEW known \in Rows, NEW trunks,
         NEW m \in ShownClients(known, trunks)
  PROVE  LET l == ClientLink(known, trunks, m)
         IN  /\ l.src \notin conf.disabled
             /\ l.src \in Unmanaged => conf.below[l.src][1] \notin conf.disabled
<1>1. CASE OverAir(m) # {}
  <2>1. ClientLink(known, trunks, m).src \in OverAir(m)
    BY <1>1 DEF ClientLink, Link
  <2>2. ClientLink(known, trunks, m).src \in AccessPoints
    BY <2>1 DEF OverAir
  <2>3. conf.disabled \subseteq Devices
    BY DEF TypeInv, Conf
  <2> QED
    BY <2>2, <2>3, ThingsAssumption
<1>2. CASE OverAir(m) = {}
  <2>1. ClientLink(known, trunks, m).src = HangsFrom(trunks, ShownAt(known, trunks, m))
    BY <1>2 DEF ClientLink, Link
  <2> QED
    BY <2>1, ShownAtType, HangsFromShown
<1> QED
  BY <1>1, <1>2

LEMMA HiddenWithDeviceStep ==
  ASSUME TypeInv, HiddenWithDevice, [Next]_vars
  PROVE  HiddenWithDevice'
<1>1. CASE UNCHANGED vars
  BY <1>1 DEF HiddenWithDevice, vars, topologyVars
<1>2. ASSUME NEW read, NEW written, Draw(Uplinks, read, written)
      PROVE  HiddenWithDevice'
  <2>1. ASSUME NEW l \in map'.links, l.kind = "client"
        PROVE  /\ l.src \notin conf.disabled
               /\ l.src \in Unmanaged => conf.below[l.src][1] \notin conf.disabled
    <3>1. l \notin Uplinks
      BY <2>1, UplinkEnds
    <3>2. l \notin HostLinks(Uplinks)
      BY <2>1 DEF HostLinks, Link
    <3>3. PICK m \in ShownClients(RowsRead(read), Trunks) : l = ClientLink(RowsRead(read), Trunks, m)
      BY <1>2, <2>1, <3>1, <3>2, DrawnLinks
    <3> QED
      BY <3>3, RowsReadType, ClientLinkShown
  <2>2. conf' = conf
    BY <1>2 DEF Draw
  <2> QED
    BY <2>1, <2>2 DEF HiddenWithDevice
<1>3. CASE ~drawn'
  BY <1>3 DEF HiddenWithDevice
<1> QED
  BY <1>1, <1>2, <1>3, DrawnByDraw

\* No client is shown on a device that is hidden, nor on an unmanaged switch
\* below one, wherever its row or the configuration has it
\* (_collect_last_known_clients).
THEOREM ClientsHideWithDevice == Spec => []HiddenWithDevice
<1>1. Init => HiddenWithDevice
  BY DEF Init, HiddenWithDevice
<1>2. TypeInv /\ HiddenWithDevice /\ [Next]_vars => HiddenWithDevice'
  BY HiddenWithDeviceStep
<1> QED
  BY <1>1, <1>2, MapTypes, PTL DEF Spec

-----------------------------------------------------------------------------
(* Clients that fall silent.                                                *)

\* What has a row was not ignored, and is not drawn like a guest.
RowsShown ==
  \A m \in Clients : row[m] # None => m \notin conf.ignored \cup conf.likeGuest

LEMMA RowsShownStep ==
  ASSUME TypeInv, RowsShown, [Next]_vars
  PROVE  RowsShown'
<1>1. ASSUME NEW read, NEW written, Draw(Uplinks, read, written)
      PROVE  RowsShown'
  <2>1. row' = [m \in Clients |->
                IF written /\ m \in ShownClients(RowsRead(read), Trunks)
                THEN [place |-> ShownAt(RowsRead(read), Trunks, m), online |-> Online(Trunks, m)]
                ELSE row[m]]
    BY <1>1 DEF Draw, Backbone, Trunks
  <2>2. conf' = conf
    BY <1>1 DEF Draw
  <2>3. ShownClients(RowsRead(read), Trunks) \cap (conf.ignored \cup conf.likeGuest) = {}
    BY DEF ShownClients, KnownClients
  <2> QED
    BY <2>1, <2>2, <2>3 DEF RowsShown
<1>2. CASE row' = row /\ conf' = conf
  BY <1>2 DEF RowsShown
<1>3. ASSUME NEW d \in Devices, Switch(d) PROVE RowsShown'
  <2>1. row' = row /\ conf'.ignored = conf.ignored /\ conf'.likeGuest = conf.likeGuest
    BY <1>3 DEF Switch, TypeInv, Conf
  <2> QED
    BY <2>1 DEF RowsShown
<1> QED
  BY <1>1, <1>2, <1>3
  DEF Next, Replug, Recable, ReadTable, DrawMap, vars, topologyVars

LEMMA RowsAreShown == Spec => [](TypeInv /\ RowsShown)
<1>1. Init => RowsShown
  BY DEF Init, RowsShown
<1>2. TypeInv /\ RowsShown /\ [Next]_vars => RowsShown'
  BY RowsShownStep
<1> QED
  BY <1>1, <1>2, MapTypes, PTL DEF Spec

\* From tables that are read, a silent client is found nowhere.
LEMMA SilentIsOffline ==
  ASSUME TypeInv, Read, NEW trunks, NEW m \in Clients, plugged[m] = None
  PROVE  OverAir(m) = {} /\ LeafPlace(trunks, m) = None /\ ~Online(trunks, m)
<1>1. ASSUME NEW d \in Devices, NEW p \in Ports PROVE m \notin OnPort(d, p)
  <2>1. m \notin {k \in Stations : plugged[k] = <<d, p>>}
    BY ThingsAssumption DEF Place
  <2>2. ASSUME NEW e PROVE m \notin Beyond(d, e) \cup PluggedInto(Beyond(d, e))
    BY ThingsAssumption DEF Beyond, BeyondIn, PluggedInto
  <2>3. m \notin Learned(d)[p]
    BY <2>1, <2>2 DEF Learned
  <2> QED
    BY <2>3 DEF Read, OnPort
<1>2. SightingsOf(m) = {}
  BY <1>1 DEF SightingsOf, Managed
<1>3. LeafPlace(trunks, m) = None
  BY <1>2 DEF LeafPlace, LeafPorts
<1>4. ASSUME NEW a \in AccessPoints PROVE m \notin BehindAp(a)
  <2>1. CASE ApPlace(a) = None
    BY <2>1 DEF BehindAp
  <2>2. CASE ApPlace(a) # None
    <3>1. EdgePorts(a) \subseteq SightingsOf(a) /\ SightingsOf(a) \subseteq Devices \X Ports
      BY DEF EdgePorts, SightingsOf, Managed
    <3>2. conf.apAt[a] # None => conf.apAt[a] \in Place
      BY DEF TypeInv, Conf
    <3>3. /\ EdgePorts(a) # {} => FirstPlace(EdgePorts(a)) \in EdgePorts(a)
          /\ SightingsOf(a) # {} => FirstPlace(SightingsOf(a)) \in SightingsOf(a)
      <4>1. SightingsOf(a) \subseteq Nat \X Nat /\ EdgePorts(a) \subseteq Nat \X Nat
        BY <3>1, NoPlaceIsNone
      <4> QED
        BY <4>1, FirstPlaceIsOne
    <3>4. ApPlace(a) \in Devices \X Ports
      BY <2>2, <3>1, <3>2, <3>3 DEF ApPlace, Place
    <3> QED
      BY <1>1, <3>4 DEF BehindAp
  <2> QED
    BY <2>1, <2>2
<1>5. OverAir(m) = {}
  BY <1>4 DEF OverAir
<1> QED
  BY <1>3, <1>5 DEF Online

\* The place of a silent client is the one in its row.
LEMMA SilentPlace ==
  ASSUME TypeInv, NEW m \in Clients, row[m] # None, conf.client[m] = None
  PROVE  LastPlace(row, m) = IF row[m].place[1] \in conf.disabled THEN None ELSE row[m].place
<1> DEFINE x == row[m].place
<1>1. x \in ShownPlace
  BY DEF TypeInv, Rows
<1>2. x = <<x[1], x[2]>>
  BY <1>1 DEF ShownPlace
<1> DEFINE given  == {y \in {conf.client[m]} : y # None}
           stored == IF row[m] # None THEN {row[m].place} ELSE {}
           dev    == {y[1] : y \in given} \ {None}
           port   == {y[2] : y \in given} \ {Unnamed}
           devs   == IF dev # {} THEN dev ELSE {y[1] : y \in stored}
           ports  == IF port # {} THEN port ELSE {y[2] : y \in stored}
<1>3. LastPlace(row, m) = IF devs = {} \/ ports = {} \/ devs \subseteq conf.disabled
                          THEN None ELSE CHOOSE y \in devs \X ports : TRUE
  BY DEF LastPlace
<1>6. devs = {x[1]} /\ ports = {x[2]}
  <2>1. given = {}
    OBVIOUS
  <2>2. dev = {} /\ port = {}
    BY <2>1
  <2> QED
    BY <2>2
<1>4. {x[1]} \X {x[2]} = {<<x[1], x[2]>>}
  OBVIOUS
<1>5. (CHOOSE y \in {x[1]} \X {x[2]} : TRUE) = x
  BY <1>2, <1>4
<1> HIDE DEF devs, ports
<1> QED
  BY <1>3, <1>5, <1>6

\* No other link leads to a client than its own.
LEMMA LinkOfClient ==
  ASSUME TypeInv, NEW read, NEW written, Draw(Uplinks, read, written),
         NEW m \in Clients, NEW l \in map'.links, l.dst = m
  PROVE  /\ m \in ShownClients(RowsRead(read), Trunks)
         /\ l = ClientLink(RowsRead(read), Trunks, m)
<1>1. m \notin Managed /\ m \notin Hosts
  BY ThingsAssumption DEF Managed
<1>2. l \notin Uplinks
  BY <1>1, UplinkEnds
<1>3. l \notin HostLinks(Uplinks)
  BY <1>1 DEF HostLinks, AttachedHosts, Link
<1>4. PICK k \in ShownClients(RowsRead(read), Trunks) :
        l = ClientLink(RowsRead(read), Trunks, k)
  BY <1>2, <1>3, DrawnLinks
<1>5. l.dst = k
  BY <1>4 DEF ClientLink, Link
<1> QED
  BY <1>4, <1>5

LEMMA LinkDrawn ==
  ASSUME NEW read, NEW written, Draw(Uplinks, read, written),
         NEW m \in ShownClients(RowsRead(read), Trunks)
  PROVE  ClientLink(RowsRead(read), Trunks, m) \in map'.links
<1>1. map' = Drawn(Backbone, Trunks, RowsRead(read), ShownClients(RowsRead(read), Trunks))
  BY DEF Draw, Backbone, Trunks
<1> QED
  BY <1>1 DEF Drawn

\* A row that is shown offline differs in its status only.
LEMMA OfflineRow ==
  ASSUME NEW r \in [place : ShownPlace, online : BOOLEAN]
  PROVE  [place |-> r.place, online |-> FALSE] = [r EXCEPT !.online = FALSE]
<1> DEFINE q == [r EXCEPT !.online = FALSE]
<1>1. q \in [place : ShownPlace, online : BOOLEAN] /\ q.place = r.place /\ q.online = FALSE
  OBVIOUS
<1> HIDE DEF q
<1>2. q = [place |-> r.place, online |-> FALSE]
  BY <1>1
<1> QED
  BY <1>2 DEF q

\* A silent client is in a map that read its row, unless its device is hidden.
LEMMA SilentShown ==
  ASSUME TypeInv, RowsShown, Read, NEW read \in BOOLEAN, NEW m \in Clients,
         plugged[m] = None, row[m] # None, conf.client[m] = None
  PROVE  /\ m \in ShownClients(RowsRead(read), Trunks) <=>
              read /\ row[m].place[1] \notin conf.disabled
         /\ m \in ShownClients(RowsRead(read), Trunks) =>
              ShownAt(RowsRead(read), Trunks, m) = row[m].place
<1>1. OverAir(m) = {} /\ LeafPlace(Trunks, m) = None
  BY SilentIsOffline
<1>2. CASE ~read
  <2>1. RowsRead(read)[m] = None
    BY <1>2 DEF RowsRead
  <2>2. m \notin KnownClients(RowsRead(read), Trunks)
    BY <1>1, <2>1 DEF KnownClients
  <2> QED
    BY <1>2, <2>2 DEF ShownClients
<1>3. CASE read
  <2>1. RowsRead(read) = row
    BY <1>3 DEF RowsRead
  <2>2. ShownAt(row, Trunks, m) = LastPlace(row, m)
    BY <1>1 DEF ShownAt
  <2>3. m \in KnownClients(row, Trunks)
    BY DEF KnownClients, ShownAsClient, RowsShown
  <2>4. row[m].place # None
    BY NoPlaceIsNone DEF TypeInv, Rows
  <2> QED
    BY <1>3, <2>1, <2>2, <2>3, <2>4, SilentPlace DEF ShownClients
<1> QED
  BY <1>2, <1>3

LEMMA SilentStayStep ==
  ASSUME TypeInv, RowsShown, Read, NEW m \in Clients,
         plugged[m] = None, row[m] # None, conf.client[m] = None,
         NEW read \in BOOLEAN, NEW written \in BOOLEAN, Draw(Uplinks, read, written)
  PROVE  LET links == {l \in map'.links : l.dst = m}
             stays == read /\ row[m].place[1] \notin conf.disabled
         IN  /\ stays <=> links # {}
             /\ \A l \in links : ~l.on /\ l.sp = row[m].place[2]
             /\ row'[m] = IF stays /\ written THEN [row[m] EXCEPT !.online = FALSE]
                          ELSE row[m]
<1> DEFINE links == {l \in map'.links : l.dst = m}
           stays == read /\ row[m].place[1] \notin conf.disabled
           known == RowsRead(read)
<1>1. ~Online(Trunks, m)
  BY SilentIsOffline
<1>2. /\ m \in ShownClients(known, Trunks) <=> stays
      /\ stays => ShownAt(known, Trunks, m) = row[m].place
  BY SilentShown
<1> HIDE DEF stays
<1>3. stays <=> links # {}
  <2>1. CASE stays
    <3>1. ClientLink(known, Trunks, m) \in map'.links
      BY <1>2, <2>1, LinkDrawn
    <3>2. ClientLink(known, Trunks, m).dst = m
      BY DEF ClientLink, Link
    <3> QED
      BY <2>1, <3>1, <3>2
  <2>2. CASE ~stays
    BY <1>2, <2>2, LinkOfClient
  <2> QED
    BY <2>1, <2>2
<1>4. ASSUME NEW l \in links PROVE ~l.on /\ l.sp = row[m].place[2]
  <2>1. stays
    BY <1>3
  <2>2. l = ClientLink(known, Trunks, m)
    BY LinkOfClient
  <2>3. l.on = Online(Trunks, m) /\ l.sp = ShownAt(known, Trunks, m)[2]
    BY <2>2 DEF ClientLink, Link
  <2> QED
    BY <1>1, <1>2, <2>1, <2>3
<1>5. row'[m] = IF stays /\ written THEN [row[m] EXCEPT !.online = FALSE] ELSE row[m]
  <2>1. row'[m] = IF written /\ m \in ShownClients(known, Trunks)
                  THEN [place |-> ShownAt(known, Trunks, m), online |-> Online(Trunks, m)]
                  ELSE row[m]
    BY DEF Draw, Backbone, Trunks
  <2>2. row[m] \in [place : ShownPlace, online : BOOLEAN]
    BY DEF TypeInv, Rows
  <2>3. Online(Trunks, m) = FALSE
    BY <1>1 DEF Online
  <2> HIDE DEF known
  <2>4. CASE stays /\ written
    <3>1. row'[m] = [place |-> row[m].place, online |-> FALSE]
      BY <1>2, <2>1, <2>3, <2>4
    <3> QED
      BY <2>2, <2>4, <3>1, OfflineRow
  <2>5. CASE ~(stays /\ written)
    BY <1>2, <2>1, <2>5
  <2> QED
    BY <2>4, <2>5
<1> HIDE DEF links
<1> QED
  BY <1>3, <1>4, <1>5 DEF links, stays

\* From tables that are read, a client that fell silent is shown offline where its
\* row has it as long as its device is shown, whether the row can be written or
\* not; a map that could not read the rows leaves it out and leaves its row alone
\* (_collect_last_known_clients, sync of the rows).
THEOREM SilentClientsStay == Spec => SilentStay
<1>1. TypeInv /\ RowsShown =>
        [drawn' /\ Read =>
           \A m \in {k \in Clients : plugged[k] = None /\ row[k] # None /\ conf.client[k] = None} :
             \A up \in {Uplinks}, read, written \in BOOLEAN :
               DrawMap(up, read, written) =>
                 LET links == {l \in map'.links : l.dst = m}
                     stays == read /\ row[m].place[1] \notin conf.disabled
                 IN  /\ stays <=> links # {}
                     /\ \A l \in links : ~l.on /\ l.sp = row[m].place[2]
                     /\ row'[m] = IF stays /\ written THEN [row[m] EXCEPT !.online = FALSE]
                                  ELSE row[m]]_vars
  BY SilentStayStep DEF DrawMap
<1> QED
  BY <1>1, RowsAreShown, PTL DEF SilentStay

-----------------------------------------------------------------------------
(* Trees of cables.                                                         *)

NextTo(C, d) == {e \in Devices : {d, e} \in C}

\* The devices that are cabled to d, directly or not.
Component(C, d) ==
  {x \in Devices :
     \A S \in SUBSET Devices :
       d \in S /\ (\A y \in S, z \in Devices : {y, z} \in C => z \in S) => x \in S}

\* No loops.
IsForest(C) ==
  /\ \A c \in C : \E d, e \in Devices : d # e /\ c = {d, e}
  /\ \A d, e, f \in Devices :
       {d, e} \in C /\ {d, f} \in C /\ e # f => f \notin BeyondIn(C, d, e)

LEMMA OtherEnd ==
  ASSUME NEW C, IsForest(C), NEW d \in Devices, NEW e \in Devices, {d, e} \in C
  PROVE  d # e /\ {e, d} \in C /\ d \in NextTo(C, e) /\ e \in NextTo(C, d)
<1>1. {e, d} = {d, e}
  OBVIOUS
<1>2. PICK x, y \in Devices : x # y /\ {d, e} = {x, y}
  BY DEF IsForest
<1>3. d # e
  BY <1>2
<1> QED
  BY <1>1, <1>3 DEF NextTo

\* What is beyond a cable has its far end, is closed and is the least such set.
LEMMA BeyondFirst ==
  ASSUME NEW C, NEW d, NEW e \in Devices
  PROVE  e \in BeyondIn(C, d, e)
BY DEF BeyondIn

LEMMA BeyondClosed ==
  ASSUME NEW C, NEW d, NEW e, NEW y \in BeyondIn(C, d, e), NEW z \in Devices \ {d},
         {y, z} \in C
  PROVE  z \in BeyondIn(C, d, e)
BY DEF BeyondIn

LEMMA BeyondLeast ==
  ASSUME NEW C, NEW d, NEW e, NEW S \in SUBSET Devices, e \in S,
         \A y \in S, z \in Devices \ {d} : {y, z} \in C => z \in S
  PROVE  BeyondIn(C, d, e) \subseteq S
BY DEF BeyondIn

LEMMA BeyondAway ==
  ASSUME NEW C, NEW d \in Devices, NEW e \in Devices, d # e
  PROVE  d \notin BeyondIn(C, d, e) /\ BeyondIn(C, d, e) \subseteq Devices
<1>1. BeyondIn(C, d, e) \subseteq Devices \ {d}
  <2>1. Devices \ {d} \in SUBSET Devices /\ e \in Devices \ {d}
    OBVIOUS
  <2>2. \A y \in Devices \ {d}, z \in Devices \ {d} : {y, z} \in C => z \in Devices \ {d}
    OBVIOUS
  <2> QED
    BY <2>1, <2>2, BeyondLeast
<1> QED
  BY <1>1

\* A device is beyond one cable of another at most.
LEMMA BranchesApart ==
  ASSUME NEW C, IsForest(C), NEW d \in Devices, NEW e \in NextTo(C, d),
         NEW f \in NextTo(C, d), NEW x \in BeyondIn(C, d, e), x \in BeyondIn(C, d, f)
  PROVE  e = f
<1> SUFFICES ASSUME e # f PROVE FALSE
  OBVIOUS
<1> DEFINE S == BeyondIn(C, d, e) \ BeyondIn(C, d, f)
<1>1. e \in Devices /\ f \in Devices /\ {d, e} \in C /\ {d, f} \in C
  BY DEF NextTo
<1>2. d # e
  BY <1>1, OtherEnd
<1>3. BeyondIn(C, d, e) \subseteq Devices /\ d \notin BeyondIn(C, d, e)
  BY <1>1, <1>2, BeyondAway
<1>4. e \in S
  <2>1. e \notin BeyondIn(C, d, f)
    BY <1>1 DEF IsForest
  <2> QED
    BY <1>1, <2>1, BeyondFirst
<1>5. ASSUME NEW y \in S, NEW z \in Devices \ {d}, {y, z} \in C PROVE z \in S
  <2>1. z \in BeyondIn(C, d, e)
    BY <1>5, BeyondClosed
  <2>2. y \in Devices \ {d} /\ {z, y} \in C
    <3>1. {z, y} = {y, z}
      OBVIOUS
    <3> QED
      BY <1>3, <1>5, <3>1
  <2>3. z \notin BeyondIn(C, d, f)
    BY <2>2, BeyondClosed
  <2> QED
    BY <2>1, <2>3
<1>6. BeyondIn(C, d, e) \subseteq S
  <2>1. S \in SUBSET Devices
    BY <1>3
  <2> HIDE DEF S
  <2> QED
    BY <1>4, <1>5, <2>1, BeyondLeast
<1> QED
  BY <1>6

\* Beyond a cable there is its far end, and what is beyond the other cables of
\* that.
LEMMA BeyondOnward ==
  ASSUME NEW C, IsForest(C), NEW d \in Devices, NEW e \in NextTo(C, d),
         NEW x \in BeyondIn(C, d, e), x # e
  PROVE  \E f \in NextTo(C, e) \ {d} : x \in BeyondIn(C, e, f)
<1> DEFINE S == {y \in Devices : \/ y = e
                                 \/ \E f \in NextTo(C, e) \ {d} : y \in BeyondIn(C, e, f)}
<1>1. e \in S /\ S \in SUBSET Devices
  BY DEF NextTo
<1>2. ASSUME NEW y \in S, NEW z \in Devices \ {d}, {y, z} \in C PROVE z \in S
  <2>1. CASE z = e
    BY <2>1, <1>1
  <2>2. CASE z # e /\ y = e
    <3>1. z \in NextTo(C, e) \ {d}
      BY <1>2, <2>2 DEF NextTo
    <3> QED
      BY <3>1, BeyondFirst
  <2>3. CASE z # e /\ y # e
    <3>1. PICK f \in NextTo(C, e) \ {d} : y \in BeyondIn(C, e, f)
      BY <2>3
    <3>2. z \in BeyondIn(C, e, f)
      BY <1>2, <2>3, <3>1, BeyondClosed
    <3> QED
      BY <3>2
  <2> QED
    BY <2>1, <2>2, <2>3
<1>3. BeyondIn(C, d, e) \subseteq S
  <2> HIDE DEF S
  <2> QED
    BY <1>1, <1>2, BeyondLeast
<1> QED
  BY <1>3

LEMMA ComponentClosed ==
  ASSUME NEW C, NEW d \in Devices
  PROVE  /\ d \in Component(C, d) /\ Component(C, d) \subseteq Devices
         /\ \A y \in Component(C, d), z \in Devices : {y, z} \in C => z \in Component(C, d)
BY DEF Component

LEMMA ComponentLeast ==
  ASSUME NEW C, NEW d, NEW S \in SUBSET Devices, d \in S,
         \A y \in S, z \in Devices : {y, z} \in C => z \in S
  PROVE  Component(C, d) \subseteq S
BY DEF Component

LEMMA ComponentSymmetric ==
  ASSUME NEW C, NEW d \in Devices, NEW x \in Component(C, d)
  PROVE  d \in Component(C, x)
<1> SUFFICES ASSUME NEW S \in SUBSET Devices, x \in S, d \notin S,
                    \A y \in S, z \in Devices : {y, z} \in C => z \in S
             PROVE  FALSE
  BY DEF Component
<1>1. ASSUME NEW y \in Devices \ S, NEW z \in Devices, {y, z} \in C PROVE z \in Devices \ S
  <2>1. {z, y} = {y, z}
    OBVIOUS
  <2> QED
    BY <1>1, <2>1
<1>2. Component(C, d) \subseteq Devices \ S
  <2>1. Devices \ S \in SUBSET Devices /\ d \in Devices \ S
    OBVIOUS
  <2> QED
    BY <1>1, <2>1, ComponentLeast
<1> QED
  BY <1>2

LEMMA ComponentTransitive ==
  ASSUME NEW C, NEW d \in Devices, NEW e \in Devices, NEW x \in Component(C, d),
         x \in Component(C, e)
  PROVE  e \in Component(C, d)
<1>1. e \in Component(C, x) /\ x \in Devices
  BY ComponentSymmetric DEF Component
<1>2. Component(C, x) \subseteq Component(C, d)
  BY <1>1, ComponentClosed, ComponentLeast
<1> QED
  BY <1>1, <1>2

\* What is cabled to a device is the device and what is beyond its cables.
LEMMA ComponentBeyond ==
  ASSUME NEW C, IsForest(C), NEW d \in Devices, NEW x
  PROVE  x \in Component(C, d) /\ x # d <=> \E e \in NextTo(C, d) : x \in BeyondIn(C, d, e)
<1>1. ASSUME NEW e \in NextTo(C, d), x \in BeyondIn(C, d, e)
      PROVE  x \in Component(C, d) /\ x # d
  <2>1. e \in Devices /\ {d, e} \in C
    BY DEF NextTo
  <2>2. e \in Component(C, d)
    BY <2>1, ComponentClosed
  <2>3. BeyondIn(C, d, e) \subseteq Component(C, d)
    BY <2>2, ComponentClosed, BeyondLeast
  <2>4. d # e
    BY <2>1, OtherEnd
  <2>5. d \notin BeyondIn(C, d, e)
    BY <2>1, <2>4, BeyondAway
  <2> QED
    BY <1>1, <2>3, <2>5
<1>2. ASSUME x \in Component(C, d), x # d
      PROVE  \E e \in NextTo(C, d) : x \in BeyondIn(C, d, e)
  <2> DEFINE S == {y \in Devices : y = d \/ \E e \in NextTo(C, d) : y \in BeyondIn(C, d, e)}
  <2>1. S \in SUBSET Devices /\ d \in S
    OBVIOUS
  <2>2. ASSUME NEW y \in S, NEW z \in Devices, {y, z} \in C PROVE z \in S
    <3>1. CASE z = d
      BY <3>1
    <3>2. CASE z # d /\ y = d
      <4>1. z \in NextTo(C, d)
        BY <2>2, <3>2 DEF NextTo
      <4> QED
        BY <4>1, BeyondFirst
    <3>3. CASE z # d /\ y # d
      <4>1. PICK e \in NextTo(C, d) : y \in BeyondIn(C, d, e)
        BY <3>3
      <4>2. z \in BeyondIn(C, d, e)
        BY <2>2, <3>3, <4>1, BeyondClosed
      <4> QED
        BY <4>2
    <3> QED
      BY <3>1, <3>2, <3>3
  <2>3. Component(C, d) \subseteq S
    <3> HIDE DEF S
    <3> QED
      BY <2>1, <2>2, ComponentLeast
  <2> QED
    BY <1>2, <2>3
<1> QED
  BY <1>1, <1>2

\* Seen from beyond a cable, its two ends are on the same side.
LEMMA EndsTogether ==
  ASSUME NEW C, IsForest(C), NEW d \in Devices, NEW e \in NextTo(C, d),
         NEW x \in BeyondIn(C, d, e), x # e
  PROVE  \E g \in NextTo(C, x) : d \in BeyondIn(C, x, g) /\ e \in BeyondIn(C, x, g)
<1>1. x \in Component(C, d) /\ x # d /\ e \in Devices /\ {d, e} \in C /\ x \in Devices
  <2>1. x \in Component(C, d) /\ x # d
    BY ComponentBeyond
  <2> QED
    BY <2>1 DEF NextTo, BeyondIn
<1>2. d \in Component(C, x)
  BY <1>1, ComponentSymmetric
<1>3. PICK g \in NextTo(C, x) : d \in BeyondIn(C, x, g)
  BY <1>1, <1>2, ComponentBeyond
<1>4. e \in BeyondIn(C, x, g)
  BY <1>1, <1>3, BeyondClosed
<1> QED
  BY <1>3, <1>4

-----------------------------------------------------------------------------
(* What does not change, and what the tables tell.                          *)

\* The configuration is that of the network but for the devices that are hidden;
\* the neighbours that were announced are those of the cables.
SceneInv ==
  /\ /\ conf.proxmox = scene.conf.proxmox /\ conf.role = scene.conf.role
     /\ conf.gateway = scene.conf.gateway /\ conf.addressed = scene.conf.addressed
     /\ conf.ignored = scene.conf.ignored /\ conf.announces = scene.conf.announces
     /\ conf.uplink = scene.conf.uplink /\ conf.apAt = scene.conf.apAt
     /\ conf.phoneAt = scene.conf.phoneAt /\ conf.likeGuest = scene.conf.likeGuest
  /\ conf.disabled \subseteq scene.conf.disabled \cup scene.switched
  /\ neighbors = [d \in Devices |-> IF d \in conf.announces THEN Heard(d) ELSE {}]

LEMMA SceneStays == Spec => [](TypeInv /\ SceneInv)
<1>1. Init => SceneInv
  BY DEF Init, SceneInv
<1>2. TypeInv /\ SceneInv /\ [Next]_vars => SceneInv'
  <2> SUFFICES ASSUME TypeInv, SceneInv, [Next]_vars
               PROVE  SceneInv'
    OBVIOUS
  <2>1. CASE Recable
    <3>1. UNCHANGED <<conf, scene, neighbors>> /\ cables' \in scene.cables /\ cables' # cables
      BY <2>1 DEF Recable, topologyVars
    <3>2. scene.conf.announces = {}
      BY <3>1, CablesAssumption DEF TypeInv, CabledAsTree
    <3>3. neighbors' = [d \in Devices |-> {}] /\ conf'.announces = {}
      BY <3>1, <3>2 DEF SceneInv
    <3> QED
      BY <3>1, <3>3 DEF SceneInv
  <2>2. ASSUME NEW d \in Devices, Switch(d) PROVE SceneInv'
    <3>1. UNCHANGED <<neighbors, scene, cables>> /\ d \in scene.switched
          /\ conf' = [conf EXCEPT !.disabled = (conf.disabled \ {d}) \cup ({d} \ conf.disabled)]
      BY <2>2 DEF Switch
    <3>2. /\ conf'.proxmox = conf.proxmox /\ conf'.role = conf.role
          /\ conf'.gateway = conf.gateway /\ conf'.addressed = conf.addressed
          /\ conf'.ignored = conf.ignored /\ conf'.announces = conf.announces
          /\ conf'.uplink = conf.uplink /\ conf'.apAt = conf.apAt
          /\ conf'.phoneAt = conf.phoneAt /\ conf'.likeGuest = conf.likeGuest
          /\ conf'.disabled = (conf.disabled \ {d}) \cup ({d} \ conf.disabled)
      BY <3>1 DEF TypeInv, Conf
    <3> QED
      BY <3>1, <3>2 DEF SceneInv, Heard
  <2>3. CASE UNCHANGED <<conf, scene, cables, neighbors>>
    BY <2>3 DEF SceneInv, Heard
  <2> QED
    BY <2>1, <2>2, <2>3 DEF Next, Replug, ReadTable, DrawMap, Draw, vars, topologyVars
<1> QED
  BY <1>1, <1>2, MapTypes, PTL DEF Spec

\* The tables are read, and no device in between is hidden.
HiddenAreLeaves == \A d \in conf.disabled : Cardinality({c \in cables : d \in c}) < 2

Known    == TypeInv /\ SceneInv /\ Read
Complete == Known /\ HiddenAreLeaves

LEMMA Forest ==
  ASSUME TypeInv
  PROVE  /\ IsForest(cables)
         /\ \A d \in Devices : \A e, f \in NextTo(cables, d) :
              Toward[<<d, e>>] = Toward[<<d, f>>] => e = f
         /\ \A d, e \in Devices : Toward[<<d, e>>] \in Ports
<1>1. scene \in Scenes /\ cables \in scene.cables
  BY DEF TypeInv
<1>2. \A c \in cables : \E d, e \in Devices : d # e /\ c = {d, e}
  BY <1>1, ScenesAssumption
<1>3. \A d, e, f \in Devices :
        {d, e} \in cables /\ {d, f} \in cables /\ e # f =>
          f \notin BeyondIn(cables, d, e) /\ Toward[<<d, e>>] # Toward[<<d, f>>]
  BY <1>1, CablesAssumption DEF CabledAsTree
<1>4. \A d, e \in Devices : Toward[<<d, e>>] \in Ports
  BY ScenesAssumption
<1> QED
  BY <1>2, <1>3, <1>4 DEF IsForest, NextTo

\* A device with a cable is no virtualisation host.
LEMMA CabledIsSwitch ==
  ASSUME TypeInv, SceneInv, NEW d \in Devices, NEW e \in NextTo(cables, d)
  PROVE  Role(d) # "virtualisation_host" /\ ~IsHub(d)
<1>1. d \in UNION UNION scene.cables
  <2>1. {d, e} \in cables /\ cables \in scene.cables
    BY DEF TypeInv, NextTo
  <2>2. {d, e} \in UNION scene.cables /\ d \in {d, e}
    BY <2>1
  <2> QED
    BY <2>2
<1>2. d \notin conf.proxmox /\ conf.role[d] # "virtualisation_host"
  BY <1>1, CablesAssumption DEF TypeInv, SceneInv, CabledAsTree
<1> QED
  BY <1>2 DEF Role, IsHub

\* One device routes: the root.
LEMMA RouterIsRoot ==
  ASSUME TypeInv, SceneInv, NEW d \in Managed, IsRouter(d)
  PROVE  d = Root
<1>1. SUFFICES ASSUME Role(d) = "router" PROVE d = Root
  BY DEF IsRouter
<1> DEFINE gateways == {x \in Managed : Role(x) = "router" \/ x \in conf.gateway}
<1>2. d \in gateways
  BY <1>1
<1>3. ASSUME NEW x \in gateways
      PROVE  x \in conf.gateway \cup {y \in Devices : conf.role[y] = "router"}
  <2>1. x \in Devices
    BY DEF Managed
  <2>2. Role(x) = "router" => conf.role[x] = "router" \/ x \in conf.gateway
    BY DEF Role
  <2> QED
    BY <2>1, <2>2
<1>4. \A x, y \in conf.gateway \cup {z \in Devices : conf.role[z] = "router"} : x = y
  BY CablesAssumption DEF TypeInv, SceneInv, Addressed
<1>5. gateways = {d}
  BY <1>2, <1>3, <1>4
<1>6. gateways \subseteq Nat
  BY ThingsAssumption DEF Managed
<1>7. Root = Least(gateways)
  BY <1>2 DEF Root
<1>8. Least(gateways) \in gateways
  BY <1>2, <1>6, LeastIsFirst
<1> QED
  BY <1>5, <1>7, <1>8

\* A device learns the address of another on its port with the cable that leads
\* there.
LEMMA LearnedDevices ==
  ASSUME TypeInv, SceneInv, Read, NEW d \in Devices, NEW t \in Devices, NEW p \in Ports
  PROVE  t \in OnPort(d, p) <=>
           \E e \in NextTo(cables, d) : t \in BeyondIn(cables, d, e) /\ Toward[<<d, e>>] = p
<1>1. OnPort(d, p) = Learned(d)[p]
  BY CablesAssumption DEF OnPort, Read, TypeInv, SceneInv, Addressed
<1>2. t \notin Stations
  BY ThingsAssumption DEF Stations
<1>3. ASSUME NEW e PROVE t \notin PluggedInto(Beyond(d, e))
  BY <1>2 DEF PluggedInto
<1>4. Learned(d)[p] =
        {m \in Stations : plugged[m] = <<d, p>>} \cup
        UNION {Beyond(d, e) \cup PluggedInto(Beyond(d, e)) :
                 e \in {x \in Devices : {d, x} \in cables /\ Toward[<<d, x>>] = p}}
  BY DEF Learned
<1> DEFINE E == {x \in Devices : {d, x} \in cables /\ Toward[<<d, x>>] = p}
<1>5. t \in Learned(d)[p] <=> \E e \in E : t \in Beyond(d, e)
  <2>1. t \notin {m \in Stations : plugged[m] = <<d, p>>}
    BY <1>2
  <2>2. t \in Learned(d)[p] <=>
          \E e \in E : t \in Beyond(d, e) \cup PluggedInto(Beyond(d, e))
    <3> HIDE DEF E
    <3>1. t \in UNION {Beyond(d, e) \cup PluggedInto(Beyond(d, e)) : e \in E}
                 <=> \E e \in E : t \in Beyond(d, e) \cup PluggedInto(Beyond(d, e))
      OBVIOUS
    <3> QED
      BY <1>4, <2>1, <3>1 DEF E
  <2> HIDE DEF E
  <2> QED
    BY <1>3, <2>2
<1> QED
  BY <1>1, <1>5 DEF Beyond, NextTo

\* What a device learns on a port belongs to its own component.
LEMMA LearnedNearby ==
  ASSUME TypeInv, SceneInv, Read, NEW d \in Devices, NEW p \in Ports, NEW m \in OnPort(d, p)
  PROVE  \/ m \in Component(cables, d)
         \/ m \in Stations /\ plugged[m] # None /\ plugged[m][1] \in Component(cables, d)
<1>1. m \in Learned(d)[p]
  BY DEF OnPort, Read
<1>2. \/ m \in Stations /\ plugged[m] = <<d, p>>
      \/ \E e \in NextTo(cables, d) : m \in Beyond(d, e) \cup PluggedInto(Beyond(d, e))
  BY <1>1 DEF Learned, NextTo
<1>3. CASE m \in Stations /\ plugged[m] = <<d, p>>
  <2>1. plugged[m] # None
    BY <1>3, NoPlaceIsNone DEF Place
  <2> QED
    BY <1>3, <2>1, ComponentClosed
<1>4. ASSUME NEW e \in NextTo(cables, d), m \in Beyond(d, e) \cup PluggedInto(Beyond(d, e))
      PROVE  \/ m \in Component(cables, d)
             \/ m \in Stations /\ plugged[m] # None /\ plugged[m][1] \in Component(cables, d)
  <2>1. Beyond(d, e) \subseteq Component(cables, d)
    BY Forest, ComponentBeyond DEF Beyond
  <2> QED
    BY <1>4, <2>1 DEF PluggedInto
<1> QED
  BY <1>2, <1>3, <1>4

\* switch_sees_switch, for devices that are cabled to each other somehow, and
\* for those that are not.
LEMMA SeesToward ==
  ASSUME TypeInv, SceneInv, Read, NEW s \in Managed, NEW t \in Managed,
         NEW e \in NextTo(cables, s), t \in BeyondIn(cables, s, e)
  PROVE  Sees[s][t] = Toward[<<s, e>>] /\ Sees[s][t] \in Ports /\ Sees[s][t] # Unnamed
<1>1. s \in Devices /\ t \in Devices /\ e \in Devices
  BY DEF Managed, NextTo
<1>2. Toward[<<s, e>>] \in Ports /\ Ports \subseteq Nat \ {0} /\ IsForest(cables)
  BY <1>1, Forest, ThingsAssumption
<1>3. SeesByAddress(s, t) = {Toward[<<s, e>>]}
  <2>1. t \in conf.addressed
    BY <1>1, CablesAssumption DEF TypeInv, SceneInv, Addressed
  <2>2. t \in OnPort(s, Toward[<<s, e>>])
    BY <1>1, <1>2, LearnedDevices
  <2>3. ASSUME NEW p \in Ports, t \in OnPort(s, p) PROVE p = Toward[<<s, e>>]
    <3>1. PICK f \in NextTo(cables, s) : t \in BeyondIn(cables, s, f) /\ Toward[<<s, f>>] = p
      BY <1>1, <2>3, LearnedDevices
    <3>2. e = f
      BY <1>1, <1>2, <3>1, BranchesApart
    <3> QED
      BY <3>1, <3>2
  <2> QED
    BY <1>2, <2>1, <2>2, <2>3 DEF SeesByAddress
<1>4. Least({Toward[<<s, e>>]}) = Toward[<<s, e>>]
  <2>1. {Toward[<<s, e>>]} \subseteq Nat /\ {Toward[<<s, e>>]} # {}
    BY <1>2
  <2> QED
    BY <2>1, LeastIsFirst
<1>5. SeesOn(s, t) = Toward[<<s, e>>]
  BY <1>3, <1>4 DEF SeesOn
<1> QED
  BY <1>1, <1>2, <1>5 DEF Sees, Unnamed

LEMMA SeesNothing ==
  ASSUME TypeInv, SceneInv, Read, NEW s \in Managed, NEW t \in Managed, s # t,
         \A e \in NextTo(cables, s) : t \notin BeyondIn(cables, s, e)
  PROVE  Sees[s][t] = Unnamed
<1>1. s \in Devices /\ t \in Devices /\ IsForest(cables)
  BY Forest DEF Managed
<1>2. t \notin Component(cables, s)
  BY <1>1, ComponentBeyond
<1>3. SeesByAddress(s, t) = {}
  BY <1>1, LearnedDevices DEF SeesByAddress
<1>4. ASSUME NEW p \in Ports, NEW q \in Ports, NEW m \in OnPort(t, p), m \in OnPort(s, q)
      PROVE  FALSE
  <2>1. \/ m \in Component(cables, t)
        \/ m \in Stations /\ plugged[m] # None /\ plugged[m][1] \in Component(cables, t)
    BY <1>1, LearnedNearby
  <2>2. \/ m \in Component(cables, s)
        \/ m \in Stations /\ plugged[m] # None /\ plugged[m][1] \in Component(cables, s)
    BY <1>1, <1>4, LearnedNearby
  <2>3. m \in Devices => m \notin Stations
    BY ThingsAssumption DEF Stations
  <2>4. Component(cables, s) \subseteq Devices /\ Component(cables, t) \subseteq Devices
    BY <1>1, ComponentClosed
  <2>5. \A x : x \in Component(cables, s) => x \notin Component(cables, t)
    BY <1>1, <1>2, ComponentTransitive
  <2> QED
    BY <2>1, <2>2, <2>3, <2>4, <2>5
<1>5. SharedPairs(s, t) = {}
  BY <1>4 DEF SharedPairs
<1>6. SeesOn(s, t) = Unnamed
  BY <1>3, <1>5 DEF SeesOn
<1> QED
  BY <1>1, <1>6 DEF Sees

-----------------------------------------------------------------------------
(* Transit elimination.                                                     *)

\* A device with two neighbours has two cables.
LEMMA TwoCables ==
  ASSUME TypeInv, NEW d \in Devices, NEW e \in NextTo(cables, d), NEW f \in NextTo(cables, d),
         e # f
  PROVE  ~(Cardinality({c \in cables : d \in c}) < 2)
<1> DEFINE S == {c \in cables : d \in c}
<1>1. IsFiniteSet(S)
  <2>1. IsFiniteSet(Devices)
    <3>1. Devices \subseteq Macs
      BY DEF Macs
    <3> QED
      BY <3>1, ThingsAssumption, FS_Subset
  <2>2. IsFiniteSet(SUBSET Devices)
    BY <2>1, FS_SUBSET
  <2>3. S \subseteq SUBSET Devices
    BY Forest DEF IsForest
  <2> QED
    BY <2>2, <2>3, FS_Subset
<1>2. {d, e} \in S /\ {d, f} \in S
  BY DEF NextTo
<1>3. {d, e} # {d, f}
  <2>1. d # e /\ d # f
    BY Forest, OtherEnd DEF NextTo
  <2> QED
    BY <2>1
<1>4. Cardinality({{d, e}}) = 1 /\ IsFiniteSet({{d, e}})
  BY FS_Singleton
<1>5. Cardinality({{d, e}} \cup {{d, f}}) = 2
  <2>1. {d, f} \notin {{d, e}}
    BY <1>3
  <2>2. Cardinality({{d, e}} \cup {{d, f}}) = 1 + 1
    BY <1>4, <2>1, FS_AddElement
  <2> QED
    BY <2>2
<1>6. {{d, e}} \cup {{d, f}} \subseteq S
  BY <1>2
<1>7. 2 <= Cardinality(S)
  <2> HIDE DEF S
  <2> QED
    BY <1>1, <1>5, <1>6, FS_Subset
<1>8. Cardinality(S) \in Nat
  BY <1>1, FS_CardinalityType
<1> HIDE DEF S
<1>9. ~(Cardinality(S) < 2)
  BY <1>7, <1>8
<1> QED
  BY <1>9 DEF S

LEMMA BehindSwitch ==
  ASSUME Known, NEW s \in Managed, NEW p \in Ports, NEW t
  PROVE  t \in Behind(Sees, s, p) <=>
           /\ t \in Managed
           /\ \E e \in NextTo(cables, s) : t \in BeyondIn(cables, s, e) /\ Toward[<<s, e>>] = p
<1>0. /\ Managed \subseteq Devices /\ SwitchMacs \subseteq Managed /\ IsForest(cables)
      /\ p # Unnamed
  BY Forest, ThingsAssumption DEF Managed, SwitchMacs, Known, Unnamed
<1>1. ASSUME t \in Behind(Sees, s, p)
      PROVE  /\ t \in Managed
             /\ \E e \in NextTo(cables, s) : t \in BeyondIn(cables, s, e) /\ Toward[<<s, e>>] = p
  <2>1. CASE t \in (SwitchMacs \cap OnPort(s, p)) \ {s}
    BY <1>0, <2>1, LearnedDevices DEF Known
  <2>2. CASE t \in Managed \ {s} /\ Sees[s][t] = p
    <3>1. PICK e \in NextTo(cables, s) : t \in BeyondIn(cables, s, e)
      BY <1>0, <2>2, SeesNothing DEF Known
    <3> QED
      BY <2>2, <3>1, SeesToward DEF Known
  <2> QED
    BY <1>1, <2>1, <2>2 DEF Behind
<1>2. ASSUME t \in Managed, NEW e \in NextTo(cables, s), t \in BeyondIn(cables, s, e),
             Toward[<<s, e>>] = p
      PROVE  t \in Behind(Sees, s, p)
  <2>1. t \in OnPort(s, p)
    BY <1>0, <1>2, LearnedDevices DEF Known
  <2>2. t # s
    BY <1>0, <1>2, ComponentBeyond
  <2>3. \E g : g \in NextTo(cables, t)
    <3>1. CASE t = e
      BY <1>0, <3>1, OtherEnd DEF NextTo
    <3>2. CASE t # e
      BY <1>0, <1>2, <3>2, EndsTogether
    <3> QED
      BY <3>1, <3>2
  <2>4. Role(t) # "virtualisation_host"
    BY <1>0, <1>2, <2>3, CabledIsSwitch DEF Known
  <2>5. t \in SwitchMacs
    BY <1>0, <1>2, <2>4, CablesAssumption
    DEF SwitchMacs, Known, TypeInv, SceneInv, Addressed
  <2> QED
    BY <2>1, <2>2, <2>5 DEF Behind
<1> QED
  BY <1>1, <1>2

\* A switch finds next to a port the managed device that is cabled there, and
\* none of those behind it.
LEMMA DirectIsCabled ==
  ASSUME Complete, NEW s \in Managed, NEW p \in Ports, NEW t
  PROVE  t \in DirectNeighbors(Sees, s, p) <=>
           t \in Managed /\ t \in NextTo(cables, s) /\ Toward[<<s, t>>] = p
<1>0. /\ Managed \subseteq Devices /\ IsForest(cables) /\ s \in Devices
      /\ NextTo(cables, s) \subseteq Devices
      /\ \A e, f \in NextTo(cables, s) : Toward[<<s, e>>] = Toward[<<s, f>>] => e = f
      /\ Managed = {d \in Devices : d \notin conf.disabled}
  BY Forest DEF Managed, Complete, Known, NextTo
<1>1. ASSUME t \in DirectNeighbors(Sees, s, p)
      PROVE  t \in Managed /\ t \in NextTo(cables, s) /\ Toward[<<s, t>>] = p
  <2>1. t \in Behind(Sees, s, p) /\ \A u \in Behind(Sees, s, p) \ {t} : ~Transit(Sees, s, t, u)
    BY <1>1 DEF DirectNeighbors
  <2>2. t \in Managed
    BY <2>1, BehindSwitch DEF Complete
  <2>3. PICK e \in NextTo(cables, s) : t \in BeyondIn(cables, s, e) /\ Toward[<<s, e>>] = p
    BY <2>1, BehindSwitch DEF Complete
  <2>4. SUFFICES ASSUME t # e PROVE FALSE
    BY <2>2, <2>3
  <2>5. PICK f \in NextTo(cables, e) \ {s} : t \in BeyondIn(cables, e, f)
    BY <1>0, <2>3, <2>4, BeyondOnward
  <2>6. e \in Devices /\ s \in NextTo(cables, e)
    BY <1>0, <2>3, OtherEnd DEF NextTo
  <2>7. ~(Cardinality({c \in cables : e \in c}) < 2)
    BY <2>5, <2>6, TwoCables DEF Complete, Known
  <2>8. e \in Managed
    BY <1>0, <2>6, <2>7 DEF Complete, Known, HiddenAreLeaves
  <2>9. e \in Behind(Sees, s, p)
    BY <1>0, <2>3, <2>8, BeyondFirst, BehindSwitch DEF Complete
  <2>10. Sees[e][t] = Toward[<<e, f>>] /\ Sees[e][t] # Unnamed
    BY <2>2, <2>5, <2>8, SeesToward DEF Complete, Known
  <2>11. Sees[e][s] = Toward[<<e, s>>] /\ Sees[e][s] # Unnamed
    BY <1>0, <2>6, <2>8, BeyondFirst, SeesToward DEF Complete, Known
  <2>12. Toward[<<e, f>>] # Toward[<<e, s>>]
    BY <2>5, <2>6, Forest DEF Complete, Known
  <2>13. Transit(Sees, s, t, e)
    BY <2>10, <2>11, <2>12 DEF Transit
  <2> QED
    BY <2>1, <2>4, <2>9, <2>13
<1>2. ASSUME t \in Managed, t \in NextTo(cables, s), Toward[<<s, t>>] = p
      PROVE  t \in DirectNeighbors(Sees, s, p)
  <2>1. t \in Behind(Sees, s, p)
    BY <1>0, <1>2, BeyondFirst, BehindSwitch DEF Complete
  <2>2. Sees[t][s] # Unnamed
    <3>1. s \in NextTo(cables, t) /\ s \in BeyondIn(cables, t, s)
      BY <1>0, <1>2, OtherEnd, BeyondFirst DEF NextTo
    <3> QED
      BY <1>2, <3>1, SeesToward DEF Complete, Known
  <2>3. ASSUME NEW u \in Behind(Sees, s, p) \ {t} PROVE ~Transit(Sees, s, t, u)
    <3>1. u \in Managed /\ u \in BeyondIn(cables, s, t)
      <4>1. u \in Managed
        BY BehindSwitch DEF Complete
      <4>2. PICK e \in NextTo(cables, s) : u \in BeyondIn(cables, s, e) /\ Toward[<<s, e>>] = p
        BY BehindSwitch DEF Complete
      <4>3. e = t
        BY <1>0, <1>2, <4>2
      <4> QED
        BY <4>1, <4>2, <4>3
    <3>2. PICK g \in NextTo(cables, u) : s \in BeyondIn(cables, u, g) /\ t \in BeyondIn(cables, u, g)
      BY <1>0, <1>2, <3>1, EndsTogether
    <3>3. Sees[u][s] = Toward[<<u, g>>] /\ Sees[u][t] = Toward[<<u, g>>]
      BY <1>2, <3>1, <3>2, SeesToward DEF Complete, Known
    <3>4. IsRouter(t) => t = Root
      BY <1>2, RouterIsRoot DEF Complete, Known
    <3> QED
      BY <3>3, <3>4 DEF Transit
  <2> QED
    BY <2>1, <2>2, <2>3 DEF DirectNeighbors
<1> QED
  BY <1>1, <1>2

-----------------------------------------------------------------------------
(* The links between devices.                                               *)

\* port_candidates: every switch finds its managed neighbours, each on its port.
LEMMA CandidatesAreCabled ==
  ASSUME Complete, NEW x
  PROVE  x \in Candidates(Sees) <=>
           \E s \in Sources : \E t \in NextTo(cables, s) \cap Managed :
             x = <<s, Toward[<<s, t>>], t>>
<1>1. Sources \subseteq Managed /\ Managed \subseteq Devices
  BY DEF Sources, Managed
<1>2. x \in Candidates(Sees) <=>
        \E y \in Sources \X Ports : \E t \in DirectNeighbors(Sees, y[1], y[2]) :
          x = <<y[1], y[2], t>>
  <2>1. x \in Candidates(Sees) <=>
          \E y \in Sources \X Ports :
            x \in {<<y[1], y[2], t>> : t \in DirectNeighbors(Sees, y[1], y[2])}
    BY DEF Candidates
  <2> QED
    BY <2>1
<1>3. ASSUME NEW y \in Sources \X Ports, NEW t \in DirectNeighbors(Sees, y[1], y[2]),
             x = <<y[1], y[2], t>>
      PROVE  \E s \in Sources : \E k \in NextTo(cables, s) \cap Managed :
               x = <<s, Toward[<<s, k>>], k>>
  <2>1. y[1] \in Sources /\ y[1] \in Managed /\ y[2] \in Ports
    BY <1>1
  <2>2. t \in Managed /\ t \in NextTo(cables, y[1]) /\ Toward[<<y[1], t>>] = y[2]
    BY <2>1, DirectIsCabled
  <2> QED
    BY <1>3, <2>1, <2>2
<1>4. ASSUME NEW s \in Sources, NEW t \in NextTo(cables, s) \cap Managed,
             x = <<s, Toward[<<s, t>>], t>>
      PROVE  \E y \in Sources \X Ports : \E k \in DirectNeighbors(Sees, y[1], y[2]) :
               x = <<y[1], y[2], k>>
  <2>1. s \in Managed /\ Toward[<<s, t>>] \in Ports
    BY <1>1, Forest DEF Complete, Known
  <2>2. t \in DirectNeighbors(Sees, s, Toward[<<s, t>>])
    BY <2>1, DirectIsCabled
  <2>3. <<s, Toward[<<s, t>>]>> \in Sources \X Ports
    BY <2>1
  <2> QED
    BY <1>4, <2>2, <2>3
<1> QED
  BY <1>2, <1>3, <1>4

LEMMA PicksAreCabled ==
  ASSUME Complete, NEW s, NEW t
  PROVE  Picks(Candidates(Sees), s, t) =
           IF s \in Sources /\ t \in NextTo(cables, s) \cap Managed
           THEN {Toward[<<s, t>>]} ELSE {}
<1>1. ASSUME NEW x \in Candidates(Sees), x[1] = s, x[3] = t
      PROVE  /\ s \in Sources /\ t \in NextTo(cables, s) \cap Managed
             /\ x[2] = Toward[<<s, t>>]
  <2>1. PICK a \in Sources : \E b \in NextTo(cables, a) \cap Managed :
               x = <<a, Toward[<<a, b>>], b>>
    BY CandidatesAreCabled
  <2> QED
    BY <1>1, <2>1
<1>2. ASSUME s \in Sources, t \in NextTo(cables, s) \cap Managed
      PROVE  \E x \in Candidates(Sees) : x[1] = s /\ x[3] = t /\ x[2] = Toward[<<s, t>>]
  <2>1. <<s, Toward[<<s, t>>], t>> \in Candidates(Sees)
    BY <1>2, CandidatesAreCabled
  <2> QED
    BY <2>1
<1> QED
  BY <1>1, <1>2 DEF Picks

\* A neighbour is announced by a device that announces, on its port.
LEMMA AnnouncedIsCabled ==
  ASSUME Known, NEW a \in Devices, NEW b \in Devices
  PROVE  Announced(a, b) =
           IF a \in conf.announces /\ b \in NextTo(cables, a) /\ {a, b} \subseteq Managed
           THEN {Toward[<<a, b>>]} ELSE {}
<1>1. neighbors[a] = IF a \in conf.announces THEN Heard(a) ELSE {}
  BY DEF Known, SceneInv
<1>2. ASSUME NEW p
      PROVE  <<p, b>> \in Heard(a) <=> b \in NextTo(cables, a) /\ p = Toward[<<a, b>>]
  BY DEF Heard, NextTo
<1>3. Toward[<<a, b>>] \in Ports
  BY Forest DEF Known
<1>4. b \in NextTo(cables, a) => a # b /\ Role(b) # "virtualisation_host"
  <2>1. ASSUME b \in NextTo(cables, a) PROVE a # b /\ a \in NextTo(cables, b)
    BY <2>1, Forest, OtherEnd DEF Known, NextTo
  <2> QED
    BY <2>1, CabledIsSwitch DEF Known
<1>5. b \in conf.addressed
  BY CablesAssumption DEF Known, TypeInv, SceneInv, Addressed
<1>6. b \in NextTo(cables, a) => (b \in SwitchMacs <=> b \in Managed)
  BY <1>4, <1>5 DEF SwitchMacs
<1>7. SwitchMacs \subseteq Managed
  BY DEF SwitchMacs
<1> QED
  BY <1>1, <1>2, <1>3, <1>4, <1>6, <1>7 DEF Announced

LEMMA OnlyPort ==
  ASSUME NEW p \in Ports
  PROVE  Least({p}) = p
<1>1. {p} \subseteq Nat /\ {p} # {}
  BY ThingsAssumption
<1> QED
  BY <1>1, LeastIsFirst

\* A link that was announced is a cable, with its port.
LEMMA AnnouncedFound ==
  ASSUME Known, NEW k \in AnnouncedLinks
  PROVE  /\ k.src \in Managed /\ k.dst \in Managed /\ k.dst \in NextTo(cables, k.src)
         /\ k.sp = Toward[<<k.src, k.dst>>]
<1>1. PICK x \in Devices \X Devices :
        /\ Announced(x[1], x[2]) # {}
        /\ k = [src |-> x[1], sp |-> Least(Announced(x[1], x[2])), dst |-> x[2]]
  BY DEF AnnouncedLinks
<1>2. k.src = x[1] /\ k.dst = x[2] /\ k.sp = Least(Announced(x[1], x[2]))
      /\ x[1] \in Devices /\ x[2] \in Devices
  BY <1>1
<1>3. /\ x[2] \in NextTo(cables, x[1]) /\ {x[1], x[2]} \subseteq Managed
      /\ Announced(x[1], x[2]) = {Toward[<<x[1], x[2]>>]}
  BY <1>1, <1>2, AnnouncedIsCabled
<1>4. Toward[<<x[1], x[2]>>] \in Ports
  BY <1>2, Forest DEF Known
<1> QED
  BY <1>2, <1>3, <1>4, OnlyPort

\* The far end of a cable is seen on it.
LEMMA SeesCabled ==
  ASSUME Known, NEW a \in Managed, NEW b \in Managed, b \in NextTo(cables, a)
  PROVE  Sees[b][a] = Toward[<<b, a>>] /\ a \in NextTo(cables, b)
<1>1. a \in Devices /\ b \in Devices /\ {a, b} \in cables
  BY DEF Managed, NextTo
<1>2. a \in NextTo(cables, b) /\ a \in BeyondIn(cables, b, a)
  BY <1>1, Forest, OtherEnd, BeyondFirst DEF Known
<1> QED
  BY <1>2, SeesToward DEF Known

\* A link that was announced or deduced is a cable, with its ports.
LEMMA FoundIsCabled ==
  ASSUME Complete, NEW k \in AnnouncedLinks \cup DeducedLinks(Sees)
  PROVE  /\ k.src \in Managed /\ k.dst \in Managed /\ k.dst \in NextTo(cables, k.src)
         /\ k.sp = Toward[<<k.src, k.dst>>]
         /\ Sees[k.dst][k.src] = Toward[<<k.dst, k.src>>]
<1>1. /\ k.src \in Managed /\ k.dst \in Managed /\ k.dst \in NextTo(cables, k.src)
      /\ k.sp = Toward[<<k.src, k.dst>>]
  <2>1. CASE k \in AnnouncedLinks
    BY <2>1, AnnouncedFound DEF Complete
  <2>2. CASE k \in DeducedLinks(Sees)
    <3>1. PICK x \in Candidates(Sees) :
            k = [src |-> x[1], sp |-> Least(Picks(Candidates(Sees), x[1], x[3])), dst |-> x[3]]
      BY <2>2, Zenon DEF DeducedLinks
    <3>2. k.src = x[1] /\ k.dst = x[3] /\ k.sp = Least(Picks(Candidates(Sees), x[1], x[3]))
      BY <3>1
    <3>3. x[1] \in Sources /\ x[3] \in NextTo(cables, x[1]) \cap Managed
      <4>1. PICK a \in Sources : \E b \in NextTo(cables, a) \cap Managed :
                   x = <<a, Toward[<<a, b>>], b>>
        BY CandidatesAreCabled
      <4> QED
        BY <4>1
    <3>4. Picks(Candidates(Sees), x[1], x[3]) = {Toward[<<x[1], x[3]>>]}
      BY <3>3, PicksAreCabled
    <3>5. x[1] \in Managed /\ x[1] \in Devices /\ x[3] \in Devices
      BY <3>3 DEF Sources, Managed
    <3>6. Toward[<<x[1], x[3]>>] \in Ports
      BY <3>5, Forest DEF Complete, Known
    <3> QED
      BY <3>2, <3>3, <3>4, <3>5, <3>6, OnlyPort
  <2> QED
    BY <2>1, <2>2
<1> QED
  BY <1>1, SeesCabled DEF Complete

\* A cable between managed devices is announced or deduced.
LEMMA CabledIsFound ==
  ASSUME Complete, NEW a \in Managed, NEW b \in Managed, {a, b} \in cables
  PROVE  \E k \in AnnouncedLinks \cup DeducedLinks(Sees) : {k.src, k.dst} = {a, b}
<1> DEFINE known == {{l.src, l.dst} : l \in AnnouncedLinks}
<1>0. /\ a \in Devices /\ b \in Devices /\ a # b /\ IsForest(cables)
      /\ b \in NextTo(cables, a) /\ a \in NextTo(cables, b)
      /\ Devices \subseteq Nat
  <2>1. a \in Devices /\ b \in Devices /\ IsForest(cables)
    BY Forest DEF Managed, Complete, Known
  <2> QED
    BY <2>1, OtherEnd, ThingsAssumption
<1>1. CASE {a, b} \in known
  BY <1>1
<1>2. CASE {a, b} \notin known
  <2>1. ASSUME NEW s \in Managed, NEW t \in Managed, {s, t} = {a, b}, s # t, ~IsRouter(s)
        PROVE  /\ s \in Sources /\ t \in NextTo(cables, s) \cap Managed
               /\ <<s, Toward[<<s, t>>], t>> \in Candidates(Sees)
               /\ Picks(Candidates(Sees), s, t) # {}
    <3>1. t \in NextTo(cables, s) \cap Managed
      BY <1>0, <2>1
    <3>2. Role(s) # "virtualisation_host"
      BY <3>1, CabledIsSwitch DEF Managed, Complete, Known
    <3>3. s \in Sources
      BY <2>1, <3>2 DEF Sources
    <3> QED
      BY <3>1, <3>3, CandidatesAreCabled, PicksAreCabled
  <2>2. ASSUME NEW x \in Candidates(Sees), {x[1], x[3]} = {a, b},
               IsRouter(x[3]) \/ (Picks(Candidates(Sees), x[3], x[1]) # {} /\ x[1] < x[3])
        PROVE  \E k \in DeducedLinks(Sees) : {k.src, k.dst} = {a, b}
    <3> DEFINE k == [src |-> x[1], sp |-> Least(Picks(Candidates(Sees), x[1], x[3])),
                     dst |-> x[3]]
    <3>1. {x[1], x[3]} \notin known
      BY <1>2, <2>2
    <3>2. k \in DeducedLinks(Sees)
      BY <2>2, <3>1, Zenon DEF DeducedLinks
    <3>3. {k.src, k.dst} = {a, b}
      BY <2>2
    <3> QED
      BY <3>2, <3>3
  <2>3. IsRouter(a) /\ IsRouter(b) => a = b
    BY RouterIsRoot DEF Complete, Known
  <2>4. CASE IsRouter(b)
    <3>1. <<a, Toward[<<a, b>>], b>> \in Candidates(Sees)
      BY <1>0, <2>1, <2>3, <2>4
    <3>2. PICK x \in Candidates(Sees) : x[1] = a /\ x[3] = b
      BY <3>1
    <3> QED
      BY <2>2, <2>4, <3>2
  <2>5. CASE IsRouter(a)
    <3>1. <<b, Toward[<<b, a>>], a>> \in Candidates(Sees) /\ {b, a} = {a, b}
      BY <1>0, <2>1, <2>3, <2>5
    <3>2. PICK x \in Candidates(Sees) : x[1] = b /\ x[3] = a
      BY <3>1
    <3> QED
      BY <2>2, <2>5, <3>2
  <2>6. CASE ~IsRouter(a) /\ ~IsRouter(b)
    <3>1. /\ <<a, Toward[<<a, b>>], b>> \in Candidates(Sees)
          /\ <<b, Toward[<<b, a>>], a>> \in Candidates(Sees)
          /\ Picks(Candidates(Sees), a, b) # {} /\ Picks(Candidates(Sees), b, a) # {}
          /\ {b, a} = {a, b}
      BY <1>0, <2>1, <2>6
    <3>2. a < b \/ b < a
      BY <1>0
    <3>3. CASE a < b
      BY <2>2, <3>1, <3>3
    <3>4. CASE b < a
      BY <2>2, <3>1, <3>4
    <3> QED
      BY <3>2, <3>3, <3>4
  <2> QED
    BY <2>4, <2>5, <2>6
<1> QED
  BY <1>1, <1>2

\* An uplink of the configuration that is below a device is a cable, with its
\* ports.
LEMMA StaticIsCabled ==
  ASSUME Known, NEW d \in Uplinked, conf.uplink[d].parent \in Devices
  PROVE  LET e == conf.uplink[d].parent
         IN  /\ d \in Managed /\ e \in Managed /\ {d, e} \in cables
             /\ StaticLink(Sees, d).src = e /\ StaticLink(Sees, d).dst = d
             /\ StaticLink(Sees, d).sp = Toward[<<e, d>>]
             /\ StaticLink(Sees, d).dp = Toward[<<d, e>>]
<1> DEFINE up == conf.uplink[d]
           e  == up.parent
<1>1. d \in Managed /\ d \in Devices /\ conf.uplink[d] # None
  BY DEF Uplinked, Managed
<1>2. scene \in Scenes /\ cables \in scene.cables /\ conf.uplink = scene.conf.uplink
      /\ conf.disabled \subseteq scene.conf.disabled \cup scene.switched
  BY DEF Known, TypeInv, SceneInv
<1>3. TrueUplinks(scene)
  BY <1>2, CablesAssumption
<1>4. /\ e \notin scene.conf.disabled \cup scene.switched
      /\ {d, e} \in cables
      /\ up.port \in {Unnamed, Toward[<<e, d>>]}
      /\ up.own \in {Unnamed, Toward[<<d, e>>]}
  <2>1. SetBelow(scene, d, e)
    BY <1>1, <1>2 DEF SetBelow
  <2> QED
    <3> HIDE DEF e
    <3>1. e \in Devices
      BY DEF e
    <3>2. /\ e \notin scene.conf.disabled \cup scene.switched
          /\ \A C \in scene.cables : {d, e} \in C
          /\ scene.conf.uplink[d].port \in {Unnamed, Toward[<<e, d>>]}
          /\ scene.conf.uplink[d].own \in {Unnamed, Toward[<<d, e>>]}
      BY <1>1, <1>3, <2>1, <3>1 DEF TrueUplinks
    <3> QED
      BY <1>2, <3>2
<1>5. e \in Managed /\ e \notin Phones
  BY <1>2, <1>4, ThingsAssumption DEF Managed
<1>6. d \in NextTo(cables, e) /\ e \in NextTo(cables, d)
  BY <1>1, <1>4, Forest, OtherEnd DEF Known
<1>7. Sees[e][d] = Toward[<<e, d>>] /\ Sees[d][e] = Toward[<<d, e>>]
  BY <1>1, <1>5, <1>6, BeyondFirst, SeesToward DEF Known
<1>8. /\ StaticLink(Sees, d).src = e /\ StaticLink(Sees, d).dst = d
      /\ StaticLink(Sees, d).sp = IF up.port # Unnamed THEN up.port ELSE Sees[e][d]
      /\ StaticLink(Sees, d).dp = IF up.own # Unnamed THEN up.own ELSE Sees[d][e]
  BY <1>5 DEF StaticLink, Link
<1> QED
  BY <1>1, <1>4, <1>5, <1>7, <1>8

\* The links between devices are the cables between managed devices.
LEMMA UplinksAreCables ==
  ASSUME Complete
  PROVE  LET L == {l \in Uplinks : l.src \in Devices}
         IN  /\ {{l.src, l.dst} : l \in L} = {c \in cables : c \subseteq Managed}
             /\ \A l \in L : l.sp = Toward[<<l.src, l.dst>>] /\ l.dp = Toward[<<l.dst, l.src>>]
<1> DEFINE L     == {l \in Uplinks : l.src \in Devices}
           Found == AnnouncedLinks \cup DeducedLinks(Sees)
<1>0. /\ \A l : l \in Uplinks <=>
           \/ \E d \in Uplinked : l = StaticLink(Sees, d)
           \/ \E k \in Found : ~Contradicted(k)
                /\ l = Link(k.src, k.sp, k.dst, Sees[k.dst][k.src], "uplink")
  BY DEF Uplinks, LinksBetween
<1>1. ASSUME NEW l \in L
      PROVE  /\ {l.src, l.dst} \in cables /\ {l.src, l.dst} \subseteq Managed
             /\ l.sp = Toward[<<l.src, l.dst>>] /\ l.dp = Toward[<<l.dst, l.src>>]
  <2>1. ASSUME NEW d \in Uplinked, l = StaticLink(Sees, d)
        PROVE  <1>1!2
    <3>1. conf.uplink[d].parent \in Devices
      BY <2>1 DEF StaticLink, Link
    <3>2. {l.src, l.dst} = {d, conf.uplink[d].parent}
      BY <2>1 DEF StaticLink, Link
    <3> QED
      BY <2>1, <3>1, <3>2, StaticIsCabled DEF Complete
  <2>2. ASSUME NEW k \in Found,
               l = Link(k.src, k.sp, k.dst, Sees[k.dst][k.src], "uplink")
        PROVE  <1>1!2
    <3>1. l.src = k.src /\ l.dst = k.dst /\ l.sp = k.sp /\ l.dp = Sees[k.dst][k.src]
      BY <2>2 DEF Link
    <3>2. {k.src, k.dst} \in cables
      BY FoundIsCabled DEF NextTo
    <3> QED
      BY <3>1, <3>2, FoundIsCabled
  <2> QED
    BY <1>0, <2>1, <2>2
<1>2. ASSUME NEW c \in cables, c \subseteq Managed
      PROVE  \E l \in L : {l.src, l.dst} = c
  <2>1. PICK a, b \in Devices : c = {a, b}
    BY Forest DEF Complete, Known, IsForest
  <2>2. a \in Managed /\ b \in Managed
    BY <1>2, <2>1
  <2>3. ASSUME NEW d \in Managed, NEW e \in Managed, c = {d, e}, conf.uplink[d] # None,
               conf.uplink[d].parent = e
        PROVE  \E l \in L : {l.src, l.dst} = c
    <3>1. d \in Devices /\ e \in Devices
      BY DEF Managed
    <3>2. e \in NextTo(cables, d)
      BY <2>3, <3>1 DEF NextTo
    <3>3. d \in Uplinked
      BY <2>3, <3>1, <3>2, CabledIsSwitch DEF Uplinked, Complete, Known
    <3>4. StaticLink(Sees, d) \in Uplinks
      BY <1>0, <3>3
    <3>5. StaticLink(Sees, d).src = e /\ StaticLink(Sees, d).dst = d
      BY <2>3, <3>1, <3>3, StaticIsCabled DEF Complete
    <3> QED
      BY <2>3, <3>1, <3>4, <3>5
  <2>4. CASE conf.uplink[a] = None /\ conf.uplink[b] = None
    <3>1. PICK k \in Found : {k.src, k.dst} = {a, b}
      BY <1>2, <2>1, <2>2, CabledIsFound
    <3>2. ~Contradicted(k)
      BY <2>4, <3>1 DEF Contradicted, Uplinked
    <3> DEFINE l == Link(k.src, k.sp, k.dst, Sees[k.dst][k.src], "uplink")
    <3>3. l \in Uplinks
      BY <1>0, <3>2
    <3>4. l.src = k.src /\ l.dst = k.dst /\ k.src \in Devices
      BY <2>1, <3>1 DEF Link
    <3> QED
      BY <2>1, <3>1, <3>3, <3>4
  <2>5. CASE conf.uplink[a] # None \/ conf.uplink[b] # None
    <3>1. scene \in Scenes /\ {a, b} \in UNION scene.cables /\ {b, a} = {a, b}
          /\ conf.uplink = scene.conf.uplink /\ conf.apAt = scene.conf.apAt
     /\ conf.phoneAt = scene.conf.phoneAt /\ conf.likeGuest = scene.conf.likeGuest
      BY <1>2, <2>1 DEF Complete, Known, TypeInv, SceneInv
    <3>2. \/ conf.uplink[a] # None /\ conf.uplink[a].parent = b
          \/ conf.uplink[b] # None /\ conf.uplink[b].parent = a
      <4>1. TrueUplinks(scene)
        BY <3>1, CablesAssumption
      <4>2. \/ SetBelow(scene, a, b)
            \/ SetBelow(scene, b, a)
        BY <2>1, <2>5, <3>1, <4>1 DEF TrueUplinks
      <4> QED
        BY <3>1, <4>2 DEF SetBelow
    <3> QED
      BY <2>1, <2>2, <2>3, <3>1, <3>2
  <2> QED
    BY <2>4, <2>5
<1>3. {{l.src, l.dst} : l \in L} = {c \in cables : c \subseteq Managed}
  <2> HIDE DEF L
  <2>1. ASSUME NEW l \in L PROVE {l.src, l.dst} \in {c \in cables : c \subseteq Managed}
    BY <1>1
  <2>2. ASSUME NEW c \in {d \in cables : d \subseteq Managed}
        PROVE  c \in {{l.src, l.dst} : l \in L}
    BY <1>2
  <2> QED
    BY <2>1, <2>2
<1> QED
  BY <1>1, <1>3

LEMMA CablesDrawnStep ==
  ASSUME TypeInv, SceneInv, CablesDrawn, [Next]_vars
  PROVE  CablesDrawn'
<1>1. CASE UNCHANGED vars
  <2>1. UNCHANGED <<conf, table, cables, plugged, drawn, map>>
    BY <1>1 DEF vars, topologyVars
  <2>2. (Read <=> Read') /\ Managed' = Managed /\ DeviceLinks' = DeviceLinks
    BY <2>1 DEF Read, Learned, Beyond, PluggedInto, Managed, DeviceLinks
  <2> QED
    BY <2>1, <2>2 DEF CablesDrawn, UpToDate
<1>2. ASSUME NEW read, NEW written,
             Draw(Uplinks, read, written), UNCHANGED <<scene, cables, plugged>>
      PROVE  CablesDrawn'
  <2>1. UNCHANGED <<conf, table, cables, plugged>>
    BY <1>2 DEF Draw
  <2>2. (Read <=> Read') /\ Managed' = Managed
    BY <2>1 DEF Read, Learned, Beyond, PluggedInto, Managed
  <2>3. SUFFICES ASSUME Read', HiddenAreLeaves
                 PROVE  (/\ {{l.src, l.dst} : l \in DeviceLinks} = {c \in cables : c \subseteq Managed}
                         /\ \A l \in DeviceLinks : /\ l.sp = Toward[<<l.src, l.dst>>]
                                                  /\ l.dp = Toward[<<l.dst, l.src>>])'
    BY <2>1 DEF CablesDrawn, UpToDate, HiddenAreLeaves
  <2>4. Complete
    BY <2>2, <2>3 DEF Complete, Known
  <2>5. DeviceLinks' = {l \in Uplinks : l.src \in Devices}
    BY <1>2, DrawnUplinks
  <2>6. /\ {{l.src, l.dst} : l \in DeviceLinks'} = {c \in cables : c \subseteq Managed}
        /\ \A l \in DeviceLinks' : l.sp = Toward[<<l.src, l.dst>>] /\ l.dp = Toward[<<l.dst, l.src>>]
    BY <2>4, <2>5, UplinksAreCables
  <2> QED
    BY <2>1, <2>2, <2>6
<1>3. CASE ~drawn'
  BY <1>3 DEF CablesDrawn, UpToDate
<1> QED
  BY <1>1, <1>2, <1>3, DrawnByDraw

\* From complete tables, transit elimination finds the cables between the managed
\* devices and no others, each with its ports, in any tree of devices, with a
\* router or without, whatever part of the neighbours is announced or configured
\* and whichever leaves are hidden (_build_device_links).
THEOREM CablesAreDrawn == Spec => []CablesDrawn
<1>1. Init => CablesDrawn
  BY DEF Init, CablesDrawn, UpToDate
<1>2. TypeInv /\ SceneInv /\ CablesDrawn /\ [Next]_vars => CablesDrawn'
  BY CablesDrawnStep
<1> QED
  BY <1>1, <1>2, SceneStays, PTL DEF Spec

-----------------------------------------------------------------------------
(* Where the stations are.                                                  *)

\* Stations are where the network has them, and only those that move are silent.
Plugged ==
  \A m \in Stations :
    plugged[m] \in scene.plugs[m] \cup (IF m \in scene.moving THEN {None} ELSE {})

\* No host was ever learned or remembered on a port that clients use.
HostsApart ==
  \A x \in ClientPorts(scene), h \in Hosts :
    h \notin table[x[1]][x[2]] /\ hostLink[h] # x

LEMMA ClientPortsType ==
  ASSUME TypeInv, NEW x \in ClientPorts(scene)
  PROVE  /\ x \in Place /\ x[1] \in Devices /\ x[2] \in Ports /\ x = <<x[1], x[2]>>
         /\ \A e \in NextTo(cables, x[1]) : Toward[<<x[1], e>>] # x[2]
<1>1. scene \in Scenes
  BY DEF TypeInv
<1>2. PICK m \in Clients : x \in scene.plugs[m] /\ x # None
  BY DEF ClientPorts
<1>3. x \in Place
  BY <1>1, <1>2, ScenesAssumption DEF Stations
<1>4. ASSUME NEW e \in NextTo(cables, x[1]) PROVE Toward[<<x[1], e>>] # x[2]
  <2>1. {x[1], e} \in UNION scene.cables /\ e \in Devices
    BY DEF NextTo, TypeInv
  <2>2. x \in ClientPorts(scene)
    BY <1>2
  <2> QED
    BY <1>1, <2>1, <2>2, StationsAssumption DEF PortsApart
<1> QED
  BY <1>3, <1>4 DEF Place

LEMMA HostNotLearned ==
  ASSUME TypeInv, Plugged, NEW x \in ClientPorts(scene), NEW h \in Hosts
  PROVE  h \notin Learned(x[1])[x[2]]
<1>1. /\ x[1] \in Devices /\ x[2] \in Ports /\ x = <<x[1], x[2]>>
      /\ \A e \in NextTo(cables, x[1]) : Toward[<<x[1], e>>] # x[2]
  BY ClientPortsType
<1>2. x \notin scene.plugs[h] /\ x # None
  BY StationsAssumption DEF TypeInv, PortsApart, ClientPorts
<1>3. h \in Stations
  BY DEF Stations
<1>4. plugged[h] # x
  BY <1>2, <1>3 DEF Plugged
<1>5. {e \in Devices : {x[1], e} \in cables /\ Toward[<<x[1], e>>] = x[2]} = {}
  BY <1>1 DEF NextTo
<1>6. Learned(x[1])[x[2]] = {m \in Stations : plugged[m] = <<x[1], x[2]>>}
  BY <1>1, <1>5 DEF Learned
<1> QED
  BY <1>1, <1>4, <1>6

LEMMA HostRememberedApart ==
  ASSUME TypeInv, HostsApart, NEW up, NEW h \in Hosts
  PROVE  HostRemembered(up, h) \notin ClientPorts(scene)
<1>1. hostLink[h] \notin ClientPorts(scene)
  BY DEF HostsApart
<1>2. ASSUME NEW x \in HostSightings(up, h) PROVE x \notin ClientPorts(scene)
  <2>1. h \in table[x[1]][x[2]]
    BY DEF HostSightings, OnPort
  <2> QED
    BY <2>1 DEF HostsApart
<1>3. HostPlace(up, h) \notin ClientPorts(scene)
  <2>1. None \notin ClientPorts(scene)
    BY DEF ClientPorts
  <2> QED
    BY <1>1, <1>2, <2>1, HostPlaced
<1>4. None \notin ClientPorts(scene)
  BY DEF ClientPorts
<1> QED
  BY <1>1, <1>3, <1>4 DEF HostRemembered

LEMMA StationsStep ==
  ASSUME TypeInv, Plugged, HostsApart, [Next]_vars
  PROVE  Plugged' /\ HostsApart'
<1>1. ASSUME NEW m \in Stations, Replug(m) PROVE Plugged' /\ HostsApart'
  <2>1. UNCHANGED <<scene, table, hostLink>> /\ m \in scene.moving
    BY <1>1 DEF Replug, topologyVars
  <2>2. PICK x \in scene.plugs[m] \cup {None} : plugged' = [plugged EXCEPT ![m] = x]
    BY <1>1 DEF Replug
  <2>3. Plugged'
    BY <2>1, <2>2 DEF Plugged, TypeInv
  <2>4. HostsApart'
    BY <2>1 DEF HostsApart, ClientPorts
  <2> QED
    BY <2>3, <2>4
<1>2. ASSUME NEW d \in Devices, ReadTable(d) PROVE Plugged' /\ HostsApart'
  <2>1. UNCHANGED <<scene, plugged, hostLink>> /\ table' = [table EXCEPT ![d] = Learned(d)]
    BY <1>2 DEF ReadTable
  <2>2. Plugged'
    BY <2>1 DEF Plugged
  <2>3. ASSUME NEW x \in ClientPorts(scene), NEW h \in Hosts PROVE h \notin table'[x[1]][x[2]]
    <3>1. x[1] \in Devices
      BY ClientPortsType
    <3>2. table'[x[1]] = IF x[1] = d THEN Learned(d) ELSE table[x[1]]
      BY <2>1, <3>1 DEF TypeInv
    <3> QED
      BY <3>2, HostNotLearned DEF HostsApart
  <2>4. HostsApart'
    BY <2>1, <2>3 DEF HostsApart, ClientPorts
  <2> QED
    BY <2>2, <2>4
<1>3. ASSUME NEW read, NEW written, DrawMap(Uplinks, read, written)
      PROVE  Plugged' /\ HostsApart'
  <2>1. UNCHANGED <<scene, plugged, table>>
    BY <1>3 DEF DrawMap, Draw
  <2>2. hostLink' = [h \in Hosts |-> IF conf.cluster[h] \in Managed
                                     THEN HostRemembered(Uplinks, h) ELSE hostLink[h]]
    BY <1>3 DEF DrawMap, Draw
  <2>3. ASSUME NEW x \in ClientPorts(scene), NEW h \in Hosts PROVE hostLink'[h] # x
    BY <2>2, HostRememberedApart DEF HostsApart
  <2>4. Plugged'
    BY <2>1 DEF Plugged
  <2>5. HostsApart'
    BY <2>1, <2>3 DEF HostsApart, ClientPorts
  <2> QED
    BY <2>4, <2>5
<1>4. CASE UNCHANGED <<scene, plugged, table, hostLink>>
  BY <1>4 DEF Plugged, HostsApart, ClientPorts
<1> QED
  BY <1>1, <1>2, <1>3, <1>4 DEF Next, Recable, Switch, vars, topologyVars

LEMMA StationsStay == Spec => [](TypeInv /\ SceneInv /\ Plugged /\ HostsApart)
<1>1. Init => Plugged /\ HostsApart
  <2> SUFFICES ASSUME Init PROVE Plugged /\ HostsApart
    OBVIOUS
  <2>1. TypeInv
    BY InitTypes
  <2>2. Plugged
    BY DEF Init, Plugged
  <2>3. ASSUME NEW x \in ClientPorts(scene), NEW h \in Hosts
        PROVE  h \notin table[x[1]][x[2]] /\ hostLink[h] # x
    <3>1. x[1] \in Devices /\ x # None
      BY <2>1, ClientPortsType DEF ClientPorts
    <3> QED
      BY <2>1, <2>2, <3>1, HostNotLearned DEF Init
  <2> QED
    BY <2>2, <2>3 DEF HostsApart
<1>2. TypeInv /\ Plugged /\ HostsApart /\ [Next]_vars => Plugged' /\ HostsApart'
  BY StationsStep
<1> QED
  BY <1>1, <1>2, SceneStays, PTL DEF Spec

-----------------------------------------------------------------------------
(* Where a client is shown.                                                 *)

\* A device learns the address of a station on the port where it is, and on the
\* ports with a cable that leads there.
LEMMA StationSeen ==
  ASSUME Known, NEW m \in Stations, NEW d \in Devices, NEW p \in Ports
  PROVE  m \in OnPort(d, p) <=>
           \/ plugged[m] = <<d, p>>
           \/ /\ plugged[m] # None
              /\ \E e \in NextTo(cables, d) :
                   plugged[m][1] \in BeyondIn(cables, d, e) /\ Toward[<<d, e>>] = p
<1>1. OnPort(d, p) = Learned(d)[p]
  BY CablesAssumption DEF Known, OnPort, Read, TypeInv, SceneInv, Addressed
<1>2. ASSUME NEW e PROVE m \notin Beyond(d, e)
  BY ThingsAssumption DEF Stations, Beyond, BeyondIn
<1>3. ASSUME NEW e
      PROVE  m \in PluggedInto(Beyond(d, e)) <=>
               plugged[m] # None /\ plugged[m][1] \in BeyondIn(cables, d, e)
  BY DEF PluggedInto, Beyond
<1> DEFINE E == {x \in Devices : {d, x} \in cables /\ Toward[<<d, x>>] = p}
<1>4. m \in Learned(d)[p] <=>
        \/ plugged[m] = <<d, p>>
        \/ \E e \in E : m \in Beyond(d, e) \cup PluggedInto(Beyond(d, e))
  <2>1. Learned(d)[p] =
          {k \in Stations : plugged[k] = <<d, p>>} \cup
          UNION {Beyond(d, e) \cup PluggedInto(Beyond(d, e)) : e \in E}
    BY DEF Learned
  <2> HIDE DEF E
  <2> QED
    BY <2>1
<1>5. m \in Learned(d)[p] <=>
        \/ plugged[m] = <<d, p>>
        \/ \E e \in E : plugged[m] # None /\ plugged[m][1] \in BeyondIn(cables, d, e)
  <2> HIDE DEF E
  <2> QED
    BY <1>2, <1>3, <1>4
<1> QED
  BY <1>1, <1>5 DEF NextTo

\* A managed device that is reached through a cable is known as a switch.
LEMMA BeyondIsSwitch ==
  ASSUME Known, NEW s \in Devices, NEW e \in NextTo(cables, s), NEW t \in Managed,
         t \in BeyondIn(cables, s, e)
  PROVE  t \in SwitchMacs /\ t # s /\ t \in OtherSwitches(s, Toward[<<s, e>>])
<1>1. /\ IsForest(cables) /\ t \in Devices /\ e \in Devices /\ {s, e} \in cables
      /\ Toward[<<s, e>>] \in Ports
  BY Forest DEF Known, Managed, NextTo
<1>2. t # s
  BY <1>1, ComponentBeyond
<1>3. \E g : g \in NextTo(cables, t)
  <2>1. CASE t = e
    BY <1>1, <2>1, OtherEnd
  <2>2. CASE t # e
    BY <1>1, <2>2, EndsTogether
  <2> QED
    BY <2>1, <2>2
<1>4. Role(t) # "virtualisation_host"
  BY <1>1, <1>3, CabledIsSwitch DEF Known
<1>5. t \in SwitchMacs
  BY <1>1, <1>4, CablesAssumption DEF SwitchMacs, Known, TypeInv, SceneInv, Addressed
<1>6. t \in OnPort(s, Toward[<<s, e>>])
  BY <1>1, LearnedDevices DEF Known
<1> QED
  BY <1>2, <1>5, <1>6 DEF OtherSwitches

\* A port without a cable has the addresses of what is plugged in there, and none
\* of a switch.
LEMMA FreePort ==
  ASSUME Known, NEW x \in Place, \A e \in NextTo(cables, x[1]) : Toward[<<x[1], e>>] # x[2]
  PROVE  /\ \A m \in Stations : m \in OnPort(x[1], x[2]) <=> plugged[m] = x
         /\ Devices \cap OnPort(x[1], x[2]) = {}
<1>1. x[1] \in Devices /\ x[2] \in Ports /\ x = <<x[1], x[2]>>
  BY DEF Place
<1>2. ASSUME NEW m \in Stations PROVE m \in OnPort(x[1], x[2]) <=> plugged[m] = x
  BY <1>1, StationSeen
<1>3. ASSUME NEW t \in Devices PROVE t \notin OnPort(x[1], x[2])
  BY <1>1, LearnedDevices DEF Known
<1> QED
  BY <1>2, <1>3

\* An access point is found where it is plugged in, or nowhere.
LEMMA ApFound ==
  ASSUME Known, Plugged, NEW a \in AccessPoints
  PROVE  ApPlace(a) \in {None, plugged[a]}
<1>0. /\ a \in Stations /\ scene \in Scenes /\ plugged[a] \in Place \cup {None}
      /\ conf.apAt = scene.conf.apAt
      /\ conf.disabled \subseteq scene.conf.disabled \cup scene.switched
  BY DEF Stations, Known, TypeInv, SceneInv
<1>1. TruePlaces(scene) /\ PortsApart(scene)
  BY <1>0, StationsAssumption
<1>2. CASE conf.apAt[a] # None
  <2>1. plugged[a] = conf.apAt[a]
    BY <1>0, <1>1, <1>2 DEF TruePlaces, Plugged
  <2>2. plugged[a] \in scene.plugs[a] \ {None}
    BY <1>0, <1>1, <1>2, <2>1 DEF TruePlaces
  <2>3. plugged[a][1] \notin conf.disabled
    BY <1>0, <1>1, <2>2 DEF TruePlaces
  <2>4. plugged[a][1] \in Managed
    BY <1>0, <2>2, <2>3 DEF Place, Managed
  <2> QED
    BY <1>2, <2>1, <2>4 DEF ApPlace
<1>3. CASE conf.apAt[a] = None /\ plugged[a] = None
  <2>1. SightingsOf(a) = {}
    <3>1. ASSUME NEW y \in Managed \X Ports PROVE a \notin OnPort(y[1], y[2])
      <4>1. y[1] \in Devices /\ y[2] \in Ports /\ <<y[1], y[2]>> \in Place
        BY DEF Managed, Place
      <4> QED
        BY <1>0, <1>3, <4>1, StationSeen, NoPlaceIsNone
    <3> QED
      BY <3>1 DEF SightingsOf
  <2> QED
    BY <1>3, <2>1 DEF ApPlace, EdgePorts
<1>4. CASE conf.apAt[a] = None /\ plugged[a] # None
  <2> DEFINE x == plugged[a]
  <2>1. /\ x \in Place /\ x[1] \in Devices /\ x[2] \in Ports /\ x = <<x[1], x[2]>>
        /\ x \in scene.plugs[a] \ {None}
    BY <1>0, <1>4 DEF Place, Plugged
  <2>2. x[1] \in Managed
    BY <1>0, <1>1, <2>1 DEF TruePlaces, Managed
  <2>3. \A e \in NextTo(cables, x[1]) : Toward[<<x[1], e>>] # x[2]
    <3>1. ASSUME NEW e \in NextTo(cables, x[1]) PROVE Toward[<<x[1], e>>] # x[2]
      <4>1. {x[1], e} \in UNION scene.cables /\ e \in Devices
        BY DEF NextTo, Known, TypeInv
      <4>2. x \in (UNION {scene.plugs[b] : b \in AccessPoints}) \ {None}
        BY <2>1
      <4> QED
        BY <1>1, <4>1, <4>2 DEF PortsApart
    <3> QED
      BY <3>1
  <2>4. x \in EdgePorts(a)
    <3>1. a \in OnPort(x[1], x[2]) /\ Devices \cap OnPort(x[1], x[2]) = {}
      BY <1>0, <2>1, <2>3, FreePort
    <3>2. SwitchMacs \subseteq Devices
      BY DEF SwitchMacs, Managed
    <3> QED
      BY <2>1, <2>2, <3>1, <3>2 DEF EdgePorts, SightingsOf
  <2>5. ASSUME NEW y \in EdgePorts(a) PROVE y = x
    <3>1. /\ y \in Managed \X Ports /\ a \in OnPort(y[1], y[2])
          /\ SwitchMacs \cap OnPort(y[1], y[2]) = {}
      BY DEF EdgePorts, SightingsOf
    <3>2. y[1] \in Devices /\ y[2] \in Ports /\ y = <<y[1], y[2]>>
      BY <3>1 DEF Managed
    <3>3. ASSUME NEW e \in NextTo(cables, y[1]), x[1] \in BeyondIn(cables, y[1], e),
                 Toward[<<y[1], e>>] = y[2]
          PROVE  FALSE
      <4>1. x[1] \in SwitchMacs /\ x[1] \in OtherSwitches(y[1], y[2])
        BY <2>2, <3>2, <3>3, BeyondIsSwitch
      <4> QED
        BY <3>1, <4>1 DEF OtherSwitches
    <3>4. \/ x = <<y[1], y[2]>>
          \/ \E e \in NextTo(cables, y[1]) :
               x[1] \in BeyondIn(cables, y[1], e) /\ Toward[<<y[1], e>>] = y[2]
      BY <1>0, <3>1, <3>2, StationSeen
    <3> QED
      BY <3>2, <3>3, <3>4
  <2> HIDE DEF x
  <2>6. FirstPlace(EdgePorts(a)) = x
    <3>1. EdgePorts(a) \subseteq Nat \X Nat
      BY <2>1, <2>5, NoPlaceIsNone
    <3> QED
      BY <2>4, <2>5, <3>1, FirstPlaceIsOne
  <2>7. ApPlace(a) = x
    BY <1>4, <2>4, <2>6 DEF ApPlace
  <2> QED
    BY <2>7 DEF x
<1> QED
  BY <1>2, <1>3, <1>4

\* What s finds behind a port, deduced or not, is behind one of its cables.
LEMMA PicksAreBehind ==
  ASSUME Known, NEW x \in Candidates(Sees)
  PROVE  /\ x[1] \in Sources /\ x[3] \in Managed /\ x[2] \in Ports
         /\ \E e \in NextTo(cables, x[1]) :
              x[3] \in BeyondIn(cables, x[1], e) /\ Toward[<<x[1], e>>] = x[2]
<1>1. PICK y \in Sources \X Ports :
        x \in {<<y[1], y[2], t>> : t \in DirectNeighbors(Sees, y[1], y[2])}
  BY DEF Candidates
<1>2. PICK t \in DirectNeighbors(Sees, y[1], y[2]) : x = <<y[1], y[2], t>>
  BY <1>1
<1>3. y[1] \in Sources /\ y[1] \in Managed /\ y[2] \in Ports
  BY DEF Sources
<1>4. t \in Behind(Sees, y[1], y[2])
  BY DEF DirectNeighbors
<1>5. t \in Managed /\ \E e \in NextTo(cables, y[1]) :
        t \in BeyondIn(cables, y[1], e) /\ Toward[<<y[1], e>>] = y[2]
  BY <1>3, <1>4, BehindSwitch
<1>6. x[1] = y[1] /\ x[2] = y[2] /\ x[3] = t
  BY <1>2
<1> QED
  BY <1>3, <1>5, <1>6

\* Where a link between devices ends there is a cable, or the configuration says
\* so.
LEMMA UplinkPorts ==
  ASSUME Known, NEW l \in Uplinks
  PROVE  /\ l.src \in Devices => \E e \in NextTo(cables, l.src) : l.sp = Toward[<<l.src, e>>]
         /\ \/ \E e \in NextTo(cables, l.dst) : l.dp = Toward[<<l.dst, e>>]
            \/ conf.uplink[l.dst] # None /\ l.dp = conf.uplink[l.dst].own
<1> DEFINE SrcPort == l.src \in Devices =>
                        \E e \in NextTo(cables, l.src) : l.sp = Toward[<<l.src, e>>]
           DstPort == \/ \E e \in NextTo(cables, l.dst) : l.dp = Toward[<<l.dst, e>>]
                      \/ conf.uplink[l.dst] # None /\ l.dp = conf.uplink[l.dst].own
<1>1. \/ \E d \in Uplinked : l = StaticLink(Sees, d)
      \/ \E k \in AnnouncedLinks \cup DeducedLinks(Sees) :
           l = Link(k.src, k.sp, k.dst, Sees[k.dst][k.src], "uplink")
  BY DEF Uplinks, LinksBetween
<1>2. ASSUME NEW d \in Uplinked, l = StaticLink(Sees, d)
      PROVE  SrcPort /\ DstPort
  <2>1. d \in Devices /\ conf.uplink[d] # None /\ conf.uplink[d].parent \in Devices \cup Phones
    BY DEF Uplinked, Managed, Known, TypeInv, Conf
  <2>2. CASE conf.uplink[d].parent \in Phones
    <3>1. l.src = conf.uplink[d].parent /\ l.dst = d /\ l.dp = conf.uplink[d].own
      BY <1>2, <2>2 DEF StaticLink, Link
    <3> QED
      BY <2>1, <2>2, <3>1, ThingsAssumption
  <2>3. CASE conf.uplink[d].parent \in Devices
    <3> DEFINE e == conf.uplink[d].parent
    <3>1. /\ {d, e} \in cables
          /\ l.src = e /\ l.dst = d /\ l.sp = Toward[<<e, d>>] /\ l.dp = Toward[<<d, e>>]
      BY <1>2, <2>3, StaticIsCabled
    <3>2. d \in NextTo(cables, e) /\ e \in NextTo(cables, d)
      BY <2>1, <2>3, <3>1, Forest, OtherEnd DEF Known
    <3> HIDE DEF e
    <3> QED
      BY <3>1, <3>2
  <2> QED
    BY <2>1, <2>2, <2>3
<1>3. ASSUME NEW k \in AnnouncedLinks,
             l = Link(k.src, k.sp, k.dst, Sees[k.dst][k.src], "uplink")
      PROVE  SrcPort /\ DstPort
  <2>1. l.src = k.src /\ l.sp = k.sp /\ l.dst = k.dst /\ l.dp = Sees[k.dst][k.src]
    BY <1>3 DEF Link
  <2>2. /\ k.dst \in NextTo(cables, k.src) /\ k.sp = Toward[<<k.src, k.dst>>]
        /\ k.src \in NextTo(cables, k.dst) /\ Sees[k.dst][k.src] = Toward[<<k.dst, k.src>>]
    BY AnnouncedFound, SeesCabled
  <2> QED
    BY <2>1, <2>2
<1>4. ASSUME NEW k \in DeducedLinks(Sees),
             l = Link(k.src, k.sp, k.dst, Sees[k.dst][k.src], "uplink")
      PROVE  SrcPort /\ DstPort
  <2>1. l.src = k.src /\ l.sp = k.sp /\ l.dst = k.dst /\ l.dp = Sees[k.dst][k.src]
    BY <1>4 DEF Link
  <2>2. PICK x \in Candidates(Sees) :
          k = [src |-> x[1], sp |-> Least(Picks(Candidates(Sees), x[1], x[3])), dst |-> x[3]]
    BY Zenon DEF DeducedLinks
  <2>3. k.src = x[1] /\ k.dst = x[3] /\ k.sp = Least(Picks(Candidates(Sees), x[1], x[3]))
    BY <2>2
  <2>4. PICK e \in NextTo(cables, x[1]) : x[3] \in BeyondIn(cables, x[1], e)
    BY PicksAreBehind
  <2>5. /\ x[1] \in Managed /\ x[3] \in Managed /\ x[1] \in Devices /\ x[3] \in Devices
        /\ IsForest(cables)
    BY PicksAreBehind, Forest DEF Sources, Managed, Known
  <2>6. k.sp \in Picks(Candidates(Sees), x[1], x[3])
    <3>1. x[2] \in Picks(Candidates(Sees), x[1], x[3])
      BY DEF Picks
    <3>2. Picks(Candidates(Sees), x[1], x[3]) \subseteq Ports
      BY PicksAreBehind DEF Picks
    <3>3. Ports \subseteq Nat
      BY ThingsAssumption
    <3> QED
      BY <2>3, <3>1, <3>2, <3>3, LeastIsFirst
  <2>7. SrcPort
    <3>1. PICK y \in Candidates(Sees) : y[1] = x[1] /\ y[2] = k.sp
      BY <2>6 DEF Picks
    <3> QED
      BY <2>1, <2>3, <3>1, PicksAreBehind
  <2>8. DstPort
    <3>1. PICK g \in NextTo(cables, x[3]) : x[1] \in BeyondIn(cables, x[3], g)
      <4>1. x[3] \in Component(cables, x[1]) /\ x[3] # x[1]
        BY <2>4, <2>5, ComponentBeyond
      <4>2. x[1] \in Component(cables, x[3])
        BY <2>5, <4>1, ComponentSymmetric
      <4> QED
        BY <2>5, <4>1, <4>2, ComponentBeyond
    <3>2. Sees[x[3]][x[1]] = Toward[<<x[3], g>>]
      BY <2>5, <3>1, SeesToward DEF Known
    <3> QED
      BY <2>1, <2>3, <3>1, <3>2
  <2> QED
    BY <2>7, <2>8
<1> QED
  BY <1>1, <1>2, <1>3, <1>4

\* A place among the ends of links is the end of a link with that very port.
LEMMA PlaceIsEnd ==
  ASSUME NEW x \in Place, NEW L
  PROVE  x \in EndsOf(L) => \E l \in L : x = <<l.src, l.sp>> \/ x = <<l.dst, l.dp>>
<1>1. ASSUME NEW p, NEW d, x = <<d, Relabelled(p)>> PROVE x = <<d, p>>
  <2>1. Relabelled(p) \in Ports
    BY <1>1 DEF Place
  <2>2. Relabelled(p) = p
    BY <2>1, ThingsAssumption DEF Relabelled, Unnamed
  <2> QED
    BY <1>1, <2>2
<1> QED
  BY <1>1 DEF EndsOf

\* A port without a cable is the end of no link between devices.
LEMMA FreePortIsNoEnd ==
  ASSUME Known, NEW x \in Place,
         \A e \in NextTo(cables, x[1]) : Toward[<<x[1], e>>] # x[2],
         conf.uplink[x[1]] # None => conf.uplink[x[1]].own # x[2],
         NEW l \in Uplinks
  PROVE  x # <<l.src, l.sp>> /\ x # <<l.dst, l.dp>>
<1>1. x[1] \in Devices
  BY DEF Place
<1>2. ASSUME x = <<l.src, l.sp>> PROVE FALSE
  <2>1. l.src = x[1] /\ l.sp = x[2]
    BY <1>2
  <2>2. PICK e \in NextTo(cables, l.src) : l.sp = Toward[<<l.src, e>>]
    BY <1>1, <2>1, UplinkPorts
  <2> QED
    BY <2>1, <2>2
<1>3. ASSUME x = <<l.dst, l.dp>> PROVE FALSE
  <2>1. l.dst = x[1] /\ l.dp = x[2]
    BY <1>3
  <2>2. \A e \in NextTo(cables, l.dst) : l.dp # Toward[<<l.dst, e>>]
    BY <2>1
  <2>3. conf.uplink[l.dst] # None /\ l.dp = conf.uplink[l.dst].own
    BY <2>2, UplinkPorts
  <2> QED
    BY <2>1, <2>3
<1> QED
  BY <1>2, <1>3

\* A port on which a switch sees no other switch but the root is the end of a link
\* between devices, and counts as one unless it is a VLAN port.
LEMMA RootTrunk ==
  ASSUME Known, NEW s \in Managed, NEW e \in NextTo(cables, s), Root \in Managed,
         Root \in BeyondIn(cables, s, e), OtherSwitches(s, Toward[<<s, e>>]) \subseteq {Root},
         Toward[<<s, e>>] \notin VlanPorts
  PROVE  <<s, Toward[<<s, e>>]>> \in EndsOf(Uplinks)
<1> DEFINE q == Toward[<<s, e>>]
<1>0. /\ s \in Devices /\ Root \in Devices /\ e \in Devices /\ IsForest(cables)
      /\ q \in Ports /\ {s, e} \in cables /\ Relabelled(q) = q
      /\ \A f \in NextTo(cables, s) : Toward[<<s, f>>] = q => f = e
  BY Forest DEF Known, Managed, NextTo, Relabelled
<1>1. s # Root
  BY <1>0, BeyondIsSwitch
<1>2. ASSUME NEW t \in Managed, t \in BeyondIn(cables, s, e) PROVE t = Root
  BY <1>0, <1>2, BeyondIsSwitch
<1>3. s \in Sources
  <2>1. ~IsRouter(s)
    BY <1>1, RouterIsRoot DEF Known
  <2>2. Role(s) # "virtualisation_host"
    BY <1>0, CabledIsSwitch DEF Known
  <2> QED
    BY <2>1, <2>2 DEF Sources
<1>4. <<s, q, Root>> \in Candidates(Sees)
  <2>1. \A t : t \in Behind(Sees, s, q) <=> t = Root
    <3>1. ASSUME NEW t PROVE t \in Behind(Sees, s, q) <=> t = Root
      <4>1. t \in Behind(Sees, s, q) <=>
              /\ t \in Managed
              /\ \E f \in NextTo(cables, s) : t \in BeyondIn(cables, s, f) /\ Toward[<<s, f>>] = q
        BY <1>0, BehindSwitch
      <4> QED
        BY <1>0, <1>2, <4>1
    <3> QED
      BY <3>1
  <2>2. Root \in DirectNeighbors(Sees, s, q)
    BY <2>1 DEF DirectNeighbors, IsRouter
  <2>3. <<s, q>> \in Sources \X Ports
    BY <1>0, <1>3
  <2>4. <<s, q, Root>> \in {<<<<s, q>>[1], <<s, q>>[2], t>> :
                             t \in DirectNeighbors(Sees, <<s, q>>[1], <<s, q>>[2])}
    BY <2>2
  <2> HIDE DEF q
  <2> QED
    BY <2>3, <2>4 DEF Candidates
<1>5. Picks(Candidates(Sees), s, Root) = {q}
  <2>1. ASSUME NEW x \in Candidates(Sees), x[1] = s, x[3] = Root PROVE x[2] = q
    <3>1. PICK f \in NextTo(cables, s) :
            Root \in BeyondIn(cables, s, f) /\ Toward[<<s, f>>] = x[2]
      BY <2>1, PicksAreBehind
    <3>2. f = e
      BY <1>0, <3>1, BranchesApart
    <3> QED
      BY <3>1, <3>2
  <2>2. \E x \in Candidates(Sees) : x[1] = s /\ x[3] = Root /\ x[2] = q
    BY <1>4
  <2> HIDE DEF q
  <2> QED
    BY <2>1, <2>2 DEF Picks
<1>6. ASSUME Root \in NextTo(cables, s) PROVE e = Root /\ q = Toward[<<s, Root>>]
  <2>1. Root \in BeyondIn(cables, s, Root)
    BY <1>0, BeyondFirst
  <2> QED
    BY <1>0, <1>6, <2>1, BranchesApart
<1>7. CASE conf.uplink[s] # None \/ conf.uplink[Root] # None
  <2>1. scene \in Scenes /\ conf.uplink = scene.conf.uplink /\ conf.disabled = {}
    <3>1. /\ scene \in Scenes /\ conf.uplink = scene.conf.uplink
          /\ conf.disabled \subseteq scene.conf.disabled \cup scene.switched
      BY DEF Known, TypeInv, SceneInv
    <3>2. scene.conf.disabled \cup scene.switched = {}
      BY <1>0, <1>7, <3>1, StationsAssumption DEF TruePlaces
    <3> QED
      BY <3>1, <3>2
  <2>2. e \in Managed /\ e \in BeyondIn(cables, s, e)
    BY <1>0, <2>1, BeyondFirst DEF Managed
  <2>3. e = Root
    BY <1>2, <2>2
  <2>4. {s, Root} \in UNION scene.cables /\ {Root, s} = {s, Root}
    BY <1>0, <2>3 DEF Known, TypeInv
  <2>5. SetBelow(scene, s, Root) \/ SetBelow(scene, Root, s)
    <3>1. TrueUplinks(scene)
      BY <2>1, CablesAssumption
    <3> QED
      BY <1>0, <1>7, <2>1, <2>4, <3>1 DEF TrueUplinks
  <2>6. ~IsHub(s) /\ ~IsHub(Root)
    <3>1. s \in NextTo(cables, Root) /\ Root \in NextTo(cables, s)
      BY <1>0, <2>3, OtherEnd
    <3> QED
      BY <1>0, <3>1, CabledIsSwitch DEF Known
  <2>7. CASE SetBelow(scene, s, Root)
    <3>1. s \in Uplinked /\ conf.uplink[s].parent = Root
      BY <2>1, <2>6, <2>7 DEF SetBelow, Uplinked
    <3>2. StaticLink(Sees, s) \in Uplinks
      BY <3>1 DEF Uplinks, LinksBetween
    <3>3. StaticLink(Sees, s).dst = s /\ StaticLink(Sees, s).dp = Toward[<<s, Root>>]
      BY <1>0, <3>1, StaticIsCabled
    <3> QED
      BY <1>0, <2>3, <3>2, <3>3 DEF EndsOf
  <2>8. CASE SetBelow(scene, Root, s)
    <3>1. Root \in Uplinked /\ conf.uplink[Root].parent = s
      BY <2>1, <2>6, <2>8 DEF SetBelow, Uplinked
    <3>2. StaticLink(Sees, Root) \in Uplinks
      BY <3>1 DEF Uplinks, LinksBetween
    <3>3. StaticLink(Sees, Root).src = s /\ StaticLink(Sees, Root).sp = Toward[<<s, Root>>]
      BY <1>0, <3>1, StaticIsCabled
    <3> QED
      BY <1>0, <2>3, <3>2, <3>3 DEF EndsOf
  <2> QED
    BY <2>5, <2>7, <2>8
<1>8. CASE conf.uplink[s] = None /\ conf.uplink[Root] = None
  <2>1. ASSUME NEW k \in AnnouncedLinks \cup DeducedLinks(Sees), {k.src, k.dst} = {s, Root}
        PROVE  Link(k.src, k.sp, k.dst, Sees[k.dst][k.src], "uplink") \in Uplinks
    <3>1. ~Contradicted(k)
      BY <1>8, <2>1 DEF Contradicted, Uplinked
    <3> QED
      BY <3>1 DEF Uplinks, LinksBetween
  <2>2. CASE \E k \in AnnouncedLinks : {k.src, k.dst} = {s, Root}
    <3>1. PICK k \in AnnouncedLinks : {k.src, k.dst} = {s, Root}
      BY <2>2
    <3> DEFINE l == Link(k.src, k.sp, k.dst, Sees[k.dst][k.src], "uplink")
    <3>2. l \in Uplinks
      BY <2>1, <3>1
    <3>3. l.src = k.src /\ l.sp = k.sp /\ l.dst = k.dst /\ l.dp = Sees[k.dst][k.src]
      BY DEF Link
    <3>4. /\ k.dst \in NextTo(cables, k.src) /\ k.sp = Toward[<<k.src, k.dst>>]
          /\ k.src \in NextTo(cables, k.dst) /\ Sees[k.dst][k.src] = Toward[<<k.dst, k.src>>]
      BY AnnouncedFound, SeesCabled
    <3>5. CASE k.src = s
      <4>1. k.dst = Root
        BY <1>1, <3>1, <3>5
      <4> QED
        BY <1>0, <1>6, <3>2, <3>3, <3>4, <3>5, <4>1 DEF EndsOf
    <3>6. CASE k.src = Root
      <4>1. k.dst = s
        BY <1>1, <3>1, <3>6
      <4> QED
        BY <1>0, <1>6, <3>2, <3>3, <3>4, <3>6, <4>1 DEF EndsOf
    <3> QED
      BY <3>1, <3>5, <3>6
  <2>3. CASE ~\E k \in AnnouncedLinks : {k.src, k.dst} = {s, Root}
    <3> DEFINE k == [src |-> s, sp |-> Least(Picks(Candidates(Sees), s, Root)), dst |-> Root]
               l == Link(k.src, k.sp, k.dst, Sees[k.dst][k.src], "uplink")
    <3>1. PICK x \in Candidates(Sees) : x[1] = s /\ x[3] = Root
      BY <1>4
    <3>2. {x[1], x[3]} \notin {{j.src, j.dst} : j \in AnnouncedLinks} /\ IsRouter(x[3])
      BY <2>3, <3>1 DEF IsRouter
    <3>3. k \in DeducedLinks(Sees)
      <4>1. [src |-> x[1], sp |-> Least(Picks(Candidates(Sees), x[1], x[3])), dst |-> x[3]]
            \in DeducedLinks(Sees)
        BY <3>2, Zenon DEF DeducedLinks
      <4> QED
        BY <3>1, <4>1
    <3>4. k.src = s /\ k.dst = Root /\ k.sp = q
      BY <1>0, <1>5, OnlyPort
    <3>5. l \in Uplinks
      BY <2>1, <3>3, <3>4
    <3>6. l.src = s /\ l.sp = q
      BY <3>4 DEF Link
    <3> QED
      BY <1>0, <3>5, <3>6 DEF EndsOf
  <2> QED
    BY <2>2, <2>3
<1> QED
  BY <1>7, <1>8

-----------------------------------------------------------------------------
(* Hosts are shown off the cables.                                          *)

\* A host that is plugged into a free port of a switch is placed there.
LEMMA HostAtItsPort ==
  ASSUME Known, NEW h \in Hosts, plugged[h] # None,
         {plugged[h][1], conf.cluster[h]} \subseteq Managed,
         Role(plugged[h][1]) = "switch", FreeOfCables(plugged[h])
  PROVE  h \in AttachedHosts(Uplinks) /\ HostPlace(Uplinks, h) = plugged[h]
<1> DEFINE x      == plugged[h]
           seen   == {y \in HostSightings(Uplinks, h) : Role(y[1]) # "router"}
           direct == {y \in seen : OtherSwitches(y[1], y[2]) = {}}
<1>0. h \in Stations /\ SwitchMacs \subseteq Devices /\ Managed \subseteq Devices
  BY DEF Stations, SwitchMacs, Managed
<1>1. x \in Place /\ x[1] \in Managed /\ x[2] \in Ports /\ x = <<x[1], x[2]>>
  BY <1>0 DEF Known, TypeInv, Place
<1>2. \A e \in NextTo(cables, x[1]) : Toward[<<x[1], e>>] # x[2]
  BY DEF FreeOfCables, NextTo
<1>3. x \notin Occupied(Uplinks)
  <2>1. ASSUME NEW l \in Uplinks PROVE x # <<l.src, l.sp>> /\ x # <<l.dst, l.dp>>
    BY <1>1, <1>2, FreePortIsNoEnd DEF FreeOfCables
  <2> QED
    BY <1>1, <2>1, PlaceIsEnd DEF Occupied
<1>4. x \in direct
  <2>1. h \in OnPort(x[1], x[2]) /\ Devices \cap OnPort(x[1], x[2]) = {}
    BY <1>0, <1>1, <1>2, FreePort
  <2>2. x \in HostSightings(Uplinks, h)
    BY <1>1, <1>3, <2>1 DEF HostSightings
  <2> QED
    BY <1>0, <2>1, <2>2 DEF OtherSwitches
<1>5. ASSUME NEW y \in direct PROVE y = x
  <2>1. /\ y \in Managed \X Ports /\ h \in OnPort(y[1], y[2])
        /\ OtherSwitches(y[1], y[2]) = {}
    BY DEF HostSightings
  <2>2. y[1] \in Devices /\ y[2] \in Ports /\ y = <<y[1], y[2]>>
    BY <1>0, <2>1
  <2>3. ASSUME NEW e \in NextTo(cables, y[1]), x[1] \in BeyondIn(cables, y[1], e),
               Toward[<<y[1], e>>] = y[2]
        PROVE  FALSE
    BY <1>1, <2>1, <2>2, <2>3, BeyondIsSwitch
  <2>4. \/ x = <<y[1], y[2]>>
        \/ \E e \in NextTo(cables, y[1]) :
             x[1] \in BeyondIn(cables, y[1], e) /\ Toward[<<y[1], e>>] = y[2]
    BY <1>0, <2>1, <2>2, StationSeen
  <2> QED
    BY <2>2, <2>3, <2>4
<1> HIDE DEF x
<1>6. direct = {x}
  BY <1>4, <1>5
<1>7. HostPlace(Uplinks, h) = CHOOSE y \in direct : \A z \in direct \ {y} : Preceding(y, z)
  BY <1>4 DEF HostPlace
<1> HIDE DEF direct
<1>8. HostPlace(Uplinks, h) = x
  BY <1>6, <1>7
<1>9. x # None
  BY <1>1, NoPlaceIsNone
<1> QED
  BY <1>8, <1>9 DEF AttachedHosts, x

\* The links of a host are drawn at the place that was found for it.
LEMMA HostDrawn ==
  ASSUME TypeInv, NEW read, NEW written, Draw(Uplinks, read, written), NEW h \in Hosts
  PROVE  /\ \A l \in HostLinksOf(h)' :
              h \in AttachedHosts(Uplinks) /\ <<l.src, l.sp>> = HostPlace(Uplinks, h)
         /\ h \in AttachedHosts(Uplinks) =>
              \E l \in HostLinksOf(h)' : <<l.src, l.sp>> = HostPlace(Uplinks, h)
<1> DEFINE At(k)     == HostPlace(Uplinks, k)
           LinkTo(k) == Link(At(k)[1], At(k)[2], k, Unnamed, "physical_host")
<1>1. ASSUME NEW k \in AttachedHosts(Uplinks)
      PROVE  /\ LinkTo(k).dst = k /\ LinkTo(k).kind = "physical_host"
             /\ <<LinkTo(k).src, LinkTo(k).sp>> = At(k)
  <2>1. At(k) \in Place
    BY HostPlaced DEF AttachedHosts
  <2>2. At(k) = <<At(k)[1], At(k)[2]>>
    BY <2>1 DEF Place
  <2> HIDE DEF At
  <2> QED
    BY <2>2 DEF Link
<1>2. HostLinks(Uplinks) = {LinkTo(k) : k \in AttachedHosts(Uplinks)}
  BY DEF HostLinks
<1> HIDE DEF At, LinkTo
<1>3. ASSUME NEW l \in HostLinksOf(h)'
      PROVE  h \in AttachedHosts(Uplinks) /\ <<l.src, l.sp>> = At(h)
  <2>1. l \in map'.links /\ l.kind = "physical_host" /\ l.dst = h
    BY DEF HostLinksOf
  <2>2. l \notin Uplinks
    BY <2>1, UplinkEnds
  <2>3. ASSUME NEW m PROVE l # ClientLink(RowsRead(read), Trunks, m)
    BY <2>1 DEF ClientLink, Link
  <2>4. l \in HostLinks(Uplinks)
    BY <2>1, <2>2, <2>3, DrawnLinks
  <2>5. PICK k \in AttachedHosts(Uplinks) : l = LinkTo(k)
    BY <1>2, <2>4
  <2> QED
    BY <1>1, <2>1, <2>5
<1>4. ASSUME h \in AttachedHosts(Uplinks) PROVE LinkTo(h) \in HostLinksOf(h)'
  <2>1. map' = Drawn(Backbone, Trunks, RowsRead(read), ShownClients(RowsRead(read), Trunks))
    BY DEF Draw, Backbone, Trunks
  <2>2. LinkTo(h) \in HostLinks(Uplinks)
    BY <1>2, <1>4
  <2>3. LinkTo(h) \in map'.links
    BY <2>1, <2>2 DEF Drawn, Backbone
  <2> QED
    BY <1>1, <1>4, <2>3 DEF HostLinksOf
<1> QED
  BY <1>1, <1>3, <1>4 DEF At

LEMMA HostsOffTrunksStep ==
  ASSUME TypeInv, SceneInv, HostsOffTrunks, [Next]_vars
  PROVE  HostsOffTrunks'
<1> DEFINE OffLinks(h, l) ==
             /\ Role(l.src) # "router"
             /\ l.sp \in VlanPorts
                  \/ \A k \in DeviceLinks : <<l.src, l.sp>> \notin {<<k.src, k.sp>>, <<k.dst, k.dp>>}
           AtPort(h) ==
             plugged[h] # None /\ {plugged[h][1], conf.cluster[h]} \subseteq Managed
             /\ Role(plugged[h][1]) = "switch" /\ FreeOfCables(plugged[h])
             => {<<l.src, l.sp>> : l \in HostLinksOf(h)} = {plugged[h]}
<1>1. CASE UNCHANGED vars
  <2>1. UNCHANGED <<conf, table, cables, plugged, drawn, map>>
    BY <1>1 DEF vars, topologyVars
  <2>2. /\ Read <=> Read'
        /\ Managed' = Managed /\ DeviceLinks' = DeviceLinks
        /\ \A h : HostLinksOf(h)' = HostLinksOf(h)
        /\ \A d : Role(d)' = Role(d)
        /\ \A x : FreeOfCables(x)' <=> FreeOfCables(x)
    BY <2>1 DEF Read, Learned, Beyond, PluggedInto, Managed, DeviceLinks, HostLinksOf, Role,
                FreeOfCables
  <2> QED
    BY <2>1, <2>2 DEF HostsOffTrunks
<1>2. ASSUME NEW read, NEW written,
             Draw(Uplinks, read, written), UNCHANGED <<scene, cables, plugged>>
      PROVE  HostsOffTrunks'
  <2>1. UNCHANGED <<conf, table, cables, plugged>>
    BY <1>2 DEF Draw
  <2>2. /\ Read <=> Read'
        /\ Managed' = Managed
        /\ \A d : Role(d)' = Role(d)
        /\ \A x : FreeOfCables(x)' <=> FreeOfCables(x)
    BY <2>1 DEF Read, Learned, Beyond, PluggedInto, Managed, Role, FreeOfCables
  <2>3. ASSUME NEW h \in Hosts, NEW l \in HostLinksOf(h)' PROVE OffLinks(h, l)'
    <3>1. h \in AttachedHosts(Uplinks) /\ <<l.src, l.sp>> = HostPlace(Uplinks, h)
      BY <1>2, HostDrawn
    <3>2. /\ HostPlace(Uplinks, h) \in Place \ Occupied(Uplinks)
          /\ Role(HostPlace(Uplinks, h)[1]) # "router"
      BY <3>1, HostPlaced DEF AttachedHosts
    <3>3. /\ <<l.src, l.sp>> \in Place /\ <<l.src, l.sp>> \notin EndsOf(Uplinks)
          /\ Role(l.src) # "router"
      BY <3>1, <3>2 DEF Occupied
    <3>4. ASSUME NEW k \in DeviceLinks', l.sp \notin VlanPorts
          PROVE  <<l.src, l.sp>> \notin {<<k.src, k.sp>>, <<k.dst, k.dp>>}
      <4>1. k \in Uplinks
        BY <1>2, DrawnUplinks
      <4> QED
        BY <3>3, <3>4, <4>1 DEF EndsOf, Relabelled
    <3> QED
      BY <2>2, <3>3, <3>4
  <2>4. ASSUME Read, NEW h \in Hosts PROVE AtPort(h)'
    <3> SUFFICES ASSUME plugged[h] # None, {plugged[h][1], conf.cluster[h]} \subseteq Managed,
                        Role(plugged[h][1]) = "switch", FreeOfCables(plugged[h])
                 PROVE  {<<l.src, l.sp>> : l \in HostLinksOf(h)'} = {plugged[h]}
      BY <2>1, <2>2
    <3>1. h \in AttachedHosts(Uplinks) /\ HostPlace(Uplinks, h) = plugged[h]
      BY <2>4, HostAtItsPort DEF Known
    <3>2. \A l \in HostLinksOf(h)' : <<l.src, l.sp>> = plugged[h]
      BY <1>2, <3>1, HostDrawn
    <3>3. \E l \in HostLinksOf(h)' : <<l.src, l.sp>> = plugged[h]
      BY <1>2, <3>1, HostDrawn
    <3> QED
      BY <3>2, <3>3
  <2> HIDE DEF OffLinks, AtPort
  <2>5. (\A h \in Hosts : \A l \in HostLinksOf(h)' : OffLinks(h, l)')
        /\ (Read' => \A h \in Hosts : AtPort(h)')
    BY <2>2, <2>3, <2>4
  <2> QED
    BY <2>5 DEF HostsOffTrunks, OffLinks, AtPort
<1>3. CASE ~drawn'
  BY <1>3 DEF HostsOffTrunks
<1> QED
  BY <1>1, <1>2, <1>3, DrawnByDraw

\* Hosts are never shown on a router, nor on a port that the same map uses for a
\* cable between devices unless it is a VLAN port, whatever the tables hold and
\* whatever was remembered of the host; and from tables that are read, a host that
\* is plugged into a switch is shown at its own port and nowhere else
\* (_resolve_physical_host_uplink).
THEOREM HostsStayOffTrunks == Spec => []HostsOffTrunks
<1>1. Init => HostsOffTrunks
  BY DEF Init, HostsOffTrunks
<1>2. TypeInv /\ SceneInv /\ HostsOffTrunks /\ [Next]_vars => HostsOffTrunks'
  BY HostsOffTrunksStep
<1> QED
  BY <1>1, <1>2, SceneStays, PTL DEF Spec

-----------------------------------------------------------------------------
(* Clients are shown where they are plugged in.                             *)

\* No link between devices or to a host ends at a port that clients use.
LEMMA ClientPortIsNoTrunk ==
  ASSUME Known, HostsApart, NEW x \in ClientPorts(scene)
  PROVE  x \notin Trunks
<1>1. /\ x \in Place /\ x[1] \in Devices /\ x[2] \in Ports /\ x = <<x[1], x[2]>>
      /\ \A e \in NextTo(cables, x[1]) : Toward[<<x[1], e>>] # x[2]
  BY ClientPortsType DEF Known
<1>2. PortsApart(scene) /\ conf.uplink = scene.conf.uplink
  BY StationsAssumption DEF Known, TypeInv, SceneInv
<1>3. ASSUME NEW l \in Uplinks
      PROVE  x # <<l.src, l.sp>> /\ x # <<l.dst, l.dp>>
  <2>1. conf.uplink[x[1]] # None => conf.uplink[x[1]].own # x[2]
    BY <1>2 DEF PortsApart
  <2> QED
    BY <1>1, <2>1, FreePortIsNoEnd
<1>4. ASSUME NEW l \in HostLinks(Uplinks)
      PROVE  x # <<l.src, l.sp>> /\ x # <<l.dst, l.dp>>
  <2> DEFINE At(h) == HostPlace(Uplinks, h)
  <2>1. PICK h \in Hosts : /\ At(h) # None
                           /\ l = Link(At(h)[1], At(h)[2], h, Unnamed, "physical_host")
    BY DEF HostLinks, AttachedHosts
  <2>2. l.src = At(h)[1] /\ l.sp = At(h)[2] /\ l.dst = h
    BY <2>1 DEF Link
  <2>3. /\ At(h) \in Place
        /\ At(h) = hostLink[h] \/ At(h) \in HostSightings(Uplinks, h)
    BY <2>1, HostPlaced DEF Known
  <2>4. At(h) = <<At(h)[1], At(h)[2]>>
    BY <2>3 DEF Place
  <2>5. h \in table[At(h)[1]][At(h)[2]] \/ At(h) = hostLink[h]
    BY <2>3 DEF HostSightings, OnPort
  <2> HIDE DEF At
  <2>6. x # At(h)
    BY <2>5 DEF HostsApart
  <2>7. h \notin Devices
    BY ThingsAssumption
  <2> QED
    BY <1>1, <2>2, <2>4, <2>6, <2>7
<1>5. x \in Trunks => \E l \in Uplinks \cup HostLinks(Uplinks) :
                        x = <<l.src, l.sp>> \/ x = <<l.dst, l.dp>>
  BY <1>1, PlaceIsEnd DEF Trunks, Backbone
<1> QED
  BY <1>3, <1>4, <1>5

\* The port of a client counts as a leaf, and no other port that learned its
\* address does: on every other one, the device of that port is in sight.
LEMMA PortIsLeaf ==
  ASSUME Known, Plugged, HostsApart, NEW m \in Clients,
         plugged[m] # None, plugged[m][1] \in Managed,
         plugged[m][1] = Root => VlansOfRouters
  PROVE  /\ plugged[m] \in ClientPorts(scene)
         /\ LeafPorts(Trunks, m) = {plugged[m]}
<1> DEFINE x == plugged[m]
<1>0. m \in Stations /\ SwitchMacs \subseteq Devices /\ Managed \subseteq Devices
  BY DEF Stations, SwitchMacs, Managed
<1>1. x \in ClientPorts(scene)
  <2>1. x \in scene.plugs[m]
    BY <1>0 DEF Plugged
  <2> QED
    BY <2>1 DEF ClientPorts
<1>2. /\ x \in Place /\ x[1] \in Devices /\ x[2] \in Ports /\ x = <<x[1], x[2]>>
      /\ \A e \in NextTo(cables, x[1]) : Toward[<<x[1], e>>] # x[2]
  BY <1>1, ClientPortsType DEF Known
<1>3. x \in LeafPorts(Trunks, m)
  <2>1. m \in OnPort(x[1], x[2]) /\ Devices \cap OnPort(x[1], x[2]) = {}
    BY <1>0, <1>2, FreePort
  <2>2. x \notin Trunks
    BY <1>1, ClientPortIsNoTrunk
  <2>3. ~(RoutesLike(x[1]) /\ x[2] \in VirtualPorts)
    <3>1. PortsApart(scene) /\ conf.gateway = scene.conf.gateway /\ conf.role = scene.conf.role
      BY StationsAssumption DEF Known, TypeInv, SceneInv
    <3>2. x[2] \in VirtualPorts => x[1] \notin conf.gateway /\ conf.role[x[1]] # "router"
      BY <1>1, <3>1 DEF PortsApart
    <3> QED
      BY <3>2 DEF RoutesLike, Role
  <2>4. OtherSwitches(x[1], x[2]) = {}
    BY <1>0, <2>1 DEF OtherSwitches
  <2> QED
    BY <1>2, <2>1, <2>2, <2>3, <2>4 DEF LeafPorts, SightingsOf
<1>4. ASSUME NEW y \in LeafPorts(Trunks, m), y # x PROVE FALSE
  <2>1. /\ y \in Managed \X Ports /\ m \in OnPort(y[1], y[2]) /\ y \notin Trunks
        /\ OtherSwitches(y[1], y[2]) \subseteq {Root}
        /\ ~(RoutesLike(y[1]) /\ y[2] \in VirtualPorts)
    BY DEF LeafPorts, SightingsOf
  <2>2. y[1] \in Managed /\ y[1] \in Devices /\ y[2] \in Ports /\ y = <<y[1], y[2]>>
    BY <1>0, <2>1
  <2>3. PICK e \in NextTo(cables, y[1]) :
               x[1] \in BeyondIn(cables, y[1], e) /\ Toward[<<y[1], e>>] = y[2]
    BY <1>0, <1>4, <2>1, <2>2, StationSeen
  <2>4. x[1] = Root
    BY <2>1, <2>2, <2>3, BeyondIsSwitch
  <2>5. y[2] \notin VlanPorts
    <3>1. e \in Devices /\ {y[1], e} \in cables
      BY DEF NextTo
    <3> QED
      BY <2>1, <2>2, <2>3, <2>4, <3>1, ThingsAssumption DEF VlansOfRouters
  <2>6. y \in EndsOf(Uplinks)
    BY <2>1, <2>2, <2>3, <2>4, <2>5, RootTrunk
  <2>7. EndsOf(Uplinks) \subseteq Trunks
    BY DEF Trunks, Backbone, EndsOf
  <2> QED
    BY <2>1, <2>6, <2>7
<1> QED
  BY <1>1, <1>3, <1>4

LEMMA LeafIsPort ==
  ASSUME Known, Plugged, HostsApart, NEW m \in Clients,
         plugged[m] # None, plugged[m][1] \in Managed,
         plugged[m][1] = Root => VlansOfRouters
  PROVE  LeafPlace(Trunks, m) = plugged[m]
<1>1. LeafPorts(Trunks, m) = {plugged[m]} /\ plugged[m] \in Place
  BY PortIsLeaf, ClientPortsType DEF Known
<1>2. {plugged[m]} \subseteq Nat \X Nat /\ plugged[m] # None
  BY <1>1, NoPlaceIsNone
<1>3. FirstPlace({plugged[m]}) = plugged[m]
  BY <1>2, FirstPlaceIsOne
<1> DEFINE switched == {x \in LeafPorts(Trunks, m) : ~RoutesLike(x[1])}
<1>4. switched = {} \/ switched = {plugged[m]}
  BY <1>1
<1> QED
  BY <1>1, <1>3, <1>4 DEF LeafPlace

\* An access point that a client is taken to be behind is at the port of the client.
LEMMA OverAirThere ==
  ASSUME Known, Plugged, NEW m \in Clients, NEW a \in OverAir(m)
  PROVE  a \in Stations /\ plugged[a] = plugged[m]
<1> DEFINE x == plugged[a]
<1>1. /\ a \in AccessPoints /\ a \in Stations /\ m \in Stations
      /\ ApPlace(a) # None /\ m \in OnPort(ApPlace(a)[1], ApPlace(a)[2])
  BY DEF OverAir, BehindAp, Stations
<1>2. ApPlace(a) = x /\ x # None
  BY <1>1, ApFound
<1>3. x \in Place /\ x \in scene.plugs[a] \ {None} /\ PortsApart(scene)
  BY <1>1, <1>2, StationsAssumption DEF Known, TypeInv, Plugged
<1>4. \A e \in NextTo(cables, x[1]) : Toward[<<x[1], e>>] # x[2]
  <2>1. ASSUME NEW e \in NextTo(cables, x[1]) PROVE Toward[<<x[1], e>>] # x[2]
    <3>1. {x[1], e} \in UNION scene.cables /\ e \in Devices
      BY DEF NextTo, Known, TypeInv
    <3>2. x \in (UNION {scene.plugs[b] : b \in AccessPoints}) \ {None}
      BY <1>1, <1>3
    <3> QED
      BY <1>3, <3>1, <3>2 DEF PortsApart
  <2> QED
    BY <2>1
<1> HIDE DEF x
<1>5. plugged[m] = x
  BY <1>1, <1>2, <1>3, <1>4, FreePort
<1> QED
  BY <1>1, <1>5 DEF x

\* A phone that takes over a port that clients use is plugged in there.
LEMMA PhoneThere ==
  ASSUME Known, Plugged, NEW x \in ClientPorts(scene), NEW f \in PhonesAt(Trunks, x)
  PROVE  f \in Stations /\ plugged[f] = x
<1>1. /\ x \in Place /\ \A e \in NextTo(cables, x[1]) : Toward[<<x[1], e>>] # x[2]
  BY ClientPortsType DEF Known
<1>2. f \in Phones /\ f \in Stations /\ x \in {conf.phoneAt[f], PhonePlace(Trunks, f)}
  BY DEF PhonesAt, Known, TypeInv, Conf, Stations
<1>3. CASE x = conf.phoneAt[f]
  <2>1. scene.conf.phoneAt[f] # None /\ TruePlaces(scene)
    BY <1>1, <1>3, NoPlaceIsNone, StationsAssumption DEF Known, TypeInv, SceneInv
  <2>2. f \notin scene.moving /\ scene.plugs[f] = {x}
    BY <1>2, <1>3, <2>1 DEF TruePlaces, Known, SceneInv
  <2> QED
    BY <1>2, <2>2 DEF Plugged
<1>4. CASE x # conf.phoneAt[f]
  <2>1. x = LeafPlace(Trunks, f) /\ LeafPlace(Trunks, f) # None
    BY <1>2, <1>4 DEF PhonePlace
  <2>2. x \in LeafPorts(Trunks, f)
    BY <2>1, LeafPlaceType DEF Known
  <2>3. f \in OnPort(x[1], x[2])
    BY <2>2 DEF LeafPorts, SightingsOf
  <2> QED
    BY <1>1, <1>2, <2>3, FreePort
<1> QED
  BY <1>3, <1>4

\* What a client hangs from is its device, or is at its port.
LEMMA HangsThere ==
  ASSUME Known, Plugged, NEW x \in ClientPorts(scene)
  PROVE  HangsFrom(Trunks, x) = x[1] \/ HangsFrom(Trunks, x) \in Between(x)
<1>1. /\ x \in Place /\ x # None
      /\ \A e \in NextTo(cables, x[1]) : Toward[<<x[1], e>>] # x[2]
  BY ClientPortsType, NoPlaceIsNone DEF Known
<1> DEFINE infra == {i \in Infra : InfraPlace(i) = x}
<1>2. CASE infra # {}
  <2>1. HangsFrom(Trunks, x) \in infra
    BY <1>2 DEF HangsFrom
  <2>2. PICK i \in Infra : i = HangsFrom(Trunks, x) /\ InfraPlace(i) = x
    BY <2>1
  <2>3. EdgePorts(i) # {} /\ FirstPlace(EdgePorts(i)) = x
    BY <1>1, <2>2 DEF InfraPlace
  <2>4. EdgePorts(i) \subseteq Nat \X Nat
    BY NoPlaceIsNone DEF EdgePorts, SightingsOf, Managed
  <2>5. x \in EdgePorts(i)
    BY <2>3, <2>4, FirstPlaceIsOne
  <2>6. i \in OnPort(x[1], x[2]) /\ i \in Stations
    BY <2>5 DEF EdgePorts, SightingsOf, Stations
  <2>7. plugged[i] = x
    BY <1>1, <2>6, FreePort
  <2> QED
    BY <2>2, <2>6, <2>7 DEF Between
<1>3. CASE infra = {} /\ PhonesAt(Trunks, x) # {}
  <2>1. HangsFrom(Trunks, x) \in PhonesAt(Trunks, x)
    BY <1>3 DEF HangsFrom
  <2> QED
    BY <2>1, PhoneThere DEF Between
<1>4. CASE infra = {} /\ PhonesAt(Trunks, x) = {} /\ UnmanagedAt(x) # {}
  <2>1. HangsFrom(Trunks, x) \in UnmanagedAt(x)
    BY <1>4 DEF HangsFrom
  <2> QED
    BY <2>1 DEF UnmanagedAt, Between
<1>5. CASE infra = {} /\ PhonesAt(Trunks, x) = {} /\ UnmanagedAt(x) = {}
  BY <1>5 DEF HangsFrom
<1> QED
  BY <1>2, <1>3, <1>4, <1>5

\* A client that is plugged into a managed device is drawn, online, with a link
\* from its port or from what is in between.
LEMMA ClientLinkThere ==
  ASSUME Known, Plugged, HostsApart, NEW known, NEW m \in Clients,
         plugged[m] # None, plugged[m][1] \in Managed,
         plugged[m][1] = Root => VlansOfRouters
  PROVE  LET l == ClientLink(known, Trunks, m)
         IN  /\ m \in ShownClients(known, Trunks) /\ l.dst = m /\ l.on = TRUE
             /\ <<l.src, l.sp>> = plugged[m] \/ l.src \in Between(plugged[m])
<1> DEFINE x == plugged[m]
           l == ClientLink(known, Trunks, m)
           node == IF OverAir(m) # {} THEN CHOOSE a \in OverAir(m) : TRUE
                   ELSE HangsFrom(Trunks, ShownAt(known, Trunks, m))
<1>1. x \in ClientPorts(scene) /\ LeafPlace(Trunks, m) = x /\ x # None
  BY PortIsLeaf, LeafIsPort
<1>2. x = <<x[1], x[2]>>
  BY <1>1, ClientPortsType DEF Known
<1>3. Online(Trunks, m) = TRUE
  BY <1>1 DEF Online
<1>4. ShownAt(known, Trunks, m) # None /\ (OverAir(m) = {} => ShownAt(known, Trunks, m) = x)
  BY <1>1, ThingsAssumption DEF ShownAt
<1>5. m \notin conf.ignored \cup conf.likeGuest
  BY CablesAssumption, StationsAssumption
     DEF Known, TypeInv, SceneInv, Addressed, PortsApart
<1>6. m \in ShownClients(known, Trunks)
  BY <1>1, <1>4, <1>5 DEF ShownClients, KnownClients, ShownAsClient
<1>7. l.dst = m /\ l.on = TRUE /\ l.src = node /\ l.sp = ShownAt(known, Trunks, m)[2]
  BY <1>3 DEF ClientLink, Link
<1>8. CASE OverAir(m) # {}
  <2>1. node \in OverAir(m)
    BY <1>8
  <2>2. node \in Between(x)
    BY <2>1, OverAirThere DEF Between
  <2> QED
    BY <1>6, <1>7, <2>2
<1>9. CASE OverAir(m) = {}
  <2>1. node = HangsFrom(Trunks, x) /\ l.sp = x[2]
    BY <1>4, <1>7, <1>9
  <2>2. node = x[1] \/ node \in Between(x)
    BY <1>1, <2>1, HangsThere
  <2> HIDE DEF node, l, x
  <2>3. <<l.src, l.sp>> = x \/ l.src \in Between(x)
    BY <1>2, <1>7, <2>1, <2>2
  <2> QED
    BY <1>6, <1>7, <2>3 DEF l, x
<1> QED
  BY <1>8, <1>9

LEMMA ClientsAtTheirPortStep ==
  ASSUME TypeInv, SceneInv, Plugged, HostsApart, ClientsAtTheirPort, [Next]_vars
  PROVE  ClientsAtTheirPort'
<1>1. CASE UNCHANGED vars
  <2>1. UNCHANGED <<conf, table, cables, plugged, drawn, map>>
    BY <1>1 DEF vars, topologyVars
  <2>2. /\ Read <=> Read'
        /\ Managed' = Managed /\ \A x : Between(x)' = Between(x)
        /\ Root' = Root /\ (VlansOfRouters <=> VlansOfRouters')
    BY <2>1 DEF Read, Learned, Beyond, PluggedInto, Managed, Between, Root, Role,
                VlansOfRouters, RoutesLike
  <2> QED
    BY <2>1, <2>2 DEF ClientsAtTheirPort, UpToDate
<1>2. ASSUME NEW read, NEW written,
             Draw(Uplinks, read, written), UNCHANGED <<scene, cables, plugged>>
      PROVE  ClientsAtTheirPort'
  <2>1. UNCHANGED <<conf, table, cables, plugged>>
    BY <1>2 DEF Draw
  <2>2. /\ Read <=> Read'
        /\ Managed' = Managed /\ \A x : Between(x)' = Between(x)
        /\ Root' = Root /\ (VlansOfRouters <=> VlansOfRouters')
    BY <2>1 DEF Read, Learned, Beyond, PluggedInto, Managed, Between, Root, Role,
                VlansOfRouters, RoutesLike
  <2>3. SUFFICES ASSUME Read, NEW m \in Clients, plugged[m] # None, plugged[m][1] \in Managed,
                        plugged[m][1] = Root => VlansOfRouters
                 PROVE  \E l \in map'.links :
                          /\ {k \in map'.links : k.dst = m} = {l}
                          /\ l.on
                          /\ <<l.src, l.sp>> = plugged[m] \/ l.src \in Between(plugged[m])
    BY <2>1, <2>2 DEF ClientsAtTheirPort, UpToDate
  <2>4. Known
    BY <2>3 DEF Known
  <2> DEFINE l == ClientLink(RowsRead(read), Trunks, m)
  <2>5. /\ m \in ShownClients(RowsRead(read), Trunks) /\ l.dst = m /\ l.on = TRUE
        /\ <<l.src, l.sp>> = plugged[m] \/ l.src \in Between(plugged[m])
    BY <2>3, <2>4, ClientLinkThere
  <2>6. l \in map'.links
    BY <1>2, <2>5, LinkDrawn
  <2>7. ASSUME NEW k \in map'.links, k.dst = m PROVE k = l
    BY <1>2, <2>7, LinkOfClient
  <2> HIDE DEF l
  <2>8. {k \in map'.links : k.dst = m} = {l}
    BY <2>5, <2>6, <2>7
  <2> QED
    BY <2>5, <2>6, <2>8
<1>3. CASE ~drawn'
  BY <1>3 DEF ClientsAtTheirPort, UpToDate
<1> QED
  BY <1>1, <1>2, <1>3, DrawnByDraw

\* From tables that are read, a client that is plugged into a managed device is
\* shown once, online and at its port, or at the access point, phone, unmanaged
\* switch or device that is at that port, however the network is cabled and
\* configured and whatever was shown before (_build_client_nodes).
THEOREM ClientsAreAtTheirPort == Spec => []ClientsAtTheirPort
<1>1. Init => ClientsAtTheirPort
  BY DEF Init, ClientsAtTheirPort, UpToDate
<1>2. TypeInv /\ SceneInv /\ Plugged /\ HostsApart /\ ClientsAtTheirPort /\ [Next]_vars
        => ClientsAtTheirPort'
  BY ClientsAtTheirPortStep
<1> QED
  BY <1>1, <1>2, StationsStay, PTL DEF Spec
=============================================================================
