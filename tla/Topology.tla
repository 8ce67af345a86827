------------------------------ MODULE Topology ------------------------------
(***************************************************************************)
(* The network map (services/topology_service.py).  From the configuration, *)
(* the forwarding tables and neighbours that the devices last reported, and *)
(* the stored clients, build_topology deduces which devices are cabled to   *)
(* each other, where hosts, access points, phones and clients are attached, *)
(* and returns nodes and links.  Two things outlive a drawing: the place    *)
(* where a host was last seen, in memory, and the rows of the clients, which *)
(* drawing the map writes.                                                  *)
(*                                                                         *)
(* A device is the address it is configured with, numbered in the order of  *)
(* the configuration; a MAC address is the thing that has it; tables are    *)
(* read in the order of the ports.  Names, speeds and traffic are left out. *)
(***************************************************************************)
EXTENDS Integers, FiniteSets

CONSTANTS Devices,       \* configured managed devices, a set of numbers
          Ports,         \* ports of devices, positive numbers
          VirtualPorts,  \* VLAN, tunnel and loopback interfaces among them
          VlanPorts,     \* the VLANs among those: their names begin with "vlan"
          AccessPoints,  \* access points and repeaters
          Infra,         \* other infrastructure devices
          Phones,        \* phones, with or without a pass-through port
          Hosts,         \* physical members of virtualisation clusters
          Unmanaged,     \* unmanaged switches, known from the configuration
          Guests,        \* virtual machines and containers
          Clients,       \* everything else with a MAC address
          Onts,          \* optical terminals
          Internet,      \* the node above them
          Elsewhere,     \* an address that is not of a configured device
          None

Unnamed == 0             \* "unknown", "uplink", "LAN": not the name of a port

Macs  == Devices \cup AccessPoints \cup Infra \cup Phones \cup Hosts \cup
         Guests \cup Clients
Place == Devices \X Ports
Roles == {"router", "switch", "virtualisation_host"}

\* What is configured, for the properties and the proofs.
Conf ==
  [disabled : SUBSET Devices, proxmox : SUBSET Devices, gateway : SUBSET Devices,
   addressed : SUBSET Devices, announces : SUBSET Devices, ignored : SUBSET Macs,
   likeGuest : SUBSET Macs, passthrough : SUBSET Phones,
   role : [Devices -> Roles \cup {None}],
   uplink : [Devices -> [parent : Devices \cup Phones, port : Ports \cup {Unnamed},
                         own : Ports \cup {Unnamed}] \cup {None}],
   apAt : [AccessPoints -> Place \cup {None}], phoneAt : [Phones -> Place \cup {None}],
   ontAt : [Onts -> Place \cup {None}], below : [Unmanaged -> Place],
   client : [Clients -> ((Devices \cup {None}) \X (Ports \cup {Unnamed})) \cup {None}],
   cluster : [Hosts -> Devices], guest : [Guests -> [cluster : Devices, node : Hosts]]]

\* The same address is not of two things.
ASSUME ThingsAssumption ==
  /\ Devices \subseteq Nat \ {0} /\ Ports \subseteq Nat \ {0}
  /\ VlanPorts \subseteq VirtualPorts
  /\ IsFiniteSet(Macs)
  /\ Devices \cap (AccessPoints \cup Infra \cup Phones \cup Hosts \cup Unmanaged \cup
                  Guests \cup Clients \cup Onts) = {}
  /\ Clients \cap (AccessPoints \cup Infra \cup Phones \cup Hosts \cup Unmanaged \cup
                  Guests \cup Onts) = {}
  /\ Unmanaged \cap (AccessPoints \cup Infra \cup Phones) = {}
  /\ Elsewhere \notin Devices \cup Unmanaged
  /\ None \notin (Devices \cup {Elsewhere}) \X (Ports \cup {Unnamed})
  /\ None \notin Devices \cup {Elsewhere}

VARIABLES conf,       \* the configuration
          table,      \* per device and port, the MAC addresses learned there
          neighbors,  \* per device, the <<port, device>> pairs announced to it
          hostLink,   \* _physical_host_link_cache
          row,        \* table discovered_clients: place and status
          map         \* the last map that was drawn

topologyVars == <<conf, table, neighbors, hostLink, row, map>>

NoMap == [nodes |-> {}, links |-> {}, role |-> [x \in Place |-> "access"]]

-----------------------------------------------------------------------------
(* The devices.                                                            *)

Managed == {d \in Devices : d \notin conf.disabled}

\* A Proxmox device is a host whatever its configuration says; a device
\* without a role is judged by its model or name.
Role(d) ==
  IF d \in conf.proxmox THEN "virtualisation_host"
  ELSE IF conf.role[d] # None THEN conf.role[d]
  ELSE IF d \in conf.gateway THEN "router" ELSE "switch"

IsHub(d) == d \in conf.proxmox

\* mac_to_switch_ip: devices whose MAC address is known.
SwitchMacs == {d \in Managed \cap conf.addressed :
                 Role(d) # "virtualisation_host"}

Least(S) == CHOOSE x \in S : \A y \in S : x <= y

\* The first gateway, or else the first device that is not a host.
Root ==
  LET gateways == {d \in Managed : Role(d) = "router" \/ d \in conf.gateway}
      others   == {d \in Managed : Role(d) # "virtualisation_host"}
  IN  IF gateways # {} THEN Least(gateways)
      ELSE IF others # {} THEN Least(others) ELSE Unnamed

IsRouter(d)   == Role(d) = "router" \/ d = Root
RoutesLike(d) == Role(d) = "router" \/ d \in conf.gateway

\* Ignored addresses are not taken from the tables.
OnPort(d, p) == table[d][p] \ conf.ignored

Before(x, y) == x[1] < y[1] \/ (x[1] = y[1] /\ x[2] <= y[2])
FirstPlace(S) == CHOOSE x \in S : \A y \in S : Before(x, y)

-----------------------------------------------------------------------------
(* Which devices are cabled to each other.                                  *)

\* switch_sees_switch: the port where s learned the address of t, or else one
\* where it learned an address that t learned too; Unnamed if there is none.
SeesByAddress(s, t) ==
  {p \in Ports : t \in conf.addressed /\ t \in OnPort(s, p)}

SharedPairs(s, t) ==
  {x \in Ports \X Ports :
     (OnPort(t, x[1]) \cap OnPort(s, x[2]))
       \ (conf.addressed \cap {s, Root}) # {}}

SeesOn(s, t) ==
  IF {s, t} \subseteq Managed
  THEN IF SeesByAddress(s, t) # {} THEN Least(SeesByAddress(s, t))
       ELSE IF SharedPairs(s, t) # {} THEN FirstPlace(SharedPairs(s, t))[2]
       ELSE Unnamed
  ELSE Unnamed

Sees == [s \in Devices |-> [t \in Devices |-> SeesOn(s, t)]]

\* Links announced by LLDP or CDP; of two announcements the first one counts.
Announced(a, b) ==
  {p \in Ports : /\ <<p, b>> \in neighbors[a]
                 /\ a \in Managed /\ b \in SwitchMacs /\ a # b}

AnnouncedLinks ==
  {[src |-> x[1], sp |-> Least(Announced(x[1], x[2])), dst |-> x[2]] :
     x \in {y \in Devices \X Devices :
             /\ Announced(y[1], y[2]) # {}
             /\ Announced(y[2], y[1]) # {} => y[1] < y[2]}}

Sources == {d \in Managed : ~IsRouter(d) /\ Role(d) # "virtualisation_host"}

\* The devices reached through a port of s.
Behind(sees, s, p) ==
  LET learned == (SwitchMacs \cap OnPort(s, p)) \ {s}
  IN  learned \cup {t \in Managed \ {s} : ~IsRouter(t) /\ sees[s][t] = p}

\* t is reached through u: u sees t and s on different ports; a router is also
\* behind a switch that sees it and not s.
\* Mutant: u sees t, on whatever port.
TransitSeen(sees, s, t, u) == sees[u][t] # Unnamed /\ sees[u][s] # Unnamed

Transit(sees, s, t, u) ==
  \/ /\ IsRouter(t) /\ ~IsRouter(u)
     /\ sees[u][Root] # Unnamed
     /\ sees[u][s] # sees[u][Root]
  \/ /\ sees[u][t] # Unnamed /\ sees[u][s] # Unnamed
     /\ sees[u][t] # sees[u][s]

DirectNeighbors(sees, s, p) ==
  {t \in Behind(sees, s, p) :
     /\ IsRouter(t) \/ sees[t][s] # Unnamed
     /\ \A u \in Behind(sees, s, p) \ {t} : ~Transit(sees, s, t, u)}

\* port_candidates: <<s, p, t>> if s finds t next to its port p.
Candidates(sees) ==
  UNION {{<<x[1], x[2], t>> : t \in DirectNeighbors(sees, x[1], x[2])} :
           x \in Sources \X Ports}

\* The ports of s where it finds t next to it.
Picks(chosen, s, t) == {x[2] : x \in {c \in chosen : c[1] = s /\ c[3] = t}}

\* Links between two switches need the choice of both; a router never chooses.
DeducedLinks(sees) ==
  LET chosen == Candidates(sees)
      known  == {{l.src, l.dst} : l \in AnnouncedLinks}
  IN  {[src |-> c[1], sp |-> Least(Picks(chosen, c[1], c[3])), dst |-> c[3]] :
         c \in {x \in chosen :
                 /\ {x[1], x[3]} \notin known
                 /\ \/ IsRouter(x[3])
                    \/ Picks(chosen, x[3], x[1]) # {} /\ x[1] < x[3]}}

Link(a, ap, b, bp, kind) ==
  [src |-> a, sp |-> ap, dst |-> b, dp |-> bp, kind |-> kind, on |-> TRUE]

\* Uplinks of the configuration, below a device or the phone it is plugged in.
Uplinked == {d \in Managed : conf.uplink[d] # None /\ ~IsHub(d)}

StaticLink(sees, d) ==
  LET up == conf.uplink[d]
      At(p, other) == IF p # Unnamed THEN p ELSE other
  IN  IF up.parent \in Phones
      THEN Link(up.parent, up.port, d, up.own, "uplink")
      ELSE Link(up.parent, At(up.port, sees[up.parent][d]),
                d, At(up.own, sees[d][up.parent]), "uplink")

Contradicted(l) == l.src \in Uplinked \/ l.dst \in Uplinked

LinksBetween(sees) ==
  {StaticLink(sees, d) : d \in Uplinked} \cup
  {Link(l.src, l.sp, l.dst, sees[l.dst][l.src], "uplink") :
     l \in {k \in AnnouncedLinks \cup DeducedLinks(sees) : ~Contradicted(k)}}

Uplinks == UNION {LinksBetween(sees) : sees \in {Sees}}

\* A link holds the label of its port, not its name, and labels are compared with
\* names: "VLAN 3", the label of vlan03, is the name of no port
\* (format_port_display, normalize_port).
Relabelled(p) == IF p \in VlanPorts THEN Unnamed ELSE p

EndsOf(links) ==
  {<<l.src, Relabelled(l.sp)>> : l \in links} \cup
  {<<l.dst, Relabelled(l.dp)>> : l \in links}

-----------------------------------------------------------------------------
(* Where the physical hosts are attached.                                   *)

Occupied(up) == EndsOf(up) \cap Place

OtherSwitches(d, p) == (SwitchMacs \cap OnPort(d, p)) \ {d}

HostSightings(up, h) ==
  {x \in (Managed \X Ports) \ Occupied(up) :
     /\ h \in OnPort(x[1], x[2])
     /\ Role(x[1]) # "virtualisation_host"
     /\ ~(Role(x[1]) = "router" /\ x[2] \in VirtualPorts)}

HostRank(x) ==
  <<IF x[1] = Root THEN 1 ELSE 0, Cardinality(OtherSwitches(x[1], x[2])),
    Cardinality(OnPort(x[1], x[2])), x[1], x[2]>>

Preceding(x, y) ==
  \E i \in 1 .. 5 : /\ HostRank(x)[i] < HostRank(y)[i]
                    /\ \A j \in 1 .. (i - 1) : HostRank(x)[j] = HostRank(y)[j]

\* A place in the cache counts while nothing else has taken its port.
\* Mutant: whatever the port has become.
CachedAlways(up, h) == hostLink[h] # None

CachedValid(up, h) ==
  /\ hostLink[h] # None
  /\ hostLink[h][1] \in Managed
  /\ Role(hostLink[h][1]) # "router"
  /\ hostLink[h] \notin Occupied(up)
  /\ OtherSwitches(hostLink[h][1], hostLink[h][2]) = {}

HostPlace(up, h) ==
  LET seen   == {x \in HostSightings(up, h) : Role(x[1]) # "router"}
      direct == {x \in seen : OtherSwitches(x[1], x[2]) = {}}
      pool   == IF direct # {} THEN direct ELSE seen
  IN  IF HostSightings(up, h) = {}
      THEN IF CachedValid(up, h) THEN hostLink[h] ELSE None
      ELSE IF pool = {} THEN None
      ELSE CHOOSE x \in pool : \A y \in pool \ {x} : Preceding(x, y)

\* Only a port without other switches is remembered.
HostRemembered(up, h) ==
  IF HostSightings(up, h) = {}
  THEN IF CachedValid(up, h) THEN hostLink[h] ELSE None
  ELSE IF HostPlace(up, h) # None /\ OtherSwitches(HostPlace(up, h)[1], HostPlace(up, h)[2]) = {}
  THEN HostPlace(up, h) ELSE hostLink[h]

AttachedHosts(up) ==
  {h \in Hosts : conf.cluster[h] \in Managed /\ HostPlace(up, h) # None}

HostLinks(up) ==
  {Link(HostPlace(up, h)[1], HostPlace(up, h)[2], h, Unnamed, "physical_host") :
     h \in AttachedHosts(up)}

-----------------------------------------------------------------------------
(* Access points, infrastructure and leaf ports; the trunks are every end of *)
(* a link between devices or to a host (inter_switch_ports).                *)

SightingsOf(m) ==
  {x \in Managed \X Ports : m \in OnPort(x[1], x[2])}

\* Ports without the address of any switch.
EdgePorts(m) ==
  {x \in SightingsOf(m) : SwitchMacs \cap OnPort(x[1], x[2]) = {}}

ApPlace(a) ==
  IF conf.apAt[a] # None /\ conf.apAt[a][1] \in Managed THEN conf.apAt[a]
  ELSE IF EdgePorts(a) # {} THEN FirstPlace(EdgePorts(a))
  ELSE IF SightingsOf(a) # {} THEN FirstPlace(SightingsOf(a))
  ELSE None

InfraPlace(i) ==
  IF EdgePorts(i) # {} THEN FirstPlace(EdgePorts(i)) ELSE None

\* What is learned on the port of an access point is taken to be behind it.
BehindAp(a) ==
  IF ApPlace(a) = None THEN {}
  ELSE OnPort(ApPlace(a)[1], ApPlace(a)[2])
         \ (SwitchMacs \cup AccessPoints \cup Infra \cup Hosts)

\* The ports where an address may be attached: no trunk, no other switch than
\* the root, no VLAN of a router.  A router counts if no other device saw it.
\* Mutant: trunks count.
LeafPortsAnywhere(trunks, m) ==
  {x \in SightingsOf(m) :
     ~(RoutesLike(x[1]) /\ x[2] \in VirtualPorts)}

LeafPorts(trunks, m) ==
  {x \in SightingsOf(m) :
     /\ x \notin trunks
     /\ OtherSwitches(x[1], x[2]) \subseteq {Root}
     /\ ~(RoutesLike(x[1]) /\ x[2] \in VirtualPorts)}

LeafPlace(trunks, m) ==
  LET switched == {x \in LeafPorts(trunks, m) : ~RoutesLike(x[1])}
  IN  IF switched # {} THEN FirstPlace(switched)
      ELSE IF LeafPorts(trunks, m) # {} THEN FirstPlace(LeafPorts(trunks, m))
      ELSE None

\* A phone with a pass-through port takes over the port where it is configured
\* and the port where it is found.
ConfiguredPhone(f) ==
  conf.phoneAt[f] # None /\ conf.phoneAt[f][1] \in Managed

PhonePlace(trunks, f) ==
  IF ConfiguredPhone(f) THEN conf.phoneAt[f]
  ELSE IF LeafPlace(trunks, f) # None THEN LeafPlace(trunks, f) ELSE conf.phoneAt[f]

PhonesAt(trunks, x) ==
  {f \in conf.passthrough : x \in {conf.phoneAt[f], PhonePlace(trunks, f)}}

-----------------------------------------------------------------------------
(* The clients; known are the rows as they were read.                        *)

\* Devices whose address is not known are drawn as clients, guests never are.
ShownAsClient ==
  Clients \cup {d \in Managed \ conf.addressed : SightingsOf(d) # {}}

OverAir(m) == {a \in AccessPoints : m \in BehindAp(a)}
Online(trunks, m) == OverAir(m) # {} \/ LeafPlace(trunks, m) # None

\* Mutant: the stored clients are forgotten.
KnownOnline(known, trunks) ==
  {m \in ShownAsClient \ (conf.ignored \cup conf.likeGuest) : Online(trunks, m)}

KnownClients(known, trunks) ==
  {m \in ShownAsClient \ (conf.ignored \cup conf.likeGuest) :
     \/ m \in Clients /\ (known[m] # None \/ conf.client[m] # None)
     \/ LeafPlace(trunks, m) # None
     \/ OverAir(m) # {} /\ ~(SightingsOf(m) \subseteq trunks)}

\* Mutant: on a device that is hidden too.
LastPlaceAnywhere(known, m) ==
  IF m \in Clients /\ known[m] # None THEN known[m].place ELSE None

\* Where a client is shown that no table has: what the configuration says of
\* it, completed from its row; not on a device that is disabled.
LastPlace(known, m) ==
  IF m \notin Clients THEN None
  ELSE LET given  == {x \in {conf.client[m]} : x # None}
           stored == IF known[m] # None THEN {known[m].place} ELSE {}
           dev    == {x[1] : x \in given} \ {None}
           port   == {x[2] : x \in given} \ {Unnamed}
           devs   == IF dev # {} THEN dev ELSE {x[1] : x \in stored}
           ports  == IF port # {} THEN port ELSE {x[2] : x \in stored}
       IN  IF devs = {} \/ ports = {} \/ devs \subseteq conf.disabled THEN None
           ELSE CHOOSE x \in devs \X ports : TRUE

\* The place of a wireless client is the address of its access point, which is
\* not the name of the node of that access point.
ShownAt(known, trunks, m) ==
  IF OverAir(m) # {} THEN <<Elsewhere, Unnamed>>
  ELSE IF LeafPlace(trunks, m) # None THEN LeafPlace(trunks, m)
  ELSE LastPlace(known, m)

ShownClients(known, trunks) ==
  {m \in KnownClients(known, trunks) : ShownAt(known, trunks, m) # None}

UnmanagedAt(x) == {u \in Unmanaged : conf.below[u] = x}

\* The node a client hangs from: a device found on its port, a phone, an
\* unmanaged switch, or the device itself.
HangsFrom(trunks, x) ==
  LET infra == {i \in Infra : InfraPlace(i) = x}
  IN  IF infra # {} THEN CHOOSE i \in infra : TRUE
      ELSE IF PhonesAt(trunks, x) # {} THEN CHOOSE f \in PhonesAt(trunks, x) : TRUE
      ELSE IF UnmanagedAt(x) # {} THEN CHOOSE u \in UnmanagedAt(x) : TRUE
      ELSE x[1]

ClientLink(known, trunks, m) ==
  LET node == IF OverAir(m) # {} THEN CHOOSE a \in OverAir(m) : TRUE
              ELSE HangsFrom(trunks, ShownAt(known, trunks, m))
  IN  [Link(node, ShownAt(known, trunks, m)[2], m, Unnamed, "client")
         EXCEPT !.on = Online(trunks, m)]

-----------------------------------------------------------------------------
(* The map.                                                                *)

\* The roles of the ports that are up.
PortRoles(backbone) ==
  LET down == {<<l.src, Relabelled(l.sp)>> : l \in backbone}
      up   == {<<l.dst, Relabelled(l.dp)>> : l \in backbone}
      aps  == {ApPlace(a) : a \in AccessPoints}
  IN  [x \in Place |->
         IF UnmanagedAt(x) # {} THEN "unmanaged"
         ELSE IF x \in aps THEN "ap_trunk"
         ELSE IF x \in down THEN "downlink"
         ELSE IF x \in up THEN "uplink" ELSE "access"]

\* The host a guest is shown under: the member it runs on, or else a member of
\* the cluster, or else the address of the cluster.
GuestHost(g) ==
  LET members == {h \in Hosts : conf.cluster[h] = conf.guest[g].cluster}
  IN  IF conf.guest[g].node \in members THEN conf.guest[g].node
      ELSE IF members # {} THEN CHOOSE h \in members : TRUE
      ELSE conf.guest[g].cluster

\* Of several clusters and their guests, those that are managed.
ClusterHosts == {h \in Hosts : conf.cluster[h] \in Managed}
ShownGuests  == {g \in Guests : conf.guest[g].cluster \in Managed}

DeviceNodes == {d \in Managed : ~IsHub(d)}

Nodes(shown) ==
  DeviceNodes \cup ClusterHosts \cup ShownGuests \cup AccessPoints \cup
  Unmanaged \cup Phones \cup Infra \cup shown \cup Onts \cup
  (IF Onts # {} THEN {Internet} ELSE {})

GuestLinks ==
  {Link(GuestHost(g), Unnamed, g, Unnamed, "virtual_child") : g \in ShownGuests}

ApLinks ==
  {Link(ApPlace(a)[1], ApPlace(a)[2], a, Unnamed, "ap") :
     a \in {b \in AccessPoints : ApPlace(b) # None}}

UnmanagedLinks ==
  {Link(conf.below[u][1], conf.below[u][2], u, Unnamed, "infra") : u \in Unmanaged}

PhoneLinks(trunks) ==
  {Link(PhonePlace(trunks, f)[1], PhonePlace(trunks, f)[2], f, Unnamed, "uplink") :
     f \in {q \in Phones : /\ PhonePlace(trunks, q) # None
                           /\ PhonePlace(trunks, q)[1] \in Managed}}

InfraLinks ==
  {Link(InfraPlace(i)[1], InfraPlace(i)[2], i, Unnamed, "infra") :
     i \in {j \in Infra : InfraPlace(j) # None}}

OntLinks ==
  {Link(Internet, Unnamed, o, Unnamed, "internet") : o \in Onts} \cup
  {Link(o, Unnamed, conf.ontAt[o][1], conf.ontAt[o][2], "uplink") :
     o \in {q \in Onts : conf.ontAt[q] # None}}

Drawn(backbone, trunks, known, shown) ==
  [nodes |-> Nodes(shown),
   links |-> backbone \cup GuestLinks \cup ApLinks \cup UnmanagedLinks \cup
             PhoneLinks(trunks) \cup InfraLinks \cup OntLinks \cup
             {ClientLink(known, trunks, m) : m \in shown},
   role  |-> PortRoles(backbone)]

\* The rows that build_topology finds: none of them if they cannot be read.
RowsRead(read) == IF read THEN row ELSE [m \in Clients |-> None]

\* build_topology, given the links between devices: what is shown of the clients
\* is stored in their rows, in one transaction that may fail without notice, and
\* the place of each host is remembered.
Draw(up, read, written) ==
  LET backbone == up \cup HostLinks(up)
      trunks   == EndsOf(backbone)
      known    == RowsRead(read)
      shown    == ShownClients(known, trunks)
  IN  /\ map' = Drawn(backbone, trunks, known, shown)
      /\ hostLink' = [h \in Hosts |-> IF conf.cluster[h] \in Managed
                                      THEN HostRemembered(up, h) ELSE hostLink[h]]
      /\ row' = [m \in Clients |->
                   IF written /\ m \in shown
                   THEN [place |-> ShownAt(known, trunks, m), online |-> Online(trunks, m)]
                   ELSE row[m]]
      /\ UNCHANGED <<conf, table, neighbors>>

=============================================================================
