----------------------------- MODULE NetworkMap -----------------------------
(***************************************************************************)
(* What the network map shows of a network.  The devices are cabled as a    *)
(* tree and learn, on each port, the addresses behind it; everything else is *)
(* plugged into a port or associated to an access point, may fall silent or *)
(* move, and the poller reads the tables of the devices at different times. *)
(***************************************************************************)
EXTENDS Topology

CONSTANTS Toward,   \* Toward[<<d, e>>]: the port of d with the cable to e
          Scenes    \* the networks considered: a configuration (conf), the
                    \* trees of cables {d, e} (cables), where each station may
                    \* be plugged in (plugs), which stations move (moving)
                    \* and which devices are switched on and off (switched)

Stations == AccessPoints \cup Infra \cup Phones \cup Hosts \cup Clients

\* Devices on the far side of the cable from d to e: those in every set that has
\* e and, with a device, what is cabled to it other than d.
BeyondIn(C, d, e) ==
  {x \in Devices :
     \A S \in SUBSET Devices :
       e \in S /\ (\A y \in S, z \in Devices \ {d} : {y, z} \in C => z \in S)
       => x \in S}

\* A station is plugged into a port or silent; a cable is between two devices.
ASSUME ScenesAssumption ==
  /\ Toward \in [Devices \X Devices -> Ports]
  /\ \A s \in Scenes :
       /\ s.conf \in Conf
       /\ \A m \in Stations : s.plugs[m] \subseteq Place \cup {None}
       /\ s.switched \subseteq Devices
       /\ \A c \in UNION s.cables : \E d, e \in Devices : d # e /\ c = {d, e}

\* The cables are no loops, each is in a port of its own, and none is to a
\* virtualisation host; announcements are not older than the cables.
CabledAsTree(s) ==
  /\ \A C \in s.cables :
       \A d, e, f \in Devices :
         {d, e} \in C /\ {d, f} \in C /\ e # f =>
           f \notin BeyondIn(C, d, e) /\ Toward[<<d, e>>] # Toward[<<d, f>>]
  /\ \A d \in UNION UNION s.cables :
       d \notin s.conf.proxmox /\ s.conf.role[d] # "virtualisation_host"
  /\ s.conf.announces # {} => \A C, D \in s.cables : C = D

\* The addresses of the devices are known and learned, and one device routes.
Addressed(c) ==
  /\ c.addressed = Devices /\ c.ignored = {}
  /\ \A d, e \in c.gateway \cup {x \in Devices : c.role[x] = "router"} : d = e

\* An uplink of the configuration is below a phone or where a cable is, to a
\* device that is never hidden, and leaves no other cable of its device out.
SetBelow(s, d, e) == s.conf.uplink[d] # None /\ s.conf.uplink[d].parent = e

TrueUplinks(s) ==
  /\ \A d, e \in Devices :
       SetBelow(s, d, e) =>
         /\ e \notin s.conf.disabled \cup s.switched
         /\ \A C \in s.cables : {d, e} \in C
         /\ s.conf.uplink[d].port \in {Unnamed, Toward[<<e, d>>]}
         /\ s.conf.uplink[d].own \in {Unnamed, Toward[<<d, e>>]}
  /\ \A d, e \in Devices :
       {d, e} \in UNION s.cables /\ s.conf.uplink[d] # None =>
         SetBelow(s, d, e) \/ SetBelow(s, e, d)

\* The ports that clients use are not used for cables or hosts, and are no VLANs of
\* a router.
ClientPorts(s) == (UNION {s.plugs[m] : m \in Clients}) \ {None}

PortsApart(s) ==
  /\ \A x \in ClientPorts(s) \cup ((UNION {s.plugs[a] : a \in AccessPoints}) \ {None}) :
       \A e \in Devices :
         {x[1], e} \in UNION s.cables => Toward[<<x[1], e>>] # x[2]
  /\ \A x \in ClientPorts(s) :
       /\ \A h \in Hosts : x \notin s.plugs[h]
       /\ s.conf.uplink[x[1]] # None => s.conf.uplink[x[1]].own # x[2]
       /\ x[2] \in VirtualPorts => x[1] \notin s.conf.gateway /\ s.conf.role[x[1]] # "router"
  /\ s.conf.likeGuest \cap Clients = {}

\* Access points and phones are where the configuration says, access points not
\* at a device that is hidden; and none is hidden if uplinks are configured.
TruePlaces(s) ==
  LET hidden == s.conf.disabled \cup s.switched
  IN  /\ \A a \in AccessPoints :
           /\ s.conf.apAt[a] # None => a \notin s.moving /\ s.plugs[a] = {s.conf.apAt[a]}
           /\ \A x \in s.plugs[a] \ {None} : x[1] \notin hidden
      /\ \A f \in Phones :
           s.conf.phoneAt[f] # None => f \notin s.moving /\ s.plugs[f] = {s.conf.phoneAt[f]}
      /\ (\E d \in Devices : s.conf.uplink[d] # None) => hidden = {}

ASSUME CablesAssumption ==
  \A s \in Scenes : CabledAsTree(s) /\ Addressed(s.conf) /\ TrueUplinks(s)

ASSUME StationsAssumption ==
  \A s \in Scenes : PortsApart(s) /\ TruePlaces(s)

VARIABLES scene,    \* the network and its configuration
          cables,   \* the cables between devices
          plugged,  \* the place of each station, or None while it is silent
          drawn     \* the map was drawn and nothing happened since

vars == <<topologyVars, scene, cables, plugged, drawn>>

-----------------------------------------------------------------------------
Beyond(d, e) == BeyondIn(cables, d, e)

PluggedInto(ds) ==
  {m \in Stations : plugged[m] # None /\ plugged[m][1] \in ds}

Learned(d) ==
  [p \in Ports |->
     {m \in Stations : plugged[m] = <<d, p>>} \cup
     UNION {Beyond(d, e) \cup PluggedInto(Beyond(d, e)) :
              e \in {x \in Devices : {d, x} \in cables /\ Toward[<<d, x>>] = p}}]

Heard(d) ==
  {<<Toward[<<d, e>>], e>> : e \in {x \in Devices : {d, x} \in cables}}

Init ==
  /\ scene \in Scenes
  /\ conf = scene.conf
  /\ cables \in scene.cables
  /\ plugged \in {f \in [Stations -> UNION {scene.plugs[m] : m \in Stations}] :
                   \A m \in Stations : f[m] \in scene.plugs[m]}
  /\ table = [d \in Devices |-> Learned(d)]
  /\ neighbors = [d \in Devices |-> IF d \in conf.announces THEN Heard(d) ELSE {}]
  /\ hostLink = [h \in Hosts |-> None]
  /\ row = [m \in Clients |-> None]
  /\ map = NoMap
  /\ drawn = FALSE

\* A station is unplugged, plugged in elsewhere, or silent for so long that
\* the tables forget it.
Replug(m) ==
  /\ m \in scene.moving
  /\ \E x \in scene.plugs[m] \cup {None} :
       x # plugged[m] /\ plugged' = [plugged EXCEPT ![m] = x]
  /\ drawn' = FALSE
  /\ UNCHANGED <<topologyVars, scene, cables>>

\* A cable is added or removed.
Recable ==
  /\ \E c \in scene.cables : c # cables /\ cables' = c
  /\ drawn' = FALSE
  /\ UNCHANGED <<topologyVars, scene, plugged>>

\* The poller reads the table of a device; while the device does not answer,
\* the map uses the table that was read last.
ReadTable(d) ==
  /\ table[d] # Learned(d)
  /\ table' = [table EXCEPT ![d] = Learned(d)]
  /\ drawn' = FALSE
  /\ UNCHANGED <<conf, neighbors, hostLink, row, map, scene, cables, plugged>>

\* The configuration hides a device, or shows it again.
Switch(d) ==
  /\ d \in scene.switched
  /\ conf' = [conf EXCEPT !.disabled = (@ \ {d}) \cup ({d} \ @)]
  /\ drawn' = FALSE
  /\ UNCHANGED <<table, neighbors, hostLink, row, map, scene, cables, plugged>>

\* The rows of the clients may be unreadable, or not be written.
DrawMap(up, read, written) ==
  Draw(up, read, written) /\ drawn' = TRUE /\ UNCHANGED <<scene, cables, plugged>>

Next ==
  \/ \E m \in Stations : Replug(m)
  \/ Recable
  \/ \E d \in Devices : ReadTable(d) \/ Switch(d)
  \/ \E up \in {Uplinks}, read, written \in BOOLEAN : DrawMap(up, read, written)

Spec == Init /\ [][Next]_vars
-----------------------------------------------------------------------------
(* Properties.                                                             *)

\* The map was drawn from the tables of the network as it is.
Read     == \A d \in Devices : table[d] = Learned(d)
UpToDate == drawn /\ Read

DeviceLinks ==
  {l \in map.links : l.kind = "uplink" /\ {l.src, l.dst} \subseteq Devices}

\* Transit elimination: from complete tables, and whatever part of the
\* neighbours is announced, the map shows the cables between the managed
\* devices and no others, with their ports, as long as no device in between is
\* hidden.
CablesDrawn ==
  UpToDate /\ (\A d \in conf.disabled : Cardinality({c \in cables : d \in c}) < 2) =>
    /\ {{l.src, l.dst} : l \in DeviceLinks} = {c \in cables : c \subseteq Managed}
    /\ \A l \in DeviceLinks : /\ l.sp = Toward[<<l.src, l.dst>>]
                             /\ l.dp = Toward[<<l.dst, l.src>>]

\* What is between a port and the client that is plugged in there.
Between(x) ==
  {m \in Stations : plugged[m] = x} \cup {u \in Unmanaged : conf.below[u] = x}

\* No cable is in a VLAN port of a device that is no router.  Such a port does
\* not count as a trunk.
VlansOfRouters ==
  \A d, e \in Devices :
    {d, e} \in cables /\ Toward[<<d, e>>] \in VlanPorts => RoutesLike(d)

\* A client that is plugged into a managed device is shown once, online, at its
\* port or at what is plugged in between, be it wireless, behind a phone or
\* behind an unmanaged switch; every other device saw it on a cable.  A client
\* of the root is an exception if the cable to another device is in a VLAN port.
ClientsAtTheirPort ==
  UpToDate =>
    \A m \in Clients :
      /\ plugged[m] # None /\ plugged[m][1] \in Managed
      /\ plugged[m][1] = Root => VlansOfRouters
      => \E l \in map.links :
           /\ {k \in map.links : k.dst = m} = {l}
           /\ l.on
           /\ <<l.src, l.sp>> = plugged[m] \/ l.src \in Between(plugged[m])

\* No cable, and no uplink of the configuration, is at a port.
FreeOfCables(x) ==
  /\ \A e \in Devices : {x[1], e} \in cables => Toward[<<x[1], e>>] # x[2]
  /\ conf.uplink[x[1]] # None => conf.uplink[x[1]].own # x[2]

HostLinksOf(h) == {l \in map.links : l.kind = "physical_host" /\ l.dst = h}

\* A host is never shown on a router, nor on a port that the same map uses for a
\* cable unless that is a VLAN port, however old the tables are and whatever was
\* remembered.  From tables that are read, a host that is plugged into a switch
\* is shown at its own port and nowhere else, VLAN ports or not.
HostsOffTrunks ==
  drawn =>
    /\ \A h \in Hosts : \A l \in HostLinksOf(h) :
         /\ Role(l.src) # "router"
         /\ l.sp \in VlanPorts
              \/ \A k \in DeviceLinks : <<l.src, l.sp>> \notin {<<k.src, k.sp>>, <<k.dst, k.dp>>}
    /\ Read =>
         \A h \in Hosts :
           /\ plugged[h] # None /\ {plugged[h][1], conf.cluster[h]} \subseteq Managed
           /\ Role(plugged[h][1]) = "switch" /\ FreeOfCables(plugged[h])
           => {<<l.src, l.sp>> : l \in HostLinksOf(h)} = {plugged[h]}

\* A client that was last seen on a device that is hidden is not shown there.
HiddenWithDevice ==
  drawn => \A l \in map.links : l.kind = "client" =>
             /\ l.src \notin conf.disabled
             /\ l.src \in Unmanaged => conf.below[l.src][1] \notin conf.disabled

\* A client that falls silent is never shown online.  As long as its device is
\* shown it stays where the last map had it, shown offline, whether its row can be
\* written or not; it vanishes only from a map that could not read the rows, and
\* its place stays in the row, which says offline once it was written.
SilentStay ==
  [][drawn' /\ Read =>
       \A m \in {k \in Clients : plugged[k] = None /\ row[k] # None /\ conf.client[k] = None} :
         \A up \in {Uplinks}, read, written \in BOOLEAN :
           DrawMap(up, read, written) =>
             LET links == {l \in map'.links : l.dst = m}
                 stays == read /\ row[m].place[1] \notin conf.disabled
             IN  /\ stays <=> links # {}
                 /\ \A l \in links : ~l.on /\ l.sp = row[m].place[2]
                 /\ row'[m] = IF stays /\ written THEN [row[m] EXCEPT !.online = FALSE]
                              ELSE row[m]]_vars
=============================================================================
