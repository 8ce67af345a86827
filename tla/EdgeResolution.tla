--------------------------- MODULE EdgeResolution ---------------------------
(***************************************************************************)
(* What the scoring of EdgeResolver finds out about a network: clients are  *)
(* attached somewhere and move, every device learns where they are from the *)
(* frames it forwards, the poller reads the forwarding tables of the        *)
(* devices at different times (the mac refresh is only due every few        *)
(* cycles), and the client pipeline resolves each client's edge from the    *)
(* tables it has (services/poller_service.py, services/clients/pipeline.py).*)
(*                                                                         *)
(* The network is a tree: Toward[<<n, m>>] is the port of n that leads to m.*)
(* A switch or router sees the clients behind every port, an access point   *)
(* reports the stations associated to it, and a virtualisation host lists   *)
(* its guests.  The gate and the dampening of module ClientTracking are     *)
(* left out: tracked changes as the resolver says.                          *)
(***************************************************************************)
EXTENDS EdgeResolver, FiniteSets

CONSTANTS Clients,   \* MAC addresses
          Role,      \* Role[n], as reported
          Hosts,     \* virtualisation hosts
          Toward,    \* the port of one node that leads to another
          Attach,    \* the places where clients may be attached
          Orders,    \* orders in which the devices of a poll may be listed
          NoPlace    \* not tracked

Hop == {p \in Nodes \X Nodes : p[1] # p[2]}

Trunks == {<<h[1], Toward[h]>> : h \in Hop}

ASSUME NetworkAssumption ==
  /\ Role \in [Nodes -> Roles]
  /\ Hosts \subseteq Nodes
  /\ Toward \in [Hop -> Ports]
  /\ Attach \subseteq (Nodes \X Ports) \ Trunks
  /\ IsFiniteSet(Clients)
  /\ \A order \in Orders :
       order \in Seq(Nodes) /\ \A n \in Nodes : \E i \in DOMAIN order : order[i] = n
  /\ NoPlace \notin Place

VARIABLES at,       \* at[c]: where client c is attached
          table,    \* table[n][c]: the port of node n in _mac_tables, or NoPort
          known,    \* interlinks of the cycle
          tracked   \* the location the client is tracked at

vars == <<at, table, known, tracked>>

\* Only its host or its access point sees a client beside the wired devices.
Listens(n, c) == n = at[c][1] \/ (Role[n] # "access_point" /\ n \notin Hosts)

PortOf(n, c) ==
  IF ~Listens(n, c) THEN NoPort
  ELSE IF n = at[c][1] THEN at[c][2] ELSE Toward[<<n, at[c][1]>>]

Init ==
  /\ at \in [Clients -> Attach]
  /\ table = [n \in Nodes |-> [c \in Clients |-> NoPort]]
  /\ known = {}
  /\ tracked = [c \in Clients |-> NoPlace]

-----------------------------------------------------------------------------
Move(c, place) ==
  /\ at' = [at EXCEPT ![c] = place]
  /\ UNCHANGED <<table, known, tracked>>

\* The mac refresh of one device is due and its table is read.
Scrape(n) ==
  /\ table' = [table EXCEPT ![n] = [c \in Clients |-> PortOf(n, c)]]
  /\ UNCHANGED <<at, known, tracked>>

\* Uplinks and LLDP or CDP neighbours, as far as the devices tell them.
Announce(links) ==
  /\ known' = links
  /\ UNCHANGED <<at, table, tracked>>

\* A wireless client comes with its network name, a guest as child device.
SightingOf(n, c) ==
  [node |-> n, port |-> table[n][c], role |-> Role[n],
   ssid |-> Role[n] = "access_point", signal |-> Role[n] = "access_point",
   child |-> n \in Hosts]

\* The sightings of a client keep their index in the order of the devices.
Sightings(c, order) ==
  [i \in {j \in DOMAIN order : table[order[j]][c] # NoPort} |-> SightingOf(order[i], c)]

\* port_mac_sets: guests are not in the table of a port.
Density(place) ==
  Cardinality({c \in Clients : place[1] \notin Hosts /\ table[place[1]][c] = place[2]})

Score(c, s) ==
  ScoreSighting(s, Density(PlaceOf(s)), known, {tracked[c]} \ {NoPlace})

\* resolve_edge, for a client that some device reports.
Resolve(c) ==
  /\ \E order \in Orders :
       LET seen  == Sightings(c, order)
           score == [i \in DOMAIN seen |-> Score(c, seen[i])]
       IN  \E i \in DOMAIN seen :
             /\ Wins(i, seen, score)
             /\ tracked' = [tracked EXCEPT ![c] = PlaceOf(seen[i])]
  /\ UNCHANGED <<at, table, known>>

Next ==
  \/ \E c \in Clients, place \in Attach : Move(c, place)
  \/ \E n \in Nodes : Scrape(n)
  \/ \E links \in {{}, Trunks} : Announce(links)
  \/ \E c \in Clients : Resolve(c)

Spec == Init /\ [][Next]_vars

-----------------------------------------------------------------------------
(* Properties.                                                             *)

TypeOK ==
  /\ at \in [Clients -> Attach]
  /\ table \in [Nodes -> [Clients -> Ports \cup {NoPort}]]
  /\ known \subseteq Trunks
  /\ tracked \in [Clients -> (Nodes \X Ports) \cup {NoPlace}]

\* The tables show where the client is now.
Fresh(c) == \A n \in Nodes : table[n][c] = PortOf(n, c)

AllFresh == \A c \in Clients : Fresh(c)

\* Once the tables are read and the inter-device ports are known, the resolver
\* finds the leaf port whatever place the client was tracked at before, also
\* if that was a trunk ("the true physical leaf edge attachment point",
\* resolver.py:9).  Router ports are marked down and are not leaves for it.
LeafFound ==
  [][\A c \in Clients :
       /\ AllFresh /\ known = Trunks /\ Role[at[c][1]] # "router"
       /\ Resolve(c)
       => tracked'[c] = at[c]]_vars

\* A client that is tracked where it is stays there, though the devices may
\* not announce their neighbours in some polls, and other clients come and go
\* on its port ("prevents ghost/transient port bouncing", resolver.py:66).
NoGhostMove ==
  [][\A c \in Clients :
       /\ AllFresh /\ tracked[c] = at[c] /\ Role[at[c][1]] # "router"
       /\ Resolve(c)
       => tracked'[c] = at[c]]_vars
=============================================================================
