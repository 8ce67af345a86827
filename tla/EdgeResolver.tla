---------------------------- MODULE EdgeResolver ----------------------------
(***************************************************************************)
(* The scoring that decides at which port of which device a network client *)
(* is attached (services/clients/resolver.py).  A MAC address is seen on    *)
(* every switch along its path; one sighting is a record                    *)
(*   [node, port, role, ssid, signal, child]                                *)
(* where role is the reported role or type of the device, ssid and signal   *)
(* say whether the sighting carries a wireless network name and a signal    *)
(* level, and child says that the client is a guest of a virtualisation     *)
(* host.  The module has no state: its operators are used by ClientTracking *)
(* and checked against a network by EdgeResolution.                         *)
(***************************************************************************)
EXTENDS Integers, Sequences

CONSTANTS Nodes,         \* managed devices
          Ports,         \* cleaned, non-empty port names
          NoPort,        \* the empty port name
          Lower,         \* Lower[p]: p in lower case
          VirtualPorts   \* router ports that are bridges, tunnels, WANs, ...

ASSUME PortsAssumption ==
  /\ NoPort \notin Ports
  /\ Lower \in [Ports \cup {NoPort} -> Ports \cup {NoPort}]
  /\ VirtualPorts \subseteq Ports

Roles == {"switch", "access_point", "router"}

Place == Nodes \X (Ports \cup {NoPort})

Sighting == [node : Nodes, port : Ports \cup {NoPort}, role : Roles,
             ssid : BOOLEAN, signal : BOOLEAN, child : BOOLEAN]

PlaceOf(s) == <<s.node, s.port>>

\* Two places are the same when they agree up to the case of the port name.
SamePlace(p, q) == p[1] = q[1] /\ Lower[p[2]] = Lower[q[2]]

Largest(a, b) == IF a >= b THEN a ELSE b

IsWireless(s) == s.role = "access_point" \/ s.ssid \/ s.signal

WirelessScore(s) ==
  IF IsWireless(s)
  THEN 1000 + (IF s.ssid THEN 200 ELSE 0) + (IF s.signal THEN 100 ELSE 0)
  ELSE 0

\* n is the number of MAC addresses seen on the port of the sighting.
DensityScore(n) ==
  CASE n = 0 -> 0
    [] n = 1 -> 500
    [] n \in 2 .. 3 -> 300
    [] OTHER -> Largest(0, 100 - n)

RouterPenalty(s) ==
  IF s.role # "router" THEN 0
  ELSE IF s.port \in VirtualPorts THEN 1000 ELSE 300

\* Mutants: an inter-device port is no worse than another; the place where the
\* client is tracked is no better.
ScoreWithoutPenalty(s, n, links, incumbent) ==
  IF s.child THEN 10000
  ELSE WirelessScore(s) + DensityScore(n) - RouterPenalty(s)
       + (IF \E p \in incumbent : SamePlace(PlaceOf(s), p) THEN 350 ELSE 0)

ScoreWithoutBonus(s, n, links, incumbent) ==
  IF s.child THEN 10000
  ELSE WirelessScore(s) + DensityScore(n)
       - (IF PlaceOf(s) \in links THEN 500 ELSE 0)
       - RouterPenalty(s)

\* links: the <<node, port>> pairs known to lead to another device.
\* incumbent: the set holding the place the client is tracked at, if any.
ScoreSighting(s, n, links, incumbent) ==
  IF s.child THEN 10000
  ELSE WirelessScore(s) + DensityScore(n)
       - (IF PlaceOf(s) \in links THEN 500 ELSE 0)
       - RouterPenalty(s)
       + (IF \E p \in incumbent : SamePlace(PlaceOf(s), p) THEN 350 ELSE 0)

\* The sort is descending and stable: the winner is the earliest of the
\* sightings with the highest score.  score[i] is the score of sightings[i].
Wins(i, sightings, score) ==
  /\ i \in DOMAIN sightings
  /\ \A j \in DOMAIN sightings :
        score[j] < score[i] \/ (score[j] = score[i] /\ i <= j)
=============================================================================
