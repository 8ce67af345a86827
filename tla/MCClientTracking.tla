-------------------------- MODULE MCClientTracking --------------------------
(* Small instances of ClientTracking.                                       *)
EXTENDS ClientTracking, TLC

CONSTANTS n1, n2, n3, n4, n5, p1, q1, noport

MCNodes   == {n1, n2}
FiveNodes == {n1, n2, n3, n4, n5}
MCPorts == {p1, q1}

\* q1 is p1 in upper case in the instance of one client.
FoldCase   == [p \in {p1, q1, noport} |-> IF p = q1 THEN p1 ELSE p]
KeepCase   == [p \in {p1, q1, noport} |-> p]

OnSwitch(n, p) == [node |-> n, port |-> p, role |-> "switch",
                   ssid |-> FALSE, signal |-> FALSE, child |-> FALSE]

OnAccessPoint(n, p) == [OnSwitch(n, p) EXCEPT !.role = "access_point",
                                              !.signal = TRUE]

\* Sightings along a path, on a radio, without a port, and on one of three
\* more devices: after three roams there is still a place the client has not
\* been to.
MixedSightings ==
  {<<>>,
   <<OnSwitch(n1, p1)>>,
   <<OnSwitch(n1, q1), OnSwitch(n2, p1)>>,
   <<OnSwitch(n1, p1), OnAccessPoint(n2, noport)>>}
  \cup {<<OnSwitch(n, p1)>> : n \in {n3, n4, n5}}

\* Two places, for one client.
TwoPlaces == {<<>>, <<OnSwitch(n1, p1)>>, <<OnSwitch(n2, p1)>>}

AlikeNodes == Permutations({n3, n4, n5})

\* The map shows the client on one port, or is not asked for.
OnTheMap == {<<n2, q1>>}
NoMap    == {}

NoLinks  == {{}}
OneLink  == {{}, {<<n1, q1>>}}
=============================================================================
