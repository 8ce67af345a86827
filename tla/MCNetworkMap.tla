---------------------------- MODULE MCNetworkMap ----------------------------
EXTENDS NetworkMap

CONSTANTS ap1, ph1, host1, rep1, vm1, ont1, c1, c2

\* The port of a device towards another has that one's number, except that
\* device 4 has the cable to 2 in its VLAN port 6; otherwise ports 5 and 6 are for
\* everything else.
MCToward == [x \in Devices \X Devices |-> IF x = <<4, 2>> THEN 6 ELSE x[2]]

Edges == {e \in SUBSET Devices : Cardinality(e) = 2}

Joined(E) ==
  LET hop[k \in 0 .. Cardinality(Devices)] ==
        IF k = 0 THEN {1}
        ELSE hop[k - 1] \cup {x \in Devices : \E y \in hop[k - 1] : {x, y} \in E}
  IN  hop[Cardinality(Devices)] = Devices

Trees == {E \in SUBSET Edges : Cardinality(E) = Cardinality(Devices) - 1 /\ Joined(E)}

Plain ==
  [disabled |-> {}, proxmox |-> {}, role |-> [d \in Devices |-> "switch"],
   gateway |-> {}, addressed |-> Devices, ignored |-> {}, announces |-> {},
   uplink |-> [d \in Devices |-> None], apAt |-> [a \in AccessPoints |-> None],
   phoneAt |-> [f \in Phones |-> None], passthrough |-> {}, below |-> [u \in Unmanaged |-> <<3, 6>>],
   client |-> [m \in Clients |-> None], likeGuest |-> {},
   cluster |-> [h \in Hosts |-> 4], guest |-> [g \in Guests |-> [cluster |-> 4, node |-> host1]],
   ontAt |-> [o \in Onts |-> <<1, 5>>]]

Silent == [m \in Stations |-> {None}]

\* Every tree, the router anywhere, neighbours announced by none, one or all
\* of the devices, and one client that stays where it is.
Trunked ==
  {[conf |-> [Plain EXCEPT !.role[r] = "router", !.announces = A], cables |-> {E},
    plugs |-> [Silent EXCEPT ![c1] = {<<d, 5>> : d \in Devices}], moving |-> {}, switched |-> {}] :
     r \in Devices, A \in {{}, {2}, Devices}, E \in Trees}

\* A router and two switches in a row, with an access point at the last one,
\* a phone with a pass-through port, an unmanaged switch and a host.
Line == {{1, 2}, {2, 3}}

Office ==
  [conf     |-> [Plain EXCEPT !.role[1] = "router", !.passthrough = {ph1}],
   cables   |-> {Line},
   plugs    |-> [Silent EXCEPT ![ap1] = {<<3, 5>>}, ![ph1] = {<<2, 6>>},
                               ![c1] = {<<3, 5>>, <<3, 6>>}, ![c2] = {<<2, 6>>},
                               ![host1] = {<<2, 5>>, <<3, 4>>}],
   moving   |-> {},
   switched |-> {}]

Only(m, x) == [Office.plugs EXCEPT ![m] = {x}]
Alone(m, x) == [Silent EXCEPT ![m] = {x}]

\* The same with uplinks from the configuration, one of them through the phone,
\* a cluster, a repeater that is found on its port and a client behind it.
Declared ==
  [Office EXCEPT
     !.conf.uplink = [d \in Devices |->
        CASE d = 3 -> [parent |-> 2, port |-> Unnamed, own |-> Unnamed]
          [] d = 4 -> [parent |-> ph1, port |-> Unnamed, own |-> Unnamed]
          [] OTHER -> None],
     !.conf.phoneAt[ph1] = <<2, 6>>, !.conf.announces = {1},
     !.plugs = [Silent EXCEPT ![rep1] = {<<2, 5>>}, ![ph1] = {<<2, 6>>},
                              ![c1] = {<<2, 5>>}, ![c2] = {<<2, 6>>},
                              ![host1] = {<<3, 5>>}],
     !.moving = {c2}]

Cluster == [Declared EXCEPT !.conf.uplink[4] = None, !.conf.proxmox = {4},
                            !.moving = {host1}]

\* A client moves between the air and an unmanaged switch, or falls silent; a
\* host moves; a host falls silent and its port gets a cable; switches with a
\* client and an unmanaged switch are hidden; a host is plugged into the router or
\* a switch while another switch has a cable in its VLAN port.
Moving ==
  {[Office EXCEPT !.moving = {c1}, !.plugs = Only(host1, <<3, 4>>)],
   [Office EXCEPT !.moving = {host1}, !.plugs = Only(c1, <<3, 5>>)],
   [Office EXCEPT !.moving = {host1}, !.plugs = Alone(host1, <<3, 4>>),
                  !.cables = {Line, Line \cup {{3, 4}}}],
   [Office EXCEPT !.moving = {c1}, !.switched = {2, 3}, !.plugs = Alone(c1, <<3, 6>>)],
   [Office EXCEPT !.moving = {host1}, !.cables = {Line \cup {{2, 4}}},
                  !.plugs = [Silent EXCEPT ![host1] = {<<1, 5>>, <<3, 6>>}]]}

MCScenes == Trunked \cup Moving \cup {Declared, Cluster}
=============================================================================
