-------------------------- MODULE MCEdgeResolution --------------------------
(* A core switch, an access switch below it, and an access point and a       *)
(* virtualisation host below that one.  A router in place of the core switch *)
(* is easier to tell from a leaf: its score is 300 lower.                    *)
EXTENDS EdgeResolution, TLC

CONSTANTS r, s, a, h, up, down, p, noport

MCPorts == {up, down, p}

KeepCase == [x \in MCPorts \cup {noport} |-> x]

MCRole == [n \in Nodes |-> IF n = a THEN "access_point" ELSE "switch"]

\* The uplink of the access switch leads to the core; its downlink is a bridge over
\* which it reaches the other two.
MCToward == [e \in Hop |-> IF e[1] = r \/ (e[1] = s /\ e[2] # r) THEN down ELSE up]

MCAttach == {<<s, p>>, <<a, p>>, <<h, p>>}

MCOrders == {<<r, s, a, h>>, <<h, a, s, r>>}

SymmetricClients == Permutations(Clients)
=============================================================================
