--------------------------- MODULE MCPortCounters ---------------------------
(* Small instances of PortCounters.                                         *)
EXTENDS PortCounters

CONSTANTS p1, p2

Kept    == [n \in Names |-> n]

\* p1 stands for eth0, which is stored and loaded as port 0, here p2.
Renamed == [n \in Names |-> p2]
=============================================================================
