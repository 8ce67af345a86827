----------------------------- MODULE MCRecords -----------------------------
(* Three histories that share nothing: the addresses of clients, the samples *)
(* of a port and the counters of a device.  Each behaviour is of one of them  *)
(* and the others stand still: an interleaving would show nothing else.      *)
EXTENDS MCClientIpHistory, MetricRollup, MCPortCounters

MCRetentions == {[raw |-> 3, trends |-> 5], [raw |-> 4, trends |-> 2]}

VARIABLE part   \* the one that the behaviour is of

recordsVars == <<part, ipVars, rollupVars, vars>>

RecordsInit ==
  /\ part \in {"addresses", "samples", "counters"}
  /\ IpInit /\ RollupInit /\ Init

RecordsNext ==
  /\ UNCHANGED part
  /\ \/ part = "addresses" /\ IpNext /\ UNCHANGED <<rollupVars, vars>>
     \/ part = "samples" /\ RollupNext /\ UNCHANGED <<ipVars, vars>>
     \/ part = "counters" /\ Next /\ UNCHANGED <<ipVars, rollupVars>>

RecordsSpec == RecordsInit /\ [][RecordsNext]_recordsVars
=============================================================================
