------------------------------ MODULE MCPoller ------------------------------
(* Four parts of the poller and of what is drawn from it that share nothing: *)
(* its cycles, of two devices with up to one restart, the way of a MAC table *)
(* through them, the resolver that a cycle calls, and the lookups of names.  *)
(* In a behaviour one of them moves and the others stand still: an           *)
(* interleaving of them shows nothing else.                                  *)
EXTENDS PollCycle, MCEdgeResolution, HostDiscovery, MacTables

CONSTANTS e1, e2

MCTables == {{}, {e1}, {e2}}

ResolverRests ==
  /\ at = [c \in Clients |-> <<s, p>>] /\ tracked = [c \in Clients |-> NoPlace]
  /\ table = [n \in Nodes |-> [c \in Clients |-> NoPort]] /\ known = {}

CyclesRest ==
  /\ enabled = {} /\ cfgCached /\ cached = {} /\ snapshots = {}
  /\ loop = "ready" /\ holder = "none" /\ ~triggered /\ ~stopping /\ restarts = 0

LookupsRest == hostTime = 0 /\ pending = {} /\ \A ip \in Addresses : ~dnsCache[ip].present

TablesRest == Settled({}) /\ NoMacCycle /\ fetched = Nothing /\ ~trouble

PollerInit ==
  /\ PollInit /\ Init /\ DiscoveryInit /\ MacInit
  /\ \/ ResolverRests /\ CyclesRest
     \/ ResolverRests /\ TablesRest
     \/ CyclesRest /\ TablesRest

PollerNext ==
  \/ /\ ResolverRests /\ LookupsRest /\ TablesRest /\ PollNext
     /\ UNCHANGED <<vars, discoveryVars, macVars>>
  \/ /\ CyclesRest /\ LookupsRest /\ TablesRest /\ Next
     /\ UNCHANGED <<pollVars, discoveryVars, macVars>>
  \/ /\ CyclesRest /\ ResolverRests /\ TablesRest /\ DiscoveryNext
     /\ UNCHANGED <<pollVars, vars, macVars>>
  \/ /\ CyclesRest /\ ResolverRests /\ LookupsRest /\ MacNext
     /\ UNCHANGED <<pollVars, vars, discoveryVars>>

\* The cycles and the table are fair in the behaviours that are theirs.
PollerSpec ==
  /\ PollerInit /\ [][PollerNext]_<<vars, pollVars, discoveryVars, macVars>>
  /\ PollFairness \/ []CyclesRest
  /\ MacFairness \/ []TablesRest
  /\ DiscoveryFairness
=============================================================================
