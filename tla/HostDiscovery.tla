---------------------------- MODULE HostDiscovery ----------------------------
(***************************************************************************)
(* Reverse lookups of the addresses of clients (host_discovery_service.py).  *)
(* Drawing the map or the board asks for the name of every address; a name   *)
(* that was looked up lately is used, otherwise a lookup is queued, one for  *)
(* each address at a time, for a pool of threads that also write the name    *)
(* into the row of the client.                                              *)
(***************************************************************************)
EXTENDS Naturals, Sequences, SequencesExt

CONSTANTS Addresses,
          HostNames,    \* names the resolver may answer with
          Unresolved,   \* it has none, or gives no answer in time
          Threads,      \* max_threads
          Ttl,          \* cache_ttl
          MaxHostTime   \* bound

ASSUME DiscoveryAssumption ==
  /\ Threads \in Nat \ {0} /\ Ttl \in Nat \ {0} /\ MaxHostTime \in Nat
  /\ Unresolved \notin HostNames

VARIABLES hostTime,  \* the clock
          dnsCache,  \* _dns_cache: the entry of each address
          pending,   \* _pending_ips
          queued,    \* the queue of the pool
          lookups,   \* what the threads do: an address, when the lookup began
                     \* and the answer
          served     \* age of the last name that was taken from the cache

discoveryVars == <<hostTime, dnsCache, pending, queued, lookups, served>>

NoEntry == [name |-> Unresolved, stamp |-> 0, answered |-> 0, present |-> FALSE]

DiscoveryInit ==
  /\ hostTime = 0
  /\ dnsCache = [ip \in Addresses |-> NoEntry]
  /\ pending = {} /\ queued = <<>> /\ lookups = {}
  /\ served = 0

\* An entry counts until it is as old as the TTL.
FreshEntry(ip) == dnsCache[ip].present /\ hostTime - dnsCache[ip].stamp < Ttl

\* resolve_all_clients takes a name from the cache; if there is none it calls
\* queue_hostname_resolution, which also counts lookups without an answer.
TakeName(ip) ==
  /\ FreshEntry(ip) /\ dnsCache[ip].name # Unresolved
  /\ served' = hostTime - dnsCache[ip].answered
  /\ UNCHANGED <<hostTime, dnsCache, pending, queued, lookups>>

\* Mutant: lookups in progress are not looked at.
MayQueueAlways(ip) == ~FreshEntry(ip)

MayQueue(ip) == ~FreshEntry(ip) /\ ip \notin pending

QueueLookup(ip) ==
  /\ MayQueue(ip)
  /\ pending' = pending \cup {ip}
  /\ queued' = Append(queued, ip)
  /\ UNCHANGED <<hostTime, dnsCache, lookups, served>>

-----------------------------------------------------------------------------
(* The threads of the pool.                                                *)

\* A free thread takes the first address and reads the time.  It looks at the
\* cache again, in vain: nobody else stores a name for this address.
BeginLookup ==
  /\ queued # <<>> /\ Cardinality(lookups) < Threads
  /\ queued' = Tail(queued)
  /\ lookups' = lookups \cup
       {[ip |-> Head(queued), began |-> hostTime, name |-> Unresolved,
         answered |-> 0, step |-> "asking"]}
  /\ UNCHANGED <<hostTime, dnsCache, pending, served>>

Answer(q, name) ==
  /\ q.step = "asking"
  /\ lookups' = (lookups \ {q}) \cup
       {[q EXCEPT !.name = name, !.answered = hostTime, !.step = "storing"]}
  /\ UNCHANGED <<hostTime, dnsCache, pending, queued, served>>

\* Mutant: the entry gets the time at which it is stored.
StampLate(q) == hostTime

Stamp(q) == q.began

StoreName(q) ==
  /\ q.step = "storing"
  /\ dnsCache' = [dnsCache EXCEPT ![q.ip] =
       [name |-> q.name, stamp |-> Stamp(q), answered |-> q.answered, present |-> TRUE]]
  /\ lookups' = (lookups \ {q}) \cup {[q EXCEPT !.step = "writing"]}
  /\ UNCHANGED <<hostTime, pending, queued, served>>

\* Mutant: the address is only released if the row was written.
ReleasedOnSuccess(q, written) == IF written THEN pending \ {q.ip} ELSE pending

Released(q, written) == pending \ {q.ip}

\* The row of the client is written (module ClientNames) or that fails; in the
\* end the address is released.
EndLookup(q, written) ==
  /\ q.step = "writing"
  /\ lookups' = lookups \ {q}
  /\ pending' = Released(q, written)
  /\ UNCHANGED <<hostTime, dnsCache, queued, served>>

-----------------------------------------------------------------------------
HostTick ==
  /\ hostTime < MaxHostTime
  /\ hostTime' = hostTime + 1
  /\ UNCHANGED <<dnsCache, pending, queued, lookups, served>>

DiscoveryRestart ==
  /\ dnsCache' = [ip \in Addresses |-> NoEntry]
  /\ pending' = {} /\ queued' = <<>> /\ lookups' = {}
  /\ UNCHANGED <<hostTime, served>>

GoOn(ip) ==
  \E q \in lookups :
    /\ q.ip = ip
    /\ \/ \E name \in HostNames \cup {Unresolved} : Answer(q, name)
       \/ StoreName(q)
       \/ \E written \in BOOLEAN : EndLookup(q, written)

DiscoveryNext ==
  \/ \E ip \in Addresses : TakeName(ip) \/ QueueLookup(ip) \/ GoOn(ip)
  \/ BeginLookup
  \/ HostTick
  \/ DiscoveryRestart

DiscoverySpec == DiscoveryInit /\ [][DiscoveryNext]_discoveryVars

\* The threads run, and the resolver gives up after its own timeout.
DiscoveryFairness ==
  /\ WF_discoveryVars(BeginLookup)
  /\ \A ip \in Addresses : WF_discoveryVars(GoOn(ip))

-----------------------------------------------------------------------------
(* Properties.                                                             *)

\* The addresses that are pending are those of the lookups that are queued or
\* in progress, each once, so the queue never holds more than one per address.
PendingIsWork ==
  /\ pending = ToSet(queued) \cup {q.ip : q \in lookups}
  /\ Cardinality(pending) = Len(queued) + Cardinality(lookups)

\* A name that is used was answered less than the TTL ago, however long the
\* lookup took.
NamesAreFresh == served < Ttl

\* Every lookup comes to an end, also when the row cannot be written: no address
\* stays pending, which would keep it from being looked up ever again.
LookupsEnd == \A ip \in Addresses : []<>(ip \notin pending)
=============================================================================
