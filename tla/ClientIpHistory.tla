--------------------------- MODULE ClientIpHistory ---------------------------
(***************************************************************************)
(* The table client_ip_history: which IP addresses each client has had and  *)
(* which of them is active (repositories/device_repo.py).  The pipeline     *)
(* sends one batch per poll cycle; a batch is one transaction, and a failed *)
(* one changes nothing.  Host names and timestamps are left out: a batch    *)
(* gives the addresses of a client in the order of their timestamps.        *)
(***************************************************************************)
EXTENDS Naturals, Sequences, FiniteSets

CONSTANTS Macs,      \* clients
          Ips,       \* IP addresses
          Observed,  \* the address lists a batch may hold for a client
          NoIp       \* no address

ASSUME IpAssumption ==
  /\ NoIp \notin Ips
  /\ Observed \subseteq Seq(Ips)
  /\ <<>> \in Observed

VARIABLES status,  \* status[m][ip]: "none" (no row), "inactive" or "active"
          latest   \* the address of the client's latest observation

ipVars == <<status, latest>>

IpInit ==
  /\ status = [m \in Macs |-> [ip \in Ips |-> "none"]]
  /\ latest = [m \in Macs |-> NoIp]

Deactivated(row) == [ip \in Ips |-> IF row[ip] = "active" THEN "inactive" ELSE row[ip]]

\* record_client_ip_observation: a known address becomes active again, a new
\* one replaces the active one.
Observe(row, ip) ==
  IF row[ip] # "none" THEN [row EXCEPT ![ip] = "active"]
  ELSE [Deactivated(row) EXCEPT ![ip] = "active"]

RecordOne(m, ip) ==
  /\ status' = [status EXCEPT ![m] = Observe(@, ip)]
  /\ latest' = [latest EXCEPT ![m] = ip]

Elements(seq) == {seq[i] : i \in DOMAIN seq}
LastOf(seq)   == seq[Len(seq)]

\* Mutants: the first address of the batch stays active; no address is
\* deactivated.
ObserveAllFirst(row, seq) ==
  LET base == IF \E ip \in Elements(seq) : row[ip] = "none"
              THEN Deactivated(row) ELSE row
  IN  [ip \in Ips |->
         IF ip \notin Elements(seq) THEN base[ip]
         ELSE IF ip = seq[1] THEN "active" ELSE "inactive"]

ObserveAllKeeps(row, seq) ==
  [ip \in Ips |->
     IF ip \notin Elements(seq) THEN row[ip]
     ELSE IF ip = LastOf(seq) THEN "active" ELSE "inactive"]

\* record_client_ip_observations_batch for one client: the active rows are
\* cleared only if one of the addresses is new; every address of the batch is
\* then active exactly if it is the last one.
ObserveAll(row, seq) ==
  LET base == IF \E ip \in Elements(seq) : row[ip] = "none"
              THEN Deactivated(row) ELSE row
  IN  [ip \in Ips |->
         IF ip \notin Elements(seq) THEN base[ip]
         ELSE IF ip = LastOf(seq) THEN "active" ELSE "inactive"]

RecordBatch ==
  \E seen \in [Macs -> Observed] :
    /\ status' = [m \in Macs |-> IF seen[m] = <<>> THEN status[m]
                                 ELSE ObserveAll(status[m], seen[m])]
    /\ latest' = [m \in Macs |-> IF seen[m] = <<>> THEN latest[m]
                                 ELSE LastOf(seen[m])]

IpNext ==
  \/ \E m \in Macs, ip \in Ips : RecordOne(m, ip)
  \/ RecordBatch

IpSpec == IpInit /\ [][IpNext]_ipVars

-----------------------------------------------------------------------------
IpTypeOK ==
  /\ status \in [Macs -> [Ips -> {"none", "inactive", "active"}]]
  /\ latest \in [Macs -> Ips \cup {NoIp}]

ActiveIps(m) == {ip \in Ips : status[m][ip] = "active"}

\* The address a client was last seen with is shown as active, whatever mix of
\* single and batched observations led there.
LatestIsActive ==
  \A m \in Macs : latest[m] # NoIp => latest[m] \in ActiveIps(m)

\* A step that learns a new address of a client leaves exactly the latest one
\* active: every address that had wrongly stayed active is retired.
NewAddressRetiresOthers ==
  [][\A m \in Macs :
       (\E ip \in Ips : status[m][ip] = "none" /\ status'[m][ip] # "none")
       => ActiveIps(m)' = {latest'[m]}]_ipVars

\* One active address per client, which tests/test_client_monitoring.py:52
\* (test_batched_ip_observations_keep_one_active_address) states.
OneActiveAddress ==
  \A m \in Macs : Cardinality(ActiveIps(m)) <= 1
=============================================================================
