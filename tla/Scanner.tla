------------------------------- MODULE Scanner -------------------------------
(***************************************************************************)
(* The subnet scanner: a thread that, while the dictionary in use says so,    *)
(* asks the subnet who is there and updates the known hosts and the history  *)
(* of their coming and going; requests erase history meanwhile              *)
(* (scanner_service.py, scanner_repo.py, web/blueprints/scanner.py).         *)
(*                                                                         *)
(* Vendors, open ports and the time of the last port scan are left out.      *)
(***************************************************************************)
EXTENDS Preferences, Sequences, SequencesExt

CONSTANTS Subnet,      \* addresses
          ScannerKey,  \* scanner_enabled
          Enabled,     \* its value
          MaxScans,    \* bound
          NoHost

ASSUME ScannerAssumption ==
  /\ ScannerKey \in Keys /\ MaxScans \in Nat
  /\ NoHost \notin [online : BOOLEAN, first : Nat]

VARIABLES hosts,    \* rows of scanner_hosts: online, and the scan that added it
          comings,  \* per address, the history: TRUE for online
          scan,     \* the step of the thread and what it knows
          scans     \* scans begun

scannerVars == <<hosts, comings, scan, scans>>

Waiting == [step |-> "waiting", seen |-> {}, rows |-> <<>>, blind |-> FALSE]

ScannerInit ==
  /\ hosts = [ip \in Subnet |-> NoHost]
  /\ comings = [ip \in Subnet |-> <<>>]
  /\ scan = Waiting
  /\ scans = 0

\* The dictionary in use says so; while it cannot be read there is no scan, for
\* by default the scanner is off.
BeginScan ==
  /\ scan.step = "waiting" /\ scans < MaxScans
  /\ prefs # Unloaded /\ prefs[ScannerKey] = Enabled
  /\ scans' = scans + 1
  /\ scan' = [scan EXCEPT !.step = "asking"]
  /\ UNCHANGED <<hosts, comings, prefsVars>>

\* scan_network: the hosts that answer.
HostsAnswer(seen) ==
  /\ scan.step = "asking"
  /\ scan' = [scan EXCEPT !.step = "loading", !.seen = seen]
  /\ UNCHANGED <<hosts, comings, scans, prefsVars>>

\* No privilege, no scapy, or an error: the scan is given up.
NoAnswer ==
  /\ scan.step = "asking"
  /\ scan' = Waiting
  /\ UNCHANGED <<hosts, comings, scans, prefsVars>>

\* load_state_from_db; a failed read is taken for an empty table.
LoadHosts(blind) ==
  /\ scan.step = "loading"
  /\ scan' = [scan EXCEPT !.step = "updating", !.blind = blind,
                          !.rows = IF blind THEN [ip \in Subnet |-> NoHost] ELSE hosts]
  /\ UNCHANGED <<hosts, comings, scans, prefsVars>>

Known(ip) == scan.rows[ip] # NoHost

\* Mutant: hosts that do not answer go without an entry.
CameOnly ==
  {ip \in scan.seen : ~Known(ip) \/ ~scan.rows[ip].online}

\* Mutant: there is an entry for every host that answers.
CameAlways ==
  scan.seen \cup {ip \in Subnet \ scan.seen : Known(ip) /\ scan.rows[ip].online}

\* Hosts that came or went since the state that was loaded.
CameOrWent ==
  {ip \in scan.seen : ~Known(ip) \/ ~scan.rows[ip].online} \cup
  {ip \in Subnet \ scan.seen : Known(ip) /\ scan.rows[ip].online}

\* update_db_and_get_status, one transaction.
UpdateHosts ==
  /\ scan.step = "updating"
  /\ hosts' = [ip \in Subnet |->
       IF ip \in scan.seen
       THEN [online |-> TRUE, first |-> IF Known(ip) THEN scan.rows[ip].first ELSE scans]
       ELSE IF Known(ip) THEN [scan.rows[ip] EXCEPT !.online = FALSE] ELSE hosts[ip]]
  /\ comings' = [ip \in Subnet |->
       IF ip \in CameOrWent THEN Append(comings[ip], ip \in scan.seen) ELSE comings[ip]]
  /\ scan' = Waiting
  /\ UNCHANGED <<scans, prefsVars>>

\* The loop has no handler: a setting that is not a number, or a transaction
\* that fails, ends the thread for good.
ScannerDies ==
  /\ scan.step \in {"waiting", "loading", "updating"}
  /\ scan' = [Waiting EXCEPT !.step = "dead"]
  /\ UNCHANGED <<hosts, comings, scans, prefsVars>>

\* api_scanner_delete_host_history and api_scanner_clear_all_history
EraseHistory(ips) ==
  /\ comings' = [ip \in Subnet |-> IF ip \in ips THEN <<>> ELSE comings[ip]]
  /\ UNCHANGED <<hosts, scan, scans, prefsVars>>

ScannerNext ==
  \/ BeginScan \/ NoAnswer \/ UpdateHosts \/ ScannerDies
  \/ \E seen \in SUBSET Subnet : HostsAnswer(seen)
  \/ \E blind \in BOOLEAN : LoadHosts(blind)
  \/ \E ip \in Subnet : EraseHistory({ip})
  \/ EraseHistory(Subnet)
  \/ PrefsNext /\ ~PrefsRestart /\ UNCHANGED scannerVars
  \/ PrefsRestart /\ scan' = Waiting /\ UNCHANGED <<hosts, comings, scans>>

ScannerSpec == PrefsInit /\ ScannerInit /\ [][ScannerNext]_<<scannerVars, prefsVars>>

-----------------------------------------------------------------------------
(* Properties.                                                             *)

\* The history of a host ends with its status, unless it was erased: also when
\* it was erased during a scan, or a scan began from an empty table.
HistoryAgrees ==
  \A ip \in Subnet :
    comings[ip] # <<>> => hosts[ip] # NoHost /\ Last(comings[ip]) = hosts[ip].online

\* A host comes and goes in turns and keeps the time it was first seen, except
\* for a scan that could not read the known hosts.
ScansAddUp ==
  [][~scan.blind =>
       \A ip \in Subnet :
         /\ hosts[ip] # NoHost => hosts'[ip].first = hosts[ip].first
         /\ comings[ip] # <<>> /\ Len(comings'[ip]) > Len(comings[ip])
              => Last(comings'[ip]) # Last(comings[ip])]_<<scannerVars, prefsVars>>
=============================================================================
