----------------------------- MODULE MCRequests -----------------------------
(* Five parts that requests to the server drive, one at a time: sign-ins, the  *)
(* names of clients, the settings, the scanner with its setting, and backups.  *)
(* Each behaviour is of one of them and the others stand still: an           *)
(* interleaving would show nothing else.  With the scanner, only the setting  *)
(* that it reads is changed; the settings on their own may be anything.       *)
EXTENDS MCSessions, ClientNames, Scanner, Backups

VARIABLE part   \* the one that the behaviour is of

settingVars == <<scannerVars, prefsVars>>
requestsVars == <<part, sessionVars, nameVars, settingVars, backupVars>>

RequestsInit ==
  /\ part \in {"sessions", "names", "settings", "scanner", "backups"}
  /\ SessionInit /\ NamesInit /\ PrefsInit /\ ScannerInit /\ BackupsInit
  /\ part # "backups" => plain = {}

RequestsNext ==
  /\ UNCHANGED part
  /\ \/ /\ part = "sessions" /\ SessionNext
        /\ UNCHANGED <<nameVars, settingVars, backupVars>>
     \/ /\ part = "names" /\ NamesNext
        /\ UNCHANGED <<sessionVars, settingVars, backupVars>>
     \/ /\ part = "settings" /\ PrefsNext
        /\ UNCHANGED <<sessionVars, nameVars, scannerVars, backupVars>>
     \/ /\ part = "scanner" /\ ScannerNext /\ UNCHANGED devices
        /\ asking' # Unloaded => asking'.key = ScannerKey
        /\ UNCHANGED <<sessionVars, nameVars, backupVars>>
     \/ /\ part = "backups" /\ BackupsNext
        /\ UNCHANGED <<sessionVars, nameVars, settingVars>>

RequestsSpec == RequestsInit /\ [][RequestsNext]_requestsVars
=============================================================================
