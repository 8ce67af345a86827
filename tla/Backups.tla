------------------------------- MODULE Backups -------------------------------
(***************************************************************************)
(* The backup files (backup_service.py, web/blueprints/backups.py).  The first *)
(* request builds the service, which encrypts the backups of older versions; *)
(* nothing keeps two requests from building it at once.  The process may stop *)
(* between any two steps.                                                   *)
(***************************************************************************)
EXTENDS FiniteSets

CONSTANTS BackupNames, Visitors   \* requests in progress

VARIABLES plain,   \* backups with a file .bin
          temp,    \* backups with a file .bin.enc.tmp
          enc,     \* per backup, the file .bin.enc: none, partial or full
          built,   \* _backup_service is set
          visit,   \* per request, what it does: step, files listed, file in hand
          kept     \* backups that were made and not deleted

backupVars == <<plain, temp, enc, built, visit, kept>>

NoVisit == [step |-> "idle", todo |-> {}, file |-> {}]

BackupsInit ==
  /\ plain \in SUBSET BackupNames /\ temp = {}
  /\ enc = [b \in BackupNames |-> "none"]
  /\ built = FALSE /\ visit = [v \in Visitors |-> NoVisit]
  /\ kept = plain

StepsTo(v, step) == visit' = [visit EXCEPT ![v].step = step]

\* __init__ and the listing of the directory
BuildService(v) ==
  /\ visit[v].step = "idle" /\ ~built
  /\ visit' = [visit EXCEPT ![v] = [step |-> "next", todo |-> plain, file |-> {}]]
  /\ UNCHANGED <<plain, temp, enc, built, kept>>

ServiceBuilt(v) ==
  /\ visit[v].step = "next" /\ visit[v].todo = {}
  /\ built' = TRUE /\ visit' = [visit EXCEPT ![v] = NoVisit]
  /\ UNCHANGED <<plain, temp, enc, kept>>

\* The next file, unless it was encrypted meanwhile.
TakeFile(v, b) ==
  /\ visit[v].step = "next" /\ b \in visit[v].todo
  /\ IF enc[b] # "none"
     THEN visit' = [visit EXCEPT ![v].todo = @ \ {b}]
     ELSE visit' = [visit EXCEPT ![v] = [step |-> "read", todo |-> @.todo \ {b}, file |-> {b}]]
  /\ UNCHANGED <<plain, temp, enc, built, kept>>

File(v) == CHOOSE b \in visit[v].file : TRUE

\* An exception ends the request; what it wrote stays.
Raises(v) ==
  /\ visit' = [visit EXCEPT ![v] = NoVisit]
  /\ UNCHANGED <<plain, temp, enc, built, kept>>

ReadPlain(v) ==
  /\ visit[v].step = "read"
  /\ IF File(v) \in plain
     THEN StepsTo(v, "create") /\ UNCHANGED <<plain, temp, enc, built, kept>>
     ELSE Raises(v)

\* Mutant: a temporary file that is there already is opened and written over.
FreeAlways(b) == TRUE

\* os.O_EXCL
Free(b) == b \notin temp

CreateTemp(v) ==
  /\ visit[v].step = "create"
  /\ IF Free(File(v))
     THEN /\ temp' = temp \cup {File(v)}
          /\ StepsTo(v, "write")
          /\ UNCHANGED <<plain, enc, built, kept>>
     ELSE Raises(v)

\* The temporary file is complete and was read back: only its writer gets here.
WriteTemp(v) ==
  /\ visit[v].step = "write"
  /\ StepsTo(v, "replace")
  /\ UNCHANGED <<plain, temp, enc, built, kept>>

\* The disk is full, say.
WriteFails(v) == visit[v].step \in {"write", "save"} /\ Raises(v)

\* Another request that has opened the same file has emptied it.
Complete(v) == \A w \in Visitors \ {v} : ~(visit[w].step = "write" /\ visit[w].file = visit[v].file)

\* os.replace
ReplaceFile(v) ==
  /\ visit[v].step = "replace"
  /\ IF File(v) \in temp
     THEN /\ temp' = temp \ {File(v)}
          /\ enc' = [enc EXCEPT ![File(v)] = IF Complete(v) THEN "full" ELSE "partial"]
          /\ StepsTo(v, "remove")
          /\ UNCHANGED <<plain, built, kept>>
     ELSE Raises(v)

\* os.remove raises when another request has removed the file.
RemovePlain(v) ==
  /\ visit[v].step = "remove"
  /\ IF File(v) \in plain
     THEN /\ plain' = plain \ {File(v)}
          /\ StepsTo(v, "next")
          /\ UNCHANGED <<temp, enc, built, kept>>
     ELSE Raises(v)

\* backup_switch creates a file of a new name, and writes it in place.
CreateBackup(v, b) ==
  /\ built /\ visit[v].step = "idle"
  /\ b \notin plain \cup temp /\ enc[b] = "none"
  /\ \A w \in Visitors : b \notin visit[w].todo \cup visit[w].file
  /\ enc' = [enc EXCEPT ![b] = "partial"]
  /\ visit' = [visit EXCEPT ![v] = [step |-> "save", todo |-> {}, file |-> {b}]]
  /\ UNCHANGED <<plain, temp, built, kept>>

SaveBackup(v) ==
  /\ visit[v].step = "save"
  /\ IF enc[File(v)] = "none" THEN UNCHANGED <<enc, kept>>  \* deleted while open
     ELSE enc' = [enc EXCEPT ![File(v)] = "full"] /\ kept' = kept \cup {File(v)}
  /\ visit' = [visit EXCEPT ![v] = NoVisit]
  /\ UNCHANGED <<plain, temp, built>>

\* list_backups and delete_backup: a file that is listed is deleted.
DeleteBackup(b) ==
  /\ built /\ enc[b] # "none"
  /\ enc' = [enc EXCEPT ![b] = "none"]
  /\ kept' = kept \ {b}
  /\ UNCHANGED <<plain, temp, built, visit>>

BackupsCrash ==
  /\ built' = FALSE /\ visit' = [v \in Visitors |-> NoVisit]
  /\ UNCHANGED <<plain, temp, enc, kept>>

BackupsNext ==
  \/ \E v \in Visitors :
       \/ BuildService(v) \/ ServiceBuilt(v) \/ ReadPlain(v) \/ CreateTemp(v)
       \/ WriteTemp(v) \/ WriteFails(v) \/ ReplaceFile(v) \/ RemovePlain(v) \/ SaveBackup(v)
       \/ \E b \in BackupNames : TakeFile(v, b) \/ CreateBackup(v, b)
  \/ \E b \in BackupNames : DeleteBackup(b)
  \/ BackupsCrash

BackupsSpec == BackupsInit /\ [][BackupsNext]_backupVars

-----------------------------------------------------------------------------
(* Property.                                                               *)

\* A backup that was made and not deleted can be read, from its encrypted file
\* or, before it is encrypted, from the plain one: whichever requests build the
\* service at once, and wherever the process stops.
NoBackupLost == \A b \in kept : b \in plain \/ enc[b] = "full"
=============================================================================
