----------------------------- MODULE ConfigStore -----------------------------
(***************************************************************************)
(* The configuration: devices, their credentials and the notes of their     *)
(* ports are rows of the database; the program works with one dictionary    *)
(* read from them, which requests change in place and save as a whole       *)
(* (config.py, repositories/config_repo.py, web/blueprints/config.py,       *)
(* metrics.py).                                                             *)
(*                                                                         *)
(* A device has an id and an address, and a request may name it by either.  *)
(* val stands for everything else it is configured with.  Requests are      *)
(* handled one after the other; each may meet a database that cannot be     *)
(* read or written, or a file config.json that cannot be written.           *)
(***************************************************************************)
EXTENDS Naturals

CONSTANTS Names,      \* ids, and addresses that are used as an id
          Addresses,  \* addresses a device may have
          Contents,   \* what a device is configured with
          Keys,       \* credentials
          Ports,      \* ports that may have a note
          Texts,      \* texts of notes
          NewDevices, \* devices that may be added
          FormDevices, \* devices a form may hold
          Changes,    \* what a device may be changed to
          None,       \* no credential, no row, no note
          MaxFaults   \* bound: failures and refusals

Row    == [ip : Addresses, val : Contents]
\* A device of the dictionary.  clear: the stored credential is to be removed.
Device == [id : Names, ip : Addresses, val : Contents,
           secret : Keys \cup {None}, clear : BOOLEAN]
Note   == [Ports -> Texts \cup {None}]
Config == [devices : SUBSET Device, notes : Note]

ASSUME ConfigAssumption ==
  /\ NewDevices \subseteq {d \in Device : ~d.clear}
  /\ FormDevices \subseteq {d \in Device : d.secret = None}
  /\ Changes \subseteq [ip : Addresses, val : Contents,
                       secret : Keys \cup {None}, clear : BOOLEAN]
  /\ None \notin Row /\ None \notin Config
  /\ None \notin Keys /\ None \notin Texts
  /\ MaxFaults \in Nat

VARIABLES rows,     \* table devices, by id
          secrets,  \* table device_secrets, by id
          notes,    \* table port_notes
          file,     \* config.json, the last exported dictionary
          cache,    \* _cached_config
          unsaved,  \* ids whose cached state a refused or failed request left
          faults,   \* failures and refusals so far
          asked     \* the latest request: the devices it names, those it drops
                    \* or clears, and whether it could read the configuration

tables == <<rows, secrets, notes>>
vars == <<tables, file, cache, unsaved, faults, asked>>

NoNotes == [p \in Ports |-> None]
Default == [devices |-> {}, notes |-> NoNotes]
Request(names, drops, blind) == [names |-> names, drops |-> drops, blind |-> blind]
Nobody  == Request({}, {}, FALSE)

Init ==
  /\ rows = [i \in Names |-> None]
  /\ secrets = [i \in Names |-> None]
  /\ notes = NoNotes
  /\ file = Default
  /\ cache = None
  /\ unsaved = {}
  /\ faults = 0
  /\ asked = Nobody

-----------------------------------------------------------------------------
(* Saving.                                                                 *)

IdsOf(devices) == {d.id : d \in devices}

\* The rows that are found for a device: by its id or by its address.
Found(d) == {i \in Names : rows[i] # None /\ (i = d.id \/ rows[i].ip = d.ip)}

\* New rows must differ in id and address, and new credentials in the id.
Storable(devices) ==
  \A d, e \in devices :
    \/ d = e
    \/ /\ Found(d) \cup Found(e) = {} => d.id # e.id /\ d.ip # e.ip
       /\ secrets[d.id] = None /\ d.secret # None /\ e.secret # None
            /\ ~d.clear /\ ~e.clear => d.id # e.id

\* Every device is written to one of the rows found for it, or to a new one.
Targets(d) == IF Found(d) = {} THEN {d.id} ELSE Found(d)

\* The last write to each row; the devices without a last write were overwritten.
LastWrites(devices) ==
  {last \in SUBSET (UNION {{d} \X Targets(d) : d \in devices}) :
     /\ \A d \in devices : \E m \in last : m[2] \in Targets(d)
     /\ \A m, n \in last : m[1] = n[1] \/ m[2] = n[2] => m = n}

\* An existing row keeps its address.
Written(d, i) ==
  [ip |-> IF rows[i] = None THEN d.ip ELSE rows[i].ip, val |-> d.val]

\* Rows and credentials whose id no device has go.
StoresRows(devices) ==
  \E last \in LastWrites(devices) :
    rows' = [i \in Names |->
               IF i \notin IdsOf(devices) THEN None
               ELSE IF \E m \in last : m[2] = i
                    THEN Written((CHOOSE m \in last : m[2] = i)[1], i)
                    ELSE rows[i]]

\* Mutant: a device that says nothing has no credential.
GivesAlways(d) == TRUE

\* A device gives a new credential, clears it or says nothing of it.
Gives(d) == d.secret # None \/ d.clear

\* The credential of a device that says nothing stays; of devices with one id
\* that give one, one is last.
StoresSecrets(devices) ==
  \E last \in SUBSET {d \in devices : Gives(d)} :
    /\ IdsOf(last) = IdsOf({d \in devices : Gives(d)})
    /\ \A d, e \in last : d.id = e.id => d = e
    /\ secrets' = [i \in Names |->
                     IF i \notin IdsOf(devices) THEN None
                     ELSE IF i \notin IdsOf(last) THEN secrets[i]
                     ELSE LET d == CHOOSE e \in last : e.id = i
                          IN  IF d.clear THEN None ELSE d.secret]

\* save_full_config: one transaction.  Notes are added or replaced, not removed.
Stores(cfg) ==
  /\ Storable(cfg.devices)
  /\ StoresRows(cfg.devices)
  /\ StoresSecrets(cfg.devices)
  /\ notes' = [p \in Ports |-> IF cfg.notes[p] # None THEN cfg.notes[p] ELSE notes[p]]

\* redact_tree
Exported(cfg) ==
  [cfg EXCEPT !.devices = {[d EXCEPT !.secret = None] : d \in @}]

Fault == faults < MaxFaults /\ faults' = faults + 1

DropCache == cache' = None /\ unsaved' = {}

\* Mutant: the dictionary stays in use when it is saved.
SavedKeepsCache(cfg) ==
  /\ Stores(cfg)
  /\ file' = Exported(cfg) /\ UNCHANGED faults
  /\ cache' = cfg /\ unsaved' = {}

\* save_config: the dictionary is stored, exported, which may fail unnoticed,
\* and dropped.
Saved(cfg) ==
  /\ Stores(cfg)
  /\ \/ file' = Exported(cfg) /\ UNCHANGED faults
     \/ UNCHANGED file /\ Fault
  /\ DropCache

\* Mutant: the dictionary stays in use when the transaction fails.
NotSavedKeeps(cfg, names) ==
  /\ Fault
  /\ UNCHANGED <<tables, unsaved>>
  /\ file' = Exported(cfg)
  /\ cache' = IF cache = None THEN None ELSE cfg

\* The transaction fails.  If there are credentials among the devices, save_config
\* returns before the dictionary is exported and dropped: the change stays in use.
NotSaved(cfg, names) ==
  /\ Fault
  /\ UNCHANGED tables
  /\ IF \A d \in cfg.devices : d.secret = None
       THEN file' \in {file, Exported(cfg)} /\ DropCache
       ELSE /\ UNCHANGED file
            /\ IF cache = None THEN DropCache
               ELSE cache' = cfg /\ unsaved' = unsaved \cup names

Save(cfg, names) == Saved(cfg) \/ NotSaved(cfg, names)

-----------------------------------------------------------------------------
(* Loading.                                                                *)

\* load_full_config, after the step
Loaded ==
  [devices |-> {[id |-> i, ip |-> rows'[i].ip, val |-> rows'[i].val,
                 secret |-> secrets'[i], clear |-> FALSE] :
                  i \in {j \in Names : rows'[j] # None}},
   notes   |-> notes']

\* load_config: a database without devices takes over those of config.json.
Load ==
  /\ cache = None
  /\ \/ /\ \A i \in Names : rows[i] = None
        /\ file.devices # {}
        /\ Stores(file)
        /\ UNCHANGED faults
     \/ /\ IF (\A i \in Names : rows[i] = None) /\ file.devices # {}
             THEN Fault
             ELSE UNCHANGED faults
        /\ UNCHANGED tables
  /\ cache' = Loaded
  /\ unsaved' = {}
  /\ asked' = Nobody
  /\ UNCHANGED file

\* The dictionary of a request: the cached one, which is loaded first (Load) if
\* there is none, or the default if loading it fails.
Dictionary == IF cache = None THEN Default ELSE cache

-----------------------------------------------------------------------------
(* Requests.                                                               *)

\* POST /api/devices: a device of the same id is replaced.
Add(new) ==
  LET same  == {d \in Dictionary.devices : d.id = new.id}
      names == {new.id} \cup Found(new)
  IN  /\ asked' = Request(names, {}, cache = None)
      /\ Save([Dictionary EXCEPT !.devices = (@ \ same) \cup {new}], names)

\* PUT /api/devices/<key>: the device named by id or address is changed in the
\* dictionary and takes the key as its id.  It is validated after that.
Update(key, to) ==
  /\ cache # None
  /\ \E d \in cache.devices :
       LET new   == [id |-> key, ip |-> to.ip, val |-> to.val,
                     secret |-> IF to.secret = None THEN d.secret ELSE to.secret,
                     clear |-> d.clear \/ to.clear]
           after == [cache EXCEPT !.devices = (@ \ {d}) \cup {new}]
           names == {d.id, key} \cup Found(new)
           drops == IF new.clear THEN {d.id, key} ELSE {d.id} \ {key}
       IN  /\ d.id = key \/ d.ip = key
           /\ asked' = Request(names, drops, FALSE)
           /\ \/ Save(after, names)
              \/ /\ Fault
                 /\ cache' = after /\ unsaved' = unsaved \cup names
                 /\ UNCHANGED <<tables, file>>

\* DELETE /api/devices/<key>
Delete(key) ==
  LET gone == {d \in Dictionary.devices : d.id = key \/ d.ip = key}
  IN  /\ gone # {}
      /\ asked' = Request(IdsOf(gone), IdsOf(gone), FALSE)
      /\ Save([cache EXCEPT !.devices = @ \ gone], IdsOf(gone))

\* POST /config: the devices of a form, without the credentials that are
\* stored.  The other fields are validated after the devices are replaced.
SavePage(form) ==
  LET after == [Dictionary EXCEPT !.devices = form]
  IN  /\ asked' = Request(Names, Names \ IdsOf({d \in form : ~d.clear}), cache = None)
      /\ \/ Save(after, Names)
         \/ /\ Fault
            /\ IF cache = None THEN DropCache ELSE cache' = after /\ unsaved' = Names
            /\ UNCHANGED <<tables, file>>

\* Every other request that changes the configuration saves all of it:
\* settings, column widths, positions on the map, names and types of clients.
SaveOther ==
  /\ asked' = Request({}, {}, cache = None)
  /\ Save(Dictionary, {})

\* POST /api/notes works on the table alone.
WriteNote(p, text) ==
  /\ notes' = [notes EXCEPT ![p] = text]
  /\ asked' = Nobody
  /\ UNCHANGED <<rows, secrets, file, cache, unsaved, faults>>

\* A note is known by two keys, "5" and "Port 5" of an address; removing it by
\* the first leaves the second, under which it is written again.
SetNote(p) == \E text \in Texts : WriteNote(p, text)
ClearNote(p) == \E text \in {None, notes[p]} : WriteNote(p, text)

Restart ==
  /\ DropCache
  /\ asked' = Nobody
  /\ UNCHANGED <<tables, file, faults>>

\* Ids are unique in a form.
Forms == {f \in SUBSET FormDevices : \A d, e \in f : d.id = e.id => d = e}

Next ==
  \/ Load
  \/ \E new \in NewDevices : Add(new)
  \/ \E key \in Names, to \in Changes : Update(key, to)
  \/ \E key \in Names : Delete(key)
  \/ \E form \in Forms : SavePage(form)
  \/ SaveOther
  \/ \E p \in Ports : SetNote(p) \/ ClearNote(p)
  \/ Restart

Spec == Init /\ [][Next]_vars

-----------------------------------------------------------------------------
(* Properties.                                                             *)

\* The tables and the dictionary have their types, and config.json, written
\* from the dictionary by every save, has no credentials (config.py:262).
TypeOK ==
  /\ rows \in [Names -> Row \cup {None}]
  /\ secrets \in [Names -> Keys \cup {None}]
  /\ notes \in Note
  /\ file \in Config /\ \A d \in file.devices : d.secret = None
  /\ cache \in Config \cup {None}
  /\ unsaved \subseteq Names
  /\ faults \in 0..MaxFaults
  /\ asked \in [names : SUBSET Names, drops : SUBSET Names, blind : BOOLEAN]

\* What the program works with is what is stored, but for the devices of
\* requests that were refused after they had changed the dictionary, or that
\* could not be saved.
CacheExplained ==
  cache # None =>
    \A i \in Names \ unsaved :
      /\ rows[i] = None => \A d \in cache.devices : d.id # i
      /\ rows[i] # None => 
           {d \in cache.devices : d.id = i} =
             {[id |-> i, ip |-> rows[i].ip, val |-> rows[i].val,
               secret |-> secrets[i], clear |-> FALSE]}

\* A request changes the rows of the devices it names, of those whose address
\* it uses, and of those that an earlier request left in the dictionary, and of
\* no other, although every request writes them all.  Excepted are a request
\* that could not read the configuration and saves the defaults, and the first
\* rows of a database, which come from config.json.
RequestsStayLocal ==
  [][\A i \in Names :
       rows'[i] # rows[i] =>
         \/ i \in asked'.names \cup unsaved
         \/ asked'.blind
         \/ (\A j \in Names : rows[j] = None) /\ i \in IdsOf(file.devices)]_vars

\* The stored credential of a device stays until it is replaced or cleared, or
\* the device is removed: a form that does not show it keeps it.
CredentialsKept ==
  [][\A i \in Names :
       rows[i] # None /\ secrets[i] # None /\ secrets'[i] = None =>
         \/ i \in asked'.drops \cup unsaved
         \/ asked'.blind]_vars

\* README.md:575: POST /api/notes attaches a persistent note to a port: a note
\* that is attached changes only by a request about it.
NotesPersist ==
  [][\A p \in Ports :
       notes[p] # None /\ notes'[p] # notes[p] => SetNote(p) \/ ClearNote(p)]_vars
=============================================================================
