-------------------------- MODULE ConfigStoreProofs --------------------------
(***************************************************************************)
(* The configuration of module ConfigStore, for any devices, requests and   *)
(* number of failures.                                                      *)
(***************************************************************************)
EXTENDS ConfigStore, TLAPS

-----------------------------------------------------------------------------
(* The inductive invariant.                                                *)

\* No two rows have one address (models/config.py:26).
AddressesUnique ==
  \A i, j \in Names :
    rows[i] # None /\ rows[j] # None /\ rows[i].ip = rows[j].ip => i = j

\* A device that was not saved is not written to the row of a device that was.
UnsavedCovered ==
  cache # None =>
    \A d \in cache.devices : d.id \in unsaved => Targets(d) \subseteq unsaved

Tables == /\ rows \in [Names -> Row \cup {None}]
          /\ secrets \in [Names -> Keys \cup {None}]
          /\ notes \in Note

ConfigInv == TypeOK /\ AddressesUnique /\ CacheExplained /\ UnsavedCovered

-----------------------------------------------------------------------------
(* What a transaction does to one row and to one credential.               *)

\* A row goes, stays, or is written by a device that finds it.
LEMMA RowsStored ==
  ASSUME Tables, NEW devices \in SUBSET Device, StoresRows(devices)
  PROVE  /\ rows' \in [Names -> Row \cup {None}]
         /\ \A i \in Names :
              \/ i \notin IdsOf(devices) /\ rows'[i] = None
              \/ i \in IdsOf(devices) /\ rows'[i] = rows[i]
              \/ /\ i \in IdsOf(devices)
                 /\ \E d \in devices : i \in Targets(d) /\ rows'[i] = Written(d, i)
  <1>1. PICK last \in LastWrites(devices) :
          rows' = [i \in Names |->
                     IF i \notin IdsOf(devices) THEN None
                     ELSE IF \E m \in last : m[2] = i
                          THEN Written((CHOOSE m \in last : m[2] = i)[1], i)
                          ELSE rows[i]]
    BY DEF StoresRows
  <1>2. \A m \in last : m[1] \in devices /\ m[2] \in Targets(m[1])
    BY DEF LastWrites
  <1>3. \A d \in devices, i \in Names : Written(d, i) \in Row
    BY DEF Written, Row, Device, Tables
  <1>4. ASSUME NEW i \in Names, i \in IdsOf(devices), \E m \in last : m[2] = i
        PROVE  \E d \in devices : i \in Targets(d) /\ rows'[i] = Written(d, i)
    <2> DEFINE write == CHOOSE m \in last : m[2] = i
    <2>1. write \in last /\ write[2] = i
      BY <1>4
    <2>2. rows'[i] = Written(write[1], i)
      BY <1>1, <1>4
    <2> QED BY <1>2, <2>1, <2>2
  <1>5. \A i \in Names :
          \/ i \notin IdsOf(devices) /\ rows'[i] = None
          \/ i \in IdsOf(devices) /\ rows'[i] = rows[i]
          \/ /\ i \in IdsOf(devices)
             /\ \E d \in devices : i \in Targets(d) /\ rows'[i] = Written(d, i)
    BY <1>1, <1>4
  <1>6. \A i \in Names : rows'[i] \in Row \cup {None}
    BY <1>3, <1>5 DEF Tables
  <1> QED BY <1>1, <1>5, <1>6

\* A credential goes with its device or by its wish, is replaced or stays.
LEMMA SecretsStored ==
  ASSUME Tables, NEW devices \in SUBSET Device, StoresSecrets(devices)
  PROVE  /\ secrets' \in [Names -> Keys \cup {None}]
         /\ \A i \in Names :
              \/ i \notin IdsOf(devices) /\ secrets'[i] = None
              \/ secrets'[i] = secrets[i]
              \/ \E d \in devices :
                   d.id = i /\ secrets'[i] = (IF d.clear THEN None ELSE d.secret)
                            /\ Gives(d)
  <1>1. PICK last \in SUBSET {d \in devices : Gives(d)} :
          secrets' = [i \in Names |->
                        IF i \notin IdsOf(devices) THEN None
                        ELSE IF i \notin IdsOf(last) THEN secrets[i]
                        ELSE LET d == CHOOSE e \in last : e.id = i
                             IN  IF d.clear THEN None ELSE d.secret]
    BY DEF StoresSecrets
  <1>2. ASSUME NEW i \in Names, i \in IdsOf(devices), i \in IdsOf(last)
        PROVE  \E d \in devices :
                 d.id = i /\ secrets'[i] = (IF d.clear THEN None ELSE d.secret)
                          /\ Gives(d)
    <2> DEFINE d == CHOOSE e \in last : e.id = i
    <2>1. d \in last /\ d.id = i
      BY <1>2 DEF IdsOf
    <2>2. secrets'[i] = IF d.clear THEN None ELSE d.secret
      BY <1>1, <1>2
    <2> HIDE DEF d
    <2> QED BY <1>1, <2>1, <2>2
  <1>3. \A i \in Names :
          \/ i \notin IdsOf(devices) /\ secrets'[i] = None
          \/ secrets'[i] = secrets[i]
          \/ \E d \in devices :
               d.id = i /\ secrets'[i] = (IF d.clear THEN None ELSE d.secret)
                        /\ Gives(d)
    BY <1>1, <1>2
  <1>4. \A i \in Names : secrets'[i] \in Keys \cup {None}
    BY <1>3 DEF Tables, Device
  <1> QED BY <1>1, <1>3, <1>4

\* A stored device is written to its own row.
LEMMA StoredIsFound ==
  ASSUME AddressesUnique, NEW d \in Device,
         rows[d.id] # None, d.ip = rows[d.id].ip
  PROVE  Targets(d) = {d.id}
  <1>1. d.id \in Names
    BY DEF Device
  <1>2. Found(d) = {d.id}
    BY <1>1 DEF AddressesUnique, Found
  <1> QED BY <1>2 DEF Targets

\* Rows keep their addresses, and new rows differ from them and each other.
LEMMA AddressesStored ==
  ASSUME Tables, AddressesUnique, NEW devices \in SUBSET Device,
         Storable(devices), StoresRows(devices)
  PROVE  AddressesUnique'
  <1> DEFINE New(i) == \E d \in devices :
                 d.id = i /\ Found(d) = {} /\ rows'[i].ip = d.ip
  <1>1. ASSUME NEW i \in Names, rows'[i] # None
        PROVE  \/ rows[i] # None /\ rows'[i].ip = rows[i].ip
               \/ New(i)
    <2>1. CASE rows'[i] = rows[i]
      BY <1>1, <2>1
    <2>2. CASE \E d \in devices : i \in Targets(d) /\ rows'[i] = Written(d, i)
      <3>1. PICK d \in devices : i \in Targets(d) /\ rows'[i] = Written(d, i)
        BY <2>2
      <3>2. rows'[i].ip = IF rows[i] = None THEN d.ip ELSE rows[i].ip
        BY <3>1 DEF Written
      <3>3. CASE rows[i] # None
        BY <3>2, <3>3
      <3>4. CASE rows[i] = None
        <4>1. i \notin Found(d)
          BY <3>4 DEF Found
        <4>2. Found(d) = {} /\ i = d.id
          BY <3>1, <4>1 DEF Targets
        <4> QED BY <3>2, <3>4, <4>2
      <3> QED BY <3>3, <3>4
    <2> QED BY <1>1, <2>1, <2>2, RowsStored
  <1>2. ASSUME NEW i \in Names, NEW j \in Names, rows'[i] # None, rows'[j] # None,
               rows'[i].ip = rows'[j].ip
        PROVE  i = j
    <2>1. CASE /\ rows[i] # None /\ rows'[i].ip = rows[i].ip
               /\ rows[j] # None /\ rows'[j].ip = rows[j].ip
      BY <1>2, <2>1 DEF AddressesUnique
    <2>2. ASSUME NEW k \in Names, NEW l \in Names, rows'[k].ip = rows'[l].ip,
                 rows[k] # None, rows'[k].ip = rows[k].ip, New(l)
          PROVE  FALSE
      <3>1. PICK d \in devices : d.id = l /\ Found(d) = {} /\ rows'[l].ip = d.ip
        BY <2>2
      <3>2. k \in Found(d)
        BY <2>2, <3>1 DEF Found
      <3> QED BY <3>1, <3>2
    <2>3. CASE New(i) /\ New(j)
      <3>1. PICK d \in devices : d.id = i /\ Found(d) = {} /\ rows'[i].ip = d.ip
        BY <2>3
      <3>2. PICK e \in devices : e.id = j /\ Found(e) = {} /\ rows'[j].ip = e.ip
        BY <2>3
      <3>3. d = e
        BY <1>2, <3>1, <3>2 DEF Storable
      <3> QED BY <3>1, <3>2, <3>3
    <2> HIDE DEF New
    <2>4. CASE New(i)
      BY <1>1, <1>2, <2>2, <2>3, <2>4
    <2>5. CASE New(j)
      BY <1>1, <1>2, <2>2, <2>3, <2>5
    <2> QED BY <1>1, <1>2, <2>1, <2>4, <2>5
  <1> QED BY <1>2 DEF AddressesUnique

\* A transaction keeps the types of the tables and the addresses unique.
LEMMA TablesStored ==
  ASSUME Tables, AddressesUnique, NEW cfg \in Config, Stores(cfg)
  PROVE  Tables' /\ AddressesUnique'
  <1>1. cfg.devices \in SUBSET Device /\ cfg.notes \in Note
    BY DEF Config
  <1>2. notes' \in Note
    BY <1>1 DEF Stores, Tables, Note
  <1> QED BY <1>1, <1>2, RowsStored, SecretsStored, AddressesStored
          DEF Stores, Tables

-----------------------------------------------------------------------------
(* The dictionary.                                                         *)

\* A request changes the devices of names in the dictionary, and no other.
OnlyNamesChanged(cfg, names) ==
  /\ names \subseteq Names
  /\ \A d \in cfg.devices :
       \/ d \in Dictionary.devices
       \/ d.id \in names /\ Targets(d) \subseteq names
  /\ \A d \in Dictionary.devices : d \in cfg.devices \/ d.id \in names

\* The dictionary of a request that is refused or not saved stays explained.
LEMMA DictionaryKept ==
  ASSUME ConfigInv, NEW cfg \in Config, NEW names, cache # None,
         OnlyNamesChanged(cfg, names), UNCHANGED <<rows, secrets>>,
         cache' = cfg, unsaved' = unsaved \cup names
  PROVE  CacheExplained' /\ UnsavedCovered'
  <1>1. cache \in Config /\ Dictionary = cache
    BY DEF ConfigInv, TypeOK, Dictionary
  <1>2. \A i \in Names \ unsaved' :
          {d \in cfg.devices : d.id = i} = {d \in cache.devices : d.id = i}
    BY <1>1 DEF OnlyNamesChanged
  <1>3. CacheExplained'
    <2>1. ASSUME NEW i \in Names \ unsaved' 
          PROVE  /\ rows[i] = None => \A d \in cfg.devices : d.id # i
                 /\ rows[i] # None =>
                      {d \in cfg.devices : d.id = i} =
                        {[id |-> i, ip |-> rows[i].ip, val |-> rows[i].val,
                          secret |-> secrets[i], clear |-> FALSE]}
      <3>1. i \in Names \ unsaved
        OBVIOUS
      <3>2. {d \in cfg.devices : d.id = i} = {d \in cache.devices : d.id = i}
        BY <1>2
      <3>3. rows[i] = None => {d \in cfg.devices : d.id = i} = {}
        BY <3>1, <3>2 DEF ConfigInv, CacheExplained
      <3> QED BY <3>1, <3>2, <3>3 DEF ConfigInv, CacheExplained
    <2> QED BY <2>1 DEF CacheExplained
  <1>4. ASSUME NEW d \in cfg.devices, d.id \in unsaved'
        PROVE  Targets(d) \subseteq unsaved'
    <2>1. CASE Targets(d) \subseteq names
      BY <2>1
    <2>2. CASE d \in cache.devices /\ d.id \in unsaved
      BY <2>2 DEF ConfigInv, UnsavedCovered
    <2>3. CASE d \in cache.devices /\ d.id \notin unsaved
      <3>1. d \in Device /\ d.id \in Names
        BY <1>1, <2>3 DEF Config, Device
      <3>2. rows[d.id] # None
        BY <2>3, <3>1 DEF ConfigInv, CacheExplained
      <3>3. d \in {[id |-> d.id, ip |-> rows[d.id].ip, val |-> rows[d.id].val,
                    secret |-> secrets[d.id], clear |-> FALSE]}
        BY <2>3, <3>1, <3>2 DEF ConfigInv, CacheExplained
      <3>4. d.ip = rows[d.id].ip
        BY <3>3
      <3> QED BY <1>4, <3>1, <3>2, <3>4, StoredIsFound DEF ConfigInv
    <2> QED BY <1>1, <2>1, <2>2, <2>3 DEF OnlyNamesChanged
  <1> QED BY <1>3, <1>4 DEF UnsavedCovered, Targets, Found

\* The invariant without the ghost of the latest request.
StoreInv ==
  /\ Tables
  /\ file \in Config /\ \A d \in file.devices : d.secret = None
  /\ cache \in Config \cup {None}
  /\ unsaved \subseteq Names
  /\ faults \in 0..MaxFaults
  /\ AddressesUnique /\ CacheExplained /\ UnsavedCovered

Requested == [names : SUBSET Names, drops : SUBSET Names, blind : BOOLEAN]

LEMMA InvParts == ConfigInv <=> StoreInv /\ asked \in Requested
  BY DEF ConfigInv, StoreInv, TypeOK, Tables, Requested

LEMMA InvPartsNext == ConfigInv' <=> StoreInv' /\ asked' \in Requested
  BY DEF ConfigInv, StoreInv, TypeOK, Tables, Requested

LEMMA FaultCounted ==
  ASSUME faults \in 0..MaxFaults, Fault \/ UNCHANGED faults
  PROVE  faults' \in 0..MaxFaults
  BY ConfigAssumption DEF Fault

LEMMA ExportHasNoSecrets ==
  ASSUME NEW cfg \in Config
  PROVE  Exported(cfg) \in Config /\ \A d \in Exported(cfg).devices : d.secret = None
  <1>1. {[d EXCEPT !.secret = None] : d \in cfg.devices} \in SUBSET Device
    BY DEF Config, Device
  <1>2. Exported(cfg).devices = {[d EXCEPT !.secret = None] : d \in cfg.devices}
    BY DEF Exported, Config
  <1>3. Exported(cfg) \in Config
    BY <1>1 DEF Exported, Config
  <1>4. \A d \in cfg.devices : [d EXCEPT !.secret = None].secret = None
    BY DEF Config, Device
  <1> QED BY <1>2, <1>3, <1>4

\* Nothing is unexplained without a dictionary.
LEMMA CacheDropped ==
  ASSUME DropCache
  PROVE  /\ cache' \in Config \cup {None} /\ unsaved' \subseteq Names
         /\ CacheExplained' /\ UnsavedCovered'
  BY DEF DropCache, CacheExplained, UnsavedCovered

LEMMA SaveInv ==
  ASSUME ConfigInv, NEW cfg \in Config, NEW names, OnlyNamesChanged(cfg, names),
         Save(cfg, names)
  PROVE  StoreInv'
  <1>1. StoreInv
    BY InvParts
  <1>2. CASE Saved(cfg)
    <2>1. Tables' /\ AddressesUnique'
      BY <1>1, <1>2, TablesStored DEF StoreInv, Saved
    <2>2. file' \in Config /\ \A d \in file'.devices : d.secret = None
      BY <1>1, <1>2, ExportHasNoSecrets DEF StoreInv, Saved
    <2>3. faults' \in 0..MaxFaults
      BY <1>1, <1>2, FaultCounted DEF StoreInv, Saved
    <2> QED BY <1>2, <2>1, <2>2, <2>3, CacheDropped DEF StoreInv, Saved
  <1>3. CASE NotSaved(cfg, names)
    <2>1. UNCHANGED tables
      BY <1>3 DEF NotSaved
    <2>2. Tables' /\ AddressesUnique'
      BY <1>1, <2>1 DEF StoreInv, Tables, AddressesUnique, tables
    <2>3. file' \in Config /\ \A d \in file'.devices : d.secret = None
      BY <1>1, <1>3, ExportHasNoSecrets DEF StoreInv, NotSaved
    <2>4. faults' \in 0..MaxFaults
      BY <1>1, <1>3, FaultCounted DEF StoreInv, NotSaved
    <2>5. CASE DropCache
      BY <2>2, <2>3, <2>4, <2>5, CacheDropped DEF StoreInv
    <2>6. CASE cache # None /\ cache' = cfg /\ unsaved' = unsaved \cup names
      <3>1. CacheExplained' /\ UnsavedCovered'
        BY <2>1, <2>6, DictionaryKept DEF tables
      <3>2. unsaved' \subseteq Names
        BY <1>1, <2>6 DEF StoreInv, OnlyNamesChanged
      <3> QED BY <2>2, <2>3, <2>4, <2>6, <3>1, <3>2 DEF StoreInv
    <2> QED BY <1>3, <2>5, <2>6 DEF NotSaved
  <1> QED BY <1>2, <1>3 DEF Save

\* A request that is refused after it changed the dictionary.
LEMMA RefusalInv ==
  ASSUME ConfigInv, NEW cfg \in Config, NEW names, OnlyNamesChanged(cfg, names),
         cache # None, cache' = cfg, unsaved' = unsaved \cup names,
         Fault, UNCHANGED <<tables, file>>
  PROVE  StoreInv'
  <1>1. StoreInv
    BY InvParts
  <1>2. Tables' /\ AddressesUnique'
    BY <1>1 DEF StoreInv, Tables, AddressesUnique, tables
  <1>3. CacheExplained' /\ UnsavedCovered'
    BY DictionaryKept DEF tables
  <1>4. faults' \in 0..MaxFaults
    BY <1>1, FaultCounted DEF StoreInv
  <1>5. unsaved' \subseteq Names
    BY <1>1 DEF StoreInv, OnlyNamesChanged
  <1> QED BY <1>1, <1>2, <1>3, <1>4, <1>5 DEF StoreInv

LEMMA DictionaryType ==
  ASSUME ConfigInv
  PROVE  Dictionary \in Config
  <1>1. Default \in Config
    BY DEF Default, NoNotes, Config, Note
  <1> QED BY <1>1 DEF ConfigInv, TypeOK, Dictionary

-----------------------------------------------------------------------------
(* The steps.                                                              *)

LEMMA InitInv == Init => ConfigInv
  <1> SUFFICES ASSUME Init PROVE ConfigInv
    OBVIOUS
  <1>1. Default \in Config /\ Default.devices = {} /\ NoNotes \in Note
    BY DEF Default, NoNotes, Config, Note
  <1>2. 0 \in 0..MaxFaults
    BY ConfigAssumption
  <1> QED BY <1>1, <1>2 DEF Init, ConfigInv, TypeOK, AddressesUnique,
             CacheExplained, UnsavedCovered, Nobody, Request

LEMMA LoadInv == ASSUME ConfigInv, Load PROVE ConfigInv'
  <1>1. StoreInv
    BY InvParts
  <1>2. Tables' /\ AddressesUnique'
    <2>1. CASE UNCHANGED tables
      BY <1>1, <2>1 DEF StoreInv, Tables, AddressesUnique, tables
    <2>2. CASE Stores(file)
      BY <1>1, <2>2, TablesStored DEF StoreInv
    <2> QED BY <2>1, <2>2 DEF Load
  <1>3. faults' \in 0..MaxFaults
    BY <1>1, FaultCounted DEF StoreInv, Load
  <1>4. cache' = Loaded /\ unsaved' = {} /\ asked' = Nobody /\ UNCHANGED file
    BY DEF Load
  <1>5. Loaded.devices \in SUBSET Device
    <2>1. ASSUME NEW i \in Names, rows'[i] # None
          PROVE  [id |-> i, ip |-> rows'[i].ip, val |-> rows'[i].val,
                  secret |-> secrets'[i], clear |-> FALSE] \in Device
      <3>1. rows'[i] \in Row /\ secrets'[i] \in Keys \cup {None}
        BY <1>2, <2>1 DEF Tables
      <3> QED BY <3>1 DEF Row, Device
    <2> QED BY <2>1 DEF Loaded
  <1>6. cache' \in Config
    BY <1>2, <1>4, <1>5 DEF Loaded, Config, Tables
  <1>7. CacheExplained'
    <2>1. cache'.devices =
            {[id |-> i, ip |-> rows'[i].ip, val |-> rows'[i].val,
              secret |-> secrets'[i], clear |-> FALSE] :
               i \in {j \in Names : rows'[j] # None}}
      BY <1>4 DEF Loaded
    <2>2. ASSUME NEW i \in Names, rows'[i] = None, NEW d \in cache'.devices
          PROVE  d.id # i
      BY <2>1, <2>2
    <2>3. ASSUME NEW i \in Names, rows'[i] # None
          PROVE  {d \in cache'.devices : d.id = i} =
                   {[id |-> i, ip |-> rows'[i].ip, val |-> rows'[i].val,
                     secret |-> secrets'[i], clear |-> FALSE]}
      BY <2>1, <2>3
    <2> QED BY <2>2, <2>3 DEF CacheExplained
  <1>8. UnsavedCovered'
    BY <1>4 DEF UnsavedCovered
  <1>9. asked' \in Requested
    BY <1>4 DEF Nobody, Request, Requested
  <1> QED BY <1>1, <1>2, <1>3, <1>4, <1>6, <1>7, <1>8, <1>9, InvPartsNext
          DEF StoreInv

-----------------------------------------------------------------------------
(* Requests.                                                               *)

\* A request drops or clears the devices of drops, and no other.
OnlyDropsLost(cfg, drops) ==
  /\ \A d \in Dictionary.devices : d.id \in IdsOf(cfg.devices) \/ d.id \in drops
  /\ \A d \in cfg.devices : d.clear => d \in Dictionary.devices \/ d.id \in drops

\* A request that changes the dictionary to cfg.
Handles(cfg) ==
  /\ asked' \in Requested
  /\ cache = None => asked'.blind
  /\ OnlyNamesChanged(cfg, asked'.names)
  /\ OnlyDropsLost(cfg, asked'.drops)
  /\ \/ Save(cfg, asked'.names)
     \/ /\ Fault
        /\ IF cache = None THEN DropCache
           ELSE cache' = cfg /\ unsaved' = unsaved \cup asked'.names
        /\ UNCHANGED <<tables, file>>

LEMMA AddHandles ==
  ASSUME ConfigInv, NEW new \in NewDevices, Add(new)
  PROVE  \E cfg \in Config : Handles(cfg)
  <1> DEFINE same  == {d \in Dictionary.devices : d.id = new.id}
             names == {new.id} \cup Found(new)
             after == [Dictionary EXCEPT !.devices = (@ \ same) \cup {new}]
  <1>1. new \in Device /\ ~new.clear /\ Dictionary \in Config
    BY ConfigAssumption, DictionaryType
  <1>2. after \in Config /\ after.devices = (Dictionary.devices \ same) \cup {new}
    BY <1>1 DEF Config
  <1>3. names \subseteq Names /\ Targets(new) \subseteq names
    BY <1>1 DEF Found, Device, Targets
  <1>4. OnlyNamesChanged(after, names)
    BY <1>2, <1>3 DEF OnlyNamesChanged
  <1>5. OnlyDropsLost(after, {})
    BY <1>1, <1>2 DEF OnlyDropsLost, IdsOf
  <1>6. asked' = Request(names, {}, cache = None) /\ Save(after, names)
    BY DEF Add
  <1> HIDE DEF after, names
  <1>7. /\ asked' \in Requested /\ asked'.names = names /\ asked'.drops = {}
        /\ cache = None => asked'.blind
    BY <1>3, <1>6 DEF Request, Requested
  <1>8. Handles(after)
    BY <1>4, <1>5, <1>6, <1>7 DEF Handles
  <1> QED BY <1>2, <1>8

LEMMA UpdateHandles ==
  ASSUME ConfigInv, NEW key \in Names, NEW to \in Changes, Update(key, to)
  PROVE  \E cfg \in Config : Handles(cfg)
  <1>1. cache \in Config /\ cache # None /\ Dictionary = cache
    BY DEF ConfigInv, TypeOK, Update, Dictionary
  <1> DEFINE New(d) == [id |-> key, ip |-> to.ip, val |-> to.val,
                        secret |-> IF to.secret = None THEN d.secret ELSE to.secret,
                        clear |-> d.clear \/ to.clear]
             After(d) == [cache EXCEPT !.devices = (@ \ {d}) \cup {New(d)}]
             Changed(d) == {d.id, key} \cup Found(New(d))
             Drops(d) == IF New(d).clear THEN {d.id, key} ELSE {d.id} \ {key}
  <1>2. PICK d \in cache.devices :
          /\ asked' = Request(Changed(d), Drops(d), FALSE)
          /\ \/ Save(After(d), Changed(d))
             \/ /\ Fault
                /\ cache' = After(d) /\ unsaved' = unsaved \cup Changed(d)
                /\ UNCHANGED <<tables, file>>
    BY DEF Update
  <1>3. d \in Device /\ to \in [ip : Addresses, val : Contents,
                                secret : Keys \cup {None}, clear : BOOLEAN]
    BY <1>1, ConfigAssumption DEF Config
  <1>4. New(d) \in Device /\ New(d).id = key
    BY <1>3 DEF Device
  <1> HIDE DEF New
  <1>5. After(d) \in Config /\ After(d).devices = (cache.devices \ {d}) \cup {New(d)}
    BY <1>1, <1>4 DEF Config
  <1>6. Changed(d) \subseteq Names /\ Drops(d) \subseteq Names
    BY <1>3 DEF Device, Found
  <1>7. Targets(New(d)) \subseteq Changed(d)
    BY <1>4 DEF Targets
  <1>8. OnlyNamesChanged(After(d), Changed(d))
    BY <1>1, <1>4, <1>5, <1>6, <1>7 DEF OnlyNamesChanged
  <1>9. OnlyDropsLost(After(d), Drops(d))
    BY <1>1, <1>4, <1>5 DEF OnlyDropsLost, IdsOf
  <1> HIDE DEF After, Changed, Drops
  <1>10. /\ asked' \in Requested /\ asked'.names = Changed(d)
         /\ asked'.drops = Drops(d)
    BY <1>2, <1>6 DEF Request, Requested
  <1>11. Handles(After(d))
    BY <1>1, <1>2, <1>8, <1>9, <1>10 DEF Handles
  <1> QED BY <1>5, <1>11

LEMMA DeleteHandles ==
  ASSUME ConfigInv, NEW key \in Names, Delete(key)
  PROVE  \E cfg \in Config : Handles(cfg)
  <1> DEFINE gone == {d \in Dictionary.devices : d.id = key \/ d.ip = key}
             after == [cache EXCEPT !.devices = @ \ gone]
  <1>1. cache # None
    BY DEF Delete, Dictionary, Default
  <1>2. cache \in Config /\ Dictionary = cache
    BY <1>1 DEF ConfigInv, TypeOK, Dictionary
  <1>3. after \in Config /\ after.devices = cache.devices \ gone
    BY <1>2 DEF Config
  <1>4. IdsOf(gone) \subseteq Names
    BY <1>2 DEF IdsOf, Config, Device
  <1>5. OnlyNamesChanged(after, IdsOf(gone)) /\ OnlyDropsLost(after, IdsOf(gone))
    BY <1>2, <1>3, <1>4 DEF OnlyNamesChanged, OnlyDropsLost, IdsOf
  <1>6. asked' = Request(IdsOf(gone), IdsOf(gone), FALSE) /\ Save(after, IdsOf(gone))
    BY DEF Delete
  <1> HIDE DEF after, gone
  <1>7. /\ asked' \in Requested /\ asked'.names = IdsOf(gone)
        /\ asked'.drops = IdsOf(gone)
    BY <1>4, <1>6 DEF Request, Requested
  <1>8. Handles(after)
    BY <1>1, <1>5, <1>6, <1>7 DEF Handles
  <1> QED BY <1>3, <1>8

LEMMA SavePageHandles ==
  ASSUME ConfigInv, NEW form \in Forms, SavePage(form)
  PROVE  \E cfg \in Config : Handles(cfg)
  <1> DEFINE after == [Dictionary EXCEPT !.devices = form]
             drops == Names \ IdsOf({d \in form : ~d.clear})
  <1>1. form \in SUBSET Device /\ Dictionary \in Config
    BY ConfigAssumption, DictionaryType DEF Forms
  <1>2. after \in Config /\ after.devices = form
    BY <1>1 DEF Config
  <1>3. \A d \in Device : d.id \in Names /\ Targets(d) \subseteq Names
    BY DEF Device, Targets, Found
  <1>4. \A d \in Dictionary.devices : d \in Device
    BY <1>1 DEF Config
  <1>5. OnlyNamesChanged(after, Names)
    BY <1>1, <1>2, <1>3, <1>4 DEF OnlyNamesChanged
  <1>6. OnlyDropsLost(after, drops)
    <2>1. \A d \in form : d.clear => d.id \in drops
      BY <1>1, <1>3 DEF Forms, IdsOf
    <2>2. \A d \in Dictionary.devices : d.id \in IdsOf(form) \/ d.id \in drops
      BY <1>3, <1>4 DEF IdsOf
    <2> QED BY <1>2, <2>1, <2>2 DEF OnlyDropsLost
  <1>7. /\ asked' = Request(Names, drops, cache = None)
        /\ \/ Save(after, Names)
           \/ /\ Fault
              /\ IF cache = None THEN DropCache ELSE cache' = after /\ unsaved' = Names
              /\ UNCHANGED <<tables, file>>
    BY DEF SavePage
  <1>8. unsaved \cup Names = Names /\ drops \subseteq Names
    BY DEF ConfigInv, TypeOK
  <1> HIDE DEF after, drops
  <1>9. /\ asked' \in Requested /\ asked'.names = Names /\ asked'.drops = drops
        /\ cache = None => asked'.blind
    BY <1>7, <1>8 DEF Request, Requested
  <1>10. Handles(after)
    BY <1>5, <1>6, <1>7, <1>8, <1>9 DEF Handles
  <1> QED BY <1>2, <1>10

LEMMA SaveOtherHandles ==
  ASSUME ConfigInv, SaveOther
  PROVE  \E cfg \in Config : Handles(cfg)
  <1>1. OnlyNamesChanged(Dictionary, {}) /\ OnlyDropsLost(Dictionary, {})
    BY DEF OnlyNamesChanged, OnlyDropsLost, IdsOf
  <1>2. /\ asked' \in Requested /\ asked'.names = {} /\ asked'.drops = {}
        /\ cache = None => asked'.blind
    BY DEF SaveOther, Request, Requested
  <1>3. Handles(Dictionary)
    BY <1>1, <1>2 DEF SaveOther, Handles
  <1> QED BY <1>3, DictionaryType

\* The five requests that work with the dictionary.
Requests ==
  \/ \E new \in NewDevices : Add(new)
  \/ \E key \in Names, to \in Changes : Update(key, to)
  \/ \E key \in Names : Delete(key)
  \/ \E form \in Forms : SavePage(form)
  \/ SaveOther

LEMMA RequestHandles ==
  ASSUME ConfigInv, Requests
  PROVE  \E cfg \in Config : Handles(cfg)
  BY AddHandles, UpdateHandles, DeleteHandles, SavePageHandles, SaveOtherHandles
     DEF Requests

LEMMA RequestInv ==
  ASSUME ConfigInv, NEW cfg \in Config, Handles(cfg)
  PROVE  ConfigInv'
  <1>1. StoreInv /\ asked' \in Requested /\ OnlyNamesChanged(cfg, asked'.names)
    BY InvParts DEF Handles
  <1> DEFINE names == asked'.names
  <1> HIDE DEF names
  <1>2. OnlyNamesChanged(cfg, names)
    BY <1>1 DEF names
  <1>3. ASSUME Save(cfg, names) PROVE StoreInv'
    BY <1>2, <1>3, SaveInv
  <1>4. ASSUME Fault, DropCache, UNCHANGED <<tables, file>> PROVE StoreInv'
    <2>1. Tables' /\ AddressesUnique'
      BY <1>1, <1>4 DEF StoreInv, Tables, AddressesUnique, tables
    <2>2. faults' \in 0..MaxFaults
      BY <1>1, <1>4, FaultCounted DEF StoreInv
    <2> QED BY <1>1, <1>4, <2>1, <2>2, CacheDropped DEF StoreInv
  <1>5. ASSUME Fault, cache # None, cache' = cfg, unsaved' = unsaved \cup names,
               UNCHANGED <<tables, file>>
        PROVE  StoreInv'
    BY <1>2, <1>5, RefusalInv
  <1>6. StoreInv'
    BY <1>3, <1>4, <1>5 DEF Handles, names
  <1> QED BY <1>1, <1>6, InvPartsNext

LEMMA NoteInv ==
  ASSUME ConfigInv, NEW p \in Ports, SetNote(p) \/ ClearNote(p)
  PROVE  ConfigInv'
  <1>1. PICK text \in Texts \cup {None} : WriteNote(p, text)
    BY DEF SetNote, ClearNote, ConfigInv, TypeOK, Note
  <1>2. notes' \in Note
    BY <1>1 DEF WriteNote, ConfigInv, TypeOK, Note
  <1>3. UNCHANGED <<rows, secrets, file, cache, unsaved, faults>>
    BY <1>1 DEF WriteNote
  <1>4. asked' \in Requested
    BY <1>1 DEF WriteNote, Nobody, Request, Requested
  <1>5. AddressesUnique' /\ CacheExplained' /\ UnsavedCovered'
    BY <1>3 DEF ConfigInv, AddressesUnique, CacheExplained, UnsavedCovered, Targets, Found
  <1> QED BY <1>2, <1>3, <1>4, <1>5 DEF ConfigInv, TypeOK, Requested

LEMMA RestartInv == ASSUME ConfigInv, Restart PROVE ConfigInv'
  <1>1. StoreInv
    BY InvParts
  <1>2. Tables' /\ AddressesUnique'
    BY <1>1 DEF Restart, StoreInv, Tables, AddressesUnique, tables
  <1>3. asked' \in Requested
    BY DEF Restart, Nobody, Request, Requested
  <1>4. StoreInv'
    BY <1>1, <1>2, CacheDropped DEF Restart, StoreInv
  <1> QED BY <1>3, <1>4, InvPartsNext

LEMMA NextInv == ConfigInv /\ [Next]_vars => ConfigInv'
  <1> SUFFICES ASSUME ConfigInv, [Next]_vars PROVE ConfigInv'
    OBVIOUS
  <1>1. CASE UNCHANGED vars
    BY <1>1 DEF vars, tables, ConfigInv, TypeOK, AddressesUnique, CacheExplained,
                UnsavedCovered, Targets, Found
  <1>2. CASE Next
    BY <1>2, LoadInv, RequestHandles, RequestInv, NoteInv, RestartInv
       DEF Next, Requests
  <1> QED BY <1>1, <1>2

THEOREM Invariance == Spec => []ConfigInv
  BY InitInv, NextInv, PTL DEF Spec

\* The types, and no credentials in config.json.
THEOREM TypeCorrect == Spec => []TypeOK
  <1>1. ConfigInv => TypeOK
    BY DEF ConfigInv
  <1> QED BY <1>1, Invariance, PTL

\* The dictionary in use is what is stored, but for what could not be saved.
THEOREM CacheIsExplained == Spec => []CacheExplained
  <1>1. ConfigInv => CacheExplained
    BY DEF ConfigInv
  <1> QED BY <1>1, Invariance, PTL

-----------------------------------------------------------------------------
(* The action properties.                                                  *)

\* A saved device that a request does not name is written to its own row, as it
\* was.
LEMMA RowsLocal ==
  ASSUME ConfigInv, NEW cfg \in Config, Handles(cfg), cache # None,
         NEW i \in Names, rows'[i] # rows[i]
  PROVE  i \in asked'.names \cup unsaved
  <1> SUFFICES ASSUME i \notin asked'.names, i \notin unsaved PROVE FALSE
    OBVIOUS
  <1>1. /\ cache \in Config /\ Dictionary = cache /\ Tables
        /\ AddressesUnique /\ CacheExplained /\ UnsavedCovered
    BY DEF ConfigInv, TypeOK, Dictionary, Tables
  <1>2. OnlyNamesChanged(cfg, asked'.names)
    BY DEF Handles
  <1>3. cfg.devices \in SUBSET Device /\ cache.devices \in SUBSET Device
    BY <1>1 DEF Config
  <1>4. StoresRows(cfg.devices)
    BY DEF Handles, Save, Saved, NotSaved, Stores, tables
  <1>5. CASE i \notin IdsOf(cfg.devices) /\ rows'[i] = None
    <2>1. rows[i] # None
      BY <1>5
    <2>2. PICK d \in cache.devices : d.id = i
      BY <1>1, <2>1 DEF CacheExplained
    <2>3. d \in cfg.devices
      BY <1>1, <1>2, <2>2 DEF OnlyNamesChanged
    <2> QED BY <1>5, <2>2, <2>3 DEF IdsOf
  <1>6. CASE \E d \in cfg.devices : i \in Targets(d) /\ rows'[i] = Written(d, i)
    <2>1. PICK d \in cfg.devices : i \in Targets(d) /\ rows'[i] = Written(d, i)
      BY <1>6
    <2>2. d \in cache.devices
      BY <1>1, <1>2, <2>1 DEF OnlyNamesChanged
    <2>3. d.id \notin unsaved
      BY <1>1, <2>1, <2>2 DEF UnsavedCovered
    <2>4. d \in Device /\ d.id \in Names
      BY <1>3, <2>2 DEF Device
    <2>5. rows[d.id] # None
      BY <1>1, <2>2, <2>3, <2>4 DEF CacheExplained
    <2>6. d \in {[id |-> d.id, ip |-> rows[d.id].ip, val |-> rows[d.id].val,
                  secret |-> secrets[d.id], clear |-> FALSE]}
      BY <1>1, <2>2, <2>3, <2>4, <2>5 DEF CacheExplained
    <2>7. d.ip = rows[d.id].ip /\ d.val = rows[d.id].val
      BY <2>6
    <2>8. i = d.id
      BY <1>1, <2>1, <2>4, <2>5, <2>7, StoredIsFound
    <2>9. rows[i] \in Row
      BY <1>1, <2>5, <2>8 DEF Tables
    <2>10. Written(d, i) = [ip |-> rows[i].ip, val |-> rows[i].val]
      BY <2>5, <2>7, <2>8 DEF Written
    <2> QED BY <2>1, <2>9, <2>10 DEF Row
  <1> QED BY <1>1, <1>3, <1>4, <1>5, <1>6, RowsStored

\* A saved device keeps its credential if a request does not drop it.
LEMMA CredentialsLocal ==
  ASSUME ConfigInv, NEW cfg \in Config, Handles(cfg), cache # None,
         NEW i \in Names, rows[i] # None, secrets[i] # None, secrets'[i] = None
  PROVE  i \in asked'.drops \cup unsaved
  <1> SUFFICES ASSUME i \notin asked'.drops, i \notin unsaved PROVE FALSE
    OBVIOUS
  <1>1. /\ cache \in Config /\ Dictionary = cache /\ Tables /\ CacheExplained
    BY DEF ConfigInv, TypeOK, Dictionary, Tables
  <1>2. OnlyDropsLost(cfg, asked'.drops)
    BY DEF Handles
  <1>3. cfg.devices \in SUBSET Device
    BY DEF Config
  <1>4. StoresSecrets(cfg.devices)
    BY DEF Handles, Save, Saved, NotSaved, Stores, tables
  <1>5. {d \in cache.devices : d.id = i} =
          {[id |-> i, ip |-> rows[i].ip, val |-> rows[i].val,
            secret |-> secrets[i], clear |-> FALSE]}
    BY <1>1 DEF CacheExplained
  <1>6. CASE i \notin IdsOf(cfg.devices)
    <2>1. PICK d \in cache.devices : d.id = i
      BY <1>5
    <2> QED BY <1>1, <1>2, <1>6, <2>1 DEF OnlyDropsLost
  <1>7. CASE \E d \in cfg.devices :
               d.id = i /\ secrets'[i] = (IF d.clear THEN None ELSE d.secret)
                        /\ Gives(d)
    <2>1. PICK d \in cfg.devices :
            d.id = i /\ secrets'[i] = (IF d.clear THEN None ELSE d.secret)
                     /\ Gives(d)
      BY <1>7
    <2>2. d.clear
      BY <2>1 DEF Gives
    <2>3. d \in cache.devices
      BY <1>1, <1>2, <2>1, <2>2 DEF OnlyDropsLost
    <2>4. d.clear = FALSE
      BY <1>5, <2>1, <2>3
    <2> QED BY <2>2, <2>4
  <1> QED BY <1>1, <1>3, <1>4, <1>6, <1>7, SecretsStored

\* Besides requests only loading changes a row, from config.json, when there is
\* none.
LEMMA RowsLoaded ==
  ASSUME ConfigInv, Load, NEW i \in Names, rows'[i] # rows[i]
  PROVE  (\A j \in Names : rows[j] = None) /\ i \in IdsOf(file.devices)
  <1>1. (\A j \in Names : rows[j] = None) /\ Stores(file)
    BY DEF Load, tables
  <1>2. Tables /\ file.devices \in SUBSET Device /\ StoresRows(file.devices)
    BY <1>1 DEF ConfigInv, TypeOK, Tables, Config, Stores
  <1> QED BY <1>1, <1>2, RowsStored

LEMMA OtherSteps ==
  ASSUME [Next]_vars
  PROVE  Requests \/ Load \/ UNCHANGED <<rows, secrets>>
  BY DEF Next, Requests, SetNote, ClearNote, WriteNote, Restart, vars, tables

\* A request changes the rows of the devices that it names, and no other,
\* although it writes every device.
THEOREM RequestsAreLocal == Spec => RequestsStayLocal
  <1> DEFINE Local == \A i \in Names :
                        rows'[i] # rows[i] =>
                          \/ i \in asked'.names \cup unsaved
                          \/ asked'.blind
                          \/ (\A j \in Names : rows[j] = None) /\ i \in IdsOf(file.devices)
  <1>1. ConfigInv /\ [Next]_vars => Local
    <2> SUFFICES ASSUME ConfigInv, [Next]_vars, NEW i \in Names, rows'[i] # rows[i]
                 PROVE  \/ i \in asked'.names \cup unsaved
                        \/ asked'.blind
                        \/ /\ \A j \in Names : rows[j] = None
                           /\ i \in IdsOf(file.devices)
      OBVIOUS
    <2>1. CASE Load
      BY <2>1, RowsLoaded
    <2>2. CASE Requests
      <3>1. PICK cfg \in Config : Handles(cfg)
        BY <2>2, RequestHandles
      <3>2. CASE cache = None
        BY <3>1, <3>2 DEF Handles
      <3>3. CASE cache # None
        BY <3>1, <3>3, RowsLocal
      <3> QED BY <3>2, <3>3
    <2> QED BY <2>1, <2>2, OtherSteps
  <1>2. ConfigInv /\ [Next]_vars => [Local]_vars
    BY <1>1
  <1> QED BY <1>2, Invariance, PTL DEF Spec, RequestsStayLocal

\* The stored credential of a device stays until a request replaces or clears
\* it or removes the device.
THEOREM CredentialsAreKept == Spec => CredentialsKept
  <1> DEFINE Kept == \A i \in Names :
                       rows[i] # None /\ secrets[i] # None /\ secrets'[i] = None =>
                         \/ i \in asked'.drops \cup unsaved
                         \/ asked'.blind
  <1>1. ConfigInv /\ [Next]_vars => Kept
    <2> SUFFICES ASSUME ConfigInv, [Next]_vars, NEW i \in Names,
                        rows[i] # None, secrets[i] # None, secrets'[i] = None
                 PROVE  i \in asked'.drops \cup unsaved \/ asked'.blind
      OBVIOUS
    <2>1. CASE Load
      <3>1. rows[i] # None /\ secrets' # secrets
        OBVIOUS
      <3> QED BY <2>1, <3>1 DEF Load, tables
    <2>2. CASE Requests
      <3>1. PICK cfg \in Config : Handles(cfg)
        BY <2>2, RequestHandles
      <3>2. CASE cache = None
        BY <3>1, <3>2 DEF Handles
      <3>3. CASE cache # None
        BY <3>1, <3>3, CredentialsLocal
      <3> QED BY <3>2, <3>3
    <2> QED BY <2>1, <2>2, OtherSteps
  <1>2. ConfigInv /\ [Next]_vars => [Kept]_vars
    BY <1>1
  <1> QED BY <1>2, Invariance, PTL DEF Spec, CredentialsKept
=============================================================================
