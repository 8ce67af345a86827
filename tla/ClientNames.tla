----------------------------- MODULE ClientNames -----------------------------
(***************************************************************************)
(* The names of clients.  A name that a user gives is kept twice: in the     *)
(* configuration, whose dictionary the requests share and write as a whole,  *)
(* and in the row of the client, beside the name that was discovered for it. *)
(* The map shows the first, the list of clients the second.  The poller, the *)
(* map and reverse lookups write discovered names at any time, and requests  *)
(* overlap (web/blueprints/topology.py and clients.py, device_repo.py).       *)
(*                                                                         *)
(* Device types are left out, but not the entries that setting one makes.    *)
(***************************************************************************)
EXTENDS Naturals, FiniteSets

CONSTANTS Clients,
          Editors,     \* requests that may be in progress at a time
          UserNames,   \* names that users give
          FoundNames,  \* names that devices and DNS report, or vendors
          NoName,      \* ""
          Copies,      \* identities of dictionaries in memory
          Nothing      \* no entry, no row, no dictionary

\* A row of discovered_clients, and what a request in progress has in hand.
NameRow == [custom : UserNames \cup {NoName}, hostname : UserNames \cup FoundNames \cup {NoName}]

Edit == [copy : Copies, blind : BOOLEAN, alone : BOOLEAN,
         step : {"loaded", "naming", "deleting", "done"},
         mac : Clients \cup {Nothing}, name : UserNames \cup {NoName}]

ASSUME NamesAssumption ==
  /\ IsFiniteSet(Editors) /\ IsFiniteSet(Copies)
  /\ Cardinality(Copies) > Cardinality(Editors)
  /\ NoName \notin UserNames \cup FoundNames
  /\ Nothing \notin UserNames \cup FoundNames \cup {NoName} \cup Copies \cup NameRow \cup Edit

VARIABLES override,  \* table client_overrides: the name of an entry
          known,     \* table discovered_clients: custom_name and hostname
          inMemory,  \* per dictionary in memory, the names of its entries
          inUse,     \* the dictionary in _cached_config
          editor,    \* the requests in progress
          given      \* names given on the map that nothing has disturbed

nameVars == <<override, known, inMemory, inUse, editor, given>>

NamesInit ==
  /\ override = [m \in Clients |-> Nothing]
  /\ known = [m \in Clients |-> Nothing]
  /\ inMemory = [d \in Copies |-> [m \in Clients |-> Nothing]]
  /\ inUse = Nothing
  /\ editor = [e \in Editors |-> Nothing]
  /\ given = [m \in Clients |-> Nothing]

-----------------------------------------------------------------------------
(* What is shown.                                                          *)

\* load_full_config: an override, or else the name in the row.
Loaded ==
  [m \in Clients |->
     IF override[m] # Nothing THEN override[m]
     ELSE IF known[m] # Nothing /\ known[m].custom # NoName THEN known[m].custom
     ELSE Nothing]

Dictionary == IF inUse = Nothing THEN Loaded ELSE inMemory[inUse]

Nickname(m) == IF Dictionary[m] = Nothing THEN NoName ELSE Dictionary[m]

FirstName(x, y) == IF x # NoName THEN x ELSE y

\* The name on the map, without what it discovers anew, and in the list.
OnMap(m)  == FirstName(Nickname(m), IF known[m] = Nothing THEN NoName ELSE known[m].hostname)
OnList(m) == FirstName(known[m].custom, known[m].hostname)

-----------------------------------------------------------------------------
(* Requests.  Every one loads the configuration, changes an entry and saves  *)
(* all of them; then it changes the row.                                    *)

InFlight == {e \in Editors : editor[e] # Nothing}

Used == {inUse} \cup {editor[e].copy : e \in InFlight}

Blank == [m \in Clients |-> Nothing]

\* Dictionaries that nobody refers to any more are gone.
Sweep(dicts) == inMemory' = [d \in Copies |-> IF d \in Used' THEN dicts[d] ELSE Blank]

\* load_config: the dictionary in use, which other requests may have as well;
\* an empty one if the database cannot be read.
Load(e) ==
  /\ editor[e] = Nothing
  /\ \E d \in Copies, blind \in BOOLEAN :
       /\ d = inUse \/ (d \notin Used /\ (inUse = Nothing))
       /\ blind => inUse = Nothing
       /\ inUse' = IF blind THEN Nothing ELSE d
       /\ editor' = [k \in Editors |->
            IF k = e THEN [copy |-> d, blind |-> blind, alone |-> InFlight = {},
                           step |-> "loaded", mac |-> Nothing, name |-> NoName]
            ELSE IF k \in InFlight THEN [editor[k] EXCEPT !.alone = FALSE]
            ELSE Nothing]
       /\ Sweep([inMemory EXCEPT ![d] = IF blind THEN Blank ELSE Dictionary])
  /\ UNCHANGED <<override, known, given>>

\* save_full_config adds and changes entries, and never removes one.  After a
\* failure the dictionary stays in use if there are credentials in it.
Saves(dict) ==
  /\ override' = [m \in Clients |-> IF dict[m] = Nothing THEN override[m] ELSE dict[m]]
  /\ inUse' = Nothing

NameNotSaved == inUse' \in {inUse, Nothing} /\ UNCHANGED override

\* The entry of m becomes x; then the row has its turn.
Change(e, m, x, step, name) ==
  LET dict == [inMemory[editor[e].copy] EXCEPT ![m] = x]
      next == [editor[e] EXCEPT !.mac = m, !.name = name]
  IN  /\ \/ Saves(dict) /\ editor' = [editor EXCEPT ![e] = [next EXCEPT !.step = step]]
         \/ NameNotSaved /\ editor' = [editor EXCEPT ![e] = [next EXCEPT !.step = step,
                                                                      !.alone = FALSE]]
      /\ Sweep([inMemory EXCEPT ![editor[e].copy] = dict])
      /\ UNCHANGED known

Loads(e) == editor[e] # Nothing /\ editor[e].step = "loaded"
Entry(e, m) == inMemory[editor[e].copy][m]

\* update_host names the entry and then the row.
Rename(e, m, name) ==
  /\ Loads(e)
  /\ Change(e, m, name, "naming", name)
  /\ given' = [given EXCEPT ![m] = Nothing]

\* import_csv names entries and leaves the rows alone.
Import(e, m, name) ==
  /\ Loads(e)
  /\ Change(e, m, name, "done", name)
  /\ given' = [given EXCEPT ![m] = Nothing]

\* api_scanner_update_host and api_scanner_delete_host do so with the entry of
\* a client that has one; deleting it leaves its rows where they are.
NameHost(e, m, name) == Loads(e) /\ Entry(e, m) # Nothing /\ Import(e, m, name)

DropHost(e, m) ==
  /\ Loads(e) /\ Entry(e, m) # Nothing
  /\ Change(e, m, Nothing, "done", NoName)
  /\ given' = [given EXCEPT ![m] = Nothing]

\* update_type and update_passthrough make an entry if there is none.
Retype(e, m) ==
  /\ Loads(e)
  /\ Change(e, m, IF Entry(e, m) = Nothing THEN NoName ELSE Entry(e, m), "done", NoName)
  /\ given' = IF editor[e].blind THEN [given EXCEPT ![m] = Nothing] ELSE given

\* delete: the entry goes from the dictionary, which is saved if it had one.
Forget(e, m) ==
  /\ Loads(e)
  /\ IF Entry(e, m) # Nothing THEN Change(e, m, Nothing, "deleting", NoName)
     ELSE /\ editor' = [editor EXCEPT ![e].step = "deleting", ![e].mac = m]
          /\ UNCHANGED <<override, known, inMemory, inUse>>
  /\ given' = [given EXCEPT ![m] = Nothing]

\* A request about something else writes all entries, too.
SaveOther(e) ==
  /\ Loads(e)
  /\ Saves(inMemory[editor[e].copy]) \/ NameNotSaved
  /\ editor' = [editor EXCEPT ![e].step = "done"]
  /\ Sweep(inMemory)
  /\ UNCHANGED <<known, given>>

\* The row is named or deleted; a failure is logged.
EndRequest(e) ==
  LET q == editor[e] IN
  /\ q # Nothing
  /\ \/ q.step = "naming" /\ known[q.mac] # Nothing
        /\ known' = [known EXCEPT ![q.mac] = [custom |-> q.name, hostname |-> q.name]]
        /\ given' = IF q.alone /\ q.name # NoName THEN [given EXCEPT ![q.mac] = q.name]
                    ELSE given
     \/ q.step = "deleting" /\ known' = [known EXCEPT ![q.mac] = Nothing] /\ UNCHANGED given
     \/ UNCHANGED <<known, given>>
  /\ editor' = [editor EXCEPT ![e] = Nothing]
  /\ UNCHANGED <<override, inUse>>
  /\ Sweep(inMemory)

\* edit_client_meta, in the list of clients, writes the row only.
EditRow(m, name) ==
  /\ known[m] # Nothing
  /\ known' = [known EXCEPT ![m] = [custom |-> name, hostname |-> name]]
  /\ given' = [given EXCEPT ![m] = Nothing]
  /\ UNCHANGED <<override, inMemory, inUse, editor>>

-----------------------------------------------------------------------------
(* Discovery.                                                              *)

\* Mutant: the name is taken for one that the user gave.
UpsertedAsCustom(m, name) ==
  IF known[m] = Nothing \/ name = NoName THEN [custom |-> NoName, hostname |-> name]
  ELSE [custom |-> name, hostname |-> name]

\* upsert_discovered_clients_batch: a name, if there is one, is taken.
Upserted(m, name) ==
  IF known[m] = Nothing THEN [custom |-> NoName, hostname |-> name]
  ELSE IF name = NoName THEN known[m] ELSE [known[m] EXCEPT !.hostname = name]

\* The pipeline of the poller saw the client, with or without a name.
PollerSees(m, name) ==
  /\ known' = [known EXCEPT ![m] = Upserted(m, name)]
  /\ UNCHANGED <<override, inMemory, inUse, editor, given>>

\* The map writes the name it shows: the nickname, or what it discovered, or
\* what the row has, or the vendor.
DrawNames(m, found) ==
  /\ known' = [known EXCEPT ![m] = Upserted(m, FirstName(Nickname(m), found))]
  /\ UNCHANGED <<override, inMemory, inUse, editor, given>>

\* A reverse lookup ends (module HostDiscovery).
NameFound(m, name) ==
  /\ known[m] # Nothing
  /\ known' = [known EXCEPT ![m].hostname = name]
  /\ UNCHANGED <<override, inMemory, inUse, editor, given>>

NamesRestart ==
  /\ inUse' = Nothing
  /\ editor' = [e \in Editors |-> Nothing]
  /\ inMemory' = [d \in Copies |-> Blank]
  /\ UNCHANGED <<override, known, given>>

NamesNext ==
  \/ \E e \in Editors :
       \/ Load(e) \/ SaveOther(e) \/ EndRequest(e)
       \/ \E m \in Clients :
            \/ \E name \in UserNames \cup {NoName} :
                 Rename(e, m, name) \/ Import(e, m, name) \/ NameHost(e, m, name)
            \/ Retype(e, m) \/ Forget(e, m) \/ DropHost(e, m)
  \/ \E m \in Clients :
       \/ \E name \in UserNames \cup {NoName} : EditRow(m, name)
       \/ \E name \in FoundNames \cup {NoName} : PollerSees(m, name) \/ DrawNames(m, name)
       \/ \E name \in FoundNames : NameFound(m, name)
  \/ NamesRestart

NamesSpec == NamesInit /\ [][NamesNext]_nameVars

-----------------------------------------------------------------------------
(* Properties.                                                             *)

\* A name that was given on the map, by a request that no other one overlapped
\* and whose writes succeeded, is shown on the map and in the list until a user
\* changes it in either place: whatever devices, the map and lookups report,
\* and whichever dictionary the requests about other clients write back.
GivenNamesShown ==
  \A m \in Clients : given[m] # Nothing => OnMap(m) = given[m] /\ OnList(m) = given[m]
=============================================================================
