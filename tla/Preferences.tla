----------------------------- MODULE Preferences -----------------------------
(***************************************************************************)
(* The settings of the dashboard (web/blueprints/config.py, config.py and    *)
(* config_repo.py).  A request changes the dictionary in use, in place, and   *)
(* saves it; the database has a row for some of its keys only, and the        *)
(* dictionary is read again from there.  While it cannot be read everyone    *)
(* gets the defaults, and a request changes and saves those.                 *)
(*                                                                         *)
(* One request is handled at a time.  Of the devices that the dictionary     *)
(* lists, only the places where there are any matter here.                   *)
(***************************************************************************)
EXTENDS Naturals

CONSTANTS Keys,      \* keys of the dictionary, and of the settings in it: refresh
                     \* interval, retention, map_positions, scanner_enabled, ...
          StoredKeys,  \* those that have a row, which save_full_config always writes
          Values, Default,
          Unloaded   \* no dictionary, no request, no value to expect

ASSUME PreferencesAssumption ==
  /\ StoredKeys \subseteq Keys /\ Default \in Values
  /\ Unloaded \notin Values \cup [Keys -> Values] \cup
                    [key : Keys, value : Values, blind : BOOLEAN]

VARIABLES stored,   \* table config_settings
          prefs,    \* the dictionary in use, or Unloaded
          exported, \* config.json
          devices,  \* which of "rows" and "file" list devices
          asking,   \* the request in progress, or Unloaded: a key, its value, and
                    \* whether it could not read the dictionary
          wanted    \* per key, the value that was saved last

prefsVars == <<stored, prefs, exported, devices, asking, wanted>>

Defaults == [k \in Keys |-> Default]

\* load_full_config
FromRows == [k \in Keys |-> IF k \in StoredKeys THEN stored[k] ELSE Default]

\* The application reads the dictionary when it is created.
PrefsInit ==
  /\ stored = [k \in StoredKeys |-> Default]
  /\ prefs = FromRows
  /\ exported = Defaults
  /\ devices = {"rows", "file"}
  /\ asking = Unloaded
  /\ wanted = Defaults

\* Rows without devices are replaced by config.json if that has some.
TakesFile == devices = {"file"}

\* What is read is kept for everyone; what cannot be read is not.  Taking
\* config.json over may fail before it is written or when it is read back.
ReadPrefs ==
  /\ prefs = Unloaded
  /\ \/ prefs' = FromRows /\ UNCHANGED <<stored, devices, wanted>>
     \/ /\ TakesFile
        /\ stored' = [k \in StoredKeys |-> exported[k]]
        /\ devices' = {"rows", "file"}
        /\ wanted' = [k \in Keys |-> IF k \in StoredKeys THEN Unloaded ELSE wanted[k]]
        /\ prefs' \in {FromRows, FromRows'}
  /\ UNCHANGED <<exported, asking>>

\* The request changes the dictionary that everyone uses, or, while there is
\* none that can be read, defaults of its own.
AskFor(k, v, blind) ==
  /\ asking = Unloaded
  /\ IF blind THEN prefs = Unloaded /\ UNCHANGED prefs
     ELSE prefs # Unloaded /\ prefs' = [prefs EXCEPT ![k] = v]
  /\ asking' = [key |-> k, value |-> v, blind |-> blind]
  /\ UNCHANGED <<stored, exported, devices, wanted>>

\* What the request in progress has in hand.
DictInHand ==
  IF asking.blind THEN [Defaults EXCEPT ![asking.key] = asking.value] ELSE prefs

\* What was asked for is in use although it was not saved.
UnsavedInUse == IF asking.blind THEN wanted ELSE [wanted EXCEPT ![asking.key] = Unloaded]

\* config_page checks what it has changed already; what is asked for is not
\* saved, but in use.
RefusePrefs ==
  /\ asking # Unloaded
  /\ asking' = Unloaded
  /\ wanted' = UnsavedInUse
  /\ UNCHANGED <<stored, prefs, exported, devices>>

\* Mutant: the rows are not written.
StoredAsBefore == stored

\* save_full_config: the whole dictionary, as far as it has rows.
StoredNow == [k \in StoredKeys |-> DictInHand[k]]

\* What is in hand is exported, with the devices that it lists.
Export(listed) ==
  /\ exported' = DictInHand
  /\ "file" \in devices' <=> listed

\* save_config, with devices or without; the export may fail without notice.
\* Defaults that are saved take the place of what was wanted of the other keys.
SavePrefs(listed) ==
  /\ asking # Unloaded
  /\ stored' = StoredNow
  /\ devices' \in SUBSET {"rows", "file"}
  /\ "rows" \in devices' <=> listed
  /\ \/ Export(listed)
     \/ UNCHANGED exported /\ ("file" \in devices' <=> "file" \in devices)
  /\ prefs' = Unloaded
  /\ wanted' = [k \in Keys |-> IF k = asking.key THEN asking.value
                              ELSE IF asking.blind THEN Unloaded ELSE wanted[k]]
  /\ asking' = Unloaded

\* The rows cannot be written.  With credentials nothing else is done,
\* otherwise the dictionary is exported and dropped.
SavePrefsFails(listed) ==
  /\ asking # Unloaded
  /\ \/ UNCHANGED <<prefs, exported, devices>> /\ wanted' = UnsavedInUse
     \/ /\ prefs' = Unloaded /\ wanted' = wanted
        /\ devices' \in SUBSET {"rows", "file"}
        /\ "rows" \in devices' <=> "rows" \in devices
        /\ \/ Export(listed)
           \/ UNCHANGED exported /\ ("file" \in devices' <=> "file" \in devices)
  /\ asking' = Unloaded
  /\ UNCHANGED stored

PrefsRestart ==
  /\ prefs' = Unloaded /\ asking' = Unloaded
  /\ UNCHANGED <<stored, exported, devices, wanted>>

PrefsNext ==
  \/ ReadPrefs
  \/ \E k \in Keys, v \in Values, blind \in BOOLEAN : AskFor(k, v, blind)
  \/ RefusePrefs
  \/ \E listed \in BOOLEAN : SavePrefs(listed) \/ SavePrefsFails(listed)
  \/ PrefsRestart

PrefsSpec == PrefsInit /\ [][PrefsNext]_prefsVars

-----------------------------------------------------------------------------
(* Properties.                                                             *)

InUseAsSaved(ks) ==
  asking = Unloaded /\ prefs # Unloaded =>
    \A k \in ks : wanted[k] # Unloaded => prefs[k] = wanted[k]

\* What was saved last is what is read and in use, for the keys that have a row,
\* whatever other requests save, fail to save or are refused, and after a
\* restart.  A request that is saved although the dictionary could not be read
\* leaves defaults in the other rows, and rows without devices give way to
\* config.json: then nothing is said of those keys until they are saved again.
SettingsKept == InUseAsSaved(StoredKeys)

\* "Coordinates are saved directly to config.json on the server" (README.md:81)
\* and so are the other keys, but config.json is not read again.
LayoutKept == InUseAsSaved(Keys \ StoredKeys)
=============================================================================
