---------------------------- MODULE RequestProofs ----------------------------
(***************************************************************************)
(* The parts that requests work on, each on its own: settings and scanner    *)
(* (modules Preferences and Scanner), backups (Backups), sessions (Sessions), *)
(* the lookups of names (HostDiscovery) and the names of clients             *)
(* (ClientNames), for any values of the constants.                          *)
(***************************************************************************)
EXTENDS Sessions, Scanner, Backups, HostDiscovery, ClientNames,
        FiniteSetTheorems, SequenceTheorems, TLAPS

-----------------------------------------------------------------------------
(* Settings.                                                               *)

Asked == [key : Keys, value : Values, blind : BOOLEAN]

PrefsTypeOK ==
  /\ stored \in [StoredKeys -> Values]
  /\ prefs \in {Unloaded} \cup [Keys -> Values]
  /\ exported \in [Keys -> Values]
  /\ asking \in {Unloaded} \cup Asked
  /\ wanted \in [Keys -> {Unloaded} \cup Values]

\* A request in progress that could read the dictionary has put its value into it.
AskedIsInUse ==
  asking # Unloaded /\ ~asking.blind =>
    prefs # Unloaded /\ prefs[asking.key] = asking.value

\* What was saved last has its row, and is in use but for what a request in
\* progress has put in its place.
InUseOrAsked(k) ==
  \/ prefs = Unloaded \/ prefs[k] = wanted[k]
  \/ asking # Unloaded /\ ~asking.blind /\ asking.key = k

SavedHasRow ==
  \A k \in StoredKeys : wanted[k] # Unloaded => stored[k] = wanted[k] /\ InUseOrAsked(k)

PrefsInv == PrefsTypeOK /\ AskedIsInUse /\ SavedHasRow

LEMMA PrefsInitInv == PrefsInit => PrefsInv
  BY PreferencesAssumption
     DEF PrefsInit, PrefsInv, PrefsTypeOK, AskedIsInUse, SavedHasRow, InUseOrAsked, FromRows,
         Defaults

\* The dictionary that is read holds what the rows hold.
LEMMA FromRowsType ==
  ASSUME PrefsTypeOK
  PROVE  /\ FromRows \in [Keys -> Values] /\ FromRows # Unloaded
         /\ \A k \in StoredKeys : FromRows[k] = stored[k]
  BY PreferencesAssumption DEF PrefsTypeOK, FromRows

LEMMA ReadInv ==
  ASSUME PrefsInv, ReadPrefs
  PROVE  PrefsInv'
  <1>1. /\ prefs = Unloaded /\ asking' = asking /\ exported' = exported
        /\ asking # Unloaded => asking.blind
    BY DEF ReadPrefs, PrefsInv, AskedIsInUse
  <1>2. CASE prefs' = FromRows /\ UNCHANGED <<stored, devices, wanted>>
    BY <1>1, <1>2, FromRowsType, PreferencesAssumption
       DEF PrefsInv, PrefsTypeOK, AskedIsInUse, SavedHasRow, InUseOrAsked
  <1>3. CASE /\ stored' = [k \in StoredKeys |-> exported[k]]
             /\ wanted' = [k \in Keys |-> IF k \in StoredKeys THEN Unloaded ELSE wanted[k]]
             /\ prefs' \in {FromRows, FromRows'}
    <2>1. stored' \in [StoredKeys -> Values] /\ wanted' \in [Keys -> {Unloaded} \cup Values]
      BY <1>3, PreferencesAssumption DEF PrefsInv, PrefsTypeOK
    <2>2. FromRows \in [Keys -> Values] /\ FromRows' \in [Keys -> Values]
      BY <2>1, FromRowsType, PreferencesAssumption DEF PrefsInv, FromRows
    <2>3. PrefsTypeOK'
      BY <1>1, <1>3, <2>1, <2>2 DEF PrefsInv, PrefsTypeOK
    <2>4. SavedHasRow'
      BY <1>3, PreferencesAssumption DEF SavedHasRow
    <2> QED BY <1>1, <2>3, <2>4 DEF PrefsInv, AskedIsInUse
  <1> QED BY <1>2, <1>3 DEF ReadPrefs

LEMMA AskInv ==
  ASSUME PrefsInv, NEW k \in Keys, NEW v \in Values, NEW blind \in BOOLEAN,
         AskFor(k, v, blind)
  PROVE  PrefsInv'
  <1>1. /\ asking = Unloaded /\ asking' \in Asked /\ asking' # Unloaded
        /\ asking'.key = k /\ asking'.value = v /\ asking'.blind = blind
        /\ UNCHANGED <<stored, exported, wanted>>
    BY PreferencesAssumption DEF AskFor, Asked
  <1>2. CASE blind
    <2>1. prefs' = prefs
      BY <1>2 DEF AskFor
    <2> QED BY <1>1, <1>2, <2>1
            DEF PrefsInv, PrefsTypeOK, AskedIsInUse, SavedHasRow, InUseOrAsked
  <1>3. CASE ~blind
    <2>1. prefs \in [Keys -> Values] /\ prefs' = [prefs EXCEPT ![k] = v]
      BY <1>3 DEF AskFor, PrefsInv, PrefsTypeOK
    <2>2. prefs' \in [Keys -> Values] /\ prefs' # Unloaded /\ prefs'[k] = v
      BY <2>1, PreferencesAssumption
    <2>3. SavedHasRow'
      <3>1. ASSUME NEW q \in StoredKeys, wanted[q] # Unloaded, q # k
            PROVE  prefs'[q] = wanted[q]
        BY <1>1, <2>1, <3>1, PreferencesAssumption DEF PrefsInv, SavedHasRow, InUseOrAsked
      <3> QED BY <1>1, <1>3, <3>1 DEF PrefsInv, SavedHasRow, InUseOrAsked
    <2> QED BY <1>1, <2>2, <2>3 DEF PrefsInv, PrefsTypeOK, AskedIsInUse
  <1> QED BY <1>2, <1>3

\* What a request has in hand is a dictionary: that of everyone with the value
\* asked for, or defaults with it.
LEMMA DictType ==
  ASSUME PrefsInv, asking # Unloaded
  PROVE  /\ DictInHand \in [Keys -> Values] /\ DictInHand[asking.key] = asking.value
         /\ asking \in Asked
         /\ ~asking.blind => DictInHand = prefs
  <1>1. asking \in Asked
    BY DEF PrefsInv, PrefsTypeOK
  <1>2. asking.key \in Keys /\ asking.value \in Values /\ asking.blind \in BOOLEAN
    BY <1>1 DEF Asked
  <1>3. CASE asking.blind
    BY <1>1, <1>2, <1>3, PreferencesAssumption DEF DictInHand, Defaults
  <1>4. CASE ~asking.blind
    BY <1>1, <1>2, <1>4 DEF DictInHand, PrefsInv, PrefsTypeOK, AskedIsInUse
  <1> QED BY <1>3, <1>4

LEMMA ExportType ==
  ASSUME PrefsInv, asking # Unloaded,
         (\E listed : Export(listed)) \/ UNCHANGED exported
  PROVE  exported' \in [Keys -> Values]
  BY DictType DEF Export, PrefsInv, PrefsTypeOK

LEMMA SaveInv ==
  ASSUME PrefsInv, NEW listed, SavePrefs(listed)
  PROVE  PrefsInv'
  <1>1. /\ asking # Unloaded /\ asking' = Unloaded /\ prefs' = Unloaded
        /\ stored' = [k \in StoredKeys |-> DictInHand[k]]
        /\ wanted' = [k \in Keys |-> IF k = asking.key THEN asking.value
                                    ELSE IF asking.blind THEN Unloaded ELSE wanted[k]]
    BY DEF SavePrefs, StoredNow
  <1>2. /\ DictInHand \in [Keys -> Values] /\ DictInHand[asking.key] = asking.value
        /\ asking.key \in Keys /\ asking.value \in Values
        /\ ~asking.blind => DictInHand = prefs /\ prefs # Unloaded
    BY <1>1, DictType DEF Asked, PrefsInv, AskedIsInUse
  <1>3. exported' \in [Keys -> Values]
    BY <1>1, ExportType DEF SavePrefs
  <1>4. PrefsTypeOK'
    <2>1. stored' \in [StoredKeys -> Values]
      BY <1>1, <1>2, PreferencesAssumption
    <2>2. wanted' \in [Keys -> {Unloaded} \cup Values]
      BY <1>1, <1>2 DEF PrefsInv, PrefsTypeOK
    <2> QED BY <1>1, <1>3, <2>1, <2>2 DEF PrefsTypeOK
  <1>5. ASSUME NEW k \in StoredKeys, wanted'[k] # Unloaded
        PROVE  stored'[k] = wanted'[k]
    <2>1. k \in Keys /\ stored'[k] = DictInHand[k]
      BY <1>1, PreferencesAssumption
    <2>2. CASE k = asking.key
      BY <1>1, <1>2, <2>1, <2>2
    <2>3. CASE k # asking.key
      <3>1. ~asking.blind /\ wanted'[k] = wanted[k]
        BY <1>1, <1>5, <2>1, <2>3
      <3>2. InUseOrAsked(k)
        BY <1>5, <3>1 DEF PrefsInv, SavedHasRow
      <3> QED BY <1>2, <2>1, <2>3, <3>1, <3>2 DEF InUseOrAsked
    <2> QED BY <2>2, <2>3
  <1> QED BY <1>1, <1>4, <1>5 DEF PrefsInv, AskedIsInUse, SavedHasRow, InUseOrAsked

\* A request that ends without a row being written leaves its value in use and
\* nothing to expect of it, or the dictionary is dropped.
LEMMA EndAskInv ==
  ASSUME PrefsInv, asking' = Unloaded, UNCHANGED stored, exported' \in [Keys -> Values],
         \/ asking # Unloaded /\ wanted' = UnsavedInUse /\ UNCHANGED prefs
         \/ prefs' = Unloaded /\ UNCHANGED wanted
  PROVE  PrefsInv'
  <1>1. CASE prefs' = Unloaded /\ UNCHANGED wanted
    BY <1>1 DEF PrefsInv, PrefsTypeOK, AskedIsInUse, SavedHasRow, InUseOrAsked
  <1>2. CASE asking # Unloaded /\ wanted' = UnsavedInUse /\ UNCHANGED prefs
    <2>1. wanted' = IF asking.blind THEN wanted ELSE [wanted EXCEPT ![asking.key] = Unloaded]
      BY <1>2 DEF UnsavedInUse
    <2>2. wanted' \in [Keys -> {Unloaded} \cup Values]
      BY <2>1 DEF PrefsInv, PrefsTypeOK
    <2>3. ASSUME NEW k \in StoredKeys, wanted'[k] # Unloaded
          PROVE  wanted'[k] = wanted[k] /\ (asking.blind \/ asking.key # k)
      BY <2>1, <2>3, PreferencesAssumption DEF PrefsInv, PrefsTypeOK
    <2>4. SavedHasRow'
      BY <1>2, <2>3 DEF PrefsInv, SavedHasRow, InUseOrAsked
    <2> QED BY <1>2, <2>2, <2>4 DEF PrefsInv, PrefsTypeOK, AskedIsInUse
  <1> QED BY <1>1, <1>2

LEMMA PrefsNextInv ==
  ASSUME PrefsInv, PrefsNext
  PROVE  PrefsInv'
  <1>1. CASE ReadPrefs
    BY <1>1, ReadInv
  <1>2. CASE \E k \in Keys, v \in Values, blind \in BOOLEAN : AskFor(k, v, blind)
    BY <1>2, AskInv
  <1>3. CASE RefusePrefs
    BY <1>3, EndAskInv DEF RefusePrefs, PrefsInv, PrefsTypeOK
  <1>4. ASSUME NEW listed \in BOOLEAN, SavePrefs(listed) PROVE PrefsInv'
    BY <1>4, SaveInv
  <1>5. ASSUME NEW listed \in BOOLEAN, SavePrefsFails(listed) PROVE PrefsInv'
    <2>1. exported' \in [Keys -> Values]
      BY <1>5, ExportType DEF SavePrefsFails
    <2> QED BY <1>5, <2>1, EndAskInv DEF SavePrefsFails
  <1>6. CASE PrefsRestart
    BY <1>6, EndAskInv DEF PrefsRestart, PrefsInv, PrefsTypeOK
  <1> QED BY <1>1, <1>2, <1>3, <1>4, <1>5, <1>6 DEF PrefsNext

LEMMA PrefsStutter ==
  ASSUME PrefsInv, UNCHANGED prefsVars
  PROVE  PrefsInv'
  BY DEF PrefsInv, PrefsTypeOK, AskedIsInUse, SavedHasRow, InUseOrAsked, prefsVars

-----------------------------------------------------------------------------
(* The scanner.                                                            *)

Host == [online : BOOLEAN, first : Nat]

ScannerTypeOK ==
  /\ hosts \in [Subnet -> {NoHost} \cup Host]
  /\ comings \in [Subnet -> Seq(BOOLEAN)]
  /\ scans \in Nat
  /\ scan \in [step : {"waiting", "asking", "loading", "updating", "dead"},
               seen : SUBSET Subnet, blind : BOOLEAN,
               rows : {<<>>} \cup [Subnet -> {NoHost} \cup Host]]

\* What a scan has loaded is what is in the table, for no one else writes it,
\* unless it could not be read.
LoadedAgrees ==
  scan.step = "updating" =>
    scan.rows = IF scan.blind THEN [ip \in Subnet |-> NoHost] ELSE hosts

ScannerInv == ScannerTypeOK /\ LoadedAgrees /\ HistoryAgrees

LEMMA LastAppended ==
  ASSUME NEW S, NEW s \in Seq(S), NEW x \in S
  PROVE  Append(s, x) # <<>> /\ Last(Append(s, x)) = x /\ Len(Append(s, x)) > Len(s)
  BY DEF Last

LEMMA ScannerInitInv == ScannerInit => ScannerInv
  BY DEF ScannerInit, ScannerInv, ScannerTypeOK, LoadedAgrees, HistoryAgrees, Waiting

LEMMA BeginInv ==
  ASSUME ScannerInv, BeginScan
  PROVE  ScannerInv'
  BY DEF ScannerInv, ScannerTypeOK, LoadedAgrees, HistoryAgrees, BeginScan

\* Steps that read or give up leave table and history alone.
LEMMA AskingInv ==
  ASSUME ScannerInv,
         \/ \E seen \in SUBSET Subnet : HostsAnswer(seen)
         \/ \E blind \in BOOLEAN : LoadHosts(blind)
         \/ NoAnswer \/ ScannerDies
  PROVE  ScannerInv'
  <1>1. ASSUME NEW seen \in SUBSET Subnet, HostsAnswer(seen)
        PROVE  ScannerInv'
    BY <1>1 DEF ScannerInv, ScannerTypeOK, LoadedAgrees, HistoryAgrees, HostsAnswer
  <1>2. ASSUME NEW blind \in BOOLEAN, LoadHosts(blind)
        PROVE  ScannerInv'
    BY <1>2 DEF ScannerInv, ScannerTypeOK, LoadedAgrees, HistoryAgrees, LoadHosts
  <1>3. CASE NoAnswer
    BY <1>3 DEF ScannerInv, ScannerTypeOK, LoadedAgrees, HistoryAgrees, NoAnswer, Waiting
  <1>4. CASE ScannerDies
    BY <1>4 DEF ScannerInv, ScannerTypeOK, LoadedAgrees, HistoryAgrees, ScannerDies, Waiting
  <1> QED BY <1>1, <1>2, <1>3, <1>4

\* What an update makes of one address.
LEMMA OneHostUpdated ==
  ASSUME ScannerInv, UpdateHosts, NEW ip \in Subnet
  PROVE  /\ hosts'[ip] \in {NoHost} \cup Host /\ comings'[ip] \in Seq(BOOLEAN)
         /\ comings'[ip] # <<>> =>
              hosts'[ip] # NoHost /\ Last(comings'[ip]) = hosts'[ip].online
         /\ ~scan.blind =>
              /\ hosts[ip] # NoHost => hosts'[ip].first = hosts[ip].first
              /\ comings[ip] # <<>> /\ Len(comings'[ip]) > Len(comings[ip])
                   => Last(comings'[ip]) # Last(comings[ip])
  <1> DEFINE seen == ip \in scan.seen
             old  == scan.rows[ip]
             was  == hosts[ip]
  <1>1. /\ was \in {NoHost} \cup Host /\ comings[ip] \in Seq(BOOLEAN) /\ scans \in Nat
        /\ comings[ip] # <<>> => was # NoHost /\ Last(comings[ip]) = was.online
        /\ old = IF scan.blind THEN NoHost ELSE was
    BY DEF ScannerInv, ScannerTypeOK, LoadedAgrees, HistoryAgrees, UpdateHosts
  <1>2. /\ hosts'[ip] = IF seen
                        THEN [online |-> TRUE, first |-> IF Known(ip) THEN old.first ELSE scans]
                        ELSE IF Known(ip) THEN [old EXCEPT !.online = FALSE] ELSE was
        /\ ip \notin CameOrWent => comings'[ip] = comings[ip]
    BY DEF UpdateHosts
  <1>3. ip \in CameOrWent => comings'[ip] = Append(comings[ip], seen)
    BY DEF UpdateHosts
  <1>4. ip \in CameOrWent <=> IF seen THEN ~Known(ip) \/ ~old.online ELSE Known(ip) /\ old.online
    BY DEF CameOrWent
  <1>5. \A h \in Host : h # NoHost /\ h.online \in BOOLEAN /\ h.first \in Nat
                        /\ [h EXCEPT !.online = FALSE] \in Host
                        /\ [h EXCEPT !.online = FALSE].online = FALSE
                        /\ [h EXCEPT !.online = FALSE].first = h.first
    BY ScannerAssumption DEF Host
  <1>6. \A n \in Nat, b \in BOOLEAN : /\ [online |-> b, first |-> n] \in Host
                                      /\ [online |-> b, first |-> n].online = b
                                      /\ [online |-> b, first |-> n].first = n
    BY DEF Host
  <1>7. \A b \in BOOLEAN : /\ Append(comings[ip], b) \in Seq(BOOLEAN)
                           /\ Append(comings[ip], b) # <<>>
                           /\ Last(Append(comings[ip], b)) = b
    BY <1>1, LastAppended
  <1>8. ~(Len(comings[ip]) > Len(comings[ip]))
    BY <1>1
  <1>9. CASE Known(ip)
    <2>1. ~scan.blind /\ old = was /\ was \in Host /\ was # NoHost
      BY <1>1, <1>9 DEF Known
    <2>2. was.online \in BOOLEAN /\ was.first \in Nat
      BY <1>5, <2>1
    <2>3. /\ hosts'[ip] \in Host /\ hosts'[ip] # NoHost
          /\ hosts'[ip].online = seen /\ hosts'[ip].first = was.first
      <3>1. CASE seen
        <4>1. hosts'[ip] = [online |-> TRUE, first |-> was.first]
          BY <1>2, <1>9, <2>1, <3>1
        <4>2. /\ hosts'[ip] \in Host
              /\ hosts'[ip].online = TRUE /\ hosts'[ip].first = was.first
          BY <1>6, <2>2, <4>1
        <4>3. hosts'[ip] # NoHost
          BY <1>5, <4>2
        <4>4. seen = TRUE
          BY <3>1
        <4> QED BY <4>2, <4>3, <4>4
      <3>2. CASE ~seen
        <4>1. hosts'[ip] = [was EXCEPT !.online = FALSE]
          BY <1>2, <1>9, <2>1, <3>2
        <4>2. /\ hosts'[ip] \in Host
              /\ hosts'[ip].online = FALSE /\ hosts'[ip].first = was.first
          BY <1>5, <2>1, <4>1
        <4>3. hosts'[ip] # NoHost
          BY <1>5, <4>2
        <4>4. seen = FALSE
          BY <3>2
        <4> QED BY <4>2, <4>3, <4>4
      <3> QED BY <3>1, <3>2
    <2>4. CASE was.online = seen
      <3>1. comings'[ip] = comings[ip]
        BY <1>2, <1>4, <1>9, <2>1, <2>4
      <3>2. comings'[ip] # <<>> => Last(comings'[ip]) = hosts'[ip].online
        BY <1>1, <2>3, <2>4, <3>1
      <3> QED BY <1>1, <1>8, <2>3, <3>1, <3>2
    <2>5. CASE was.online # seen
      <3>1. comings'[ip] = Append(comings[ip], seen)
        <4>1. ip \in CameOrWent
          BY <1>4, <1>9, <2>1, <2>2, <2>5
        <4> QED BY <1>3, <4>1
      <3>2. /\ comings'[ip] \in Seq(BOOLEAN)
            /\ Last(comings'[ip]) = seen
        <4>1. seen \in BOOLEAN
          OBVIOUS
        <4> QED BY <1>7, <3>1, <4>1
      <3>3. comings[ip] # <<>> => Last(comings'[ip]) # Last(comings[ip])
        BY <1>1, <2>5, <3>2
      <3> QED BY <2>3, <3>2, <3>3
    <2> QED BY <2>4, <2>5
  <1>10. CASE ~Known(ip) /\ seen
    <2>1. /\ hosts'[ip] \in Host /\ hosts'[ip] # NoHost
          /\ hosts'[ip].online = TRUE
      <3>1. hosts'[ip] = [online |-> TRUE, first |-> scans]
        BY <1>2, <1>10
      <3>2. hosts'[ip] \in Host /\ hosts'[ip].online = TRUE
        BY <1>1, <1>6, <3>1
      <3> QED BY <1>5, <3>2
    <2>2. comings'[ip] = Append(comings[ip], TRUE)
      <3>1. ip \in CameOrWent /\ seen = TRUE
        BY <1>4, <1>10
      <3> QED BY <1>3, <3>1
    <2>3. /\ comings'[ip] \in Seq(BOOLEAN)
          /\ Last(comings'[ip]) = TRUE
      BY <1>7, <2>2
    <2>4. ~scan.blind => was = NoHost /\ comings[ip] = <<>>
      BY <1>1, <1>10 DEF Known
    <2> QED BY <2>1, <2>3, <2>4
  <1>11. CASE ~Known(ip) /\ ~seen
    <2>1. hosts'[ip] = was /\ comings'[ip] = comings[ip]
      BY <1>2, <1>4, <1>11
    <2> QED BY <1>1, <1>8, <2>1
  <1> QED BY <1>9, <1>10, <1>11

LEMMA UpdateInv ==
  ASSUME ScannerInv, UpdateHosts
  PROVE  ScannerInv'
  <1>1. hosts' \in [Subnet -> {NoHost} \cup Host] /\ comings' \in [Subnet -> Seq(BOOLEAN)]
    BY OneHostUpdated DEF UpdateHosts
  <1>2. ScannerTypeOK' /\ LoadedAgrees'
    BY <1>1 DEF ScannerInv, ScannerTypeOK, LoadedAgrees, UpdateHosts, Waiting
  <1>3. HistoryAgrees'
    BY OneHostUpdated DEF HistoryAgrees
  <1> QED BY <1>2, <1>3 DEF ScannerInv

LEMMA EraseInv ==
  ASSUME ScannerInv, NEW ips, EraseHistory(ips)
  PROVE  ScannerInv'
  <1>1. /\ comings' = [ip \in Subnet |-> IF ip \in ips THEN <<>> ELSE comings[ip]]
        /\ UNCHANGED <<hosts, scan, scans>>
    BY DEF EraseHistory, scannerVars
  <1>2. comings' \in [Subnet -> Seq(BOOLEAN)]
    <2>1. <<>> \in Seq(BOOLEAN)
      OBVIOUS
    <2> QED BY <1>1, <2>1 DEF ScannerInv, ScannerTypeOK
  <1> QED BY <1>1, <1>2 DEF ScannerInv, ScannerTypeOK, LoadedAgrees, HistoryAgrees

LEMMA ScannerNextInv ==
  ASSUME PrefsInv, ScannerInv, [ScannerNext]_<<scannerVars, prefsVars>>
  PROVE  PrefsInv' /\ ScannerInv'
  <1>1. CASE BeginScan
    BY <1>1, BeginInv, PrefsStutter DEF BeginScan
  <1>2. CASE \/ \E seen \in SUBSET Subnet : HostsAnswer(seen)
             \/ \E blind \in BOOLEAN : LoadHosts(blind)
             \/ NoAnswer \/ ScannerDies
    <2>1. UNCHANGED prefsVars
      BY <1>2 DEF HostsAnswer, LoadHosts, NoAnswer, ScannerDies
    <2> QED BY <1>2, <2>1, AskingInv, PrefsStutter
  <1>3. CASE UpdateHosts
    BY <1>3, UpdateInv, PrefsStutter DEF UpdateHosts
  <1>4. CASE EraseHistory(Subnet) \/ \E ip \in Subnet : EraseHistory({ip})
    BY <1>4, EraseInv, PrefsStutter DEF EraseHistory
  <1>5. CASE PrefsNext /\ UNCHANGED scannerVars
    BY <1>5, PrefsNextInv
       DEF ScannerInv, ScannerTypeOK, LoadedAgrees, HistoryAgrees, scannerVars
  <1>6. CASE PrefsRestart /\ scan' = Waiting /\ UNCHANGED <<hosts, comings, scans>>
    BY <1>6, PrefsNextInv
       DEF PrefsNext, ScannerInv, ScannerTypeOK, LoadedAgrees, HistoryAgrees, Waiting
  <1>7. CASE UNCHANGED <<scannerVars, prefsVars>>
    BY <1>7, PrefsStutter
       DEF ScannerInv, ScannerTypeOK, LoadedAgrees, HistoryAgrees, scannerVars
  <1> QED BY <1>1, <1>2, <1>3, <1>4, <1>5, <1>6, <1>7 DEF ScannerNext

LEMMA ScannerAlways == ScannerSpec => [](PrefsInv /\ ScannerInv)
  BY PrefsInitInv, ScannerInitInv, ScannerNextInv, PTL DEF ScannerSpec

\* Whatever requests save, fail to save or are refused, and whoever reads the
\* dictionary in between, a setting that has a row is read and in use as it was
\* saved last, unless a request saved the defaults that it was given because the
\* database could not be read, or config.json was taken over (save_full_config,
\* load_config).
THEOREM SettingsAreKept == ScannerSpec => []SettingsKept
  <1>1. PrefsInv => SettingsKept
    BY DEF PrefsInv, SavedHasRow, InUseOrAsked, SettingsKept, InUseAsSaved
  <1> QED BY <1>1, ScannerAlways, PTL

\* The history of a host ends with the status of its row, for any subnet, any
\* answers, scans that could not read the rows, and erasure at any time
\* (update_db_and_get_status).
THEOREM HistoryEndsWithStatus == ScannerSpec => []HistoryAgrees
  <1>1. ScannerInv => HistoryAgrees
    BY DEF ScannerInv
  <1> QED BY <1>1, ScannerAlways, PTL

\* Between blind scans hosts come and go in turns, and stay known since they
\* were first seen.
THEOREM HostsTakeTurns == ScannerSpec => ScansAddUp
  <1> DEFINE OneStep ==
        ~scan.blind =>
          \A ip \in Subnet :
            /\ hosts[ip] # NoHost => hosts'[ip].first = hosts[ip].first
            /\ comings[ip] # <<>> /\ Len(comings'[ip]) > Len(comings[ip])
                 => Last(comings'[ip]) # Last(comings[ip])
  <1>1. ASSUME ScannerInv, [ScannerNext]_<<scannerVars, prefsVars>>
        PROVE  [OneStep]_<<scannerVars, prefsVars>>
    <2>1. CASE UpdateHosts
      BY <1>1, <2>1, OneHostUpdated
    <2>2. CASE hosts' = hosts /\ \A ip \in Subnet : comings'[ip] \in {comings[ip], <<>>}
      <3>1. \A ip \in Subnet : Len(comings[ip]) \in Nat
        BY <1>1 DEF ScannerInv, ScannerTypeOK
      <3> QED BY <2>2, <3>1
    <2>3. \/ UpdateHosts
          \/ hosts' = hosts /\ \A ip \in Subnet : comings'[ip] \in {comings[ip], <<>>}
      BY <1>1 DEF ScannerNext, BeginScan, NoAnswer, ScannerDies, HostsAnswer, LoadHosts,
                  EraseHistory, scannerVars
    <2> QED BY <2>1, <2>2, <2>3
  <1> QED BY <1>1, ScannerAlways, PTL DEF ScannerSpec, ScansAddUp
-----------------------------------------------------------------------------
(* Backups.                                                                *)

Visit == [step : {"idle", "next", "read", "create", "write", "replace", "remove", "save"},
          todo : SUBSET BackupNames, file : SUBSET BackupNames]

BackupsTypeOK ==
  /\ plain \in SUBSET BackupNames /\ temp \in SUBSET BackupNames
  /\ enc \in [BackupNames -> {"none", "partial", "full"}]
  /\ visit \in [Visitors -> Visit]
  /\ kept \in SUBSET BackupNames

InHand(v) == visit[v].step \notin {"idle", "next"}

\* Whoever is past the listing has one file in hand.
OneInHand == \A v \in Visitors : InHand(v) => \E b \in BackupNames : visit[v].file = {b}

Holds(v) == visit[v].step \in {"write", "replace"}

\* A temporary file has one writer.
OneWriter ==
  /\ \A v \in Visitors : Holds(v) => visit[v].file \subseteq temp
  /\ \A v, w \in Visitors : Holds(v) /\ Holds(w) /\ v # w => visit[v].file # visit[w].file

\* The plain file goes when the encrypted one is complete, or was deleted.
DoneBeforeRemoved ==
  \A v \in Visitors : visit[v].step = "remove" =>
    \A b \in visit[v].file : enc[b] = "full" \/ b \notin kept

BackupsInv == BackupsTypeOK /\ OneInHand /\ OneWriter /\ DoneBeforeRemoved /\ NoBackupLost

LEMMA BackupsInitInv == BackupsInit => BackupsInv
  BY DEF BackupsInit, BackupsInv, BackupsTypeOK, OneInHand, OneWriter, DoneBeforeRemoved,
         NoBackupLost, InHand, Holds, NoVisit, Visit

\* The file in hand, without the CHOOSE.
LEMMA FileInHand ==
  ASSUME BackupsInv, NEW v \in Visitors, InHand(v)
  PROVE  File(v) \in BackupNames /\ visit[v].file = {File(v)}
  BY DEF BackupsInv, OneInHand, File

\* Steps of a request that change no file.
LEMMA VisitInv ==
  ASSUME BackupsInv, NEW v \in Visitors, NEW x \in Visit,
         visit' = [visit EXCEPT ![v] = x], UNCHANGED <<plain, temp, enc, kept>>,
         x.step \notin {"idle", "next"} => \E b \in BackupNames : x.file = {b},
         x.step \in {"write", "replace"} => Holds(v) /\ x.file = visit[v].file,
         x.step # "remove"
  PROVE  BackupsInv'
  <1>1. BackupsTypeOK'
    BY DEF BackupsInv, BackupsTypeOK
  <1>2. \A w \in Visitors : visit'[w] = IF w = v THEN x ELSE visit[w]
    BY DEF BackupsInv, BackupsTypeOK
  <1>3. OneInHand'
    BY <1>2 DEF BackupsInv, OneInHand, InHand
  <1>4. OneWriter'
    BY <1>2 DEF BackupsInv, OneWriter, Holds
  <1>5. DoneBeforeRemoved' /\ NoBackupLost'
    BY <1>2 DEF BackupsInv, DoneBeforeRemoved, NoBackupLost
  <1> QED BY <1>1, <1>3, <1>4, <1>5 DEF BackupsInv

LEMMA ListingInv ==
  ASSUME BackupsInv, NEW v \in Visitors,
         \/ BuildService(v) \/ ServiceBuilt(v) \/ ReadPlain(v) \/ WriteTemp(v) \/ WriteFails(v)
         \/ \E b \in BackupNames : TakeFile(v, b)
  PROVE  BackupsInv'
  <1>1. /\ visit[v] \in Visit /\ plain \subseteq BackupNames
        /\ visit \in [Visitors -> Visit] /\ NoVisit \in Visit /\ NoVisit.step = "idle"
    BY DEF BackupsInv, BackupsTypeOK, NoVisit, Visit
  <1>2. CASE BuildService(v)
    <2> DEFINE x == [step |-> "next", todo |-> plain, file |-> {}]
    <2>1. x \in Visit /\ x.step = "next"
      BY <1>1 DEF Visit
    <2>2. visit' = [visit EXCEPT ![v] = x] /\ UNCHANGED <<plain, temp, enc, kept>>
      BY <1>2 DEF BuildService
    <2> HIDE DEF x
    <2> QED BY <2>1, <2>2, VisitInv
  <1>3. ASSUME visit' = [visit EXCEPT ![v] = NoVisit], UNCHANGED <<plain, temp, enc, kept>>
        PROVE  BackupsInv'
    BY <1>1, <1>3, VisitInv
  <1>4. ASSUME NEW step \in {"create", "replace"}, StepsTo(v, step), InHand(v),
               step = "replace" => Holds(v), UNCHANGED <<plain, temp, enc, kept>>
        PROVE  BackupsInv'
    <2> DEFINE x == [visit[v] EXCEPT !.step = step]
    <2>1. x \in Visit /\ x.step = step /\ x.file = visit[v].file
      BY <1>1 DEF Visit
    <2>2. visit' = [visit EXCEPT ![v] = x]
      BY <1>1, <1>4 DEF StepsTo
    <2>3. \E b \in BackupNames : x.file = {b}
      BY <1>4, <2>1 DEF BackupsInv, OneInHand
    <2> HIDE DEF x
    <2> QED BY <1>4, <2>1, <2>2, <2>3, VisitInv
  <1>5. CASE ReadPlain(v)
    BY <1>3, <1>4, <1>5 DEF ReadPlain, Raises, InHand
  <1>6. CASE WriteTemp(v)
    BY <1>4, <1>6 DEF WriteTemp, InHand, Holds
  <1>7. CASE ServiceBuilt(v) \/ WriteFails(v)
    BY <1>3, <1>7 DEF ServiceBuilt, WriteFails, Raises
  <1>8. ASSUME NEW b \in BackupNames, TakeFile(v, b)
        PROVE  BackupsInv'
    <2>1. CASE enc[b] # "none"
      <3> DEFINE x == [visit[v] EXCEPT !.todo = visit[v].todo \ {b}]
      <3>1. x \in Visit /\ x.step = "next"
        <4>1. /\ visit[v].step = "next" /\ visit[v].file \subseteq BackupNames
              /\ visit[v].todo \ {b} \in SUBSET BackupNames
          BY <1>1, <1>8 DEF Visit, TakeFile
        <4> QED BY <1>1, <4>1 DEF Visit
      <3>2. visit' = [visit EXCEPT ![v] = x]
        BY <1>8, <2>1 DEF TakeFile
      <3>3. UNCHANGED <<plain, temp, enc, kept>>
        BY <1>8 DEF TakeFile
      <3> HIDE DEF x
      <3> QED BY <3>1, <3>2, <3>3, VisitInv
    <2>2. CASE ~(enc[b] # "none")
      <3> DEFINE x == [step |-> "read", todo |-> visit[v].todo \ {b}, file |-> {b}]
      <3>1. x \in Visit /\ x.step = "read" /\ x.file = {b}
        BY <1>1, <1>8 DEF Visit, TakeFile
      <3>2. visit' = [visit EXCEPT ![v] = x] /\ UNCHANGED <<plain, temp, enc, kept>>
        BY <1>1, <1>8, <2>2 DEF TakeFile
      <3> HIDE DEF x
      <3> QED BY <3>1, <3>2, VisitInv
    <2> QED BY <2>1, <2>2
  <1> QED BY <1>2, <1>5, <1>6, <1>7, <1>8

\* O_EXCL: the file is not another request's.
LEMMA CreateTempInv ==
  ASSUME BackupsInv, NEW v \in Visitors, CreateTemp(v)
  PROVE  BackupsInv'
  <1>1. visit \in [Visitors -> Visit] /\ NoVisit \in Visit /\ NoVisit.step = "idle"
    BY DEF BackupsInv, BackupsTypeOK, NoVisit, Visit
  <1>2. File(v) \in BackupNames /\ visit[v].file = {File(v)}
    BY FileInHand DEF CreateTemp, InHand
  <1>3. CASE ~Free(File(v))
    BY <1>1, <1>3, VisitInv DEF CreateTemp, Raises
  <1>4. CASE Free(File(v))
    <2>1. /\ temp' = temp \cup {File(v)} /\ File(v) \notin temp
          /\ visit' = [visit EXCEPT ![v].step = "write"]
          /\ UNCHANGED <<plain, enc, kept>>
      BY <1>4 DEF CreateTemp, StepsTo, Free
    <2>2. \A w \in Visitors : /\ visit'[w].file = visit[w].file
                              /\ visit'[w].step = IF w = v THEN "write" ELSE visit[w].step
      BY <1>1, <2>1 DEF Visit
    <2>3. BackupsTypeOK'
      BY <1>2, <2>1 DEF BackupsInv, BackupsTypeOK, Visit
    <2>4. OneInHand'
      BY <1>2, <2>2 DEF BackupsInv, OneInHand, InHand
    <2>5. OneWriter'
      <3>1. \A w \in Visitors : Holds(w) => visit[w].file \subseteq temp
                                            /\ visit[w].file # visit[v].file
        BY <1>2, <2>1 DEF BackupsInv, OneWriter
      <3> QED BY <1>2, <2>1, <2>2, <3>1 DEF BackupsInv, OneWriter, Holds
    <2>6. DoneBeforeRemoved' /\ NoBackupLost'
      BY <2>1, <2>2 DEF BackupsInv, DoneBeforeRemoved, NoBackupLost
    <2> QED BY <2>3, <2>4, <2>5, <2>6 DEF BackupsInv
  <1> QED BY <1>3, <1>4

\* No one else writes the temporary file, so it is complete.
LEMMA ReplaceFileInv ==
  ASSUME BackupsInv, NEW v \in Visitors, ReplaceFile(v)
  PROVE  BackupsInv'
  <1>1. visit \in [Visitors -> Visit] /\ NoVisit \in Visit /\ NoVisit.step = "idle"
    BY DEF BackupsInv, BackupsTypeOK, NoVisit, Visit
  <1>2. File(v) \in BackupNames /\ visit[v].file = {File(v)}
    BY FileInHand DEF ReplaceFile, InHand
  <1>3. CASE File(v) \notin temp
    BY <1>1, <1>3, VisitInv DEF ReplaceFile, Raises
  <1>4. CASE File(v) \in temp
    <2>1. Complete(v)
      BY DEF Complete, BackupsInv, OneWriter, Holds, ReplaceFile
    <2>2. /\ temp' = temp \ {File(v)}
          /\ enc' = [enc EXCEPT ![File(v)] = "full"]
          /\ visit' = [visit EXCEPT ![v].step = "remove"]
          /\ UNCHANGED <<plain, kept>>
      BY <1>4, <2>1 DEF ReplaceFile, StepsTo
    <2>3. \A w \in Visitors : /\ visit'[w].file = visit[w].file
                              /\ visit'[w].step = IF w = v THEN "remove" ELSE visit[w].step
      BY <1>1, <2>2 DEF Visit
    <2>4. \A b \in BackupNames : enc'[b] = IF b = File(v) THEN "full" ELSE enc[b]
      BY <2>2 DEF BackupsInv, BackupsTypeOK
    <2>5. BackupsTypeOK'
      BY <1>2, <2>2 DEF BackupsInv, BackupsTypeOK, Visit
    <2>6. OneInHand'
      BY <1>2, <2>3 DEF BackupsInv, OneInHand, InHand
    <2>7. OneWriter'
      <3>1. ASSUME NEW w \in Visitors, w # v, Holds(w)
            PROVE  File(v) \notin visit[w].file
        <4>1. visit[w].file # visit[v].file
          BY <3>1 DEF BackupsInv, OneWriter, Holds, ReplaceFile
        <4>2. \E b \in BackupNames : visit[w].file = {b}
          BY <3>1 DEF BackupsInv, OneInHand, InHand, Holds
        <4> QED BY <1>2, <4>1, <4>2
      <3>2. ASSUME NEW w \in Visitors, Holds(w)'
            PROVE  w # v /\ Holds(w) /\ visit'[w].file \subseteq temp'
        BY <2>2, <2>3, <3>1, <3>2 DEF BackupsInv, OneWriter, Holds
      <3>3. \A w, u \in Visitors : Holds(w)' /\ Holds(u)' /\ w # u =>
                                     visit'[w].file # visit'[u].file
        BY <2>3, <3>2 DEF BackupsInv, OneWriter
      <3> QED BY <3>2, <3>3 DEF OneWriter, Holds
    <2>8. DoneBeforeRemoved'
      <3>1. \A w \in Visitors : visit[w].file \subseteq BackupNames
        BY <1>1 DEF Visit
      <3> QED BY <1>2, <2>2, <2>3, <2>4, <3>1 DEF BackupsInv, DoneBeforeRemoved
    <2>9. NoBackupLost'
      BY <2>2, <2>4 DEF BackupsInv, BackupsTypeOK, NoBackupLost
    <2> QED BY <2>5, <2>6, <2>7, <2>8, <2>9 DEF BackupsInv
  <1> QED BY <1>3, <1>4

LEMMA RemovePlainInv ==
  ASSUME BackupsInv, NEW v \in Visitors, RemovePlain(v)
  PROVE  BackupsInv'
  <1>1. visit \in [Visitors -> Visit] /\ NoVisit \in Visit /\ NoVisit.step = "idle"
    BY DEF BackupsInv, BackupsTypeOK, NoVisit, Visit
  <1>2. File(v) \in BackupNames /\ visit[v].file = {File(v)}
    BY FileInHand DEF RemovePlain, InHand
  <1>3. CASE File(v) \notin plain
    BY <1>1, <1>3, VisitInv DEF RemovePlain, Raises
  <1>4. CASE File(v) \in plain
    <2>1. /\ plain' = plain \ {File(v)}
          /\ visit' = [visit EXCEPT ![v].step = "next"]
          /\ UNCHANGED <<temp, enc, kept>>
      BY <1>4 DEF RemovePlain, StepsTo
    <2>2. \A w \in Visitors : /\ visit'[w].file = visit[w].file
                              /\ visit'[w].step = IF w = v THEN "next" ELSE visit[w].step
      BY <1>1, <2>1 DEF Visit
    <2>3. BackupsTypeOK'
      BY <1>2, <2>1 DEF BackupsInv, BackupsTypeOK, Visit
    <2>4. OneInHand' /\ OneWriter' /\ DoneBeforeRemoved'
      BY <2>1, <2>2 DEF BackupsInv, OneInHand, OneWriter, DoneBeforeRemoved, InHand, Holds
    <2>5. NoBackupLost'
      BY <1>2, <2>1 DEF BackupsInv, DoneBeforeRemoved, NoBackupLost, RemovePlain
    <2> QED BY <2>3, <2>4, <2>5 DEF BackupsInv
  <1> QED BY <1>3, <1>4

\* A backup of a new name is no one's and was never kept.
LEMMA CreateBackupInv ==
  ASSUME BackupsInv, NEW v \in Visitors, NEW b \in BackupNames, CreateBackup(v, b)
  PROVE  BackupsInv'
  <1>1. /\ enc' = [enc EXCEPT ![b] = "partial"] /\ enc[b] = "none" /\ b \notin plain
        /\ visit' = [visit EXCEPT ![v] = [step |-> "save", todo |-> {}, file |-> {b}]]
        /\ \A w \in Visitors : b \notin visit[w].file
        /\ UNCHANGED <<plain, temp, kept>>
    BY DEF CreateBackup
  <1>2. \A c \in BackupNames : enc'[c] = IF c = b THEN "partial" ELSE enc[c]
    BY <1>1 DEF BackupsInv, BackupsTypeOK
  <1>3. /\ visit'[v].step = "save" /\ visit'[v].file = {b}
        /\ \A w \in Visitors \ {v} : visit'[w] = visit[w]
    BY <1>1 DEF BackupsInv, BackupsTypeOK
  <1>4. BackupsTypeOK'
    BY <1>1 DEF BackupsInv, BackupsTypeOK, Visit
  <1>5. OneInHand' /\ OneWriter'
    BY <1>1, <1>3 DEF BackupsInv, OneInHand, OneWriter, InHand, Holds
  <1>6. DoneBeforeRemoved'
    <2>1. \A w \in Visitors : visit[w].file \subseteq BackupNames
      BY DEF BackupsInv, BackupsTypeOK, Visit
    <2> QED BY <1>1, <1>2, <1>3, <2>1 DEF BackupsInv, DoneBeforeRemoved
  <1>7. NoBackupLost'
    BY <1>1, <1>2 DEF BackupsInv, BackupsTypeOK, NoBackupLost
  <1> QED BY <1>4, <1>5, <1>6, <1>7 DEF BackupsInv

LEMMA SaveBackupInv ==
  ASSUME BackupsInv, NEW v \in Visitors, SaveBackup(v)
  PROVE  BackupsInv'
  <1>1. visit \in [Visitors -> Visit] /\ NoVisit \in Visit /\ NoVisit.step = "idle"
    BY DEF BackupsInv, BackupsTypeOK, NoVisit, Visit
  <1>2. File(v) \in BackupNames
    BY FileInHand DEF SaveBackup, InHand
  <1>3. CASE enc[File(v)] = "none"
    BY <1>1, <1>3, VisitInv DEF SaveBackup
  <1>4. CASE enc[File(v)] # "none"
    <2>1. /\ enc' = [enc EXCEPT ![File(v)] = "full"] /\ kept' = kept \cup {File(v)}
          /\ visit' = [visit EXCEPT ![v] = NoVisit] /\ UNCHANGED <<plain, temp>>
      BY <1>4 DEF SaveBackup
    <2>2. \A c \in BackupNames : enc'[c] = IF c = File(v) THEN "full" ELSE enc[c]
      BY <2>1 DEF BackupsInv, BackupsTypeOK
    <2>3. \A w \in Visitors : visit'[w] = IF w = v THEN NoVisit ELSE visit[w]
      BY <2>1 DEF BackupsInv, BackupsTypeOK
    <2>4. BackupsTypeOK'
      BY <1>1, <1>2, <2>1 DEF BackupsInv, BackupsTypeOK
    <2>5. OneInHand' /\ OneWriter'
      BY <1>1, <2>1, <2>3 DEF BackupsInv, OneInHand, OneWriter, InHand, Holds
    <2>6. DoneBeforeRemoved'
      <3>1. \A w \in Visitors : visit[w].file \subseteq BackupNames
        BY <1>1 DEF Visit
      <3> QED BY <1>1, <2>1, <2>2, <2>3, <3>1 DEF BackupsInv, DoneBeforeRemoved
    <2>7. NoBackupLost'
      BY <1>2, <2>1, <2>2 DEF BackupsInv, BackupsTypeOK, NoBackupLost
    <2> QED BY <2>4, <2>5, <2>6, <2>7 DEF BackupsInv
  <1> QED BY <1>3, <1>4

LEMMA DeleteBackupInv ==
  ASSUME BackupsInv, NEW b \in BackupNames, DeleteBackup(b)
  PROVE  BackupsInv'
  <1>1. /\ enc' = [enc EXCEPT ![b] = "none"] /\ kept' = kept \ {b}
        /\ UNCHANGED <<plain, temp, visit>>
    BY DEF DeleteBackup
  <1>2. \A c \in BackupNames : enc'[c] = IF c = b THEN "none" ELSE enc[c]
    BY <1>1 DEF BackupsInv, BackupsTypeOK
  <1>3. BackupsTypeOK' /\ OneInHand' /\ OneWriter'
    BY <1>1 DEF BackupsInv, BackupsTypeOK, OneInHand, OneWriter, InHand, Holds
  <1>4. DoneBeforeRemoved'
    <2>1. \A w \in Visitors : visit[w].file \subseteq BackupNames
      BY DEF BackupsInv, BackupsTypeOK, Visit
    <2> QED BY <1>1, <1>2, <2>1 DEF BackupsInv, DoneBeforeRemoved
  <1>5. NoBackupLost'
    BY <1>1, <1>2 DEF BackupsInv, BackupsTypeOK, NoBackupLost
  <1> QED BY <1>3, <1>4, <1>5 DEF BackupsInv

LEMMA BackupsCrashInv ==
  ASSUME BackupsInv, BackupsCrash
  PROVE  BackupsInv'
  <1>1. NoVisit \in Visit /\ NoVisit.step = "idle"
    BY DEF NoVisit, Visit
  <1>2. visit' = [v \in Visitors |-> NoVisit] /\ UNCHANGED <<plain, temp, enc, kept>>
    BY DEF BackupsCrash
  <1> QED BY <1>1, <1>2 DEF BackupsInv, BackupsTypeOK, OneInHand, OneWriter, DoneBeforeRemoved,
                            NoBackupLost, InHand, Holds

LEMMA BackupsNextInv ==
  ASSUME BackupsInv, [BackupsNext]_backupVars
  PROVE  BackupsInv'
  <1>1. CASE \E v \in Visitors : CreateTemp(v) \/ ReplaceFile(v) \/ RemovePlain(v) \/ SaveBackup(v)
    BY <1>1, CreateTempInv, ReplaceFileInv, RemovePlainInv, SaveBackupInv
  <1>2. CASE \E v \in Visitors, b \in BackupNames : CreateBackup(v, b)
    BY <1>2, CreateBackupInv
  <1>3. CASE \E b \in BackupNames : DeleteBackup(b)
    BY <1>3, DeleteBackupInv
  <1>4. CASE BackupsCrash
    BY <1>4, BackupsCrashInv
  <1>5. CASE UNCHANGED backupVars
    BY <1>5 DEF backupVars, BackupsInv, BackupsTypeOK, OneInHand, OneWriter, DoneBeforeRemoved,
                NoBackupLost, InHand, Holds
  <1> QED BY <1>1, <1>2, <1>3, <1>4, <1>5, ListingInv DEF BackupsNext

\* No backup is lost, however many requests build the service at once and
\* wherever the process stops between two of its steps (_migrate_legacy_backups,
\* backup_switch, delete_backup).
THEOREM BackupsAreKept == BackupsSpec => []NoBackupLost
  <1>1. BackupsInv => NoBackupLost
    BY DEF BackupsInv
  <1> QED BY <1>1, BackupsInitInv, BackupsNextInv, PTL DEF BackupsSpec

-----------------------------------------------------------------------------
(* Sessions.                                                               *)

Row == [level : Levels, used : Nat, expires : Nat]

Read == [login : Logins, need : Levels, leaves : BOOLEAN, level : Levels,
         step : {"read", "leaving"}]

SessionTypeOK ==
  /\ authTime \in Nat
  /\ session \in [Logins -> {Absent} \cup Row]
  /\ req \in [Requests -> {Absent} \cup Read]
  /\ callback \in [Callbacks -> {"coming", "read", "redeeming", "issued", "refused"}]

\* A session has a callback that issued it, for which the code was redeemed.
IssuedOnce ==
  /\ \A l \in Logins : session[l] # Absent => Issued(l)
  /\ \A l \in Logins : Issued(l) => l \in redeemed
  /\ \A r \in Requests : req[r] # Absent => req[r].login \in redeemed

\* What a request has read still holds, unless the session has ended.
ReadHolds ==
  \A r \in Requests :
    req[r] # Absent /\ req[r].step = "read" /\ session[req[r].login] # Absent =>
      /\ session[req[r].login].level = req[r].level
      /\ session[req[r].login].expires > authTime
      /\ authTime - session[req[r].login].used <= IdleTime

SessionInv == SessionTypeOK /\ IssuedOnce /\ ReadHolds

LEMMA SessionInitInv == SessionInit => SessionInv /\ Contract!ContractInit
  <1> SUFFICES ASSUME SessionInit PROVE SessionInv /\ Contract!ContractInit
    OBVIOUS
  <1>1. \A l \in Logins : session[l] = Absent /\ ~Issued(l)
    BY DEF SessionInit, Issued
  <1>2. SessionInv
    BY <1>1 DEF SessionInit, SessionInv, SessionTypeOK, IssuedOnce, ReadHolds
  <1>3. SessionState = [l \in Logins |-> Contract!Unopened]
    BY <1>1 DEF SessionState, Contract!Unopened, Contract!Without
  <1> QED BY <1>2, <1>3 DEF SessionInit, Contract!ContractInit

\* A token that is accepted has a highest level.
LEMMA LevelIsOne ==
  ASSUME NEW t \in Tokens, t.levels # {}
  PROVE  Level(t) \in Levels
  BY SessionsAssumption DEF Level

LEMMA RowFacts ==
  ASSUME NEW s \in Row, NEW n \in Nat
  PROVE  /\ s # Absent /\ s.level \in Levels /\ s.used \in Nat /\ s.expires \in Nat
         /\ [s EXCEPT !.used = n] \in Row
         /\ [s EXCEPT !.used = n].used = n
         /\ [s EXCEPT !.used = n].level = s.level
         /\ [s EXCEPT !.used = n].expires = s.expires
  BY SessionsAssumption DEF Row

LEMMA ReadFacts ==
  ASSUME NEW q \in Read
  PROVE  /\ q # Absent /\ q.login \in Logins /\ q.level \in Levels
         /\ q.need \in Levels /\ q.leaves \in BOOLEAN /\ q.step \in {"read", "leaving"}
         /\ [q EXCEPT !.step = "leaving"] \in Read
         /\ [q EXCEPT !.step = "leaving"].step = "leaving"
         /\ [q EXCEPT !.step = "leaving"].login = q.login
  BY SessionsAssumption DEF Read

\* Steps of logging in that neither issue nor end a session.
LEMMA ComingInv ==
  ASSUME SessionInv, UNCHANGED <<authTime, session, admitted>>,
         redeemed \subseteq redeemed',
         callback' \in [Callbacks -> {"coming", "read", "redeeming", "issued", "refused"}],
         \A c \in Callbacks : callback'[c] = "issued" <=> callback[c] = "issued",
         \/ UNCHANGED req
         \/ req' = [r \in Requests |-> Absent]
  PROVE  SessionInv' /\ UNCHANGED Contract!contractVars
  <1>1. \A l \in Logins : Issued(l)' <=> Issued(l)
    BY DEF Issued
  <1>2. SessionState' = SessionState
    BY <1>1 DEF SessionState
  <1>3. SessionTypeOK'
    BY DEF SessionInv, SessionTypeOK
  <1>4. IssuedOnce'
    BY <1>1 DEF SessionInv, IssuedOnce
  <1>5. ReadHolds'
    BY DEF SessionInv, ReadHolds
  <1> QED BY <1>2, <1>3, <1>4, <1>5 DEF SessionInv, Contract!contractVars

SessionsWithout(gone) == [l \in Logins |-> IF l \in gone THEN Absent ELSE session[l]]

\* Sessions in a set end, and nothing else happens to a session.
LEMMA EndInv ==
  ASSUME SessionInv, NEW gone \in SUBSET Logins,
         session' = SessionsWithout(gone),
         \A l \in gone : session[l] # Absent,
         UNCHANGED <<authTime, redeemed, callback, admitted>>,
         req' \in [Requests -> {Absent} \cup Read],
         \A r \in Requests :
           \/ req'[r] \in {Absent, req[r]}
           \/ req'[r].login \in redeemed /\ req'[r].step = "leaving"
  PROVE  SessionInv' /\ Contract!End
  <1>1. \A l \in Logins : Issued(l)' <=> Issued(l)
    BY DEF Issued
  <1>2. \A l \in Logins : session'[l] = IF l \in gone THEN Absent ELSE session[l]
    BY DEF SessionsWithout
  <1>3. SessionTypeOK'
    BY DEF SessionInv, SessionTypeOK, SessionsWithout
  <1>4. IssuedOnce'
    BY <1>1, <1>2 DEF SessionInv, IssuedOnce
  <1>5. ReadHolds'
    <2> SUFFICES ASSUME NEW r \in Requests,
                        req'[r] # Absent, req'[r].step = "read",
                        session'[req'[r].login] # Absent
                 PROVE  /\ session'[req'[r].login].level = req'[r].level
                        /\ session'[req'[r].login].expires > authTime
                        /\ authTime - session'[req'[r].login].used <= IdleTime
      BY DEF ReadHolds
    <2>1. req'[r] = req[r] /\ req[r] \in Read
      BY DEF SessionInv, SessionTypeOK
    <2>2. req[r].login \in Logins
      BY <2>1, ReadFacts
    <2>3. session'[req[r].login] = session[req[r].login]
      BY <1>2, <2>1, <2>2
    <2> QED BY <2>1, <2>3 DEF SessionInv, ReadHolds
  <1>6. \A l \in gone : SessionState[l].phase = "open" /\ SessionState'[l] = Contract!Ended
    <2>1. ASSUME NEW l \in gone
          PROVE  l \in Logins /\ session[l] # Absent /\ session'[l] = Absent /\ Issued(l)'
      BY <1>1, <1>2 DEF SessionInv, IssuedOnce
    <2> QED BY <2>1 DEF SessionState, Contract!Ended, Contract!Without
  <1>7. \A l \in Logins \ gone : SessionState'[l] = SessionState[l]
    BY <1>1, <1>2 DEF SessionState
  <1>8. SessionState' = [l \in Logins |-> IF l \in gone THEN Contract!Ended ELSE SessionState[l]]
    <2>1. SessionState' = [l \in Logins |-> SessionState'[l]]
      BY DEF SessionState
    <2> QED BY <1>6, <1>7, <2>1
  <1>9. Contract!End
    <2>1. gone \in SUBSET {l \in Logins : Contract!Open(l)}
      BY <1>6 DEF Contract!Open
    <2> QED BY <1>8, <2>1 DEF Contract!End
  <1> QED BY <1>3, <1>4, <1>5, <1>9 DEF SessionInv

\* A session begins: its login had none before, for the code was not redeemed.
LEMMA BeginsInv ==
  ASSUME SessionInv, NEW c \in Callbacks, NEW level \in Levels, Issue(c), Goes(c, "issued"),
         session' = [k \in Logins |->
           IF k = CallbackOf[c]
           THEN [level |-> level, used |-> authTime, expires |-> authTime + Lifetime]
           ELSE IF session[k] # Absent /\ session[k].expires <= authTime THEN Absent
           ELSE session[k]]
  PROVE  SessionInv' /\ Contract!ContractNext
  <1> DEFINE l == CallbackOf[c]
             row == [level |-> level, used |-> authTime, expires |-> authTime + Lifetime]
             gone == {k \in Logins : k # l /\ session[k] # Absent
                                     /\ session[k].expires <= authTime}
  <1>1. l \in Logins /\ authTime \in Nat /\ Lifetime \in Nat
    BY SessionsAssumption DEF SessionInv, SessionTypeOK
  <1>2. /\ row \in Row /\ row # Absent
        /\ row.level = level /\ row.used = authTime /\ row.expires - Lifetime = authTime
    <2>1. row \in Row
      BY <1>1 DEF Row
    <2> QED BY <1>1, <2>1, RowFacts
  <1>3. /\ l \notin redeemed /\ redeemed' = redeemed \cup {l}
        /\ callback' = [callback EXCEPT ![c] = "issued"] /\ callback[c] = "redeeming"
        /\ UNCHANGED <<authTime, req, admitted>>
    BY DEF Issue, Goes
  <1>4. ~Issued(l) /\ session[l] = Absent
    BY <1>1, <1>3 DEF SessionInv, IssuedOnce
  <1>5. /\ Issued(l)'
        /\ \A k \in Logins \ {l} : Issued(k)' <=> Issued(k)
    BY <1>3 DEF Issued, SessionInv, SessionTypeOK
  <1>6. /\ session'[l] = row
        /\ \A k \in gone : session'[k] = Absent
        /\ \A k \in Logins \ gone : k # l => session'[k] = session[k]
    BY <1>1
  <1>7. SessionTypeOK'
    <2>1. session' \in [Logins -> {Absent} \cup Row]
      <3>1. \A k \in Logins : session'[k] \in {Absent} \cup Row
        BY <1>2, <1>6 DEF SessionInv, SessionTypeOK
      <3> QED BY <3>1
    <2> QED BY <1>3, <2>1 DEF SessionInv, SessionTypeOK
  <1>8. IssuedOnce'
    BY <1>3, <1>5, <1>6 DEF SessionInv, IssuedOnce
  <1>9. ReadHolds'
    <2>1. \A r \in Requests : req[r] # Absent => req[r].login \in Logins /\ req[r].login # l
      BY <1>3, ReadFacts DEF SessionInv, SessionTypeOK, IssuedOnce
    <2> QED BY <1>3, <1>6, <2>1 DEF SessionInv, ReadHolds
  <1>10. SessionState[l] = Contract!Unopened /\ SessionState'[l] = Contract!Begun(level)
    BY <1>1, <1>2, <1>3, <1>4, <1>6
       DEF SessionState, Contract!Unopened, Contract!Without, Contract!Begun
  <1>11. \A k \in gone : SessionState[k].phase = "open" /\ SessionState'[k] = Contract!Ended
    <2>1. ASSUME NEW k \in gone
          PROVE  k \in Logins /\ session[k] # Absent /\ session'[k] = Absent /\ Issued(k)'
      BY <1>5, <1>6 DEF SessionInv, IssuedOnce
    <2> QED BY <2>1 DEF SessionState, Contract!Ended, Contract!Without
  <1>12. \A k \in Logins \ gone : k # l => SessionState'[k] = SessionState[k]
    BY <1>5, <1>6 DEF SessionState
  <1>13. SessionState' = [k \in Logins |->
           IF k = l THEN Contract!Begun(level)
           ELSE IF k \in gone THEN Contract!Ended ELSE SessionState[k]]
    <2>1. SessionState' = [k \in Logins |-> SessionState'[k]]
      BY DEF SessionState
    <2> QED BY <1>10, <1>11, <1>12, <2>1
  <1>14. Contract!Begin(l)
    <2>1. gone \in SUBSET {k \in Logins : Contract!Open(k)}
      BY <1>11 DEF Contract!Open
    <2> HIDE DEF gone
    <2> QED BY <1>3, <1>10, <1>13, <2>1 DEF Contract!Begin
  <1> QED BY <1>1, <1>7, <1>8, <1>9, <1>14 DEF SessionInv, Contract!ContractNext

LEMMA IssueInv ==
  ASSUME SessionInv, NEW c \in Callbacks, Issue(c)
  PROVE  SessionInv' /\ [Contract!ContractNext]_(Contract!contractVars)
  <1>1. PICK t \in Tokens :
          IF ClaimsAccepted(t, CallbackOf[c]) /\ t.levels # {}
          THEN /\ Goes(c, "issued")
               /\ session' = [k \in Logins |->
                    IF k = CallbackOf[c]
                    THEN [level |-> Level(t), used |-> authTime, expires |-> authTime + Lifetime]
                    ELSE IF session[k] # Absent /\ session[k].expires <= authTime THEN Absent
                    ELSE session[k]]
          ELSE Goes(c, "refused") /\ UNCHANGED session
    BY DEF Issue
  <1>2. CASE ClaimsAccepted(t, CallbackOf[c]) /\ t.levels # {}
    BY <1>1, <1>2, LevelIsOne, BeginsInv
  <1>3. CASE ~(ClaimsAccepted(t, CallbackOf[c]) /\ t.levels # {})
    <2>1. /\ callback' = [callback EXCEPT ![c] = "refused"] /\ callback[c] = "redeeming"
          /\ UNCHANGED <<authTime, session, req, admitted>> /\ redeemed \subseteq redeemed'
      BY <1>1, <1>3 DEF Goes, Issue
    <2> QED BY <2>1, ComingInv DEF SessionInv, SessionTypeOK
  <1> QED BY <1>2, <1>3

LEMMA LookInv ==
  ASSUME SessionInv, NEW r \in Requests, NEW l \in Logins, NEW need \in Levels,
         NEW leaves \in BOOLEAN, Look(r, l, need, leaves)
  PROVE  SessionInv' /\ [Contract!ContractNext]_(Contract!contractVars)
  <1>1. /\ session[l] \in Row /\ session[l] # Absent /\ session[l].expires > authTime
        /\ session[l].used \in Nat /\ authTime \in Nat
    BY RowFacts DEF Look, Usable, SessionInv, SessionTypeOK
  <1>2. CASE IdleTooLong(l)
    <2>1. /\ session' = [session EXCEPT ![l] = Absent]
          /\ UNCHANGED <<authTime, redeemed, callback, req, admitted>>
      BY <1>2 DEF Look
    <2>2. session' = SessionsWithout({l})
      BY <2>1 DEF SessionInv, SessionTypeOK, SessionsWithout
    <2>3. req' \in [Requests -> {Absent} \cup Read]
      BY <2>1 DEF SessionInv, SessionTypeOK
    <2>4. SessionInv' /\ Contract!End
      <3> DEFINE gone == {l}
      <3>1. gone \in SUBSET Logins /\ \A k \in gone : session[k] # Absent
        BY <1>1
      <3>2. session' = SessionsWithout(gone)
        BY <2>2
      <3>3. \A w \in Requests : req'[w] \in {Absent, req[w]}
        BY <2>1
      <3> HIDE DEF gone
      <3> QED BY <2>1, <2>3, <3>1, <3>2, <3>3, EndInv
    <2> QED BY <2>4 DEF Contract!ContractNext
  <1>3. CASE ~IdleTooLong(l)
    <2> DEFINE q == [login |-> l, need |-> need, leaves |-> leaves,
                     level |-> session[l].level, step |-> "read"]
    <2>1. /\ req' = [req EXCEPT ![r] = q]
          /\ UNCHANGED <<authTime, session, redeemed, callback, admitted>>
      BY <1>3 DEF Look
    <2>2. q \in Read /\ q.login = l /\ q.level = session[l].level
      BY <1>1, RowFacts DEF Read
    <2>3. authTime - session[l].used <= IdleTime
      BY <1>1, <1>3, SessionsAssumption DEF IdleTooLong
    <2>4. \A k \in Logins : Issued(k)' <=> Issued(k)
      BY <2>1 DEF Issued
    <2> HIDE DEF q
    <2>5. SessionTypeOK'
      BY <2>1, <2>2 DEF SessionInv, SessionTypeOK
    <2>6. IssuedOnce'
      BY <1>1, <2>1, <2>2, <2>4 DEF SessionInv, SessionTypeOK, IssuedOnce
    <2>7. ReadHolds'
      BY <1>1, <2>1, <2>2, <2>3 DEF SessionInv, SessionTypeOK, ReadHolds
    <2>8. UNCHANGED Contract!contractVars
      BY <2>1, <2>4 DEF SessionState, Contract!contractVars
    <2> QED BY <2>5, <2>6, <2>7, <2>8 DEF SessionInv
  <1> QED BY <1>2, <1>3

\* A session that is still there is used; one that has ended stays so.
LEMMA RenewInv ==
  ASSUME SessionInv, NEW r \in Requests, Renew(r)
  PROVE  SessionInv' /\ [Contract!ContractNext]_(Contract!contractVars)
  <1> DEFINE q == req[r]
             l == q.login
  <1>1. /\ q \in Read /\ q.step = "read" /\ l \in Logins /\ q.level \in Levels /\ q.need \in Levels
        /\ UNCHANGED <<authTime, begun, txn, redeemed, callback>>
        /\ [q EXCEPT !.step = "leaving"] \in Read
        /\ [q EXCEPT !.step = "leaving"].step = "leaving"
        /\ [q EXCEPT !.step = "leaving"].login = l
    <2>1. q \in Read /\ q.step = "read" /\ UNCHANGED <<authTime, begun, txn, redeemed, callback>>
      BY DEF Renew, SessionInv, SessionTypeOK
    <2> QED BY <2>1, ReadFacts
  <1>2. /\ req' \in [Requests -> {Absent} \cup Read]
        /\ \A w \in Requests :
             \/ req'[w] \in {Absent, req[w]}
             \/ req'[w].login \in redeemed /\ req'[w].step = "leaving"
    <2> DEFINE x == [q EXCEPT !.step = "leaving"]
    <2>1. \/ req' = [req EXCEPT ![r] = Absent]
          \/ req' = [req EXCEPT ![r] = x]
      BY DEF Renew
    <2>2. l \in redeemed /\ x \in Read /\ x.step = "leaving" /\ x.login = l
      BY <1>1, ReadFacts DEF SessionInv, IssuedOnce
    <2>3. req \in [Requests -> {Absent} \cup Read]
      BY DEF SessionInv, SessionTypeOK
    <2> HIDE DEF x
    <2> QED BY <2>1, <2>2, <2>3
  <1>3. \A k \in Logins : Issued(k)' <=> Issued(k)
    BY <1>1 DEF Issued
  <1>4. CASE session[l] = Absent
    <2>1. session' = session /\ admitted' = admitted
      BY <1>4 DEF Renew, Renewed
    <2>2. SessionState' = SessionState
      BY <1>3, <2>1 DEF SessionState
    <2>3. SessionTypeOK' /\ IssuedOnce'
      BY <1>1, <1>2, <1>3, <2>1 DEF SessionInv, SessionTypeOK, IssuedOnce
    <2>4. ReadHolds'
      BY <1>1, <1>2, <2>1 DEF SessionInv, ReadHolds
    <2> QED BY <1>1, <2>1, <2>2, <2>3, <2>4 DEF SessionInv, Contract!contractVars
  <1>5. CASE session[l] # Absent
    <2> DEFINE row == [session[l] EXCEPT !.used = authTime]
    <2>1. session' = [session EXCEPT ![l] = row]
      BY <1>5 DEF Renew, Renewed
    <2>2. session[l] \in Row /\ authTime \in Nat
      BY <1>1, <1>5 DEF SessionInv, SessionTypeOK
    <2>3. /\ row \in Row /\ row # Absent /\ row.used = authTime
          /\ row.level = session[l].level /\ row.expires = session[l].expires
      BY <2>2, RowFacts
    <2>4. /\ session[l].level = q.level /\ session[l].expires > authTime
          /\ authTime - session[l].used <= IdleTime
      BY <1>1, <1>5, ReadFacts DEF SessionInv, ReadHolds
    <2> HIDE DEF row
    <2>5. session'[l] = row /\ \A k \in Logins \ {l} : session'[k] = session[k]
      BY <1>1, <2>1 DEF SessionInv, SessionTypeOK
    <2>6. SessionTypeOK'
      BY <1>1, <1>2, <2>1, <2>3 DEF SessionInv, SessionTypeOK
    <2>7. IssuedOnce'
      BY <1>1, <1>2, <1>3, <1>5, <2>5 DEF SessionInv, IssuedOnce
    <2>8. ReadHolds'
      <3> SUFFICES ASSUME NEW w \in Requests,
                          req'[w] # Absent, req'[w].step = "read",
                          session'[req'[w].login] # Absent
                   PROVE  /\ session'[req'[w].login].level = req'[w].level
                          /\ session'[req'[w].login].expires > authTime
                          /\ authTime - session'[req'[w].login].used <= IdleTime
        BY <1>1 DEF ReadHolds
      <3>1. req'[w] = req[w] /\ req[w] \in Read /\ req[w].login \in Logins
        BY <1>2, ReadFacts DEF SessionInv, SessionTypeOK
      <3>2. CASE req[w].login = l
        <4>1. session[l].level = req[w].level
          BY <1>5, <3>1, <3>2 DEF SessionInv, ReadHolds
        <4>2. authTime - authTime <= IdleTime
          BY <2>2, SessionsAssumption
        <4> QED BY <2>3, <2>4, <2>5, <3>1, <3>2, <4>1, <4>2
      <3>3. CASE req[w].login # l
        BY <2>5, <3>1, <3>3 DEF SessionInv, ReadHolds
      <3> QED BY <3>2, <3>3
    <2>9. SessionState' = [SessionState EXCEPT ![l].used = authTime]
      <3>1. \A k \in Logins \ {l} : SessionState'[k] = SessionState[k]
        BY <1>3, <2>5 DEF SessionState
      <3>2. SessionState'[l] = [SessionState[l] EXCEPT !.used = authTime]
        BY <1>1, <1>5, <2>3, <2>5 DEF SessionState
      <3>3. SessionState' = [k \in Logins |-> SessionState'[k]]
        BY DEF SessionState
      <3>4. SessionState = [k \in Logins |-> SessionState[k]]
        BY DEF SessionState
      <3> QED BY <1>1, <3>1, <3>2, <3>3, <3>4
    <2>10. /\ SessionState[l].phase = "open" /\ SessionState[l].level = q.level
           /\ SessionState[l].opened = session[l].expires - Lifetime
           /\ SessionState[l].used = session[l].used
      BY <1>1, <1>5, <2>4 DEF SessionState
    <2>11. authTime < SessionState[l].opened + Lifetime
      <3>1. session[l].expires \in Nat /\ Lifetime \in Nat
        BY <2>2, RowFacts, SessionsAssumption
      <3> QED BY <2>2, <2>4, <2>10, <3>1
    <2>12. \/ \E need \in Levels : /\ need <= SessionState[l].level
                                   /\ admitted' = admitted \cup {<<l, need>>}
           \/ UNCHANGED admitted
      <3>1. \/ q.level >= q.need /\ admitted' = admitted \cup {<<l, q.need>>}
            \/ UNCHANGED admitted
        BY DEF Renew
      <3>2. q.level >= q.need => q.need <= q.level
        BY <1>1, SessionsAssumption
      <3> QED BY <1>1, <2>10, <3>1, <3>2
    <2>13. Contract!Use(l)
      BY <1>1, <2>4, <2>9, <2>10, <2>11, <2>12 DEF Contract!Use, Contract!Open
    <2> QED BY <1>1, <2>6, <2>7, <2>8, <2>13 DEF SessionInv, Contract!ContractNext
  <1> QED BY <1>4, <1>5

LEMMA LeaveInv ==
  ASSUME SessionInv, NEW r \in Requests, Leave(r)
  PROVE  SessionInv' /\ Contract!ContractNext
  <1> DEFINE l == req[r].login
             gone == IF session[l] = Absent THEN {} ELSE {l}
  <1>1. /\ session' = [session EXCEPT ![l] = Absent]
        /\ req' = [req EXCEPT ![r] = Absent]
        /\ UNCHANGED <<authTime, redeemed, callback, admitted>>
    BY DEF Leave
  <1>2. l \in Logins
    BY ReadFacts DEF Leave, SessionInv, SessionTypeOK
  <1>3. gone \in SUBSET Logins /\ \A k \in gone : session[k] # Absent
    BY <1>2
  <1>4. session' = SessionsWithout(gone)
    BY <1>1, <1>2 DEF SessionInv, SessionTypeOK, SessionsWithout
  <1>5. /\ req' \in [Requests -> {Absent} \cup Read]
        /\ \A w \in Requests : req'[w] \in {Absent, req[w]}
    BY <1>1 DEF SessionInv, SessionTypeOK
  <1> HIDE DEF gone
  <1> QED BY <1>1, <1>3, <1>4, <1>5, EndInv DEF Contract!ContractNext

\* Time passes between requests.
LEMMA TickInv ==
  ASSUME SessionInv, SessionTick
  PROVE  SessionInv' /\ Contract!ContractNext
  <1>1. /\ authTime' = authTime + 1 /\ authTime \in Nat
        /\ UNCHANGED <<redeemed, callback, session, req, admitted>>
        /\ \A r \in Requests : req[r] = Absent
    BY DEF SessionTick, SessionInv, SessionTypeOK
  <1>2. \A l \in Logins : Issued(l)' <=> Issued(l)
    BY <1>1 DEF Issued
  <1>3. SessionInv'
    BY <1>1, <1>2 DEF SessionInv, SessionTypeOK, IssuedOnce, ReadHolds
  <1>4. SessionState' = SessionState
    BY <1>1, <1>2 DEF SessionState
  <1> QED BY <1>1, <1>3, <1>4 DEF Contract!ContractNext, Contract!Pass

LEMMA LoginInv ==
  ASSUME SessionInv,
         \/ \E l \in Logins : Login(l)
         \/ \E c \in Callbacks : ReadTransaction(c) \/ DeleteTransaction(c) \/ ExchangeFails(c)
         \/ SessionRestart
  PROVE  SessionInv' /\ UNCHANGED Contract!contractVars
  <1>1. CASE \E l \in Logins : Login(l)
    BY <1>1, ComingInv DEF Login, SessionInv, SessionTypeOK
  <1>2. ASSUME NEW c \in Callbacks,
               ReadTransaction(c) \/ DeleteTransaction(c) \/ ExchangeFails(c)
        PROVE  SessionInv' /\ UNCHANGED Contract!contractVars
    <2>1. /\ UNCHANGED <<authTime, session, redeemed, req, admitted>>
          /\ callback[c] # "issued"
          /\ \E to \in {"read", "redeeming", "refused"} : callback' = [callback EXCEPT ![c] = to]
      BY <1>2 DEF ReadTransaction, DeleteTransaction, ExchangeFails, Goes
    <2> QED BY <2>1, ComingInv DEF SessionInv, SessionTypeOK
  <1>3. CASE SessionRestart
    <2>1. /\ callback' \in [Callbacks -> {"coming", "read", "redeeming", "issued", "refused"}]
          /\ \A c \in Callbacks : callback'[c] = "issued" <=> callback[c] = "issued"
      BY <1>3 DEF SessionRestart, SessionInv, SessionTypeOK
    <2> QED BY <1>3, <2>1, ComingInv DEF SessionRestart
  <1> QED BY <1>1, <1>2, <1>3

LEMMA SessionStep ==
  ASSUME SessionInv, [SessionNext]_sessionVars
  PROVE  SessionInv' /\ [Contract!ContractNext]_(Contract!contractVars)
  <1>1. CASE \/ \E l \in Logins : Login(l)
             \/ \E c \in Callbacks : ReadTransaction(c) \/ DeleteTransaction(c) \/ ExchangeFails(c)
             \/ SessionRestart
    BY <1>1, LoginInv
  <1>2. CASE \E c \in Callbacks : Issue(c)
    BY <1>2, IssueInv
  <1>3. CASE \E r \in Requests, l \in Logins, need \in Levels, leaves \in BOOLEAN :
               Look(r, l, need, leaves)
    BY <1>3, LookInv
  <1>4. CASE \E r \in Requests : Renew(r)
    BY <1>4, RenewInv
  <1>5. CASE (\E r \in Requests : Leave(r)) \/ SessionTick
    BY <1>5, LeaveInv, TickInv
  <1>6. CASE UNCHANGED sessionVars
    BY <1>6, ComingInv DEF sessionVars, SessionInv, SessionTypeOK
  <1> QED BY <1>1, <1>2, <1>3, <1>4, <1>5, <1>6 DEF SessionNext

\* The handlers of web/auth.py implement the contract, for any number of logins,
\* callbacks and requests, any tokens and any times.
THEOREM SessionsKeepContract == SessionSpec => SessionsFollowContract
  BY SessionInitInv, SessionStep, PTL DEF SessionSpec, SessionsFollowContract, Contract!ContractSpec

-----------------------------------------------------------------------------
(* Reverse lookups.                                                        *)

Lookup == [ip : Addresses, began : Nat, name : HostNames \cup {Unresolved}, answered : Nat,
           step : {"asking", "storing", "writing"}]

CacheEntry == [name : HostNames \cup {Unresolved}, stamp : Nat, answered : Nat, present : BOOLEAN]

DiscoveryTypeOK ==
  /\ hostTime \in Nat
  /\ dnsCache \in [Addresses -> CacheEntry]
  /\ queued \in Seq(Addresses)
  /\ lookups \in SUBSET Lookup

\* No entry or answer is older than its lookup.
StampedEarly ==
  /\ \A ip \in Addresses : dnsCache[ip].stamp <= dnsCache[ip].answered
  /\ \A q \in lookups : /\ q.began <= hostTime
                        /\ q.step # "asking" => q.began <= q.answered

DiscoveryInv == DiscoveryTypeOK /\ StampedEarly /\ NamesAreFresh

LEMMA DiscoveryInitInv == DiscoveryInit => DiscoveryInv
  BY DiscoveryAssumption
     DEF DiscoveryInit, DiscoveryInv, DiscoveryTypeOK, StampedEarly, NamesAreFresh, NoEntry,
         CacheEntry

LEMMA LookupFacts ==
  ASSUME NEW q \in Lookup, NEW step \in {"asking", "storing", "writing"}
  PROVE  /\ q.ip \in Addresses /\ q.began \in Nat /\ q.answered \in Nat
         /\ q.name \in HostNames \cup {Unresolved}
         /\ [q EXCEPT !.step = step] \in Lookup
         /\ [q EXCEPT !.step = step].began = q.began
         /\ [q EXCEPT !.step = step].answered = q.answered
  BY DEF Lookup

\* A name that is taken was answered after its entry's stamp, which is fresh.
LEMMA TakeNameInv ==
  ASSUME DiscoveryInv, NEW ip \in Addresses, TakeName(ip)
  PROVE  DiscoveryInv'
  <1>1. /\ hostTime \in Nat /\ dnsCache[ip].stamp \in Nat /\ dnsCache[ip].answered \in Nat
        /\ dnsCache[ip].stamp <= dnsCache[ip].answered /\ Ttl \in Nat
    BY DiscoveryAssumption DEF DiscoveryInv, DiscoveryTypeOK, StampedEarly, CacheEntry
  <1>2. served' < Ttl
    BY <1>1 DEF TakeName, FreshEntry
  <1> QED BY <1>2 DEF DiscoveryInv, DiscoveryTypeOK, StampedEarly, NamesAreFresh, TakeName

LEMMA BeginLookupInv ==
  ASSUME DiscoveryInv, BeginLookup
  PROVE  DiscoveryInv'
  <1> DEFINE q == [ip |-> Head(queued), began |-> hostTime, name |-> Unresolved,
                   answered |-> 0, step |-> "asking"]
  <1>1. /\ Tail(queued) \in Seq(Addresses) /\ Head(queued) \in Addresses
        /\ queued' = Tail(queued) /\ lookups' = lookups \cup {q}
        /\ UNCHANGED <<hostTime, dnsCache, served>>
    BY DEF BeginLookup, DiscoveryInv, DiscoveryTypeOK
  <1>2. q \in Lookup /\ q.began <= hostTime /\ q.step = "asking"
    BY <1>1 DEF Lookup, DiscoveryInv, DiscoveryTypeOK
  <1> HIDE DEF q
  <1> QED BY <1>1, <1>2 DEF DiscoveryInv, DiscoveryTypeOK, StampedEarly, NamesAreFresh

LEMMA GoOnInv ==
  ASSUME DiscoveryInv, NEW ip \in Addresses, GoOn(ip)
  PROVE  DiscoveryInv'
  <1>1. PICK q \in lookups :
          \/ \E name \in HostNames \cup {Unresolved} : Answer(q, name)
          \/ StoreName(q)
          \/ \E written \in BOOLEAN : EndLookup(q, written)
    BY DEF GoOn
  <1>2. q \in Lookup /\ hostTime \in Nat
    BY DEF DiscoveryInv, DiscoveryTypeOK
  <1>3. ASSUME NEW name \in HostNames \cup {Unresolved}, Answer(q, name)
        PROVE  DiscoveryInv'
    <2> DEFINE x == [q EXCEPT !.name = name, !.answered = hostTime, !.step = "storing"]
    <2>1. x \in Lookup /\ x.began = q.began /\ x.answered = hostTime
      <3>1. name \in HostNames \cup {Unresolved}
        OBVIOUS
      <3>2. hostTime \in Nat /\ q \in Lookup
        BY <1>2
      <3> QED BY <3>1, <3>2 DEF Lookup
    <2>2. lookups' = (lookups \ {q}) \cup {x} /\ UNCHANGED <<hostTime, dnsCache, queued, served>>
      BY <1>3 DEF Answer
    <2> HIDE DEF x
    <2> QED BY <2>1, <2>2 DEF DiscoveryInv, DiscoveryTypeOK, StampedEarly, NamesAreFresh
  <1>4. CASE StoreName(q)
    <2> DEFINE x == [q EXCEPT !.step = "writing"]
               e == [name |-> q.name, stamp |-> q.began, answered |-> q.answered, present |-> TRUE]
    <2>1. x \in Lookup /\ x.began = q.began /\ x.answered = q.answered /\ q.ip \in Addresses
      BY <1>2, LookupFacts
    <2>2. e \in CacheEntry /\ e.stamp = q.began /\ e.answered = q.answered
      BY <1>2 DEF Lookup, CacheEntry
    <2>3. /\ lookups' = (lookups \ {q}) \cup {x} /\ dnsCache' = [dnsCache EXCEPT ![q.ip] = e]
          /\ UNCHANGED <<hostTime, queued, served>>
      BY <1>4 DEF StoreName, Stamp
    <2>4. q.began <= q.answered
      BY <1>4 DEF StoreName, DiscoveryInv, StampedEarly
    <2> HIDE DEF x, e
    <2>5. DiscoveryTypeOK'
      BY <2>1, <2>2, <2>3 DEF DiscoveryInv, DiscoveryTypeOK
    <2>6. StampedEarly'
      BY <2>1, <2>2, <2>3, <2>4 DEF DiscoveryInv, DiscoveryTypeOK, StampedEarly
    <2> QED BY <2>3, <2>5, <2>6 DEF DiscoveryInv, NamesAreFresh
  <1>5. CASE \E written \in BOOLEAN : EndLookup(q, written)
    BY <1>5 DEF EndLookup, DiscoveryInv, DiscoveryTypeOK, StampedEarly, NamesAreFresh
  <1> QED BY <1>1, <1>3, <1>4, <1>5

LEMMA DiscoveryNextInv ==
  ASSUME DiscoveryInv, [DiscoveryNext]_discoveryVars
  PROVE  DiscoveryInv'
  <1>1. CASE \E ip \in Addresses : QueueLookup(ip)
    BY <1>1 DEF QueueLookup, DiscoveryInv, DiscoveryTypeOK, StampedEarly, NamesAreFresh
  <1>2. CASE HostTick
    <2>1. hostTime \in Nat /\ \A q \in lookups : q.began \in Nat
      BY LookupFacts DEF DiscoveryInv, DiscoveryTypeOK, Lookup
    <2> QED BY <1>2, <2>1
            DEF HostTick, DiscoveryInv, DiscoveryTypeOK, StampedEarly, NamesAreFresh
  <1>3. CASE DiscoveryRestart
    BY <1>3 DEF DiscoveryRestart, DiscoveryInv, DiscoveryTypeOK, StampedEarly, NamesAreFresh,
                NoEntry, CacheEntry
  <1>4. CASE UNCHANGED discoveryVars
    BY <1>4 DEF discoveryVars, DiscoveryInv, DiscoveryTypeOK, StampedEarly, NamesAreFresh
  <1> QED BY <1>1, <1>2, <1>3, <1>4, TakeNameInv, BeginLookupInv, GoOnInv DEF DiscoveryNext

\* A name from the cache was answered less than the TTL ago, for any number of
\* threads, addresses and names and however long a lookup takes
\* (resolve_hostname_sync, resolve_all_clients).
THEOREM NamesStayFresh == DiscoverySpec => []NamesAreFresh
  <1>1. DiscoveryInv => NamesAreFresh
    BY DEF DiscoveryInv
  <1> QED BY <1>1, DiscoveryInitInv, DiscoveryNextInv, PTL DEF DiscoverySpec

-----------------------------------------------------------------------------
(* The addresses that are pending.  Their number is kept by every step since *)
(* an address is queued or looked up at most once: one that is queued twice  *)
(* would be released by the first lookup that ends.                          *)

InQueue == ToSet(queued)
LookedUp == {q.ip : q \in lookups}

OnceEach ==
  /\ \A i, j \in DOMAIN queued : queued[i] = queued[j] => i = j
  /\ \A p, q \in lookups : p.ip = q.ip => p = q
  /\ InQueue \cap LookedUp = {}

WorkInv ==
  /\ DiscoveryTypeOK
  /\ OnceEach
  /\ IsFiniteSet(pending) /\ IsFiniteSet(lookups)
  /\ PendingIsWork

\* What a step that exchanges one lookup for another of its address does.
LEMMA LookupExchanged ==
  ASSUME WorkInv, NEW q \in lookups, NEW x, x.ip = q.ip,
         lookups' = (lookups \ {q}) \cup {x}, UNCHANGED <<pending, queued>>,
         DiscoveryTypeOK'
  PROVE  WorkInv'
  <1>1. \A p \in lookups : p.ip = q.ip => p = q
    BY DEF WorkInv, OnceEach
  <1>2. x \notin lookups \ {q}
    BY <1>1
  <1>3. /\ IsFiniteSet(lookups') /\ Cardinality(lookups') = Cardinality(lookups)
    <2>1. /\ IsFiniteSet(lookups \ {q}) /\ Cardinality(lookups \ {q}) = Cardinality(lookups) - 1
          /\ Cardinality(lookups) \in Nat
      BY FS_RemoveElement, FS_CardinalityType DEF WorkInv
    <2>2. /\ IsFiniteSet((lookups \ {q}) \cup {x})
          /\ Cardinality((lookups \ {q}) \cup {x}) = Cardinality(lookups \ {q}) + 1
      BY <1>2, <2>1, FS_AddElement
    <2> QED BY <2>1, <2>2
  <1>4. LookedUp' = LookedUp
    BY DEF LookedUp
  <1>5. OnceEach'
    <2>1. \A p, r \in lookups' : p.ip = r.ip => p = r
      BY <1>1 DEF WorkInv, OnceEach
    <2> QED BY <1>4, <2>1 DEF WorkInv, OnceEach, InQueue
  <1>6. PendingIsWork'
    BY <1>3, <1>4 DEF WorkInv, PendingIsWork, LookedUp
  <1> QED BY <1>3, <1>5, <1>6 DEF WorkInv

LEMMA QueueLookupWork ==
  ASSUME WorkInv, NEW ip \in Addresses, QueueLookup(ip), DiscoveryTypeOK'
  PROVE  WorkInv'
  <1>1. /\ ip \notin pending /\ pending' = pending \cup {ip}
        /\ queued' = Append(queued, ip) /\ lookups' = lookups /\ queued \in Seq(Addresses)
    BY DEF QueueLookup, MayQueue, WorkInv, DiscoveryTypeOK
  <1>2. /\ Len(queued') = Len(queued) + 1 /\ Len(queued) \in Nat
        /\ DOMAIN queued' = 1 .. (Len(queued) + 1) /\ DOMAIN queued = 1 .. Len(queued)
        /\ \A i \in 1 .. Len(queued) : queued'[i] = queued[i]
        /\ queued'[Len(queued) + 1] = ip
    BY <1>1, AppendProperties
  <1>3. InQueue' = InQueue \cup {ip} /\ LookedUp' = LookedUp
    BY <1>1, <1>2 DEF InQueue, LookedUp, ToSet
  <1>4. pending = InQueue \cup LookedUp /\ InQueue = {queued[i] : i \in DOMAIN queued}
    BY DEF WorkInv, PendingIsWork, InQueue, LookedUp, ToSet
  <1>5. OnceEach'
    <2>1. \A i, j \in DOMAIN queued' : queued'[i] = queued'[j] => i = j
      <3> SUFFICES ASSUME NEW i \in DOMAIN queued', NEW j \in DOMAIN queued',
                          queued'[i] = queued'[j]
                   PROVE  i = j
        OBVIOUS
      <3>1. CASE i \in DOMAIN queued /\ j \in DOMAIN queued
        BY <1>2, <3>1 DEF WorkInv, OnceEach
      <3>2. CASE i \notin DOMAIN queued \/ j \notin DOMAIN queued
        <4>1. \A k \in DOMAIN queued : queued[k] # ip
          BY <1>1, <1>4
        <4> QED BY <1>2, <3>2, <4>1
      <3> QED BY <3>1, <3>2
    <2>2. InQueue' \cap LookedUp' = {}
      BY <1>1, <1>3, <1>4 DEF WorkInv, OnceEach
    <2> QED BY <1>1, <2>1, <2>2 DEF WorkInv, OnceEach
  <1>6. IsFiniteSet(pending') /\ Cardinality(pending') = Cardinality(pending) + 1
    BY <1>1, FS_AddElement DEF WorkInv
  <1>7. Cardinality(lookups) \in Nat
    BY FS_CardinalityType DEF WorkInv
  <1>8. PendingIsWork'
    <2>1. pending' = InQueue' \cup LookedUp'
      BY <1>1, <1>3, <1>4
    <2>2. Cardinality(pending') = Len(queued') + Cardinality(lookups')
      BY <1>1, <1>2, <1>6, <1>7 DEF WorkInv, PendingIsWork
    <2> QED BY <2>1, <2>2 DEF PendingIsWork, InQueue, LookedUp
  <1> QED BY <1>1, <1>5, <1>6, <1>8 DEF WorkInv

LEMMA BeginLookupWork ==
  ASSUME WorkInv, BeginLookup, DiscoveryTypeOK'
  PROVE  WorkInv'
  <1>1. PICK q : q = [ip |-> Head(queued), began |-> hostTime, name |-> Unresolved,
                      answered |-> 0, step |-> "asking"]
    OBVIOUS
  <1>2. /\ queued # <<>> /\ queued' = Tail(queued) /\ queued \in Seq(Addresses)
        /\ lookups' = lookups \cup {q} /\ pending' = pending
    BY <1>1 DEF BeginLookup, WorkInv, DiscoveryTypeOK
  <1>3. /\ Len(queued) \in Nat /\ Len(queued') = Len(queued) - 1 /\ Len(queued) # 0
        /\ DOMAIN queued' = 1 .. (Len(queued) - 1) /\ DOMAIN queued = 1 .. Len(queued)
        /\ \A i \in 1 .. (Len(queued) - 1) : queued'[i] = queued[i + 1]
        /\ q.ip = queued[1]
    <2>1. Len(queued) \in Nat /\ Len(queued) # 0 /\ DOMAIN queued = 1 .. Len(queued)
      BY <1>2, EmptySeq
    <2>2. /\ Tail(queued) \in Seq(Addresses) /\ Len(Tail(queued)) = Len(queued) - 1
          /\ \A i \in 1 .. Len(Tail(queued)) : Tail(queued)[i] = queued[i + 1]
      BY <1>2, HeadTailProperties
    <2>3. q.ip = queued[1]
      BY <1>1, <1>2
    <2> QED BY <1>2, <2>1, <2>2, <2>3
  <1>4. /\ InQueue = {queued[i] : i \in DOMAIN queued}
        /\ InQueue' = {queued'[i] : i \in DOMAIN queued'}
        /\ LookedUp' = LookedUp \cup {queued[1]}
        /\ pending = InQueue \cup LookedUp /\ InQueue \cap LookedUp = {}
    <2>1. LookedUp' = LookedUp \cup {queued[1]}
      BY <1>2, <1>3 DEF LookedUp
    <2>2. /\ InQueue = {queued[i] : i \in DOMAIN queued}
          /\ InQueue' = {queued'[i] : i \in DOMAIN queued'}
      BY Zenon DEF InQueue, ToSet
    <2> QED BY <2>1, <2>2 DEF InQueue, LookedUp, WorkInv, PendingIsWork, OnceEach
  <1>5. InQueue = InQueue' \cup {queued[1]}
    <2>1. ASSUME NEW i \in DOMAIN queued, i # 1
          PROVE  i - 1 \in DOMAIN queued' /\ queued[i] = queued'[i - 1]
      BY <1>3, <2>1
    <2>2. ASSUME NEW i \in DOMAIN queued' PROVE queued'[i] \in InQueue
      BY <1>3, <1>4
    <2>3. queued[1] \in InQueue
      BY <1>3, <1>4
    <2> QED BY <1>4, <2>1, <2>2, <2>3
  <1>6. queued[1] \notin InQueue'
    <2> SUFFICES ASSUME NEW i \in DOMAIN queued', queued'[i] = queued[1] PROVE FALSE
      BY <1>4
    <2>1. i + 1 \in DOMAIN queued /\ 1 \in DOMAIN queued /\ queued[i + 1] = queued[1] /\ i + 1 # 1
      BY <1>3
    <2> QED BY <2>1 DEF WorkInv, OnceEach
  <1>7. queued[1] \notin LookedUp
    BY <1>4, <1>5
  <1>8. OnceEach'
    <2>1. \A i, j \in DOMAIN queued' : queued'[i] = queued'[j] => i = j
      <3> SUFFICES ASSUME NEW i \in DOMAIN queued', NEW j \in DOMAIN queued',
                          queued'[i] = queued'[j]
                   PROVE  i = j
        OBVIOUS
      <3>1. i + 1 \in DOMAIN queued /\ j + 1 \in DOMAIN queued /\ queued[i + 1] = queued[j + 1]
        BY <1>3
      <3>2. i + 1 = j + 1
        BY <3>1 DEF WorkInv, OnceEach
      <3> QED BY <1>3, <3>2
    <2>2. \A p, r \in lookups' : p.ip = r.ip => p = r
      BY <1>2, <1>3, <1>7 DEF WorkInv, OnceEach, LookedUp
    <2>3. InQueue' \cap LookedUp' = {}
      BY <1>4, <1>5, <1>6
    <2> QED BY <2>1, <2>2, <2>3 DEF OnceEach
  <1>9. IsFiniteSet(lookups') /\ Cardinality(lookups') = Cardinality(lookups) + 1
    <2>1. q \notin lookups
      BY <1>3, <1>7 DEF LookedUp
    <2> QED BY <1>2, <2>1, FS_AddElement DEF WorkInv
  <1>10. PendingIsWork'
    <2>1. pending' = InQueue' \cup LookedUp'
      BY <1>2, <1>4, <1>5
    <2>2. Cardinality(lookups) \in Nat
      BY FS_CardinalityType DEF WorkInv
    <2>3. Cardinality(pending') = Len(queued') + Cardinality(lookups')
      BY <1>2, <1>3, <1>9, <2>2 DEF WorkInv, PendingIsWork
    <2> QED BY <2>1, <2>3 DEF PendingIsWork, InQueue, LookedUp
  <1> QED BY <1>2, <1>8, <1>9, <1>10 DEF WorkInv

LEMMA EndLookupWork ==
  ASSUME WorkInv, NEW q \in lookups, NEW written \in BOOLEAN, EndLookup(q, written),
         DiscoveryTypeOK'
  PROVE  WorkInv'
  <1>1. /\ lookups' = lookups \ {q} /\ pending' = pending \ {q.ip} /\ queued' = queued
    BY DEF EndLookup, Released
  <1>2. LookedUp' = LookedUp \ {q.ip}
    BY <1>1 DEF LookedUp, WorkInv, OnceEach
  <1>3. q.ip \in LookedUp /\ pending = InQueue \cup LookedUp /\ InQueue \cap LookedUp = {}
    BY DEF LookedUp, InQueue, WorkInv, PendingIsWork, OnceEach
  <1>4. OnceEach'
    BY <1>1, <1>2 DEF WorkInv, OnceEach, InQueue
  <1>5. /\ IsFiniteSet(lookups') /\ Cardinality(lookups') = Cardinality(lookups) - 1
        /\ IsFiniteSet(pending') /\ Cardinality(pending') = Cardinality(pending) - 1
    BY <1>1, <1>3, FS_RemoveElement DEF WorkInv
  <1>6. PendingIsWork'
    <2>1. pending' = InQueue' \cup LookedUp'
      BY <1>1, <1>2, <1>3 DEF InQueue
    <2>2. Cardinality(lookups) \in Nat /\ Len(queued) \in Nat
      BY FS_CardinalityType DEF WorkInv, DiscoveryTypeOK
    <2>3. Cardinality(pending') = Len(queued') + Cardinality(lookups')
      BY <1>1, <1>5, <2>2 DEF WorkInv, PendingIsWork
    <2> QED BY <2>1, <2>3 DEF PendingIsWork, InQueue, LookedUp
  <1> QED BY <1>4, <1>5, <1>6 DEF WorkInv

LEMMA NoWork ==
  ASSUME pending' = {}, queued' = <<>>, lookups' = {}, DiscoveryTypeOK'
  PROVE  WorkInv'
  <1>1. DOMAIN queued' = {} /\ Len(queued') = 0
    OBVIOUS
  <1>2. InQueue' = {} /\ LookedUp' = {}
    BY <1>1 DEF InQueue, LookedUp, ToSet
  <1>3. PendingIsWork'
    <2>1. Cardinality(pending') = Len(queued') + Cardinality(lookups')
      BY <1>1, FS_EmptySet
    <2> QED BY <1>2, <2>1 DEF PendingIsWork, InQueue, LookedUp
  <1> QED BY <1>1, <1>2, <1>3, FS_EmptySet DEF WorkInv, OnceEach

LEMMA WorkStep ==
  ASSUME WorkInv, DiscoveryTypeOK', [DiscoveryNext]_discoveryVars
  PROVE  WorkInv'
  <1>1. ASSUME NEW ip \in Addresses, GoOn(ip)
        PROVE  WorkInv'
    <2>1. PICK q \in lookups :
            \/ \E name \in HostNames \cup {Unresolved} : Answer(q, name)
            \/ StoreName(q)
            \/ \E written \in BOOLEAN : EndLookup(q, written)
      BY <1>1 DEF GoOn
    <2>2. q \in Lookup
      BY DEF WorkInv, DiscoveryTypeOK
    <2>3. ASSUME NEW name \in HostNames \cup {Unresolved}, Answer(q, name)
          PROVE  WorkInv'
      <3>1. PICK x : x = [q EXCEPT !.name = name, !.answered = hostTime, !.step = "storing"]
        OBVIOUS
      <3>2. x.ip = q.ip
        BY <2>2, <3>1 DEF Lookup
      <3> QED BY <2>3, <3>1, <3>2, LookupExchanged DEF Answer
    <2>4. CASE StoreName(q)
      <3>1. PICK x : x = [q EXCEPT !.step = "writing"]
        OBVIOUS
      <3>2. x.ip = q.ip
        BY <2>2, <3>1 DEF Lookup
      <3> QED BY <2>4, <3>1, <3>2, LookupExchanged DEF StoreName
    <2> QED BY <2>1, <2>3, <2>4, EndLookupWork
  <1>2. CASE DiscoveryRestart
    BY <1>2, NoWork DEF DiscoveryRestart
  <1>3. ASSUME UNCHANGED <<pending, queued, lookups>>
        PROVE  WorkInv'
    BY <1>3 DEF WorkInv, OnceEach, InQueue, LookedUp, PendingIsWork
  <1>4. (\E ip \in Addresses : TakeName(ip)) \/ HostTick \/ UNCHANGED discoveryVars
          => UNCHANGED <<pending, queued, lookups>>
    BY DEF TakeName, HostTick, discoveryVars
  <1> QED BY <1>1, <1>2, <1>3, <1>4, QueueLookupWork, BeginLookupWork DEF DiscoveryNext

\* The pending addresses are exactly those of the lookups that are queued or in
\* progress, one each, for any number of threads and addresses, whatever fails
\* (queue_hostname_resolution, resolve_hostname_sync).
THEOREM PendingAreWork == DiscoverySpec => []PendingIsWork
  <1>1. DiscoveryInit => WorkInv
    <2> SUFFICES ASSUME DiscoveryInit PROVE WorkInv
      OBVIOUS
    <2>1. DiscoveryTypeOK /\ queued = <<>> /\ pending = {} /\ lookups = {}
      BY DiscoveryInitInv DEF DiscoveryInv, DiscoveryInit
    <2>2. DOMAIN queued = {} /\ Len(queued) = 0 /\ InQueue = {} /\ LookedUp = {}
      BY <2>1 DEF InQueue, LookedUp, ToSet
    <2>3. Cardinality(pending) = Len(queued) + Cardinality(lookups)
      BY <2>1, <2>2, FS_EmptySet
    <2>4. PendingIsWork
      BY <2>1, <2>2, <2>3 DEF PendingIsWork, InQueue, LookedUp
    <2> QED BY <2>1, <2>2, <2>4, FS_EmptySet DEF WorkInv, OnceEach
  <1>2. DiscoveryInv /\ WorkInv /\ [DiscoveryNext]_discoveryVars => WorkInv'
    BY DiscoveryNextInv, WorkStep DEF DiscoveryInv
  <1>3. WorkInv => PendingIsWork
    BY DEF WorkInv
  <1> QED BY <1>1, <1>2, <1>3, DiscoveryInitInv, DiscoveryNextInv, PTL DEF DiscoverySpec

-----------------------------------------------------------------------------
(* The names of clients.                                                   *)

EntryNames == UserNames \cup {NoName, Nothing}

NamesTypeOK ==
  /\ override \in [Clients -> EntryNames]
  /\ known \in [Clients -> NameRow \cup {Nothing}]
  /\ inMemory \in [Copies -> [Clients -> EntryNames]]
  /\ inUse \in Copies \cup {Nothing}
  /\ editor \in [Editors -> Edit \cup {Nothing}]
  /\ given \in [Clients -> UserNames \cup {Nothing}]
  /\ \A e \in InFlight : editor[e].step \in {"naming", "deleting"} => editor[e].mac \in Clients

\* A request that no other one has overlapped is the only one in progress, and
\* what it has saved stands until it comes to the row.
LonersUndisturbed ==
  \A e \in InFlight : editor[e].alone =>
    /\ InFlight = {e}
    /\ editor[e].step = "naming" =>
         inUse = Nothing /\ override[editor[e].mac] = editor[e].name

\* Where a given name is: in both tables and in every dictionary that may be
\* written back, unless it has no entry because the request could not read the
\* tables.  No request in progress has still to write the row of the client.
Given(m) ==
  /\ override[m] = given[m]
  /\ known[m] # Nothing /\ known[m].custom = given[m]
  /\ inUse # Nothing => inMemory[inUse][m] = given[m]
  /\ \A e \in InFlight :
       /\ \/ inMemory[editor[e].copy][m] = given[m]
          \/ editor[e].blind /\ inMemory[editor[e].copy][m] = Nothing
       /\ editor[e].step \in {"naming", "deleting"} => editor[e].mac # m

NamesInv ==
  /\ NamesTypeOK /\ LonersUndisturbed
  /\ \A m \in Clients : given[m] # Nothing => Given(m)

LEMMA BlankType == Blank \in [Clients -> EntryNames]
  BY DEF Blank, EntryNames

LEMMA NamesInitInv == NamesInit => NamesInv
  <1> SUFFICES ASSUME NamesInit PROVE NamesInv
    OBVIOUS
  <1>1. \A e \in Editors : editor[e] = Nothing
    BY DEF NamesInit
  <1>2. InFlight = {}
    BY <1>1 DEF InFlight
  <1>3. inMemory = [d \in Copies |-> Blank]
    BY Zenon DEF NamesInit, Blank
  <1>4. NamesTypeOK
    BY <1>2, <1>3, BlankType DEF NamesInit, NamesTypeOK, EntryNames
  <1>5. \A m \in Clients : given[m] = Nothing
    BY DEF NamesInit
  <1> QED BY <1>2, <1>4, <1>5 DEF NamesInv, LonersUndisturbed

LEMMA EditFacts ==
  ASSUME NamesTypeOK, NEW e \in InFlight
  PROVE  /\ e \in Editors /\ editor[e] \in Edit /\ editor[e].copy \in Copies
         /\ editor[e].blind \in BOOLEAN /\ editor[e].alone \in BOOLEAN
         /\ editor[e].copy \in Used
  <1>1. e \in Editors /\ editor[e] \in Edit
    BY DEF InFlight, NamesTypeOK
  <1> QED BY <1>1 DEF Edit, Used

LEMMA NothingElse ==
  /\ Nothing \notin UserNames /\ Nothing # NoName /\ Nothing \notin Copies
  /\ Nothing \notin NameRow /\ Nothing \notin Edit /\ NoName \notin UserNames
  /\ \A x \in UserNames \cup {NoName} : x \in EntryNames /\ x # Nothing
  BY NamesAssumption DEF EntryNames

\* Dictionaries in use are kept, the others are blank.
LEMMA SweepFacts ==
  ASSUME NEW STATE dicts, dicts \in [Copies -> [Clients -> EntryNames]], Sweep(dicts)
  PROVE  /\ inMemory' \in [Copies -> [Clients -> EntryNames]]
         /\ \A d \in Copies : d \in Used' => inMemory'[d] = dicts[d]
  BY BlankType DEF Sweep

-----------------------------------------------------------------------------
(* A request changes an entry.                                             *)

\* The effect of a change: x becomes the entry of m in the dictionary of e, and
\* the dictionary is saved or not.
Changed(e, m, x, step, name) ==
  /\ InFlight' = InFlight /\ known' = known
  /\ \A k \in InFlight \ {e} : editor'[k] = editor[k]
  /\ editor'[e].copy = editor[e].copy /\ editor'[e].blind = editor[e].blind
  /\ editor'[e].step = step /\ editor'[e].mac = m /\ editor'[e].name = name
  /\ inUse' \in {inUse, Nothing}
  /\ \A d \in Copies : d \in Used' =>
       \A k \in Clients : inMemory'[d][k] = IF d = editor[e].copy /\ k = m THEN x
                                            ELSE inMemory[d][k]
  /\ \A k \in Clients \ {m} :
       \/ override'[k] = override[k]
       \/ override'[k] = Entry(e, k) /\ Entry(e, k) # Nothing
  /\ override'[m] = override[m] \/ (override'[m] = x /\ x # Nothing)
  /\ editor'[e].alone => editor[e].alone /\ inUse' = Nothing /\ (x # Nothing => override'[m] = x)

LEMMA ChangeFacts ==
  ASSUME NamesTypeOK, NEW e \in Editors, Loads(e), NEW m \in Clients, NEW x \in EntryNames,
         NEW step \in {"naming", "deleting", "done"}, NEW name \in UserNames \cup {NoName},
         Change(e, m, x, step, name)
  PROVE  /\ Changed(e, m, x, step, name)
         /\ override' \in [Clients -> EntryNames]
         /\ inMemory' \in [Copies -> [Clients -> EntryNames]]
         /\ editor' \in [Editors -> Edit \cup {Nothing}]
  <1>1. e \in InFlight /\ editor[e] \in Edit /\ editor[e].copy \in Copies
    <2>1. e \in InFlight
      BY DEF Loads, InFlight
    <2> QED BY <2>1, EditFacts
  <1>2. PICK dict : dict = [inMemory[editor[e].copy] EXCEPT ![m] = x]
    OBVIOUS
  <1>3. PICK next : next = [editor[e] EXCEPT !.mac = m, !.name = name]
    OBVIOUS
  <1>4. /\ dict \in [Clients -> EntryNames] /\ dict[m] = x
        /\ \A k \in Clients \ {m} : dict[k] = Entry(e, k)
    BY <1>1, <1>2 DEF NamesTypeOK, Entry
  <1>5. /\ next \in Edit /\ next.copy = editor[e].copy /\ next.blind = editor[e].blind
        /\ next.alone = editor[e].alone /\ next.mac = m /\ next.name = name
    BY <1>1, <1>3 DEF Edit
  <1>6. /\ \/ Saves(dict) /\ editor' = [editor EXCEPT ![e] = [next EXCEPT !.step = step]]
           \/ NameNotSaved /\ editor' = [editor EXCEPT ![e] = [next EXCEPT !.step = step,
                                                                        !.alone = FALSE]]
        /\ Sweep([inMemory EXCEPT ![editor[e].copy] = dict])
        /\ UNCHANGED known
    BY <1>2, <1>3, Zenon DEF Change
  <1>7. PICK y \in Edit : /\ editor' = [editor EXCEPT ![e] = y]
                          /\ y.copy = editor[e].copy /\ y.blind = editor[e].blind
                          /\ y.step = step /\ y.mac = m /\ y.name = name
                          /\ y.alone => editor[e].alone /\ Saves(dict)
                          /\ Saves(dict) \/ NameNotSaved
    <2>1. CASE /\ Saves(dict)
               /\ editor' = [editor EXCEPT ![e] = [next EXCEPT !.step = step]]
      <3>1. PICK y : y = [next EXCEPT !.step = step]
        OBVIOUS
      <3>2. /\ y \in Edit /\ y.copy = next.copy /\ y.blind = next.blind /\ y.step = step
            /\ y.mac = m /\ y.name = name /\ y.alone = next.alone
        BY <1>5, <3>1 DEF Edit
      <3> QED BY <1>5, <2>1, <3>1, <3>2
    <2>2. CASE /\ NameNotSaved
               /\ editor' = [editor EXCEPT ![e] = [next EXCEPT !.step = step, !.alone = FALSE]]
      <3>1. PICK y : y = [next EXCEPT !.step = step, !.alone = FALSE]
        OBVIOUS
      <3>2. /\ y \in Edit /\ y.copy = next.copy /\ y.blind = next.blind /\ y.step = step
            /\ y.mac = m /\ y.name = name /\ y.alone = FALSE
        BY <1>5, <3>1 DEF Edit
      <3> QED BY <1>5, <2>2, <3>1, <3>2
    <2> QED BY <1>6, <2>1, <2>2
  <1>8. /\ editor' \in [Editors -> Edit \cup {Nothing}] /\ editor'[e] = y
        /\ \A k \in Editors \ {e} : editor'[k] = editor[k]
    BY <1>7 DEF NamesTypeOK
  <1>9. InFlight' = InFlight
    <2>1. y # Nothing
      BY <1>7, NothingElse
    <2> QED BY <1>1, <1>8, <2>1 DEF InFlight
  <1>10. PICK dicts : dicts = [inMemory EXCEPT ![editor[e].copy] = dict]
    OBVIOUS
  <1>11. /\ dicts \in [Copies -> [Clients -> EntryNames]]
         /\ dicts[editor[e].copy] = dict
         /\ \A d \in Copies : d # editor[e].copy => dicts[d] = inMemory[d]
    BY <1>1, <1>4, <1>10 DEF NamesTypeOK
  <1>12. /\ inMemory' \in [Copies -> [Clients -> EntryNames]]
         /\ \A d \in Copies : d \in Used' => inMemory'[d] = dicts[d]
    BY <1>6, <1>10, <1>11, SweepFacts
  <1>13. \A d \in Copies : d \in Used' =>
           \A k \in Clients : inMemory'[d][k] = IF d = editor[e].copy /\ k = m THEN x
                                                ELSE inMemory[d][k]
    BY <1>4, <1>11, <1>12 DEF Entry
  <1>14. /\ override' \in [Clients -> EntryNames]
         /\ \A k \in Clients \ {m} :
              \/ override'[k] = override[k]
              \/ override'[k] = Entry(e, k) /\ Entry(e, k) # Nothing
         /\ override'[m] = override[m] \/ (override'[m] = x /\ x # Nothing)
         /\ inUse' \in {inUse, Nothing}
         /\ Saves(dict) => inUse' = Nothing /\ (x # Nothing => override'[m] = x)
    BY <1>4, <1>7 DEF Saves, NameNotSaved, NamesTypeOK
  <1>15. Changed(e, m, x, step, name)
    BY <1>6, <1>7, <1>8, <1>9, <1>13, <1>14 DEF Changed, InFlight
  <1> QED BY <1>8, <1>12, <1>14, <1>15

\* What is given to m may only remain if its entry does.
LEMMA ChangeInv ==
  ASSUME NamesInv, NEW e \in Editors, Loads(e), NEW m \in Clients, NEW x \in EntryNames,
         NEW step \in {"naming", "deleting", "done"}, NEW name \in UserNames \cup {NoName},
         Change(e, m, x, step, name),
         step = "naming" => x = name,
         \/ given' = [given EXCEPT ![m] = Nothing]
         \/ given' = given /\ step = "done" /\ (given[m] # Nothing => x = Entry(e, m))
  PROVE  NamesInv'
  <1>1. /\ Changed(e, m, x, step, name)
        /\ override' \in [Clients -> EntryNames]
        /\ inMemory' \in [Copies -> [Clients -> EntryNames]]
        /\ editor' \in [Editors -> Edit \cup {Nothing}]
    BY ChangeFacts DEF NamesInv
  <1>2. e \in InFlight /\ editor[e].copy \in Copies
    <2>1. e \in InFlight
      BY DEF Loads, InFlight
    <2> QED BY <2>1, EditFacts DEF NamesInv
  <1>3. NamesTypeOK'
    <2>1. known' = known /\ inUse' \in Copies \cup {Nothing}
      BY <1>1 DEF Changed, NamesInv, NamesTypeOK
    <2>2. given' \in [Clients -> UserNames \cup {Nothing}]
      BY DEF NamesInv, NamesTypeOK
    <2>3. (\A k \in InFlight : editor[k].step \in {"naming", "deleting"} => editor[k].mac \in Clients)'
      BY <1>1 DEF Changed, NamesInv, NamesTypeOK
    <2> QED BY <1>1, <2>1, <2>2, <2>3 DEF NamesInv, NamesTypeOK
  <1>4. LonersUndisturbed'
    <2> SUFFICES ASSUME NEW k \in InFlight, editor'[k].alone
                 PROVE  /\ InFlight = {k}
                        /\ editor'[k].step = "naming" =>
                             inUse' = Nothing /\ override'[editor'[k].mac] = editor'[k].name
      BY <1>1 DEF LonersUndisturbed, Changed
    <2>1. k = e /\ InFlight = {e}
      BY <1>1, <1>2 DEF Changed, NamesInv, LonersUndisturbed
    <2>2. editor'[e].alone /\ editor'[e].step = step /\ editor'[e].mac = m /\ editor'[e].name = name
      BY <1>1, <2>1 DEF Changed
    <2>3. inUse' = Nothing /\ (step = "naming" => override'[m] = name)
      BY <1>1, <2>2, NothingElse DEF Changed
    <2> QED BY <2>1, <2>2, <2>3
  <1>5. ASSUME NEW c \in Clients, given'[c] # Nothing
        PROVE  Given(c)'
    <2>1. /\ given'[c] = given[c] /\ given[c] # Nothing
          /\ c = m => step = "done" /\ x = Entry(e, m)
      BY <1>5 DEF NamesInv, NamesTypeOK
    <2>2. Given(c)
      BY <2>1 DEF NamesInv
    <2>3. Entry(e, c) \in {given[c], Nothing}
      BY <1>2, <2>2 DEF Given, Entry
    <2>4. override'[c] = given[c]
      BY <1>1, <2>1, <2>2, <2>3 DEF Changed, Given
    <2>5. \A d \in Copies : d \in Used' => inMemory'[d][c] = inMemory[d][c]
      BY <1>1, <2>1 DEF Changed, Entry
    <2>6. inUse' # Nothing => inMemory'[inUse'][c] = given[c]
      <3>1. inUse' # Nothing => inUse' = inUse /\ inUse \in Copies /\ inUse' \in Used'
        BY <1>1, NothingElse DEF Changed, NamesInv, NamesTypeOK, Used
      <3> QED BY <2>2, <2>5, <3>1 DEF Given
    <2>7. ASSUME NEW k \in InFlight
          PROVE  /\ \/ inMemory'[editor'[k].copy][c] = given[c]
                    \/ editor'[k].blind /\ inMemory'[editor'[k].copy][c] = Nothing
                 /\ editor'[k].step \in {"naming", "deleting"} => editor'[k].mac # c
      <3>1. /\ editor'[k].copy = editor[k].copy /\ editor'[k].blind = editor[k].blind
            /\ editor'[k].step \in {"naming", "deleting"} => editor'[k].mac # c
        BY <1>1, <2>1, <2>2 DEF Changed, Given
      <3>2. editor[k].copy \in Copies /\ editor'[k].copy \in Used'
        BY <1>1, EditFacts DEF Changed, Used, NamesInv
      <3>3. inMemory'[editor'[k].copy][c] = inMemory[editor[k].copy][c]
        BY <2>5, <3>1, <3>2
      <3> QED BY <2>2, <3>1, <3>3 DEF Given
    <2>8. known'[c] # Nothing /\ known'[c].custom = given[c]
      BY <1>1, <2>2 DEF Changed, Given
    <2>9. InFlight' = InFlight
      BY <1>1 DEF Changed
    <2> QED BY <2>1, <2>4, <2>6, <2>7, <2>8, <2>9 DEF Given
  <1> QED BY <1>3, <1>4, <1>5 DEF NamesInv

-----------------------------------------------------------------------------
(* The other steps.                                                        *)

LEMMA LoadInv ==
  ASSUME NamesInv, NEW e \in Editors, Load(e)
  PROVE  NamesInv'
  <1>1. PICK d \in Copies, blind \in BOOLEAN :
          /\ d = inUse \/ (d \notin Used /\ (inUse = Nothing))
          /\ blind => inUse = Nothing
          /\ inUse' = IF blind THEN Nothing ELSE d
          /\ editor' = [k \in Editors |->
               IF k = e THEN [copy |-> d, blind |-> blind, alone |-> InFlight = {},
                              step |-> "loaded", mac |-> Nothing, name |-> NoName]
               ELSE IF k \in InFlight THEN [editor[k] EXCEPT !.alone = FALSE]
               ELSE Nothing]
          /\ Sweep([inMemory EXCEPT ![d] = IF blind THEN Blank ELSE Dictionary])
    BY Zenon DEF Load
  <1>2. UNCHANGED <<override, known, given>> /\ editor[e] = Nothing /\ e \notin InFlight
    BY DEF Load, InFlight
  <1>3. PICK y : y = [copy |-> d, blind |-> blind, alone |-> InFlight = {},
                      step |-> "loaded", mac |-> Nothing, name |-> NoName]
    OBVIOUS
  <1>4. /\ y \in Edit /\ y.copy = d /\ y.blind = blind /\ y.step = "loaded"
        /\ y.alone => InFlight = {}
    <2>1. (InFlight = {}) \in BOOLEAN
      OBVIOUS
    <2> QED BY <1>3, <2>1 DEF Edit
  <1>5. ASSUME NEW k \in InFlight
        PROVE  /\ editor'[k] \in Edit /\ editor'[k].copy = editor[k].copy
               /\ editor'[k].blind = editor[k].blind /\ editor'[k].step = editor[k].step
               /\ editor'[k].mac = editor[k].mac /\ ~editor'[k].alone
    <2>1. k \in Editors /\ k # e /\ editor[k] \in Edit
      BY <1>2, EditFacts DEF NamesInv
    <2>2. editor'[k] = [editor[k] EXCEPT !.alone = FALSE]
      BY <1>1, <2>1
    <2> QED BY <2>1, <2>2 DEF Edit
  <1>6. editor'[e] = y
    BY <1>1, <1>3
  <1>7. InFlight' = InFlight \cup {e}
    <2>1. \A k \in Editors \ (InFlight \cup {e}) : editor'[k] = Nothing
      BY <1>1
    <2>2. y # Nothing /\ \A k \in InFlight : editor'[k] # Nothing
      BY <1>4, <1>5, NothingElse
    <2> QED BY <1>6, <2>1, <2>2 DEF InFlight
  <1>8. editor' \in [Editors -> Edit \cup {Nothing}]
    <2>1. \A k \in Editors : editor'[k] \in Edit \cup {Nothing}
      BY <1>1, <1>4, <1>5, <1>6
    <2> QED BY <1>1, <2>1
  <1>9. PICK loaded2 : loaded2 = IF blind THEN Blank ELSE Dictionary
    OBVIOUS
  <1>10. Dictionary \in [Clients -> EntryNames]
    <2>1. \A m \in Clients : known[m] # Nothing => known[m].custom \in EntryNames
      BY DEF NamesInv, NamesTypeOK, NameRow, EntryNames
    <2>2. Loaded \in [Clients -> EntryNames]
      BY <2>1 DEF Loaded, NamesInv, NamesTypeOK, EntryNames
    <2> QED BY <2>2 DEF Dictionary, NamesInv, NamesTypeOK
  <1>11. loaded2 \in [Clients -> EntryNames]
    BY <1>9, <1>10, BlankType
  <1>12. PICK dicts : dicts = [inMemory EXCEPT ![d] = loaded2]
    OBVIOUS
  <1>13. /\ dicts \in [Copies -> [Clients -> EntryNames]] /\ dicts[d] = loaded2
         /\ \A c \in Copies : c # d => dicts[c] = inMemory[c]
    BY <1>11, <1>12 DEF NamesInv, NamesTypeOK
  <1>14. /\ inMemory' \in [Copies -> [Clients -> EntryNames]]
         /\ \A c \in Copies : c \in Used' => inMemory'[c] = dicts[c]
    BY <1>1, <1>9, <1>12, <1>13, SweepFacts
  <1>15. d \in Used' /\ \A k \in InFlight : editor[k].copy \in Used'
    BY <1>4, <1>5, <1>6, <1>7 DEF Used
  <1>16. NamesTypeOK'
    <2>1. inUse' \in Copies \cup {Nothing}
      BY <1>1
    <2>2. (\A k \in InFlight : editor[k].step \in {"naming", "deleting"} => editor[k].mac \in Clients)'
      BY <1>4, <1>5, <1>6, <1>7 DEF NamesInv, NamesTypeOK
    <2> QED BY <1>2, <1>8, <1>14, <2>1, <2>2 DEF NamesInv, NamesTypeOK
  <1>17. LonersUndisturbed'
    BY <1>4, <1>5, <1>6, <1>7 DEF LonersUndisturbed
  <1>18. ASSUME NEW m \in Clients, given'[m] # Nothing
         PROVE  Given(m)'
    <2>1. given[m] # Nothing /\ Given(m) /\ given'[m] = given[m]
      BY <1>2, <1>18 DEF NamesInv
    <2>2. loaded2[m] = IF blind THEN Nothing ELSE given[m]
      <3>1. Dictionary[m] = given[m]
        BY <2>1 DEF Dictionary, Loaded, Given
      <3> QED BY <1>9, <3>1 DEF Blank
    <2>3. inMemory'[d][m] = loaded2[m]
      BY <1>13, <1>14, <1>15
    <2>4. inUse' # Nothing => inMemory'[inUse'][m] = given[m]
      BY <1>1, <2>2, <2>3
    <2>5. ASSUME NEW k \in InFlight
          PROVE  inMemory'[editor[k].copy][m] = inMemory[editor[k].copy][m]
      <3>1. editor[k].copy \in Copies /\ editor[k].copy \in Used
        BY EditFacts DEF NamesInv
      <3>2. CASE editor[k].copy # d
        BY <1>13, <1>14, <1>15, <3>1, <3>2
      <3>3. CASE editor[k].copy = d
        <4>1. inUse = d /\ inUse # Nothing /\ ~blind
          BY <1>1, <3>1, <3>3, NothingElse
        <4>2. inMemory[d][m] = given[m]
          BY <2>1, <4>1 DEF Given
        <4> QED BY <2>2, <2>3, <3>3, <4>1, <4>2
      <3> QED BY <3>2, <3>3
    <2>6. (\A k \in InFlight :
             /\ \/ inMemory[editor[k].copy][m] = given[m]
                \/ editor[k].blind /\ inMemory[editor[k].copy][m] = Nothing
             /\ editor[k].step \in {"naming", "deleting"} => editor[k].mac # m)'
      <3>1. ASSUME NEW k \in InFlight
            PROVE  /\ \/ inMemory'[editor'[k].copy][m] = given[m]
                      \/ editor'[k].blind /\ inMemory'[editor'[k].copy][m] = Nothing
                   /\ editor'[k].step \in {"naming", "deleting"} => editor'[k].mac # m
        BY <1>5, <2>1, <2>5 DEF Given
      <3>2. /\ \/ inMemory'[editor'[e].copy][m] = given[m]
               \/ editor'[e].blind /\ inMemory'[editor'[e].copy][m] = Nothing
            /\ editor'[e].step \notin {"naming", "deleting"}
        BY <1>4, <1>6, <2>2, <2>3
      <3> QED BY <1>7, <2>1, <3>1, <3>2
    <2> QED BY <1>2, <2>1, <2>4, <2>6 DEF Given
  <1> QED BY <1>16, <1>17, <1>18 DEF NamesInv

\* Where requests and dictionaries stand still, or only fewer are left.
LEMMA FewerInv ==
  ASSUME NamesInv, InFlight' \subseteq InFlight, \A k \in InFlight' : editor'[k] = editor[k],
         inUse' \in {inUse, Nothing}, editor' \in [Editors -> Edit \cup {Nothing}],
         inMemory' \in [Copies -> [Clients -> EntryNames]],
         \A d \in Copies : d \in Used' => inMemory'[d] = inMemory[d],
         override' = override,
         known' \in [Clients -> NameRow \cup {Nothing}],
         given' \in [Clients -> UserNames \cup {Nothing}],
         \A m \in Clients : given'[m] # Nothing =>
           /\ known'[m] # Nothing /\ known'[m].custom = given'[m]
           /\ \/ given'[m] = given[m]
              \/ InFlight' = {} /\ inUse' = Nothing /\ override[m] = given'[m]
  PROVE  NamesInv'
  <1>1. NamesTypeOK'
    <2>1. inUse' \in Copies \cup {Nothing}
      BY DEF NamesInv, NamesTypeOK
    <2>2. (\A k \in InFlight : editor[k].step \in {"naming", "deleting"} => editor[k].mac \in Clients)'
      BY DEF NamesInv, NamesTypeOK
    <2> QED BY <2>1, <2>2 DEF NamesInv, NamesTypeOK
  <1>2. LonersUndisturbed'
    BY DEF NamesInv, LonersUndisturbed
  <1>3. ASSUME NEW m \in Clients, given'[m] # Nothing
        PROVE  Given(m)'
    <2>1. CASE InFlight' = {} /\ inUse' = Nothing /\ override[m] = given'[m]
      BY <1>3, <2>1 DEF Given
    <2>2. CASE given'[m] = given[m]
      <3>1. Given(m)
        BY <1>3, <2>2 DEF NamesInv
      <3>2. inUse' # Nothing => inMemory'[inUse'][m] = given[m]
        <4>1. inUse' # Nothing => inUse' \in Used' /\ inUse' = inUse /\ inUse' \in Copies
          BY DEF Used, NamesInv, NamesTypeOK
        <4> QED BY <3>1, <4>1 DEF Given
      <3>3. \A k \in InFlight' : inMemory'[editor'[k].copy] = inMemory[editor[k].copy]
        <4> SUFFICES ASSUME NEW k \in InFlight'
                     PROVE  inMemory'[editor'[k].copy] = inMemory[editor[k].copy]
          OBVIOUS
        <4>1. k \in InFlight /\ editor'[k] = editor[k] /\ editor[k].copy \in Copies
          BY EditFacts DEF NamesInv
        <4>2. editor'[k].copy \in Used'
          BY DEF Used
        <4> QED BY <4>1, <4>2
      <3> QED BY <1>3, <2>2, <3>1, <3>2, <3>3 DEF Given
    <2> QED BY <1>3, <2>1, <2>2
  <1> QED BY <1>1, <1>2, <1>3 DEF NamesInv

\* A request saves its dictionary as it is, or goes on without saving it.
LEMMA ProgressInv ==
  ASSUME NamesInv, NEW e \in InFlight, NEW y \in Edit, editor' = [editor EXCEPT ![e] = y],
         y.copy = editor[e].copy, y.blind = editor[e].blind, y.alone => editor[e].alone,
         y.step \in {"done", "deleting"}, y.step = "deleting" => y.mac \in Clients,
         inUse' \in {inUse, Nothing}, known' = known,
         inMemory' \in [Copies -> [Clients -> EntryNames]],
         \A d \in Copies : d \in Used' => inMemory'[d] = inMemory[d],
         override' \in [Clients -> EntryNames],
         \A k \in Clients : \/ override'[k] = override[k]
                            \/ override'[k] = Entry(e, k) /\ Entry(e, k) # Nothing,
         given' \in [Clients -> UserNames \cup {Nothing}],
         \A m \in Clients : given'[m] # Nothing =>
           given'[m] = given[m] /\ (y.step = "deleting" => y.mac # m)
  PROVE  NamesInv'
  <1>1. e \in Editors /\ editor[e].copy \in Copies
    BY EditFacts DEF NamesInv
  <1>2. /\ editor' \in [Editors -> Edit \cup {Nothing}] /\ editor'[e] = y
        /\ \A k \in Editors \ {e} : editor'[k] = editor[k]
    BY <1>1 DEF NamesInv, NamesTypeOK
  <1>3. InFlight' = InFlight
    <2>1. y # Nothing
      BY NothingElse
    <2> QED BY <1>1, <1>2, <2>1 DEF InFlight
  <1>4. NamesTypeOK'
    <2>1. inUse' \in Copies \cup {Nothing}
      BY DEF NamesInv, NamesTypeOK
    <2>2. (\A k \in InFlight : editor[k].step \in {"naming", "deleting"} => editor[k].mac \in Clients)'
      BY <1>2, <1>3 DEF NamesInv, NamesTypeOK, InFlight
    <2> QED BY <1>2, <2>1, <2>2 DEF NamesInv, NamesTypeOK
  <1>5. LonersUndisturbed'
    <2> SUFFICES ASSUME NEW k \in InFlight, editor'[k].alone
                 PROVE  InFlight = {k} /\ editor'[k].step # "naming"
      BY <1>3 DEF LonersUndisturbed
    <2>1. k = e
      BY <1>2 DEF NamesInv, LonersUndisturbed, InFlight
    <2> QED BY <1>2, <2>1 DEF NamesInv, LonersUndisturbed
  <1>6. ASSUME NEW m \in Clients, given'[m] # Nothing
        PROVE  Given(m)'
    <2>1. Given(m) /\ given'[m] = given[m] /\ (y.step = "deleting" => y.mac # m)
      BY <1>6 DEF NamesInv
    <2>2. override'[m] = given[m]
      BY <2>1 DEF Given, Entry
    <2>3. inUse' # Nothing => inMemory'[inUse'][m] = given[m]
      <3>1. inUse' # Nothing => inUse' \in Used' /\ inUse' = inUse /\ inUse' \in Copies
        BY DEF Used, NamesInv, NamesTypeOK
      <3> QED BY <2>1, <3>1 DEF Given
    <2>4. ASSUME NEW k \in InFlight
          PROVE  /\ \/ inMemory'[editor'[k].copy][m] = given[m]
                    \/ editor'[k].blind /\ inMemory'[editor'[k].copy][m] = Nothing
                 /\ editor'[k].step \in {"naming", "deleting"} => editor'[k].mac # m
      <3>1. editor'[k].copy = editor[k].copy /\ editor'[k].blind = editor[k].blind
        BY <1>2 DEF InFlight
      <3>2. editor[k].copy \in Copies /\ editor'[k].copy \in Used'
        BY <1>3, <3>1, EditFacts DEF Used, NamesInv
      <3>3. inMemory'[editor'[k].copy] = inMemory[editor[k].copy]
        BY <3>1, <3>2
      <3>4. editor'[k].step \in {"naming", "deleting"} => editor'[k].mac # m
        BY <1>2, <2>1 DEF Given, InFlight
      <3> QED BY <2>1, <3>1, <3>3, <3>4 DEF Given
    <2> QED BY <1>3, <2>1, <2>2, <2>3, <2>4 DEF Given
  <1> QED BY <1>4, <1>5, <1>6 DEF NamesInv

LEMMA SaveOtherInv ==
  ASSUME NamesInv, NEW e \in Editors, SaveOther(e)
  PROVE  NamesInv'
  <1>1. e \in InFlight /\ editor[e] \in Edit /\ editor[e].copy \in Copies
    <2>1. e \in InFlight
      BY DEF SaveOther, Loads, InFlight
    <2> QED BY <2>1, EditFacts DEF NamesInv
  <1>2. PICK y : y = [editor[e] EXCEPT !.step = "done"]
    OBVIOUS
  <1>3. /\ y \in Edit /\ y.copy = editor[e].copy /\ y.blind = editor[e].blind
        /\ y.alone = editor[e].alone /\ y.step = "done"
    BY <1>1, <1>2 DEF Edit
  <1>4. editor' = [editor EXCEPT ![e] = y]
    BY <1>2 DEF SaveOther
  <1>5. /\ inMemory' \in [Copies -> [Clients -> EntryNames]]
        /\ \A d \in Copies : d \in Used' => inMemory'[d] = inMemory[d]
    BY SweepFacts DEF SaveOther, NamesInv, NamesTypeOK
  <1>6. /\ override' \in [Clients -> EntryNames] /\ inUse' \in {inUse, Nothing}
        /\ \A k \in Clients : \/ override'[k] = override[k]
                              \/ override'[k] = Entry(e, k) /\ Entry(e, k) # Nothing
    BY <1>1 DEF SaveOther, Saves, NameNotSaved, Entry, NamesInv, NamesTypeOK
  <1>7. known' = known /\ given' = given
    BY DEF SaveOther
  <1> QED BY <1>1, <1>3, <1>4, <1>5, <1>6, <1>7, ProgressInv DEF NamesInv, NamesTypeOK

LEMMA ForgetInv ==
  ASSUME NamesInv, NEW e \in Editors, NEW m \in Clients, Forget(e, m)
  PROVE  NamesInv'
  <1>1. e \in InFlight /\ editor[e] \in Edit /\ editor[e].copy \in Copies
    <2>1. e \in InFlight
      BY DEF Forget, Loads, InFlight
    <2> QED BY <2>1, EditFacts DEF NamesInv
  <1>2. /\ given' = [given EXCEPT ![m] = Nothing]
        /\ given' \in [Clients -> UserNames \cup {Nothing}]
    BY DEF Forget, NamesInv, NamesTypeOK
  <1>3. CASE Entry(e, m) # Nothing
    <2>1. Change(e, m, Nothing, "deleting", NoName) /\ Loads(e)
      BY <1>3 DEF Forget
    <2> QED BY <1>2, <2>1, ChangeInv, Zenon DEF EntryNames
  <1>4. CASE Entry(e, m) = Nothing
    <2>1. PICK y : y = [editor[e] EXCEPT !.step = "deleting", !.mac = m]
      OBVIOUS
    <2>2. /\ y \in Edit /\ y.copy = editor[e].copy /\ y.blind = editor[e].blind
          /\ y.alone = editor[e].alone /\ y.step = "deleting" /\ y.mac = m
      BY <1>1, <2>1 DEF Edit
    <2>3. editor' = [editor EXCEPT ![e] = y] /\ UNCHANGED <<override, known, inMemory, inUse>>
      BY <1>1, <1>4, <2>1 DEF Forget
    <2>4. \A k \in Clients : given'[k] # Nothing => given'[k] = given[k] /\ k # m
      BY <1>2 DEF NamesInv, NamesTypeOK
    <2> QED BY <1>1, <1>2, <2>2, <2>3, <2>4, ProgressInv DEF NamesInv, NamesTypeOK
  <1> QED BY <1>3, <1>4

LEMMA EndRequestInv ==
  ASSUME NamesInv, NEW e \in Editors, EndRequest(e)
  PROVE  NamesInv'
  <1> DEFINE q == editor[e]
  <1>1. e \in InFlight /\ q \in Edit
    <2>1. e \in InFlight
      BY DEF EndRequest, InFlight
    <2> QED BY <2>1, EditFacts DEF NamesInv
  <1>2. /\ editor' = [editor EXCEPT ![e] = Nothing] /\ UNCHANGED <<override, inUse>>
        /\ Sweep(inMemory)
    BY DEF EndRequest
  <1>3. /\ editor' \in [Editors -> Edit \cup {Nothing}] /\ InFlight' = InFlight \ {e}
        /\ \A k \in InFlight' : editor'[k] = editor[k]
    BY <1>2 DEF InFlight, NamesInv, NamesTypeOK
  <1>4. /\ inMemory' \in [Copies -> [Clients -> EntryNames]]
        /\ \A d \in Copies : d \in Used' => inMemory'[d] = inMemory[d]
    BY <1>2, SweepFacts DEF NamesInv, NamesTypeOK
  <1>5. \A m \in Clients : given[m] # Nothing =>
          /\ known[m] # Nothing /\ known[m].custom = given[m]
          /\ q.step \in {"naming", "deleting"} => q.mac # m
    BY <1>1 DEF NamesInv, Given
  <1>6. /\ q.step \in {"naming", "deleting"} => q.mac \in Clients
        /\ q.name \in UserNames \cup {NoName}
    BY <1>1 DEF NamesInv, NamesTypeOK, Edit
  <1>7. \/ q.step = "naming" /\ known[q.mac] # Nothing
           /\ known' = [known EXCEPT ![q.mac] = [custom |-> q.name, hostname |-> q.name]]
           /\ given' = IF q.alone /\ q.name # NoName THEN [given EXCEPT ![q.mac] = q.name]
                       ELSE given
        \/ q.step = "deleting" /\ known' = [known EXCEPT ![q.mac] = Nothing] /\ given' = given
        \/ known' = known /\ given' = given
    BY Zenon DEF EndRequest
  <1>8. /\ known' \in [Clients -> NameRow \cup {Nothing}]
        /\ given' \in [Clients -> UserNames \cup {Nothing}]
        /\ \A m \in Clients : given'[m] # Nothing =>
             /\ known'[m] # Nothing /\ known'[m].custom = given'[m]
             /\ \/ given'[m] = given[m]
                \/ InFlight' = {} /\ inUse' = Nothing /\ override[m] = given'[m]
    <2>1. CASE known' = known /\ given' = given
      BY <1>5, <2>1 DEF NamesInv, NamesTypeOK
    <2>2. CASE q.step = "deleting" /\ known' = [known EXCEPT ![q.mac] = Nothing] /\ given' = given
      BY <1>5, <1>6, <2>2 DEF NamesInv, NamesTypeOK
    <2>3. CASE q.step = "naming"
               /\ known' = [known EXCEPT ![q.mac] = [custom |-> q.name, hostname |-> q.name]]
               /\ given' = IF q.alone /\ q.name # NoName THEN [given EXCEPT ![q.mac] = q.name]
                           ELSE given
      <3>1. PICK row : row = [custom |-> q.name, hostname |-> q.name]
        OBVIOUS
      <3>2. row \in NameRow /\ row # Nothing /\ row.custom = q.name
        <4>1. row \in NameRow /\ row.custom = q.name
          BY <1>6, <3>1 DEF NameRow
        <4> QED BY <4>1, NothingElse
      <3>3. known' = [known EXCEPT ![q.mac] = row] /\ q.mac \in Clients
        BY <1>6, <2>3, <3>1
      <3>4. known' \in [Clients -> NameRow \cup {Nothing}] /\ known'[q.mac] = row
            /\ \A m \in Clients \ {q.mac} : known'[m] = known[m]
        BY <3>2, <3>3 DEF NamesInv, NamesTypeOK
      <3>5. CASE q.alone /\ q.name # NoName
        <4>1. given' = [given EXCEPT ![q.mac] = q.name] /\ q.name \in UserNames
          BY <1>6, <2>3, <3>5
        <4>2. /\ given' \in [Clients -> UserNames \cup {Nothing}] /\ given'[q.mac] = q.name
              /\ \A m \in Clients \ {q.mac} : given'[m] = given[m]
          BY <3>3, <4>1 DEF NamesInv, NamesTypeOK
        <4>3. InFlight' = {} /\ inUse' = Nothing /\ override[q.mac] = q.name
          BY <1>1, <1>2, <1>3, <2>3, <3>5 DEF NamesInv, LonersUndisturbed
        <4> QED BY <1>5, <3>2, <3>4, <4>2, <4>3
      <3>6. CASE ~(q.alone /\ q.name # NoName)
        <4>1. given' = given
          BY <2>3, <3>6
        <4> QED BY <1>5, <2>3, <3>4, <4>1 DEF NamesInv, NamesTypeOK
      <3> QED BY <3>5, <3>6
    <2> QED BY <1>7, <2>1, <2>2, <2>3
  <1> QED BY <1>2, <1>3, <1>4, <1>8, FewerInv

\* Rows change beside the requests: by an edit in the list of clients, or by
\* what is discovered.
LEMMA RowsInv ==
  ASSUME NamesInv, UNCHANGED <<override, inMemory, inUse, editor>>,
         known' \in [Clients -> NameRow \cup {Nothing}],
         given' \in [Clients -> UserNames \cup {Nothing}],
         \A m \in Clients : given'[m] # Nothing =>
           given'[m] = given[m] /\ known'[m] # Nothing /\ known'[m].custom = known[m].custom
  PROVE  NamesInv'
  <1>1. InFlight' = InFlight /\ \A k \in InFlight' : editor'[k] = editor[k]
    BY DEF InFlight
  <1>2. \A m \in Clients : given'[m] # Nothing => known'[m].custom = given'[m]
    BY DEF NamesInv, Given
  <1> QED BY <1>1, <1>2, FewerInv DEF NamesInv, NamesTypeOK

LEMMA UpsertedRow ==
  ASSUME NamesTypeOK, NEW m \in Clients, NEW name \in UserNames \cup FoundNames \cup {NoName}
  PROVE  /\ Upserted(m, name) \in NameRow /\ Upserted(m, name) # Nothing
         /\ known[m] # Nothing => Upserted(m, name).custom = known[m].custom
  <1>1. CASE known[m] = Nothing
    <2>1. Upserted(m, name) \in NameRow
      BY <1>1 DEF Upserted, NameRow
    <2> QED BY <1>1, <2>1, NothingElse
  <1>2. CASE known[m] # Nothing
    <2>1. PICK r : r = known[m]
      OBVIOUS
    <2>2. r \in NameRow
      BY <1>2, <2>1 DEF NamesTypeOK
    <2>3. [r EXCEPT !.hostname = name] \in NameRow /\ [r EXCEPT !.hostname = name].custom = r.custom
      BY <2>2 DEF NameRow
    <2>4. Upserted(m, name) \in NameRow /\ Upserted(m, name).custom = r.custom
      BY <1>2, <2>1, <2>2, <2>3 DEF Upserted
    <2> QED BY <2>1, <2>4, NothingElse
  <1> QED BY <1>1, <1>2

LEMMA UpsertInv ==
  ASSUME NamesInv, NEW m \in Clients, NEW name \in UserNames \cup FoundNames \cup {NoName},
         known' = [known EXCEPT ![m] = Upserted(m, name)],
         UNCHANGED <<override, inMemory, inUse, editor, given>>
  PROVE  NamesInv'
  <1>1. /\ Upserted(m, name) \in NameRow /\ Upserted(m, name) # Nothing
        /\ known[m] # Nothing => Upserted(m, name).custom = known[m].custom
    BY UpsertedRow DEF NamesInv
  <1>2. /\ known' \in [Clients -> NameRow \cup {Nothing}] /\ known'[m] = Upserted(m, name)
        /\ \A k \in Clients \ {m} : known'[k] = known[k]
    BY <1>1 DEF NamesInv, NamesTypeOK
  <1>3. \A k \in Clients : given[k] # Nothing => known[k] # Nothing
    BY DEF NamesInv, Given
  <1> QED BY <1>1, <1>2, <1>3, RowsInv DEF NamesInv, NamesTypeOK

LEMMA DrawnName ==
  ASSUME NamesTypeOK, NEW m \in Clients, NEW found \in FoundNames \cup {NoName}
  PROVE  FirstName(Nickname(m), found) \in UserNames \cup FoundNames \cup {NoName}
  <1>1. known[m] # Nothing => known[m].custom \in UserNames \cup {NoName}
    BY DEF NamesTypeOK, NameRow
  <1>2. Loaded[m] \in EntryNames
    BY <1>1 DEF Loaded, NamesTypeOK, EntryNames
  <1>3. Dictionary[m] \in EntryNames
    BY <1>2 DEF Dictionary, NamesTypeOK
  <1>4. Nickname(m) \in UserNames \cup {NoName}
    BY <1>3 DEF Nickname, EntryNames
  <1> QED BY <1>4 DEF FirstName

LEMMA NamesStep ==
  ASSUME NamesInv, [NamesNext]_nameVars
  PROVE  NamesInv'
  <1>1. \A x \in UserNames \cup {NoName} : x \in EntryNames /\ x # Nothing
    BY NothingElse
  <1>2. Nothing \in EntryNames /\ NoName \in EntryNames
    BY DEF EntryNames
  <1>3. ASSUME NEW e \in Editors, NEW m \in Clients, NEW name \in UserNames \cup {NoName},
               Rename(e, m, name) \/ Import(e, m, name) \/ NameHost(e, m, name)
        PROVE  NamesInv'
    <2>1. /\ Loads(e) /\ given' = [given EXCEPT ![m] = Nothing]
          /\ \/ Change(e, m, name, "naming", name)
             \/ Change(e, m, name, "done", name)
      BY <1>3 DEF Rename, Import, NameHost
    <2> QED BY <1>1, <2>1, ChangeInv
  <1>4. ASSUME NEW e \in Editors, NEW m \in Clients, DropHost(e, m)
        PROVE  NamesInv'
    <2>1. /\ Loads(e) /\ given' = [given EXCEPT ![m] = Nothing]
          /\ Change(e, m, Nothing, "done", NoName)
      BY <1>4 DEF DropHost
    <2> QED BY <1>2, <2>1, ChangeInv
  <1>5. ASSUME NEW e \in Editors, NEW m \in Clients, Retype(e, m)
        PROVE  NamesInv'
    <2>1. PICK x : x = IF Entry(e, m) = Nothing THEN NoName ELSE Entry(e, m)
      OBVIOUS
    <2>2. /\ Loads(e) /\ Change(e, m, x, "done", NoName)
          /\ given' = IF editor[e].blind THEN [given EXCEPT ![m] = Nothing] ELSE given
      BY <1>5, <2>1 DEF Retype
    <2>3. e \in InFlight /\ editor[e].copy \in Copies
      <3>1. e \in InFlight
        BY <2>2 DEF Loads, InFlight
      <3> QED BY <3>1, EditFacts DEF NamesInv
    <2>4. x \in EntryNames
      BY <1>2, <2>1, <2>3 DEF Entry, NamesInv, NamesTypeOK
    <2>5. ~editor[e].blind /\ given[m] # Nothing => x = Entry(e, m)
      BY <2>1, <2>3 DEF NamesInv, Given, Entry
    <2>6. \/ given' = [given EXCEPT ![m] = Nothing]
          \/ given' = given /\ (given[m] # Nothing => x = Entry(e, m))
      BY <2>2, <2>5
    <2> QED BY <2>2, <2>4, <2>6, ChangeInv
  <1>6. ASSUME NEW m \in Clients, NEW name \in UserNames \cup {NoName}, EditRow(m, name)
        PROVE  NamesInv'
    <2>1. PICK row : row = [custom |-> name, hostname |-> name]
      OBVIOUS
    <2>2. row \in NameRow
      BY <2>1 DEF NameRow
    <2>3. /\ known' = [known EXCEPT ![m] = row] /\ given' = [given EXCEPT ![m] = Nothing]
          /\ UNCHANGED <<override, inMemory, inUse, editor>>
      BY <1>6, <2>1 DEF EditRow
    <2>4. /\ known' \in [Clients -> NameRow \cup {Nothing}]
          /\ given' \in [Clients -> UserNames \cup {Nothing}]
          /\ \A k \in Clients : given'[k] # Nothing =>
               given'[k] = given[k] /\ given[k] # Nothing /\ known'[k] = known[k]
      BY <2>2, <2>3 DEF NamesInv, NamesTypeOK
    <2>5. \A k \in Clients : given[k] # Nothing => known[k] # Nothing
      BY DEF NamesInv, Given
    <2> QED BY <2>3, <2>4, <2>5, RowsInv
  <1>7. ASSUME NEW m \in Clients, NEW name \in FoundNames \cup {NoName},
               PollerSees(m, name) \/ DrawNames(m, name)
        PROVE  NamesInv'
    <2>1. CASE PollerSees(m, name)
      BY <2>1, UpsertInv DEF PollerSees
    <2>2. CASE DrawNames(m, name)
      <3>1. FirstName(Nickname(m), name) \in UserNames \cup FoundNames \cup {NoName}
        BY DrawnName DEF NamesInv
      <3> QED BY <2>2, <3>1, UpsertInv DEF DrawNames
    <2> QED BY <1>7, <2>1, <2>2
  <1>8. ASSUME NEW m \in Clients, NEW name \in FoundNames, NameFound(m, name)
        PROVE  NamesInv'
    <2>1. PICK r : r = known[m]
      OBVIOUS
    <2>2. r \in NameRow
      BY <1>8, <2>1 DEF NameFound, NamesInv, NamesTypeOK
    <2>3. PICK row : row = [r EXCEPT !.hostname = name]
      OBVIOUS
    <2>4. row \in NameRow /\ row.custom = r.custom
      BY <2>2, <2>3 DEF NameRow
    <2>5. /\ known' = [known EXCEPT ![m] = row]
          /\ UNCHANGED <<override, inMemory, inUse, editor, given>>
      BY <1>8, <2>1, <2>3 DEF NameFound
    <2>6. /\ known' \in [Clients -> NameRow \cup {Nothing}] /\ known'[m] = row
          /\ \A k \in Clients \ {m} : known'[k] = known[k]
      BY <2>4, <2>5 DEF NamesInv, NamesTypeOK
    <2>7. \A k \in Clients : given[k] # Nothing => known[k] # Nothing
      BY DEF NamesInv, Given
    <2>8. row # Nothing
      BY <2>4, NothingElse
    <2> QED BY <2>1, <2>4, <2>5, <2>6, <2>7, <2>8, RowsInv DEF NamesInv, NamesTypeOK
  <1>9. CASE NamesRestart
    <2>1. \A e \in Editors : editor'[e] = Nothing
      BY <1>9 DEF NamesRestart
    <2>2. InFlight' = {}
      BY <2>1 DEF InFlight
    <2>3. inMemory' = [d \in Copies |-> Blank]
      BY <1>9, Zenon DEF NamesRestart
    <2>4. inMemory' \in [Copies -> [Clients -> EntryNames]]
      BY <2>3, BlankType
    <2>5. /\ inUse' = Nothing /\ UNCHANGED <<override, known, given>>
          /\ editor' \in [Editors -> Edit \cup {Nothing}]
      BY <1>9 DEF NamesRestart
    <2>6. \A d \in Copies : d \notin Used'
      BY <2>2, <2>5, NothingElse DEF Used
    <2> QED BY <2>2, <2>4, <2>5, <2>6, FewerInv DEF NamesInv, NamesTypeOK, Given
  <1>10. CASE UNCHANGED nameVars
    BY <1>10, RowsInv DEF nameVars, NamesInv, NamesTypeOK, Given
  <1> QED BY <1>3, <1>4, <1>5, <1>6, <1>7, <1>8, <1>9, <1>10, LoadInv, SaveOtherInv,
             EndRequestInv, ForgetInv DEF NamesNext

\* A given name stays on the map and in the list, for any number of requests at a
\* time, clients, names and dictionaries, restarts included (update_host,
\* load_full_config, save_full_config, upsert_discovered_clients_batch).
THEOREM GivenNamesStay == NamesSpec => []GivenNamesShown
  <1>1. NamesInv => GivenNamesShown
    <2> SUFFICES ASSUME NamesInv, NEW m \in Clients, given[m] # Nothing
                 PROVE  OnMap(m) = given[m] /\ OnList(m) = given[m]
      BY DEF GivenNamesShown
    <2>1. Given(m) /\ given[m] # NoName
      BY NothingElse DEF NamesInv, NamesTypeOK
    <2>2. Dictionary[m] = given[m]
      BY <2>1 DEF Dictionary, Loaded, Given
    <2>3. OnMap(m) = given[m]
      BY <2>1, <2>2 DEF OnMap, Nickname, FirstName
    <2>4. OnList(m) = given[m]
      BY <2>1 DEF OnList, FirstName, Given
    <2> QED BY <2>3, <2>4
  <1> QED BY <1>1, NamesInitInv, NamesStep, PTL DEF NamesSpec

=============================================================================
