# Switch Dashboard in TLA+

A verification project for the switch dashboard (`src/switch_dashboard`): TLA+
modules translated from the code, TLC configurations that model-check them on
small instances, and theorems proved with TLAPS for all values of the
constants. Paths below are relative to `src/switch_dashboard` unless they begin
with `tests/`, `templates/` or `README.md`, which are at the top of the repository.

Run a model with `tlc -config X.cfg M` and a proof with `tlapm M.tla`, inside
this directory. `PROJECT.json` lists the runs, for every property a mutant of
the code that breaks it, the source lines of each definition, the hazards, the
findings and the theorems.

## 1. The system

The dashboard is one process: a web server whose requests run on threads of
their own, a background thread that polls the switches, routers and access
points, a second one that scans the network, and an SQLite database. Each poll
cycle reads all devices in parallel, adds up the traffic of their ports, and
hands the MAC tables it has collected to the client monitor, which works out
where each client of the network is attached and records its movements. The
components share state through memory guarded by a few locks, and through the
tables of the database, where every operation is a transaction of its own; what
spans two operations is therefore interruptible by other threads, by errors and
by the end of the process.

| Component | State | Operations | Talks to |
| --- | --- | --- | --- |
| Poller cycle (`services/poller_service.py`) | poll lock, stop event, board (`_cached_data`), snapshots in `device_state_cache` | loop, manual poll, stop, warm boot | config, drivers, counters, MAC tables, client monitor |
| Port counters (`poller_service.py`, `storage/repositories/metric_repo.py`) | baselines `_counters`, live, hourly and daily rings; table `counters` | delta of a counter, save, reset, rates, history queries | poller, housekeeper |
| MAC tables (`poller_service.py`, `web/blueprints/dashboard.py`) | `_mac_tables`, time of the last read; table `mac_table` | periodic read, manual refresh, store | poller, client monitor |
| Client pipeline (`services/clients/pipeline.py`, `resolver.py`, `hasher.py`) | hash of each client's last footprint | process one cycle | MAC tables, mobility tracker, device repository |
| Mobility tracker (`services/clients/mobility.py`) | tracked places, transition history; tables `discovered_clients`, `client_connection_history` | hydrate, evaluate a move | pipeline, device repository |
| Client IP history (`storage/repositories/device_repo.py`) | table `client_ip_history` | record one, record a batch | pipeline |
| Client monitor (`services/clients/service.py`, `metrics.py`, `classifier.py`) | bandwidth samples of clients | cycle entry, clean-up at start, views | pipeline, API |
| Metric history (`storage/housekeeper.py`) | tables of raw samples and hourly trends | roll up, purge | metric repository |
| Configuration (`config.py`, `storage/repositories/config_repo.py`, `web/blueprints/config.py`) | cached configuration; device, setting, note and override tables; `config.json` | read, save, add, change, delete, notes, settings | everyone |
| Network scanner (`services/scanner_service.py`, `storage/repositories/scanner_repo.py`) | scan thread; tables of hosts and their history | scan, erase history, note and known flag | configuration, host discovery, vendor lookup |
| Host discovery (`services/host_discovery_service.py`) | cache of names, addresses pending, pool of threads | take a name, queue a lookup, answer | scanner, topology, client rows |
| Authentication (`web/auth.py`) | login transactions and sessions in the database, requests counted per client | begin a login, callback of the OIDC provider, check of a request, log out | every request |
| Topology (`services/topology_service.py`, `web/blueprints/topology.py`) | remembered places of hosts; writes rows of clients | build the graph, name, type, delete a client | poller, configuration, discovery, API |
| Vendor lookup (`services/vendor_service.py`) | cache of vendors, loaded OUI file | look up, reload | pipeline, scanner, topology |
| Backups (`services/backup_service.py`) | plain, temporary and encrypted files | encrypt old files, create, list, delete | drivers |
| Drivers (`protocols/`) | sessions with devices | scrape | poller |
| Storage engine (`storage/engine.py`, migrations) | connection, schema | session, migrate | repositories |

### What is hard about it, and what makes each part correct

* **Cycles and threads.** The poll lock is only *tried* by cycles, and waited
  for by the reset of the counters. A manual poll that finds it taken is dropped
  although the running cycle began with an older configuration; a cycle
  publishes the devices of the configuration it began with. Correct means: cycles
  exclude each other, and in the long run the board
  shows exactly the devices the configuration enables.
* **Counters.** Byte counters wrap at 2^32, restart at zero with their device
  and are reported as zero by drivers that do not reach it; saving may fail; the
  process may end between any two steps; the user may reset. Correct means: a
  total is the traffic of the port, no more and no less, as far as it can be
  known, and it survives.
* **Where a client is.** A MAC address is in the table of every device on its
  path; the tables are read at different times and so disagree; wireless clients
  and guests of virtual machines are reported otherwise. Correct means: with
  consistent tables the leaf port wins and a client that has not moved stays.
* **MAC tables.** Read by a timer, by hand on a request, kept in memory, in rows, on the board and
  in snapshots, each written at another time and any of them able to fail. Correct means: the table
  displayed is in the end the one the switch has.
* **Movements.** A gate on the footprint of the client, hydration from the
  database, debouncing, dampening of clients that bounce, events committed one by
  one and rows in a batch. Correct means: the recorded movements of a client form
  a path, are spaced as configured, agree with where it is tracked, and survive
  errors and restarts without false announcements.
* **Configuration.** A cached dictionary that callers modify in place, saved as
  a whole; devices found by id or by address; notes kept under two keys. Correct
  means: what was saved is what is read, what was deleted stays deleted, and
  what failed to be saved is not used.
* **Metric history.** Trends are rebuilt from raw samples that are purged by a
  cutoff that may fall inside an hour; reading and writing are not one transaction.
  Correct means: no sample is purged uncounted, and trends are complete.
* **The map.** Every device sees every client, on the port towards it. The map
  eliminates what is seen in transit, from tables of different ages and the announcements of
  some devices, remembers hosts and completes clients from their rows. Correct means: it shows the
  cables that are there, and each client once, at its own port.
* **Names.** A name of a client is in the configuration and in its row; requests, poller, map
  and lookups write both. Correct means: what a user gave is shown until a user changes it.
* **Sessions.** Transactions of logins are used once and expire, sessions have an idle and
  an absolute limit, and requests renew a session that others end. Correct means: the contract
  of section 2 (`SessionContract`).
* **Scanner, lookups, backups.** Scans that cannot read what is known, erasure during a scan,
  lookups slower than the cache keeps their answers, files replaced in several steps. Correct means:
  the history of a host agrees with its status, no name is used beyond its time, no address stays pending,
  and no backup is lost.

`PROJECT.json` lists these as hazards, each at the line where it bites, with the
property that would notice.

## 2. The modules

| Module | Models | Extended by |
| --- | --- | --- |
| `EdgeResolver` | the scoring of `resolver.py`, no state | `ClientTracking`, `EdgeResolution` |
| `EdgeResolution` | what the scoring finds out about a network whose tables are read at different times | `MCEdgeResolution`, `EdgeResolutionProofs` |
| `ClientTracking` | pipeline and mobility tracker with their tables | `MCClientTracking`, `ClientTrackingProofs` |
| `ClientIpHistory` | the table of client addresses | `MCClientIpHistory`, `MCRecords`, `RecordsProofs` |
| `MetricRollup` | raw samples and hourly trends of a port | `MCRecords`, `RecordsProofs` |
| `PortCounters` | baselines, totals, live ring of one device | `MCPortCounters`, `PortCountersProofs` |
| `PollCycle` | background thread, manual polls, lock, board, snapshots | `MCPoller`, `PollCycleProofs` |
| `MacTables` | the MAC table of a switch between the device, memory, rows, board and snapshot | `MCPoller`, `PollCycleProofs` |
| `HostDiscovery` | cache of names, addresses pending, pool of threads | `MCPoller`, `RequestProofs` |
| `ConfigStore` | devices, credentials and notes in tables, in the cached dictionary and in `config.json` | `MCConfigStore`, `ConfigStoreProofs` |
| `Preferences` | settings, with and without a row | `Scanner` |
| `Scanner` | scan thread, hosts and their history, obeying `Preferences` | `MCRequests`, `RequestProofs` |
| `ClientNames` | the names of clients, in overrides and rows | `MCRequests`, `RequestProofs` |
| `Sessions` | logins, callbacks, sessions and requests | `MCSessions`, `RequestProofs` |
| `SessionContract` | the abstract specification that `Sessions` implements | instance in `Sessions` |
| `Backups` | backup files and the requests that build the service | `MCRequests`, `RequestProofs` |
| `Topology` | the construction of the map | `NetworkMap`, `NetworkMapProofs` |
| `NetworkMap` | a network with stations and tables, whose map `Topology` draws | `MCNetworkMap`, `NetworkMapProofs` |

`MCRecords`, `MCPoller` and `MCRequests` put parts that share nothing into one run: the first
state chooses the part that moves, or the first step does, and the others stand still. Nothing is lost
by that, since no step of one reads or writes a variable of another. The scanner is an exception, since it reads a
setting: `MCRequests` runs the settings by themselves, with all their steps, and the scanner with requests for that
setting only; the theorems are about both together with no such limit.

The `MC...` modules give the constants small values; the `...Proofs` modules
hold theorems and the lemmas they rest on. Definitions whose comment begins with
*Mutant* are deliberately wrong variants of the definition after them: they are
used by no specification, only by the mutants of `PROJECT.json`.

### ClientTracking

State in memory, lost by a restart: `loc` (`_locations`), `lastHash`
(`_last_footprint_hashes`), `history` (`_transition_history`), `warmed`. In the
database: `rows` (`discovered_clients`) and `events`
(`client_connection_history`). A cycle is a sequence of steps: `StartCycle` takes
the timestamp and the report of the devices and hydrates the tracked places on
the first cycle; `HandleClient(m)` is the body of the loop over the clients,
with one action per way through gate and `evaluate_mobility` (`KeepUnchanged`,
`Connect`, `SameEdge`, `Dampen`, `Roam`, `HoldBack`) and `EventWriteFails` for an
event that cannot be written, which abandons the cycle; `WriteBatch` is the
transaction at its end. `DeleteClient` is the request of the API and `Restart`
may happen between any two steps; it includes the clean-up of the events when the
monitor is built, either statement of which may fail. `MapView` is the row that
drawing the network map leaves behind, without an event.

Footprints are sets of places: the hash of the code, over the sorted items of
a dictionary, tells exactly these apart. A sighting keeps what the scoring looks
at. Names, VLANs, vendors and bandwidth are left out.

Assumption: each cycle has a later timestamp than the one before. The loop waits
at least five seconds between two cycles and a manual poll is a cycle of its own
under the same lock; a clock set back is not modelled.

### EdgeResolver and EdgeResolution

`EdgeResolver` translates `score_sighting` and the stable sort of `resolve_edge`.
Whether these weights (a bonus of 350 for the tracked place, a penalty of 500 for
a trunk, up to 500 for a port with few addresses) find the right port is a
question about networks, not about the code alone, and `EdgeResolution` asks it:
clients move in a tree of devices, tables are read one device at a time, the
neighbours are announced or not, and the client is resolved at any moment, with
the devices in any of several orders. The gate and the dampening are left out
here: what `EdgeResolution` says of a resolution holds whenever one takes place.

### ClientIpHistory

The two functions of the repository that write the table, on any observations.
`latest` remembers the last address observed, to state what is expected.

### MetricRollup

The table of raw samples (`raw`), that of trends (`trends`) and what a run of the
housekeeper has read so far (`work`). A trend is the set of samples it was computed from: count,
average, maximum and minimum are functions of it. A run is `Collect`, one `LookUp` for each hour,
and `Store`, the transaction in which samples and trends expire and new and changed trends are written;
cycles (`Record`), resets and failures (`GiveUp`, which is also the end of the process) come
between any two of them. Retentions may differ from run to run, since they are settings.
`recorded`, `done` and `horizon` remember what was recorded since the last reset, how far it was rolled up, and
up to where something may have been purged; no guard reads them.

Assumptions: a cycle does not take two hours, and samples are kept at least two hours
(`history_retention_days` of zero would purge samples before they are rolled up).

Two things the model shows that the properties leave room for: of the hour in which the retention
of the samples ends, the next run replaces the complete trend by one of the samples that are
left, since the cutoff falls inside the hour; and a reset between reading and writing is followed by
the trends of the samples it deleted. No view of the dashboard reads the trends yet.

### PortCounters

One device with its ports, one direction (tx and rx are handled alike).
`Carry` and `Reboot` are the device; `StartPoll`, `PollDevice` or `PollNothing`,
`SaveCounters` or `SaveFails` are the parts of a cycle in the order of the code;
`Reset` and `Restart` may come between cycles and at any time. To tell whether a
total is right, each total carries what an observer of the port knows of it:
how much the port had carried when counting began (`origin`) and when the sample
was taken (`at`), the boot of the device (`epoch`), and whether every reading since
counting began came from the device (`sound`) and left no doubt about wraps and
limits (`exact`). No guard reads these.

`Limits` stands for the limit the code computes from link speed and time.
Ports appear under the name the driver reports; the tables use
`Canonical[name] = normalize_port(name)`.

### PollCycle

A device is on the board or it is not. The lock has a holder: the loop, the
thread of a manual poll, or a reset. A cycle prunes the board, polls the devices in any order,
saves snapshots and publishes; `GiveUp` is `stop()` during a cycle. `ConfigRead`
is the cached configuration: a save invalidates it, and if the database cannot be
read the defaults, without devices, are used. `Restart` fills the board from the
snapshots.

Assumption: settings are numbers, and credentials can be decrypted. The loop calls `get_config()` and reads
`refresh_interval` outside its `try`. `POST /api/settings` stores what it is given, and a value that is not a
number ends the polling thread; so does the `CryptoConfigurationError` that `get_config()` passes on when the key
is missing or wrong. `EnabledAppears` fails for such a loop (its mutant `LoopPassesForGood`).

### MacTables

One switch that is enabled and whose driver can read MAC tables (others report theirs with
each poll). Its table is in the device (`actual`), in the memory of the poller (`_mac_tables`), in the
table `mac_table`, on the board and in its snapshot. A cycle takes the time once (`BeginPoll`), reads the table if
the timer has run out or there is none, stores it and puts what memory holds on the board; `refresh_mac`
reads it and changes the board only, in two steps, because reading takes time. Failures are those of the
driver, the device, the reading, the storing (with the merge that follows a failed deletion) and the stored copy.
A table of the board that is empty is replaced by the rows when it is displayed, as the dashboard and the map do.

The board does go back: the next cycle puts the table of the poller over the one that a refresh has just
read. `TableCatchesUp` says that this never lasts, nor does anything else that brings back an older table. Its mutant
lets a refresh reset the timer of the poller: then users who refresh often keep the old table in memory for ever.

### ConfigStore

`rows`, `secrets` and `notes` are the tables of devices, credentials and port
notes; `file` is `config.json`, `cache` is `_cached_config`. One action per
request that changes the configuration (`Add`, `Update`, `Delete`, `SavePage`, `SetNote`,
`ClearNote`), one for all those that change something else and save everything
(`SaveOther`), the first use of the dictionary (`Load`) and `Restart`. Every request
but those on notes ends in `Save`: the transaction of `save_full_config` (`Stores`),
the export and the reset of the cache, with the ways in which they fail. Where the outcome depends on
the order in which devices are written, `LastWrites` allows every order.

Two variables are of the model only. `unsaved` holds the ids whose devices in
the dictionary come from a request that was refused or not saved; `asked` holds what the latest
request was about. No guard reads either.

One request is handled at a time. Old, unencrypted credentials are left out; settings are in
`Preferences`, and overrides of clients, with requests that overlap, in `ClientNames`.

What the model shows of the code, besides the properties, and without a document that
says otherwise, except for the notes:

* an update that names its device by the address gives it the address as id: the row is
  found by the address, written, and then deleted, since no device has its id any more;
* an existing row keeps its address whatever the request says (`Written`);
* a request that cannot read the configuration works on the defaults; if it can save,
  all devices and credentials are deleted;
* a note removed by its plain key comes back from its alias `Port n`
  (`templates/api_docs.html` says that an empty text deletes the note);
* a database without devices, for example after the last one was deleted, takes those of
  `config.json` if the export of the deletion failed.

### Preferences and Scanner

`Preferences` is the dictionary in use as the settings see it: a request changes it in
place (`AskFor`) and then is refused (`RefusePrefs`), saves it (`SavePrefs`) or
fails to (`SavePrefsFails`). `Keys` are those of the dictionary and of the settings in it; a request of the model
changes one, the page several at once. Only some keys have a row; what has none lives until the
dictionary is dropped. The rows of `proxmox_nodes`, `unifi_nodes`, `custom_vendors` and
`ignored_macs` are written only if the dictionary has these keys (`config_repo.py:236-245`); they are left out.

A request that cannot read the database gets the defaults (`config.py:177-181`), which nobody else sees, changes
those (`blind`) and may save them: then the defaults are in the rows of all the other keys. Nor does a row last when there
are no devices: `load_config` then replaces the rows by those of `config.json`, if that has devices
(`TakesFile`; `devices` says which of the two lists any, and a request may leave it either way). Whether the
file is older than the rows depends on which exports failed.

`wanted` remembers what was saved last. It forgets the value of a key when a request for it is refused or fails,
after which either value may be in use; those of all other keys when a blind request is saved; and those of all keys with
a row when `config.json` replaces the rows. `SettingsKept` is about the values that are remembered: what a user saved is in use
until one of these happens to it.

One request is handled at a time. The server has several threads, and requests that overlap change one dictionary or write
an old one back; `ClientNames` models this for the entries of clients, where it matters most.

`Scanner` extends `Preferences`: the thread reads the dictionary before each scan and does not scan while
it gets the defaults, in which the scanner is off. It asks the subnet
(`HostsAnswer`), loads the known hosts (`LoadHosts`, blindly if the table cannot be
read) and updates them in one transaction (`UpdateHosts`). Requests erase history at any
time (`EraseHistory`); `ScannerDies` is an error outside any handler. The model shows that a blind
scan loses the time each host that answers was first seen and records its coming again,
and that a thread that died stays dead until the process restarts.

### ClientNames

`override` is the table of overrides, `known` the row of a client, `inMemory` the
dictionaries that requests hold, of which `inUse` is the cached one. A request loads a dictionary
(`Load`), changes an entry and saves all of them (`Rename`, `Import`, `NameHost`, `DropHost`, `Retype`,
`Forget`, `SaveOther`) and then writes the row (`EndRequest`); requests overlap. Poller, map and lookups write
discovered names (`PollerSees`, `DrawNames`, `NameFound`). `given` remembers a name from a request that
no other one overlapped. The model shows what the property leaves room for:

* of two requests that overlap, the later one writes the entries of the earlier dictionary back, and a
  name that was given in between is lost;
* the entry of a deleted client stays in its table and its old nickname returns;
* a name edited in the list of clients is not shown on the map while there is an override.

### HostDiscovery

Drawing a map takes names from the cache (`TakeName`) or queues lookups (`QueueLookup`);
threads answer, store and release (`BeginLookup`, `Answer`, `StoreName`, `EndLookup`). `answered` and
`served` are of the model only: the time of the answer, and the age of the last name taken.

### Sessions and SessionContract

A login (`Login`) leaves a transaction; its callback reads it, deletes it and redeems the code in
steps of their own (`ReadTransaction`, `DeleteTransaction`, `Issue` or `ExchangeFails`), so that two callbacks may
have read one transaction; that the provider redeems a code once is external. A request looks its
session up (`Look`), renews it (`Renew`) and may log out (`Leave`), and each of these is a transaction.
`Tokens` are the ID tokens the provider may answer with, with the claims the code checks, except `iat`, the time of
issue: without it the model accepts more tokens than the code.

`SessionContract` is what this amounts to, in one record per login: it opens at most one session,
which admits up to its level, never after its lifetime nor after the idle time, and once ended
does not come back. `Sessions` implements it with the refinement mapping `SessionState`: a row is an
open session; a login without one has ended if a callback issued it, and is unopened otherwise.

Assumption: a request takes less than a unit of time, so the clock waits for it.
The model would otherwise let a request in that was valid when it was looked up and not a moment later.

### Backups

The first request builds the service, which encrypts the plain files of older versions one
by one: read, create the temporary file (`O_EXCL`), write it, replace, remove. Nothing keeps two requests
from doing so at once, and `BackupsCrash` may come between any two steps. `kept` are the backups that were
made and not deleted. The model shows that a temporary file left by a crash makes every later construction fail
until someone removes it.

`DeleteBackup` takes the encrypted files, which are what the page lists; the request accepts the name of any file
of the directory, so that a user who knows the name may delete a plain or temporary one as well.

### Topology and NetworkMap

`Topology` translates `build_topology`: roles and root, the ports where devices see each other, announcements,
transit elimination and the choice of a port on both sides, uplinks of the configuration, hosts with
their remembered places (`hostLink`), access points, phones, unmanaged switches, the leaf ports of
clients, the stored places of silent ones, guests, and the rows that are written in the end. `Draw` is
one step: one drawing reads its inputs once. The map is drawn although the rows cannot be read, and then as if there
were none (`RowsRead`, lines 101-105), and although they cannot be written, one transaction for all of them, and then they
stay as they were (lines 1371-1374). That the configuration can be read is assumed. Sets of links stand for the lists of the code; where
the order of a list decides, devices are numbered in the order of the configuration.

A link of the code holds the label of a port. Where the code looks for a port among those of the links, it compares
names with labels, normalised (`core/ports.py`). For most ports the two agree; a VLAN `vlan03` has the label `VLAN 3`, which
is the name of no port, so that its cable is not found (`Relabelled`; `VlanPorts` are these ports). On a device that is no router, a
cable in such a port therefore does not keep a host off it, nor does it count as a trunk.

`NetworkMap` supplies networks. The devices are cabled as a tree and learn, on each port, what is behind it;
stations are silent, plugged in or move; the poller reads one table at a time; devices are hidden and shown. `UpToDate` says that
the map was drawn from the tables of the network as it is. What it shows, besides the properties:

* a client on a device that is hidden appears at the port of a neighbour towards it, since nobody knows
  that this port is a trunk;
* an unmanaged switch below a hidden device stays on the map;
* a host may be drawn on the VLAN port of a switch that the same map uses for a cable, and a client of the root, which
  is no leaf elsewhere but on such a port, at the wrong end of it. `HostsOffTrunks` and `ClientsAtTheirPort` name
  these exceptions; from tables that are read, a host plugged into a switch is at its own port even so;
* a silent client vanishes from a map that could not read the rows, and returns with the next; its row stays. If its row
  cannot be written it is shown offline while the row says online.

## 3. What is checked

| Run | Instance | Shows |
| --- | --- | --- |
| `ClientTracking_sightings` | one client, five devices, sightings on a wire, a radio, without a port and in another case of the port name, one trunk, five time steps | `PathConnected`, `LocationIsReported`, `AnnouncedFirst`, `NoRevisit`, `RoamBudget`, `RowExplained` |
| `ClientTracking_debounce` | one client, two places | violation of `DebouncedRoamAccepted` |
| `Records` | addresses: two clients, three addresses, batches of two; samples: eight points in time, hours of two, two retentions; counters: one port, counter modulo 8, one boot, nine bytes | `LatestIsActive`, `NewAddressRetiresOthers`; `TrendsComplete`, `CountedBeforePurged`; `MemoryMatchesStore`, `NothingInvented`, `NothingLost`, `RateIsTraffic`, `ResetIsFinal`, `TotalsPersist` |
| `ClientIpHistory_oneactive` | one client, two addresses | violation of `OneActiveAddress` |
| `PortCounters_eth0` | a port stored under another name | violation of `TotalsPersist` |
| `PortCounters_reboot` | a boot of the device | violation of `TrafficNotInvented` |
| `Poller` | cycles: two devices, one restart; resolver: core switch, access switch, access point, virtualisation host, two clients; lookups: two addresses, one thread, a TTL of two, five points in time; MAC tables: no entry, or one of two, a period of one unit | `CyclesExclusive`, `TargetsStayShown`, `DisabledDisappears`, `EnabledAppears`; `TableCatchesUp`; `LeafFound`, `NoGhostMove`; `PendingIsWork`, `NamesAreFresh`, `LookupsEnd` |
| `ConfigStore` | two ids, two addresses, one of which also serves as id, one credential, one note, one failure or refusal | `CacheExplained`, `RequestsStayLocal`, `CredentialsKept` |
| `ConfigStore_notes` | the same with two texts of the note | violation of `NotesPersist` |
| `NetworkMap` | every tree of four devices with the router anywhere, one cable in a VLAN port and neighbours announced by none, one or all; rows that cannot be read or written; small offices with an access point, a repeater, a phone, a host, unmanaged switches, a cluster with a guest and two clients | `CablesDrawn`, `ClientsAtTheirPort`, `HostsOffTrunks`, `HiddenWithDevice`, `SilentStay` |
| `Requests` | sessions: two logins, three callbacks, two requests, two levels, five points in time; names: one client, two requests at a time, two given and one found name; settings: three keys, two of them with a row, two values, requests that read blindly; scanner: two addresses, two scans; backups: two files, two requests | `SessionsFollowContract`; `GivenNamesShown`; `SettingsKept`, `HistoryAgrees`, `ScansAddUp`; `NoBackupLost` |
| `Preferences_layout` | one key with a row and one without | violation of `LayoutKept` |

Type invariants are not among the runs' properties: for the modules with proofs they are theorems (section 4), as a
part of the inductive invariants.

**Bounds.** In `ClientTracking` the clock is bounded by `MaxTime`; five steps are
enough for the first connection, three roams and a fourth move inside or outside
the window. `Debounce` is 1 in this run, so that debouncing refuses nothing; a refused move is what run
`ClientTracking_debounce` is about, and the theorems hold for every window. Clients do not
share state except through the density of a port, which `EdgeResolution` covers with
two clients; therefore one client suffices here. Five devices are needed so that a client can
leave three places, stay on the fourth and move on to a fifth; three of them are alike (symmetry), which leaves 2.3
million states. The clock ends the behaviours: this run, like those of the map and of requests, whose
callbacks, scans or time run out, says `CHECK_DEADLOCK FALSE`.

In `PortCounters` the counter
wraps at eight, `Half` is four, so that wraps, falls below and above the threshold
and bursts over the limit all occur in nine bytes; `MaxCum` only cuts off what a
mistaken wrap adds without end. Eight points in time of `MetricRollup` are four hours of which the first is rolled up,
purged in part and expires. `Records` has 2.4 million states, most of them of the counters.

`PollCycle` is complete for two devices: the only
bound is the number of restarts, two of which would add nothing to the
board but the snapshots that one already brings back. One thread makes the queue of
`HostDiscovery` fill; a lookup may take longer than the TTL. In `MacTables` any number of cycles, requests
and failures goes by within one unit of time, so that a period of one unit is as long as any; two
tables that are not empty tell an older one from a newer one, and the third is the empty one that the code
treats as none.

In `ConfigStore` devices and
requests may collide in id and in address, and the contents tell who wrote a row. After the
one fault any number of requests follows, which is what its traces in the
dictionary need to spread. `asked` describes the latest step only and no action reads it; `MCView`
leaves it out of the states.

Transit elimination is about a device between two others, and a device and its neighbours, so four devices
in every tree shape and numbering meet all its cases; the order of the configuration matters, so devices are
no symmetry set. The offices are few and chosen, one for each way a station is attached: the other properties
are as good as this list.

In `Requests` three callbacks are two for one login and one for the other, so that a
transaction is read twice; sessions last three units, idle ones one, and five points in time let
both limits pass. Two requests are enough for every order of reading, renewing and ending. Names need a dictionary for each request and
one in use. The part of the settings is complete: it has no bound but the keys and values. The scanner obeys one of them,
and there requests ask for no other. The run has a million states.

**Fairness.** In `PollCycle`, weak fairness for the steps of a running cycle,
of the loop and of a reset: every scrape has a timeout, the statements of the
database end, the threads are scheduled. Strong fairness for beginning a cycle with the
configuration that is stored: the loop tries the lock again and again, and the
database does not fail at every attempt. After `stop()` the process is
started again. Users do not reset the counters for ever: the loop only tries
the lock, and if every try fell into a reset no cycle would ever start.

In `HostDiscovery`, weak fairness for beginning a lookup and for the steps of each lookup: a
free thread takes from the queue, and the resolver has a timeout. Nothing is assumed of
the requests. In `MacTables`, weak fairness for the steps of the cycle (which `EnabledAppears` grounds), for
the end of a refresh and for time; and failures and restarts end some day (`TroubleEnds`), since
nothing is displayed of a switch that never answers.
`MCPoller` asks for the fairness of the cycles and of the table in the behaviours that are theirs.

**Findings.** The six violations are disagreements between the code and what the
repository says of it, with the quotations in `PROJECT.json`:

* a move that was debounced is never accepted later while the client stays,
  because the gate has stored its footprint (`pipeline.py:238`);
* a client that returns to an earlier address has two active addresses
  (`device_repo.py:506`);
* the total of a port named `eth0` is lost by a restart: it is stored as port `0`
  and looked up as `eth0` (`poller_service.py:294`, `metric_repo.py:62`);
* a reboot of a device whose counter stood above 2 * 10^9 is taken for a wrap and
  adds bytes that were never carried (`poller_service.py:63`);
* a note that was attached is undone by the next save of the configuration, which writes the
  cached notes over the table (`config_repo.py:412`);
* a layout of the map, said to be saved directly to `config.json` (`README.md:81`), is gone as soon as the
  configuration is read again: it has no row (`config_repo.py:234`), and the file is not read.

## 4. What is proved

For all values of the constants that satisfy the named assumptions of the modules
(`PortsAssumption`, `TrackingAssumption`, `NetworkAssumption`, `IpAssumption`, `CounterAssumption`,
`PollAssumption`, `MacAssumption`, `ConfigAssumption`, `RollupAssumption`, `PreferencesAssumption`,
`ScannerAssumption`, `SessionsAssumption`, `DiscoveryAssumption`, `NamesAssumption`,
`ThingsAssumption`, `ScenesAssumption`, `CablesAssumption`, `StationsAssumption`), TLAPS checks what
follows. Most assumptions give constants their types. Those that say more are about what is outside
the program, or about a bound of the model, and TLC evaluates each on the instance of a run:

* `TrackingAssumption` and `NamesAssumption` have finitely many clients and requests, and more
  dictionaries than requests that may hold one, so that reading the configuration always finds a
  free one.
* `ThingsAssumption` tells devices, clients and the other things on the map apart by their
  addresses.
* `CablesAssumption`: the cables of devices form no loop, each is in a port of its own
  (`CabledAsTree`); the devices' addresses are known, and at most one is a router (`Addressed`); an
  uplink that the user configured is where a cable is (`TrueUplinks`). Without these the map is
  drawn from tables that contradict each other, or from a false configuration, and nothing can be
  promised of it.
* `StationsAssumption`: the ports that clients use are not used for cables or hosts (`PortsApart`);
  access points and phones with a configured place are there (`TruePlaces`). `HiddenWithDevice`, `SilentStay` and
  the first half of `HostsOffTrunks` need neither of the two; its second half, where a host is drawn
  from tables that are read, needs `CablesAssumption`.

* **ClientTrackingProofs**: `TypeOK`, `PathConnected`, `RoamsSpaced`, `NoRevisit`, `RoamBudget`,
  `AnnouncedFirst`, `LocationIsReported`, `RowExplained`. Only the first is inductive. The invariant
  `TrackingInv` adds `ClockInv` (events lie in the past; a client still to be handled has no event
  of this cycle), `LatestInv` (the tracked place is where the latest event of this life of the
  process arrived, and `roamed` its time) and `HistoryInv` (the transition history holds the
  departure of every roam that may still count). A step that records an event appends one later than
  all others (`LifeAppended`); `ConnectStep` and `RoamStep` extend path and spacing by it, the other
  steps leave the events of this life alone (`QuietStep`), and a restart begins a new life without
  events. `RoamBudget` rests on `ThreeElements`: three departures in the window are three elements
  of the history. `RowExplained` follows from `BatchInv`: rows are collected within a cycle only,
  and the tracked place of a client does not change between its verdict and the batch. Two theorems
  say what the resolver and the violation `DebouncedRoamAccepted` leave open. `EdgesAreResolved`:
  every client that a cycle handles has exactly one edge (`OneEdge`: among the sightings of the best
  score there is a first). `MovesAreAccepted`: a client resolved to a new place is moved unless the
  move is flapping, or too early, or the gate on the footprint stops it, so the gate is the only
  culprit of that violation.
* **EdgeResolutionProofs**: `TypeOK`, `LeafFound`, `NoGhostMove`, for any tree of devices, any
  number of clients and any order. With fresh tables a trunk is seen by at least the clients the
  leaf port has (`TrunkIsDenser`), so that the density of the trunk scores no higher
  (`DensityOrder`), and the bonus, smaller than the penalty, does not turn the balance
  (`LeafBeatsTrunk`).
* **RecordsProofs**: for `ClientIpHistory` its type and the two properties of the run `Records`,
  directly inductive after lemmas about the two operations on a row; and `OnlyReturnsAddActive`,
  that a second active address comes only from a return to an earlier one, so that the violation
  `OneActiveAddress` has no other cause. For `MetricRollup`: `RollupTypeOK`, `TrendsComplete`,
  `CountedBeforePurged`. `RollupInv` adds that only samples before the horizon are gone (`RawKept`),
  that cycles do not reach back to what has been rolled up (`RunPast`), and that a run has summed up
  every old sample that is still there, and found the trend that is still there (`ReadCurrent`): a
  reset in between leaves no old samples, so that the claim becomes empty instead of false.
* **PortCountersProofs**: `TypeOK`, `NothingInvented`, `NothingLost` (for counters that wrap at
  2^32), `RateIsTraffic` (for the same), `ResetIsFinal`, `MemoryMatchesStore` and `TotalsPersist`,
  all but the first for ports reported under their canonical names; the run `PortCounters_eth0`
  shows that this assumption is needed. The invariant `TotalsInv` says that baselines mirror the
  table, that updates exist only while they are about to be saved, and that each total, wherever it
  is, *describes* the port: its `bytes` and the counter differ, modulo the width, by what has been
  carried since, if the device has not booted. For the rate, `RatesInv` carries the same over to
  both samples of the ring: both count from one point in time, or both began to count anew
  (`Chained`), and the later one is what the next save will store (`LatestFits`), whether an earlier
  save failed or not.
* **PollCycleProofs**: `PollTypeOK`, `CyclesExclusive`, `TargetsStayShown`, `OnlyTargetsAppear`, and
  `MacTypeOK` of `MacTables`, for any tables and period. `CycleInv` adds that nothing is left of a
  cycle between cycles and that every target has an entry or a worker until the process is told to
  stop. The safety halves of the liveness properties of both modules are theorems: what has come about stays.
  `GoneStaysOff` and `ShownStaysOn` are invariants that hold from a state on (`Off`, `On`): no cycle
  of an older configuration is left that could bring a device back, or would not know of it.
  `ShownTableStays` does the same for MAC tables with `CopiesAgree`: every copy on its way is the
  table of the switch or none, so that no fallback and no restart displays an older one.
* **ConfigStoreProofs**: `TypeOK`, `CacheExplained`, `RequestsStayLocal`, `CredentialsKept`, for any
  devices, contents and requests. `ConfigInv` adds `AddressesUnique` (no two rows have one address,
  so that what is found by address is one row) and `UnsavedCovered` (the rows found for a device in
  `unsaved` are in `unsaved` too, so that saving it later overwrites nothing else). `RowsStored` and
  `SecretsStored` say what a save leaves in a row, whatever the order of the writes; a request is
  then a dictionary handed to `Save` or kept unsaved (`Handles`), and each action is shown to be
  one.
* **NetworkMapProofs**, for any tree of devices and any stations: `CablesDrawn`,
  `ClientsAtTheirPort`, `HostsOffTrunks`, `HiddenWithDevice`, `SilentStay`. `HiddenWithDevice` and the first half of
  `HostsOffTrunks` hold of `Draw` however old the tables are; that a host is at its own port
  (`HostAtItsPort`) follows because it is learned elsewhere only at ports behind which there is another device;
  `SilentStay` from `SilentShown`, what a drawing makes of a row it may not have read, and what it then writes. For
  the first two:
  * What is behind a port, and what is cabled together, are least closed sets (`BeyondIn`,
    `Component`), so that lemmas about trees need no induction: one names a set that is closed
    (`BranchesApart`, `ComponentBeyond`).
  * `SceneInv`: configuration and neighbours are those of the network. `Known` adds that the tables
    are read, `Complete` that no device is hidden that has two cables.
  * `SeesToward`, `SeesNothing`: a device sees another at the port towards it, and only there.
    Hence, if two devices see each other and no third one is seen in between, there is a cable
    (`DirectIsCabled`, by `BehindSwitch`), and each cable is found (`CabledIsFound`), by tables,
    announcement or configuration.
  * `Plugged`, `HostsApart`: stations are where the network has them, and no host was learned or
    remembered at a port of a client. The port of a client is then a leaf (`PortIsLeaf`), also on
    the router and on a device without cables (`RootTrunk`), and what is plugged in between is the
    same in the map and in the network (`HangsThere`).
* **RequestProofs**, for the parts requests work on:
  * `SettingsKept`: `PrefsInv` adds that a request in progress has put its value in use unless it is blind
    (`AskedIsInUse`), and that what was saved last has its row and is in use but for that value
    (`SavedHasRow`).
  * `HistoryAgrees` and `ScansAddUp`, of scanner and settings together: `LoadedAgrees` says that
    what a scan has loaded is still in the table when it writes, since only the scanner writes it;
    `OneHostUpdated` goes through the cases of one address.
  * `NoBackupLost`: a temporary file has one writer (`OneWriter`, which is what `O_EXCL` gives), so
    it is complete when it replaces the encrypted one, and the plain file goes only after that
    (`DoneBeforeRemoved`).
  * `SessionsFollowContract`, the refinement: `IssuedOnce` says that a session has a callback that
    issued it and whose code was redeemed, so that it was unopened before; `ReadHolds` that what a
    request has read still holds unless the session has ended. Every step is then shown to be a step
    of the contract or to leave it alone.
  * `NamesAreFresh`: no entry is stamped later than its answer (`StampedEarly`).
  * `PendingIsWork`: `OnceEach` says that no address is queued or looked up twice, nor both, so that
    the numbers add up.
  * `GivenNamesShown`: a given name is in both tables and in every dictionary that may be written
    back, and no request has still to write the row (`Given`); a request that is alone is the only
    one in progress (`LonersUndisturbed`), so that what it saved stands until the row is written.

**Only model-checked.** The four liveness properties `DisabledDisappears`, `EnabledAppears`,
`TableCatchesUp` and `LookupsEnd`: temporal properties under fairness, and `ENABLED`, are beyond
this prover. Every invariant and every action property of the passing runs is a theorem. Induction
over data is out of reach as well, for which the models are written without need of it: what is
behind a port is a least closed set, and choices are least elements of sets.

## 5. Not modelled, and why

* **Drivers**: parsing of web pages, SNMP tables and shell output, and network
  I/O. What the core sees of them (a reading, zeros, an exception) is an input. They are more than a quarter
  of the code.
* **Storage engine and migrations**: sessions are transactions; every module takes
  that for granted. The import of the old JSON files happens once.
* **Secrets, address checks, logs**: library calls and reading of files.
* **Vendor lookup**: two caches filled once from text files; no state that anything depends on.
* **Classifier, client metrics, views**: a table of patterns, arithmetic over two readings, formatting of rows.
* **Of modelled parts**: the rate limit, audit events, key set and headers of the web interface; port scans and
  their timer; what an encrypted file that does not decrypt to its source does, which would be a fault of the cipher; the
  hourly and daily rings; requests that overlap on the list of devices or on settings. The last two are planned.

## 6. Plan

In the order of importance; what is done is marked.

1. `ClientTracking`, `EdgeResolver`, `EdgeResolution`, `ClientIpHistory` with proofs (done).
2. `PortCounters`, `PollCycle`, `MetricRollup`, `ConfigStore` with proofs (done).
3. `Topology` and `NetworkMap` with proofs (done). Left: what the map shows when a device with two cables is hidden.
4. `Sessions` with its contract and the proof of the refinement (done).
5. `Preferences`, `Scanner`, `Backups`, `HostDiscovery` and `ClientNames` with proofs (done).
6. `MacTables` (done). Left: composed with `ClientTracking` to drop the abstraction of `EdgeResolution` and to
   add the gate to it.
7. An abstract store, in which a read returns the last successful save,
   that `ConfigStore` implements as long as nothing fails; requests that overlap on devices and settings.
8. The purge of connection events and client trends, and the queries of the API with their fallback on the
   rings in memory.
