SPECIFICATION RequestsSpec
CONSTANTS
  l1 = l1
  l2 = l2
  cb1 = cb1
  cb2 = cb2
  cb3 = cb3
  r1 = r1
  r2 = r2
  Logins = {l1, l2}
  Callbacks = {cb1, cb2, cb3}
  CallbackOf <- MCCallbackOf
  Requests = {r1, r2}
  Levels = {1, 2}
  Tokens <- MCTokens
  TxnLife = 2
  Lifetime = 3
  IdleTime = 1
  Leeway = 1
  MaxAuthTime = 4
  Absent = Absent
  Clients = {m1}
  Editors = {r1, r2}
  UserNames = {a, b}
  FoundNames = {h}
  NoName = NoName
  Copies = {cb1, cb2, cb3}
  Nothing = Nothing
  Keys = {"interval", "retention", "scanner"}
  StoredKeys = {"interval", "retention"}
  Values = {0, 1}
  Default = 0
  Unloaded = Unloaded
  Subnet = {r1, r2}
  ScannerKey = "scanner"
  Enabled = 1
  MaxScans = 2
  NoHost = NoHost
  BackupNames = {r1, r2}
  Visitors = {r1, r2}
INVARIANTS
  GivenNamesShown
  SettingsKept
  HistoryAgrees
  NoBackupLost
PROPERTIES
  SessionsFollowContract
  ScansAddUp
CHECK_DEADLOCK FALSE
SYMMETRY SameSessions
