\* Two requests at a time on two contents, backups and restores with crashes.
CONSTANTS
  c1 = c1
  c2 = c2
  r1 = r1
  r2 = r2
  t1 = t1
  i1 = i1
  z1 = z1
  Contents <- TwoContents
  Requests <- TwoRequests
  Tokens <- OneToken
  IdemKeys <- OneKey
  Zips <- OneZip
  MaxId = 3
  MaxRequests = 3
  MaxCrashes = 2
  None = None
  Torn = Torn
  Idle = Idle
CHECK_DEADLOCK FALSE
SPECIFICATION Spec
INVARIANTS StoreTypeOK BackupTypeOK RestoredRowHasObject IndexFollowsRows StoredOnce ServesWholeState
PROPERTIES ComesBack KeepsBackupPromise
