SPECIFICATION Spec
CONSTANTS
  d1 = d1
  d2 = d2
  t1 = t1
  t2 = t2
  Paths <- TwoDbs
  Files <- TwoFiles
  Catalogs = {d2}
  Histories <- Homes
  BACKUP_KEEP_COUNT = 1
  MaxRuns = 2
  MaxTrouble = 2
INVARIANTS
  HomeInv
PROPERTIES
  RewritesBackedUp
  AgentsUntouched
  SyncedIsSynced
  SecondSyncIdle
  FilesRestored
