SPECIFICATION FairSpec
CONSTANTS
  Snapshots = {"s1", "s2"}
  Restores = {"r1", "r2"}
  Folders = {"f"}
  MaxMoves = 2
  None = None
INVARIANTS
  BackupTypeOK
  
  SnapshotsAreWhole
  RestoredFoldersAreComplete

  
CHECK_DEADLOCK FALSE
