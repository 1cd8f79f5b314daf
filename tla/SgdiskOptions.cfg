SPECIFICATION Spec
CONSTANTS
  Word = 64
  DiskSize = 14
  FirstUsable = 3
  NumParts = 3
  DefaultAlignment = 4
  WipeSectors = 1
  MaxParts = 5
  Max32 = 31
  Max64 = 127
  Disks <- MCDisks
  BackupFiles <- MCBackupFiles
  Starts <- MCStarts
  Ends <- MCEnds
  Alignments = {2}
  Lists <- MCLists
  MaxRuns = 1
  MaxOptions = 3
  Faults = 1
INVARIANTS
  TypeOK
  WipeMatchesTable
  EE_KeepsOff
  HybridMatchesGpt
PROPERTIES
  OnlyWhatWasAskedIsWritten
CHECK_DEADLOCK FALSE
