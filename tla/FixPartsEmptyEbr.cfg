SPECIFICATION Spec
CONSTANTS
  MaxParts = 9
  DiskSize = 8
  Max32 = 31
  Max64 = 127
  Disks <- MCDisks
  GptTables <- MCGptTables
  Faults = 1
  MaxEdits = 1
  MaxSessions = 2
INVARIANT
  EveryLogicalIsWritten
CHECK_DEADLOCK FALSE
