SPECIFICATION FairSpec
CONSTANTS
  MaxParts = 9
  DiskSize = 8
  Max32 = 31
  Max64 = 127
  Disks <- MCDisks
  GptTables <- MCGptTables
  Faults = 1
  MaxEdits = 2
  MaxSessions = 2
INVARIANTS
  TypeOK
  SoundTableIsKept
  SavedTableIsReadBack
  LogicalsAreNumberedFromFive
  InterruptedSaveKeepsPrimaries
  InterruptedSaveInventsNothing
PROPERTIES
  SavesSparePartitions
  MenuKeepsTableLegal
  ChainReadingEnds
CHECK_DEADLOCK FALSE
