SPECIFICATION Spec
CONSTANTS
  Sizes = {9, 11}
  Paddings = {0, 2}
  TableSizes = {1, 3}
  EntriesPerSector = 2
  NumGptEntries = 2
  DefaultAlignment = 4
  Word = 64
  Sectors <- SmallSectors
INVARIANTS
  TypeOK
  HeadersMirror
  TablesInPlace
  FreeSpaceIsFound
  LargestBlockIsFound
  AlignStaysInBlock
  SpacesTileTheTable
PROPERTIES
  SavedTableIsSound
  LoadedAlignmentFits
  UnmovedSaveIsSafe
  NewPartitionIsFree
