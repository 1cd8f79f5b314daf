SPECIFICATION Spec
CONSTANTS
  Sizes = {10, 12}
  Paddings = {0}
  TableSizes = {1, 3}
  EntriesPerSector = 2
  NumGptEntries = 2
  DefaultAlignment = 2
  Word = 64
  Sectors <- SmallSectors
PROPERTY ResizeKeepsPartitions
