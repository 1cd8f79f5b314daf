SPECIFICATION Spec
CONSTANTS
  Sizes = {10, 12}
  Paddings = {0, 2}
  TableSizes = {2}
  EntriesPerSector = 2
  NumGptEntries = 2
  DefaultAlignment = 2
  Word = 64
  Sectors <- AllSectors
PROPERTY SaveIsSafe
