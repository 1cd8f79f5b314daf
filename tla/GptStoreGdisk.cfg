SPECIFICATION Spec
CONSTANTS
  Tables = {blank, a}
  Tears = {x1}
  Blank = blank
  MbrTable = a
  Sizes = {10, 11}
  TableSectors = 3
  Interactive = TRUE
  ShortWrites = TRUE
  OpenMayFail = TRUE
INVARIANTS
  InterruptedSaveIsNoticed
