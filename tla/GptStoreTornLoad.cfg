SPECIFICATION Spec
CONSTANTS
  Tables = {blank, a, b}
  Tears = {x1}
  Blank = blank
  MbrTable = a
  Sizes = {10, 11}
  TableSectors = 3
  Interactive = FALSE
  ShortWrites = FALSE
  OpenMayFail = FALSE
INVARIANTS
  BackupReplacesBadTable
