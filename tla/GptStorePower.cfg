SPECIFICATION PowerSpec
CONSTANTS
  Tables = {blank, a}
  Tears = {x1}
  Blank = blank
  MbrTable = a
  Sizes = {10, 14}
  TableSectors = 3
  Interactive = FALSE
  ShortWrites = FALSE
  OpenMayFail = FALSE
INVARIANTS
  SuccessIsDurable
  DestroyedMeansGone
  InterruptedSaveIsNoticed
