SPECIFICATION Spec
CONSTANTS
  Tables = {blank, a}
  Tears = {x1}
  Blank = blank
  MbrTable = a
  Sizes = {10, 11, 14}
  TableSectors = 3
  Interactive = FALSE
  ShortWrites = FALSE
  OpenMayFail = FALSE
INVARIANTS
  TypeOK
  HeadersAgree
  SuccessIsDurable
  DestroyedMeansGone
  SurvivesOneFault
  RelocatingSaveIsAtomic
  InterruptedSaveIsNoticed
  OneCopyAlwaysGood
PROPERTIES
  MbrIsWrittenLast
  MbrBeforeGptIsGone
  SaveIsAnAtomicUpdate
