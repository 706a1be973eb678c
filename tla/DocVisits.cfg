\* Two machines visit each other, edit, crash, lose answers; one world per combination.
CONSTANTS
  a = a  b = b  none = none
  Machine = {a, b}
  None = none
  Chunks = 2
  MaxRecords = 2
  MaxStages = 2
  World <- MCWorld
SPECIFICATION FairSpec
INVARIANTS TypeOK StagesReferenced ReceiptsTruthful
PROPERTIES NoticeBeforeRelease ImplementsDocDelivery Converges
CHECK_DEADLOCK FALSE
