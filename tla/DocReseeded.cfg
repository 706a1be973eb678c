\* Both machines go on to a new epoch with a plan of the old one open.
CONSTANTS
  a = a  b = b  none = none
  Machine = {a, b}
  None = none
  Chunks = 2
  MaxRecords = 2
  MaxStages = 2
  World <- MCReseeded
SPECIFICATION FairSpec
PROPERTIES ReseededConverges
CHECK_DEADLOCK FALSE
