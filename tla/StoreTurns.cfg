\* One handler; each kind of trouble; a turn of the host in three of them.
CONSTANTS
  p1 = p1  p2 = p2
  Producers <- OneHandler
  WindowBytes = 2
  WindowRecords = 2
  ControlItems = 1
  Sizes = {1, 3}
  MaxEvents = 2
  Troubles = {"none", "disk", "dirty", "stray", "refuse", "close", "end", "drop", "stop"}
  Prompting = {"none", "disk", "end"}
SPECIFICATION Spec
INVARIANTS TypeOK CreditsExact NextInOrder NothingHeldAtShutdown TurnDrained
CHECK_DEADLOCK FALSE
