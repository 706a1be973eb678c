\* Who waits is woken: a window that is full, a disk that fails, a cancellation.
CONSTANTS
  p1 = p1  p2 = p2
  Producers <- OneHandler
  WindowBytes = 2
  WindowRecords = 1
  ControlItems = 0
  Sizes = {1, 3}
  MaxEvents = 2
  Troubles = {"disk", "stray"}
  Prompting = {"stray"}
SPECIFICATION FairSpec
PROPERTIES ProducersAnswered ReceiverWoken WorkerStops TurnSettles
CHECK_DEADLOCK FALSE
