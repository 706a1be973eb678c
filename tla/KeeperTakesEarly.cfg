\* One release over nothing or an old program, nothing fails.
CONSTANTS
  old = old  rc = rc  stable = stable
  None = None
  Image = {old, rc, stable}
  Holder <- MCHolder
  Offers = {rc, stable}
  Bytes <- Promoted
  Sources = {None, old}
  MaxInstalls = 1
  MaxFailures = 0
SPECIFICATION Spec
PROPERTY KeeperTakesCompleted
CHECK_DEADLOCK FALSE
