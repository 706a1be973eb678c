\* Two releases of the same bytes, over an old program or none; two failures.
CONSTANTS
  old = old  rc = rc  stable = stable
  None = None
  Image = {old, rc, stable}
  Holder <- MCHolder
  Offers = {rc, stable}
  Bytes <- Promoted
  Sources = {None, old}
  MaxInstalls = 3
  MaxFailures = 2
SPECIFICATION FairSpec
INVARIANTS SelectedKept FallbackKept OneReservation RolledBackRestored
PROPERTIES LateAnswersIgnored InterruptedSettles
CHECK_DEADLOCK FALSE
