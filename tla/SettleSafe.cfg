\* Two pairings, one crash, and either a row edit or another change of trust.  One edit
\* is as many ops as a settlement has, so it can reach a saved version.
CONSTANTS
  r1 = r1  r2 = r2  none = none
  o1 = o1  o2 = o2  p1 = p1  p2 = p2
  Op = {o1, o2}
  Root = {r1, r2}
  Own = r1
  None = none
  Pen = {p1}
  World <- MCWorld
  SettleOps = 1
  MaxSeq = 3
  MaxFaults = 1
  MaxOthers = 1
SPECIFICATION FairSpec
INVARIANTS TypeOK OneOpenPlan RecoveryHasItsInputs BurnIsOwned AnchorHasRoster
PROPERTIES AppliedPlanFinishes KeyRetiredOnceCovered ImplementsPairAdmission
CHECK_DEADLOCK FALSE
