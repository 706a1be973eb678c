\* A network from before roots is given one, and days pass.
CONSTANTS
  ma = ma  mb = mb  mc = mc
  none = none  r1 = r1  r2 = r2  r3 = r3
  Machine = {ma, mb, mc}
  Member = {ma, mb, mc}
  Root = {r1}
  None = none
  Rank <- MCRank
  Fresh = 2
  RefreshAfter = 1
  Verbs = {"init", "forget"}
  MaxVerbs = 2
  MaxPairs = 0
  MaxVouch = 0
  MaxNow = 3
  Tails = {0}
SPECIFICATION FairLegacy
PROPERTIES InitReachesAll StaysFresh
CHECK_DEADLOCK FALSE
