\* A machine leaves and pairs again after a revocation.
CONSTANTS
  ma = ma  mb = mb  mc = mc
  none = none  r1 = r1  r2 = r2  r3 = r3
  Machine = {ma, mb, mc}
  Member = {ma, mb, mc}
  Root = {r1}
  None = none
  Rank <- MCRank
  Fresh = 2
  RefreshAfter = 1
  Verbs = {"revoke", "leave", "pair"}
  MaxVerbs = 3
  MaxPairs = 1
  MaxVouch = 0
  MaxNow = 0
  Tails = {0}
SPECIFICATION SpecNetwork
PROPERTIES RevocationSticks
CHECK_DEADLOCK FALSE
