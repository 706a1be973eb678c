\* Somebody is shown the door, then the holder leaves: no pairing, one vouch at a time.
CONSTANTS
  ma = ma  mb = mb  mc = mc
  none = none  r1 = r1  r2 = r2  r3 = r3
  Machine = {ma, mb, mc}
  Member = {ma, mb, mc}
  Root = {r1}
  None = none
  Rank <- MCRank
  Fresh = 2
  RefreshAfter = 1
  Verbs = {"forget", "leave"}
  MaxVerbs = 2
  MaxPairs = 0
  MaxVouch = 1
  MaxNow = 0
  Tails = {0}
SPECIFICATION SpecNetwork
INVARIANTS ShownOutStaysOut
CHECK_DEADLOCK FALSE
