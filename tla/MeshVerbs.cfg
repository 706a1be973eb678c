\* Three machines, of one root or from before roots; their people use three verbs.
CONSTANTS
  ma = ma  mb = mb  mc = mc
  none = none  r1 = r1  r2 = r2  r3 = r3
  Machine = {ma, mb, mc}
  Member = {ma, mb, mc}
  Root = {r1}
  None = none
  Rank <- MCRank
  Fresh = 2
  RefreshAfter = 1
  Verbs = {"revoke", "forget", "approve", "init", "stop"}
  MaxVerbs = 3
  MaxPairs = 0
  MaxVouch = 1
  MaxNow = 0
  Tails = {0, 1}
SPECIFICATION FairMesh
INVARIANTS ShownOutStaysOut OneRosterPerSeq HolderOnRoster
PROPERTIES RevocationSticks Converges
CHECK_DEADLOCK FALSE
