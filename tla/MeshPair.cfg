\* A third machine, with a root of its own, pairs with the network; people leave, revoke, recover.
CONSTANTS
  ma = ma  mb = mb  mc = mc
  none = none  r1 = r1  r2 = r2  r3 = r3
  Machine = {ma, mb, mc}
  Member = {ma, mb}
  Root = {r1, r2}
  None = none
  Rank <- MCRank
  Fresh = 2
  RefreshAfter = 1
  Verbs = {"pair", "forget", "recover", "leave", "collect", "pending", "revoke"}
  MaxVerbs = 2
  MaxPairs = 1
  MaxVouch = 0
  MaxNow = 0
  Tails = {0, 1}
SPECIFICATION SpecNetwork
INVARIANTS NobodyStranded OneRootAfterPairing
PROPERTIES SeqNeverFalls
CHECK_DEADLOCK FALSE
