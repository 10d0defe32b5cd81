SPECIFICATION Spec
CONSTANTS
  d1 = d1
  e1 = e1
  e2 = e2
  e3 = e3
  e4 = e4
  r1 = r1
  r2 = r2
  w1 = w1
  w2 = w2
  Deal = {d1}
  Realtor = {r1, r2}
  Entitlement = {e1}
  Worker = {w1, w2}
  DealOf <- MCDealOf
  OwnerOf <- MCOwnerOf
  Entitled <- MCEntitled
  NonCash = {}
  Upline = {}
  Rank <- MCRank
  Base = 3
  Plans <- PlainPlan
  AtFirst = {TRUE}
  Revised <- MCRevised
  MaxRuns = 1
  MaxRevisions = 0
  MaxStandings = 0
  MaxPlanChanges = 0
INVARIANT
  PayoutsAgreeWithLedger
CHECK_DEADLOCK FALSE
