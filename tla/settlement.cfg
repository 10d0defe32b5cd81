SPECIFICATION Spec
CONSTANTS
  d1 = d1
  e1 = e1
  e2 = e2
  e3 = e3
  e4 = e4
  r1 = r1
  r2 = r2
  w1 = w1
  w2 = w2
  Deal = {d1}
  Realtor = {r1, r2}
  Entitlement = {e1, e2, e3, e4}
  Worker = {w1}
  DealOf <- MCDealOf
  OwnerOf <- MCOwnerOf
  Entitled <- MCEntitled
  NonCash = {e2}
  Upline = {e2}
  Rank <- MCRank
  Base = 3
  Plans <- MCPlans
  AtFirst = {TRUE}
  Revised <- MCRevised
  MaxRuns = 2
  MaxRevisions = 1
  MaxStandings = 1
  MaxPlanChanges = 1
INVARIANTS
  TypeOK
  PaidWithinReleased
  OneOpenPayout
  PayoutsAgreeWithLedger
  DealWithinAccrual
  RecoveredWithinOwed
CHECK_DEADLOCK FALSE
