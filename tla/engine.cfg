SPECIFICATION Spec
CONSTANTS
  r1 = r1
  r2 = r2
  r3 = r3
  r4 = r4
  Nobody = Nobody
  NoRate <- MCNoRate
  Realtor = {r1, r2, r3, r4}
  Plans <- MCPlans
  Deals <- MCDeals
  Profiles <- MCProfiles
  MaxDeals = 1
INVARIANTS
  MoneyAccountedFor
  CutInProportion
  PrecedenceKept
CHECK_DEADLOCK FALSE
