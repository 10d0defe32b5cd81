CONSTANTS
  b1 = b1
  i1 = i1
  i2 = i2
  i3 = i3
  Promotion <- MCPromotion
  Forms <- MCForms
  Invoice = {i1, i2, i3}
  Buyer = {b1}
  Profile <- MCProfile
  Unit = {1}
  PropertyOf <- MCPropertyOf
  ListPrice <- MCListPrice
  Prices <- MCPrices
  Quantities <- MCQuantities
  Plan = {}
  Surcharge <- MCSurcharge
  Codes <- MCCodes
  Drafts <- MCDrafts
  Baskets <- MCBaskets
  ExpiryDays = 1
  MaxVersions = 2
  Days = {1, 3}
  MaxInFlight = 2
  MaxRequests = 4
SPECIFICATION Spec
SYMMETRY Symmetric
CHECK_DEADLOCK FALSE
INVARIANTS
  LimitsKeptButForOverlap
  PlaceFollowsPurchase
  GivenAsItWas
  RewardsAsAdvertised
