CONSTANTS
  Offers <- MCOffers
  Amounts = {1000, 2000}
  MaxInvestments = 4
  Followed = {}
  Payments = {}
  MaxRequests = 2
  MaxStops = 1
  Days <- MCDays
  LastFunding = 0
SPECIFICATION InvestmentSpec
CHECK_DEADLOCK FALSE
INVARIANTS
  CapKeptButForOverlap
