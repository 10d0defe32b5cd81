CONSTANTS
  Units <- MCUnits
  Sales <- MCSales
  Bills <- MCBills
  Proceeds = {3}
  Handlers = {h1}
  MaxHandovers = 2
  MaxEntries = 3
  MaxStops = 0
  LastMonth = 1
SPECIFICATION HandoverSpec
CHECK_DEADLOCK FALSE
INVARIANT
  RevenueMovesWithCost
