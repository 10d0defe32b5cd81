CONSTANTS
  Units <- MCUnits
  Sales <- MCSales
  Bills <- MCBills
  Proceeds = {3}
  Handlers = {h1}
  MaxHandovers = 2
  MaxEntries = 3
  MaxStops = 1
  LastMonth = 1
SPECIFICATION HandoverSpec
CHECK_DEADLOCK FALSE
INVARIANTS
  RecognisedOnce
  WorkInProgressIsUnsold
