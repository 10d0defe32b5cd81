CONSTANTS
  Offers <- MCOffers
  Amounts = {1000, 2000}
  MaxInvestments = 1
  Followed = {1}
  Payments <- MCPayments
  MaxRequests = 2
  MaxStops = 1
  Days <- MCDays
  LastFunding = 93
SPECIFICATION FairSpec
CHECK_DEADLOCK FALSE
INVARIANTS
  NothingRaisedTwice
  LeavingNeverBeatsStaying
PROPERTIES
  CompletedIsSettled
  MoneyComesBack
