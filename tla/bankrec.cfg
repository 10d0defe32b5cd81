SPECIFICATION Spec
CONSTANTS
  Account = {"bank"}
  Statements <- MCStatements
  MisreadAs = {0, 200}
  Document = {"receipt", "late"}
  DateOf <- MCDateOf
  MovesOf <- MCMovesOf
  ByHand = {"late"}
  LastDay = 2
  MaxPosted = 2
  MaxIgnored = 1
  MaxInFlight = 1
INVARIANTS
  
  LockedLinesStaySettled
  ImportedAsPrinted
PROPERTY
  LockAgreesWithLines
CHECK_DEADLOCK FALSE
