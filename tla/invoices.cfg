SPECIFICATION Spec
CONSTANTS
  i1 = i1
  i2 = i2
  r1 = r1
  r2 = r2
  f1 = f1
  f2 = f2
  Invoice = {i1, i2}
  Receipt = {r1}
  ReceiptOf <- BothOnFirst
  Reference = {f1}
  Principal <- MCPrincipal
  DueDay <- MCDueDay
  Quantity <- MCQuantity
  Stock = 1
  Amounts = {1, 2}
  Discounts <- MCDiscounts
  Thresholds = {0, 9}
  DefaultFee = 3
  Grace = 0
  FeeEvery = 1
  ExpiryDay = 1
  MaxDay = 2
  MaxInFlight = 1
INVARIANTS
  MoneyPlaced
  NoOversell
  CreditHeld
  ReceiptAgreesWithPayment
  PaidIsSecured
  PaidOwesNothing
  DiscountCovered
CHECK_DEADLOCK FALSE
