SPECIFICATION Spec
CONSTANTS
  Event = {"invoice", "payment"}
  RuleOf <- MCRuleOf
  AmountOf <- MCAmountOf
  InvoiceOf <- MCInvoiceOf
  LinesOf <- MCLinesOf
  ServiceOf <- MCServiceOf
  Account <- MCAccount
  TypeOf <- MCTypeOf
  Seeded <- MCSeeded
  Editable = {"sales", "spare"}
  GivenRoles = {"REVENUE_UNIT_SALES", "no role"}
  ManualLines <- MCManualLines
  NamedMonths = {1}
  YearEnds = {2}
  LastMonth = 2
  MaxEdits = 1
  MaxReversals = 2
  MaxInFlight = 1
INVARIANTS
  BooksBalance
  PostedOnce
  ReversalCancels
  NoSuspenseBehindClose
  FinanceSeesTheChart
PROPERTY
  KeepsThePromise
CHECK_DEADLOCK FALSE
