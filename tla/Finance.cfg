SPECIFICATION FinanceSpec
SYMMETRY Symmetry
CONSTANTS
  Dates = {1, 2}
  Codes = {"cash_on_hand", "petty_cash", "bank_clearing", "bank", "accounts_receivable", "inventory",
           "accounts_payable", "sales_clearing", "sales_revenue", "output_vat", "operating_expense", "cash_over_short", "tills"}
  NewAccounts <- ExtraAccounts
  Adjustable = {"cash_on_hand", "tills"}
  Requests = {r1, r2}
  MaxEntries = 4
  MaxAdjustments = 1
  NoAccount = NoAccount
  ExpenseIds = {x1}
  Categories = {g1}
  Users = {u1, u2}
  Floats = {f1}
  Money = {1}
  MaxBalance = 1
  MaxPetty = 2
  NoRow = NoRow
  Days = {day1}
  Clerks = {u1, u2}
  Takings = {0, 1}
  Deposits = {p1, p2}
  StatementHashes = {h1}
  StatementLines = {s1, s2}
  Nothing = Nothing
  Customers = {c1}
  Invoices = {i1}
  Receipts = {q1, q2}
  CreditLimits = {0, 1}
  Sums = {1}
  Standings = {"active", "suspended"}
  CardStatuses = {"active", "suspended"}
  Warnings = {80}
  MaxLimits = 1
  Missing = Missing
  Authorizations = {a1, a2}
  Cards = {k1}
  Sales = {sale1}
  SaleIds = {sale1, sale2}
  Keys = {key1, key2}
  Tenders = {"cash"}
  MaxAR = 2
  MaxAlerts = 2
  Suppliers = {sup1}
  Orders = {o1}
  OrderLines = {l1}
  Loads = {d1, d2}
  Bills = {b1, b2}
  Payments = {w1}
  Buyers = {u1, u2}
  Litres = {1, 3}
  Prices = {1, 3}
  Given = {}
  NotThere = NotThere
  Shifts = {sh1}
  Nozzles = {n1}
  UnitPrices = {5, 10}
  Volumes = {0, 1}
  Cashiers = {u1, u2}
  Tendered = {0, 5}
  MaxClock = 1
  MaxPrices = 2
  MaxVoids = 2
  TaxRate = 25
  LandedCost = 6
  Absent = Absent
INVARIANTS
  BooksBalance ReversedOnce ExpensePostedOnce CashPostedAsCounted ClearingIsInTransit ReceivableMatchesInvoices
  ChargedOnce ReceiptsFollowOrder PayablesMatchLedger VoidedOnce
PROPERTIES CreditWithinLimit RevenueNotRepeated
CHECK_DEADLOCK FALSE
