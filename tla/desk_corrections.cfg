\* One operator at a time, every correction, no refunds.
CONSTANTS
  Requests = {r1, r2, r3, r4, r5}
  PaymentIds = {p1, p2}
  Tickets = {}
  Refs = {}
  NoOne = NoOne
  Total = 4
  Slack = 1
  Amounts = {1, 2, 5}
  Methods = {"CASH"}
  Ops = {"record", "create", "update", "remove", "reverse", "postfail"}
  MaxInFlight = 1
  Threshold = 0
SPECIFICATION Spec
SYMMETRY MCSymmetry
CHECK_DEADLOCK FALSE
INVARIANTS
  Reconciles
  BooksAtRest
  CancelledHoldsNoMoney
