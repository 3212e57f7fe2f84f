\* Receipts, refunds, approvals and deaths of handlers, all interleaved.
CONSTANTS
  Requests = {r1, r2, r3, r4}
  PaymentIds = {p1}
  Tickets = {t1}
  Refs = {t1}
  NoOne = NoOne
  Total = 2
  Slack = 0
  Amounts = {1, 2}
  Methods = {"CASH"}
  Ops = {"record", "refund", "approve", "reject", "crash"}
  MaxInFlight = 2
  Threshold = 1
SPECIFICATION Spec
SYMMETRY MCSymmetry
CHECK_DEADLOCK FALSE
INVARIANTS
  TypeOK
  ClaimsWithinPayments
  EveryClaimGivenOnce
  LedgerTracksMoney
  ApprovedMoved
