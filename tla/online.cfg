\* A cashier, a gateway transaction and a hosted checkout on one invoice, with crashes.
CONSTANTS
  Requests = {r1, r2, r3}
  PaymentIds = {p1, p2, p3}
  Gateway = {g1}
  Hosted = {h1}
  Refs = {g1, h1}
  NoOne = NoOne
  Total = 2
  Slack = 1
  Amounts = {2}
  Methods = {"ONLINE"}
  Ops = {"record", "settle", "fail", "webhook", "crash"}
  MaxInFlight = 3
SPECIFICATION Spec
CHECK_DEADLOCK FALSE
INVARIANTS
  PaidIsThePayments
  StaffWithinTotal
  CreditsNeedReopening
  ServiceIsPaidFor
PROPERTY
  HostedSettleOnce
