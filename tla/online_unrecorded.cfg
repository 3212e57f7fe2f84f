CONSTANTS
  Requests = {r1, r2, r3}
  PaymentIds = {p1, p2}
  Gateway = {g1, g2}
  Hosted = {}
  Refs = {g1, g2}
  NoOne = NoOne
  Total = 2
  Slack = 1
  Amounts = {2}
  Methods = {"ONLINE"}
  Ops = {"settle"}
  MaxInFlight = 2
SPECIFICATION Spec
CHECK_DEADLOCK FALSE
INVARIANT ClaimedIsRecorded
