\* A dealer's customer: clicks, nightly jobs and deaths, two at a time, over two periods.
CONSTANTS
  Requests = {r1, r2, r3}
  ClientKeys = {k1}
  NoKey = NoKey
  Offered <- MCDays
  Days = 2
  Cost = 1
  CreditLimit = 1
  Grace = 0
  Lead = 1
  MaxTime = 3
  MaxWallet = 2
  DealerStart = 1
  Ops = {"activate", "renew", "suspend", "bill", "deactivate", "crash", "midnight"}
  MaxInFlight = 2
SPECIFICATION Spec
SYMMETRY MCSymmetry
CHECK_DEADLOCK FALSE
INVARIANTS
  TypeOK
  OneClickOneSale
  OneRowPerReference
  NoOverdraft
  RenewalsArePaid
  SalesAreSettled
