\* Two jobs, two technicians, one unit of stock and one request to unassign or delete.
CONSTANTS
  Jobs = {j1, j2}
  Items = {i1}
  Techs = {t1, t2}
  Desks = {d1}
  Windows <- MCWindows
  NoOne = NoOne
SPECIFICATION Spec
SYMMETRY MCSymmetry
CHECK_DEADLOCK FALSE
INVARIANTS
  ClosedJobsHoldNothing
  IssuedToItsTechnician
  NoDoubleBooking
