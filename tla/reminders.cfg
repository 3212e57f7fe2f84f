\* A task that is changed once, messages tried twice, one crash and one retry
\* by staff.
CONSTANTS
  MaxMessages = 2
  Carriers = {c1}
  People = {e1, e2}
  Nobody = Nobody
  MaxAttempts = 2
  MaxJobs = 1
  MaxCrashes = 1
  MaxRetries = 1
  Ticks = {t1}
  First = e1
  MaxReminders = 2
  MaxEdits = 1
SPECIFICATION Spec
CHECK_DEADLOCK FALSE
INVARIANTS
  DeliveredToAssignee
