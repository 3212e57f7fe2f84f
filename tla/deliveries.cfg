\* The attempts the code allows, two deliveries at a time, a duplicated queue
\* entry, two crashes and a retry by staff; nobody edits the task.
CONSTANTS
  MaxMessages = 1
  Carriers = {c1, c2}
  People = {e1}
  Nobody = Nobody
  MaxAttempts = 3
  MaxJobs = 2
  MaxCrashes = 2
  MaxRetries = 1
  Ticks = {t1}
  First = e1
  MaxReminders = 3
  MaxEdits = 0
SPECIFICATION Spec
CHECK_DEADLOCK FALSE
INVARIANTS
  NoSilentDuplicate
  WaitingIsClaimable
  SentWasTaken
PROPERTIES
  ClaimsHold
  RemindersSettle
