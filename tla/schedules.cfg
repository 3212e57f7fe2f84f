\* Two overlapping runs of the cron, two edits, two failures, three instants.
CONSTANTS
  Crons = {c1, c2}
  Tokens = {k1, k2, k3}
  Plans <- MCPlans
  Horizon = 2
  MaxEdits = 2
  MaxTroubles = 2
  Attempts = 2
  Never = Never
SPECIFICATION SpecSchedule
CHECK_DEADLOCK FALSE
INVARIANTS
  OneJobPerSlot
  NoSlotSkipped
PROPERTY
  DueIsServed
