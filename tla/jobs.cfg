\* Two processes, a built-in and a late job, two things that go wrong.
CONSTANTS
  Workers = {w1, w2}
  Jobs = {j1, j2}
  NoJob = NoJob
  Late = {j2}
  MaxTroubles = 2
SPECIFICATION Spec
CHECK_DEADLOCK FALSE
INVARIANTS
  TypeOK
  OneRunner
PROPERTIES
  OutcomesStand
  NoJobStarves
  LeftoversFinish
