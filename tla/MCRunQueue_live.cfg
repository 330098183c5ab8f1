SPECIFICATION FairSpec
CONSTANTS
  Runs = {r1, r2}
  Apis = {a1}
  Workers = {w1}
  NoRun = NoRun
  Timeout = 1
  MaxFailures = 0
  MaxCrashes = 2
INVARIANT RunningHasOwner
INVARIANT SettledBeforeFinalized
PROPERTY AcceptedRunSettles
PROPERTY QueueDrains
PROPERTY StaleOrphanRecovered
\* every run may be settled and no request left to make
CHECK_DEADLOCK FALSE
