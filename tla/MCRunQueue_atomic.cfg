SPECIFICATION Spec
CONSTANTS
  Runs = {r1}
  Apis = {a1}
  Workers = {w1, w2}
  NoRun = NoRun
  Timeout = 1
  MaxFailures = 0
  MaxCrashes = 0
INVARIANT EventAgreesWithRow
\* every run may be settled and no request left to make
CHECK_DEADLOCK FALSE
