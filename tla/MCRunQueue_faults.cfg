SPECIFICATION Spec
CONSTANTS
  Runs = {r1}
  Apis = {a1}
  Workers = {w1, w2}
  NoRun = NoRun
  Timeout = 1
  MaxFailures = 2
  MaxCrashes = 1
SYMMETRY Symmetry
INVARIANT IndInv
INVARIANT AtMostOnceLaunch
INVARIANT PassIsEarned
INVARIANT FailureHasCause
INVARIANT SingleVerdict
PROPERTY TerminalIsFinal
PROPERTY ImplementsLifecycle
\* every run may be settled and no request left to make
CHECK_DEADLOCK FALSE
