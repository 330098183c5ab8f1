SPECIFICATION Spec
CONSTANTS
  Payloads <- PayloadsDef
  Scheduled = "web"
  Measures <- MeasuresDef
  Outputs <- OutputsDef
  MaxErrorRate = 50
  MinPassRate = 900
  MaxAttempts = 2
  MaxRuns = 2
  MaxTime = 2
  None = None
  Broken = Broken
INVARIANT IndInv
INVARIANT PassedTriggerIsOwn
INVARIANT CountedOnce
CHECK_DEADLOCK FALSE
