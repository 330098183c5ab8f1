SPECIFICATION Spec
CONSTANTS
  Runs = {r1, r2}
  Wrapped = {"secret_scan"}
  Tools = {"unit"}
  Smoke = {"newman_smoke"}
  Order <- OneOfEach
  HighTier = TRUE
  Workers = 1
  None = None
  Torn = Torn
  Pending = Pending
  MaxFaults = 1
SYMMETRY Symmetry
PROPERTY ChaosIsTold
\* all runs may have been finalized
CHECK_DEADLOCK FALSE
