SPECIFICATION Spec
CONSTANTS
  Reqs = {q1, q2, q3}
  Execs = {x1, x2}
  dev = dev
  prod = prod
  Envs = {dev, prod}
  RuleLists <- Lists
  Names = {n1}
  None = None
  MaxBatch = 2
  MaxFailures = 1
SYMMETRY Symmetry
INVARIANT IndInv
PROPERTY ImplementsStore
INVARIANT AllOrNothing
INVARIANT ReportsAreBacked
INVARIANT DecisionsAsTold
PROPERTY OwnerIsForever
PROPERTY AllowIsGrounded
\* every request may have been answered
CHECK_DEADLOCK FALSE
