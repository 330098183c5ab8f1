SPECIFICATION Spec
CONSTANTS
  Controls = {"security_scan", "chaos_resilience", "resilience_intelligence"}
  Others = {"newman_smoke"}
  Listed = {"security_scan", "chaos_resilience"}
  Mandatory <- Packs
  MinPasses = 1
  Policy <- Stage
  Outcomes <- SomeOutcomes
  Forms <- SomeForms
  MaxTime = 2
  MaxRuns = 2
  None = None
INVARIANT IndInv
INVARIANT NothingFailedIsPromoted
INVARIANT ControlsAreCovered
PROPERTY UsesAreAudited
INVARIANT SignedTiersNeverRelease
INVARIANT BundleHoldsDecision
PROPERTY WaitingNeverHelps
\* a release may end, and time is bounded
CHECK_DEADLOCK FALSE
