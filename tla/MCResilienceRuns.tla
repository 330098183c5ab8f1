-------------------------- MODULE MCResilienceRuns --------------------------
(* ResilienceRuns with one incident, triggered again or beside a scheduled *)
(* run.                                                                    *)
EXTENDS ResilienceRuns, TLC

PayloadsDef == {[dir |-> "incident", context |-> "api"]}
OutputsDef ==
  {[complete |-> TRUE, signal |-> "external", status |-> "pass", degradation |-> -400]}
MeasuresDef == {[errors |-> None, passes |-> None]}
=============================================================================
