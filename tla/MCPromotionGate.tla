-------------------------- MODULE MCPromotionGate --------------------------
(* PromotionGate with one control of all tiers, chaos, RI and a stage no   *)
(* control names.                                                          *)
EXTENDS PromotionGate

Sast  == "security_scan"
Chaos == "chaos_resilience"

Packs == [t \in Tiers |-> IF t \in Signing THEN {Sast, Chaos} ELSE {Sast}]

Outcome(tier, changed, s) ==
  [tier |-> tier, tests |-> [t \in Tests |-> IF t \in changed THEN s ELSE "pass"]]

(* All pass, or one is skipped that can be waived, or one has failed.      *)
SomeOutcomes ==
  {Outcome("low", {}, "pass"), Outcome("critical", {}, "pass"),
   Outcome("high", {Chaos}, "skipped"), Outcome("high", {Chaos}, "fail"),
   Outcome("high", {RI}, "fail"), Outcome("critical", {Sast}, "skipped")}

Entry(control, tier, approved, expires, kind) ==
  [control |-> control, tier |-> tier, approved |-> approved, expires |-> expires, kind |-> kind]

SomeForms ==
  {Entry(Sast, "low", 1, 2, "complete"), Entry(Chaos, "high", 0, 1, "complete"),
   Entry(Sast, "critical", 0, 1, "unapproved"), Entry(Chaos, "high", 0, 2, "naive")}

Stage == [validation |-> TRUE, evidence |-> TRUE, signed |-> FALSE]
=============================================================================
