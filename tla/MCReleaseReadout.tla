-------------------------- MODULE MCReleaseReadout --------------------------
(* ReleaseReadout with three checks, one of which the tier requires, and a *)
(* window of four runs.                                                    *)
EXTENDS ReleaseReadout, TLC

O(l, u, s) == [lint |-> l, unit |-> u, scan |-> s]
TestsDef     == {"lint", "unit", "scan"}
MandatoryDef == {"scan"}
OutcomesDef  == {O("pass", "pass", "pass"), O("pass", "pass", "skipped"),
                 O("pass", "skipped", "pass"), O("fail", "fail", "pass")}
RemediationDef == ("unit" :> "high") @@ ("lint" :> "low")

Good == O("pass", "pass", "pass")
Bad  == O("fail", "pass", "pass")
HistoriesDef == {<<>>, <<Bad, Good>>, <<Bad, Bad, Good, Good, Good>>}
=============================================================================
