------------------------ MODULE MCAssurancePipeline ------------------------
(* AssurancePipeline with one stage of each kind, in the script's order. *)
EXTENDS AssurancePipeline, TLC

OneOfEach == <<"unit", "secret_scan", Dast, Chaos, RI, "newman_smoke">>
Symmetry  == Permutations(Runs)
=============================================================================
