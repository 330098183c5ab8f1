----------------------------- MODULE MCRunQueue -----------------------------
(* RunQueue on small sets of runs, API processes and workers. *)
EXTENDS RunQueue, TLC

(* Runs, API processes and workers are interchangeable (safety runs only). *)
Symmetry == Permutations(Runs) \cup Permutations(Apis) \cup Permutations(Workers)
=============================================================================
