------------------------- MODULE MCAssuranceIngest -------------------------
(* AssuranceIngest on small sets of requests, executions and ids. *)
EXTENDS AssuranceIngest, TLC

CONSTANTS dev, prod

(* no rule, a hard gate, and a hard gate for prod beside advice for all *)
Lists == {{}, {[mode |-> "hard", scope |-> {}]},
          {[mode |-> "hard", scope |-> {prod}], [mode |-> "advisory", scope |-> {}]}}

(* Lists tells the environments apart: they are not interchangeable. *)
Symmetry == Permutations(Reqs) \cup Permutations(Execs)
=============================================================================
