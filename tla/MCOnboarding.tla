---------------------------- MODULE MCOnboarding ----------------------------
(* Onboarding of one service from two terminals, beside preflights of      *)
(* another module.                                                         *)
EXTENDS Onboarding, TLC

KindsDef ==
  [api |-> [tier |-> "high", minimal |-> {"validate"}, extra |-> {"assurance"},
            tiers |-> {"high"}]]
HandWrittenDef ==
  {[owners |-> {"ann"}, type |-> None, tier |-> None, stage |-> "b"]}
Symmetry == Permutations(Terminals)
=============================================================================
