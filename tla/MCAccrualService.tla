--------------------------- MODULE MCAccrualService ---------------------------
(* AccrualService on small instances: two rules with one key and one with      *)
(* another, an order of a good that both keys match or of one good per key.    *)
EXTENDS AccrualService, TLC

CONSTANTS k1, k2

MCRules ==
  {[match |-> k1, type |-> "pt", reward |-> 100],
   [match |-> k1, type |-> "pt", reward |-> 300],
   [match |-> k2, type |-> "%", reward |-> 1000]}

MCBaskets ==
  {<<[description |-> {k1, k2}, price |-> 2000]>>,
   <<[description |-> {k1}, price |-> 500], [description |-> {k2}, price |-> 500]>>}

MCSymmetry == Permutations(Posts) \cup Permutations(Orders)
=============================================================================
