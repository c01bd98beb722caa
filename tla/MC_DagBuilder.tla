--------------------------- MODULE MC_DagBuilder ----------------------------
(* Model-checking instance of DagBuilder : three names, two output slots,  *)
(* chains of one or two blocks, scripts of at most MCMaxOps tokens.        *)
EXTENDS DagBuilder

CONSTANTS n1, n2, n3

MCNames == {n1, n2, n3}

MCSlots == {0, 1}

MCChains == {<<n1>>, <<n1, n2>>, <<n2, n3>>}

=============================================================================
