--------------------------- MODULE MC_DagRegistry ---------------------------
(* Model-checking instance of DagRegistry: three names, two output slots,  *)
(* chains of one or two blocks, scripts of at most MCMaxOps tokens.        *)
EXTENDS DagRegistry

CONSTANTS n1, n2, n3

MCNames == {n1, n2, n3}

MCSlots == {0, 1}

MCChains == {<<n1>>, <<n1, n2>>, <<n2, n3>>}

=============================================================================
