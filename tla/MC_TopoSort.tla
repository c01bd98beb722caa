---------------------------- MODULE MC_TopoSort ----------------------------
(* Model-checking instance of TopoSort: every registry of at most three    *)
(* nodes, every dependency graph on them and every insertion order.        *)
EXTENDS TopoSort

CONSTANTS n1, n2, n3

MCNames == {n1, n2, n3}

=============================================================================
