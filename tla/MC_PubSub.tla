------------------------------ MODULE MC_PubSub ------------------------------
EXTENDS PubSub

CONSTANTS k1, k2, f1, f2

MCKeys == {k1, k2}

MCFns == {f1, f2}

=============================================================================
