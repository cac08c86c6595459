------------------------- MODULE MCLeakageRefinement --------------------------
EXTENDS LeakageRefinement, TLC
=============================================================================
