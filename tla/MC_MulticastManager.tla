------------------------- MODULE MC_MulticastManager -------------------------
EXTENDS MulticastManager, TLC
=============================================================================
