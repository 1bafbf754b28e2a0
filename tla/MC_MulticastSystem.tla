-------------------------- MODULE MC_MulticastSystem --------------------------
EXTENDS MulticastSystem, TLC

==============================================================================
