----------------------- MODULE MC_UdpMulticastManager -----------------------
(* Model-checking instance of UdpMulticastManager.                         *)
EXTENDS UdpMulticastManager, TLC

\* Endpoints and callers are only compared for equality.
Symmetry == Permutations(Endpoints) \cup Permutations(Callers)

=============================================================================
