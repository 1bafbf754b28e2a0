------------------------- MODULE MC_MulticastClient -------------------------
(* Model-checking instance of MulticastClient.                             *)
EXTENDS MulticastClient, TLC

\* Each group announced on a port of its own.
DistinctPorts == [g \in GroupIds |-> g]

\* Every group announced on the same port (explicit coordinates, or two
\* draws from [30000, 40000] that agree).
SharedPort == [g \in GroupIds |-> 30000]

\* Receive threads are interchangeable.
Symmetry == Permutations(Workers)

=============================================================================
