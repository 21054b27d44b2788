--------------------------- MODULE MCProfilePool ---------------------------
(* ProfilePool with small constants for TLC.                               *)
EXTENDS ProfilePool, TLC

CONSTANTS e1, e2, a1, a2

\* Two slots on the first profile, one on the second.
MixedCapacity == [p \in Profiles |-> IF p = 1 THEN 2 ELSE 1]
Single == [p \in Profiles |-> 1]
Twin == [p \in Profiles |-> 2]

SameKind == Permutations({e1, e2})
=============================================================================
