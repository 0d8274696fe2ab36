------------------------------ MODULE MCPurchase ------------------------------
(* Small instances of Purchase for TLC: one movie with two episodes.        *)
EXTENDS Purchase, TLC

CONSTANTS v1, k1, k2

OneMovie == [e \in Episodes |-> v1]

\* Any request may send the one key or none.
SharedKeys == [i \in Items |-> {k1, NoKey}]

\* Keys are made for episodes or for bundles, never for both; or left out.
KeysByTable == [i \in Items |-> IF i \in Episodes THEN {k1, NoKey} ELSE {k2, NoKey}]

Symmetry == Permutations(Requests) \cup Permutations(Members)
=============================================================================
