------------------------------- MODULE MCTopUp -------------------------------
(* Small instances of TopUp for TLC. *)
EXTENDS TopUp, TLC

\* Interchangeable actors and orders; sound for the invariants and for Promised,
\* whose formula treats them alike, and never used with liveness.
Symmetry == Permutations(Orders) \cup Permutations(Handlers)
=============================================================================
