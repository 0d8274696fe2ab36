------------------------------ MODULE MCRelease ------------------------------
(* Small instances of Release for TLC.                                      *)
EXTENDS Release, TLC

\* A check that passes, and one that fails an item.
TwoAnswers ==
    {[notice |-> "PASS", safety |-> s, depicts |-> FALSE] : s \in {"PASS", "FAIL"}}

Symmetry == Permutations(Requests) \cup Permutations(Episodes)
=============================================================================
