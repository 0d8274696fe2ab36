---------------------------- MODULE MCSubscription ----------------------------
(* Small instances of Subscription for TLC. *)
EXTENDS Subscription, TLC

CONSTANTS m1, m2, s1, s2

\* One member with both subscriptions, and one each.
OneOwner == [s \in Subs |-> m1]
TwoOwners == [s \in Subs |-> IF s = s1 THEN m1 ELSE m2]

\* Interchangeable requests, sweeps and keys; never used with liveness.
Symmetry == Permutations(Requests) \cup Permutations(Sweepers) \cup Permutations(Keys)
=============================================================================
