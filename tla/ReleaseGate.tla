----------------------------- MODULE ReleaseGate -----------------------------
(***************************************************************************)
(* What members and the law are promised about releases (BR-14, BR-19): an *)
(* episode is shown in one version, vetted before it was shown and as long *)
(* as it is shown, and another version never takes its place unless the    *)
(* episode was hidden first.                                               *)
(***************************************************************************)
EXTENDS Naturals

CONSTANTS Episodes, MaxVersions

VARIABLES
    shown,      \* version of an episode that members watch, 0 when none
    vetted      \* versions, as <<episode, version>>, that may be shown

vars == <<shown, vetted>>

Assets == Episodes \X (1..MaxVersions)

Init ==
    /\ shown = [e \in Episodes |-> 0]
    /\ vetted \in SUBSET Assets

\* Labels and checks come and go, but not under a version that is shown.
Vet ==
    /\ vetted' \in SUBSET Assets
    /\ \A e \in Episodes : shown[e] # 0 => <<e, shown[e]>> \in vetted'
    /\ UNCHANGED shown

Show(e) ==
    /\ shown[e] = 0
    /\ \E v \in 1..MaxVersions :
          /\ <<e, v>> \in vetted
          /\ shown' = [shown EXCEPT ![e] = v]
    /\ UNCHANGED vetted

\* Taken down, or sent back to be fixed; a check that failed may be the reason.
Hide(e) ==
    /\ shown[e] # 0
    /\ shown' = [shown EXCEPT ![e] = 0]
    /\ vetted' \subseteq vetted

Next == Vet \/ \E e \in Episodes : Show(e) \/ Hide(e)

Spec == Init /\ [][Next]_vars
=============================================================================
