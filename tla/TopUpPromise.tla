----------------------------- MODULE TopUpPromise -----------------------------
(***************************************************************************)
(* What a top-up promises, whatever webhooks, sweeps and crashes do: an    *)
(* order is credited at most once, and only after the gateway confirmed    *)
(* a payment that entitles it to its Coins.                                *)
(***************************************************************************)
EXTENDS Naturals

CONSTANT Orders

VARIABLES
    confirmed,   \* orders the gateway took such a payment for
    credits      \* ledger entries that credit an order

Init ==
    /\ confirmed = {}
    /\ credits = [o \in Orders |-> 0]

Confirm(o) ==
    /\ confirmed' = confirmed \cup {o}
    /\ UNCHANGED credits

Credit(o) ==
    /\ o \in confirmed
    /\ credits[o] = 0
    /\ credits' = [credits EXCEPT ![o] = 1]
    /\ UNCHANGED confirmed

Next == \E o \in Orders : Confirm(o) \/ Credit(o)

Spec == Init /\ [][Next]_<<confirmed, credits>>
=============================================================================
