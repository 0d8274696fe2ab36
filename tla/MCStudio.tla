------------------------------- MODULE MCStudio -------------------------------
(***************************************************************************)
(* Four components around a project, each checked on its own in one run:   *)
(* the first state says which of them works, the others stand still.       *)
(***************************************************************************)
EXTENDS Integers, Sequences, TLC

CONSTANTS Staff, Movies,                     \* requests of the staff, projects
          LastDay, MaxPlanned,               \* Project
          MaxHandoffs, MaxLinks, MaxDeliveries,                        \* StudioPortal
          MaxAmount, MaxGranted,             \* ReviewerBudget
          EpisodePrices, MaxAlerts           \* Pricing

ASSUME StudioAssumption ==
    MaxAmount \in Nat

VARIABLES
    desk,                                                          \* the component that works
    movie, seasons, episodes, files, stored, proposals, day, lock, planning,      \* Project
    project, handoffs, links, delivered, portal,                                  \* StudioPortal
    granted, allocated, fee, status, movieLock, reviewerLock, budget,             \* ReviewerBudget
    price, alerts, range, setting                                                 \* Pricing

\* A narrow range and a wide one.
Ranges == {<<2, 2>>, <<1, 3>>}

Planning == INSTANCE Project
    WITH Requests <- Staff, MaxDay <- LastDay, MaxRows <- MaxPlanned, today <- day, req <- planning
Portal == INSTANCE StudioPortal
    WITH Requests <- Staff, MaxTokens <- MaxLinks, tokens <- links, req <- portal
Budget == INSTANCE ReviewerBudget WITH Requests <- Staff, req <- budget
Price == INSTANCE Pricing WITH Requests <- Staff, Prices <- EpisodePrices, req <- setting

planningVars == <<movie, seasons, episodes, files, stored, proposals, day, lock, planning>>
portalVars == <<project, handoffs, links, delivered, portal>>
budgetVars == <<granted, allocated, fee, status, movieLock, reviewerLock, budget>>
priceVars == <<price, alerts, range, setting>>

studioVars == <<desk, planningVars, portalVars, budgetVars, priceVars>>

StudioInit ==
    /\ desk \in {"planning", "portal", "budget", "pricing"}
    /\ Planning!Init /\ Portal!Init /\ Budget!Init /\ Price!Init
    /\ episodes[1].milestone = 1
    /\ desk # "pricing" => range = <<1, 3>>

\* The other parts stand still.
StudioNext ==
    /\ UNCHANGED desk
    /\ \/ desk = "planning" /\ Planning!Next /\ UNCHANGED <<portalVars, budgetVars, priceVars>>
       \/ desk = "portal" /\ Portal!Next /\ UNCHANGED <<planningVars, budgetVars, priceVars>>
       \/ desk = "budget" /\ Budget!Next /\ UNCHANGED <<planningVars, portalVars, priceVars>>
       \/ desk = "pricing" /\ Price!Next /\ UNCHANGED <<planningVars, portalVars, budgetVars>>

StudioSpec == StudioInit /\ [][StudioNext]_studioVars

Symmetry == Permutations(Staff)

-----------------------------------------------------------------------------
(* The plan stays in order, and what was cancelled or answered stays so      *)
(* (Project).                                                              *)
PlanIsKept == Planning!PlanIsKept

(* The studio that took the project works through its link (StudioPortal).  *)
StudioHasTheLink == Portal!StudioHasTheLink

(* Fees are covered by the grants and projects by their fee                 *)
(* (ReviewerBudget).                                                        *)
FeesAreCovered == Budget!FeesAreCovered

(* An alert that waits for the Admin is about the price in force (Pricing). *)
AlertIsAboutThePrice == Price!AlertIsAboutThePrice
=============================================================================
