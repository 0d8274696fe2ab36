------------------------------- MODULE MCOffice -------------------------------
(***************************************************************************)
(* Eight components that requests of members and of the Admin meet, each   *)
(* checked on its own in one run: the first state says which of them works, *)
(* the others stand still.                                                 *)
(***************************************************************************)
EXTENDS Integers, Sequences

CONSTANTS Requests,
          MaxTokens, MaxUpdates,                                    \* Sessions
          Instances, Ttl, MaxNow, MaxVersion,                       \* AccessControl
          Keys, NoKey, Ladder, MaxDay, MaxRules, MaxOffers, MaxEntries, \* DailyReward
          PlanPrices, MaxTime, MaxRows,                             \* PlanPrice
          Prices, NoPrice, Coins,                                   \* Viewing
          Orders, Amounts, Rates, MaxChanges,                       \* Gateways
          Subs, NoReport, MaxCycles, MaxMoment,                         \* BillingReport
          Names, Inside, Outside, MaxRedirects, MaxBytes, MaxMoves  \* SafeFetch

ASSUME OfficeAssumption ==
    /\ MaxUpdates \in Nat /\ Ttl \in Nat /\ Ladder \in Nat \ {0}
    /\ Prices \subseteq Int /\ Coins \subseteq Int
    /\ Amounts \subseteq Nat /\ Rates \subseteq Nat \ {0}
    /\ MaxRedirects \in Nat /\ MaxBytes \in Nat

VARIABLES
    part,                                                           \* the component that works
    user, tokens, signing,
    account, permissions, replaced, clock, entry, held, guard,
    today, rules, offered, entries, checkIns, checking,
    plan, rows, now, pricing,
    facts, answer,
    rate, agreed, order, till, credited, callback, told, changes,
    subs, cycles, writing, moment, report,
    resolves, moves, fetch, contacted

\* Every plan of a member costs one Coin of each balance.
OneSplit == {[main |-> 1, bonus |-> 1]}

Signing == INSTANCE Sessions WITH account <- user, req <- signing, MaxChanges <- MaxUpdates
Access == INSTANCE AccessControl
    WITH now <- clock, req <- guard, MaxTime <- MaxNow, MaxChanges <- MaxVersion
Reward == INSTANCE DailyReward WITH req <- checking
Plan == INSTANCE PlanPrice WITH req <- pricing, Prices <- PlanPrices
View == INSTANCE Viewing
Pay == INSTANCE Gateways
Report == INSTANCE BillingReport
    WITH now <- moment, MaxTime <- MaxMoment, Idle <- NoReport, PlanOf <- [s \in Subs |-> s], Splits <- OneSplit
Fetch == INSTANCE SafeFetch WITH AllowPrivate <- FALSE

signingVars == <<user, tokens, signing>>
accessVars == <<account, permissions, replaced, clock, entry, held, guard>>
rewardVars == <<today, rules, offered, entries, checkIns, checking>>
planVars == <<plan, rows, now, pricing>>
viewVars == <<facts, answer>>
payVars == <<rate, agreed, order, till, credited, callback, told, changes>>
reportVars == <<subs, cycles, writing, moment, report>>
fetchVars == <<resolves, moves, fetch, contacted>>

vars == <<part, signingVars, accessVars, rewardVars, planVars, viewVars, payVars, reportVars, fetchVars>>

\* A part that stands still has one state.
Init ==
    /\ part \in {"signing", "access", "reward", "plan", "view", "pay", "report", "fetch"}
    /\ Signing!Init /\ Access!Init /\ Reward!Init
    /\ Plan!Init /\ View!Init /\ Pay!Init /\ Report!Init /\ Fetch!Init
    /\ part # "plan" => plan.free
    /\ part # "pay" => rate = 1

\* The other parts stand still.
Next ==
    /\ UNCHANGED part
    /\ \/ /\ part = "signing" /\ Signing!Next
          /\ UNCHANGED <<accessVars, rewardVars, planVars, viewVars, payVars, reportVars, fetchVars>>
       \/ /\ part = "access" /\ Access!Next
          /\ UNCHANGED <<signingVars, rewardVars, planVars, viewVars, payVars, reportVars, fetchVars>>
       \/ /\ part = "reward" /\ Reward!Next
          /\ UNCHANGED <<signingVars, accessVars, planVars, viewVars, payVars, reportVars, fetchVars>>
       \/ /\ part = "plan" /\ Plan!Next
          /\ UNCHANGED <<signingVars, accessVars, rewardVars, viewVars, payVars, reportVars, fetchVars>>
       \/ /\ part = "view" /\ View!Next
          /\ UNCHANGED <<signingVars, accessVars, rewardVars, planVars, payVars, reportVars, fetchVars>>
       \/ /\ part = "pay" /\ Pay!Next
          /\ UNCHANGED <<signingVars, accessVars, rewardVars, planVars, viewVars, reportVars, fetchVars>>
       \/ /\ part = "report" /\ Report!Next
          /\ UNCHANGED <<signingVars, accessVars, rewardVars, planVars, viewVars, payVars, fetchVars>>
       \/ /\ part = "fetch" /\ Fetch!Next
          /\ UNCHANGED <<signingVars, accessVars, rewardVars, planVars, viewVars, payVars, reportVars>>

Spec == Init /\ [][Next]_vars

-----------------------------------------------------------------------------
(* One refresh token of a session is live (Sessions).                       *)
OneLiveToken == Signing!OneLiveToken

(* A stale account answers for the lifetime of an entry, and its look-up    *)
(* (AccessControl).                                                         *)
StaleForTtl == Access!StaleForTtl

(* One reward a day, of what the day of the ladder that was reached paid    *)
(* (DailyReward).                                                           *)
RewardIsEarned == Reward!RewardIsEarned

(* No moment is lost between two prices of a plan (PlanPrice).              *)
Seamless == Plan!Seamless

(* What a member is shown, told and sold agree (Viewing).                   *)
OffersAreTrue == View!OffersAreTrue

(* The order, the gateway and what both were told agree (Gateways).         *)
PaymentIsTrue == Pay!PaymentIsTrue

(* The figures of a report are those of the payments (BillingReport).       *)
FiguresAreTrue == Report!FiguresAreTrue

(* A link reaches, costs and brings in what it may (SafeFetch).             *)
FetchIsSafe == Fetch!FetchIsSafe
=============================================================================
