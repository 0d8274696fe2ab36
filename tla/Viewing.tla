-------------------------------- MODULE Viewing --------------------------------
(***************************************************************************)
(* What a viewer is told of one episode: whether the catalog shows it, and *)
(* whether the access decision lets the caller watch or what it says is    *)
(* left to do.  The purchases check the same facts with code of their own; *)
(* the guards of both are here to be compared.                             *)
(***************************************************************************)
EXTENDS Integers, Sequences

CONSTANTS
    Prices,        \* prices in Coins, 0 among them
    NoPrice,       \* nothing is on sale at a price
    Coins          \* Coins a wallet may hold, expired batches aside

VARIABLES facts, answer    \* what is stored when a caller asks, and what the caller is told

vars == <<facts, answer>>

FreeStarter == 1    \* freeStarterEpisodeCount of the platform settings
Running == {"ACTIVE", "PAST_DUE"}

\* A published episode is priced, and is not under revision (the gate of Release).
Facts == {f \in
    [status : {"PUBLISHED", "MEDIA_SUBMITTED"}, revising : BOOLEAN, cancelled : BOOLEAN,
     number : 1..2, price : Prices, series : Prices \cup {NoPrice}, monthly : Prices \cup {NoPrice},
     guest : BOOLEAN, plan : {"NONE", "ACTIVE", "PAST_DUE", "ENDED"}, owns : BOOLEAN,
     ownsOther : BOOLEAN, ownsSeries : BOOLEAN, coins : Coins] :
        /\ f.status = "PUBLISHED" => ~f.revising
        /\ f.guest => f.plan = "NONE" /\ f.coins = 0 /\ ~f.owns /\ ~f.ownsOther /\ ~f.ownsSeries}

Unknown == [told |-> "nothing"]
NotFound == [told |-> "not found"]

Init == facts = Unknown /\ answer = Unknown

-----------------------------------------------------------------------------
\* The catalog.

\* Mutant: an episode under revision is shown like any other.
AlwaysAvailable(f) == "AVAILABLE"

Availability(f) == IF f.revising THEN "UNDER_REVISION" ELSE "AVAILABLE"

\* VISIBLE_EPISODE
Visible(f) == f.status = "PUBLISHED" \/ f.revising

\* The episodes a movie lists, unless it was cancelled.
Listed(f) == Visible(f) /\ ~f.cancelled

-----------------------------------------------------------------------------
\* The access decision.

Granted(source) == [told |-> "granted", source |-> source]

\* The ways left, in the order they are listed.
Methods(f) ==
    (IF f.monthly # NoPrice THEN <<"MONTHLY_PLAN">> ELSE <<>>)
    \o <<"UNLOCK_EPISODE">>
    \o (IF f.series # NoPrice THEN <<"UNLOCK_SERIES">> ELSE <<>>)
    \o (IF f.coins < f.price THEN <<"OBTAIN_COIN">> ELSE <<>>)

\* Mutant: the bundle is offered first whatever it costs.
BundleFirst(f) ==
    IF f.coins < f.price THEN "OBTAIN_COIN"
    ELSE IF f.series # NoPrice THEN "UNLOCK_SERIES"
    ELSE "UNLOCK_EPISODE"

NextAction(f) ==
    IF f.coins < f.price THEN "OBTAIN_COIN"
    ELSE IF f.series # NoPrice /\ f.series <= f.price THEN "UNLOCK_SERIES"
    ELSE "UNLOCK_EPISODE"

Refused(f) == [told |-> "refused", methods |-> Methods(f), next |-> NextAction(f)]

\* Mutant: an overdue plan does not grant.
OnlyActive(f) ==
    IF f.plan = "ACTIVE" THEN Granted("PLAN")
    ELSE IF f.owns THEN Granted("EPISODE_PURCHASE")
    ELSE IF f.ownsSeries THEN Granted("SERIES_PURCHASE")
    ELSE Refused(f)

ForMember(f) ==
    IF f.plan \in Running THEN Granted("PLAN")
    ELSE IF f.owns THEN Granted("EPISODE_PURCHASE")
    ELSE IF f.ownsSeries THEN Granted("SERIES_PURCHASE")
    ELSE Refused(f)

Decide(f) ==
    IF f.status # "PUBLISHED" THEN NotFound
    ELSE IF f.number <= FreeStarter THEN Granted("FREE_STARTER")
    ELSE IF f.price = 0 THEN Granted("FREE")
    ELSE IF f.guest THEN [told |-> "refused", methods |-> <<"REGISTER_OR_LOGIN">>, next |-> "REGISTER_OR_LOGIN"]
    ELSE ForMember(f)

Ask(f) ==
    /\ facts' = f
    /\ answer' = Decide(f)

\* A caller asks once: every answer stands for itself.
Next == answer = Unknown /\ \E f \in Facts : Ask(f)

Spec == Init /\ [][Next]_vars

-----------------------------------------------------------------------------
\* What the purchases ask for.

\* assertNotFree
NotFree(f) == f.number > FreeStarter /\ f.price # 0

\* EpisodePurchaseService: published, not free, not opened by anything yet.
EpisodeForSale(f) ==
    /\ f.status = "PUBLISHED" /\ NotFree(f)
    /\ ~f.owns /\ ~f.ownsSeries /\ f.plan \notin Running

\* SeriesPurchaseService: sold as a series to a member who is not inside the movie yet.
SeriesForSale(f) ==
    /\ ~f.cancelled /\ f.series # NoPrice
    /\ ~f.ownsSeries /\ ~f.owns /\ ~f.ownsOther /\ f.plan \notin Running

-----------------------------------------------------------------------------
Asked == answer # Unknown

(* The decision and the purchases read the same facts with different code   *)
(* and agree: a signed-in member may watch a published episode exactly when *)
(* it is not for sale to them, and what comes next can be paid for.         *)
WatchOrBuy == Asked /\ ~facts.guest /\ facts.status = "PUBLISHED" =>
    /\ answer.told = "granted" <=> ~EpisodeForSale(facts)
    /\ answer.told = "refused" =>
          CASE answer.next = "UNLOCK_EPISODE" -> facts.coins >= facts.price
            [] answer.next = "UNLOCK_SERIES" -> facts.coins >= facts.series
            [] answer.next = "OBTAIN_COIN" -> facts.coins < facts.price

(* BR-56: the catalog shows what can be opened as available and nothing     *)
(* else: an episode under revision stays listed, and is not found.          *)
ShownCanBeOpened == Asked /\ Listed(facts) =>
    (Availability(facts) = "AVAILABLE" <=> answer # NotFound)

(* "may this caller watch this episode, and if not, what is left to do":    *)
(* what comes next is accepted.  The bundle is offered to a member who      *)
(* bought another episode of the movie, and is then refused.                *)
NextIsAccepted ==
    Asked /\ answer.told = "refused" /\ answer.next = "UNLOCK_SERIES" /\ ~facts.cancelled
    => SeriesForSale(facts)

Price(method) == CASE method = "MONTHLY_PLAN" -> facts.monthly
                   [] method = "UNLOCK_EPISODE" -> facts.price
                   [] method = "UNLOCK_SERIES" -> facts.series

(* "list what is left, cheapest way first".  The plan is always first and   *)
(* the bundle after the episode, whatever they cost.                        *)
CheapestFirst == Asked /\ answer.told = "refused" =>
    \A i, j \in DOMAIN answer.methods :
       i < j /\ answer.methods[i] # "REGISTER_OR_LOGIN" /\ answer.methods[j] # "OBTAIN_COIN"
       => Price(answer.methods[i]) <= Price(answer.methods[j])

(* What a member is shown, told and sold agree.                             *)
OffersAreTrue == WatchOrBuy /\ ShownCanBeOpened

-----------------------------------------------------------------------------
(* What the proofs add to the properties.                                   *)

\* Who was told anything was told what the decision makes of the facts.
Told == answer = Unknown \/ (facts \in Facts /\ answer = Decide(facts))
=============================================================================
