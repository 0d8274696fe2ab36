------------------------------- MODULE Purchase -------------------------------
(***************************************************************************)
(* What members buy with Coins and get back: one episode, or a movie as a  *)
(* bundle; and what happens to those rights when the Reviewer takes an     *)
(* episode down or cancels the project.                                    *)
(*                                                                         *)
(* A purchase is three steps.  Begin answers a replayed key and reads the  *)
(* item and its price before any transaction; Check is the transaction's   *)
(* look at what the member already owns; Commit holds the wallet row, from *)
(* the Coins leaving to the access row.  A take-down, a release, a price   *)
(* and the cancellation are one transaction each, guarded inside it; the   *)
(* cancellation first counts releases outside of it.                       *)
(*                                                                         *)
(* The wallet is one counter: how main and bonus Coins leave and expire is *)
(* module CoinWallet.  The REFUND entries that reference an access row are *)
(* their sum, in the row.  Review, label and compliance between a take-    *)
(* down to fix and the next release are left out.                          *)
(***************************************************************************)
EXTENDS Integers, Sequences, FiniteSets, Functions

CONSTANTS
    Members, Episodes, Movies,
    MovieOf,          \* the movie of each episode
    FreeStarters,     \* the episodes anyone may watch
    Keys, NoKey,      \* idempotency keys; a request without one
    KeysOf,           \* the keys a client may send with a request for each item
    Requests,         \* concurrent purchase requests
    Idle,             \* no request under way
    NoPrice,          \* the price column is null
    Prices,           \* bound: the prices that are set
    RefundOnRemoval,  \* platform setting
    Funds,            \* the Coins of a member at the start
    MaxSales          \* bound: no new request after this many access rows

Items == Episodes \cup Movies

ASSUME ConstantsAssumption ==
    /\ MovieOf \in [Episodes -> Movies]
    /\ Episodes \cap Movies = {}
    /\ FreeStarters \subseteq Episodes
    /\ KeysOf \in [Items -> SUBSET (Keys \cup {NoKey})]
    /\ NoKey \notin Keys
    /\ Prices \subseteq Nat /\ NoPrice \notin Nat
    /\ RefundOnRemoval \in BOOLEAN
    /\ Funds \in Nat /\ MaxSales \in Nat

VARIABLES
    status,      \* episodes.status: CHECKED is every status before a release
    released,    \* the episodes with a publication that went out once
    movie,       \* movies.status
    cancelling,  \* movies whose cancellation has counted no release
    price,       \* episodes.coin_price and movies.series_coin_price
    plan,        \* members with a subscription ACTIVE or PAST_DUE
    balance,     \* coin_wallets
    ledger,      \* coin_transactions of purchases; an id is the index
    access,      \* episode_accesses and series_accesses; an id is the index
    req          \* what each request has read

vars == <<status, released, movie, cancelling, price, plan, balance, ledger, access, req>>

Shop == <<status, released, movie, cancelling, price>>

EpisodeStatus == {"CHECKED", "PUBLISHED", "UNPUBLISHED"}
MovieStatus == {"IN_PRODUCTION", "UNDER_REVISION", "COMPLETED", "CANCELLED"}
Releasing == {"IN_PRODUCTION", "UNDER_REVISION", "COMPLETED"}

Request == [member : Members, item : Items, price : Nat, key : Keys \cup {NoKey}, checked : BOOLEAN]

Access == [member : Members, item : Items, paid : Nat, movement : Nat,
           revoked : BOOLEAN, refunded : Nat]

Movement == [member : Members, amount : Nat, key : Keys \cup {NoKey}]

-----------------------------------------------------------------------------
(* What the queries return.                                                 *)

\* Mutant: revoked rows are refunded again.
EveryRow == DOMAIN access

\* revokedAt: null.
Live == {a \in DOMAIN access : ~access[a].revoked}

LiveOf(m) == {a \in Live : access[a].member = m}

Owns(m, i) == \E a \in LiveOf(m) : access[a].item = i

\* assertNotOwned: whatever already opens the item. One bought episode is
\* enough to refuse the bundle.
AlreadyUnlocked(m, i) ==
    \/ m \in plan
    \/ Owns(m, i)
    \/ i \in Episodes /\ Owns(m, MovieOf[i])
    \/ i \in Movies /\ \E e \in Episodes : MovieOf[e] = i /\ Owns(m, e)

\* The movement a key has made: at most one, the index is unique.
MovementsOf(key) == {n \in DOMAIN ledger : key # NoKey /\ ledger[n].key = key}

\* replayed: the key paid for this very item of this very member.
Answered(m, i, key) ==
    \E n \in MovementsOf(key), a \in DOMAIN access :
        access[a].movement = n /\ access[a].member = m /\ access[a].item = i

SameTable(i, j) == i \in Episodes <=> j \in Episodes

\* Mutant: no unique index on coin_transaction_id.
NoIndex(n, i) == TRUE

\* The unique index on coin_transaction_id accepts the row.
MovementFree(n, i) ==
    \A a \in DOMAIN access : SameTable(access[a].item, i) => access[a].movement # n

\* The checks on the item before the transaction.
OnSale(i) ==
    /\ price[i] # NoPrice
    /\ i \in Episodes => status[i] = "PUBLISHED" /\ i \notin FreeStarters /\ price[i] # 0
    /\ i \in Movies => movie[i] # "CANCELLED"

NewAccess(r, n) ==
    [member |-> r.member, item |-> r.item, paid |-> r.price, movement |-> n,
     revoked |-> FALSE, refunded |-> 0]

-----------------------------------------------------------------------------
Init ==
    /\ status = [e \in Episodes |-> "CHECKED"]
    /\ released = {}
    /\ movie = [v \in Movies |-> "IN_PRODUCTION"]
    /\ cancelling = {}
    /\ price = [i \in Items |-> NoPrice]
    /\ plan = {}
    /\ balance = [m \in Members |-> Funds]
    /\ ledger = << >>
    /\ access = << >>
    /\ req = [c \in Requests |-> Idle]

(* Buying.                                                                  *)

Begin(c, m, i, key) ==
    /\ req[c] = Idle
    /\ Len(access) < MaxSales
    /\ ~Answered(m, i, key)
    /\ OnSale(i)
    /\ req' = [req EXCEPT ![c] = [member |-> m, item |-> i, price |-> price[i],
                                  key |-> key, checked |-> FALSE]]
    /\ UNCHANGED <<Shop, plan, balance, ledger, access>>

Check(c) ==
    /\ req[c] # Idle /\ ~req[c].checked
    /\ ~AlreadyUnlocked(req[c].member, req[c].item)
    /\ req' = [req EXCEPT ![c] = [req[c] EXCEPT !.checked = TRUE]]
    /\ UNCHANGED <<Shop, plan, balance, ledger, access>>

\* Mutant: the Coins are checked before the lock only.
CommitUnfunded(c) ==
    LET r == req[c]
    IN  /\ r # Idle /\ r.checked
        /\ MovementsOf(r.key) = {}
        /\ r.price > 0
        /\ ledger' = Append(ledger, [member |-> r.member, amount |-> r.price, key |-> r.key])
        /\ balance' = [balance EXCEPT ![r.member] = balance[r.member] - r.price]
        /\ access' = Append(access, NewAccess(r, Len(ledger) + 1))
        /\ req' = [req EXCEPT ![c] = Idle]
        /\ UNCHANGED <<Shop, plan>>

\* spend moves the Coins and the access row keeps the price for a refund.
Commit(c) ==
    LET r == req[c]
    IN  /\ r # Idle /\ r.checked
        /\ MovementsOf(r.key) = {}
        /\ r.price > 0 /\ balance[r.member] >= r.price
        /\ ledger' = Append(ledger, [member |-> r.member, amount |-> r.price, key |-> r.key])
        /\ balance' = [balance EXCEPT ![r.member] = balance[r.member] - r.price]
        /\ access' = Append(access, NewAccess(r, Len(ledger) + 1))
        /\ req' = [req EXCEPT ![c] = Idle]
        /\ UNCHANGED <<Shop, plan>>

\* The key has moved Coins before: spend answers that movement and moves
\* nothing, and the access row is created on it unless the index refuses.
CommitReplayed(c) ==
    LET r == req[c]
    IN  /\ r # Idle /\ r.checked
        /\ \E n \in MovementsOf(r.key) :
              /\ MovementFree(n, r.item)
              /\ access' = Append(access, NewAccess(r, n))
        /\ req' = [req EXCEPT ![c] = Idle]
        /\ UNCHANGED <<Shop, plan, balance, ledger>>

\* Already unlocked (409), too few Coins (422), a unique index or a crash: the
\* transaction leaves nothing behind.
Abort(c) ==
    /\ req[c] # Idle
    /\ req' = [req EXCEPT ![c] = Idle]
    /\ UNCHANGED <<Shop, plan, balance, ledger, access>>

-----------------------------------------------------------------------------
(* Publishing, as far as it meets what was bought.                          *)

Pending(v) == {e \in Episodes : MovieOf[e] = v /\ status[e] = "CHECKED"}

\* release, and completeIfAllPublished at its end.
Release(e) ==
    LET v == MovieOf[e]
    IN  /\ status[e] # "PUBLISHED"
        /\ price[e] # NoPrice
        /\ movie[v] \in Releasing
        /\ status' = [status EXCEPT ![e] = "PUBLISHED"]
        /\ released' = released \cup {e}
        /\ movie' = IF Pending(v) \subseteq {e} THEN [movie EXCEPT ![v] = "COMPLETED"] ELSE movie
        /\ UNCHANGED <<cancelling, price, plan, balance, ledger, access, req>>

\* unpublish with REVISION: sendBack; buyers keep their access.
SendBack(e) ==
    LET v == MovieOf[e]
    IN  /\ status[e] = "PUBLISHED"
        /\ status' = [status EXCEPT ![e] = "CHECKED"]
        /\ movie' = IF movie[v] = "COMPLETED" THEN [movie EXCEPT ![v] = "UNDER_REVISION"] ELSE movie
        /\ UNCHANGED <<released, cancelling, price, plan, balance, ledger, access, req>>

\* Mutant: the refund pays today's price.
TodaysPrice(a) == price[access[a].item]

\* refund credits what the row kept.
RefundOf(a) == access[a].paid

\* The row after its refund.
PaidBack(row, coins) == [row EXCEPT !.revoked = TRUE, !.refunded = row.refunded + coins]

\* refundEpisodeRemoval: every live purchase of the episode.
RefundEpisodeRemoval(e) ==
    LET due == {a \in Live : access[a].item = e}
        dueTo(m) == {a \in due : access[a].member = m}
    IN  /\ access' = [a \in DOMAIN access |->
                         IF a \in due
                         THEN PaidBack(access[a], RefundOf(a))
                         ELSE access[a]]
        /\ balance' = [m \in Members |->
                          balance[m] + SumFunctionOnSet([a \in dueTo(m) |-> RefundOf(a)], dueTo(m))]

\* unpublish with REMOVAL: the refunds commit with the take-down.
Remove(e) ==
    /\ status[e] = "PUBLISHED"
    /\ status' = [status EXCEPT ![e] = "UNPUBLISHED"]
    /\ IF RefundOnRemoval THEN RefundEpisodeRemoval(e) ELSE UNCHANGED <<access, balance>>
    /\ UNCHANGED <<released, movie, cancelling, price, plan, ledger, req>>

\* cancel up to its transaction: the project is open and nothing was released.
BeginCancel(v) ==
    /\ movie[v] = "IN_PRODUCTION"
    /\ \A e \in released : MovieOf[e] # v
    /\ cancelling' = cancelling \cup {v}
    /\ UNCHANGED <<status, released, movie, price, plan, balance, ledger, access, req>>

\* cancel: the guarded update, or its 409.
Cancel(v) ==
    /\ v \in cancelling
    /\ cancelling' = cancelling \ {v}
    /\ movie' = IF movie[v] = "IN_PRODUCTION" THEN [movie EXCEPT ![v] = "CANCELLED"] ELSE movie
    /\ UNCHANGED <<status, released, price, plan, balance, ledger, access, req>>

\* setPrice of the Reviewer, before and after a release.
SetPrice(e, p) ==
    /\ movie[MovieOf[e]] # "CANCELLED"
    /\ price' = [price EXCEPT ![e] = p]
    /\ UNCHANGED <<status, released, movie, cancelling, plan, balance, ledger, access, req>>

\* series_coin_price: no service writes it, an operator does.
SetSeriesPrice(v, p) ==
    /\ price' = [price EXCEPT ![v] = p]
    /\ UNCHANGED <<status, released, movie, cancelling, plan, balance, ledger, access, req>>

\* A plan begins to run or ends (module Subscription).
PlanChanges(m) ==
    /\ plan' = IF m \in plan THEN plan \ {m} ELSE plan \cup {m}
    /\ UNCHANGED <<Shop, balance, ledger, access, req>>

-----------------------------------------------------------------------------
Buy(c) ==
    \/ \E m \in Members, i \in Items : \E key \in KeysOf[i] : Begin(c, m, i, key)
    \/ Check(c)
    \/ Commit(c)
    \/ CommitReplayed(c)
    \/ Abort(c)

Publish(e) ==
    \/ Release(e)
    \/ SendBack(e)
    \/ Remove(e)
    \/ \E p \in Prices : SetPrice(e, p)

Next ==
    \/ \E c \in Requests : Buy(c)
    \/ \E e \in Episodes : Publish(e)
    \/ \E v \in Movies : BeginCancel(v) \/ Cancel(v)
    \/ \E v \in Movies, p \in Prices : SetSeriesPrice(v, p)
    \/ \E m \in Members : PlanChanges(m)

Spec == Init /\ [][Next]_vars

-----------------------------------------------------------------------------
(* Properties.                                                              *)

\* Every variable has the type of its table or of the request it stands for.
TypeOK ==
    /\ status \in [Episodes -> EpisodeStatus]
    /\ released \subseteq Episodes
    /\ movie \in [Movies -> MovieStatus]
    /\ cancelling \subseteq Movies
    /\ price \in [Items -> Nat \cup {NoPrice}]
    /\ plan \subseteq Members
    /\ balance \in [Members -> Nat]
    /\ ledger \in Seq(Movement)
    /\ access \in Seq(Access)
    /\ req \in [Requests -> Request \cup {Idle}]

PaidBy(S) == SumFunctionOnSet([a \in S |-> access[a].paid], S)

\* The Coins a member no longer has are exactly the prices of what the member
\* may still open: no take-down, re-release, new price or racing request loses
\* or makes a Coin; unless one key bought an episode and a bundle, which opens
\* both with one movement (EveryAccessPaid).
PaidApart(m) ==
    \A a, b \in DOMAIN access :
        access[a].member = m /\ access[a].movement = access[b].movement => a = b

CoinsAccounted == \A m \in Members : PaidApart(m) => balance[m] + PaidBy(LiveOf(m)) = Funds

\* An access is paid back once, with what was paid for it, exactly when it is
\* revoked, and only an episode that was released ever is.
RefundedExactly ==
    \A a \in DOMAIN access :
        /\ access[a].refunded = IF access[a].revoked THEN access[a].paid ELSE 0
        /\ access[a].revoked => access[a].item \in released

\* "The Coins leave through the shared spend service and the entitlement row is
\* written in the same transaction": every access has a movement of its own, of
\* its member and of its price.
EveryAccessPaid ==
    \A a \in DOMAIN access :
        /\ ledger[access[a].movement].member = access[a].member
        /\ ledger[access[a].movement].amount = access[a].paid
        /\ \A b \in DOMAIN access : access[b].movement = access[a].movement => a = b

\* A movement is what one access of each table was bought with, whatever keys
\* requests share: the retry of a request never opens a second row.
MovementOpensOnce ==
    \A a, b \in DOMAIN access :
        /\ access[a].movement = access[b].movement
        /\ SameTable(access[a].item, access[b].item)
        => a = b

\* "Anything that already opens the episode: a plan, the episode itself, or the
\* whole series": no member pays for what is open already.
NothingBoughtTwice ==
    \A a, b \in Live :
        /\ access[a].member = access[b].member
        /\ \/ access[a].item = access[b].item
           \/ access[a].item \in Episodes /\ access[b].item = MovieOf[access[a].item]
        => a = b

\* BR-52: nobody is left having paid for an episode that is gone.
NobodyPaidForGone ==
    \A a \in Live : RefundOnRemoval /\ access[a].item \in Episodes
                       => status[access[a].item] # "UNPUBLISHED"

\* "The same for a movie taken down for good: the bundle every member bought is
\* paid back."
CancelledBundleRefunded ==
    \A a \in Live : access[a].item \in Movies => movie[access[a].item] # "CANCELLED"

\* BR-39: a project is cancelled only while no episode was ever published.
CancelledNeverReleased ==
    \A e \in released : movie[MovieOf[e]] # "CANCELLED"

\* What is on sale now was released at least once.
PublishedWasReleased == \A e \in Episodes : status[e] = "PUBLISHED" => e \in released

\* Every access row names a movement that was written.
MovementsExist == \A a \in DOMAIN access : access[a].movement \in DOMAIN ledger

\* The part of TypeOK that speaks of rows.
RowsTyped ==
    /\ status \in [Episodes -> EpisodeStatus]
    /\ released \subseteq Episodes
    /\ price \in [Items -> Nat \cup {NoPrice}]
    /\ ledger \in Seq(Movement)
    /\ access \in Seq(Access)
    /\ req \in [Requests -> Request \cup {Idle}]

\* The inductive strengthening of RefundedExactly and MovementOpensOnce.
IInv ==
    /\ RowsTyped
    /\ PublishedWasReleased
    /\ MovementsExist
    /\ RefundedExactly
    /\ MovementOpensOnce

\* A purchase that moved Coins wrote its row with them, and no row is deleted.
MovementsHaveRows == \A n \in DOMAIN ledger : \E a \in DOMAIN access : access[a].movement = n

\* The inductive strengthening of TypeOK and CoinsAccounted, on top of IInv.
CoinsInv ==
    /\ TypeOK
    /\ MovementsHaveRows
    /\ CoinsAccounted
=============================================================================
