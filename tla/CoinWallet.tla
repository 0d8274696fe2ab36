------------------------------ MODULE CoinWallet ------------------------------
(***************************************************************************)
(* The Coin wallet of a member: two counters (main and bonus), the bonus   *)
(* lots that remember when their Coins run out, and the append-only ledger *)
(* that explains every move.                                               *)
(*                                                                         *)
(* Callers (a purchase, a top-up, a plan, the Admin) run concurrently.     *)
(* A call is two steps: Begin reads the clock and, for spend and credit,   *)
(* looks the idempotency key up; Commit holds the FOR UPDATE lock of the   *)
(* wallet row from its first read to the end of the transaction, so it is  *)
(* one atomic step.  What lies between the two is exactly what the code    *)
(* does before it waits for the lock.  The bonus-expiry sweep reads its    *)
(* batch in a query of its own and expires each lot in one transaction.    *)
(*                                                                         *)
(* One ledger entry stands for the rows of one movement: the code writes a *)
(* row per lot debited, all in one INSERT, the first carrying the key.     *)
(***************************************************************************)
EXTENDS Integers, Sequences, FiniteSets, Functions

CONSTANTS
    Wallets,      \* the wallets, one per member
    Keys,         \* idempotency keys callers may send
    NoKey,        \* a call without a key
    Clients,      \* concurrent callers of spend, credit and apply
    Sweepers,     \* concurrent runs of the bonus-expiry sweep
    Idle,         \* a client or a sweeper with nothing under way
    ExpiryDays,   \* the lifetimes a bonus credit may ask for
    Batch,        \* lots one query of the sweep returns
    Spends,       \* bound: the amounts callers spend
    Credits,      \* bound: the [main, bonus] pairs callers credit
    Corrections,  \* bound: the [main, bonus] pairs the Admin asks for
    MaxTime,      \* bound: the clock
    MaxEntries    \* bound: no new call once a wallet has this many entries

ASSUME ConstantsAssumption ==
    /\ NoKey \notin Keys
    /\ ExpiryDays \subseteq Nat \ {0}
    /\ Batch \in Nat \ {0}
    /\ Spends \subseteq Nat
    /\ Credits \subseteq [main : Nat, bonus : Nat]
    /\ Corrections \subseteq [main : Int, bonus : Int]
    /\ MaxTime \in Nat /\ MaxEntries \in Nat

VARIABLES
    now,      \* the clock
    wallet,   \* coin_wallets: the two counters
    lots,     \* coin_lots, in creation order; a lot's id is its index
    ledger,   \* coin_transactions of each wallet, in commit order
    req,      \* the call each client has under way
    sweep     \* the batch each sweeper is working through

vars == <<now, wallet, lots, ledger, req, sweep>>

LotIds == DOMAIN lots

Request == [kind : {"spend", "credit", "adjust"}, wallet : Wallets, main : Int, bonus : Int,
            days : Nat, key : Keys \cup {NoKey}, at : Nat]

Lot == [wallet : Wallets, original : Nat, remaining : Nat, grantedAt : Nat,
        expiresAt : Nat, closed : BOOLEAN]

Run == [at : Nat, due : SUBSET [id : Nat, amount : Nat], full : BOOLEAN]

Entry == [type : {"SPEND", "CREDIT", "ADJUSTMENT", "BONUS_EXPIRY"}, main : Int, bonus : Int,
          lots : SUBSET Nat, key : Keys \cup {NoKey}, mainAfter : Int, bonusAfter : Int]

-----------------------------------------------------------------------------
(* What a transaction reads and writes once it holds the wallet row.        *)

\* Mutant: Math.max for Math.min.
Larger(a, b) == IF a < b THEN b ELSE a

Smaller(a, b) == IF a < b THEN a ELSE b

KeyUsed(key) == \E w \in Wallets : \E i \in DOMAIN ledger[w] : ledger[w][i].key = key

\* replayed: an earlier movement answers the call.
Replayed(key) == key # NoKey /\ KeyUsed(key)

\* Mutant: only the look-up, no unique index.
NoUniqueIndex(key) == TRUE

\* The unique index on idempotency_key accepts the entry; NULL never collides.
KeyFree(key) == key = NoKey \/ ~KeyUsed(key)

Spendable(w, at) ==
    {l \in LotIds : /\ lots[l].wallet = w
                    /\ lots[l].remaining > 0
                    /\ ~lots[l].closed
                    /\ lots[l].expiresAt > at}

Remaining(S) == SumFunctionOnSet([l \in S |-> lots[l].remaining], S)

RunsOutBefore(k, l) ==
    \/ lots[k].expiresAt < lots[l].expiresAt
    \/ lots[k].expiresAt = lots[l].expiresAt /\ lots[k].grantedAt < lots[l].grantedAt

\* Mutant: lots in any order.
UnorderedDebits(S, amount) ==
    {d \in [S -> 0..amount] :
        (\A l \in S : d[l] <= lots[l].remaining) /\ SumFunctionOnSet(d, S) = amount}

\* Mutant: more may be taken than a lot holds.
UnboundedDebits(S, amount) == {d \in [S -> 0..amount] : SumFunctionOnSet(d, S) = amount}

\* The ways consumeLots may take amount out of S: lot after lot in the order of
\* the query, where rows that tie may come in either order.
LotDebits(S, amount) ==
    {d \in [S -> 0..amount] :
        /\ \A l \in S : d[l] <= lots[l].remaining
        /\ SumFunctionOnSet(d, S) = amount
        /\ \A k, l \in S : d[l] > 0 /\ RunsOutBefore(k, l) => d[k] = lots[k].remaining
        /\ \A k, l \in S : /\ d[k] \in 1..(lots[k].remaining - 1)
                           /\ d[l] \in 1..(lots[l].remaining - 1)
                           => k = l}

\* Mutants: an emptied lot stays open; the whole lot goes; the sign is wrong.
NeverClosed(lot, amount) == [lot EXCEPT !.remaining = lot.remaining - amount]
WholeLot(lot, amount) == [lot EXCEPT !.remaining = 0, !.closed = TRUE]
Added(lot, amount) == [lot EXCEPT !.remaining = lot.remaining + amount]

Consumed(lot, amount) ==
    [lot EXCEPT !.remaining = lot.remaining - amount,
                !.closed = IF lot.remaining = amount THEN TRUE ELSE FALSE]

ConsumeLots(d) ==
    lots' = [l \in LotIds |-> IF l \in DOMAIN d /\ d[l] > 0 THEN Consumed(lots[l], d[l]) ELSE lots[l]]

NewLot(w, amount, days, at) ==
    [wallet |-> w, original |-> amount, remaining |-> amount,
     grantedAt |-> at, expiresAt |-> at + days, closed |-> FALSE]

\* Mutant: a grant of one Coin opens no lot.
NoLotForOne(w, amount, days, at) ==
    lots' = IF amount > 1 THEN Append(lots, NewLot(w, amount, days, at)) ELSE lots

OpenLot(w, amount, days, at) ==
    lots' = IF amount > 0 THEN Append(lots, NewLot(w, amount, days, at)) ELSE lots

OpenedLot(amount) == IF amount > 0 THEN {Len(lots) + 1} ELSE {}

Movement(w, type, main, bonus, touched, key) ==
    [type |-> type, main |-> main, bonus |-> bonus, lots |-> touched, key |-> key,
     mainAfter |-> wallet[w].main + main, bonusAfter |-> wallet[w].bonus + bonus]

\* Mutant: the bonus counter is not written.
PostMainOnly(w, entry) ==
    /\ ledger' = [ledger EXCEPT ![w] = Append(ledger[w], entry)]
    /\ wallet' = [wallet EXCEPT ![w] = [main |-> entry.mainAfter, bonus |-> wallet[w].bonus]]

\* createManyAndReturn and bumpWallet: the entry and the counters it explains.
Post(w, entry) ==
    /\ ledger' = [ledger EXCEPT ![w] = Append(ledger[w], entry)]
    /\ wallet' = [wallet EXCEPT ![w] = [main |-> entry.mainAfter, bonus |-> entry.bonusAfter]]

-----------------------------------------------------------------------------
(* What the Coin screen answers before a member pays, read under no lock.   *)

SpendableBonus(w) == Remaining(Spendable(w, now))

PlannedSplit(main, bonus, amount) ==
    LET mainCoins == Smaller(main, amount)
    IN  [main |-> mainCoins, bonus |-> Smaller(bonus, amount - mainCoins)]

\* affordability: whether the wallet covers a price, and out of which Coins.
Affordability(w, amount) ==
    LET split == PlannedSplit(wallet[w].main, SpendableBonus(w), amount)
    IN  [enough |-> split.main + split.bonus >= amount, split |-> split]

-----------------------------------------------------------------------------
Init ==
    /\ now = 0
    /\ wallet = [w \in Wallets |-> [main |-> 0, bonus |-> 0]]
    /\ lots = << >>
    /\ ledger = [w \in Wallets |-> << >>]
    /\ req = [c \in Clients |-> Idle]
    /\ sweep = [s \in Sweepers |-> Idle]

Tick ==
    /\ now < MaxTime
    /\ now' = now + 1
    /\ UNCHANGED <<wallet, lots, ledger, req, sweep>>

Begin(c, r) ==
    /\ req[c] = Idle
    /\ Len(ledger[r.wallet]) < MaxEntries
    /\ req' = [req EXCEPT ![c] = r]
    /\ UNCHANGED <<now, wallet, lots, ledger, sweep>>

\* spend up to the lock: a key already used answers the earlier movement instead.
BeginSpend(c, w, amount, key) ==
    /\ ~Replayed(key)
    /\ amount > 0
    /\ Begin(c, [kind |-> "spend", wallet |-> w, main |-> amount, bonus |-> 0,
                 days |-> 0, key |-> key, at |-> now])

\* credit up to the lock.
BeginCredit(c, w, amount, days, key) ==
    /\ ~Replayed(key)
    /\ amount.main # 0 \/ amount.bonus # 0
    /\ Begin(c, [kind |-> "credit", wallet |-> w, main |-> amount.main, bonus |-> amount.bonus,
                 days |-> IF amount.bonus > 0 THEN days ELSE 0, key |-> key, at |-> now])

\* apply up to the lock: the Admin's correction carries no key, moves something,
\* and never takes bonus Coins together with a main move.
BeginAdjust(c, w, amount, days) ==
    /\ amount.main # 0 \/ amount.bonus # 0
    /\ amount.bonus < 0 => amount.main = 0
    /\ Begin(c, [kind |-> "adjust", wallet |-> w, main |-> amount.main, bonus |-> amount.bonus,
                 days |-> IF amount.bonus > 0 THEN days ELSE 0, key |-> NoKey, at |-> now])

\* spend after the lock: main Coins first, the rest out of the lots.
CommitSpend(c) ==
    LET r == req[c]
        w == r.wallet
        mainCoins == Smaller(wallet[w].main, r.main)
        open == Spendable(w, r.at)
    IN  /\ r # Idle /\ r.kind = "spend"
        /\ Remaining(open) >= r.main - mainCoins
        /\ KeyFree(r.key)
        /\ \E d \in LotDebits(open, r.main - mainCoins) :
              /\ ConsumeLots(d)
              /\ Post(w, Movement(w, "SPEND", -mainCoins, -(r.main - mainCoins),
                                  {l \in open : d[l] > 0}, r.key))
        /\ req' = [req EXCEPT ![c] = Idle]
        /\ UNCHANGED <<now, sweep>>

\* credit after the lock: bonus Coins always land in a lot of their own.
CommitCredit(c) ==
    LET r == req[c]
        w == r.wallet
    IN  /\ r # Idle /\ r.kind = "credit"
        /\ KeyFree(r.key)
        /\ OpenLot(w, r.bonus, r.days, r.at)
        /\ Post(w, Movement(w, "CREDIT", r.main, r.bonus, OpenedLot(r.bonus), r.key))
        /\ req' = [req EXCEPT ![c] = Idle]
        /\ UNCHANGED <<now, sweep>>

\* debitMain: a main move either way, with a bonus grant or without.
CommitAdjustMain(c) ==
    LET r == req[c]
        w == r.wallet
    IN  /\ r # Idle /\ r.kind = "adjust" /\ r.bonus >= 0
        /\ wallet[w].main + r.main >= 0
        /\ OpenLot(w, r.bonus, r.days, r.at)
        /\ Post(w, Movement(w, "ADJUSTMENT", r.main, r.bonus, OpenedLot(r.bonus), NoKey))
        /\ req' = [req EXCEPT ![c] = Idle]
        /\ UNCHANGED <<now, sweep>>

\* debitBonus: the lots lose the Coins the way a purchase takes them.
CommitAdjustBonus(c) ==
    LET r == req[c]
        w == r.wallet
        open == Spendable(w, r.at)
    IN  /\ r # Idle /\ r.kind = "adjust" /\ r.bonus < 0
        /\ Remaining(open) >= -r.bonus
        /\ \E d \in LotDebits(open, -r.bonus) :
              /\ ConsumeLots(d)
              /\ Post(w, Movement(w, "ADJUSTMENT", 0, r.bonus, {l \in open : d[l] > 0}, NoKey))
        /\ req' = [req EXCEPT ![c] = Idle]
        /\ UNCHANGED <<now, sweep>>

\* The transaction rolls back: too few Coins (422), the key taken meanwhile
\* (unique index), the caller's own work fails, or the process dies.
Abort(c) ==
    /\ req[c] # Idle
    /\ req' = [req EXCEPT ![c] = Idle]
    /\ UNCHANGED <<now, wallet, lots, ledger, sweep>>

-----------------------------------------------------------------------------
(* The bonus-expiry sweep.                                                  *)

Due(at) == {l \in LotIds : lots[l].remaining > 0 /\ ~lots[l].closed /\ lots[l].expiresAt <= at}

\* take: BATCH, orderBy expiresAt: the batches one query may return.
Batches(at) ==
    {B \in SUBSET Due(at) :
        /\ Cardinality(B) = Smaller(Batch, Cardinality(Due(at)))
        /\ \A l \in B, k \in Due(at) \ B : lots[l].expiresAt <= lots[k].expiresAt}

\* The rows the query read; amount is lot.remainingAmount as it was then.
Snapshot(B, at) ==
    [at |-> at, due |-> {[id |-> l, amount |-> lots[l].remaining] : l \in B},
     full |-> Cardinality(B) >= Batch]

SweepStart(s) ==
    /\ sweep[s] = Idle
    /\ \E B \in Batches(now) \ {{}} : sweep' = [sweep EXCEPT ![s] = Snapshot(B, now)]
    /\ UNCHANGED <<now, wallet, lots, ledger, req>>

\* Mutant: the update does not ask whether the lot is still open.
UpdateAlways(l) == TRUE

\* updateMany finds the lot still open.
UpdateHits(l) == ~lots[l].closed /\ lots[l].remaining > 0

\* expireBonus: the entry of the Coins that ran out, and the counter without them.
ExpireBonus(w, l, amount) == Post(w, Movement(w, "BONUS_EXPIRY", 0, -amount, {l}, NoKey))

\* expire(lot): close the lot unless another writer emptied it, and take the
\* amount the query read out of the wallet.
SweepExpire(s) ==
    /\ sweep[s] # Idle
    /\ \E row \in sweep[s].due :
          /\ \A other \in sweep[s].due : lots[row.id].expiresAt <= lots[other.id].expiresAt
          /\ sweep' = [sweep EXCEPT ![s] = [sweep[s] EXCEPT !.due = sweep[s].due \ {row}]]
          /\ IF ~UpdateHits(row.id)
             THEN UNCHANGED <<wallet, lots, ledger>>
             ELSE LET w == lots[row.id].wallet
                  IN  /\ lots' = [lots EXCEPT ![row.id] = Consumed(lots[row.id], lots[row.id].remaining)]
                      /\ ExpireBonus(w, row.id, row.amount)
    /\ UNCHANGED <<now, req>>

\* Mutant: the loop never breaks.
SweepForever(s) ==
    /\ sweep[s] # Idle
    /\ sweep[s].due = {}
    /\ \E B \in Batches(sweep[s].at) : sweep' = [sweep EXCEPT ![s] = Snapshot(B, sweep[s].at)]
    /\ UNCHANGED <<now, wallet, lots, ledger, req>>

\* A full batch asks for the next one, at the instant the sweep began.
SweepNext(s) ==
    /\ sweep[s] # Idle
    /\ sweep[s].due = {}
    /\ \E B \in Batches(sweep[s].at) :
          sweep' = [sweep EXCEPT ![s] =
                       IF sweep[s].full /\ B # {} THEN Snapshot(B, sweep[s].at) ELSE Idle]
    /\ UNCHANGED <<now, wallet, lots, ledger, req>>

\* A transaction of the sweep fails, or the process dies: the run is over and
\* the next one starts from the database.
SweepAbort(s) ==
    /\ sweep[s] # Idle
    /\ sweep' = [sweep EXCEPT ![s] = Idle]
    /\ UNCHANGED <<now, wallet, lots, ledger, req>>

-----------------------------------------------------------------------------
Call(c) ==
    \E w \in Wallets :
        \/ \E amount \in Spends, key \in Keys \cup {NoKey} : BeginSpend(c, w, amount, key)
        \/ \E amount \in Credits, days \in ExpiryDays, key \in Keys \cup {NoKey} :
              BeginCredit(c, w, amount, days, key)
        \/ \E amount \in Corrections, days \in ExpiryDays : BeginAdjust(c, w, amount, days)

Commit(c) ==
    \/ CommitSpend(c)
    \/ CommitCredit(c)
    \/ CommitAdjustMain(c)
    \/ CommitAdjustBonus(c)

Sweep(s) ==
    \/ SweepStart(s)
    \/ SweepExpire(s)
    \/ SweepNext(s)

Next ==
    \/ Tick
    \/ \E c \in Clients : Call(c) \/ Commit(c) \/ Abort(c)
    \/ \E s \in Sweepers : Sweep(s) \/ SweepAbort(s)

Spec == Init /\ [][Next]_vars

\* The sweep is a repeatable job: it is started again and again, and a failed
\* run is retried, so a lot whose turn comes in run after run is expired in one.
Fairness ==
    \A s \in Sweepers :
        /\ WF_vars(SweepStart(s))
        /\ WF_vars(SweepNext(s))
        /\ SF_vars(SweepExpire(s))

FairSpec == Spec /\ Fairness

-----------------------------------------------------------------------------
(* Properties.                                                              *)

\* Every variable has the type of its table or of the call it stands for.
TypeOK ==
    /\ now \in Nat
    /\ wallet \in [Wallets -> [main : Int, bonus : Int]]
    /\ lots \in Seq(Lot)
    /\ ledger \in [Wallets -> Seq(Entry)]
    /\ req \in [Clients -> Request \cup {Idle}]
    /\ sweep \in [Sweepers -> Run \cup {Idle}]

\* The balances of a wallet before its i-th movement.
BalanceBefore(w, i) ==
    IF i = 1 THEN [main |-> 0, bonus |-> 0]
    ELSE [main |-> ledger[w][i-1].mainAfter, bonus |-> ledger[w][i-1].bonusAfter]

\* "The wallet is never out of step with its ledger": every entry's balances are
\* those of the entry before it plus what it moved, from an empty wallet to the
\* two counters as they stand.
LedgerExplainsWallet ==
    \A w \in Wallets :
        /\ \A i \in DOMAIN ledger[w] :
              /\ ledger[w][i].mainAfter = BalanceBefore(w, i).main + ledger[w][i].main
              /\ ledger[w][i].bonusAfter = BalanceBefore(w, i).bonus + ledger[w][i].bonus
        /\ wallet[w] = BalanceBefore(w, Len(ledger[w]) + 1)

\* Main Coins are never overdrawn, by callers that each planned against an
\* older balance or by a correction of the Admin.
MainNeverNegative == \A w \in Wallets : wallet[w].main >= 0

\* A key moves Coins once over all wallets and callers, although it is looked up
\* before the lock and two calls with one key may both pass that look-up.
KeyMovesCoinsOnce ==
    \A v, w \in Wallets : \A i \in DOMAIN ledger[v], j \in DOMAIN ledger[w] :
        /\ ledger[v][i].key # NoKey
        /\ ledger[v][i].key = ledger[w][j].key
        => v = w /\ i = j

\* However many sweeps overlap, a lot is expired at most once, and what expires
\* is a lot of that wallet which is closed from then on.
LotExpiresOnce ==
    \A w \in Wallets : \A i, j \in DOMAIN ledger[w] :
        /\ ledger[w][i].type = "BONUS_EXPIRY"
        /\ ledger[w][j].type = "BONUS_EXPIRY"
        /\ ledger[w][i].lots \cap ledger[w][j].lots # {}
        => i = j

\* A lot holds between nothing and what it was opened with, and it is closed
\* exactly when it is empty: no debit takes a Coin that is not there.
LotsAccounted ==
    \A l \in LotIds :
        /\ lots[l].remaining \in 0..lots[l].original
        /\ lots[l].closed <=> lots[l].remaining = 0

LotsOf(w) == {l \in LotIds : lots[l].wallet = w}

Expired(w) == \E i \in DOMAIN ledger[w] : ledger[w][i].type = "BONUS_EXPIRY"

\* The bonus counter never promises a Coin no lot holds: a debit that the
\* counter allows always finds its lots.
BonusBackedByLots == \A w \in Wallets : wallet[w].bonus <= Remaining(LotsOf(w))

\* As long as no lot of the wallet ran out, the bonus balance is the sum of its
\* lots, whatever spends, credits and corrections raced for it.
BonusIsLotSumUntilExpiry ==
    \A w \in Wallets : ~Expired(w) => wallet[w].bonus = Remaining(LotsOf(w))

\* The bonus counter and the lots agree, exactly until the first lot ran out and
\* never in favour of the counter afterwards.
BonusIsBacked == BonusBackedByLots /\ BonusIsLotSumUntilExpiry

\* The comment on lockWallet: serialising the writers keeps the wallet "never
\* negative".  The sweep subtracts an amount it read before it took the lock.
BonusNeverNegative == \A w \in Wallets : wallet[w].bonus >= 0

\* No debit takes what is not there, neither from the main Coins nor from a lot.
NothingOverdrawn == MainNeverNegative /\ LotsAccounted

\* What a call may hold between its two steps: only Coins that are there to give
\* are credited, and a correction that takes bonus Coins moves no main Coin.
CallsWellFormed ==
    \A c \in Clients : req[c] # Idle =>
        /\ req[c].kind = "spend" => req[c].main > 0 /\ req[c].bonus = 0
        /\ req[c].kind = "credit" => req[c].main >= 0 /\ req[c].bonus >= 0
        /\ req[c].kind = "adjust" /\ req[c].bonus < 0 => req[c].main = 0

\* Rows a sweep still has to expire, and lots the ledger names as expired, exist;
\* the latter are closed.
SweptLotsExist ==
    /\ \A s \in Sweepers : sweep[s] # Idle => \A row \in sweep[s].due : row.id \in LotIds
    /\ \A w \in Wallets : \A i \in DOMAIN ledger[w] :
          ledger[w][i].type = "BONUS_EXPIRY" =>
              ledger[w][i].lots \subseteq {l \in LotIds : lots[l].closed}

\* The inductive strengthening of the safety invariants.
IInv ==
    /\ TypeOK
    /\ LedgerExplainsWallet
    /\ MainNeverNegative
    /\ KeyMovesCoinsOnce
    /\ LotExpiresOnce
    /\ LotsAccounted
    /\ CallsWellFormed
    /\ SweptLotsExist

\* A sweep never takes less out of a wallet than the lot still holds: what it
\* read can only have drained since.
SweptAmountsCover ==
    \A s \in Sweepers : sweep[s] # Idle =>
        \A row \in sweep[s].due : lots[row.id].remaining <= row.amount

\* No call began later than now.
CallsNotAhead == \A c \in Clients : req[c] # Idle => req[c].at <= now

\* What the sums over lots need on top of IInv.
BackingInv == SweptAmountsCover /\ CallsNotAhead /\ BonusIsBacked

\* A closed lot is never reopened or debited again, and a lot never grows.
LotsOnlyDrain ==
    [][\A l \in LotIds :
          /\ lots[l].closed => lots'[l] = lots[l]
          /\ lots'[l].remaining <= lots[l].remaining]_lots

\* What ran out leaves its wallet once and never comes back.
ExpiryIsFinal == []LotExpiresOnce /\ LotsOnlyDrain

\* The step spends Coins of wallet w out of its lots, too.
SpendsBonus(w) ==
    LET e == ledger'[w][Len(ledger'[w])]
    IN  ledger'[w] # ledger[w] /\ e.type = "SPEND" /\ e.bonus < 0

\* No spendable lot that runs out before one the last movement of w touched keeps a Coin.
FirstToExpireFirst(w) ==
    \A k \in LotsOf(w), l \in ledger'[w][Len(ledger'[w])].lots :
        RunsOutBefore(k, l) /\ lots[k].expiresAt > now => lots'[k].remaining = 0

\* A movement that takes bonus Coins of a spend leaves no main Coin unspent, and
\* takes them from the lots that run out first.
MainThenFirstToExpire ==
    [][\A w \in Wallets : SpendsBonus(w) => wallet'[w].main = 0 /\ FirstToExpireFirst(w)]_ledger

\* The step completes a spend of c that began at this instant.
SpendsAtOnce(c) ==
    /\ req[c] # Idle /\ req[c].kind = "spend" /\ req[c].at = now
    /\ ledger'[req[c].wallet] # ledger[req[c].wallet]
    /\ req'[c] = Idle

\* The step takes from w what the Coin screen answers for that amount.
TakesTheQuote(w, amount) ==
    LET quote == Affordability(w, amount)
    IN  /\ quote.enough
        /\ wallet'[w].main = wallet[w].main - quote.split.main
        /\ wallet'[w].bonus = wallet[w].bonus - quote.split.bonus

\* A purchase that began at this instant costs what the Coin screen says it does:
\* the screen, which sums the lots under no lock, answers "enough", and main and
\* bonus Coins drop by the split it plans, whatever the other callers did before.
QuotedIsCharged ==
    [][\A c \in Clients : SpendsAtOnce(c) => TakesTheQuote(req[c].wallet, req[c].main)]_ledger

\* A spend takes the Coins the screen said it would, and in the promised order.
SpendAsQuoted == MainThenFirstToExpire /\ QuotedIsCharged

\* A lot whose time is up leaves its wallet in the end, although sweeps overlap
\* and fail half-way.
ExpiredLotCloses ==
    \A l \in 1..(MaxEntries + Cardinality(Clients)) :
        (l \in LotIds /\ lots[l].expiresAt <= now) ~> (l \in LotIds /\ lots[l].closed)
=============================================================================
