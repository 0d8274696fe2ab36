--------------------------- MODULE CoinWalletProofs ---------------------------
(***************************************************************************)
(* Proofs about CoinWallet, for every set of wallets, callers, sweepers    *)
(* and keys and for every amount: IInv is inductive; with BackingInv,      *)
(* which sums over lots, the bonus balance is what the lots hold and a     *)
(* spend takes what it quoted.  The last section is about the message of   *)
(* the outbox that MCJobs lets work beside the wallet.                     *)
(***************************************************************************)
EXTENDS MCJobs, SumTheorems, TLAPS

(***************************************************************************)
(* Post.  Whatever moves Coins appends one entry to one ledger and copies  *)
(* its balances into the counters.                                         *)
(***************************************************************************)

Types == {"SPEND", "CREDIT", "ADJUSTMENT", "BONUS_EXPIRY"}

\* What Post changes, entry by entry.
LEMMA PostEffect ==
    ASSUME TypeOK, NEW w \in Wallets, NEW e \in Entry, Post(w, e)
    PROVE  /\ ledger' \in [Wallets -> Seq(Entry)]
           /\ wallet' \in [Wallets -> [main : Int, bonus : Int]]
           /\ wallet'[w] = [main |-> e.mainAfter, bonus |-> e.bonusAfter]
           /\ Len(ledger'[w]) = Len(ledger[w]) + 1
           /\ ledger'[w][Len(ledger[w]) + 1] = e
           /\ \A i \in DOMAIN ledger[w] : ledger'[w][i] = ledger[w][i]
           /\ DOMAIN ledger'[w] = DOMAIN ledger[w] \cup {Len(ledger[w]) + 1}
           /\ \A v \in Wallets \ {w} : ledger'[v] = ledger[v] /\ wallet'[v] = wallet[v]
<1>1. ledger \in [Wallets -> Seq(Entry)] /\ wallet \in [Wallets -> [main : Int, bonus : Int]]
  BY DEF TypeOK
<1>2. ledger' = [ledger EXCEPT ![w] = Append(ledger[w], e)]
  BY DEF Post
<1>3. wallet' = [wallet EXCEPT ![w] = [main |-> e.mainAfter, bonus |-> e.bonusAfter]]
  BY DEF Post
<1>4. e.mainAfter \in Int /\ e.bonusAfter \in Int
  BY DEF Entry
<1>5. wallet' \in [Wallets -> [main : Int, bonus : Int]] /\ wallet'[w] = [main |-> e.mainAfter, bonus |-> e.bonusAfter]
  BY <1>1, <1>3, <1>4
<1>6. Append(ledger[w], e) \in Seq(Entry)
  BY <1>1
<1>7. ledger' \in [Wallets -> Seq(Entry)] /\ ledger'[w] = Append(ledger[w], e)
  BY <1>1, <1>2, <1>6
<1>8. \A v \in Wallets \ {w} : ledger'[v] = ledger[v] /\ wallet'[v] = wallet[v]
  BY <1>1, <1>2, <1>3
<1>9. /\ Len(ledger'[w]) = Len(ledger[w]) + 1
      /\ ledger'[w][Len(ledger[w]) + 1] = e
      /\ \A i \in DOMAIN ledger[w] : ledger'[w][i] = ledger[w][i]
      /\ DOMAIN ledger'[w] = DOMAIN ledger[w] \cup {Len(ledger[w]) + 1}
  BY <1>1, <1>7
<1> QED
  BY <1>5, <1>7, <1>8, <1>9

\* A movement is an entry of its wallet.
LEMMA MovementType ==
    ASSUME TypeOK, NEW w \in Wallets, NEW type \in Types, NEW main \in Int, NEW bonus \in Int,
           NEW touched \in SUBSET Nat, NEW key \in Keys \cup {NoKey}
    PROVE  /\ Movement(w, type, main, bonus, touched, key) \in Entry
           /\ Movement(w, type, main, bonus, touched, key).mainAfter = wallet[w].main + main
           /\ Movement(w, type, main, bonus, touched, key).bonusAfter = wallet[w].bonus + bonus
  BY DEF TypeOK, Movement, Entry, Types

\* Posting a movement keeps the ledger in step with the counters.
LEMMA PostKeepsLedger ==
    ASSUME TypeOK, LedgerExplainsWallet, NEW w \in Wallets, NEW e \in Entry, Post(w, e),
           e.mainAfter = wallet[w].main + e.main, e.bonusAfter = wallet[w].bonus + e.bonus
    PROVE  LedgerExplainsWallet'
<1> DEFINE n == Len(ledger[w])
<1>1. n \in Nat /\ DOMAIN ledger[w] = 1..n
  BY DEF TypeOK
<1>2. \A v \in Wallets \ {w} : ledger'[v] = ledger[v] /\ wallet'[v] = wallet[v]
  BY PostEffect
<1>3. /\ wallet'[w] = [main |-> e.mainAfter, bonus |-> e.bonusAfter]
      /\ Len(ledger'[w]) = n + 1 /\ ledger'[w][n + 1] = e
      /\ \A i \in 1..n : ledger'[w][i] = ledger[w][i]
      /\ DOMAIN ledger'[w] = 1..(n + 1)
  BY PostEffect, <1>1
<1>4. \A i \in 1..(n + 1) : BalanceBefore(w, i)' = BalanceBefore(w, i)
  <2> TAKE i \in 1..(n + 1)
  <2>1. CASE i = 1
    BY <2>1 DEF BalanceBefore
  <2>2. CASE i # 1
    <3>1. i - 1 \in 1..n /\ ledger'[w][i - 1] = ledger[w][i - 1]
      BY <1>1, <1>3, <2>2
    <3> QED
      BY <2>2, <3>1 DEF BalanceBefore
  <2> QED
    BY <2>1, <2>2
<1>5. wallet'[w] = BalanceBefore(w, Len(ledger[w]) + 1)'
  BY <1>1, <1>3 DEF BalanceBefore
<1>6. wallet[w] = BalanceBefore(w, n + 1)
  BY DEF LedgerExplainsWallet
<1>7. \A i \in 1..(n + 1) :
         /\ ledger'[w][i].mainAfter = BalanceBefore(w, i)'.main + ledger'[w][i].main
         /\ ledger'[w][i].bonusAfter = BalanceBefore(w, i)'.bonus + ledger'[w][i].bonus
  <2> TAKE i \in 1..(n + 1)
  <2>1. CASE i = n + 1
    BY <2>1, <1>3, <1>4, <1>6
  <2>2. CASE i \in 1..n
    BY <2>2, <1>1, <1>3, <1>4 DEF LedgerExplainsWallet
  <2> QED
    BY <1>1, <2>1, <2>2
<1>8. ASSUME NEW v \in Wallets \ {w}
      PROVE  /\ \A i \in DOMAIN ledger'[v] :
                  /\ ledger'[v][i].mainAfter = BalanceBefore(v, i)'.main + ledger'[v][i].main
                  /\ ledger'[v][i].bonusAfter = BalanceBefore(v, i)'.bonus + ledger'[v][i].bonus
             /\ wallet'[v] = BalanceBefore(v, Len(ledger[v]) + 1)'
  BY <1>2 DEF LedgerExplainsWallet, BalanceBefore
<1> SUFFICES ASSUME NEW v \in Wallets
             PROVE  /\ \A i \in DOMAIN ledger'[v] :
                         /\ ledger'[v][i].mainAfter = BalanceBefore(v, i)'.main + ledger'[v][i].main
                         /\ ledger'[v][i].bonusAfter = BalanceBefore(v, i)'.bonus + ledger'[v][i].bonus
                    /\ wallet'[v] = BalanceBefore(v, Len(ledger[v]) + 1)'
  BY DEF LedgerExplainsWallet
<1>9. CASE v = w
  BY <1>3, <1>5, <1>7, <1>9
<1> QED
  BY <1>8, <1>9

\* The unique index keeps a key to one entry over all wallets.
LEMMA PostKeepsKeys ==
    ASSUME TypeOK, KeyMovesCoinsOnce, NEW w \in Wallets, NEW e \in Entry, Post(w, e), KeyFree(e.key)
    PROVE  KeyMovesCoinsOnce'
<1> DEFINE n == Len(ledger[w])
<1>1. \A v \in Wallets \ {w} : ledger'[v] = ledger[v]
  BY PostEffect
<1>2. /\ ledger'[w][n + 1] = e
      /\ \A i \in DOMAIN ledger[w] : ledger'[w][i] = ledger[w][i]
      /\ DOMAIN ledger'[w] = DOMAIN ledger[w] \cup {n + 1}
  BY PostEffect
<1>3. e.key # NoKey => \A v \in Wallets : \A i \in DOMAIN ledger[v] : ledger[v][i].key # e.key
  BY DEF KeyFree, KeyUsed
<1> SUFFICES ASSUME NEW u \in Wallets, NEW v \in Wallets,
                    NEW i \in DOMAIN ledger'[u], NEW j \in DOMAIN ledger'[v],
                    ledger'[u][i].key # NoKey, ledger'[u][i].key = ledger'[v][j].key
             PROVE  u = v /\ i = j
  BY DEF KeyMovesCoinsOnce
<1>4. CASE (u = w /\ i = n + 1) /\ (v = w /\ j = n + 1)
  BY <1>4
<1>5. CASE (u = w /\ i = n + 1) /\ ~(v = w /\ j = n + 1)
  BY <1>1, <1>2, <1>3, <1>5
<1>6. CASE ~(u = w /\ i = n + 1) /\ (v = w /\ j = n + 1)
  BY <1>1, <1>2, <1>3, <1>6
<1>7. CASE ~(u = w /\ i = n + 1) /\ ~(v = w /\ j = n + 1)
  BY <1>1, <1>2, <1>7 DEF KeyMovesCoinsOnce
<1> QED
  BY <1>4, <1>5, <1>6, <1>7

(***************************************************************************)
(* Lots.  What the three ways to write them preserve.                      *)
(***************************************************************************)

\* No lot goes away, a closed lot stays as it is, and no lot grows.
LotsDrain == /\ LotIds \subseteq DOMAIN lots'
             /\ \A l \in LotIds : /\ lots[l].closed => lots'[l] = lots[l]
                                  /\ lots'[l].remaining <= lots[l].remaining

LEMMA SequenceOfFunction ==
    ASSUME NEW S, NEW n \in Nat, NEW f \in [1..n -> S]
    PROVE  f \in Seq(S) /\ Len(f) = n
  OBVIOUS

\* Every lot is a record of its type.
LEMMA LotFields ==
    ASSUME TypeOK, NEW l \in LotIds
    PROVE  lots[l] \in Lot /\ lots[l].remaining \in Nat /\ lots[l].closed \in BOOLEAN
<1>1. lots[l] \in Lot
  BY DEF TypeOK, LotIds
<1> QED
  BY <1>1 DEF Lot

\* Taking Coins out of a lot leaves the difference, and closes it at zero.
LEMMA ConsumedLot ==
    ASSUME NEW lot \in Lot, NEW amount \in 0..lot.remaining
    PROVE  /\ Consumed(lot, amount) \in Lot
           /\ Consumed(lot, amount).remaining = lot.remaining - amount
           /\ Consumed(lot, amount).original = lot.original
           /\ Consumed(lot, amount).wallet = lot.wallet
           /\ Consumed(lot, amount).closed <=> lot.remaining = amount
<1>1. PICK w \in Wallets, o \in Nat, r \in Nat, g \in Nat, e \in Nat, b \in BOOLEAN :
         lot = [wallet |-> w, original |-> o, remaining |-> r, grantedAt |-> g,
                expiresAt |-> e, closed |-> b]
  BY DEF Lot
<1> DEFINE closed == IF lot.remaining = amount THEN TRUE ELSE FALSE
<1>2. closed \in BOOLEAN /\ (closed <=> lot.remaining = amount)
  OBVIOUS
<1>3. Consumed(lot, amount) = [lot EXCEPT !.remaining = lot.remaining - amount, !.closed = closed]
  BY DEF Consumed
<1> HIDE DEF closed
<1>4. r - amount \in Nat /\ lot.remaining = r /\ lot.original = o
  BY <1>1
<1>5. Consumed(lot, amount) = [wallet |-> w, original |-> o, remaining |-> r - amount,
                               grantedAt |-> g, expiresAt |-> e, closed |-> closed]
  BY <1>1, <1>3
<1>6. Consumed(lot, amount) \in Lot
  BY <1>2, <1>4, <1>5 DEF Lot
<1>7. /\ Consumed(lot, amount).remaining = r - amount
      /\ Consumed(lot, amount).original = o
      /\ Consumed(lot, amount).wallet = w /\ lot.wallet = w
      /\ Consumed(lot, amount).closed = closed
  BY <1>1, <1>5
<1> QED
  BY <1>2, <1>4, <1>6, <1>7

\* consumeLots takes Coins that are there and closes what it empties.
LEMMA ConsumeEffect ==
    ASSUME TypeOK, LotsAccounted, NEW w \in Wallets, NEW at \in Nat, NEW amount \in Nat,
           NEW d \in LotDebits(Spendable(w, at), amount), ConsumeLots(d)
    PROVE  lots' \in Seq(Lot) /\ LotsAccounted' /\ LotsDrain
<1>1. lots \in Seq(Lot) /\ LotIds = 1..Len(lots) /\ Len(lots) \in Nat
  BY DEF TypeOK, LotIds
<1>2. /\ d \in [Spendable(w, at) -> 0..amount]
      /\ \A l \in Spendable(w, at) : d[l] <= lots[l].remaining
  BY DEF LotDebits
<1>3. \A l \in Spendable(w, at) : l \in LotIds /\ ~lots[l].closed
  BY DEF Spendable
<1>4. lots' = [l \in LotIds |-> IF l \in DOMAIN d /\ d[l] > 0 THEN Consumed(lots[l], d[l]) ELSE lots[l]]
  BY DEF ConsumeLots
<1>5. ASSUME NEW l \in LotIds
      PROVE  /\ lots'[l] \in Lot
             /\ lots'[l].remaining \in 0..lots'[l].original
             /\ lots'[l].closed <=> lots'[l].remaining = 0
             /\ lots[l].closed => lots'[l] = lots[l]
             /\ lots'[l].remaining <= lots[l].remaining
  <2>1. lots[l] \in Lot
    BY <1>1
  <2>2. lots[l].remaining \in 0..lots[l].original /\ (lots[l].closed <=> lots[l].remaining = 0)
    BY DEF LotsAccounted
  <2>3. CASE l \in DOMAIN d /\ d[l] > 0
    <3>1. lots'[l] = Consumed(lots[l], d[l])
      BY <1>4, <2>3
    <3>2. d[l] \in Nat /\ d[l] <= lots[l].remaining /\ ~lots[l].closed
      BY <1>2, <1>3, <2>3
    <3>3. d[l] \in 0..lots[l].remaining
      BY <3>2, <2>1 DEF Lot
    <3>4. /\ lots'[l].remaining = lots[l].remaining - d[l]
          /\ lots'[l].original = lots[l].original
          /\ lots'[l].closed <=> lots[l].remaining = d[l]
          /\ lots'[l] \in Lot
      BY <3>1, <3>3, <2>1, ConsumedLot
    <3> QED
      BY <3>2, <3>4, <2>1, <2>2 DEF Lot
  <2>4. CASE ~(l \in DOMAIN d /\ d[l] > 0)
    <3>1. lots'[l] = lots[l]
      BY <1>4, <2>4
    <3> QED
      BY <3>1, <2>1, <2>2 DEF Lot
  <2> QED
    BY <2>3, <2>4
<1>6. lots' \in [1..Len(lots) -> Lot]
  BY <1>1, <1>4, <1>5
<1>7. lots' \in Seq(Lot) /\ DOMAIN lots' = LotIds
  BY <1>1, <1>6, SequenceOfFunction
<1> QED
  BY <1>5, <1>7 DEF LotsAccounted, LotsDrain, LotIds

\* openLot adds a lot that holds all it was opened with.
LEMMA OpenEffect ==
    ASSUME TypeOK, LotsAccounted, NEW w \in Wallets, NEW amount \in Nat, NEW days \in Nat,
           NEW at \in Nat, OpenLot(w, amount, days, at)
    PROVE  lots' \in Seq(Lot) /\ LotsAccounted' /\ LotsDrain /\ OpenedLot(amount) \in SUBSET Nat
<1>1. lots \in Seq(Lot) /\ LotIds = 1..Len(lots) /\ Len(lots) \in Nat
  BY DEF TypeOK, LotIds
<1>2. OpenedLot(amount) \in SUBSET Nat
  BY <1>1 DEF OpenedLot
<1>3. CASE amount = 0
  <2>1. lots' = lots
    BY <1>3 DEF OpenLot
  <2>2. LotIds' = LotIds /\ LotsAccounted' /\ lots' \in Seq(Lot)
    BY <2>1, <1>1 DEF LotsAccounted, LotIds
  <2>3. LotsDrain
    BY <2>1, <1>1, LotFields DEF LotsDrain
  <2> QED
    BY <2>2, <2>3, <1>2
<1>4. CASE amount > 0
  <2> DEFINE lot == NewLot(w, amount, days, at)
  <2>1. lot \in Lot /\ lot.remaining = amount /\ lot.original = amount /\ lot.closed = FALSE
    BY DEF NewLot, Lot
  <2>2. lots' = Append(lots, lot)
    BY <1>4 DEF OpenLot
  <2> HIDE DEF lot
  <2>3. /\ lots' \in Seq(Lot) /\ DOMAIN lots' = 1..(Len(lots) + 1)
        /\ lots'[Len(lots) + 1] = lot
        /\ \A l \in LotIds : lots'[l] = lots[l]
    BY <1>1, <2>1, <2>2
  <2>4. LotsAccounted'
    <3> SUFFICES ASSUME NEW l \in DOMAIN lots'
                 PROVE  /\ lots'[l].remaining \in 0..lots'[l].original
                        /\ lots'[l].closed <=> lots'[l].remaining = 0
      BY DEF LotsAccounted, LotIds
    <3>1. CASE l = Len(lots) + 1
      BY <3>1, <2>1, <2>3, <1>4
    <3>2. CASE l \in LotIds
      BY <3>2, <2>3 DEF LotsAccounted
    <3> QED
      BY <3>1, <3>2, <2>3, <1>1
  <2>5. LotsDrain
    BY <2>3, <1>1, LotFields DEF LotsDrain
  <2> QED
    BY <2>3, <2>4, <2>5, <1>2
<1> QED
  BY <1>3, <1>4

\* Closing an expired lot takes what is left in it.
LEMMA CloseEffect ==
    ASSUME TypeOK, LotsAccounted, NEW k \in LotIds, ~lots[k].closed,
           lots' = [lots EXCEPT ![k] = Consumed(lots[k], lots[k].remaining)]
    PROVE  lots' \in Seq(Lot) /\ LotsAccounted' /\ LotsDrain /\ lots'[k].closed
<1>1. lots \in Seq(Lot) /\ LotIds = 1..Len(lots) /\ Len(lots) \in Nat
  BY DEF TypeOK, LotIds
<1>2. lots[k] \in Lot
  BY <1>1
<1>3. /\ Consumed(lots[k], lots[k].remaining) \in Lot
      /\ Consumed(lots[k], lots[k].remaining).remaining = 0
      /\ Consumed(lots[k], lots[k].remaining).closed
  <2>1. lots[k].remaining \in 0..lots[k].remaining /\ lots[k].remaining - lots[k].remaining = 0
    BY <1>2 DEF Lot
  <2> QED
    BY <2>1, <1>2, ConsumedLot
<1> DEFINE new == Consumed(lots[k], lots[k].remaining)
<1> HIDE DEF new
<1>4. /\ lots' \in [1..Len(lots) -> Lot] /\ lots'[k] = new
      /\ \A l \in LotIds \ {k} : lots'[l] = lots[l]
  BY <1>1, <1>3 DEF new
<1>5. lots' \in Seq(Lot) /\ DOMAIN lots' = LotIds
  BY <1>1, <1>4, SequenceOfFunction
<1>6. new \in Lot /\ new.remaining = 0 /\ new.closed
  BY <1>3 DEF new
<1>7. \A l \in LotIds : /\ lots'[l].remaining \in 0..lots'[l].original
                        /\ lots'[l].closed <=> lots'[l].remaining = 0
  <2> TAKE l \in LotIds
  <2>1. CASE l = k
    BY <2>1, <1>4, <1>6 DEF Lot
  <2>2. CASE l # k
    BY <2>2, <1>4 DEF LotsAccounted
  <2> QED
    BY <2>1, <2>2
<1>8. LotsAccounted'
  BY <1>5, <1>7 DEF LotsAccounted, LotIds
<1>9. LotsDrain
  BY <1>4, <1>5, <1>6, LotFields DEF LotsDrain
<1> QED
  BY <1>4, <1>5, <1>6, <1>8, <1>9

(***************************************************************************)
(* The two kinds of step: those that leave wallets, lots and ledger alone, *)
(* and those that post one movement.                                       *)
(***************************************************************************)

\* The calls and runs under way are of their types after the step.
PendingOK ==
    /\ now \in Nat
    /\ req \in [Clients -> Request \cup {Idle}]
    /\ sweep \in [Sweepers -> Run \cup {Idle}]
    /\ CallsWellFormed
    /\ \A s \in Sweepers : sweep[s] # Idle => \A row \in sweep[s].due : row.id \in LotIds

LEMMA QuietStep ==
    ASSUME IInv, PendingOK', UNCHANGED <<wallet, lots, ledger>>
    PROVE  IInv'
<1>1. UNCHANGED wallet /\ UNCHANGED lots /\ UNCHANGED ledger
  OBVIOUS
<1>2. TypeOK'
  BY <1>1 DEF IInv, TypeOK, PendingOK, LotIds
<1>3. LedgerExplainsWallet' /\ MainNeverNegative'
  BY <1>1 DEF IInv, LedgerExplainsWallet, BalanceBefore, MainNeverNegative
<1>4. KeyMovesCoinsOnce' /\ LotExpiresOnce'
  BY <1>1 DEF IInv, KeyMovesCoinsOnce, LotExpiresOnce
<1>5. LotsAccounted' /\ CallsWellFormed' /\ SweptLotsExist'
  BY <1>1 DEF IInv, LotsAccounted, PendingOK, SweptLotsExist, LotIds
<1> QED
  BY <1>2, <1>3, <1>4, <1>5 DEF IInv

\* A movement of a free key that leaves main Coins non-negative and, when it
\* expires lots, closes open ones.
LEMMA MovingStep ==
    ASSUME IInv, PendingOK', NEW w \in Wallets, NEW type \in Types, NEW main \in Int,
           NEW bonus \in Int, NEW touched \in SUBSET Nat, NEW key \in Keys \cup {NoKey},
           Post(w, Movement(w, type, main, bonus, touched, key)),
           KeyFree(key), wallet[w].main + main >= 0,
           lots' \in Seq(Lot), LotsAccounted', LotsDrain,
           type = "BONUS_EXPIRY" => \A l \in touched : /\ l \in LotIds
                                                       /\ ~lots[l].closed
                                                       /\ lots'[l].closed
    PROVE  IInv'
<1> DEFINE e == Movement(w, type, main, bonus, touched, key)
           n == Len(ledger[w])
<1>1. TypeOK /\ LedgerExplainsWallet /\ MainNeverNegative /\ KeyMovesCoinsOnce
      /\ LotExpiresOnce /\ LotsAccounted /\ SweptLotsExist
  BY DEF IInv
<1>2. /\ e \in Entry
      /\ e.mainAfter = wallet[w].main + main /\ e.bonusAfter = wallet[w].bonus + bonus
  BY <1>1, MovementType
<1>3. e.type = type /\ e.main = main /\ e.bonus = bonus /\ e.lots = touched /\ e.key = key
  BY DEF Movement
<1>4. Post(w, e)
  OBVIOUS
<1> HIDE DEF e
<1>5. /\ ledger' \in [Wallets -> Seq(Entry)]
      /\ wallet' \in [Wallets -> [main : Int, bonus : Int]]
      /\ wallet'[w] = [main |-> e.mainAfter, bonus |-> e.bonusAfter]
      /\ ledger'[w][n + 1] = e
      /\ \A i \in DOMAIN ledger[w] : ledger'[w][i] = ledger[w][i]
      /\ DOMAIN ledger'[w] = DOMAIN ledger[w] \cup {n + 1}
      /\ \A v \in Wallets \ {w} : ledger'[v] = ledger[v] /\ wallet'[v] = wallet[v]
  BY <1>1, <1>2, <1>4, PostEffect
<1>6. TypeOK'
  BY <1>5 DEF TypeOK, PendingOK
<1>7. LedgerExplainsWallet'
  BY <1>1, <1>2, <1>3, <1>4, PostKeepsLedger
<1>8. KeyMovesCoinsOnce'
  BY <1>1, <1>2, <1>3, <1>4, PostKeepsKeys
<1>9. MainNeverNegative'
  <2>1. wallet'[w].main >= 0
    BY <1>2, <1>5
  <2> QED
    BY <2>1, <1>1, <1>5 DEF MainNeverNegative
<1>10. ASSUME NEW v \in Wallets, NEW i \in DOMAIN ledger[v], ledger[v][i].type = "BONUS_EXPIRY"
       PROVE  ledger[v][i].lots \subseteq {l \in LotIds : lots[l].closed}
  BY <1>1, <1>10 DEF SweptLotsExist
<1>11. \A l \in LotIds : lots[l].closed => l \in DOMAIN lots' /\ lots'[l].closed
  BY DEF LotsDrain
<1>12. SweptLotsExist'
  <2>1. ASSUME NEW v \in Wallets, NEW i \in DOMAIN ledger'[v], ledger'[v][i].type = "BONUS_EXPIRY",
               NEW l \in ledger'[v][i].lots
        PROVE  l \in DOMAIN lots' /\ lots'[l].closed
    <3>1. CASE v = w /\ i = n + 1
      BY <3>1, <2>1, <1>3, <1>5 DEF LotsDrain
    <3>2. CASE ~(v = w /\ i = n + 1)
      <4>1. i \in DOMAIN ledger[v] /\ ledger'[v][i] = ledger[v][i]
        BY <3>2, <1>5
      <4> QED
        BY <4>1, <2>1, <1>10, <1>11
    <3> QED
      BY <3>1, <3>2
  <2> QED
    BY <2>1 DEF SweptLotsExist, PendingOK, LotIds
<1>13. LotExpiresOnce'
  <2> SUFFICES ASSUME NEW v \in Wallets, NEW i \in DOMAIN ledger'[v], NEW j \in DOMAIN ledger'[v],
                      ledger'[v][i].type = "BONUS_EXPIRY", ledger'[v][j].type = "BONUS_EXPIRY",
                      NEW l \in ledger'[v][i].lots \cap ledger'[v][j].lots
               PROVE  i = j
    BY DEF LotExpiresOnce
  <2>1. CASE v # w
    <3>1. ledger'[v] = ledger[v]
      BY <2>1, <1>5
    <3> QED
      BY <3>1, <1>1 DEF LotExpiresOnce
  <2>2. CASE v = w /\ i # n + 1 /\ j # n + 1
    BY <2>2, <1>1, <1>5 DEF LotExpiresOnce
  <2>3. ASSUME NEW k \in DOMAIN ledger'[w], k # n + 1, ledger'[w][k].type = "BONUS_EXPIRY",
               e.type = "BONUS_EXPIRY", l \in ledger'[w][k].lots, l \in e.lots
        PROVE  FALSE
    <3>1. k \in DOMAIN ledger[w] /\ ledger'[w][k] = ledger[w][k]
      BY <2>3, <1>5
    <3>2. lots[l].closed
      BY <3>1, <2>3, <1>10
    <3>3. ~lots[l].closed
      BY <2>3, <1>3
    <3> QED
      BY <3>2, <3>3
  <2>4. CASE v = w /\ i = n + 1 /\ j # n + 1
    BY <2>4, <2>3, <1>5
  <2>5. CASE v = w /\ i # n + 1 /\ j = n + 1
    BY <2>5, <2>3, <1>5
  <2> QED
    BY <2>1, <2>2, <2>4, <2>5
<1> QED
  BY <1>6, <1>7, <1>8, <1>9, <1>12, <1>13 DEF IInv, PendingOK

(***************************************************************************)
(* One lemma per group of actions.                                         *)
(***************************************************************************)

\* A call that ends, or one that never was, leaves the others as they are.
LEMMA CallEnds ==
    ASSUME IInv, NEW c \in Clients, req' = [req EXCEPT ![c] = Idle], UNCHANGED <<now, sweep>>, LotsDrain
    PROVE  PendingOK'
  BY DEF IInv, TypeOK, PendingOK, CallsWellFormed, SweptLotsExist, LotsDrain, LotIds

LEMMA LotsStand == ASSUME IInv, UNCHANGED lots PROVE LotsDrain
  BY LotFields DEF IInv, LotsDrain, LotIds

LEMMA BeginKeeps ==
    ASSUME IInv, NEW c \in Clients, NEW r \in Request, Begin(c, r),
           r.kind = "spend" => r.main > 0 /\ r.bonus = 0,
           r.kind = "credit" => r.main >= 0 /\ r.bonus >= 0,
           r.kind = "adjust" /\ r.bonus < 0 => r.main = 0
    PROVE  IInv' /\ LotsDrain
<1>1. UNCHANGED <<now, wallet, lots, ledger, sweep>> /\ req' = [req EXCEPT ![c] = r]
  BY DEF Begin
<1>2. PendingOK'
  BY <1>1 DEF IInv, TypeOK, PendingOK, CallsWellFormed, SweptLotsExist, LotIds
<1> QED
  BY <1>1, <1>2, QuietStep, LotsStand

LEMMA CallKeeps ==
    ASSUME IInv, NEW c \in Clients, Call(c)
    PROVE  IInv' /\ LotsDrain
<1>1. now \in Nat
  BY DEF IInv, TypeOK
<1>2. /\ Spends \subseteq Nat /\ Credits \subseteq [main : Nat, bonus : Nat]
      /\ Corrections \subseteq [main : Int, bonus : Int] /\ ExpiryDays \subseteq Nat
  BY ConstantsAssumption
<1>3. ASSUME NEW w \in Wallets, NEW amount \in Spends, NEW key \in Keys \cup {NoKey},
             BeginSpend(c, w, amount, key)
      PROVE  IInv' /\ LotsDrain
  <2> DEFINE r == [kind |-> "spend", wallet |-> w, main |-> amount, bonus |-> 0,
                   days |-> 0, key |-> key, at |-> now]
  <2>1. r \in Request /\ r.kind = "spend" /\ r.main > 0 /\ r.bonus = 0 /\ Begin(c, r)
    BY <1>1, <1>2, <1>3 DEF BeginSpend, Request
  <2> HIDE DEF r
  <2> QED
    BY <2>1, BeginKeeps
<1>4. ASSUME NEW w \in Wallets, NEW amount \in Credits, NEW days \in ExpiryDays,
             NEW key \in Keys \cup {NoKey}, BeginCredit(c, w, amount, days, key)
      PROVE  IInv' /\ LotsDrain
  <2> DEFINE r == [kind |-> "credit", wallet |-> w, main |-> amount.main, bonus |-> amount.bonus,
                   days |-> IF amount.bonus > 0 THEN days ELSE 0, key |-> key, at |-> now]
  <2>1. amount.main \in Nat /\ amount.bonus \in Nat /\ days \in Nat
    BY <1>2
  <2>2. r \in Request /\ r.kind = "credit" /\ r.main >= 0 /\ r.bonus >= 0 /\ Begin(c, r)
    BY <1>1, <2>1, <1>4 DEF BeginCredit, Request
  <2> HIDE DEF r
  <2> QED
    BY <2>2, BeginKeeps
<1>5. ASSUME NEW w \in Wallets, NEW amount \in Corrections, NEW days \in ExpiryDays,
             BeginAdjust(c, w, amount, days)
      PROVE  IInv' /\ LotsDrain
  <2> DEFINE r == [kind |-> "adjust", wallet |-> w, main |-> amount.main, bonus |-> amount.bonus,
                   days |-> IF amount.bonus > 0 THEN days ELSE 0, key |-> NoKey, at |-> now]
  <2>1. amount.main \in Int /\ amount.bonus \in Int /\ days \in Nat
    BY <1>2
  <2>2. r \in Request /\ r.kind = "adjust" /\ (r.bonus < 0 => r.main = 0) /\ Begin(c, r)
    BY <1>1, <2>1, <1>5 DEF BeginAdjust, Request
  <2> HIDE DEF r
  <2> QED
    BY <2>2, BeginKeeps
<1> QED
  BY <1>3, <1>4, <1>5 DEF Call

LEMMA CommitKeeps ==
    ASSUME IInv, NEW c \in Clients, Commit(c)
    PROVE  IInv' /\ LotsDrain
<1> DEFINE r == req[c]
           w == r.wallet
<1>1. TypeOK /\ MainNeverNegative /\ LotsAccounted
  BY DEF IInv
<1>2. r # Idle
  BY DEF Commit, CommitSpend, CommitCredit, CommitAdjustMain, CommitAdjustBonus
<1>3. r \in Request
  BY <1>1, <1>2 DEF TypeOK
<1>4. /\ w \in Wallets /\ r.main \in Int /\ r.bonus \in Int /\ r.days \in Nat /\ r.at \in Nat
      /\ r.key \in Keys \cup {NoKey}
  BY <1>3 DEF Request
<1>5. /\ r.kind = "spend" => r.main > 0 /\ r.bonus = 0
      /\ r.kind = "credit" => r.main >= 0 /\ r.bonus >= 0
  BY <1>2 DEF IInv, CallsWellFormed
<1>6. wallet[w].main \in Int /\ wallet[w].bonus \in Int /\ wallet[w].main >= 0
  BY <1>1, <1>4 DEF TypeOK, MainNeverNegative
<1>7. KeyFree(NoKey)
  BY DEF KeyFree
<1>8. Spendable(w, r.at) \subseteq Nat
  BY <1>1 DEF Spendable, LotIds, TypeOK
<1>9. CASE CommitSpend(c)
  <2> DEFINE mainCoins == Smaller(wallet[w].main, r.main)
             open == Spendable(w, r.at)
  <2>1. /\ mainCoins \in Int /\ wallet[w].main + (-mainCoins) >= 0 /\ r.main - mainCoins \in Nat
        /\ -mainCoins \in Int /\ -(r.main - mainCoins) \in Int
    <3>1. r.main \in Int /\ r.main > 0
      BY <1>4, <1>5, <1>9 DEF CommitSpend
    <3> QED
      BY <3>1, <1>6 DEF Smaller
  <2>2. PICK d \in LotDebits(open, r.main - mainCoins) :
           /\ ConsumeLots(d)
           /\ Post(w, Movement(w, "SPEND", -mainCoins, -(r.main - mainCoins), {l \in open : d[l] > 0}, r.key))
    BY <1>9 DEF CommitSpend
  <2>3. KeyFree(r.key) /\ req' = [req EXCEPT ![c] = Idle] /\ UNCHANGED <<now, sweep>>
    BY <1>9 DEF CommitSpend
  <2> HIDE DEF mainCoins
  <2>4. lots' \in Seq(Lot) /\ LotsAccounted' /\ LotsDrain
    BY <1>1, <1>4, <2>1, <2>2, ConsumeEffect
  <2>5. PendingOK'
    BY <2>3, <2>4, CallEnds
  <2>6. {l \in open : d[l] > 0} \in SUBSET Nat
    BY <1>8
  <2>7. IInv'
    BY <1>4, <2>1, <2>2, <2>3, <2>4, <2>5, <2>6, MovingStep DEF Types
  <2> QED
    BY <2>4, <2>7
<1>10. CASE CommitCredit(c)
  <2>1. /\ KeyFree(r.key) /\ OpenLot(w, r.bonus, r.days, r.at)
        /\ Post(w, Movement(w, "CREDIT", r.main, r.bonus, OpenedLot(r.bonus), r.key))
        /\ req' = [req EXCEPT ![c] = Idle] /\ UNCHANGED <<now, sweep>>
    BY <1>10 DEF CommitCredit
  <2>2. r.bonus \in Nat /\ wallet[w].main + r.main >= 0
    BY <1>4, <1>5, <1>6, <1>10 DEF CommitCredit
  <2>3. lots' \in Seq(Lot) /\ LotsAccounted' /\ LotsDrain /\ OpenedLot(r.bonus) \in SUBSET Nat
    BY <1>1, <1>4, <2>1, <2>2, OpenEffect
  <2>4. PendingOK'
    BY <2>1, <2>3, CallEnds
  <2>5. IInv'
    BY <1>4, <2>1, <2>2, <2>3, <2>4, MovingStep DEF Types
  <2> QED
    BY <2>3, <2>5
<1>11. CASE CommitAdjustMain(c)
  <2>1. /\ OpenLot(w, r.bonus, r.days, r.at) /\ wallet[w].main + r.main >= 0
        /\ Post(w, Movement(w, "ADJUSTMENT", r.main, r.bonus, OpenedLot(r.bonus), NoKey))
        /\ req' = [req EXCEPT ![c] = Idle] /\ UNCHANGED <<now, sweep>>
    BY <1>11 DEF CommitAdjustMain
  <2>2. r.bonus \in Nat
    BY <1>4, <1>11 DEF CommitAdjustMain
  <2>3. lots' \in Seq(Lot) /\ LotsAccounted' /\ LotsDrain /\ OpenedLot(r.bonus) \in SUBSET Nat
    BY <1>1, <1>4, <2>1, <2>2, OpenEffect
  <2>4. PendingOK'
    BY <2>1, <2>3, CallEnds
  <2>5. IInv'
    BY <1>4, <1>7, <2>1, <2>2, <2>3, <2>4, MovingStep DEF Types
  <2> QED
    BY <2>3, <2>5
<1>12. CASE CommitAdjustBonus(c)
  <2> DEFINE open == Spendable(w, r.at)
  <2>1. PICK d \in LotDebits(open, -r.bonus) :
           /\ ConsumeLots(d)
           /\ Post(w, Movement(w, "ADJUSTMENT", 0, r.bonus, {l \in open : d[l] > 0}, NoKey))
    BY <1>12 DEF CommitAdjustBonus
  <2>2. req' = [req EXCEPT ![c] = Idle] /\ UNCHANGED <<now, sweep>> /\ -r.bonus \in Nat
    BY <1>4, <1>12 DEF CommitAdjustBonus
  <2>3. lots' \in Seq(Lot) /\ LotsAccounted' /\ LotsDrain
    BY <1>1, <1>4, <2>1, <2>2, ConsumeEffect
  <2>4. PendingOK'
    BY <2>2, <2>3, CallEnds
  <2>5. {l \in open : d[l] > 0} \in SUBSET Nat /\ wallet[w].main + 0 >= 0 /\ 0 \in Int
    BY <1>6, <1>8
  <2>6. IInv'
    BY <1>4, <1>7, <2>1, <2>2, <2>3, <2>4, <2>5, MovingStep DEF Types
  <2> QED
    BY <2>3, <2>6
<1> QED
  BY <1>9, <1>10, <1>11, <1>12 DEF Commit

\* A batch is made of lots that exist.
LEMMA SnapshotType ==
    ASSUME TypeOK, NEW at \in Nat, NEW B \in Batches(at)
    PROVE  /\ Snapshot(B, at) \in Run
           /\ \A row \in Snapshot(B, at).due : row.id \in LotIds
<1>1. B \subseteq LotIds /\ LotIds \subseteq Nat
  BY DEF Batches, Due, LotIds, TypeOK
<1>2. \A l \in B : lots[l].remaining \in Nat
  BY <1>1, LotFields
<1>3. (Cardinality(B) >= Batch) \in BOOLEAN
  OBVIOUS
<1> DEFINE D == {[id |-> l, amount |-> lots[l].remaining] : l \in B}
<1>4. \A l \in B : [id |-> l, amount |-> lots[l].remaining] \in [id : Nat, amount : Nat]
  BY <1>1, <1>2
<1>5. D \in SUBSET [id : Nat, amount : Nat]
  BY <1>4
<1>6. \A row \in D : row.id \in LotIds
  BY <1>1
<1>7. Snapshot(B, at) = [at |-> at, due |-> D, full |-> Cardinality(B) >= Batch]
  BY DEF Snapshot
<1> HIDE DEF D
<1> QED
  BY <1>3, <1>5, <1>6, <1>7 DEF Run

\* A sweeper that takes up a well-formed batch leaves the others as they are.
LEMMA RunMoves ==
    ASSUME IInv, NEW s \in Sweepers, NEW run \in Run \cup {Idle}, sweep' = [sweep EXCEPT ![s] = run],
           run # Idle => \A row \in run.due : row.id \in LotIds,
           UNCHANGED <<now, req>>, LotsDrain
    PROVE  PendingOK'
  BY DEF IInv, TypeOK, PendingOK, CallsWellFormed, SweptLotsExist, LotsDrain, LotIds

LEMMA SweepKeeps ==
    ASSUME IInv, NEW s \in Sweepers, Sweep(s) \/ SweepAbort(s)
    PROVE  IInv' /\ LotsDrain
<1>1. TypeOK /\ LotsAccounted /\ SweptLotsExist /\ MainNeverNegative
  BY DEF IInv
<1>2. sweep[s] # Idle => sweep[s] \in Run /\ \A row \in sweep[s].due : row.id \in LotIds
  BY <1>1 DEF TypeOK, SweptLotsExist
<1>3. CASE SweepStart(s)
  <2>1. PICK B \in Batches(now) : sweep' = [sweep EXCEPT ![s] = Snapshot(B, now)]
    BY <1>3 DEF SweepStart
  <2>2. UNCHANGED <<now, wallet, lots, ledger, req>> /\ now \in Nat
    BY <1>1, <1>3 DEF SweepStart, TypeOK
  <2>3. Snapshot(B, now) \in Run /\ \A row \in Snapshot(B, now).due : row.id \in LotIds
    BY <1>1, <2>2, SnapshotType
  <2>4. LotsDrain
    BY <2>2, LotsStand
  <2>5. PendingOK'
    BY <2>1, <2>2, <2>3, <2>4, RunMoves
  <2> QED
    BY <2>2, <2>4, <2>5, QuietStep
<1>4. CASE SweepExpire(s)
  <2>1. PICK row \in sweep[s].due :
           /\ sweep' = [sweep EXCEPT ![s] = [sweep[s] EXCEPT !.due = sweep[s].due \ {row}]]
           /\ IF ~UpdateHits(row.id)
              THEN UNCHANGED <<wallet, lots, ledger>>
              ELSE /\ lots' = [lots EXCEPT ![row.id] = Consumed(lots[row.id], lots[row.id].remaining)]
                   /\ Post(lots[row.id].wallet,
                           Movement(lots[row.id].wallet, "BONUS_EXPIRY", 0, -row.amount, {row.id}, NoKey))
    BY <1>4 DEF SweepExpire, ExpireBonus
  <2>2. UNCHANGED <<now, req>> /\ sweep[s] # Idle
    BY <1>4 DEF SweepExpire, ExpireBonus
  <2>3. sweep[s] \in Run /\ row.id \in LotIds /\ row \in [id : Nat, amount : Nat]
    BY <1>2, <2>1, <2>2 DEF Run
  <2> DEFINE rest == [sweep[s] EXCEPT !.due = sweep[s].due \ {row}]
             w == lots[row.id].wallet
  <2>4. rest \in Run /\ \A other \in rest.due : other.id \in LotIds
    BY <1>2, <2>2, <2>3 DEF Run
  <2> HIDE DEF rest
  <2>5. LotsDrain => PendingOK'
    BY <2>1, <2>2, <2>4, RunMoves DEF rest
  <2>6. CASE ~UpdateHits(row.id)
    <3>1. UNCHANGED <<wallet, lots, ledger>> /\ LotsDrain
      BY <2>1, <2>6, LotsStand
    <3> QED
      BY <3>1, <2>5, QuietStep
  <2>7. CASE UpdateHits(row.id)
    <3>0. ~lots[row.id].closed
      BY <2>7 DEF UpdateHits
    <3>1. /\ lots' = [lots EXCEPT ![row.id] = Consumed(lots[row.id], lots[row.id].remaining)]
          /\ Post(w, Movement(w, "BONUS_EXPIRY", 0, -row.amount, {row.id}, NoKey))
      BY <2>1, <2>7
    <3>2. lots' \in Seq(Lot) /\ LotsAccounted' /\ LotsDrain /\ lots'[row.id].closed
      BY <1>1, <2>3, <3>0, <3>1, CloseEffect
    <3>3. /\ w \in Wallets /\ {row.id} \in SUBSET Nat /\ -row.amount \in Int /\ 0 \in Int
      BY <1>1, <2>3, LotFields DEF Lot
    <3>4. wallet[w].main + 0 >= 0
      BY <1>1, <3>3 DEF MainNeverNegative, TypeOK
    <3>5. KeyFree(NoKey) /\ \A l \in {row.id} : l \in LotIds /\ ~lots[l].closed /\ lots'[l].closed
      BY <2>3, <3>0, <3>2 DEF KeyFree
    <3>6. IInv'
      BY <2>5, <3>1, <3>2, <3>3, <3>4, <3>5, MovingStep DEF Types
    <3> QED
      BY <3>2, <3>6
  <2> QED
    BY <2>6, <2>7
<1>5. CASE SweepNext(s)
  <2>1. sweep[s] # Idle /\ UNCHANGED <<now, wallet, lots, ledger, req>>
    BY <1>5 DEF SweepNext
  <2>2. PICK B \in Batches(sweep[s].at) :
           sweep' = [sweep EXCEPT ![s] = IF sweep[s].full /\ B # {} THEN Snapshot(B, sweep[s].at) ELSE Idle]
    BY <1>5 DEF SweepNext
  <2> DEFINE run == IF sweep[s].full /\ B # {} THEN Snapshot(B, sweep[s].at) ELSE Idle
  <2>3. sweep[s].at \in Nat
    BY <1>2, <2>1 DEF Run
  <2>4. Snapshot(B, sweep[s].at) \in Run /\ \A row \in Snapshot(B, sweep[s].at).due : row.id \in LotIds
    BY <1>1, <2>3, SnapshotType
  <2>5. run \in Run \cup {Idle} /\ (run # Idle => \A row \in run.due : row.id \in LotIds)
    BY <2>4
  <2>6. LotsDrain
    BY <2>1, LotsStand
  <2> HIDE DEF run
  <2>7. PendingOK'
    BY <2>1, <2>2, <2>5, <2>6, RunMoves DEF run
  <2> QED
    BY <2>1, <2>6, <2>7, QuietStep
<1>6. CASE SweepAbort(s)
  <2>1. UNCHANGED <<now, wallet, lots, ledger, req>> /\ sweep' = [sweep EXCEPT ![s] = Idle]
    BY <1>6 DEF SweepAbort
  <2>2. LotsDrain
    BY <2>1, LotsStand
  <2>3. PendingOK'
    BY <2>1, <2>2, RunMoves
  <2> QED
    BY <2>1, <2>2, <2>3, QuietStep
<1> QED
  BY <1>3, <1>4, <1>5, <1>6 DEF Sweep

LEMMA InitIInv == ASSUME Init PROVE IInv
<1>1. TypeOK
  BY DEF Init, TypeOK
<1>2. LedgerExplainsWallet /\ MainNeverNegative
  BY DEF Init, LedgerExplainsWallet, BalanceBefore, MainNeverNegative
<1>3. KeyMovesCoinsOnce /\ LotExpiresOnce /\ LotsAccounted
  BY DEF Init, KeyMovesCoinsOnce, LotExpiresOnce, LotsAccounted, LotIds
<1>4. CallsWellFormed /\ SweptLotsExist
  BY DEF Init, CallsWellFormed, SweptLotsExist
<1> QED
  BY <1>1, <1>2, <1>3, <1>4 DEF IInv

LEMMA StepIInv == ASSUME IInv, [Next]_vars PROVE IInv' /\ LotsDrain
<1>1. CASE Tick
  <2>1. UNCHANGED <<wallet, lots, ledger, req, sweep>> /\ now' \in Nat
    BY <1>1 DEF Tick, IInv, TypeOK
  <2>2. PendingOK'
    BY <2>1 DEF IInv, TypeOK, PendingOK, CallsWellFormed, SweptLotsExist, LotIds
  <2> QED
    BY <2>1, <2>2, QuietStep, LotsStand
<1>2. ASSUME NEW c \in Clients, Abort(c)
      PROVE  IInv' /\ LotsDrain
  <2>1. UNCHANGED <<now, wallet, lots, ledger, sweep>> /\ req' = [req EXCEPT ![c] = Idle]
    BY <1>2 DEF Abort
  <2>2. LotsDrain
    BY <2>1, LotsStand
  <2>3. PendingOK'
    BY <2>1, <2>2, CallEnds
  <2> QED
    BY <2>1, <2>2, <2>3, QuietStep
<1>3. CASE UNCHANGED vars
  <2>1. UNCHANGED <<now, wallet, lots, ledger, req, sweep>>
    BY <1>3 DEF vars
  <2>2. PendingOK'
    BY <2>1 DEF IInv, TypeOK, PendingOK, CallsWellFormed, SweptLotsExist, LotIds
  <2> QED
    BY <2>1, <2>2, QuietStep, LotsStand
<1> QED
  BY <1>1, <1>2, <1>3, CallKeeps, CommitKeeps, SweepKeeps DEF Next

(***************************************************************************)
(* Sums over the lots of a wallet.                                         *)
(***************************************************************************)

LEMMA LotsFinite ==
    ASSUME TypeOK, NEW S \in SUBSET LotIds
    PROVE  IsFiniteSet(S) /\ \A l \in S : lots[l].remaining \in Nat
<1>1. LotIds = 1..Len(lots) /\ Len(lots) \in Nat
  BY DEF TypeOK, LotIds
<1>2. IsFiniteSet(LotIds)
  BY <1>1, FS_Interval
<1> QED
  BY <1>2, FS_Subset, LotFields

\* Lots hold a number of Coins that is not negative.
LEMMA RemainingNat ==
    ASSUME TypeOK, NEW S \in SUBSET LotIds
    PROVE  Remaining(S) \in Nat
<1> DEFINE f == [l \in S |-> lots[l].remaining]
<1>1. IsFiniteSet(S) /\ \A l \in S : f[l] \in Nat
  BY LotsFinite
<1> HIDE DEF f
<1>2. SumFunctionOnSet(f, S) \in Nat
  BY <1>1, SumNat
<1> QED
  BY <1>2 DEF Remaining, f

\* Lots that stay as they are hold what they held.
LEMMA RemainingStands ==
    ASSUME TypeOK, NEW S \in SUBSET LotIds, \A l \in S : lots'[l].remaining = lots[l].remaining
    PROVE  SumFunctionOnSet([l \in S |-> lots'[l].remaining], S) = Remaining(S)
<1> DEFINE f == [l \in S |-> lots[l].remaining]
           g == [l \in S |-> lots'[l].remaining]
<1>1. IsFiniteSet(S) /\ \A l \in S : f[l] \in Int /\ f[l] = g[l]
  BY LotsFinite
<1> HIDE DEF f, g
<1>2. SumFunctionOnSet(f, S) = SumFunctionOnSet(g, S)
  BY <1>1, SumSame
<1> QED
  BY <1>2 DEF Remaining, f, g

\* A debit takes its amount, no more and no less, out of the lots of its wallet.
LEMMA DebitTakesAmount ==
    ASSUME TypeOK, NEW S \in SUBSET LotIds, NEW O \in SUBSET S, NEW amount \in Nat,
           NEW d \in [O -> 0..amount], SumFunctionOnSet(d, O) = amount,
           \A l \in S : lots'[l].remaining = lots[l].remaining - (IF l \in O THEN d[l] ELSE 0)
    PROVE  SumFunctionOnSet([l \in S |-> lots'[l].remaining], S) = Remaining(S) - amount
<1> DEFINE f == [l \in S |-> lots[l].remaining]
           g == [l \in S |-> lots'[l].remaining]
           t == [l \in S |-> IF l \in O THEN d[l] ELSE 0]
           R == S \ O
<1>1. IsFiniteSet(S) /\ IsFiniteSet(O) /\ IsFiniteSet(R) /\ O \cap R = {} /\ O \cup R = S
  BY LotsFinite, FS_Subset
<1>2. \A l \in S : t[l] \in Int /\ f[l] \in Int /\ g[l] \in Int /\ f[l] = g[l] + t[l]
  <2> TAKE l \in S
  <2>1. lots[l].remaining \in Int
    BY LotsFinite
  <2>2. t[l] \in Int
    OBVIOUS
  <2>3. g[l] = lots[l].remaining - t[l] /\ f[l] = lots[l].remaining
    OBVIOUS
  <2> QED
    BY <2>1, <2>2, <2>3
<1>3. \A l \in O : t[l] \in Int /\ t[l] = d[l]
  OBVIOUS
<1>4. \A l \in R : t[l] = 0
  OBVIOUS
<1> HIDE DEF f, g, t, R
<1>5. SumFunctionOnSet(f, S) = SumFunctionOnSet(g, S) + SumFunctionOnSet(t, S)
  BY <1>1, <1>2, SumPlus
<1>6. SumFunctionOnSet(t, O \cup R) = SumFunctionOnSet(t, O) + SumFunctionOnSet(t, R)
  BY <1>1, <1>2, SumParts
<1>7. SumFunctionOnSet(t, O) = amount
  BY <1>1, <1>3, SumSame
<1>8. SumFunctionOnSet(t, R) = 0
  BY <1>1, <1>4, SumZero
<1>9. SumFunctionOnSet(t, S) = SumFunctionOnSet(t, O) + SumFunctionOnSet(t, R)
  BY <1>1, <1>6
<1>10. SumFunctionOnSet(t, S) = amount
  BY <1>7, <1>8, <1>9
<1>11. SumFunctionOnSet(f, S) = SumFunctionOnSet(g, S) + amount
  BY <1>5, <1>10
<1>12. SumFunctionOnSet(g, S) \in Int
  BY <1>1, <1>2, SumInt
<1>13. SumFunctionOnSet(g, S) = SumFunctionOnSet(f, S) - amount
  BY <1>11, <1>12
<1> QED
  BY <1>13 DEF Remaining, f, g

\* A wallet's lots after a step that keeps the lots there are in their wallets.
LEMMA RemainingAfter ==
    ASSUME TypeOK, NEW v \in Wallets, DOMAIN lots' = LotIds,
           \A l \in LotIds : lots'[l].wallet = lots[l].wallet
    PROVE  /\ LotsOf(v) \in SUBSET LotIds
           /\ Remaining(LotsOf(v))' =
                 SumFunctionOnSet([l \in LotsOf(v) |-> lots'[l].remaining], LotsOf(v))
<1>1. LotsOf(v)' = LotsOf(v)
  BY DEF LotsOf, LotIds
<1> QED
  BY <1>1 DEF Remaining, LotsOf

\* consumeLots: the wallet's lots lose the amount, the other wallets' nothing.
LEMMA ConsumeSums ==
    ASSUME TypeOK, LotsAccounted, NEW w \in Wallets, NEW at \in Nat, NEW amount \in Nat,
           NEW d \in LotDebits(Spendable(w, at), amount), ConsumeLots(d), NEW v \in Wallets
    PROVE  Remaining(LotsOf(v))' = Remaining(LotsOf(v)) - (IF v = w THEN amount ELSE 0)
<1> DEFINE O == Spendable(w, at)
<1>1. d \in [O -> 0..amount] /\ SumFunctionOnSet(d, O) = amount /\ \A l \in O : d[l] <= lots[l].remaining
  BY DEF LotDebits
<1>2. O \in SUBSET LotsOf(w) /\ O \in SUBSET LotIds
  BY DEF Spendable, LotsOf
<1> HIDE DEF O
<1>3. lots' = [l \in LotIds |-> IF l \in O /\ d[l] > 0 THEN Consumed(lots[l], d[l]) ELSE lots[l]]
  BY <1>1 DEF ConsumeLots
<1>4. ASSUME NEW l \in LotIds
      PROVE  /\ lots'[l].wallet = lots[l].wallet
             /\ lots'[l].remaining = lots[l].remaining - (IF l \in O THEN d[l] ELSE 0)
  <2>1. lots[l] \in Lot /\ lots[l].remaining \in Nat
    BY LotFields
  <2>2. CASE l \in O /\ d[l] > 0
    <3>1. lots'[l] = Consumed(lots[l], d[l]) /\ d[l] \in 0..lots[l].remaining
      BY <1>1, <1>3, <2>1, <2>2
    <3> QED
      BY <2>1, <2>2, <3>1, ConsumedLot
  <2>3. CASE ~(l \in O /\ d[l] > 0)
    <3>1. lots'[l] = lots[l] /\ (l \in O => d[l] = 0)
      BY <1>1, <1>3, <2>3
    <3> QED
      BY <2>1, <3>1
  <2> QED
    BY <2>2, <2>3
<1>5. DOMAIN lots' = LotIds
  BY <1>3
<1>6. /\ LotsOf(v) \in SUBSET LotIds
      /\ Remaining(LotsOf(v))' = SumFunctionOnSet([l \in LotsOf(v) |-> lots'[l].remaining], LotsOf(v))
  BY <1>4, <1>5, RemainingAfter
<1>7. Remaining(LotsOf(v)) \in Nat
  BY <1>6, RemainingNat
<1>8. CASE v = w
  <2>1. SumFunctionOnSet([l \in LotsOf(w) |-> lots'[l].remaining], LotsOf(w)) = Remaining(LotsOf(w)) - amount
    BY <1>1, <1>2, <1>4, <1>6, <1>8, DebitTakesAmount
  <2> QED
    BY <1>6, <1>8, <2>1
<1>9. CASE v # w
  <2>1. \A l \in LotsOf(v) : l \notin O /\ l \in LotIds /\ lots[l].remaining \in Nat
    BY <1>2, <1>9, LotFields DEF LotsOf
  <2>2. \A l \in LotsOf(v) : lots'[l].remaining = lots[l].remaining
    BY <1>4, <2>1
  <2>3. SumFunctionOnSet([l \in LotsOf(v) |-> lots'[l].remaining], LotsOf(v)) = Remaining(LotsOf(v))
    BY <1>6, <2>2, RemainingStands
  <2> QED
    BY <1>6, <1>7, <1>9, <2>3
<1> QED
  BY <1>8, <1>9

\* openLot: the wallet's lots gain the amount.
LEMMA OpenSums ==
    ASSUME TypeOK, NEW w \in Wallets, NEW amount \in Nat, NEW days \in Nat, NEW at \in Nat,
           OpenLot(w, amount, days, at), NEW v \in Wallets
    PROVE  Remaining(LotsOf(v))' = Remaining(LotsOf(v)) + (IF v = w THEN amount ELSE 0)
<1> DEFINE n == Len(lots) + 1
           S == LotsOf(v)
<1>1. lots \in Seq(Lot) /\ LotIds = 1..Len(lots) /\ Len(lots) \in Nat
  BY DEF TypeOK, LotIds
<1>2. S \in SUBSET LotIds /\ Remaining(S) \in Nat
  BY RemainingNat DEF LotsOf
<1>3. CASE amount = 0
  <2>1. lots' = lots
    BY <1>3 DEF OpenLot
  <2>2. Remaining(LotsOf(v))' = Remaining(LotsOf(v))
    BY <2>1 DEF Remaining, LotsOf, LotIds
  <2> QED
    BY <1>2, <1>3, <2>2
<1>4. CASE amount > 0
  <2>1. /\ DOMAIN lots' = 1..n /\ lots'[n].wallet = w /\ lots'[n].remaining = amount
        /\ \A l \in LotIds : lots'[l] = lots[l]
    BY <1>1, <1>4 DEF OpenLot, NewLot
  <2>2. \A l \in S : lots'[l].remaining = lots[l].remaining
    BY <1>2, <2>1
  <2>3. SumFunctionOnSet([l \in S |-> lots'[l].remaining], S) = Remaining(S)
    BY <1>2, <2>2, RemainingStands
  <2>4. CASE v # w
    <3>1. LotsOf(v)' = S
      BY <1>1, <2>1, <2>4 DEF LotsOf, LotIds
    <3>2. Remaining(LotsOf(v))' = SumFunctionOnSet([l \in S |-> lots'[l].remaining], S)
      BY <3>1 DEF Remaining
    <3> QED
      BY <1>2, <2>3, <2>4, <3>2
  <2>5. CASE v = w
    <3>1. LotsOf(v)' = S \cup {n}
      BY <1>1, <2>1, <2>5 DEF LotsOf, LotIds
    <3> DEFINE g == [l \in S \cup {n} |-> lots'[l].remaining]
    <3>2. Remaining(LotsOf(v))' = SumFunctionOnSet(g, S \cup {n})
      BY <3>1 DEF Remaining
    <3>3. n \notin S /\ IsFiniteSet(S) /\ \A l \in S : lots[l].remaining \in Nat
      <4>1. n \notin LotIds
        BY <1>1
      <4> HIDE DEF S, n
      <4> QED
        BY <1>2, <4>1, LotsFinite
    <3>4. /\ \A l \in S : g[l] \in Int /\ g[l] = [l_1 \in S |-> lots'[l_1].remaining][l]
          /\ g[n] = amount /\ amount \in Int
      BY <2>1, <2>2, <3>3
    <3> HIDE DEF g, n, S
    <3>5. SumFunctionOnSet(g, S \cup {n}) = SumFunctionOnSet(g, S) + g[n]
      BY <3>3, <3>4, SumAdd
    <3>6. SumFunctionOnSet(g, S) = SumFunctionOnSet([l \in S |-> lots'[l].remaining], S)
      BY <3>3, <3>4, SumSame
    <3>7. SumFunctionOnSet(g, S \cup {n}) = Remaining(S) + amount
      BY <2>3, <3>4, <3>5, <3>6
    <3> QED
      BY <2>5, <3>2, <3>7 DEF S
  <2> QED
    BY <2>4, <2>5
<1> QED
  BY <1>3, <1>4

\* expire(lot): the wallet's lots lose what was left in it.
LEMMA CloseSums ==
    ASSUME TypeOK, NEW k \in LotIds,
           lots' = [lots EXCEPT ![k] = Consumed(lots[k], lots[k].remaining)], NEW v \in Wallets
    PROVE  Remaining(LotsOf(v))' =
              Remaining(LotsOf(v)) - (IF v = lots[k].wallet THEN lots[k].remaining ELSE 0)
<1> DEFINE S == LotsOf(v)
<1>1. lots \in Seq(Lot) /\ LotIds = 1..Len(lots) /\ Len(lots) \in Nat
  BY DEF TypeOK, LotIds
<1>2. lots[k] \in Lot /\ lots[k].remaining \in Nat
  BY LotFields
<1>3. /\ Consumed(lots[k], lots[k].remaining).wallet = lots[k].wallet
      /\ Consumed(lots[k], lots[k].remaining).remaining = 0
  BY <1>2, ConsumedLot
<1>4. /\ DOMAIN lots' = LotIds /\ lots'[k].wallet = lots[k].wallet /\ lots'[k].remaining = 0
      /\ \A l \in LotIds \ {k} : lots'[l] = lots[l]
  BY <1>1, <1>3
<1>5. /\ S \in SUBSET LotIds
      /\ Remaining(LotsOf(v))' = SumFunctionOnSet([l \in S |-> lots'[l].remaining], S)
  BY <1>4, RemainingAfter
<1>6. Remaining(S) \in Nat
  BY <1>5, RemainingNat
<1>7. CASE v # lots[k].wallet
  <2>1. k \notin S
    BY <1>7 DEF LotsOf
  <2>2. \A l \in S : lots'[l].remaining = lots[l].remaining
    BY <1>4, <1>5, <2>1
  <2>3. SumFunctionOnSet([l \in S |-> lots'[l].remaining], S) = Remaining(S)
    BY <1>5, <2>2, RemainingStands
  <2> QED
    BY <1>5, <1>6, <1>7, <2>3
<1>8. CASE v = lots[k].wallet
  <2> DEFINE f == [l \in S |-> lots[l].remaining]
             g == [l \in S |-> lots'[l].remaining]
  <2>1. k \in S
    BY <1>8 DEF LotsOf
  <2>2. IsFiniteSet(S) /\ \A l \in S : lots[l].remaining \in Nat
    BY <1>5, LotsFinite
  <2>3. /\ \A l \in S : f[l] \in Int /\ g[l] \in Int
        /\ \A l \in S \ {k} : g[l] = f[l]
        /\ f[k] = lots[k].remaining /\ g[k] = 0
    BY <1>4, <1>5, <2>1, <2>2
  <2>4. Remaining(S) = SumFunctionOnSet(f, S)
    BY DEF Remaining
  <2> HIDE DEF f, g, S
  <2>5. SumFunctionOnSet(g, S) = SumFunctionOnSet(f, S) + g[k] - f[k]
    BY <2>1, <2>2, <2>3, SumChange
  <2>6. SumFunctionOnSet(g, S) = Remaining(S) - lots[k].remaining
    BY <1>2, <1>6, <2>3, <2>4, <2>5
  <2> QED
    BY <1>5, <1>8, <2>6 DEF g, S
<1> QED
  BY <1>7, <1>8

(***************************************************************************)
(* BackingInv: the bonus counter and the lots.                             *)
(***************************************************************************)

\* A movement that changes the counter by bonus and the lots by delta.
LEMMA BonusMoves ==
    ASSUME TypeOK, BonusIsBacked, NEW w \in Wallets, NEW type \in Types, NEW main \in Int,
           NEW bonus \in Int, NEW delta \in Int, NEW touched \in SUBSET Nat,
           NEW key \in Keys \cup {NoKey},
           Post(w, Movement(w, type, main, bonus, touched, key)),
           \A v \in Wallets : Remaining(LotsOf(v))' = Remaining(LotsOf(v)) + (IF v = w THEN delta ELSE 0),
           bonus <= delta, type # "BONUS_EXPIRY" => bonus = delta
    PROVE  BonusIsBacked'
<1> DEFINE e == Movement(w, type, main, bonus, touched, key)
           n == Len(ledger[w])
<1>1. /\ e \in Entry /\ e.bonusAfter = wallet[w].bonus + bonus /\ e.type = type
  BY MovementType DEF Movement
<1> HIDE DEF e
<1>2. /\ wallet'[w] = [main |-> e.mainAfter, bonus |-> e.bonusAfter]
      /\ ledger'[w][n + 1] = e
      /\ \A i \in DOMAIN ledger[w] : ledger'[w][i] = ledger[w][i]
      /\ DOMAIN ledger'[w] = DOMAIN ledger[w] \cup {n + 1}
      /\ \A v \in Wallets \ {w} : ledger'[v] = ledger[v] /\ wallet'[v] = wallet[v]
  BY <1>1, PostEffect DEF e
<1> SUFFICES ASSUME NEW v \in Wallets
             PROVE  /\ wallet'[v].bonus <= Remaining(LotsOf(v))'
                    /\ ~Expired(v)' => wallet'[v].bonus = Remaining(LotsOf(v))'
  BY DEF BonusIsBacked, BonusBackedByLots, BonusIsLotSumUntilExpiry
<1>3. wallet[v].bonus \in Int /\ LotsOf(v) \in SUBSET LotIds
  BY DEF TypeOK, LotsOf
<1>4. Remaining(LotsOf(v)) \in Nat
  BY <1>3, RemainingNat
<1>5. /\ wallet[v].bonus <= Remaining(LotsOf(v))
      /\ ~Expired(v) => wallet[v].bonus = Remaining(LotsOf(v))
  BY DEF BonusIsBacked, BonusBackedByLots, BonusIsLotSumUntilExpiry
<1>6. CASE v # w
  <2>1. wallet'[v] = wallet[v] /\ ledger'[v] = ledger[v]
    BY <1>2, <1>6
  <2>2. Expired(v)' <=> Expired(v)
    BY <2>1 DEF Expired
  <2>3. Remaining(LotsOf(v))' = Remaining(LotsOf(v)) + 0
    BY <1>6
  <2>4. Remaining(LotsOf(v))' = Remaining(LotsOf(v))
    BY <1>4, <2>3
  <2> QED
    BY <1>5, <2>1, <2>2, <2>4
<1>7. CASE v = w
  <2>1. wallet'[v].bonus = wallet[v].bonus + bonus
    BY <1>1, <1>2, <1>7
  <2>2. Remaining(LotsOf(v))' = Remaining(LotsOf(v)) + delta
    BY <1>7
  <2>3. Expired(v) => Expired(v)'
    BY <1>2, <1>7 DEF Expired
  <2>4. type = "BONUS_EXPIRY" => Expired(v)'
    BY <1>1, <1>2, <1>7 DEF Expired
  <2>5. wallet'[v].bonus <= Remaining(LotsOf(v))'
    BY <1>3, <1>4, <1>5, <2>1, <2>2
  <2>6. ASSUME ~Expired(v)' PROVE wallet'[v].bonus = Remaining(LotsOf(v))'
    <3>1. bonus = delta /\ wallet[v].bonus = Remaining(LotsOf(v))
      BY <1>5, <2>3, <2>4, <2>6
    <3> QED
      BY <2>1, <2>2, <3>1
  <2> QED
    BY <2>5, <2>6
<1> QED
  BY <1>6, <1>7

LEMMA BonusStands ==
    ASSUME BonusIsBacked, UNCHANGED <<wallet, lots, ledger>>
    PROVE  BonusIsBacked'
<1>1. UNCHANGED wallet /\ UNCHANGED lots /\ UNCHANGED ledger
  OBVIOUS
<1>2. \A v \in Wallets : Remaining(LotsOf(v))' = Remaining(LotsOf(v)) /\ (Expired(v)' <=> Expired(v))
  BY <1>1 DEF Remaining, LotsOf, LotIds, Expired
<1> QED
  BY <1>1, <1>2 DEF BonusIsBacked, BonusBackedByLots, BonusIsLotSumUntilExpiry

\* Whatever a call commits, the counter and the lots move alike.
LEMMA CommitBacked ==
    ASSUME IInv, BonusIsBacked, NEW c \in Clients, Commit(c)
    PROVE  BonusIsBacked'
<1> DEFINE r == req[c]
           w == r.wallet
<1>1. TypeOK /\ MainNeverNegative /\ LotsAccounted
  BY DEF IInv
<1>2. r # Idle
  BY DEF Commit, CommitSpend, CommitCredit, CommitAdjustMain, CommitAdjustBonus
<1>3. r \in Request
  BY <1>1, <1>2 DEF TypeOK
<1>4. /\ w \in Wallets /\ r.main \in Int /\ r.bonus \in Int /\ r.days \in Nat /\ r.at \in Nat
      /\ r.key \in Keys \cup {NoKey} /\ NoKey \in Keys \cup {NoKey} /\ 0 \in Int
  BY <1>3 DEF Request
<1>5. /\ r.kind = "spend" => r.main > 0 /\ r.bonus = 0
      /\ r.kind = "credit" => r.main >= 0 /\ r.bonus >= 0
  BY <1>2 DEF IInv, CallsWellFormed
<1>6. wallet[w].main \in Int
  BY <1>1, <1>4 DEF TypeOK
<1>7. ASSUME NEW amount \in Nat PROVE OpenedLot(amount) \in SUBSET Nat
  BY <1>1 DEF OpenedLot, TypeOK
<1>8. ASSUME NEW d, NEW amount \in Nat PROVE {l \in Spendable(w, r.at) : d[l] > 0} \in SUBSET Nat
  BY <1>1 DEF Spendable, LotIds, TypeOK
<1>9. ASSUME NEW amount \in Nat, NEW v \in Wallets
      PROVE  Remaining(LotsOf(v)) \in Nat /\ -amount \in Int /\ amount \in Int
  <2>1. LotsOf(v) \in SUBSET LotIds
    BY DEF LotsOf
  <2> QED
    BY <1>1, <2>1, RemainingNat
<1>10. ASSUME NEW amount \in Nat, NEW d \in LotDebits(Spendable(w, r.at), amount), ConsumeLots(d),
              NEW v \in Wallets
       PROVE  Remaining(LotsOf(v))' = Remaining(LotsOf(v)) + (IF v = w THEN -amount ELSE 0)
  <2>1. Remaining(LotsOf(v))' = Remaining(LotsOf(v)) - (IF v = w THEN amount ELSE 0)
    BY <1>1, <1>4, <1>10, ConsumeSums
  <2> QED
    BY <1>9, <2>1
<1>11. CASE CommitSpend(c)
  <2> DEFINE mainCoins == Smaller(wallet[w].main, r.main)
             amount == r.main - mainCoins
  <2>1. PICK d \in LotDebits(Spendable(w, r.at), amount) :
           /\ ConsumeLots(d)
           /\ Post(w, Movement(w, "SPEND", -mainCoins, -amount, {l \in Spendable(w, r.at) : d[l] > 0}, r.key))
    BY <1>11 DEF CommitSpend
  <2>2. amount \in Nat /\ -mainCoins \in Int
    BY <1>4, <1>6 DEF Smaller
  <2> HIDE DEF amount, mainCoins
  <2>3. -amount \in Int /\ -amount <= -amount
    BY <2>2
  <2>4. {l \in Spendable(w, r.at) : d[l] > 0} \in SUBSET Nat
    BY <1>8, <2>2
  <2>5. \A v \in Wallets : Remaining(LotsOf(v))' = Remaining(LotsOf(v)) + (IF v = w THEN -amount ELSE 0)
    BY <1>10, <2>1, <2>2
  <2> QED
    BY <1>1, <1>4, <2>1, <2>2, <2>3, <2>4, <2>5, BonusMoves DEF Types
<1>12. CASE CommitCredit(c)
  <2>1. /\ OpenLot(w, r.bonus, r.days, r.at) /\ r.kind = "credit"
        /\ Post(w, Movement(w, "CREDIT", r.main, r.bonus, OpenedLot(r.bonus), r.key))
    BY <1>12 DEF CommitCredit
  <2>2. r.bonus \in Nat /\ r.bonus <= r.bonus
    BY <1>4, <1>5, <2>1
  <2>3. \A v \in Wallets : Remaining(LotsOf(v))' = Remaining(LotsOf(v)) + (IF v = w THEN r.bonus ELSE 0)
    BY <1>1, <1>4, <2>1, <2>2, OpenSums
  <2> QED
    BY <1>1, <1>4, <1>7, <2>1, <2>2, <2>3, BonusMoves DEF Types
<1>13. CASE CommitAdjustMain(c)
  <2>1. /\ OpenLot(w, r.bonus, r.days, r.at)
        /\ Post(w, Movement(w, "ADJUSTMENT", r.main, r.bonus, OpenedLot(r.bonus), NoKey))
    BY <1>13 DEF CommitAdjustMain
  <2>2. r.bonus \in Nat /\ r.bonus <= r.bonus
    BY <1>4, <1>13 DEF CommitAdjustMain
  <2>3. \A v \in Wallets : Remaining(LotsOf(v))' = Remaining(LotsOf(v)) + (IF v = w THEN r.bonus ELSE 0)
    BY <1>1, <1>4, <2>1, <2>2, OpenSums
  <2> QED
    BY <1>1, <1>4, <1>7, <2>1, <2>2, <2>3, BonusMoves DEF Types
<1>14. CASE CommitAdjustBonus(c)
  <2> DEFINE amount == -r.bonus
  <2>1. PICK d \in LotDebits(Spendable(w, r.at), amount) :
           /\ ConsumeLots(d)
           /\ Post(w, Movement(w, "ADJUSTMENT", 0, r.bonus, {l \in Spendable(w, r.at) : d[l] > 0}, NoKey))
    BY <1>14 DEF CommitAdjustBonus
  <2>2. amount \in Nat /\ r.bonus = -amount /\ -amount \in Int /\ r.bonus <= -amount
    BY <1>4, <1>14 DEF CommitAdjustBonus
  <2> HIDE DEF amount
  <2>3. {l \in Spendable(w, r.at) : d[l] > 0} \in SUBSET Nat
    BY <1>8, <2>2
  <2>4. \A v \in Wallets : Remaining(LotsOf(v))' = Remaining(LotsOf(v)) + (IF v = w THEN -amount ELSE 0)
    BY <1>10, <2>1, <2>2
  <2> QED
    BY <1>1, <1>4, <2>1, <2>2, <2>3, <2>4, BonusMoves DEF Types
<1> QED
  BY <1>11, <1>12, <1>13, <1>14 DEF Commit

\* The sweep takes at least what it closes out of the counter.
LEMMA SweepBacked ==
    ASSUME IInv, BackingInv, NEW s \in Sweepers, SweepExpire(s)
    PROVE  BonusIsBacked'
<1>1. TypeOK /\ LotsAccounted /\ SweptLotsExist /\ SweptAmountsCover /\ BonusIsBacked
  BY DEF IInv, BackingInv
<1>2. sweep[s] # Idle
  BY DEF SweepExpire
<1>3. PICK row \in sweep[s].due :
         IF ~UpdateHits(row.id)
         THEN UNCHANGED <<wallet, lots, ledger>>
         ELSE /\ lots' = [lots EXCEPT ![row.id] = Consumed(lots[row.id], lots[row.id].remaining)]
              /\ Post(lots[row.id].wallet,
                      Movement(lots[row.id].wallet, "BONUS_EXPIRY", 0, -row.amount, {row.id}, NoKey))
  BY DEF SweepExpire, ExpireBonus
<1>4. /\ row.id \in LotIds /\ row.id \in Nat /\ row.amount \in Nat
      /\ lots[row.id].remaining <= row.amount
  BY <1>1, <1>2, <1>3 DEF TypeOK, Run, SweptLotsExist, SweptAmountsCover
<1> DEFINE w == lots[row.id].wallet
           left == lots[row.id].remaining
<1>5. w \in Wallets /\ left \in Nat
  BY <1>1, <1>4, LotFields DEF Lot
<1>6. CASE ~UpdateHits(row.id)
  BY <1>1, <1>3, <1>6, BonusStands
<1>7. CASE UpdateHits(row.id)
  <2>1. /\ lots' = [lots EXCEPT ![row.id] = Consumed(lots[row.id], left)]
        /\ Post(w, Movement(w, "BONUS_EXPIRY", 0, -row.amount, {row.id}, NoKey))
    BY <1>3, <1>7
  <2>2. ASSUME NEW v \in Wallets
        PROVE  Remaining(LotsOf(v))' = Remaining(LotsOf(v)) + (IF v = w THEN -left ELSE 0)
    <3>1. Remaining(LotsOf(v))' = Remaining(LotsOf(v)) - (IF v = w THEN left ELSE 0)
      BY <1>1, <1>4, <2>1, CloseSums
    <3>2. LotsOf(v) \in SUBSET LotIds
      BY DEF LotsOf
    <3>3. Remaining(LotsOf(v)) \in Nat
      BY <1>1, <3>2, RemainingNat
    <3> QED
      BY <1>5, <3>1, <3>3
  <2>3. -left \in Int /\ -row.amount \in Int /\ -row.amount <= -left
    BY <1>4, <1>5
  <2>4. {row.id} \in SUBSET Nat /\ 0 \in Int /\ NoKey \in Keys \cup {NoKey}
    BY <1>4
  <2> HIDE DEF w, left
  <2> QED
    BY <1>1, <1>5, <2>1, <2>2, <2>3, <2>4, BonusMoves DEF Types
<1> QED
  BY <1>6, <1>7

\* A row a sweep holds was there before, or it was read in this step.
LEMMA RowsRead ==
    ASSUME IInv, [Next]_vars, NEW s \in Sweepers, sweep'[s] # Idle, NEW row \in sweep'[s].due
    PROVE  \/ sweep[s] # Idle /\ row \in sweep[s].due
           \/ row.id \in LotIds /\ row.amount = lots[row.id].remaining /\ lots' = lots
<1>1. sweep \in [Sweepers -> Run \cup {Idle}]
  BY DEF IInv, TypeOK
<1>2. CASE sweep'[s] = sweep[s]
  BY <1>2
<1>3. ASSUME NEW t \in Sweepers, Sweep(t) \/ SweepAbort(t), sweep'[s] # sweep[s]
      PROVE  \/ sweep[s] # Idle /\ row \in sweep[s].due
             \/ row.id \in LotIds /\ row.amount = lots[row.id].remaining /\ lots' = lots
  <2>1. ASSUME NEW at, NEW B \in Batches(at), sweep' = [sweep EXCEPT ![t] = Snapshot(B, at)],
               lots' = lots
        PROVE  row.id \in LotIds /\ row.amount = lots[row.id].remaining
    <3>1. t = s /\ sweep'[s] = Snapshot(B, at)
      BY <1>1, <1>3, <2>1
    <3>2. PICK l \in B : row = [id |-> l, amount |-> lots[l].remaining]
      BY <3>1 DEF Snapshot
    <3> QED
      BY <3>2 DEF Batches, Due
  <2>2. CASE SweepStart(t)
    BY <2>1, <2>2 DEF SweepStart
  <2>3. CASE SweepExpire(t)
    <3>1. PICK done \in sweep[t].due :
             sweep' = [sweep EXCEPT ![t] = [sweep[t] EXCEPT !.due = sweep[t].due \ {done}]]
      BY <2>3 DEF SweepExpire
    <3>2. t = s /\ sweep[t] # Idle /\ sweep[t] \in Run
      BY <1>1, <1>3, <2>3, <3>1 DEF SweepExpire
    <3> QED
      BY <1>1, <3>1, <3>2 DEF Run
  <2>4. CASE SweepNext(t)
    <3>1. PICK B \in Batches(sweep[t].at) :
             sweep' = [sweep EXCEPT ![t] = IF sweep[t].full /\ B # {} THEN Snapshot(B, sweep[t].at) ELSE Idle]
      BY <2>4 DEF SweepNext
    <3>2. lots' = lots
      BY <2>4 DEF SweepNext
    <3>3. t = s
      BY <1>1, <1>3, <3>1
    <3>4. sweep[t].full /\ B # {}
      BY <1>1, <3>1, <3>3
    <3> QED
      BY <2>1, <3>1, <3>2, <3>4
  <2>5. CASE SweepAbort(t)
    BY <1>1, <1>3, <2>5 DEF SweepAbort
  <2> QED
    BY <1>3, <2>2, <2>3, <2>4, <2>5 DEF Sweep
<1>4. sweep'[s] # sweep[s] => \E t \in Sweepers : Sweep(t) \/ SweepAbort(t)
  BY DEF Next, Tick, Call, BeginSpend, BeginCredit, BeginAdjust, Begin, Commit, CommitSpend, CommitCredit,
         CommitAdjustMain, CommitAdjustBonus, Abort, vars
<1> QED
  BY <1>2, <1>3, <1>4

\* A call keeps its instant, or begins now.
LEMMA CallInstants ==
    ASSUME IInv, [Next]_vars, NEW c \in Clients, req'[c] # Idle
    PROVE  (req[c] # Idle /\ req'[c] = req[c]) \/ req'[c].at = now
<1>1. req \in [Clients -> Request \cup {Idle}]
  BY DEF IInv, TypeOK
<1>2. ASSUME NEW b \in Clients, req' = [req EXCEPT ![b] = Idle]
      PROVE  req[c] # Idle /\ req'[c] = req[c]
  BY <1>1, <1>2
<1>3. ASSUME NEW b \in Clients, NEW r, r.at = now, Begin(b, r)
      PROVE  (req[c] # Idle /\ req'[c] = req[c]) \/ req'[c].at = now
  BY <1>1, <1>3 DEF Begin
<1>4. ASSUME NEW b \in Clients, Call(b)
      PROVE  (req[c] # Idle /\ req'[c] = req[c]) \/ req'[c].at = now
  <2>1. PICK kind, w, main, bonus, days, key :
           Begin(b, [kind |-> kind, wallet |-> w, main |-> main, bonus |-> bonus,
                     days |-> days, key |-> key, at |-> now])
    BY <1>4, Zenon DEF Call, BeginSpend, BeginCredit, BeginAdjust
  <2> QED
    BY <1>3, <2>1
<1>5. ASSUME NEW b \in Clients, Commit(b) \/ Abort(b)
      PROVE  req[c] # Idle /\ req'[c] = req[c]
  <2>1. req' = [req EXCEPT ![b] = Idle]
    BY <1>5 DEF Commit, CommitSpend, CommitCredit, CommitAdjustMain, CommitAdjustBonus, Abort
  <2> QED
    BY <1>2, <2>1
<1>6. CASE req' = req
  BY <1>6
<1>7. ASSUME NEW s \in Sweepers, Sweep(s) \/ SweepAbort(s) PROVE req' = req
  BY <1>7 DEF Sweep, SweepStart, SweepExpire, SweepNext, SweepAbort
<1>8. Tick \/ UNCHANGED vars => req' = req
  BY DEF Tick, vars
<1> QED
  BY <1>4, <1>5, <1>6, <1>7, <1>8 DEF Next

LEMMA ClockAdvances == ASSUME IInv, [Next]_vars PROVE now \in Nat /\ now' \in Nat /\ now <= now'
<1>1. now \in Nat
  BY DEF IInv, TypeOK
<1>2. CASE Tick
  BY <1>1, <1>2 DEF Tick
<1>3. CASE ~Tick
  <2>1. now' = now
    BY <1>3 DEF Next, Call, BeginSpend, BeginCredit, BeginAdjust, Begin, Commit, CommitSpend, CommitCredit,
           CommitAdjustMain, CommitAdjustBonus, Abort, Sweep, SweepStart, SweepExpire, SweepNext, SweepAbort, vars
  <2> QED
    BY <1>1, <2>1
<1> QED
  BY <1>2, <1>3

LEMMA StepBacking == ASSUME IInv, BackingInv, [Next]_vars PROVE BackingInv'
<1>1. TypeOK /\ SweptLotsExist /\ SweptAmountsCover /\ CallsNotAhead /\ BonusIsBacked
  BY DEF IInv, BackingInv
<1>2. IInv' /\ LotsDrain
  BY StepIInv
<1>3. SweptAmountsCover'
  <2> SUFFICES ASSUME NEW s \in Sweepers, sweep'[s] # Idle, NEW row \in sweep'[s].due
               PROVE  lots'[row.id].remaining <= row.amount
    BY DEF SweptAmountsCover
  <2>1. CASE sweep[s] # Idle /\ row \in sweep[s].due
    <3>1. row.id \in LotIds /\ lots[row.id].remaining <= row.amount
      BY <1>1, <2>1 DEF SweptLotsExist, SweptAmountsCover
    <3>2. lots'[row.id].remaining <= lots[row.id].remaining
      BY <1>2, <3>1 DEF LotsDrain
    <3>3. lots[row.id].remaining \in Nat /\ row.amount \in Nat
      BY <1>1, <2>1, <3>1, LotFields DEF TypeOK, Run
    <3>4. lots'[row.id].remaining \in Nat
      <4>1. row.id \in DOMAIN lots' /\ lots' \in Seq(Lot)
        BY <1>2, <3>1 DEF LotsDrain, TypeOK, IInv
      <4>2. lots'[row.id] \in Lot
        BY <4>1
      <4> QED
        BY <4>2 DEF Lot
    <3> QED
      BY <3>1, <3>2, <3>3, <3>4
  <2>2. CASE row.id \in LotIds /\ row.amount = lots[row.id].remaining /\ lots' = lots
    <3>1. lots[row.id].remaining \in Nat
      BY <1>1, <2>2, LotFields
    <3> QED
      BY <2>2, <3>1
  <2> QED
    BY <2>1, <2>2, RowsRead
<1>4. CallsNotAhead'
  <2> SUFFICES ASSUME NEW c \in Clients, req'[c] # Idle PROVE req'[c].at <= now'
    BY DEF CallsNotAhead
  <2>1. now \in Nat /\ now' \in Nat /\ now <= now'
    BY ClockAdvances
  <2>2. CASE req[c] # Idle /\ req'[c] = req[c]
    <3>1. req[c].at \in Nat /\ req[c].at <= now
      BY <1>1, <2>2 DEF TypeOK, Request, CallsNotAhead
    <3> QED
      BY <2>1, <2>2, <3>1
  <2> QED
    BY <2>1, <2>2, CallInstants
<1>5. BonusIsBacked'
  <2>1. CASE UNCHANGED <<wallet, lots, ledger>>
    BY <1>1, <2>1, BonusStands
  <2>2. ASSUME NEW c \in Clients, Commit(c) PROVE BonusIsBacked'
    BY <1>1, <2>2, CommitBacked
  <2>3. ASSUME NEW s \in Sweepers, SweepExpire(s) PROVE BonusIsBacked'
    BY <2>3, SweepBacked
  <2>4. \/ UNCHANGED <<wallet, lots, ledger>>
        \/ \E c \in Clients : Commit(c)
        \/ \E s \in Sweepers : SweepExpire(s)
    BY DEF Next, Tick, Call, BeginSpend, BeginCredit, BeginAdjust, Begin, Abort, Sweep, SweepStart,
           SweepNext, SweepAbort, vars
  <2> QED
    BY <2>1, <2>2, <2>3, <2>4
<1> QED
  BY <1>3, <1>4, <1>5 DEF BackingInv

LEMMA InitBacking == ASSUME Init PROVE BackingInv
<1>1. SweptAmountsCover /\ CallsNotAhead
  BY DEF Init, SweptAmountsCover, CallsNotAhead
<1>2. ASSUME NEW w \in Wallets PROVE wallet[w].bonus = 0 /\ Remaining(LotsOf(w)) = 0
  <2>1. LotsOf(w) = {}
    BY DEF Init, LotsOf, LotIds
  <2>2. Remaining({}) = 0
    BY SumEmpty DEF Remaining
  <2> QED
    BY <2>1, <2>2 DEF Init
<1>3. BonusIsBacked
  BY <1>2 DEF BonusIsBacked, BonusBackedByLots, BonusIsLotSumUntilExpiry
<1> QED
  BY <1>1, <1>3 DEF BackingInv

(***************************************************************************)
(* SpendAsQuoted: what a spend takes, and where from.                      *)
(***************************************************************************)

\* Post changes the ledger of one wallet, and the entry is its last.
LEMMA PostIsLast ==
    ASSUME TypeOK, NEW v \in Wallets, NEW w \in Wallets, NEW type \in Types, NEW main \in Int,
           NEW bonus \in Int, NEW touched \in SUBSET Nat, NEW key \in Keys \cup {NoKey},
           Post(w, Movement(w, type, main, bonus, touched, key)), ledger'[v] # ledger[v]
    PROVE  /\ v = w
           /\ ledger'[v][Len(ledger'[v])].type = type
           /\ ledger'[v][Len(ledger'[v])].bonus = bonus
           /\ ledger'[v][Len(ledger'[v])].lots = touched
           /\ wallet'[v].main = wallet[v].main + main
           /\ wallet'[v].bonus = wallet[v].bonus + bonus
<1> DEFINE e == Movement(w, type, main, bonus, touched, key)
<1>1. /\ e \in Entry /\ e.type = type /\ e.bonus = bonus /\ e.lots = touched
      /\ e.mainAfter = wallet[w].main + main /\ e.bonusAfter = wallet[w].bonus + bonus
  BY MovementType DEF Movement
<1> HIDE DEF e
<1>2. /\ wallet'[w] = [main |-> e.mainAfter, bonus |-> e.bonusAfter]
      /\ Len(ledger'[w]) = Len(ledger[w]) + 1
      /\ ledger'[w][Len(ledger[w]) + 1] = e
      /\ \A u \in Wallets \ {w} : ledger'[u] = ledger[u] /\ wallet'[u] = wallet[u]
  BY <1>1, PostEffect DEF e
<1>3. v = w
  BY <1>2
<1> QED
  BY <1>1, <1>2, <1>3

\* What CommitSpend does, in the terms of the two properties.
LEMMA SpendEffect ==
    ASSUME IInv, NEW c \in Clients, CommitSpend(c)
    PROVE  LET r == req[c]
               w == r.wallet
               mainCoins == Smaller(wallet[w].main, r.main)
               amount == r.main - mainCoins
               open == Spendable(w, r.at)
           IN  /\ r \in Request /\ r.main > 0 /\ mainCoins \in Int /\ amount \in Nat
               /\ Remaining(open) >= amount
               /\ \E d \in LotDebits(open, amount) :
                     /\ ConsumeLots(d)
                     /\ {l \in open : d[l] > 0} \in SUBSET Nat
                     /\ Post(w, Movement(w, "SPEND", -mainCoins, -amount, {l \in open : d[l] > 0}, r.key))
<1> DEFINE r == req[c]
           w == r.wallet
           open == Spendable(w, r.at)
<1>1. r # Idle /\ r.kind = "spend"
  BY DEF CommitSpend
<1>2. r \in Request
  BY <1>1 DEF IInv, TypeOK
<1>3. r.main > 0
  BY <1>1 DEF IInv, CallsWellFormed
<1>4. w \in Wallets /\ r.main \in Int
  BY <1>2 DEF Request
<1>5. wallet[w].main \in Int
  BY <1>4 DEF IInv, TypeOK
<1>6. Smaller(wallet[w].main, r.main) \in Int /\ r.main - Smaller(wallet[w].main, r.main) \in Nat
  BY <1>4, <1>5 DEF Smaller
<1>7. open \subseteq Nat
  BY DEF Spendable, LotIds, IInv, TypeOK
<1>8. \A d : {l \in open : d[l] > 0} \in SUBSET Nat
  BY <1>7
<1> QED
  BY <1>2, <1>3, <1>6, <1>8 DEF CommitSpend

\* The last entry of a ledger that grew is a spend: the step is that spend's commit.
LEMMA SpendCommitted ==
    ASSUME IInv, [Next]_vars, NEW w \in Wallets, ledger'[w] # ledger[w],
           ledger'[w][Len(ledger'[w])].type = "SPEND"
    PROVE  \E c \in Clients : CommitSpend(c) /\ req[c].wallet = w
<1>1. TypeOK
  BY DEF IInv
<1>2. \/ \E c \in Clients : Commit(c)
      \/ \E s \in Sweepers : SweepExpire(s)
  BY DEF Next, Tick, Call, BeginSpend, BeginCredit, BeginAdjust, Begin, Abort, Sweep, SweepStart,
         SweepNext, SweepAbort, vars
<1>3. ASSUME NEW c \in Clients, req[c] # Idle
      PROVE  /\ req[c] \in Request /\ req[c].wallet \in Wallets /\ req[c].main \in Int
             /\ req[c].bonus \in Int /\ req[c].key \in Keys \cup {NoKey}
  <2>1. req[c] \in Request
    BY <1>1, <1>3 DEF TypeOK
  <2> QED
    BY <2>1 DEF Request
<1>4. ASSUME NEW amount \in Int, amount >= 0 PROVE OpenedLot(amount) \in SUBSET Nat
  BY <1>1 DEF OpenedLot, TypeOK
<1>5. ASSUME NEW c \in Clients, CommitSpend(c) PROVE req[c].wallet = w
  <2>1. PICK d : Post(req[c].wallet,
                      Movement(req[c].wallet, "SPEND", -Smaller(wallet[req[c].wallet].main, req[c].main),
                               -(req[c].main - Smaller(wallet[req[c].wallet].main, req[c].main)), d, req[c].key))
    BY <1>5 DEF CommitSpend
  <2>2. req[c].wallet \in Wallets
    BY <1>3, <1>5 DEF CommitSpend
  <2> QED
    BY <1>1, <2>1, <2>2 DEF Post, TypeOK
<1>6. ASSUME NEW c \in Clients, CommitCredit(c) PROVE FALSE
  <2> DEFINE r == req[c]
  <2>1. /\ r # Idle /\ r.kind = "credit"
        /\ Post(r.wallet, Movement(r.wallet, "CREDIT", r.main, r.bonus, OpenedLot(r.bonus), r.key))
    BY <1>6 DEF CommitCredit
  <2>2. r.bonus >= 0
    BY <2>1 DEF IInv, CallsWellFormed
  <2>3. ledger'[w][Len(ledger'[w])].type = "CREDIT"
    BY <1>1, <1>3, <1>4, <2>1, <2>2, PostIsLast DEF Types
  <2> QED
    BY <2>3
<1>7. ASSUME NEW c \in Clients, CommitAdjustMain(c) PROVE FALSE
  <2> DEFINE r == req[c]
  <2>1. /\ r # Idle /\ r.bonus >= 0
        /\ Post(r.wallet, Movement(r.wallet, "ADJUSTMENT", r.main, r.bonus, OpenedLot(r.bonus), NoKey))
    BY <1>7 DEF CommitAdjustMain
  <2>2. ledger'[w][Len(ledger'[w])].type = "ADJUSTMENT"
    BY <1>1, <1>3, <1>4, <2>1, PostIsLast DEF Types
  <2> QED
    BY <2>2
<1>8. ASSUME NEW c \in Clients, CommitAdjustBonus(c) PROVE FALSE
  <2> DEFINE r == req[c]
             open == Spendable(r.wallet, r.at)
  <2>1. r # Idle
    BY <1>8 DEF CommitAdjustBonus
  <2>2. PICK d : Post(r.wallet, Movement(r.wallet, "ADJUSTMENT", 0, r.bonus, {l \in open : d[l] > 0}, NoKey))
    BY <1>8 DEF CommitAdjustBonus
  <2>3. {l \in open : d[l] > 0} \in SUBSET Nat /\ 0 \in Int
    BY <1>1 DEF Spendable, LotIds, TypeOK
  <2>4. ledger'[w][Len(ledger'[w])].type = "ADJUSTMENT"
    BY <1>1, <1>3, <2>1, <2>2, <2>3, PostIsLast DEF Types
  <2> QED
    BY <2>4
<1>9. ASSUME NEW s \in Sweepers, SweepExpire(s) PROVE FALSE
  <2>1. PICK row \in sweep[s].due :
           \/ UNCHANGED <<wallet, lots, ledger>>
           \/ Post(lots[row.id].wallet,
                   Movement(lots[row.id].wallet, "BONUS_EXPIRY", 0, -row.amount, {row.id}, NoKey))
    BY <1>9 DEF SweepExpire, ExpireBonus
  <2>2. sweep[s] # Idle
    BY <1>9 DEF SweepExpire
  <2>3. row.id \in LotIds /\ row.id \in Nat /\ row.amount \in Nat
    BY <2>1, <2>2 DEF IInv, TypeOK, Run, SweptLotsExist
  <2>4. lots[row.id].wallet \in Wallets /\ {row.id} \in SUBSET Nat /\ -row.amount \in Int /\ 0 \in Int
    BY <1>1, <2>3, LotFields DEF Lot
  <2>5. Post(lots[row.id].wallet,
             Movement(lots[row.id].wallet, "BONUS_EXPIRY", 0, -row.amount, {row.id}, NoKey))
    BY <2>1
  <2>6. NoKey \in Keys \cup {NoKey} /\ "BONUS_EXPIRY" \in Types
    BY DEF Types
  <2>7. ledger'[w][Len(ledger'[w])].type = "BONUS_EXPIRY"
    BY <1>1, <2>4, <2>5, <2>6, PostIsLast
  <2> QED
    BY <2>7
<1> QED
  BY <1>2, <1>5, <1>6, <1>7, <1>8, <1>9 DEF Commit

\* A spend that takes bonus Coins empties main, and the lots in their order.
LEMMA SpendTakesInOrder ==
    ASSUME IInv, BackingInv, [Next]_vars, NEW w \in Wallets, SpendsBonus(w)
    PROVE  wallet'[w].main = 0 /\ FirstToExpireFirst(w)
<1> DEFINE e == ledger'[w][Len(ledger'[w])]
<1>1. ledger'[w] # ledger[w] /\ e.type = "SPEND" /\ e.bonus < 0
  BY DEF SpendsBonus
<1>2. PICK c \in Clients : CommitSpend(c) /\ req[c].wallet = w
  BY <1>1, SpendCommitted
<1> DEFINE r == req[c]
           mainCoins == Smaller(wallet[w].main, r.main)
           amount == r.main - mainCoins
           open == Spendable(w, r.at)
<1>3. r \in Request /\ r.main > 0 /\ mainCoins \in Int /\ amount \in Nat
  BY <1>2, SpendEffect
<1>4. PICK d \in LotDebits(open, amount) :
         /\ ConsumeLots(d)
         /\ {l \in open : d[l] > 0} \in SUBSET Nat
         /\ Post(w, Movement(w, "SPEND", -mainCoins, -amount, {l \in open : d[l] > 0}, r.key))
  BY <1>2, SpendEffect
<1>5. TypeOK /\ LotsAccounted /\ CallsNotAhead
  BY DEF IInv, BackingInv
<1>6. r.key \in Keys \cup {NoKey} /\ r.main \in Int /\ r.at \in Nat /\ r # Idle
  BY <1>2, <1>3 DEF Request, CommitSpend
<1>7. -mainCoins \in Int /\ -amount \in Int
  BY <1>3
<1>8. wallet[w].main \in Int
  BY <1>5 DEF TypeOK
<1> HIDE DEF amount, mainCoins
<1>9. e.bonus = -amount /\ e.lots = {l \in open : d[l] > 0} /\ wallet'[w].main = wallet[w].main + -mainCoins
  BY <1>1, <1>4, <1>5, <1>6, <1>7, PostIsLast DEF Types
<1>10. amount > 0
  BY <1>1, <1>3, <1>9
<1>11. mainCoins = wallet[w].main
  BY <1>3, <1>6, <1>8, <1>10 DEF amount, mainCoins, Smaller
<1>12. wallet'[w].main = 0
  BY <1>3, <1>9, <1>11
<1>13. /\ d \in [open -> 0..amount] /\ \A l \in open : d[l] <= lots[l].remaining
       /\ \A k, l \in open : d[l] > 0 /\ RunsOutBefore(k, l) => d[k] = lots[k].remaining
  BY DEF LotDebits
<1>14. ASSUME NEW k \in LotsOf(w), NEW l \in e.lots, RunsOutBefore(k, l), lots[k].expiresAt > now
       PROVE  lots'[k].remaining = 0
  <2>1. k \in LotIds /\ lots[k].wallet = w
    BY DEF LotsOf
  <2>2. lots[k] \in Lot /\ lots[k].remaining \in Nat /\ lots[k].expiresAt \in Nat
    BY <1>5, <2>1, LotFields DEF Lot
  <2>3. l \in open /\ d[l] > 0
    BY <1>9
  <2>4. r.at <= now /\ now \in Nat
    BY <1>5, <1>6 DEF CallsNotAhead, TypeOK
  <2>5. lots[k].expiresAt > r.at
    BY <1>6, <1>14, <2>2, <2>4
  <2>6. lots'[k] = IF k \in DOMAIN d /\ d[k] > 0 THEN Consumed(lots[k], d[k]) ELSE lots[k]
    BY <1>4, <2>1 DEF ConsumeLots
  <2>7. CASE k \notin open
    <3>1. lots[k].remaining = 0
      BY <1>5, <2>1, <2>2, <2>5, <2>7 DEF Spendable, LotsAccounted
    <3> QED
      BY <1>13, <2>6, <2>7, <3>1
  <2>8. CASE k \in open
    <3>1. d[k] = lots[k].remaining
      BY <1>13, <1>14, <2>3, <2>8
    <3>2. lots[k].remaining > 0
      BY <2>8 DEF Spendable
    <3>3. lots'[k] = Consumed(lots[k], lots[k].remaining)
      BY <1>13, <2>6, <2>8, <3>1, <3>2
    <3>4. lots[k].remaining \in 0..lots[k].remaining /\ lots[k].remaining - lots[k].remaining = 0
      BY <2>2
    <3> QED
      BY <2>2, <3>3, <3>4, ConsumedLot
  <2> QED
    BY <2>7, <2>8
<1> QED
  BY <1>12, <1>14 DEF FirstToExpireFirst

\* A spend whose clock still shows its instant takes what the screen plans.
LEMMA SpendTakesTheQuote ==
    ASSUME IInv, [Next]_vars, NEW c \in Clients, SpendsAtOnce(c)
    PROVE  TakesTheQuote(req[c].wallet, req[c].main)
<1> DEFINE r == req[c]
           w == r.wallet
           mainCoins == Smaller(wallet[w].main, r.main)
           amount == r.main - mainCoins
           open == Spendable(w, r.at)
<1>1. r # Idle /\ r.kind = "spend" /\ r.at = now /\ ledger'[w] # ledger[w] /\ req'[c] = Idle
  BY DEF SpendsAtOnce
<1>2. req \in [Clients -> Request \cup {Idle}] /\ TypeOK
  BY DEF IInv, TypeOK
<1>3. PICK b \in Clients : Commit(b)
  BY <1>1 DEF Next, Tick, Call, BeginSpend, BeginCredit, BeginAdjust, Begin, Abort, Sweep, SweepStart,
              SweepNext, SweepExpire, SweepAbort, vars
<1>4. req' = [req EXCEPT ![b] = Idle]
  BY <1>3 DEF Commit, CommitSpend, CommitCredit, CommitAdjustMain, CommitAdjustBonus
<1>5. b = c
  BY <1>1, <1>2, <1>4
<1>6. CommitSpend(c)
  BY <1>1, <1>3, <1>5 DEF Commit, CommitCredit, CommitAdjustMain, CommitAdjustBonus
<1>7. r \in Request /\ r.main > 0 /\ mainCoins \in Int /\ amount \in Nat /\ Remaining(open) >= amount
  BY <1>6, SpendEffect
<1>8. PICK touched \in SUBSET Nat : Post(w, Movement(w, "SPEND", -mainCoins, -amount, touched, r.key))
  BY <1>6, SpendEffect
<1>9. w \in Wallets /\ r.key \in Keys \cup {NoKey} /\ r.main \in Int
  BY <1>7 DEF Request
<1>10. -mainCoins \in Int /\ -amount \in Int /\ wallet[w].main \in Int /\ wallet[w].bonus \in Int
  BY <1>2, <1>7, <1>9 DEF TypeOK
<1>11. open \in SUBSET LotIds
  BY DEF Spendable
<1>12. Remaining(open) \in Nat
  BY <1>2, <1>11, RemainingNat
<1>13. SpendableBonus(w) = Remaining(open)
  BY <1>1 DEF SpendableBonus
<1>14. Affordability(w, r.main).split = [main |-> mainCoins, bonus |-> Smaller(Remaining(open), amount)]
  BY <1>13 DEF Affordability, PlannedSplit
<1>15. Affordability(w, r.main).enough = (mainCoins + Smaller(Remaining(open), amount) >= r.main)
  BY <1>13 DEF Affordability, PlannedSplit
<1>16. Smaller(Remaining(open), amount) = amount
  BY <1>7, <1>12 DEF Smaller
<1>17. mainCoins + amount = r.main
  BY <1>7, <1>9
<1> HIDE DEF amount, mainCoins, open
<1>18. wallet'[w].main = wallet[w].main + -mainCoins /\ wallet'[w].bonus = wallet[w].bonus + -amount
  BY <1>1, <1>2, <1>8, <1>9, <1>10, PostIsLast DEF Types
<1>19. /\ wallet'[w].main = wallet[w].main - mainCoins
       /\ wallet'[w].bonus = wallet[w].bonus - amount
  BY <1>7, <1>10, <1>18
<1>20. mainCoins + amount >= r.main
  BY <1>9, <1>17
<1> DEFINE quote == Affordability(w, r.main)
<1>21. quote.split.main = mainCoins /\ quote.split.bonus = amount
  BY <1>14, <1>16
<1>22. quote.enough
  BY <1>15, <1>16, <1>20
<1> HIDE DEF quote
<1>23. /\ quote.enough
       /\ wallet'[w].main = wallet[w].main - quote.split.main
       /\ wallet'[w].bonus = wallet[w].bonus - quote.split.bonus
  BY <1>19, <1>21, <1>22
<1> QED
  BY <1>23 DEF TakesTheQuote, quote

(***************************************************************************)
(* The theorems.                                                           *)
(***************************************************************************)

\* IInv holds in every state of every run.
THEOREM Invariance == Spec => []IInv
<1>1. Init => IInv
  BY InitIInv
<1>2. IInv /\ [Next]_vars => IInv'
  BY StepIInv
<1> QED
  BY <1>1, <1>2, PTL DEF Spec

\* Type correctness, for every value of the constants.
THEOREM TypeCorrect == Spec => []TypeOK
<1>1. IInv => TypeOK
  BY DEF IInv
<1> QED
  BY <1>1, Invariance, PTL

\* The counters of a wallet are always what its ledger adds up to, entry by
\* entry (the transactions of CoinSpendService and CoinAdjustService).
THEOREM LedgerInStep == Spec => []LedgerExplainsWallet
<1>1. IInv => LedgerExplainsWallet
  BY DEF IInv
<1> QED
  BY <1>1, Invariance, PTL

\* No interleaving of callers overdraws the main Coins of a wallet.
THEOREM MainCovered == Spec => []MainNeverNegative
<1>1. IInv => MainNeverNegative
  BY DEF IInv
<1> QED
  BY <1>1, Invariance, PTL

\* An idempotency key moves Coins at most once, over all wallets and callers.
THEOREM KeyOnce == Spec => []KeyMovesCoinsOnce
<1>1. IInv => KeyMovesCoinsOnce
  BY DEF IInv
<1> QED
  BY <1>1, Invariance, PTL

\* However many sweeps overlap, a lot is expired at most once.
THEOREM ExpiryOnce == Spec => []LotExpiresOnce
<1>1. IInv => LotExpiresOnce
  BY DEF IInv
<1> QED
  BY <1>1, Invariance, PTL

\* A lot never holds less than nothing or more than it was opened with.
THEOREM LotsBalanced == Spec => []LotsAccounted
<1>1. IInv => LotsAccounted
  BY DEF IInv
<1> QED
  BY <1>1, Invariance, PTL

\* No step of any caller or sweep reopens a closed lot or adds Coins to one.
THEOREM DrainOnly == Spec => LotsOnlyDrain
<1>1. LotsDrain => \A l \in LotIds : /\ lots[l].closed => lots'[l] = lots[l]
                                     /\ lots'[l].remaining <= lots[l].remaining
  BY DEF LotsDrain
<1>2. IInv /\ [Next]_vars => [\A l \in LotIds : /\ lots[l].closed => lots'[l] = lots[l]
                                                /\ lots'[l].remaining <= lots[l].remaining]_lots
  BY <1>1, StepIInv
<1> QED
  BY <1>2, Invariance, PTL DEF Spec, LotsOnlyDrain

\* No debit takes what is not there: main Coins stay covered, and a lot gives
\* what it holds (CoinSpendService and the sweep, over any wallets and callers).
THEOREM NeverOverdrawn == Spec => []NothingOverdrawn
<1>1. IInv => NothingOverdrawn
  BY DEF IInv, NothingOverdrawn
<1> QED
  BY <1>1, Invariance, PTL

\* What ran out leaves its wallet once and stays out, whatever the sweeps do.
THEOREM FinalExpiry == Spec => ExpiryIsFinal
  BY ExpiryOnce, DrainOnly, PTL DEF ExpiryIsFinal

\* The amounts sweeps hold cover their lots, no call is ahead of the clock, and
\* the bonus counter is backed, in every state of every run.
THEOREM Backing == Spec => []BackingInv
<1>1. Init => IInv /\ BackingInv
  BY InitIInv, InitBacking
<1>2. IInv /\ BackingInv /\ [Next]_vars => IInv' /\ BackingInv'
  BY StepIInv, StepBacking
<1> QED
  BY <1>1, <1>2, PTL DEF Spec

\* The bonus counter of a wallet equals the sum of its lots until one runs out,
\* and never promises more than they hold, whatever callers and sweeps do.
THEOREM BonusBacked == Spec => []BonusIsBacked
<1>1. BackingInv => BonusIsBacked
  BY DEF BackingInv
<1> QED
  BY <1>1, Backing, PTL

\* Every spend takes main Coins first and then the lots that run out first, and
\* one that goes through at once takes what the Coin screen announced.
THEOREM SpendKeepsQuote == Spec => SpendAsQuoted
<1>1. IInv /\ BackingInv /\ [Next]_vars =>
         [\A w \in Wallets : SpendsBonus(w) => wallet'[w].main = 0 /\ FirstToExpireFirst(w)]_ledger
  BY SpendTakesInOrder
<1>2. IInv /\ BackingInv /\ [Next]_vars =>
         [\A c \in Clients : SpendsAtOnce(c) => TakesTheQuote(req[c].wallet, req[c].main)]_ledger
  BY SpendTakesTheQuote
<1>3. Spec => MainThenFirstToExpire
  BY <1>1, Invariance, Backing, PTL DEF Spec, MainThenFirstToExpire
<1>4. Spec => QuotedIsCharged
  BY <1>2, Invariance, Backing, PTL DEF Spec, QuotedIsCharged
<1> QED
  BY <1>3, <1>4 DEF SpendAsQuoted

-----------------------------------------------------------------------------
(* The mail of the outbox.                                                  *)

\* A step of one worker keeps the story of the message.
LEMMA MailAttempt ==
    ASSUME Outbox!IInv, NEW w \in Workers,
           \/ Outbox!Take(w) \/ Outbox!Send(w) \/ Outbox!SendFails(w) \/ Outbox!Mark(w)
           \/ Outbox!MarkFails(w) \/ Outbox!Finish(w) \/ Outbox!Retry(w) \/ Outbox!GiveUp(w)
           \/ Outbox!GiveUpFails(w) \/ Outbox!Notify(w) \/ Outbox!Stall(w) \/ Outbox!WorkerDies(w)
    PROVE  Outbox!IInv'
<1> USE DEF Outbox!IInv, Outbox!JobHasItsAttempt, Outbox!NoMailKept, Outbox!OneMail,
            Outbox!At, Outbox!Owns, Outbox!Moves, Outbox!Rests, Outbox!NoAttempt
<1>1. CASE Outbox!Take(w)
  BY <1>1 DEF Outbox!Take
<1>2. CASE Outbox!Send(w)
  BY <1>2 DEF Outbox!Send
<1>3. CASE Outbox!SendFails(w)
  BY <1>3 DEF Outbox!SendFails
<1>4. CASE Outbox!Mark(w)
  <2>1. /\ worker[w].at = "mark" /\ sends > 0 /\ message' = "SENT"
        /\ UNCHANGED <<job, caller, sends, unmarked, strayed>>
    BY <1>4 DEF Outbox!Mark
  <2>2. /\ worker' = [worker EXCEPT ![w].at = "finish"]
        /\ worker'[w].at = "finish" /\ worker'[w].owns = worker[w].owns
        /\ \A u \in Workers \ {w} : worker'[u] = worker[u]
    BY <1>4 DEF Outbox!Mark
  <2>3. Outbox!JobHasItsAttempt'
    BY <2>1, <2>2
  <2>4. ASSUME NEW u \in Workers
        PROVE  /\ worker'[u].owns /\ worker'[u].at \in {"send", "failed"} => (Outbox!NoMailKept)'
               /\ worker'[u].owns /\ worker'[u].at = "finish" => message' = "SENT"
               /\ worker'[u].at = "mark" => sends' > 0
    <3>1. CASE u = w
      BY <2>1, <2>2, <3>1
    <3>2. CASE u # w
      BY <2>1, <2>2, <3>2
    <3> QED
      BY <3>1, <3>2
  <2> QED
    BY <2>1, <2>2, <2>3, <2>4
<1>5. CASE Outbox!MarkFails(w)
  BY <1>5 DEF Outbox!MarkFails, Outbox!Unmarked
<1>6. CASE Outbox!Finish(w)
  <2>1. /\ worker[w].at = "finish" /\ job' \in {job, "done"} /\ (worker[w].owns => job' = "done")
        /\ (~worker[w].owns => job' = job)
        /\ caller' \in {caller, "done"} /\ UNCHANGED <<message, sends, unmarked, strayed>>
    BY <1>6 DEF Outbox!Finish, Outbox!Ended, Outbox!Reports
  <2>2. /\ worker' = [worker EXCEPT ![w] = [at |-> "idle", owns |-> FALSE]]
        /\ worker'[w].at = "idle" /\ ~worker'[w].owns
        /\ \A u \in Workers \ {w} : worker'[u] = worker[u]
    BY <1>6 DEF Outbox!Finish, Outbox!Ended, Outbox!Reports
  <2>3. Outbox!JobHasItsAttempt'
    BY <2>1, <2>2
  <2> QED
    BY <2>1, <2>2, <2>3
<1>7. CASE Outbox!Notify(w) \/ Outbox!GiveUpFails(w)
  <2>1. /\ worker[w].at \in {"giveup", "notify"} /\ worker[w].owns /\ job' = "failed"
        /\ caller' \in {caller, "done"} /\ UNCHANGED <<message, sends, unmarked, strayed>>
    BY <1>7 DEF Outbox!Notify, Outbox!Ended, Outbox!GiveUpFails
  <2>2. /\ worker' = [worker EXCEPT ![w] = [at |-> "idle", owns |-> FALSE]]
        /\ worker'[w].at = "idle" /\ ~worker'[w].owns
        /\ \A u \in Workers \ {w} : worker'[u] = worker[u]
    BY <1>7 DEF Outbox!Notify, Outbox!Ended, Outbox!GiveUpFails
  <2>3. Outbox!JobHasItsAttempt'
    BY <2>1, <2>2
  <2> QED
    BY <2>1, <2>2, <2>3
<1>8. CASE Outbox!Retry(w)
  <2>1. CASE ~worker[w].owns
    <3>1. UNCHANGED <<job, caller, message, sends, unmarked, strayed>>
      BY <1>8, <2>1 DEF Outbox!Retry, Outbox!Reports
    <3>2. /\ worker' = [worker EXCEPT ![w] = [at |-> "idle", owns |-> FALSE]]
          /\ worker'[w].at = "idle" /\ ~worker'[w].owns
          /\ \A u \in Workers \ {w} : worker'[u] = worker[u]
      BY <1>8, <2>1 DEF Outbox!Retry, Outbox!Reports
    <3>3. Outbox!JobHasItsAttempt'
      BY <2>1, <3>1, <3>2
    <3> QED
      BY <2>1, <3>1, <3>2, <3>3
  <2>2. CASE worker[w].owns /\ job' = "waiting"
    <3>1. /\ worker[w].at = "failed" /\ UNCHANGED <<caller, message, sends, unmarked, strayed>>
      BY <1>8, <2>2 DEF Outbox!Retry, Outbox!Reports
    <3>2. /\ worker' = [worker EXCEPT ![w] = [at |-> "idle", owns |-> FALSE]]
          /\ worker'[w].at = "idle" /\ ~worker'[w].owns
          /\ \A u \in Workers \ {w} : worker'[u] = worker[u]
      BY <1>8, <2>2 DEF Outbox!Retry, Outbox!Reports
    <3>3. Outbox!JobHasItsAttempt'
      BY <2>2, <3>1, <3>2
    <3> QED
      BY <2>2, <3>1, <3>2, <3>3
  <2>3. CASE worker[w].owns /\ job' # "waiting"
    <3>1. /\ worker[w].at = "failed" /\ job' = "failed"
          /\ UNCHANGED <<caller, message, sends, unmarked, strayed>>
      BY <1>8, <2>3 DEF Outbox!Retry, Outbox!Reports
    <3>2. /\ worker' = [worker EXCEPT ![w].at = "giveup"]
          /\ worker'[w].at = "giveup" /\ worker'[w].owns
          /\ \A u \in Workers \ {w} : worker'[u] = worker[u]
      BY <1>8, <2>3 DEF Outbox!Retry, Outbox!Reports
    <3>3. Outbox!JobHasItsAttempt'
      BY <2>3, <3>1, <3>2
    <3> QED
      BY <2>3, <3>1, <3>2, <3>3
  <2> QED
    BY <2>1, <2>2, <2>3
<1>9. CASE Outbox!GiveUp(w)
  BY <1>9 DEF Outbox!GiveUp
<1>10. CASE Outbox!Stall(w)
  <2>1. /\ worker[w].owns /\ job = "active" /\ job' = "waiting"
        /\ strayed' = IF worker[w].at = "mark" THEN strayed + 1 ELSE strayed
        /\ UNCHANGED <<message, caller, sends, unmarked>>
    BY <1>10 DEF Outbox!Stall
  <2>2. /\ worker' = [worker EXCEPT ![w].owns = FALSE]
        /\ ~worker'[w].owns /\ worker'[w].at = worker[w].at
        /\ \A u \in Workers \ {w} : worker'[u] = worker[u]
    BY <1>10 DEF Outbox!Stall
  <2>3. Outbox!JobHasItsAttempt'
    <3>1. \A u \in Workers : ~worker'[u].owns
      BY <2>1, <2>2
    <3>2. \A u \in Workers : worker'[u].at = worker[u].at
      BY <2>2
    <3>3. \A u \in Workers : worker[u].at \in {"idle", "send", "mark", "finish", "failed"}
      BY <2>1
    <3>4. worker' \in [Workers -> [at : {"idle", "send", "mark", "finish", "failed", "giveup", "notify"},
                                   owns : BOOLEAN]]
      BY <2>2
    <3> QED
      BY <3>1, <3>2, <3>3, <3>4
  <2>4. ASSUME NEW u \in Workers
        PROVE  /\ worker'[u].owns /\ worker'[u].at \in {"send", "failed"} => (Outbox!NoMailKept)'
               /\ worker'[u].owns /\ worker'[u].at = "finish" => message' = "SENT"
               /\ worker'[u].at = "mark" => sends' > 0
    <3>1. CASE u = w
      BY <2>1, <2>2, <3>1
    <3>2. CASE u # w
      BY <2>1, <2>2, <3>2
    <3> QED
      BY <3>1, <3>2
  <2> QED
    BY <2>1, <2>2, <2>3, <2>4
<1>11. CASE Outbox!WorkerDies(w)
  BY <1>11 DEF Outbox!WorkerDies, Outbox!Unmarked
<1> QED
  BY <1>1, <1>2, <1>3, <1>4, <1>5, <1>6, <1>7, <1>8, <1>9, <1>10, <1>11

\* No step of a caller, a worker or a crash breaks the story of the message.
LEMMA MailStep == ASSUME Outbox!IInv, Outbox!Next PROVE Outbox!IInv'
<1> USE DEF Outbox!IInv, Outbox!JobHasItsAttempt, Outbox!NoMailKept, Outbox!OneMail,
            Outbox!At, Outbox!Owns, Outbox!NoAttempt
<1>1. CASE Outbox!Create
  BY <1>1 DEF Outbox!Create
<1>2. CASE Outbox!Dispatch
  BY <1>2 DEF Outbox!Dispatch
<1>3. CASE Outbox!DispatchTimesOut
  BY <1>3 DEF Outbox!DispatchTimesOut
<1>4. CASE Outbox!CallerDies
  BY <1>4 DEF Outbox!CallerDies
<1>5. CASE Outbox!Deliver \/ \E w \in Workers : Outbox!Stall(w) \/ Outbox!WorkerDies(w)
  BY <1>5, MailAttempt DEF Outbox!Deliver
<1> QED
  BY <1>1, <1>2, <1>3, <1>4, <1>5 DEF Outbox!Next

\* Whatever is retried, refused, timed out, stalled or killed, for any number of workers: a
\* message has another mail out only if a crash or a lost write came between the mail and its
\* mark, or its attempt had stalled before the mark (email-outbox.service.ts).
THEOREM OneMailLeaves == SpecJobs => []OneMail
<1>1. InitJobs => Outbox!IInv
  BY DEF InitJobs, Outbox!Init, Outbox!IInv, Outbox!JobHasItsAttempt, Outbox!NoMailKept,
         Outbox!OneMail, Outbox!At, Outbox!Owns, Outbox!NoAttempt
<1>2. Outbox!IInv /\ [NextJobs]_<<part, vars, mailVars, alertVars>> => Outbox!IInv'
  <2>1. ASSUME Outbox!IInv, UNCHANGED mailVars PROVE Outbox!IInv'
    BY <2>1 DEF mailVars, Outbox!IInv, Outbox!JobHasItsAttempt, Outbox!NoMailKept,
                Outbox!OneMail, Outbox!At, Outbox!Owns
  <2>2. [NextJobs]_<<part, vars, mailVars, alertVars>> => UNCHANGED mailVars \/ Outbox!Next
    BY DEF NextJobs
  <2> QED
    BY <2>1, <2>2, MailStep
<1>3. Outbox!IInv => OneMail
  BY DEF Outbox!IInv, OneMail
<1> QED
  BY <1>1, <1>2, <1>3, PTL DEF SpecJobs
=============================================================================
