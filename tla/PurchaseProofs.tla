---------------------------- MODULE PurchaseProofs ----------------------------
(***************************************************************************)
(* Proofs about Purchase, for every set of members, items, keys, requests  *)
(* and prices: IInv is inductive, so an access is paid back once and       *)
(* exactly, and a movement opens one access of each table.  With CoinsInv  *)
(* on top, the Coins of a member add up over all that was bought.          *)
(***************************************************************************)
EXTENDS Purchase, SumTheorems, TLAPS

\* Writing an access row on a movement no row of its table has: the rows stay
\* typed and the two properties carry over.
LEMMA NewRow ==
    ASSUME NEW r \in Request, NEW n \in Nat, IInv,
           access' = Append(access, NewAccess(r, n)),
           MovementFree(n, r.item),
           released' = released
    PROVE  /\ access' \in Seq(Access)
           /\ RefundedExactly'
           /\ MovementOpensOnce'
           /\ \A a \in DOMAIN access' : access'[a].movement = n \/ access'[a].movement \in DOMAIN ledger
<1> DEFINE row == NewAccess(r, n)
<1>1. access \in Seq(Access) /\ RefundedExactly /\ MovementOpensOnce /\ MovementsExist
  BY DEF IInv, RowsTyped
<1>2. row \in Access /\ row.movement = n /\ row.item = r.item /\ row.revoked = FALSE /\ row.refunded = 0
  BY DEF NewAccess, Access, Request
<1>3. /\ access' \in Seq(Access)
      /\ DOMAIN access' = DOMAIN access \cup {Len(access) + 1}
      /\ \A a \in DOMAIN access : access'[a] = access[a]
      /\ access'[Len(access) + 1] = row
  BY <1>1, <1>2
<1>4. RefundedExactly'
  <2>1. ASSUME NEW a \in DOMAIN access'
        PROVE  /\ access'[a].refunded = IF access'[a].revoked THEN access'[a].paid ELSE 0
               /\ access'[a].revoked => access'[a].item \in released'
    <3>1. CASE a \in DOMAIN access
      BY <1>1, <1>3, <3>1 DEF RefundedExactly
    <3>2. CASE a = Len(access) + 1
      BY <1>2, <1>3, <3>2
    <3> QED BY <1>3, <2>1, <3>1, <3>2
  <2> QED BY <2>1 DEF RefundedExactly
<1>5. MovementOpensOnce'
  <2>1. ASSUME NEW a \in DOMAIN access', NEW b \in DOMAIN access',
               access'[a].movement = access'[b].movement,
               SameTable(access'[a].item, access'[b].item)
        PROVE  a = b
    <3>1. CASE a \in DOMAIN access /\ b \in DOMAIN access
      BY <1>1, <1>3, <2>1, <3>1 DEF MovementOpensOnce
    <3>2. CASE a \in DOMAIN access /\ b = Len(access) + 1
      BY <1>2, <1>3, <2>1, <3>2 DEF MovementFree, SameTable
    <3>3. CASE a = Len(access) + 1 /\ b \in DOMAIN access
      BY <1>2, <1>3, <2>1, <3>3 DEF MovementFree, SameTable
    <3> QED BY <1>3, <2>1, <3>1, <3>2, <3>3
  <2> QED BY <2>1 DEF MovementOpensOnce, SameTable
<1>6. \A a \in DOMAIN access' : access'[a].movement = n \/ access'[a].movement \in DOMAIN ledger
  BY <1>1, <1>2, <1>3 DEF MovementsExist
<1> QED
  BY <1>3, <1>4, <1>5, <1>6

\* Nothing is bought, refunded or published to begin with.
LEMMA InitIInv == Init => IInv
<1> SUFFICES ASSUME Init PROVE IInv
  OBVIOUS
<1>1. RowsTyped
  BY DEF Init, RowsTyped, EpisodeStatus
<1>2. PublishedWasReleased /\ MovementsExist /\ RefundedExactly /\ MovementOpensOnce
  BY DEF Init, PublishedWasReleased, MovementsExist, RefundedExactly, MovementOpensOnce
<1> QED
  BY <1>1, <1>2 DEF IInv

\* Reading, checking and giving up write no row.
LEMMA RequestSteps ==
    ASSUME IInv, NEW c \in Requests,
           \/ \E m \in Members, i \in Items : \E key \in KeysOf[i] : Begin(c, m, i, key)
           \/ Check(c)
           \/ Abort(c)
    PROVE  IInv'
<1>1. req' \in [Requests -> Request \cup {Idle}]
  <2>1. CASE \E m \in Members, i \in Items : \E key \in KeysOf[i] : Begin(c, m, i, key)
    <3>1. PICK m \in Members, i \in Items : \E key \in KeysOf[i] : Begin(c, m, i, key)
      BY <2>1
    <3>2. PICK key \in KeysOf[i] : Begin(c, m, i, key)
      BY <3>1
    <3>3. key \in Keys \cup {NoKey}
      BY <3>2, ConstantsAssumption
    <3>4. price[i] \in Nat
      BY <3>2 DEF Begin, OnSale, IInv, RowsTyped
    <3> QED BY <3>2, <3>3, <3>4 DEF Begin, IInv, RowsTyped, Request
  <2>2. CASE Check(c)
    BY <2>2 DEF Check, IInv, RowsTyped, Request
  <2>3. CASE Abort(c)
    BY <2>3 DEF Abort, IInv, RowsTyped
  <2> QED BY <2>1, <2>2, <2>3
<1>2. UNCHANGED <<Shop, ledger, access>>
  BY DEF Begin, Check, Abort
<1> QED
  BY <1>1, <1>2 DEF Shop, IInv, RowsTyped, PublishedWasReleased, MovementsExist, RefundedExactly,
                    MovementOpensOnce, SameTable

\* A purchase that moves Coins writes its row on the movement it appends.
LEMMA CommitStep == ASSUME IInv, NEW c \in Requests, Commit(c) PROVE IInv'
<1> DEFINE r == req[c]
           n == Len(ledger) + 1
           move == [member |-> r.member, amount |-> r.price, key |-> r.key]
<1>1. r \in Request /\ ledger \in Seq(Movement)
  BY DEF Commit, IInv, RowsTyped
<1>2. ledger' = Append(ledger, move) /\ move \in Movement
  BY <1>1 DEF Commit, Movement, Request
<1>3. ledger' \in Seq(Movement) /\ DOMAIN ledger' = DOMAIN ledger \cup {n} /\ n \notin DOMAIN ledger /\ n \in Nat
  BY <1>1, <1>2
<1>4. MovementFree(n, r.item)
  BY <1>3 DEF MovementFree, IInv, MovementsExist
<1>5. UNCHANGED Shop /\ access' = Append(access, NewAccess(r, n))
  BY DEF Commit
<1>6. /\ access' \in Seq(Access)
      /\ RefundedExactly'
      /\ MovementOpensOnce'
      /\ \A a \in DOMAIN access' : access'[a].movement = n \/ access'[a].movement \in DOMAIN ledger
  BY <1>1, <1>3, <1>4, <1>5, NewRow DEF Shop
<1>7. MovementsExist'
  BY <1>3, <1>6 DEF MovementsExist
<1>8. RowsTyped' /\ PublishedWasReleased'
  BY <1>3, <1>5, <1>6 DEF Commit, Shop, IInv, RowsTyped, PublishedWasReleased
<1> QED
  BY <1>6, <1>7, <1>8 DEF IInv

\* A replayed movement gets a row only where the unique index lets it.
LEMMA CommitReplayedStep == ASSUME IInv, NEW c \in Requests, CommitReplayed(c) PROVE IInv'
<1> DEFINE r == req[c]
<1>1. r \in Request /\ ledger \in Seq(Movement)
  BY DEF CommitReplayed, IInv, RowsTyped
<1>2. PICK n \in MovementsOf(r.key) :
          MovementFree(n, r.item) /\ access' = Append(access, NewAccess(r, n))
  BY DEF CommitReplayed
<1>3. n \in DOMAIN ledger /\ n \in Nat
  BY <1>1, <1>2 DEF MovementsOf
<1>4. UNCHANGED <<Shop, ledger>>
  BY DEF CommitReplayed
<1>5. /\ access' \in Seq(Access)
      /\ RefundedExactly'
      /\ MovementOpensOnce'
      /\ \A a \in DOMAIN access' : access'[a].movement = n \/ access'[a].movement \in DOMAIN ledger
  BY <1>1, <1>2, <1>3, <1>4, NewRow DEF Shop
<1>6. MovementsExist'
  BY <1>3, <1>4, <1>5 DEF MovementsExist
<1>7. RowsTyped' /\ PublishedWasReleased'
  BY <1>4, <1>5 DEF CommitReplayed, Shop, IInv, RowsTyped, PublishedWasReleased
<1> QED
  BY <1>5, <1>6, <1>7 DEF IInv

\* What a refund changes in one row.
LEMMA PaidBackRow ==
    ASSUME NEW row \in Access, NEW back \in Nat
    PROVE  /\ PaidBack(row, back) \in Access
           /\ PaidBack(row, back).item = row.item
           /\ PaidBack(row, back).movement = row.movement
           /\ PaidBack(row, back).paid = row.paid
           /\ PaidBack(row, back).member = row.member
           /\ PaidBack(row, back).revoked
           /\ PaidBack(row, back).refunded = row.refunded + back
<1>1. PICK m \in Members, i \in Items, p \in Nat, n \in Nat, b \in BOOLEAN, f \in Nat :
         row = [member |-> m, item |-> i, paid |-> p, movement |-> n, revoked |-> b, refunded |-> f]
  BY DEF Access
<1> DEFINE yes == TRUE
<1>2. PaidBack(row, back) = [row EXCEPT !.revoked = yes, !.refunded = row.refunded + back]
  BY DEF PaidBack
<1>3. yes \in BOOLEAN /\ yes
  OBVIOUS
<1> HIDE DEF yes
<1>4. row.member = m /\ row.item = i /\ row.movement = n /\ row.paid = p /\ row.refunded = f /\ f + back \in Nat
  BY <1>1
<1>5. PaidBack(row, back) = [member |-> m, item |-> i, paid |-> p, movement |-> n,
                              revoked |-> yes, refunded |-> f + back]
  BY <1>1, <1>2
<1> QED
  BY <1>3, <1>4, <1>5 DEF Access

\* Every row keeps its item and movement over a removal, and the live rows of
\* the episode are paid back what was paid for them.
LEMMA RemovalRows ==
    ASSUME IInv, NEW e \in Episodes, Remove(e)
    PROVE  /\ access' \in Seq(Access)
           /\ DOMAIN access' = DOMAIN access
           /\ \A a \in DOMAIN access :
                 /\ access'[a].item = access[a].item /\ access'[a].movement = access[a].movement
                 /\ access'[a].paid = access[a].paid
                 /\ \/ access'[a] = access[a]
                    \/ /\ access[a].item = e /\ ~access[a].revoked
                       /\ access'[a].revoked
                       /\ access'[a].refunded = access[a].refunded + access[a].paid
<1>1. access \in Seq(Access)
  BY DEF IInv, RowsTyped
<1>2. CASE ~RefundOnRemoval
  BY <1>1, <1>2 DEF Remove
<1>3. CASE RefundOnRemoval
  <2> DEFINE due == {a \in Live : access[a].item = e}
  <2>1. access' = [a \in DOMAIN access |->
                      IF a \in due THEN PaidBack(access[a], RefundOf(a)) ELSE access[a]]
    BY <1>3 DEF Remove, RefundEpisodeRemoval
  <2>2. \A a \in DOMAIN access :
           access[a] \in Access /\ RefundOf(a) \in Nat /\ RefundOf(a) = access[a].paid
    <3>1. \A a \in DOMAIN access : access[a] \in Access
      BY <1>1
    <3>2. \A row \in Access : row.paid \in Nat
      BY DEF Access
    <3> QED BY <3>1, <3>2 DEF RefundOf
  <2>3. \A a \in DOMAIN access :
           LET new == PaidBack(access[a], RefundOf(a))
           IN  /\ new \in Access
               /\ new.item = access[a].item /\ new.movement = access[a].movement
               /\ new.paid = access[a].paid
               /\ new.revoked /\ new.refunded = access[a].refunded + access[a].paid
    BY <2>2, PaidBackRow
  <2>4. DOMAIN access = 1..Len(access) /\ Len(access) \in Nat
    BY <1>1
  <2>5. access' \in Seq(Access) /\ DOMAIN access' = DOMAIN access
    <3>1. \A a \in 1..Len(access) :
             access[a] \in Access /\ PaidBack(access[a], RefundOf(a)) \in Access
      BY <2>2, <2>3, <2>4
    <3> QED BY <2>1, <2>4, <3>1
  <2>6. \A a \in due : access[a].item = e /\ ~access[a].revoked
    BY DEF Live
  <2> QED BY <2>1, <2>3, <2>5, <2>6
<1> QED
  BY <1>2, <1>3

\* A removal pays back live rows only, once, of an episode that was released.
LEMMA RemoveStep == ASSUME IInv, NEW e \in Episodes, Remove(e) PROVE IInv'
<1>1. status[e] = "PUBLISHED" /\ e \in released
  BY DEF Remove, IInv, PublishedWasReleased
<1>2. UNCHANGED <<released, price, ledger, req>> /\ status' = [status EXCEPT ![e] = "UNPUBLISHED"]
  BY DEF Remove
<1>3. RefundedExactly'
  <2>1. ASSUME NEW a \in DOMAIN access'
        PROVE  /\ access'[a].refunded = IF access'[a].revoked THEN access'[a].paid ELSE 0
               /\ access'[a].revoked => access'[a].item \in released'
    <3>1. a \in DOMAIN access /\ access[a] \in Access
      BY RemovalRows, <2>1 DEF IInv, RowsTyped
    <3>2. /\ access[a].refunded = IF access[a].revoked THEN access[a].paid ELSE 0
          /\ access[a].revoked => access[a].item \in released
      BY <3>1 DEF IInv, RefundedExactly
    <3>3. CASE access'[a] = access[a]
      BY <1>2, <3>2, <3>3
    <3>4. CASE access'[a] # access[a]
      BY <1>1, <1>2, <3>1, <3>2, <3>4, RemovalRows DEF Access
    <3> QED BY <3>3, <3>4
  <2> QED BY <2>1 DEF RefundedExactly
<1>4. MovementOpensOnce' /\ MovementsExist'
  BY <1>2, RemovalRows DEF IInv, MovementOpensOnce, MovementsExist, SameTable
<1>5. RowsTyped' /\ PublishedWasReleased'
  BY <1>2, RemovalRows DEF IInv, RowsTyped, PublishedWasReleased, EpisodeStatus
<1> QED
  BY <1>3, <1>4, <1>5 DEF IInv

\* Releases, revisions, prices, cancellations and plans touch no row.
LEMMA ShopSteps ==
    ASSUME IInv,
           \/ \E e \in Episodes : \/ Release(e)
                                  \/ SendBack(e)
                                  \/ \E p \in Prices : SetPrice(e, p)
           \/ \E v \in Movies : BeginCancel(v) \/ Cancel(v)
           \/ \E v \in Movies, p \in Prices : SetSeriesPrice(v, p)
           \/ \E m \in Members : PlanChanges(m)
    PROVE  IInv'
<1>1. UNCHANGED <<ledger, access, req>>
  BY DEF Release, SendBack, SetPrice, BeginCancel, Cancel, SetSeriesPrice, PlanChanges
<1>2. released \subseteq released'
  BY DEF Release, SendBack, SetPrice, BeginCancel, Cancel, SetSeriesPrice, PlanChanges, Shop
<1>3. /\ status' \in [Episodes -> EpisodeStatus]
      /\ released' \subseteq Episodes
      /\ PublishedWasReleased'
  BY DEF IInv, RowsTyped, PublishedWasReleased, EpisodeStatus,
         Release, SendBack, SetPrice, BeginCancel, Cancel, SetSeriesPrice, PlanChanges, Shop
<1>4. price' \in [Items -> Nat \cup {NoPrice}]
  <2>1. \/ price' = price
        \/ \E i \in Items, p \in Prices : price' = [price EXCEPT ![i] = p]
    BY DEF Items, Release, SendBack, SetPrice, BeginCancel, Cancel, SetSeriesPrice, PlanChanges, Shop
  <2> QED
    BY <2>1, ConstantsAssumption DEF IInv, RowsTyped
<1>5. RefundedExactly'
  BY <1>1, <1>2 DEF IInv, RefundedExactly
<1>6. MovementOpensOnce' /\ MovementsExist'
  BY <1>1 DEF IInv, MovementOpensOnce, MovementsExist, SameTable
<1> QED
  BY <1>1, <1>3, <1>4, <1>5, <1>6 DEF IInv, RowsTyped

\* Whatever request, publication, cancellation or plan moves.
LEMMA StepIInv == ASSUME IInv, [Next]_vars PROVE IInv'
<1>1. ASSUME NEW c \in Requests, Buy(c) PROVE IInv'
  BY <1>1, RequestSteps, CommitStep, CommitReplayedStep DEF Buy
<1>2. ASSUME NEW e \in Episodes, Publish(e) PROVE IInv'
  BY <1>2, RemoveStep, ShopSteps DEF Publish
<1>3. CASE \/ \E v \in Movies : BeginCancel(v) \/ Cancel(v)
           \/ \E v \in Movies, p \in Prices : SetSeriesPrice(v, p)
           \/ \E m \in Members : PlanChanges(m)
  BY <1>3, ShopSteps
<1>4. CASE UNCHANGED vars
  BY <1>4 DEF vars, IInv, RowsTyped, PublishedWasReleased, MovementsExist, RefundedExactly,
              MovementOpensOnce, SameTable
<1> QED BY <1>1, <1>2, <1>3, <1>4 DEF Next

(***************************************************************************)
(* CoinsInv: the Coins of a member and the live rows add up.               *)
(***************************************************************************)

LEMMA RowsFinite ==
    ASSUME TypeOK, NEW S \in SUBSET DOMAIN access
    PROVE  IsFiniteSet(S) /\ \A a \in S : access[a].paid \in Nat
<1>1. access \in Seq(Access) /\ DOMAIN access = 1..Len(access) /\ Len(access) \in Nat
  BY DEF TypeOK
<1>2. IsFiniteSet(DOMAIN access)
  BY <1>1, FS_Interval
<1>3. \A a \in DOMAIN access : access[a] \in Access
  BY <1>1
<1> QED
  BY <1>2, <1>3, FS_Subset DEF Access

\* Prices paid add up to a number of Coins.
LEMMA PaidNat ==
    ASSUME TypeOK, NEW S \in SUBSET DOMAIN access
    PROVE  PaidBy(S) \in Nat
<1> DEFINE f == [a \in S |-> access[a].paid]
<1>1. IsFiniteSet(S) /\ \A a \in S : f[a] \in Nat
  BY RowsFinite
<1> HIDE DEF f
<1>2. SumFunctionOnSet(f, S) \in Nat
  BY <1>1, SumNat
<1> QED
  BY <1>2 DEF PaidBy, f

\* The price a row keeps does not change, so a sum over old rows does not.
LEMMA PaidStands ==
    ASSUME TypeOK, NEW S \in SUBSET DOMAIN access, \A a \in S : access'[a].paid = access[a].paid
    PROVE  SumFunctionOnSet([a \in S |-> access'[a].paid], S) = PaidBy(S)
<1> DEFINE f == [a \in S |-> access[a].paid]
           g == [a \in S |-> access'[a].paid]
<1>1. IsFiniteSet(S) /\ \A a \in S : f[a] \in Int /\ f[a] = g[a]
  BY RowsFinite
<1> HIDE DEF f, g
<1>2. SumFunctionOnSet(f, S) = SumFunctionOnSet(g, S)
  BY <1>1, SumSame
<1> QED
  BY <1>2 DEF PaidBy, f, g

\* A row more: the rows of the buyer are one price worth more, the others' as much.
LEMMA NewRowSums ==
    ASSUME TypeOK, NEW r \in Request, NEW n \in Nat, access' = Append(access, NewAccess(r, n)),
           NEW m \in Members
    PROVE  /\ PaidBy(LiveOf(m))' = PaidBy(LiveOf(m)) + (IF m = r.member THEN r.price ELSE 0)
           /\ PaidApart(m)' => PaidApart(m)
           /\ PaidApart(m)' /\ m = r.member => \A a \in DOMAIN access : access[a].movement # n
<1> DEFINE k == Len(access) + 1
           S == LiveOf(m)
<1>1. access \in Seq(Access) /\ DOMAIN access = 1..Len(access) /\ Len(access) \in Nat
  BY DEF TypeOK
<1>2. NewAccess(r, n) \in Access /\ r.price \in Nat
  BY DEF NewAccess, Access, Request
<1>3. /\ DOMAIN access' = DOMAIN access \cup {k} /\ k \notin DOMAIN access
      /\ \A a \in DOMAIN access : access'[a] = access[a]
      /\ access'[k] = NewAccess(r, n)
  BY <1>1, <1>2
<1>4. /\ access'[k].member = r.member /\ access'[k].paid = r.price /\ access'[k].movement = n
      /\ ~access'[k].revoked
  BY <1>3 DEF NewAccess
<1> HIDE DEF k
<1>5. S \in SUBSET DOMAIN access /\ k \notin S
  BY <1>3 DEF LiveOf, Live
<1>6. IsFiniteSet(S) /\ PaidBy(S) \in Nat /\ \A a \in S : access[a].paid \in Nat
  BY <1>5, RowsFinite, PaidNat
<1>7. SumFunctionOnSet([a \in S |-> access'[a].paid], S) = PaidBy(S)
  BY <1>3, <1>5, PaidStands
<1>8. PaidBy(LiveOf(m))' = PaidBy(LiveOf(m)) + (IF m = r.member THEN r.price ELSE 0)
  <2>1. CASE m # r.member
    <3>1. LiveOf(m)' = S
      BY <1>3, <1>4, <2>1 DEF LiveOf, Live
    <3>2. PaidBy(LiveOf(m))' = SumFunctionOnSet([a \in S |-> access'[a].paid], S)
      BY <3>1 DEF PaidBy
    <3>3. PaidBy(LiveOf(m))' = PaidBy(LiveOf(m))
      BY <1>7, <3>2, Zenon
    <3> QED
      BY <1>6, <2>1, <3>3
  <2>2. CASE m = r.member
    <3> DEFINE g == [a \in S \cup {k} |-> access'[a].paid]
               f == [a \in S |-> access'[a].paid]
    <3>1. LiveOf(m)' = S \cup {k}
      BY <1>3, <1>4, <2>2 DEF LiveOf, Live
    <3>2. PaidBy(LiveOf(m))' = SumFunctionOnSet(g, S \cup {k})
      BY <3>1 DEF PaidBy
    <3>3. (\A a \in S : g[a] \in Int /\ g[a] = f[a]) /\ g[k] = r.price /\ r.price \in Int
      BY <1>2, <1>3, <1>4, <1>5, <1>6
    <3>4. SumFunctionOnSet(f, S) = PaidBy(S)
      BY <1>7
    <3> HIDE DEF f, g, S
    <3>5. SumFunctionOnSet(g, S \cup {k}) = SumFunctionOnSet(g, S) + g[k]
      BY <1>5, <1>6, <3>3, SumAdd
    <3>6. SumFunctionOnSet(g, S) = SumFunctionOnSet(f, S)
      BY <1>6, <3>3, SumSame
    <3>7. SumFunctionOnSet(g, S \cup {k}) = PaidBy(S) + r.price
      BY <3>3, <3>4, <3>5, <3>6
    <3> QED
      BY <2>2, <3>2, <3>7 DEF S
  <2> QED
    BY <2>1, <2>2
<1>9. PaidApart(m)' => PaidApart(m)
  BY <1>3 DEF PaidApart
<1>10. ASSUME PaidApart(m)', m = r.member, NEW a \in DOMAIN access, access[a].movement = n PROVE FALSE
  BY <1>3, <1>4, <1>10 DEF PaidApart
<1> QED
  BY <1>8, <1>9, <1>10

\* A removal takes the refunded rows out of the live ones and credits their prices.
LEMMA RemovalSums ==
    ASSUME IInv, TypeOK, NEW e \in Episodes, Remove(e), NEW m \in Members
    PROVE  /\ balance' \in [Members -> Nat]
           /\ balance'[m] + PaidBy(LiveOf(m))' = balance[m] + PaidBy(LiveOf(m))
           /\ PaidApart(m)' => PaidApart(m)
<1>1. /\ access \in Seq(Access) /\ balance \in [Members -> Nat]
      /\ LiveOf(m) \in SUBSET DOMAIN access
  BY DEF TypeOK, LiveOf, Live
<1>2. CASE ~RefundOnRemoval
  <2>1. UNCHANGED access /\ UNCHANGED balance
    BY <1>2 DEF Remove
  <2>2. PaidBy(LiveOf(m))' = PaidBy(LiveOf(m)) /\ PaidApart(m)' = PaidApart(m)
    BY <2>1 DEF PaidBy, LiveOf, Live, PaidApart
  <2> QED
    BY <1>1, <2>1, <2>2
<1>3. CASE RefundOnRemoval
  <2> DEFINE due == {a \in Live : access[a].item = e}
             dueTo(x) == {a \in due : access[a].member = x}
             kept == LiveOf(m) \ dueTo(m)
             refunds(x) == SumFunctionOnSet([a \in dueTo(x) |-> RefundOf(a)], dueTo(x))
  <2>1. /\ access' = [a \in DOMAIN access |->
                        IF a \in due THEN PaidBack(access[a], RefundOf(a)) ELSE access[a]]
        /\ balance' = [x \in Members |-> balance[x] + refunds(x)]
    BY <1>3 DEF Remove, RefundEpisodeRemoval
  <2>2. \A x \in Members : dueTo(x) \in SUBSET DOMAIN access
    BY DEF Live
  <2>3. \A x \in Members : refunds(x) = PaidBy(dueTo(x))
    BY DEF RefundOf, PaidBy
  <2>4. \A x \in Members : PaidBy(dueTo(x)) \in Nat
    BY <2>2, PaidNat
  <2>5. \A a \in DOMAIN access : access[a] \in Access /\ access[a].paid \in Nat
    <3>1. \A row \in Access : row.paid \in Nat
      BY DEF Access
    <3> QED
      BY <1>1, <3>1
  <2>6. ASSUME NEW a \in DOMAIN access
        PROVE  /\ access'[a].member = access[a].member /\ access'[a].paid = access[a].paid
               /\ access'[a].movement = access[a].movement
               /\ access'[a].revoked <=> access[a].revoked \/ a \in due
    <3>1. CASE a \in due
      BY <2>1, <2>5, <3>1, PaidBackRow DEF RefundOf
    <3>2. CASE a \notin due
      BY <2>1, <3>2
    <3> QED
      BY <3>1, <3>2
  <2>7. DOMAIN access' = DOMAIN access
    BY <2>1
  <2>8. LiveOf(m)' = kept
    BY <2>6, <2>7 DEF LiveOf, Live
  <2>9. dueTo(m) \in SUBSET DOMAIN access /\ kept \in SUBSET DOMAIN access
        /\ dueTo(m) \cap kept = {} /\ dueTo(m) \cup kept = LiveOf(m)
    BY <1>1 DEF LiveOf, Live
  <2> HIDE DEF refunds, due, dueTo, kept
  <2>10. PaidBy(LiveOf(m))' = PaidBy(kept)
    <3>1. SumFunctionOnSet([a \in kept |-> access'[a].paid], kept) = PaidBy(kept)
      BY <2>6, <2>9, PaidStands
    <3> QED
      BY <2>8, <3>1 DEF PaidBy
  <2>11. PaidBy(LiveOf(m)) = PaidBy(dueTo(m)) + PaidBy(kept)
    <3> DEFINE f == [a \in LiveOf(m) |-> access[a].paid]
               D == dueTo(m)
    <3>1. IsFiniteSet(D) /\ IsFiniteSet(kept)
      BY <2>9, RowsFinite
    <3>2. \A a \in D \cup kept : f[a] \in Int
      BY <1>1, <2>5, <2>9
    <3>3. PaidBy(LiveOf(m)) = SumFunctionOnSet(f, D \cup kept)
      BY <2>9 DEF PaidBy
    <3>4. SumFunctionOnSet(f, D) = PaidBy(D)
      <4> DEFINE g == [a \in D |-> access[a].paid]
      <4>1. \A a \in D : f[a] \in Int /\ f[a] = g[a]
        BY <1>1, <2>5, <2>9
      <4> HIDE DEF f, g, D
      <4>2. SumFunctionOnSet(f, D) = SumFunctionOnSet(g, D)
        BY <3>1, <4>1, SumSame
      <4> QED
        BY <4>2 DEF g, PaidBy
    <3>5. SumFunctionOnSet(f, kept) = PaidBy(kept)
      <4> DEFINE g == [a \in kept |-> access[a].paid]
      <4>1. \A a \in kept : f[a] \in Int /\ f[a] = g[a]
        BY <1>1, <2>5, <2>9
      <4> HIDE DEF f, g
      <4>2. SumFunctionOnSet(f, kept) = SumFunctionOnSet(g, kept)
        BY <3>1, <4>1, SumSame
      <4> QED
        BY <4>2 DEF g, PaidBy
    <3> HIDE DEF f, D
    <3>6. D \cap kept = {}
      BY <2>9 DEF D
    <3>7. SumFunctionOnSet(f, D \cup kept) = SumFunctionOnSet(f, D) + SumFunctionOnSet(f, kept)
      BY <3>1, <3>2, <3>6, SumParts
    <3> QED
      BY <3>3, <3>4, <3>5, <3>7 DEF D
  <2>12. PaidBy(kept) \in Nat /\ PaidBy(dueTo(m)) \in Nat /\ balance[m] \in Nat
    BY <1>1, <2>9, PaidNat
  <2>13. balance'[m] = balance[m] + PaidBy(dueTo(m))
    BY <2>1, <2>3
  <2>14. balance'[m] + PaidBy(LiveOf(m))' = balance[m] + PaidBy(LiveOf(m))
    BY <2>10, <2>11, <2>12, <2>13
  <2>15. balance' \in [Members -> Nat]
    <3>1. \A x \in Members : balance[x] + refunds(x) \in Nat
      BY <1>1, <2>3, <2>4
    <3> QED
      BY <2>1, <3>1
  <2>16. PaidApart(m)' => PaidApart(m)
    BY <2>6, <2>7 DEF PaidApart
  <2> QED
    BY <2>14, <2>15, <2>16
<1> QED
  BY <1>2, <1>3

\* Funds, nothing bought.
LEMMA InitCoins == ASSUME Init PROVE CoinsInv
<1>1. TypeOK
  BY ConstantsAssumption DEF Init, TypeOK, EpisodeStatus, MovieStatus
<1>2. MovementsHaveRows
  BY DEF Init, MovementsHaveRows
<1>3. ASSUME NEW m \in Members PROVE balance[m] + PaidBy(LiveOf(m)) = Funds
  <2>1. LiveOf(m) = {}
    BY DEF Init, LiveOf, Live
  <2>2. PaidBy({}) = 0
    BY SumEmpty DEF PaidBy
  <2>3. balance[m] = Funds /\ Funds \in Nat
    BY ConstantsAssumption DEF Init
  <2> QED
    BY <2>1, <2>2, <2>3
<1> QED
  BY <1>1, <1>2, <1>3 DEF CoinsInv, CoinsAccounted

\* The columns no sum is about.
LEMMA OtherColumns ==
    ASSUME IInv', TypeOK, [Next]_vars, balance' \in [Members -> Nat]
    PROVE  TypeOK'
<1>1. movie' \in [Movies -> MovieStatus]
  <2>1. \/ movie' = movie
        \/ \E v \in Movies, s \in MovieStatus : movie' = [movie EXCEPT ![v] = s]
    BY ConstantsAssumption DEF Next, Buy, Begin, Check, Commit, CommitReplayed, Abort, Publish, Release,
       SendBack, Remove, SetPrice, BeginCancel, Cancel, SetSeriesPrice, PlanChanges, Shop, vars, MovieStatus
  <2> QED
    BY <2>1 DEF TypeOK
<1>2. cancelling' \subseteq Movies
  BY DEF TypeOK, Next, Buy, Begin, Check, Commit, CommitReplayed, Abort, Publish, Release,
         SendBack, Remove, SetPrice, BeginCancel, Cancel, SetSeriesPrice, PlanChanges, Shop, vars
<1>3. plan' \subseteq Members
  BY DEF TypeOK, Next, Buy, Begin, Check, Commit, CommitReplayed, Abort, Publish, Release,
         SendBack, Remove, SetPrice, BeginCancel, Cancel, SetSeriesPrice, PlanChanges, Shop, vars
<1>4. RowsTyped'
  BY DEF IInv
<1> QED
  BY <1>1, <1>2, <1>3, <1>4 DEF TypeOK, RowsTyped

LEMMA StepCoins == ASSUME IInv, CoinsInv, [Next]_vars, IInv' PROVE CoinsInv'
<1>1. TypeOK /\ MovementsHaveRows /\ CoinsAccounted
  BY DEF CoinsInv
<1>2. /\ balance \in [Members -> Nat] /\ ledger \in Seq(Movement) /\ access \in Seq(Access)
      /\ req \in [Requests -> Request \cup {Idle}]
  BY <1>1 DEF TypeOK
<1>3. \A m \in Members : PaidBy(LiveOf(m)) \in Nat
  <2>1. \A m \in Members : LiveOf(m) \in SUBSET DOMAIN access
    BY DEF LiveOf, Live
  <2> QED
    BY <1>1, <2>1, PaidNat
<1>4. ASSUME NEW c \in Requests, Commit(c) PROVE CoinsInv'
  <2> DEFINE r == req[c]
             n == Len(ledger) + 1
  <2>1. /\ r # Idle /\ r.price > 0 /\ balance[r.member] >= r.price
        /\ ledger' = Append(ledger, [member |-> r.member, amount |-> r.price, key |-> r.key])
        /\ balance' = [balance EXCEPT ![r.member] = balance[r.member] - r.price]
        /\ access' = Append(access, NewAccess(r, n))
    BY <1>4 DEF Commit
  <2>2. r \in Request /\ n \in Nat
    BY <1>2, <2>1
  <2>3. r.member \in Members /\ r.price \in Nat
    BY <2>2 DEF Request
  <2>4. balance' \in [Members -> Nat]
    BY <1>2, <2>1, <2>3
  <2>5. TypeOK'
    BY <1>1, <2>4, OtherColumns
  <2>6. ASSUME NEW m \in Members, PaidApart(m)' PROVE balance'[m] + PaidBy(LiveOf(m))' = Funds
    <3>1. /\ PaidBy(LiveOf(m))' = PaidBy(LiveOf(m)) + (IF m = r.member THEN r.price ELSE 0)
          /\ PaidApart(m)
      BY <1>1, <2>1, <2>2, <2>6, NewRowSums
    <3>2. balance[m] + PaidBy(LiveOf(m)) = Funds
      BY <1>1, <3>1 DEF CoinsAccounted
    <3>3. balance'[m] = balance[m] - (IF m = r.member THEN r.price ELSE 0) /\ balance[m] \in Nat
      BY <1>2, <2>1, <2>3
    <3>4. PaidBy(LiveOf(m)) \in Nat
      BY <1>3
    <3> QED
      BY <2>3, <3>1, <3>2, <3>3, <3>4
  <2>7. /\ DOMAIN ledger' = DOMAIN ledger \cup {n}
        /\ DOMAIN access' = DOMAIN access \cup {Len(access) + 1}
        /\ \A a \in DOMAIN access : access'[a] = access[a]
        /\ access'[Len(access) + 1].movement = n
    BY <1>2, <2>1 DEF NewAccess
  <2>8. MovementsHaveRows'
    BY <1>1, <2>7 DEF MovementsHaveRows
  <2> QED
    BY <2>5, <2>6, <2>8 DEF CoinsInv, CoinsAccounted
<1>5. ASSUME NEW c \in Requests, CommitReplayed(c) PROVE CoinsInv'
  <2> DEFINE r == req[c]
  <2>1. r # Idle /\ UNCHANGED <<balance, ledger>>
    BY <1>5 DEF CommitReplayed
  <2>2. PICK n \in MovementsOf(r.key) : access' = Append(access, NewAccess(r, n))
    BY <1>5 DEF CommitReplayed
  <2>3. r \in Request /\ n \in Nat /\ n \in DOMAIN ledger
    BY <1>2, <2>1, <2>2 DEF MovementsOf
  <2>4. TypeOK'
    BY <1>1, <1>2, <2>1, OtherColumns
  <2>5. ASSUME NEW m \in Members, PaidApart(m)' PROVE balance'[m] + PaidBy(LiveOf(m))' = Funds
    <3>1. /\ PaidBy(LiveOf(m))' = PaidBy(LiveOf(m)) + (IF m = r.member THEN r.price ELSE 0)
          /\ PaidApart(m)
          /\ m = r.member => \A a \in DOMAIN access : access[a].movement # n
      BY <1>1, <2>2, <2>3, <2>5, NewRowSums
    <3>2. m # r.member
      BY <1>1, <2>3, <3>1 DEF MovementsHaveRows
    <3>3. balance[m] + PaidBy(LiveOf(m)) = Funds /\ balance[m] \in Nat /\ PaidBy(LiveOf(m)) \in Nat
      BY <1>1, <1>2, <1>3, <3>1 DEF CoinsAccounted
    <3> QED
      BY <2>1, <3>1, <3>2, <3>3
  <2>6. /\ DOMAIN access' = DOMAIN access \cup {Len(access) + 1}
        /\ \A a \in DOMAIN access : access'[a] = access[a]
    BY <1>2, <2>2
  <2>7. MovementsHaveRows'
    BY <1>1, <2>1, <2>6 DEF MovementsHaveRows
  <2> QED
    BY <2>4, <2>5, <2>7 DEF CoinsInv, CoinsAccounted
<1>6. ASSUME NEW e \in Episodes, Remove(e) PROVE CoinsInv'
  <2>1. ASSUME NEW m \in Members
        PROVE  /\ balance' \in [Members -> Nat]
               /\ balance'[m] + PaidBy(LiveOf(m))' = balance[m] + PaidBy(LiveOf(m))
               /\ PaidApart(m)' => PaidApart(m)
    BY <1>1, <1>6, RemovalSums
  <2>2. balance' \in [Members -> Nat]
    <3>1. CASE Members = {}
      BY <1>2, <1>6, <3>1 DEF Remove, RefundEpisodeRemoval
    <3>2. CASE Members # {}
      BY <2>1, <3>2
    <3> QED
      BY <3>1, <3>2
  <2>3. CoinsAccounted'
    BY <1>1, <2>1 DEF CoinsAccounted
  <2>4. MovementsHaveRows'
    <3>1. ledger' = ledger
      BY <1>6 DEF Remove
    <3>2. DOMAIN access' = DOMAIN access /\ \A a \in DOMAIN access : access'[a].movement = access[a].movement
      BY <1>6, RemovalRows
    <3> QED
      BY <1>1, <3>1, <3>2 DEF MovementsHaveRows
  <2>5. TypeOK'
    BY <1>1, <2>2, OtherColumns
  <2> QED
    BY <2>3, <2>4, <2>5 DEF CoinsInv
<1>7. CASE UNCHANGED <<balance, ledger, access>>
  <2>1. UNCHANGED balance /\ UNCHANGED ledger /\ UNCHANGED access
    BY <1>7
  <2>2. TypeOK'
    BY <1>1, <1>2, <2>1, OtherColumns
  <2>3. MovementsHaveRows'
    BY <1>1, <2>1 DEF MovementsHaveRows
  <2>4. \A m \in Members : PaidBy(LiveOf(m))' = PaidBy(LiveOf(m)) /\ PaidApart(m)' = PaidApart(m)
    BY <2>1 DEF PaidBy, LiveOf, Live, PaidApart
  <2>5. CoinsAccounted'
    BY <1>1, <2>1, <2>4 DEF CoinsAccounted
  <2> QED
    BY <2>2, <2>3, <2>5 DEF CoinsInv
<1>8. \/ \E c \in Requests : Commit(c) \/ CommitReplayed(c)
      \/ \E e \in Episodes : Remove(e)
      \/ UNCHANGED <<balance, ledger, access>>
  BY DEF Next, Buy, Begin, Check, Abort, Publish, Release, SendBack, SetPrice, BeginCancel, Cancel,
         SetSeriesPrice, PlanChanges, vars
<1> QED
  BY <1>4, <1>5, <1>6, <1>7, <1>8

\* IInv is an invariant of every behaviour.
THEOREM Invariance == Spec => []IInv
<1>1. Init => IInv
  BY InitIInv
<1>2. IInv /\ [Next]_vars => IInv'
  BY StepIInv
<1> QED
  BY <1>1, <1>2, PTL DEF Spec

\* An access is paid back once, with its own price, exactly when it is revoked,
\* whatever removals, re-releases and requests interleave (refundEpisode).
THEOREM RefundExact == Spec => []RefundedExactly
<1>1. IInv => RefundedExactly
  BY DEF IInv
<1> QED
  BY <1>1, Invariance, PTL

\* A movement opens at most one access of each table, whatever keys racing
\* requests share (the unique index on coin_transaction_id and the key).
THEOREM OneOpening == Spec => []MovementOpensOnce
<1>1. IInv => MovementOpensOnce
  BY DEF IInv
<1> QED
  BY <1>1, Invariance, PTL

\* Every variable keeps its type; no purchase, replay or refund drives a balance
\* below zero.
THEOREM TypeCorrect == Spec => []TypeOK
<1>1. Init => IInv /\ CoinsInv
  BY InitIInv, InitCoins
<1>2. IInv /\ CoinsInv /\ [Next]_vars => IInv' /\ CoinsInv'
  BY StepIInv, StepCoins
<1>3. CoinsInv => TypeOK
  BY DEF CoinsInv
<1> QED
  BY <1>1, <1>2, <1>3, PTL DEF Spec

\* What a member paid for and may still open, and what is left in the wallet, add
\* up to what the member had (EpisodePurchaseService, SeriesPurchaseService and
\* the refunds of a removal), unless one key bought an episode and a bundle.
THEOREM CoinsAddUp == Spec => []CoinsAccounted
<1>1. Init => IInv /\ CoinsInv
  BY InitIInv, InitCoins
<1>2. IInv /\ CoinsInv /\ [Next]_vars => IInv' /\ CoinsInv'
  BY StepIInv, StepCoins
<1>3. CoinsInv => CoinsAccounted
  BY DEF CoinsInv
<1> QED
  BY <1>1, <1>2, <1>3, PTL DEF Spec
=============================================================================
