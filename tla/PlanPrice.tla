------------------------------- MODULE PlanPrice -------------------------------
(***************************************************************************)
(* The price rows of a membership plan.  A new price closes the row in     *)
(* force and opens another from a date the Admin gives, which may lie      *)
(* ahead.  The row in force is read before it is closed, and two requests  *)
(* may do so at once.                                                      *)
(***************************************************************************)
EXTENDS Integers, Sequences

CONSTANTS
    Requests,      \* requests served at once
    Prices,        \* prices the Admin may set
    MaxTime,       \* bound: the clock
    MaxRows        \* bound: price rows of the plan

VARIABLES
    plan,          \* isActive and isFree of the plan
    rows,          \* MembershipPlanPrice rows, oldest first
    now,
    req            \* what each request has read

vars == <<plan, rows, now, req>>

Open == 0    \* effectiveTo of a row that has no end
Times == 1..MaxTime

Row == [price : Prices, from : Times, to : Times \cup {Open}]

Idle == [op |-> "idle"]

\* Plans are made without a price; a free one never gets any.
Init ==
    /\ plan \in [active : {TRUE}, free : BOOLEAN]
    /\ rows = <<>> /\ now = 1
    /\ req = [r \in Requests |-> Idle]

TimePasses ==
    /\ now < MaxTime /\ now' = now + 1
    /\ UNCHANGED <<plan, rows, req>>

\* Of the rows, those that began last.
Newest(found) == {i \in found : \A j \in found : rows[j].from <= rows[i].from}

\* currentPrice: rows without an end that have begun, the newest of them; several when they tie.
Current == Newest({i \in DOMAIN rows : rows[i].to = Open /\ rows[i].from <= now})

\* PRICE_IN_FORCE of the plan screens: the newest row without an end.
Shown == Newest({i \in DOMAIN rows : rows[i].to = Open})

\* purchasablePlan
Purchasable == plan.active /\ ~plan.free /\ Current # {}

Update(active, free) ==
    /\ plan' = [active |-> active, free |-> free]
    /\ UNCHANGED <<rows, now, req>>

\* setPrice reads the row in force; the same price from an earlier date on changes nothing.
BeginSetPrice(r, price, from) ==
    /\ req[r] = Idle /\ ~plan.free
    /\ \E current \in IF Current = {} THEN {{}} ELSE {{i} : i \in Current} :
          /\ \A i \in current : ~(rows[i].price = price /\ rows[i].from >= from)
          /\ req' = [req EXCEPT ![r] = [op |-> "set", current |-> current,
                                        price |-> price, from |-> from]]
    /\ UNCHANGED <<plan, rows, now>>

\* Mutant: the row in force ends at once.
ClosedNow(q) == [i \in DOMAIN rows |-> IF i \in q.current THEN [rows[i] EXCEPT !.to = now]
                                       ELSE rows[i]]

\* The row that was read ends where the new one begins.
Closed(q) == [i \in DOMAIN rows |-> IF i \in q.current THEN [rows[i] EXCEPT !.to = q.from]
                                    ELSE rows[i]]

SetPrice(r) == LET q == req[r] IN
    /\ q.op = "set"
    /\ Len(rows) < MaxRows
    /\ rows' = Append(Closed(q), [price |-> q.price, from |-> q.from, to |-> Open])
    /\ req' = [req EXCEPT ![r] = Idle]
    /\ UNCHANGED <<plan, now>>

Abort(r) ==
    /\ req[r] # Idle
    /\ req' = [req EXCEPT ![r] = Idle]
    /\ UNCHANGED <<plan, rows, now>>

Next ==
    \/ TimePasses
    \/ \E active, free \in BOOLEAN : Update(active, free)
    \/ \E r \in Requests :
          \/ \E price \in Prices, from \in Times : BeginSetPrice(r, price, from)
          \/ SetPrice(r) \/ Abort(r)

Spec == Init /\ [][Next]_vars

-----------------------------------------------------------------------------
(* "A price never overwrites: the row in force is closed and a new one      *)
(* opens": a row that has an end ends where a later row began, so that no   *)
(* moment is lost between a price and the one that replaced it, and one row *)
(* without an end is always left; through any race of two prices.           *)
Seamless ==
    /\ \A i \in DOMAIN rows : rows[i].to # Open =>
          \E j \in DOMAIN rows : i < j /\ rows[j].from = rows[i].to
    /\ rows # <<>> => rows[Len(rows)].to = Open

(* "Closes the price in force and opens a new one from effectiveFrom.       *)
(* Renewals after that moment use the new price": until then the old one is *)
(* in force.  A plan that had a price has none until a price set for later  *)
(* begins, and cannot be bought.                                            *)
StaysPurchasable ==
    [][ Purchasable /\ plan'.active /\ ~plan'.free => Purchasable' ]_vars

(* "The plan screen reads the price in force": what it shows is what a      *)
(* cycle costs.  It shows a price that has not begun.                       *)
ShownIsCharged == Purchasable => Shown = Current

(* "the row in force is closed and a new one opens": one row has begun and  *)
(* not ended.  Two requests close the same row, and open one each.          *)
OneInForce == \A i, j \in DOMAIN rows :
    rows[i].to = Open /\ rows[j].to = Open /\ rows[i].from <= now /\ rows[j].from <= now => i = j

-----------------------------------------------------------------------------
(* What the proofs add to the properties.                                   *)

Setting == [op : {"set"}, current : SUBSET Nat, price : Prices, from : Times]

TypeOK ==
    /\ rows \in Seq(Row)
    /\ req \in [Requests -> {Idle} \cup Setting]

IInv == TypeOK /\ Seamless
=============================================================================
