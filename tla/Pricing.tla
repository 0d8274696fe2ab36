-------------------------------- MODULE Pricing --------------------------------
(***************************************************************************)
(* The price of an episode and the alerts it raises.  The Reviewer prices  *)
(* against the range the Admin set, read before the transaction; a price   *)
(* outside is saved anyway and raises an alert, which the Admin answers    *)
(* from a reading of their own, while both may change.                     *)
(***************************************************************************)
EXTENDS Integers, Sequences

CONSTANTS
    Requests,      \* requests served at once
    Prices,        \* prices the Reviewer may set
    Ranges,        \* ranges <<min, max>> the Admin may configure
    MaxAlerts      \* bound: alerts raised

VARIABLES
    price,         \* Episode.coinPrice, 0 before the first
    alerts,        \* PriceAlert rows of the episode, oldest first
    range,         \* the range of the platform settings
    req            \* what each request has read

vars == <<price, alerts, range, req>>

Unresolved == {"OPEN", "CHANGE_REQUESTED"}

Alert == [price : Prices, range : Ranges, status : Unresolved \cup {"RESOLVED"}]

Idle == [op |-> "idle"]

Outside(p, r) == p < r[1] \/ p > r[2]

Init ==
    /\ price = 0 /\ alerts = <<>>
    /\ range \in Ranges
    /\ req = [r \in Requests |-> Idle]

\* setPrice reads the range outside its transaction.
BeginPrice(r, p) ==
    /\ req[r] = Idle
    /\ req' = [req EXCEPT ![r] = [op |-> "price", price |-> p, range |-> range]]
    /\ UNCHANGED <<price, alerts, range>>

\* Mutant: the alerts about the previous price stay.
Kept(rows) == rows

\* A new price settles the alerts about the previous one.
Settled(rows) == [i \in DOMAIN rows |-> [rows[i] EXCEPT !.status = "RESOLVED"]]

Raised(q) ==
    IF Outside(q.price, q.range)
    THEN <<[price |-> q.price, range |-> q.range, status |-> "OPEN"]>> ELSE <<>>

\* The update of the episode row makes requests wait for each other.
SetPrice(r) ==
    /\ req[r].op = "price"
    /\ Len(alerts) < MaxAlerts
    /\ price' = req[r].price
    /\ alerts' = Settled(alerts) \o Raised(req[r])
    /\ req' = [req EXCEPT ![r] = Idle]
    /\ UNCHANGED range

\* findAlert: the Admin answers what the alert was when it was read.
BeginAnswer(r, i, op) ==
    /\ req[r] = Idle
    /\ alerts[i].status \in (IF op = "request" THEN {"OPEN"} ELSE Unresolved)
    /\ req' = [req EXCEPT ![r] = [op |-> op, alert |-> i]]
    /\ UNCHANGED <<price, alerts, range>>

\* Mutant: the status is not looked at again.
RequestAnyway(r) ==
    /\ req[r].op = "request"
    /\ alerts' = [alerts EXCEPT ![req[r].alert].status = "CHANGE_REQUESTED"]
    /\ req' = [req EXCEPT ![r] = Idle]
    /\ UNCHANGED <<price, range>>

\* The Admin asks for another price; the price itself stays.
RequestChange(r) ==
    /\ req[r].op = "request"
    /\ alerts[req[r].alert].status = "OPEN"
    /\ alerts' = [alerts EXCEPT ![req[r].alert].status = "CHANGE_REQUESTED"]
    /\ req' = [req EXCEPT ![r] = Idle]
    /\ UNCHANGED <<price, range>>

\* The Admin accepts the price as it is.
Resolve(r) ==
    /\ req[r].op = "resolve"
    /\ alerts[req[r].alert].status \in Unresolved
    /\ alerts' = [alerts EXCEPT ![req[r].alert].status = "RESOLVED"]
    /\ req' = [req EXCEPT ![r] = Idle]
    /\ UNCHANGED <<price, range>>

\* A request that finds the alert changed, or fails, leaves nothing.
Abort(r) ==
    /\ req[r] # Idle
    /\ req' = [req EXCEPT ![r] = Idle]
    /\ UNCHANGED <<price, alerts, range>>

SetRange(r) ==
    /\ range' = r
    /\ UNCHANGED <<price, alerts, req>>

Next ==
    \/ \E r \in Requests :
          \/ \E p \in Prices : BeginPrice(r, p)
          \/ \E i \in DOMAIN alerts, op \in {"request", "resolve"} : BeginAnswer(r, i, op)
          \/ SetPrice(r) \/ RequestChange(r) \/ Resolve(r) \/ Abort(r)
    \/ \E r \in Ranges : SetRange(r)

Spec == Init /\ [][Next]_vars

-----------------------------------------------------------------------------
(* BR-47: what the Admin still has to look at is the price in force, in one *)
(* alert at most, however pricing races the answers to older alerts, which  *)
(* were read when another price was in force.                               *)
AlertIsAboutThePrice == \A i \in DOMAIN alerts :
    alerts[i].status \in Unresolved => i = Len(alerts) /\ alerts[i].price = price

-----------------------------------------------------------------------------
(* What the proofs add to the properties.                                   *)

Setting == [op : {"price"}, price : Prices, range : Ranges]
Answering == [op : {"request", "resolve"}, alert : Nat]

TypeOK ==
    /\ alerts \in Seq(Alert)
    /\ range \in Ranges
    /\ req \in [Requests -> {Idle} \cup Setting \cup Answering]

IInv == TypeOK /\ AlertIsAboutThePrice
=============================================================================
