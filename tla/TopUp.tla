--------------------------------- MODULE TopUp ---------------------------------
(***************************************************************************)
(* Coin top-ups: an order and its payment attempt, the gateway that takes  *)
(* the money, the webhook handlers that hear of it, the reconcile sweep    *)
(* that asks about silent attempts and the sweep that expires what nobody  *)
(* finished.                                                               *)
(*                                                                         *)
(* Only what one Prisma transaction commits is atomic; the awaits between  *)
(* separate the steps of a task, and settle, which reads the attempt and   *)
(* the order without a lock and credits the wallet under one, is two.      *)
(* Reads that follow each other at once are one step.  Several tasks run   *)
(* at once, any of them may crash between steps, and the gateway may       *)
(* deliver an event never, late or many times.  The wallet appears only as *)
(* the number of entries that carry the order's key (CoinWallet has the    *)
(* rest).                                                                  *)
(*                                                                         *)
(* An order has one attempt: nothing in the code opens a second one.       *)
(***************************************************************************)
EXTENDS Naturals, FiniteSets

CONSTANTS
    Orders,            \* orders a member may open
    Handlers,          \* webhook requests served at once
    Probers,           \* runs of payment-reconcile.sweep
    Sweepers,          \* runs of coin-topup-expire.sweep
    Idle, None,
    Batch,             \* attempts one query of the reconcile sweep takes
    RetryAfterDecline, \* whether a member may still pay an attempt that was declined
    AlwaysTells,       \* whether a gateway that confirms a payment always says its amount
    MaxFaults          \* bound: crashes, failed transactions and lost answers

ASSUME ConstantsAssumption ==
    /\ Batch \in Nat \ {0}
    /\ MaxFaults \in Nat
    /\ RetryAfterDecline \in BOOLEAN
    /\ AlwaysTells \in BOOLEAN
    /\ IsFiniteSet(Orders)
    /\ Handlers \cap Probers = {}

VARIABLES
    order,       \* coin_top_ups.status, or "none"
    payment,     \* payments.status, or "none"
    createdAt,   \* the position of the attempt in creation order
    age,         \* how far the clock is past its creation
    credits,     \* coin_transactions with the key topup:<order>
    callback,    \* payment_callbacks: the row of an event
    gateway,     \* what the gateway knows of the attempt
    exact,       \* whether it took the amount of the order
    sent,        \* events it has sent
    task,        \* what each handler and prober is doing
    sweep,       \* what each expiry sweep is doing
    mismatched,  \* orders a caller was told TOPUP amount mismatch of
    faults

vars == <<order, payment, createdAt, age, credits, callback, gateway, exact, sent,
          task, sweep, mismatched, faults>>

rows == <<order, payment, createdAt, credits, callback>>
outside == <<age, gateway, exact, sent>>

Status == {"none", "PENDING", "PAID", "FAILED", "EXPIRED"}
Event == [order : Orders, verdict : {"paid", "declined"}]
Tasks == Handlers \cup Probers

\* Whether the answer to a query says the amount: neither adapter insists on it.
Answers == IF AlwaysTells THEN {TRUE} ELSE BOOLEAN

\* A handler works on one event; a prober through the attempts its query found,
\* with the ones the gateway left uncertain so far, and whether the answer it acts
\* on said an amount.
Handling == [pc : {"received", "resolved", "mismatch", "settling", "crediting", "handling"},
             event : Event, payment : Status, order : Status, known : BOOLEAN]
Probing == [pc : {"probing", "settling", "crediting"}, order : Orders \cup {None},
            told : Answers, due : SUBSET Orders, full : BOOLEAN, asked : SUBSET Orders]

-----------------------------------------------------------------------------
Init ==
    /\ order = [o \in Orders |-> "none"]
    /\ payment = [o \in Orders |-> "none"]
    /\ createdAt = [o \in Orders |-> 0]
    /\ age = [o \in Orders |-> "fresh"]
    /\ credits = [o \in Orders |-> 0]
    /\ callback = [e \in Event |-> "none"]
    /\ gateway = [o \in Orders |-> "none"]
    /\ exact = [o \in Orders |-> TRUE]
    /\ sent = {}
    /\ task = [t \in Tasks |-> Idle]
    /\ sweep = [s \in Sweepers |-> Idle]
    /\ mismatched = {}
    /\ faults = 0

(* The member, the clock and the gateway.                                   *)

\* create: the order and its attempt in one transaction.
Create(o) ==
    /\ order[o] = "none"
    /\ order' = [order EXCEPT ![o] = "PENDING"]
    /\ payment' = [payment EXCEPT ![o] = "PENDING"]
    /\ createdAt' = [createdAt EXCEPT ![o] = Cardinality({p \in Orders : order[p] # "none"}) + 1]
    /\ UNCHANGED <<credits, callback, task, sweep, mismatched, faults, outside>>

\* create, after the transaction: the gateway hands out the payment link.
LinkSent(o) ==
    /\ order[o] # "none" /\ gateway[o] = "none"
    /\ gateway' = [gateway EXCEPT ![o] = "open"]
    /\ UNCHANGED <<rows, age, exact, sent, task, sweep, mismatched, faults>>

\* create, after the transaction: no link, so markPaymentFailed.
LinkRefused(o) ==
    /\ order[o] # "none" /\ gateway[o] = "none"
    /\ gateway' = [gateway EXCEPT ![o] = "refused"]
    /\ order' = [order EXCEPT ![o] = "FAILED"]
    /\ payment' = [payment EXCEPT ![o] = "FAILED"]
    /\ UNCHANGED <<createdAt, credits, callback, age, exact, sent, task, sweep, mismatched, faults>>

\* Ten minutes after its creation the reconcile sweep may ask about an attempt;
\* at the end of its lifetime the order is due for expiry.
GrowOld(o) ==
    /\ order[o] # "none" /\ age[o] # "expired"
    /\ age' = [age EXCEPT ![o] = IF age[o] = "fresh" THEN "silent" ELSE "expired"]
    /\ UNCHANGED <<rows, gateway, exact, sent, task, sweep, mismatched, faults>>

GatewayPays(o, same) ==
    /\ gateway[o] = "open" \/ (RetryAfterDecline /\ gateway[o] = "declined")
    /\ gateway' = [gateway EXCEPT ![o] = "paid"]
    /\ exact' = [exact EXCEPT ![o] = same]
    /\ sent' = sent \cup {[order |-> o, verdict |-> "paid"]}
    /\ UNCHANGED <<rows, age, task, sweep, mismatched, faults>>

GatewayDeclines(o) ==
    /\ gateway[o] = "open"
    /\ gateway' = [gateway EXCEPT ![o] = "declined"]
    /\ sent' = sent \cup {[order |-> o, verdict |-> "declined"]}
    /\ UNCHANGED <<rows, age, exact, task, sweep, mismatched, faults>>

-----------------------------------------------------------------------------
(* What handlers and probers share: settle and markPaymentFailed.           *)

OrderOf(t) == IF t \in Handlers THEN task[t].event.order ELSE task[t].order

At(t, pc) == task[t] # Idle /\ task[t].pc = pc

Goto(t, pc) == task' = [task EXCEPT ![t] = [task[t] EXCEPT !.pc = pc]]

\* Where a task goes once settle returned or threw: every outcome ends in
\* handledAt for a delivery, and in the next attempt for a sweep.
Return(t) == Goto(t, IF t \in Handlers THEN "handling" ELSE "probing")

\* The amount settle is called with is that of the attempt: an event says the one
\* the gateway took, and so does its answer to a query, but where the answer says
\* none the sweep passes the attempt's own.
AmountMatches(t) == exact[OrderOf(t)] \/ (t \in Probers /\ ~task[t].told)

\* settle refuses an attempt or an order that is no longer payable.
SettleRefuses(t) ==
    LET o == OrderOf(t)
    IN  /\ At(t, "settling")
        /\ payment[o] # "PENDING" \/ order[o] # "PENDING"
        /\ Return(t)
        /\ UNCHANGED <<rows, outside, sweep, mismatched, faults>>

\* settle writes FAILED to both rows and throws, which rolls the two writes back.
SettleMismatch(t) ==
    LET o == OrderOf(t)
    IN  /\ At(t, "settling")
        /\ payment[o] = "PENDING" /\ order[o] = "PENDING" /\ ~AmountMatches(t)
        /\ mismatched' = mismatched \cup {o}
        /\ Return(t)
        /\ UNCHANGED <<rows, outside, sweep, faults>>

\* Mutant: settle forgets to compare the amounts.
SettleReadsAnyAmount(t) ==
    LET o == OrderOf(t)
    IN  /\ At(t, "settling")
        /\ payment[o] = "PENDING" /\ order[o] = "PENDING"
        /\ Goto(t, "crediting")
        /\ UNCHANGED <<rows, outside, sweep, mismatched, faults>>

\* Mutant: the attempt is marked PAID before the transaction that credits.
SettleMarksFirst(t) ==
    LET o == OrderOf(t)
    IN  /\ At(t, "settling")
        /\ payment[o] = "PENDING" /\ order[o] = "PENDING" /\ AmountMatches(t)
        /\ payment' = [payment EXCEPT ![o] = "PAID"]
        /\ Goto(t, "crediting")
        /\ UNCHANGED <<order, createdAt, credits, callback, outside, sweep, mismatched, faults>>

SettleReads(t) ==
    LET o == OrderOf(t)
    IN  /\ At(t, "settling")
        /\ payment[o] = "PENDING" /\ order[o] = "PENDING" /\ AmountMatches(t)
        /\ Goto(t, "crediting")
        /\ UNCHANGED <<rows, outside, sweep, mismatched, faults>>

\* The rows a paid order leaves behind, whatever they said before.
Paid(o) ==
    /\ payment' = [payment EXCEPT ![o] = "PAID"]
    /\ order' = [order EXCEPT ![o] = "PAID"]

\* Mutant: no idempotency key on the ledger entry.
CreditAgain(t) ==
    LET o == OrderOf(t)
    IN  /\ At(t, "crediting")
        /\ credits' = [credits EXCEPT ![o] = credits[o] + 1]
        /\ Paid(o)
        /\ Return(t)
        /\ UNCHANGED <<createdAt, callback, outside, sweep, mismatched, faults>>

\* The wallet lock, the ledger entry with the key of the order, PAID on both rows.
SettleCredits(t) ==
    LET o == OrderOf(t)
    IN  /\ At(t, "crediting")
        /\ credits[o] = 0
        /\ credits' = [credits EXCEPT ![o] = 1]
        /\ Paid(o)
        /\ Return(t)
        /\ UNCHANGED <<createdAt, callback, outside, sweep, mismatched, faults>>

\* The order was credited since settle read it: credit replays the entry when the
\* look-up sees it, and the unique index rolls everything back when it does not.
SettleReplays(t) ==
    LET o == OrderOf(t)
    IN  /\ At(t, "crediting")
        /\ credits[o] # 0
        /\ Paid(o) \/ UNCHANGED <<payment, order>>
        /\ Return(t)
        /\ UNCHANGED <<createdAt, credits, callback, outside, sweep, mismatched, faults>>

\* The transaction of settle fails for a reason of its own (a lost connection,
\* a lock timeout): handleCallback marks the delivery handled all the same.
SettleBreaks(t) ==
    /\ At(t, "settling") \/ At(t, "crediting")
    /\ faults < MaxFaults
    /\ faults' = faults + 1
    /\ Return(t)
    /\ UNCHANGED <<rows, outside, sweep, mismatched>>

\* A process dies between two steps; what it committed stays.
Crash(t) ==
    /\ task[t] # Idle
    /\ faults < MaxFaults
    /\ faults' = faults + 1
    /\ task' = [task EXCEPT ![t] = Idle]
    /\ UNCHANGED <<rows, outside, sweep, mismatched>>

-----------------------------------------------------------------------------
(* handleCallback.                                                          *)

\* Mutant: any recorded event counts as handled.
ReceiveOnce(h, e) ==
    /\ task[h] = Idle
    /\ e \in sent
    /\ callback[e] = "none"
    /\ task' = [task EXCEPT ![h] =
                   [pc |-> "received", event |-> e, payment |-> payment[e.order],
                    order |-> "none", known |-> FALSE]]
    /\ UNCHANGED <<rows, outside, sweep, mismatched, faults>>

\* The signature checks out and the event is not handled yet: its row and the
\* attempt are read.
Receive(h, e) ==
    /\ task[h] = Idle
    /\ e \in sent
    /\ callback[e] # "handled"
    /\ task' = [task EXCEPT ![h] =
                   [pc |-> "received", event |-> e, payment |-> payment[e.order],
                    order |-> "none", known |-> callback[e] = "open"]]
    /\ UNCHANGED <<rows, outside, sweep, mismatched, faults>>

\* Mutant: an event that was recorded but not finished is not finished here.
ResolveNewOnly(h) ==
    LET e == task[h].event
    IN  /\ At(h, "received")
        /\ IF callback[e] # "none"
           THEN task' = [task EXCEPT ![h] = Idle] /\ UNCHANGED callback
           ELSE /\ task' = [task EXCEPT ![h] =
                               [task[h] EXCEPT !.pc = "resolved", !.order = order[e.order]]]
                /\ callback' = [callback EXCEPT ![e] = "open"]
        /\ UNCHANGED <<order, payment, createdAt, credits, outside, sweep, mismatched, faults>>

\* The order is read; a delivery nobody recorded yet is recorded now.  When
\* another one did so meanwhile, its handled event is answered, and its
\* unfinished one is finished here.
Resolve(h) ==
    LET e == task[h].event
    IN  /\ At(h, "received")
        /\ IF ~task[h].known /\ callback[e] = "handled"
           THEN task' = [task EXCEPT ![h] = Idle] /\ UNCHANGED callback
           ELSE /\ task' = [task EXCEPT ![h] =
                               [task[h] EXCEPT !.pc = "resolved", !.order = order[e.order]]]
                /\ callback' = IF callback[e] = "none" THEN [callback EXCEPT ![e] = "open"] ELSE callback
        /\ UNCHANGED <<order, payment, createdAt, credits, outside, sweep, mismatched, faults>>

\* The attempt was over when it was read.
NothingToDo(h) ==
    /\ At(h, "resolved")
    /\ task[h].payment # "PENDING" \/ task[h].order # "PENDING"
    /\ Goto(h, "handling")
    /\ UNCHANGED <<rows, outside, sweep, mismatched, faults>>

Payable(h) == At(h, "resolved") /\ task[h].payment = "PENDING" /\ task[h].order = "PENDING"

\* markPaymentFailed: both rows in one transaction, whatever they say by now.
Decline(h) ==
    LET o == task[h].event.order
    IN  /\ Payable(h)
        /\ task[h].event.verdict = "declined"
        /\ payment' = [payment EXCEPT ![o] = "FAILED"]
        /\ order' = [order EXCEPT ![o] = "FAILED"]
        /\ Goto(h, "handling")
        /\ UNCHANGED <<createdAt, credits, callback, outside, sweep, mismatched, faults>>

\* The amount differs: the attempt fails first, the order in a call of its own.
MismatchAttempt(h) ==
    LET o == task[h].event.order
    IN  /\ Payable(h)
        /\ task[h].event.verdict = "paid" /\ ~exact[o]
        /\ payment' = [payment EXCEPT ![o] = "FAILED"]
        /\ Goto(h, "mismatch")
        /\ UNCHANGED <<order, createdAt, credits, callback, outside, sweep, mismatched, faults>>

MismatchOrder(h) ==
    LET o == task[h].event.order
    IN  /\ At(h, "mismatch")
        /\ order' = [order EXCEPT ![o] = "FAILED"]
        /\ mismatched' = mismatched \cup {o}
        /\ Goto(h, "handling")
        /\ UNCHANGED <<payment, createdAt, credits, callback, outside, sweep, faults>>

Accept(h) ==
    /\ Payable(h)
    /\ task[h].event.verdict = "paid" /\ exact[task[h].event.order]
    /\ Goto(h, "settling")
    /\ UNCHANGED <<rows, outside, sweep, mismatched, faults>>

MarkHandled(h) ==
    /\ At(h, "handling")
    /\ callback' = [callback EXCEPT ![task[h].event] = "handled"]
    /\ task' = [task EXCEPT ![h] = Idle]
    /\ UNCHANGED <<order, payment, createdAt, credits, outside, sweep, mismatched, faults>>

-----------------------------------------------------------------------------
(* payment-reconcile.sweep.                                                 *)

Smaller(a, b) == IF a < b THEN a ELSE b

HandledFor(o) == \E e \in Event : e.order = o /\ callback[e] = "handled"

\* PENDING attempts old enough to ask about that no delivery was handled for.
Silent == {o \in Orders : payment[o] = "PENDING" /\ age[o] # "fresh" /\ ~HandledFor(o)}

\* The oldest Batch of them.
Oldest ==
    {B \in SUBSET Silent :
        /\ Cardinality(B) = Smaller(Batch, Cardinality(Silent))
        /\ \A o \in B, p \in Silent \ B : createdAt[o] < createdAt[p]}

ProbeTask(B, asked) ==
    [pc |-> "probing", order |-> None, told |-> TRUE, due |-> B, full |-> Cardinality(B) >= Batch, asked |-> asked]

ProbeStart(p) ==
    /\ task[p] = Idle
    /\ \E B \in Oldest \ {{}} : task' = [task EXCEPT ![p] = ProbeTask(B, {})]
    /\ UNCHANGED <<rows, outside, sweep, mismatched, faults>>

NextDue(p, o) == o \in task[p].due /\ \A q \in task[p].due : createdAt[o] <= createdAt[q]

\* The gateway confirms the payment, and as a rule says how much it took.
ProbePaid(p, o) ==
    /\ At(p, "probing") /\ NextDue(p, o)
    /\ gateway[o] = "paid"
    /\ \E told \in Answers :
          task' = [task EXCEPT ![p] =
                      [task[p] EXCEPT !.pc = "settling", !.order = o, !.told = told,
                                      !.due = task[p].due \ {o}]]
    /\ UNCHANGED <<rows, outside, sweep, mismatched, faults>>

\* The gateway is uncertain, or does not answer: the attempt is left alone.
ProbeUnknown(p, o) ==
    /\ At(p, "probing") /\ NextDue(p, o)
    /\ IF gateway[o] = "paid" THEN faults < MaxFaults /\ faults' = faults + 1 ELSE UNCHANGED faults
    /\ task' = [task EXCEPT ![p] =
                   [task[p] EXCEPT !.due = task[p].due \ {o}, !.asked = task[p].asked \cup {o}]]
    /\ UNCHANGED <<rows, outside, sweep, mismatched>>

\* A full batch is followed by another query, any other ends the run.
ProbeEnd(p) ==
    /\ At(p, "probing") /\ task[p].due = {}
    /\ \E B \in Oldest :
          task' = [task EXCEPT ![p] =
                      IF task[p].full /\ B # {} THEN ProbeTask(B, task[p].asked) ELSE Idle]
    /\ UNCHANGED <<rows, outside, sweep, mismatched, faults>>

-----------------------------------------------------------------------------
(* coin-topup-expire.sweep: a query and two updates, in no transaction.     *)

ExpireQuery(s) ==
    LET stale == {o \in Orders : order[o] = "PENDING" /\ age[o] = "expired"}
    IN  /\ sweep[s] = Idle
        /\ stale # {}
        /\ sweep' = [sweep EXCEPT ![s] = [pc |-> "orders", stale |-> stale]]
        /\ UNCHANGED <<rows, outside, task, mismatched, faults>>

\* Mutant: updateMany without the guard on the status.
ExpiredAll(status, stale) ==
    [o \in Orders |-> IF o \in stale THEN "EXPIRED" ELSE status[o]]

\* updateMany guarded on PENDING.
ExpiredIn(status, stale) ==
    [o \in Orders |-> IF o \in stale /\ status[o] = "PENDING" THEN "EXPIRED" ELSE status[o]]

ExpireOrders(s) ==
    /\ sweep[s] # Idle /\ sweep[s].pc = "orders"
    /\ order' = ExpiredIn(order, sweep[s].stale)
    /\ sweep' = [sweep EXCEPT ![s] = [sweep[s] EXCEPT !.pc = "payments"]]
    /\ UNCHANGED <<payment, createdAt, credits, callback, outside, task, mismatched, faults>>

ExpirePayments(s) ==
    /\ sweep[s] # Idle /\ sweep[s].pc = "payments"
    /\ payment' = ExpiredIn(payment, sweep[s].stale)
    /\ sweep' = [sweep EXCEPT ![s] = Idle]
    /\ UNCHANGED <<order, createdAt, credits, callback, outside, task, mismatched, faults>>

ExpireCrash(s) ==
    /\ sweep[s] # Idle
    /\ faults < MaxFaults
    /\ faults' = faults + 1
    /\ sweep' = [sweep EXCEPT ![s] = Idle]
    /\ UNCHANGED <<rows, outside, task, mismatched>>

-----------------------------------------------------------------------------
Member(o) == Create(o) \/ LinkSent(o) \/ LinkRefused(o)

Gateway(o) == GatewayDeclines(o) \/ \E same \in BOOLEAN : GatewayPays(o, same)

Settle(t) ==
    SettleRefuses(t) \/ SettleMismatch(t) \/ SettleReads(t) \/ SettleCredits(t) \/ SettleReplays(t)

HandlerStep(h) ==
    \/ Resolve(h) \/ NothingToDo(h) \/ Decline(h) \/ MismatchAttempt(h) \/ MismatchOrder(h)
    \/ Accept(h) \/ Settle(h) \/ MarkHandled(h)

ProberStep(p) ==
    \/ ProbeStart(p) \/ ProbeEnd(p) \/ Settle(p)
    \/ \E o \in Orders : ProbePaid(p, o) \/ ProbeUnknown(p, o)

SweepStep(s) == ExpireQuery(s) \/ ExpireOrders(s) \/ ExpirePayments(s)

Next ==
    \/ \E o \in Orders : Member(o) \/ GrowOld(o) \/ Gateway(o)
    \/ \E h \in Handlers : HandlerStep(h) \/ \E e \in Event : Receive(h, e)
    \/ \E p \in Probers : ProberStep(p)
    \/ \E t \in Tasks : SettleBreaks(t) \/ Crash(t)
    \/ \E s \in Sweepers : SweepStep(s) \/ ExpireCrash(s)

Spec == Init /\ [][Next]_vars

\* Gateways repeat a delivery until it is answered, and handleVnpayIpn answers for
\* a PAID attempt without another look; requests run to their end unless they
\* crash; both sweeps are repeatable jobs.
Fairness ==
    /\ \A h \in Handlers :
          /\ WF_vars(HandlerStep(h))
          /\ \A e \in Event : WF_vars(Receive(h, e) /\ payment[e.order] # "PAID")
    /\ \A p \in Probers : WF_vars(ProberStep(p))
    /\ \A s \in Sweepers : WF_vars(SweepStep(s))

FairSpec == Spec /\ Fairness

-----------------------------------------------------------------------------
(* Properties.                                                              *)

\* The types of all rows and tasks; one order has at most one ledger entry.
TypeOK ==
    /\ order \in [Orders -> Status]
    /\ payment \in [Orders -> Status]
    /\ createdAt \in [Orders -> Nat]
    /\ age \in [Orders -> {"fresh", "silent", "expired"}]
    /\ credits \in [Orders -> {0, 1}]
    /\ callback \in [Event -> {"none", "open", "handled"}]
    /\ gateway \in [Orders -> {"none", "refused", "open", "declined", "paid"}]
    /\ exact \in [Orders -> BOOLEAN]
    /\ sent \in SUBSET Event
    /\ task \in [Tasks -> Handling \cup Probing \cup {Idle}]
    /\ \A h \in Handlers : task[h] \in Handling \cup {Idle}
    /\ \A p \in Probers : task[p] \in Probing \cup {Idle}
    /\ sweep \in [Sweepers -> [pc : {"orders", "payments"}, stale : SUBSET Orders] \cup {Idle}]
    /\ mismatched \in SUBSET Orders
    /\ faults \in Nat

\* What a credit needs: the payment, of the exact amount as far as the gateway says.
ConfirmedFor(o) == gateway[o] = "paid" /\ (AlwaysTells => exact[o])

\* Whatever webhooks, retries, sweeps and crashes do, an order is credited at most
\* once and only when the gateway took a payment for it, of its exact amount if the
\* gateway always says the amount (settle, handleCallback and reconcileDue together).
Promise == INSTANCE TopUpPromise WITH
    confirmed <- {o \in Orders : ConfirmedFor(o)}

Promised == Promise!Spec

\* No row says PAID that the ledger does not: a crash or a rollback never leaves an
\* order or an attempt paid without its Coins.
PaidMeansCredited ==
    \A o \in Orders : order[o] = "PAID" \/ payment[o] = "PAID" => credits[o] = 1

\* A credited order reads PAID for good, and so does its attempt: no sweep, late
\* verdict or mismatch overwrites it (topup-settlement.service.ts: the ledger, the
\* attempt and the order never drift apart).
CreditedOrderIsPaid ==
    \A o \in Orders : credits[o] # 0 => order[o] = "PAID" /\ payment[o] = "PAID"

\* What the rows say and what the ledger holds never part, in either direction.
PaidIffCredited == PaidMeansCredited /\ CreditedOrderIsPaid

\* A payment the gateway confirmed while the order was still payable is credited,
\* unless the order was closed first or its delivery was recorded as handled.
ConfirmedSettles ==
    \A o \in Orders :
        gateway[o] = "paid" /\ exact[o] /\ payment[o] = "PENDING" /\ order[o] = "PENDING"
            ~> credits[o] = 1 \/ payment[o] # "PENDING" \/ order[o] # "PENDING" \/ HandledFor(o)

\* A delivery recorded as handled left nothing undone, since repeats of it are only
\* answered and the sweep does not ask about its attempt (handleCallback: the gateway
\* may retry freely).
HandledIsDone ==
    \A e \in Event : callback[e] = "handled" => order[e.order] # "PENDING" \/ payment[e.order] # "PENDING"

\* A delivery whose handler crashed is finished by a repeated one, unless the attempt
\* was paid meanwhile (coin-topup.service.ts: the winner crashed before handling).
OpenDeliveryFinishes ==
    \A e \in Event : callback[e] = "open" ~> callback[e] = "handled" \/ payment[e.order] = "PAID"

\* An expired order lets go of its attempt in the end (top-up-expiry.sweep.ts: the
\* order's payment attempts die with it).
AttemptsDieWithOrder ==
    \A o \in Orders : order[o] = "EXPIRED" ~> payment[o] # "PENDING"

\* An order that was refused for its amount is FAILED, and so is its attempt
\* (topup-settlement.service.spec.ts: fails the attempt and the order).
MismatchFailsOrder ==
    \A o \in mismatched : order[o] = "FAILED" /\ payment[o] = "FAILED"

\* What the gateway left uncertain waits for the next run (payment-reconcile.sweep.ts:
\* left alone for the next run).
LeftForNextRun ==
    \A p \in Probers : task[p] # Idle => task[p].due \cap task[p].asked = {}

-----------------------------------------------------------------------------
(* The inductive invariant behind Promised and CreditedOrderIsPaid.         *)

\* What the gateway sent is true, and stays true unless a declined attempt can
\* still be paid.
SentIsTrue ==
    \A e \in sent :
        /\ e.verdict = "paid" => gateway[e.order] = "paid"
        /\ e.verdict = "declined" /\ ~RetryAfterDecline => gateway[e.order] = "declined"

HandledWasSent == \A h \in Handlers : task[h] # Idle => task[h].event \in sent

\* Only a confirmed payment is on its way through settle.
SettlesConfirmed ==
    \A t \in Tasks :
        /\ At(t, "settling") \/ At(t, "crediting")
              => OrderOf(t) \in Orders /\ gateway[OrderOf(t)] = "paid"
        /\ At(t, "crediting") => ConfirmedFor(OrderOf(t))
        /\ t \in Handlers /\ At(t, "mismatch") => ~exact[OrderOf(t)] /\ gateway[OrderOf(t)] = "paid"

CreditedWasConfirmed ==
    \A o \in Orders : credits[o] # 0 => ConfirmedFor(o)

IInv ==
    /\ TypeOK /\ SentIsTrue /\ HandledWasSent /\ SettlesConfirmed /\ CreditedWasConfirmed
    /\ PaidMeansCredited /\ (~RetryAfterDecline /\ AlwaysTells => CreditedOrderIsPaid)
=============================================================================
