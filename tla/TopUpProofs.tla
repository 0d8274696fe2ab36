----------------------------- MODULE TopUpProofs -----------------------------
(***************************************************************************)
(* Proofs about TopUp, for every finite set of orders and any number of    *)
(* handlers, probers, sweeps and faults: IInv is inductive, and from it    *)
(* follow the refinement of TopUpPromise and the agreement of the ledger   *)
(* with the rows.                                                          *)
(***************************************************************************)
EXTENDS TopUp, FiniteSetTheorems, TLAPS

(***************************************************************************)
(* The parts of the invariant: the rows, the tasks, what the gateway is    *)
(* believed to have said, and the agreement of the ledger with the rows.   *)
(***************************************************************************)

RowsOK ==
    /\ order \in [Orders -> Status]
    /\ payment \in [Orders -> Status]
    /\ createdAt \in [Orders -> Nat]
    /\ age \in [Orders -> {"fresh", "silent", "expired"}]
    /\ credits \in [Orders -> {0, 1}]
    /\ callback \in [Event -> {"none", "open", "handled"}]
    /\ gateway \in [Orders -> {"none", "refused", "open", "declined", "paid"}]
    /\ exact \in [Orders -> BOOLEAN]
    /\ sent \in SUBSET Event
    /\ sweep \in [Sweepers -> [pc : {"orders", "payments"}, stale : SUBSET Orders] \cup {Idle}]
    /\ mismatched \in SUBSET Orders
    /\ faults \in Nat

TasksOK ==
    /\ task \in [Tasks -> Handling \cup Probing \cup {Idle}]
    /\ \A h \in Handlers : task[h] \in Handling \cup {Idle}
    /\ \A p \in Probers : task[p] \in Probing \cup {Idle}

Ledger ==
    /\ CreditedWasConfirmed /\ PaidMeansCredited
    /\ ~RetryAfterDecline /\ AlwaysTells => CreditedOrderIsPaid

Believed == TasksOK /\ SentIsTrue /\ HandledWasSent /\ SettlesConfirmed

LEMMA Parts == IInv => RowsOK /\ Believed /\ Ledger
  BY DEF IInv, TypeOK, RowsOK, TasksOK, Ledger, Believed

LEMMA Whole == RowsOK' /\ Believed' /\ Ledger' => IInv'
  BY DEF IInv, TypeOK, RowsOK, TasksOK, Ledger, Believed

HandlerPc == {"received", "resolved", "mismatch", "settling", "crediting", "handling"}
ProberPc == {"probing", "settling", "crediting"}

(***************************************************************************)
(* What changing one task may break.                                       *)
(***************************************************************************)

\* What is known of the order of a task that stands at pc.
Knows(t, pc, o) ==
    /\ pc \in {"settling", "crediting"} => o \in Orders /\ gateway[o] = "paid"
    /\ pc = "crediting" => ConfirmedFor(o)
    /\ t \in Handlers /\ pc = "mismatch" => ~exact[o] /\ gateway[o] = "paid"

\* A handler may become idle, or anything that stands for an event that was sent.
LEMMA HandlerMoves ==
    ASSUME Believed, NEW h \in Handlers, NEW x,
           x = Idle \/ (x \in Handling /\ x.event \in sent /\ Knows(h, x.pc, x.event.order)),
           task' = [task EXCEPT ![h] = x], UNCHANGED <<gateway, exact, sent>>
    PROVE  Believed'
<1>1. task'[h] = x /\ \A u \in Tasks \ {h} : task'[u] = task[u]
  BY DEF Believed, TasksOK, Tasks
<1>2. TasksOK'
  BY <1>1, ConstantsAssumption DEF Believed, TasksOK, Tasks, Handling, Probing
<1>3. SentIsTrue'
  BY DEF Believed, SentIsTrue
<1>4. HandledWasSent'
  BY <1>1 DEF Believed, HandledWasSent, Tasks
<1>5. SettlesConfirmed'
  <2> SUFFICES ASSUME NEW u \in Tasks
               PROVE  (/\ At(u, "settling") \/ At(u, "crediting")
                             => OrderOf(u) \in Orders /\ gateway[OrderOf(u)] = "paid"
                       /\ At(u, "crediting") => ConfirmedFor(OrderOf(u))
                       /\ u \in Handlers /\ At(u, "mismatch")
                             => ~exact[OrderOf(u)] /\ gateway[OrderOf(u)] = "paid")'
    BY DEF SettlesConfirmed
  <2>1. CASE u = h
    BY <2>1, <1>1 DEF At, OrderOf, ConfirmedFor, Knows
  <2>2. CASE u # h
    BY <2>2, <1>1 DEF At, OrderOf, ConfirmedFor, Believed, SettlesConfirmed
  <2> QED
    BY <2>1, <2>2
<1> QED
  BY <1>2, <1>3, <1>4, <1>5 DEF Believed

\* A prober may become idle, or work on any order it knows enough about.
LEMMA ProberMoves ==
    ASSUME Believed, NEW p \in Probers, NEW x,
           x = Idle \/ (x \in Probing /\ Knows(p, x.pc, x.order)),
           task' = [task EXCEPT ![p] = x], UNCHANGED <<gateway, exact, sent>>
    PROVE  Believed'
<1>1. task'[p] = x /\ \A u \in Tasks \ {p} : task'[u] = task[u]
  BY DEF Believed, TasksOK, Tasks
<1>2. p \notin Handlers
  BY ConstantsAssumption
<1>3. TasksOK'
  BY <1>1, <1>2 DEF Believed, TasksOK, Tasks, Handling, Probing
<1>4. SentIsTrue'
  BY DEF Believed, SentIsTrue
<1>5. HandledWasSent'
  BY <1>1, <1>2 DEF Believed, HandledWasSent, Tasks
<1>6. SettlesConfirmed'
  <2> SUFFICES ASSUME NEW u \in Tasks
               PROVE  (/\ At(u, "settling") \/ At(u, "crediting")
                             => OrderOf(u) \in Orders /\ gateway[OrderOf(u)] = "paid"
                       /\ At(u, "crediting") => ConfirmedFor(OrderOf(u))
                       /\ u \in Handlers /\ At(u, "mismatch")
                             => ~exact[OrderOf(u)] /\ gateway[OrderOf(u)] = "paid")'
    BY DEF SettlesConfirmed
  <2>1. CASE u = p
    BY <2>1, <1>1, <1>2 DEF At, OrderOf, ConfirmedFor, Knows
  <2>2. CASE u # p
    BY <2>2, <1>1 DEF At, OrderOf, ConfirmedFor, Believed, SettlesConfirmed
  <2> QED
    BY <2>1, <2>2
<1> QED
  BY <1>3, <1>4, <1>5, <1>6 DEF Believed

\* Going on to pc, with the same event or order.
LEMMA Goes ==
    ASSUME Believed, NEW t \in Tasks, task[t] # Idle, NEW pc, Goto(t, pc),
           t \in Handlers => pc \in HandlerPc, t \in Probers => pc \in ProberPc,
           Knows(t, pc, OrderOf(t)), UNCHANGED <<gateway, exact, sent>>
    PROVE  Believed'
<1>1. task' = [task EXCEPT ![t] = [task[t] EXCEPT !.pc = pc]]
  BY DEF Goto
<1>2. CASE t \in Handlers
  <2>1. task[t] \in Handling /\ task[t].event \in sent
    BY <1>2 DEF Believed, TasksOK, HandledWasSent
  <2>2. /\ [task[t] EXCEPT !.pc = pc] \in Handling
        /\ [task[t] EXCEPT !.pc = pc].event = task[t].event
        /\ [task[t] EXCEPT !.pc = pc].pc = pc
    BY <1>2, <2>1 DEF Handling, HandlerPc
  <2>3. Knows(t, pc, task[t].event.order)
    BY <1>2 DEF OrderOf
  <2> QED
    BY <1>1, <1>2, <2>1, <2>2, <2>3, HandlerMoves
<1>3. CASE t \in Probers
  <2>1. task[t] \in Probing /\ t \notin Handlers
    BY <1>3, ConstantsAssumption DEF Believed, TasksOK
  <2>2. /\ [task[t] EXCEPT !.pc = pc] \in Probing
        /\ [task[t] EXCEPT !.pc = pc].order = task[t].order
        /\ [task[t] EXCEPT !.pc = pc].pc = pc
    BY <1>3, <2>1 DEF Probing, ProberPc
  <2>3. Knows(t, pc, task[t].order)
    BY <2>1 DEF OrderOf
  <2> QED
    BY <1>1, <1>3, <2>2, <2>3, ProberMoves
<1> QED
  BY <1>2, <1>3 DEF Tasks

\* Whatever settle decides, its caller believes no more than before.
LEMMA Returns ==
    ASSUME Believed, NEW t \in Tasks, task[t] # Idle, Return(t), UNCHANGED <<gateway, exact, sent>>
    PROVE  Believed'
<1> DEFINE pc == IF t \in Handlers THEN "handling" ELSE "probing"
<1>1. Goto(t, pc)
  BY DEF Return
<1>2. /\ t \in Handlers => pc \in HandlerPc
      /\ t \in Probers => pc \in ProberPc
      /\ Knows(t, pc, OrderOf(t))
  BY ConstantsAssumption DEF HandlerPc, ProberPc, Knows
<1> HIDE DEF pc
<1> QED
  BY <1>1, <1>2, Goes

LEMMA Stops ==
    ASSUME Believed, NEW t \in Tasks, task' = [task EXCEPT ![t] = Idle], UNCHANGED <<gateway, exact, sent>>
    PROVE  Believed'
  BY HandlerMoves, ProberMoves DEF Tasks

(***************************************************************************)
(* The member, the clock and the gateway.                                  *)
(***************************************************************************)

\* A new order is PENDING and uncredited.
LEMMA StepCreate ==
    ASSUME IInv, NEW o \in Orders, Create(o)
    PROVE  IInv'
<1>1. RowsOK /\ Believed /\ Ledger
  BY Parts
<1>2. Believed'
  BY <1>1 DEF Believed, TasksOK, SentIsTrue, HandledWasSent, SettlesConfirmed, ConfirmedFor, At, OrderOf, Create, outside
<1>3. RowsOK'
  <2>1. {p \in Orders : order[p] # "none"} \subseteq Orders
    OBVIOUS
  <2>2. IsFiniteSet({p \in Orders : order[p] # "none"})
    BY <2>1, ConstantsAssumption, FS_Subset
  <2>3. Cardinality({p \in Orders : order[p] # "none"}) + 1 \in Nat
    BY <2>2, FS_CardinalityType
  <2> QED
    BY <1>1, <2>3 DEF RowsOK, Status, Create, outside
<1>4. Ledger'
  <2>1. order[o] # "PAID" /\ credits' = credits /\ gateway' = gateway /\ exact' = exact
    BY DEF Create, outside
  <2>2. ~RetryAfterDecline /\ AlwaysTells => credits[o] = 0
    BY <1>1, <2>1 DEF RowsOK, Ledger, CreditedOrderIsPaid
  <2> QED
    BY <1>1, <2>1, <2>2 DEF RowsOK, Ledger, CreditedWasConfirmed, ConfirmedFor, PaidMeansCredited, CreditedOrderIsPaid, Create
<1> QED
  BY <1>2, <1>3, <1>4, Whole

\* A link opens the attempt at the gateway.
LEMMA StepLinkSent ==
    ASSUME IInv, NEW o \in Orders, LinkSent(o)
    PROVE  IInv'
<1>1. RowsOK /\ Believed /\ Ledger
  BY Parts
<1>2. Believed'
  BY <1>1 DEF Believed, TasksOK, SentIsTrue, HandledWasSent, SettlesConfirmed, ConfirmedFor, At, OrderOf, LinkSent, RowsOK
<1>3. RowsOK'
  BY <1>1 DEF RowsOK, Status, LinkSent, rows
<1>4. Ledger'
  BY <1>1 DEF RowsOK, Ledger, CreditedWasConfirmed, ConfirmedFor, PaidMeansCredited, CreditedOrderIsPaid, LinkSent, rows
<1> QED
  BY <1>2, <1>3, <1>4, Whole

\* An attempt without a link was never paid.
LEMMA StepLinkRefused ==
    ASSUME IInv, NEW o \in Orders, LinkRefused(o)
    PROVE  IInv'
<1>1. RowsOK /\ Believed /\ Ledger
  BY Parts
<1>2. Believed'
  BY <1>1 DEF Believed, TasksOK, SentIsTrue, HandledWasSent, SettlesConfirmed, ConfirmedFor, At, OrderOf, LinkRefused, RowsOK
<1>3. RowsOK'
  BY <1>1 DEF RowsOK, Status, LinkRefused
<1>4. Ledger'
  BY <1>1 DEF RowsOK, Ledger, CreditedWasConfirmed, ConfirmedFor, PaidMeansCredited, CreditedOrderIsPaid, LinkRefused
<1> QED
  BY <1>2, <1>3, <1>4, Whole

\* Time passes.
LEMMA StepGrowOld ==
    ASSUME IInv, NEW o \in Orders, GrowOld(o)
    PROVE  IInv'
<1>1. RowsOK /\ Believed /\ Ledger
  BY Parts
<1>2. Believed'
  BY <1>1 DEF Believed, TasksOK, SentIsTrue, HandledWasSent, SettlesConfirmed, ConfirmedFor, At, OrderOf, GrowOld
<1>3. RowsOK'
  BY <1>1 DEF RowsOK, Status, GrowOld, rows
<1>4. Ledger'
  BY <1>1 DEF RowsOK, Ledger, CreditedWasConfirmed, ConfirmedFor, PaidMeansCredited, CreditedOrderIsPaid, GrowOld, rows
<1> QED
  BY <1>2, <1>3, <1>4, Whole

\* What was sent before stays true: an open attempt was not declined.
LEMMA StepGatewayPays ==
    ASSUME IInv, NEW o \in Orders, NEW same \in BOOLEAN, GatewayPays(o, same)
    PROVE  IInv'
<1>1. RowsOK /\ Believed /\ Ledger
  BY Parts
<1>2. Believed'
  BY <1>1 DEF Believed, TasksOK, SentIsTrue, HandledWasSent, SettlesConfirmed, ConfirmedFor, At, OrderOf, GatewayPays, RowsOK
<1>3. RowsOK'
  BY <1>1 DEF RowsOK, Status, GatewayPays, rows, Event
<1>4. Ledger'
  BY <1>1 DEF RowsOK, Ledger, CreditedWasConfirmed, ConfirmedFor, PaidMeansCredited, CreditedOrderIsPaid, GatewayPays, rows
<1> QED
  BY <1>2, <1>3, <1>4, Whole

\* An open attempt was not paid.
LEMMA StepGatewayDeclines ==
    ASSUME IInv, NEW o \in Orders, GatewayDeclines(o)
    PROVE  IInv'
<1>1. RowsOK /\ Believed /\ Ledger
  BY Parts
<1>2. Believed'
  BY <1>1 DEF Believed, TasksOK, SentIsTrue, HandledWasSent, SettlesConfirmed, ConfirmedFor, At, OrderOf, GatewayDeclines, RowsOK
<1>3. RowsOK'
  BY <1>1 DEF RowsOK, Status, GatewayDeclines, rows, Event
<1>4. Ledger'
  BY <1>1 DEF RowsOK, Ledger, CreditedWasConfirmed, ConfirmedFor, PaidMeansCredited, CreditedOrderIsPaid, GatewayDeclines, rows
<1> QED
  BY <1>2, <1>3, <1>4, Whole

(***************************************************************************)
(* settle, whoever calls it.                                               *)
(***************************************************************************)

\* Nothing is written.
LEMMA StepSettleRefuses ==
    ASSUME IInv, NEW t \in Tasks, SettleRefuses(t)
    PROVE  IInv'
<1>1. RowsOK /\ Believed /\ Ledger
  BY Parts
<1>2. Believed'
  BY <1>1, Returns DEF SettleRefuses, At, outside
<1>3. RowsOK'
  BY <1>1 DEF RowsOK, Status, SettleRefuses, rows, outside
<1>4. Ledger'
  BY <1>1 DEF RowsOK, Ledger, CreditedWasConfirmed, ConfirmedFor, PaidMeansCredited, CreditedOrderIsPaid, SettleRefuses, rows, outside
<1> QED
  BY <1>2, <1>3, <1>4, Whole

\* The two writes are rolled back.
LEMMA StepSettleMismatch ==
    ASSUME IInv, NEW t \in Tasks, SettleMismatch(t)
    PROVE  IInv'
<1>1. RowsOK /\ Believed /\ Ledger
  BY Parts
<1>2. Believed'
  BY <1>1, Returns DEF SettleMismatch, At, outside
<1>3. RowsOK'
  <2>1. OrderOf(t) \in Orders
    BY <1>1 DEF Believed, SettlesConfirmed, SettleMismatch
  <2> QED
    BY <1>1, <2>1 DEF RowsOK, Status, SettleMismatch, rows, outside
<1>4. Ledger'
  BY <1>1 DEF RowsOK, Ledger, CreditedWasConfirmed, ConfirmedFor, PaidMeansCredited, CreditedOrderIsPaid, SettleMismatch, rows, outside
<1> QED
  BY <1>2, <1>3, <1>4, Whole

\* Only the exact amount goes on to the credit, as far as the gateway says it.
LEMMA StepSettleReads ==
    ASSUME IInv, NEW t \in Tasks, SettleReads(t)
    PROVE  IInv'
<1>1. RowsOK /\ Believed /\ Ledger
  BY Parts
<1>2. Believed'
  <2>1. Knows(t, "crediting", OrderOf(t))
    <3>1. AlwaysTells /\ t \in Probers => task[t].told
      BY <1>1 DEF Believed, TasksOK, Probing, Answers, SettleReads, At
    <3>2. AlwaysTells => exact[OrderOf(t)]
      BY <3>1 DEF SettleReads, AmountMatches
    <3> QED
      BY <1>1, <3>2 DEF Believed, SettlesConfirmed, SettleReads, Knows, ConfirmedFor
  <2>2. task[t] # Idle /\ Goto(t, "crediting") /\ UNCHANGED <<gateway, exact, sent>>
    BY DEF SettleReads, At, outside
  <2> QED
    BY <1>1, <2>1, <2>2, Goes DEF HandlerPc, ProberPc
<1>3. RowsOK'
  BY <1>1 DEF RowsOK, Status, SettleReads, rows, outside
<1>4. Ledger'
  BY <1>1 DEF RowsOK, Ledger, CreditedWasConfirmed, ConfirmedFor, PaidMeansCredited, CreditedOrderIsPaid, SettleReads, rows, outside
<1> QED
  BY <1>2, <1>3, <1>4, Whole

\* The entry and PAID on both rows come together, for a confirmed payment.
LEMMA StepSettleCredits ==
    ASSUME IInv, NEW t \in Tasks, SettleCredits(t)
    PROVE  IInv'
<1>1. RowsOK /\ Believed /\ Ledger
  BY Parts
<1>2. Believed'
  BY <1>1, Returns DEF SettleCredits, At, outside
<1>3. RowsOK'
  <2>1. OrderOf(t) \in Orders /\ ConfirmedFor(OrderOf(t))
    BY <1>1 DEF Believed, SettlesConfirmed, SettleCredits
  <2> QED
    BY <1>1, <2>1 DEF RowsOK, Status, SettleCredits, Paid, outside
<1>4. Ledger'
  <2>1. OrderOf(t) \in Orders /\ ConfirmedFor(OrderOf(t))
    BY <1>1 DEF Believed, SettlesConfirmed, SettleCredits
  <2> QED
    BY <1>1, <2>1 DEF RowsOK, Ledger, CreditedWasConfirmed, ConfirmedFor, PaidMeansCredited, CreditedOrderIsPaid, SettleCredits, Paid, outside
<1> QED
  BY <1>2, <1>3, <1>4, Whole

\* PAID is written again for an order that is credited.
LEMMA StepSettleReplays ==
    ASSUME IInv, NEW t \in Tasks, SettleReplays(t)
    PROVE  IInv'
<1>1. RowsOK /\ Believed /\ Ledger
  BY Parts
<1>2. Believed'
  BY <1>1, Returns DEF SettleReplays, At, outside
<1>3. RowsOK'
  <2>1. OrderOf(t) \in Orders /\ ConfirmedFor(OrderOf(t))
    BY <1>1 DEF Believed, SettlesConfirmed, SettleReplays
  <2> QED
    BY <1>1, <2>1 DEF RowsOK, Status, SettleReplays, Paid, outside
<1>4. Ledger'
  <2>1. OrderOf(t) \in Orders /\ ConfirmedFor(OrderOf(t))
    BY <1>1 DEF Believed, SettlesConfirmed, SettleReplays
  <2> QED
    BY <1>1, <2>1 DEF RowsOK, Ledger, CreditedWasConfirmed, ConfirmedFor, PaidMeansCredited, CreditedOrderIsPaid, SettleReplays, Paid, outside
<1> QED
  BY <1>2, <1>3, <1>4, Whole

\* A failed transaction writes nothing.
LEMMA StepSettleBreaks ==
    ASSUME IInv, NEW t \in Tasks, SettleBreaks(t)
    PROVE  IInv'
<1>1. RowsOK /\ Believed /\ Ledger
  BY Parts
<1>2. Believed'
  BY <1>1, Returns DEF SettleBreaks, At, outside
<1>3. RowsOK'
  BY <1>1 DEF RowsOK, Status, SettleBreaks, rows, outside
<1>4. Ledger'
  BY <1>1 DEF RowsOK, Ledger, CreditedWasConfirmed, ConfirmedFor, PaidMeansCredited, CreditedOrderIsPaid, SettleBreaks, rows, outside
<1> QED
  BY <1>2, <1>3, <1>4, Whole

\* A crash loses the task and no row.
LEMMA StepCrash ==
    ASSUME IInv, NEW t \in Tasks, Crash(t)
    PROVE  IInv'
<1>1. RowsOK /\ Believed /\ Ledger
  BY Parts
<1>2. Believed'
  BY <1>1, Stops DEF Crash, outside
<1>3. RowsOK'
  BY <1>1 DEF RowsOK, Status, Crash, rows, outside
<1>4. Ledger'
  BY <1>1 DEF RowsOK, Ledger, CreditedWasConfirmed, ConfirmedFor, PaidMeansCredited, CreditedOrderIsPaid, Crash, rows, outside
<1> QED
  BY <1>2, <1>3, <1>4, Whole

(***************************************************************************)
(* handleCallback.                                                         *)
(***************************************************************************)

\* A handler stands for an event that was sent.
LEMMA StepReceive ==
    ASSUME IInv, NEW h \in Handlers, NEW e \in Event, Receive(h, e)
    PROVE  IInv'
<1>1. RowsOK /\ Believed /\ Ledger
  BY Parts
<1> DEFINE x == [pc |-> "received", event |-> e, payment |-> payment[e.order],
                 order |-> "none", known |-> callback[e] = "open"]
<1>2. Believed'
  <2>1. e.order \in Orders /\ payment[e.order] \in Status
    BY <1>1 DEF RowsOK, Event
  <2>2. (callback[e] = "open") \in BOOLEAN
    OBVIOUS
  <2>3. x \in Handling
    BY <2>1, <2>2 DEF Handling, Status
  <2>4. x.event \in sent /\ Knows(h, x.pc, x.event.order)
    BY DEF Receive, Knows
  <2>5. task' = [task EXCEPT ![h] = x] /\ UNCHANGED <<gateway, exact, sent>>
    BY DEF Receive, outside
  <2> HIDE DEF x
  <2> QED
    BY <1>1, <2>3, <2>4, <2>5, HandlerMoves
<1>3. RowsOK'
  BY <1>1 DEF RowsOK, Status, Receive, rows, outside
<1>4. Ledger'
  BY <1>1 DEF RowsOK, Ledger, CreditedWasConfirmed, ConfirmedFor, PaidMeansCredited, CreditedOrderIsPaid, Receive, rows, outside
<1> QED
  BY <1>2, <1>3, <1>4, Whole

\* The row of the event is recorded, the order is read.
LEMMA StepResolve ==
    ASSUME IInv, NEW h \in Handlers, Resolve(h)
    PROVE  IInv'
<1>1. RowsOK /\ Believed /\ Ledger
  BY Parts
<1> DEFINE x == [task[h] EXCEPT !.pc = "resolved", !.order = order[task[h].event.order]]
<1>a. task[h] \in Handling /\ task[h].event \in sent
  BY <1>1 DEF Resolve, At, Believed, TasksOK, HandledWasSent
<1>b. UNCHANGED <<gateway, exact, sent>>
  BY DEF Resolve, outside
<1>2. Believed'
  <2>1. CASE task' = [task EXCEPT ![h] = Idle]
    BY <1>1, <1>b, <2>1, Stops DEF Tasks
  <2>2. CASE task' = [task EXCEPT ![h] = x]
    <3>1. order[task[h].event.order] \in Status
      BY <1>1, <1>a DEF RowsOK, Handling, Event
    <3>2. x \in Handling /\ x.event = task[h].event /\ x.pc = "resolved"
      BY <1>a, <3>1 DEF Handling
    <3>3. Knows(h, x.pc, x.event.order)
      BY <3>2 DEF Knows
    <3> HIDE DEF x
    <3> QED
      BY <1>1, <1>a, <1>b, <2>2, <3>2, <3>3, HandlerMoves
  <2> QED
    BY <2>1, <2>2 DEF Resolve
<1>3. RowsOK'
  BY <1>1 DEF RowsOK, Status, Resolve, outside
<1>4. Ledger'
  BY <1>1 DEF RowsOK, Ledger, CreditedWasConfirmed, ConfirmedFor, PaidMeansCredited, CreditedOrderIsPaid, Resolve, outside
<1> QED
  BY <1>2, <1>3, <1>4, Whole

\* Nothing is written.
LEMMA StepNothingToDo ==
    ASSUME IInv, NEW h \in Handlers, NothingToDo(h)
    PROVE  IInv'
<1>1. RowsOK /\ Believed /\ Ledger
  BY Parts
<1>a. task[h] \in Handling /\ task[h].event \in sent /\ task[h].event \in Event /\ task[h].event.order \in Orders
  BY <1>1 DEF NothingToDo, Payable, At, Believed, TasksOK, HandledWasSent, Handling, Event
<1>2. Believed'
  <2>1. Knows(h, "handling", OrderOf(h))
    BY <1>1, <1>a DEF Knows
  <2>2. h \in Tasks /\ h \notin Probers /\ task[h] # Idle /\ Goto(h, "handling") /\ UNCHANGED <<gateway, exact, sent>>
    BY ConstantsAssumption DEF NothingToDo, Payable, At, Tasks, outside
  <2> QED
    BY <1>1, <2>1, <2>2, Goes DEF HandlerPc
<1>3. RowsOK'
  BY <1>1 DEF RowsOK, Status, NothingToDo, rows, outside
<1>4. Ledger'
  BY <1>1 DEF RowsOK, Ledger, CreditedWasConfirmed, ConfirmedFor, PaidMeansCredited, CreditedOrderIsPaid, NothingToDo, rows, outside
<1> QED
  BY <1>2, <1>3, <1>4, Whole

\* Unless declined attempts may still be paid, a declined order is uncredited.
LEMMA StepDecline ==
    ASSUME IInv, NEW h \in Handlers, Decline(h)
    PROVE  IInv'
<1>1. RowsOK /\ Believed /\ Ledger
  BY Parts
<1>a. task[h] \in Handling /\ task[h].event \in sent /\ task[h].event \in Event /\ task[h].event.order \in Orders
  BY <1>1 DEF Decline, Payable, At, Believed, TasksOK, HandledWasSent, Handling, Event
<1>2. Believed'
  <2>1. Knows(h, "handling", OrderOf(h))
    BY <1>1, <1>a DEF Knows
  <2>2. h \in Tasks /\ h \notin Probers /\ task[h] # Idle /\ Goto(h, "handling") /\ UNCHANGED <<gateway, exact, sent>>
    BY ConstantsAssumption DEF Decline, Payable, At, Tasks, outside
  <2> QED
    BY <1>1, <2>1, <2>2, Goes DEF HandlerPc
<1>3. RowsOK'
  BY <1>1, <1>a DEF RowsOK, Status, Decline, outside
<1>4. Ledger'
  <2>1. ~RetryAfterDecline => credits[task[h].event.order] = 0
    BY <1>1, <1>a DEF Believed, SentIsTrue, RowsOK, Ledger, CreditedWasConfirmed, ConfirmedFor, Decline
  <2> QED
    BY <1>1, <1>a, <2>1 DEF RowsOK, Ledger, CreditedWasConfirmed, ConfirmedFor, PaidMeansCredited, CreditedOrderIsPaid, Decline, outside
<1> QED
  BY <1>2, <1>3, <1>4, Whole

\* An attempt paid with another amount is uncredited, unless answers may say none.
LEMMA StepMismatchAttempt ==
    ASSUME IInv, NEW h \in Handlers, MismatchAttempt(h)
    PROVE  IInv'
<1>1. RowsOK /\ Believed /\ Ledger
  BY Parts
<1>a. task[h] \in Handling /\ task[h].event \in sent /\ task[h].event \in Event /\ task[h].event.order \in Orders
  BY <1>1 DEF MismatchAttempt, Payable, At, Believed, TasksOK, HandledWasSent, Handling, Event
<1>2. Believed'
  <2>1. Knows(h, "mismatch", OrderOf(h))
    BY <1>1, <1>a DEF Knows, MismatchAttempt, OrderOf, Believed, SentIsTrue
  <2>2. h \in Tasks /\ h \notin Probers /\ task[h] # Idle /\ Goto(h, "mismatch") /\ UNCHANGED <<gateway, exact, sent>>
    BY ConstantsAssumption DEF MismatchAttempt, Payable, At, Tasks, outside
  <2> QED
    BY <1>1, <2>1, <2>2, Goes DEF HandlerPc
<1>3. RowsOK'
  BY <1>1, <1>a DEF RowsOK, Status, MismatchAttempt, outside
<1>4. Ledger'
  <2>1. AlwaysTells => credits[task[h].event.order] = 0
    BY <1>1, <1>a DEF RowsOK, Ledger, CreditedWasConfirmed, ConfirmedFor, MismatchAttempt
  <2> QED
    BY <1>1, <1>a, <2>1 DEF RowsOK, Ledger, CreditedWasConfirmed, ConfirmedFor, PaidMeansCredited, CreditedOrderIsPaid, MismatchAttempt, outside
<1> QED
  BY <1>2, <1>3, <1>4, Whole

\* Its order fails next, uncredited too.
LEMMA StepMismatchOrder ==
    ASSUME IInv, NEW h \in Handlers, MismatchOrder(h)
    PROVE  IInv'
<1>1. RowsOK /\ Believed /\ Ledger
  BY Parts
<1>a. task[h] \in Handling /\ task[h].event \in sent /\ task[h].event \in Event /\ task[h].event.order \in Orders
  BY <1>1 DEF MismatchOrder, Payable, At, Believed, TasksOK, HandledWasSent, Handling, Event
<1>2. Believed'
  <2>1. Knows(h, "handling", OrderOf(h))
    BY <1>1, <1>a DEF Knows
  <2>2. h \in Tasks /\ h \notin Probers /\ task[h] # Idle /\ Goto(h, "handling") /\ UNCHANGED <<gateway, exact, sent>>
    BY ConstantsAssumption DEF MismatchOrder, Payable, At, Tasks, outside
  <2> QED
    BY <1>1, <2>1, <2>2, Goes DEF HandlerPc
<1>3. RowsOK'
  BY <1>1, <1>a DEF RowsOK, Status, MismatchOrder, outside
<1>4. Ledger'
  <2>1. ~exact[task[h].event.order]
    BY <1>1 DEF Believed, SettlesConfirmed, Tasks, MismatchOrder, OrderOf
  <2>2. AlwaysTells => credits[task[h].event.order] = 0
    BY <1>1, <1>a, <2>1 DEF RowsOK, Ledger, CreditedWasConfirmed, ConfirmedFor
  <2> QED
    BY <1>1, <1>a, <2>2 DEF RowsOK, Ledger, CreditedWasConfirmed, ConfirmedFor, PaidMeansCredited, CreditedOrderIsPaid, MismatchOrder, outside
<1> QED
  BY <1>2, <1>3, <1>4, Whole

\* Only a payment the gateway confirmed goes to settle.
LEMMA StepAccept ==
    ASSUME IInv, NEW h \in Handlers, Accept(h)
    PROVE  IInv'
<1>1. RowsOK /\ Believed /\ Ledger
  BY Parts
<1>a. task[h] \in Handling /\ task[h].event \in sent /\ task[h].event \in Event /\ task[h].event.order \in Orders
  BY <1>1 DEF Accept, Payable, At, Believed, TasksOK, HandledWasSent, Handling, Event
<1>2. Believed'
  <2>1. Knows(h, "settling", OrderOf(h))
    BY <1>1, <1>a DEF Knows, Accept, OrderOf, Believed, SentIsTrue
  <2>2. h \in Tasks /\ h \notin Probers /\ task[h] # Idle /\ Goto(h, "settling") /\ UNCHANGED <<gateway, exact, sent>>
    BY ConstantsAssumption DEF Accept, Payable, At, Tasks, outside
  <2> QED
    BY <1>1, <2>1, <2>2, Goes DEF HandlerPc
<1>3. RowsOK'
  BY <1>1 DEF RowsOK, Status, Accept, rows, outside
<1>4. Ledger'
  BY <1>1 DEF RowsOK, Ledger, CreditedWasConfirmed, ConfirmedFor, PaidMeansCredited, CreditedOrderIsPaid, Accept, rows, outside
<1> QED
  BY <1>2, <1>3, <1>4, Whole

\* The delivery is answered.
LEMMA StepMarkHandled ==
    ASSUME IInv, NEW h \in Handlers, MarkHandled(h)
    PROVE  IInv'
<1>1. RowsOK /\ Believed /\ Ledger
  BY Parts
<1>2. Believed'
  BY <1>1, Stops DEF MarkHandled, Tasks, outside
<1>3. RowsOK'
  BY <1>1 DEF RowsOK, Status, MarkHandled, outside
<1>4. Ledger'
  BY <1>1 DEF RowsOK, Ledger, CreditedWasConfirmed, ConfirmedFor, PaidMeansCredited, CreditedOrderIsPaid, MarkHandled, outside
<1> QED
  BY <1>2, <1>3, <1>4, Whole

(***************************************************************************)
(* The two sweeps.                                                         *)
(***************************************************************************)

\* What the query finds is a set of orders.
LEMMA ProbeTaskType ==
    ASSUME NEW B \in Oldest, NEW asked \in SUBSET Orders
    PROVE  /\ ProbeTask(B, asked) \in Probing
           /\ \A p : Knows(p, ProbeTask(B, asked).pc, ProbeTask(B, asked).order)
<1>1. B \in SUBSET Orders
  BY DEF Oldest, Silent
<1>2. (Cardinality(B) >= Batch) \in BOOLEAN
  BY <1>1, ConstantsAssumption, FS_Subset, FS_CardinalityType
<1>3. ProbeTask(B, asked) \in Probing
  BY <1>1, <1>2 DEF ProbeTask, Probing, Answers
<1>4. \A p : Knows(p, ProbeTask(B, asked).pc, ProbeTask(B, asked).order)
  BY DEF ProbeTask, Knows
<1> QED
  BY <1>3, <1>4

\* A run begins.
LEMMA StepProbeStart ==
    ASSUME IInv, NEW p \in Probers, ProbeStart(p)
    PROVE  IInv'
<1>1. RowsOK /\ Believed /\ Ledger
  BY Parts
<1>2. Believed'
  <2>1. PICK B \in Oldest : task' = [task EXCEPT ![p] = ProbeTask(B, {})]
    BY DEF ProbeStart
  <2>2. UNCHANGED <<gateway, exact, sent>>
    BY DEF ProbeStart, outside
  <2> QED
    BY <1>1, <2>1, <2>2, ProbeTaskType, ProberMoves
<1>3. RowsOK'
  BY <1>1 DEF RowsOK, Status, ProbeStart, rows, outside
<1>4. Ledger'
  BY <1>1 DEF RowsOK, Ledger, CreditedWasConfirmed, ConfirmedFor, PaidMeansCredited, CreditedOrderIsPaid, ProbeStart, rows, outside
<1> QED
  BY <1>2, <1>3, <1>4, Whole

\* The gateway confirmed the payment the run asks settle to credit.
LEMMA StepProbePaid ==
    ASSUME IInv, NEW p \in Probers, NEW o \in Orders, ProbePaid(p, o)
    PROVE  IInv'
<1>1. RowsOK /\ Believed /\ Ledger
  BY Parts
<1>2. Believed'
  <2> PICK told \in Answers :
         task' = [task EXCEPT ![p] = [task[p] EXCEPT !.pc = "settling", !.order = o, !.told = told,
                                                     !.due = task[p].due \ {o}]]
    BY DEF ProbePaid
  <2> DEFINE x == [task[p] EXCEPT !.pc = "settling", !.order = o, !.told = told, !.due = task[p].due \ {o}]
  <2>1. task[p] \in Probing
    BY <1>1 DEF ProbePaid, At, Believed, TasksOK
  <2>2. x \in Probing /\ x.pc = "settling" /\ x.order = o
    BY <2>1 DEF Probing
  <2>3. Knows(p, x.pc, x.order)
    BY <2>2, ConstantsAssumption DEF Knows, ProbePaid
  <2>4. task' = [task EXCEPT ![p] = x] /\ UNCHANGED <<gateway, exact, sent>>
    BY DEF ProbePaid, outside
  <2> HIDE DEF x
  <2> QED
    BY <1>1, <2>2, <2>3, <2>4, ProberMoves
<1>3. RowsOK'
  BY <1>1 DEF RowsOK, Status, ProbePaid, rows, outside
<1>4. Ledger'
  BY <1>1 DEF RowsOK, Ledger, CreditedWasConfirmed, ConfirmedFor, PaidMeansCredited, CreditedOrderIsPaid, ProbePaid, rows, outside
<1> QED
  BY <1>2, <1>3, <1>4, Whole

\* An uncertain attempt is left alone.
LEMMA StepProbeUnknown ==
    ASSUME IInv, NEW p \in Probers, NEW o \in Orders, ProbeUnknown(p, o)
    PROVE  IInv'
<1>1. RowsOK /\ Believed /\ Ledger
  BY Parts
<1> DEFINE x == [task[p] EXCEPT !.due = task[p].due \ {o}, !.asked = task[p].asked \cup {o}]
<1>2. Believed'
  <2>1. task[p] \in Probing /\ task[p].pc = "probing"
    BY <1>1 DEF ProbeUnknown, At, Believed, TasksOK
  <2>2. x \in Probing /\ x.pc = "probing"
    BY <2>1 DEF Probing
  <2>3. Knows(p, x.pc, x.order)
    BY <2>2 DEF Knows
  <2>4. task' = [task EXCEPT ![p] = x] /\ UNCHANGED <<gateway, exact, sent>>
    BY DEF ProbeUnknown, outside
  <2> HIDE DEF x
  <2> QED
    BY <1>1, <2>2, <2>3, <2>4, ProberMoves
<1>3. RowsOK'
  BY <1>1, ConstantsAssumption DEF RowsOK, Status, ProbeUnknown, rows, outside
<1>4. Ledger'
  BY <1>1 DEF RowsOK, Ledger, CreditedWasConfirmed, ConfirmedFor, PaidMeansCredited, CreditedOrderIsPaid, ProbeUnknown, rows, outside
<1> QED
  BY <1>2, <1>3, <1>4, Whole

\* A run goes on or ends.
LEMMA StepProbeEnd ==
    ASSUME IInv, NEW p \in Probers, ProbeEnd(p)
    PROVE  IInv'
<1>1. RowsOK /\ Believed /\ Ledger
  BY Parts
<1>2. Believed'
  <2>1. task[p] \in Probing /\ task[p].asked \in SUBSET Orders
    BY <1>1 DEF ProbeEnd, At, Believed, TasksOK, Probing
  <2>2. PICK B \in Oldest :
           task' = [task EXCEPT ![p] =
                       IF task[p].full /\ B # {} THEN ProbeTask(B, task[p].asked) ELSE Idle]
    BY DEF ProbeEnd
  <2>3. UNCHANGED <<gateway, exact, sent>>
    BY DEF ProbeEnd, outside
  <2>4. CASE task' = [task EXCEPT ![p] = Idle]
    BY <1>1, <2>3, <2>4, Stops DEF Tasks
  <2>5. CASE task' = [task EXCEPT ![p] = ProbeTask(B, task[p].asked)]
    BY <1>1, <2>1, <2>3, <2>5, ProbeTaskType, ProberMoves
  <2> QED
    BY <2>2, <2>4, <2>5
<1>3. RowsOK'
  BY <1>1 DEF RowsOK, Status, ProbeEnd, rows, outside
<1>4. Ledger'
  BY <1>1 DEF RowsOK, Ledger, CreditedWasConfirmed, ConfirmedFor, PaidMeansCredited, CreditedOrderIsPaid, ProbeEnd, rows, outside
<1> QED
  BY <1>2, <1>3, <1>4, Whole

\* A run of the expiry sweep begins.
LEMMA StepExpireQuery ==
    ASSUME IInv, NEW s \in Sweepers, ExpireQuery(s)
    PROVE  IInv'
<1>1. RowsOK /\ Believed /\ Ledger
  BY Parts
<1>2. Believed'
  BY <1>1 DEF Believed, TasksOK, SentIsTrue, HandledWasSent, SettlesConfirmed, ConfirmedFor, At, OrderOf, ExpireQuery, outside
<1>3. RowsOK'
  BY <1>1 DEF RowsOK, Status, ExpireQuery, rows, outside
<1>4. Ledger'
  BY <1>1 DEF RowsOK, Ledger, CreditedWasConfirmed, ConfirmedFor, PaidMeansCredited, CreditedOrderIsPaid, ExpireQuery, rows, outside
<1> QED
  BY <1>2, <1>3, <1>4, Whole

\* Only PENDING orders expire, so no credited one does.
LEMMA StepExpireOrders ==
    ASSUME IInv, NEW s \in Sweepers, ExpireOrders(s)
    PROVE  IInv'
<1>1. RowsOK /\ Believed /\ Ledger
  BY Parts
<1>2. Believed'
  BY <1>1 DEF Believed, TasksOK, SentIsTrue, HandledWasSent, SettlesConfirmed, ConfirmedFor, At, OrderOf, ExpireOrders, outside
<1>3. RowsOK'
  <2>1. sweep[s] \in [pc : {"orders", "payments"}, stale : SUBSET Orders]
    BY <1>1 DEF RowsOK, ExpireOrders
  <2> QED
    BY <1>1, <2>1 DEF RowsOK, Status, ExpiredIn, ExpireOrders, outside
<1>4. Ledger'
  BY <1>1 DEF RowsOK, Ledger, CreditedWasConfirmed, ConfirmedFor, PaidMeansCredited, CreditedOrderIsPaid, ExpireOrders, ExpiredIn, outside
<1> QED
  BY <1>2, <1>3, <1>4, Whole

\* Only PENDING attempts expire.
LEMMA StepExpirePayments ==
    ASSUME IInv, NEW s \in Sweepers, ExpirePayments(s)
    PROVE  IInv'
<1>1. RowsOK /\ Believed /\ Ledger
  BY Parts
<1>2. Believed'
  BY <1>1 DEF Believed, TasksOK, SentIsTrue, HandledWasSent, SettlesConfirmed, ConfirmedFor, At, OrderOf, ExpirePayments, outside
<1>3. RowsOK'
  BY <1>1 DEF RowsOK, Status, ExpiredIn, ExpirePayments, outside
<1>4. Ledger'
  BY <1>1 DEF RowsOK, Ledger, CreditedWasConfirmed, ConfirmedFor, PaidMeansCredited, CreditedOrderIsPaid, ExpirePayments, ExpiredIn, outside
<1> QED
  BY <1>2, <1>3, <1>4, Whole

\* A sweep dies between its updates.
LEMMA StepExpireCrash ==
    ASSUME IInv, NEW s \in Sweepers, ExpireCrash(s)
    PROVE  IInv'
<1>1. RowsOK /\ Believed /\ Ledger
  BY Parts
<1>2. Believed'
  BY <1>1 DEF Believed, TasksOK, SentIsTrue, HandledWasSent, SettlesConfirmed, ConfirmedFor, At, OrderOf, ExpireCrash, rows, outside
<1>3. RowsOK'
  BY <1>1, ConstantsAssumption DEF RowsOK, Status, ExpireCrash, rows, outside
<1>4. Ledger'
  BY <1>1 DEF RowsOK, Ledger, CreditedWasConfirmed, ConfirmedFor, PaidMeansCredited, CreditedOrderIsPaid, ExpireCrash, rows, outside
<1> QED
  BY <1>2, <1>3, <1>4, Whole

(***************************************************************************)
(* The theorems.                                                           *)
(***************************************************************************)

LEMMA InitIInv == Init => IInv
<1> SUFFICES ASSUME Init PROVE IInv
  OBVIOUS
<1>1. TypeOK
  BY ConstantsAssumption DEF Init, TypeOK, Status, Tasks
<1>2. SentIsTrue /\ HandledWasSent /\ SettlesConfirmed
  BY DEF Init, SentIsTrue, HandledWasSent, SettlesConfirmed, At, Tasks
<1>3. CreditedWasConfirmed /\ PaidMeansCredited /\ CreditedOrderIsPaid
  BY DEF Init, CreditedWasConfirmed, ConfirmedFor, PaidMeansCredited, CreditedOrderIsPaid
<1> QED
  BY <1>1, <1>2, <1>3 DEF IInv

LEMMA StutterIInv == IInv /\ UNCHANGED vars => IInv'
<1> SUFFICES ASSUME IInv, UNCHANGED vars PROVE IInv'
  OBVIOUS
<1>1. RowsOK /\ Believed /\ Ledger
  BY Parts
<1>2. RowsOK'
  BY <1>1 DEF RowsOK, vars
<1>3. Believed'
  BY <1>1 DEF Believed, TasksOK, SentIsTrue, HandledWasSent, SettlesConfirmed, ConfirmedFor, At, OrderOf, vars
<1>4. Ledger'
  BY <1>1 DEF Ledger, CreditedWasConfirmed, ConfirmedFor, PaidMeansCredited, CreditedOrderIsPaid, vars
<1> QED
  BY <1>2, <1>3, <1>4, Whole

\* settle keeps the invariant, whoever calls it.
LEMMA StepSettle == ASSUME IInv, NEW t \in Tasks, Settle(t) PROVE IInv'
  BY StepSettleRefuses, StepSettleMismatch, StepSettleReads, StepSettleCredits, StepSettleReplays DEF Settle

LEMMA StepIInv == IInv /\ [Next]_vars => IInv'
<1> SUFFICES ASSUME IInv, [Next]_vars PROVE IInv'
  OBVIOUS
<1>1. CASE UNCHANGED vars
  BY <1>1, StutterIInv
<1>2. ASSUME NEW o \in Orders, Member(o) \/ GrowOld(o) \/ Gateway(o) PROVE IInv'
  BY <1>2, StepCreate, StepLinkSent, StepLinkRefused, StepGrowOld, StepGatewayPays, StepGatewayDeclines
     DEF Member, Gateway
<1>3. ASSUME NEW h \in Handlers, HandlerStep(h) \/ \E e \in Event : Receive(h, e) PROVE IInv'
  BY <1>3, StepReceive, StepResolve, StepNothingToDo, StepDecline, StepMismatchAttempt,
     StepMismatchOrder, StepAccept, StepSettle, StepMarkHandled DEF HandlerStep, Tasks
<1>4. ASSUME NEW p \in Probers, ProberStep(p) PROVE IInv'
  BY <1>4, StepProbeStart, StepProbeEnd, StepProbePaid, StepProbeUnknown, StepSettle DEF ProberStep, Tasks
<1>5. ASSUME NEW t \in Tasks, SettleBreaks(t) \/ Crash(t) PROVE IInv'
  BY <1>5, StepSettleBreaks, StepCrash
<1>6. ASSUME NEW s \in Sweepers, SweepStep(s) \/ ExpireCrash(s) PROVE IInv'
  BY <1>6, StepExpireQuery, StepExpireOrders, StepExpirePayments, StepExpireCrash DEF SweepStep
<1> QED
  BY <1>1, <1>2, <1>3, <1>4, <1>5, <1>6 DEF Next

\* IInv holds in every state TopUp reaches.
THEOREM Invariance == Spec => []IInv
  BY InitIInv, StepIInv, PTL DEF Spec

\* The types hold in every state, so no order ever has two ledger entries.
THEOREM TypeCorrect == Spec => []TypeOK
<1>1. IInv => TypeOK
  BY DEF IInv
<1> QED
  BY <1>1, Invariance, PTL

\* No order or attempt reads PAID without its Coins, whatever crashes.
THEOREM PaidIsCredited == Spec => []PaidMeansCredited
<1>1. IInv => PaidMeansCredited
  BY DEF IInv
<1> QED
  BY <1>1, Invariance, PTL

\* As long as a declined attempt cannot be paid any more and the gateway says the
\* amount it took, a credited order and its attempt read PAID for good.
THEOREM CreditedIsPaid == ASSUME ~RetryAfterDecline, AlwaysTells PROVE Spec => []CreditedOrderIsPaid
<1>1. IInv => CreditedOrderIsPaid
  BY DEF IInv
<1> QED
  BY <1>1, Invariance, PTL

\* As long as a declined attempt cannot be paid any more and the gateway says the
\* amount it took, rows and ledger never part.
THEOREM PaidExactlyIfCredited == ASSUME ~RetryAfterDecline, AlwaysTells PROVE Spec => []PaidIffCredited
<1>1. IInv => PaidIffCredited
  BY DEF IInv, PaidIffCredited
<1> QED
  BY <1>1, Invariance, PTL

(***************************************************************************)
(* TopUp implements TopUpPromise.                                          *)
(***************************************************************************)

Confirmed == {o \in Orders : ConfirmedFor(o)}

\* The one step that credits does so for a confirmed, uncredited order.
LEMMA CreditRefines ==
    ASSUME IInv, NEW t \in Tasks, SettleCredits(t)
    PROVE  Promise!Next
<1>1. OrderOf(t) \in Orders /\ OrderOf(t) \in Confirmed
  BY DEF IInv, SettlesConfirmed, SettleCredits, Confirmed
<1>2. Promise!Credit(OrderOf(t))
  BY <1>1 DEF SettleCredits, outside, Promise!Credit, Confirmed, ConfirmedFor
<1> QED
  BY <1>1, <1>2 DEF Promise!Next

\* A payment that a credit may rest on confirms its order, any other changes nothing.
LEMMA PayRefines ==
    ASSUME IInv, NEW o \in Orders, NEW same \in BOOLEAN, GatewayPays(o, same)
    PROVE  Promise!Next \/ UNCHANGED <<Confirmed, credits>>
<1>1. gateway \in [Orders -> {"none", "refused", "open", "declined", "paid"}] /\ exact \in [Orders -> BOOLEAN]
  BY DEF IInv, TypeOK
<1>2. o \notin Confirmed /\ UNCHANGED credits
  BY DEF GatewayPays, Confirmed, ConfirmedFor, rows
<1>3. CASE AlwaysTells => same
  <2>1. Confirmed' = Confirmed \cup {o}
    BY <1>1, <1>3 DEF GatewayPays, Confirmed, ConfirmedFor
  <2>2. Promise!Confirm(o)
    BY <1>2, <2>1 DEF Promise!Confirm, Confirmed
  <2> QED
    BY <2>2 DEF Promise!Next
<1>4. CASE ~(AlwaysTells => same)
  BY <1>1, <1>2, <1>4 DEF GatewayPays, Confirmed, ConfirmedFor
<1> QED
  BY <1>3, <1>4

\* The other steps of the member and the gateway confirm and credit nothing.
LEMMA OpenRefines ==
    ASSUME IInv, NEW o \in Orders,
           LinkSent(o) \/ LinkRefused(o) \/ GatewayDeclines(o) \/ Create(o) \/ GrowOld(o)
    PROVE  UNCHANGED <<Confirmed, credits>>
<1>1. gateway \in [Orders -> {"none", "refused", "open", "declined", "paid"}] /\ exact \in [Orders -> BOOLEAN]
  BY DEF IInv, TypeOK
<1> QED
  BY <1>1 DEF LinkSent, LinkRefused, GatewayDeclines, Create, GrowOld, Confirmed, ConfirmedFor, rows, outside

LEMMA SettleRefines ==
    ASSUME IInv, NEW t \in Tasks, Settle(t)
    PROVE  Promise!Next \/ UNCHANGED <<Confirmed, credits>>
<1>1. CASE SettleCredits(t)
  BY <1>1, CreditRefines
<1>2. CASE SettleRefuses(t) \/ SettleMismatch(t) \/ SettleReads(t) \/ SettleReplays(t)
  BY <1>2 DEF SettleRefuses, SettleMismatch, SettleReads, SettleReplays, Confirmed, ConfirmedFor, rows, outside
<1> QED
  BY <1>1, <1>2 DEF Settle

LEMMA NextRefines ==
    ASSUME IInv, [Next]_vars
    PROVE  Promise!Next \/ UNCHANGED <<Confirmed, credits>>
<1>1. CASE UNCHANGED vars
  BY <1>1 DEF vars, Confirmed, ConfirmedFor
<1>2. ASSUME NEW o \in Orders, Member(o) \/ GrowOld(o) \/ Gateway(o)
      PROVE  Promise!Next \/ UNCHANGED <<Confirmed, credits>>
  BY <1>2, PayRefines, OpenRefines DEF Member, Gateway
<1>3. ASSUME NEW h \in Handlers, HandlerStep(h) \/ \E e \in Event : Receive(h, e)
      PROVE  Promise!Next \/ UNCHANGED <<Confirmed, credits>>
  <2>1. CASE Settle(h)
    BY <2>1, SettleRefines DEF Tasks
  <2>2. CASE \/ Resolve(h) \/ NothingToDo(h) \/ Decline(h) \/ MismatchAttempt(h) \/ MismatchOrder(h)
             \/ Accept(h) \/ MarkHandled(h) \/ \E e \in Event : Receive(h, e)
    BY <2>2 DEF Resolve, NothingToDo, Decline, MismatchAttempt, MismatchOrder, Accept, MarkHandled,
       Receive, Confirmed, ConfirmedFor, rows, outside
  <2> QED
    BY <1>3, <2>1, <2>2 DEF HandlerStep
<1>4. ASSUME NEW p \in Probers, ProberStep(p)
      PROVE  Promise!Next \/ UNCHANGED <<Confirmed, credits>>
  <2>1. CASE Settle(p)
    BY <2>1, SettleRefines DEF Tasks
  <2>2. CASE ProbeStart(p) \/ ProbeEnd(p) \/ \E o \in Orders : ProbePaid(p, o) \/ ProbeUnknown(p, o)
    BY <2>2 DEF ProbeStart, ProbeEnd, ProbePaid, ProbeUnknown, Confirmed, ConfirmedFor, rows, outside
  <2> QED
    BY <1>4, <2>1, <2>2 DEF ProberStep
<1>5. ASSUME NEW t \in Tasks, SettleBreaks(t) \/ Crash(t)
      PROVE  UNCHANGED <<Confirmed, credits>>
  BY <1>5 DEF SettleBreaks, Crash, Confirmed, ConfirmedFor, rows, outside
<1>6. ASSUME NEW s \in Sweepers, SweepStep(s) \/ ExpireCrash(s)
      PROVE  UNCHANGED <<Confirmed, credits>>
  BY <1>6 DEF SweepStep, ExpireQuery, ExpireOrders, ExpirePayments, ExpireCrash, Confirmed, ConfirmedFor, rows, outside
<1> QED
  BY <1>1, <1>2, <1>3, <1>4, <1>5, <1>6 DEF Next

\* TopUp keeps the promise: at most one credit per order, and only for a payment the
\* gateway took, of the order's exact amount if the gateway always says the amount.
THEOREM KeepsPromise == Spec => Promised
<1>1. Init => Promise!Init
  BY DEF Init, Promise!Init, ConfirmedFor
<1>2. IInv /\ [Next]_vars => [Promise!Next]_<<Confirmed, credits>>
  BY NextRefines
<1> QED
  BY <1>1, <1>2, Invariance, PTL DEF Spec, Promised, Promise!Spec, Confirmed
=============================================================================
