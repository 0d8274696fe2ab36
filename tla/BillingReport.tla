----------------------------- MODULE BillingReport -----------------------------
(***************************************************************************)
(* The reports of the Admin on memberships: revenue with its chart, and    *)
(* churn.  A report is a few queries, each of which sees what is committed *)
(* at its own moment, while plans are paid, missed and ended.              *)
(*                                                                         *)
(* A payment writes the time of its cycle before it commits.  What stops   *)
(* two payments of one plan is in Subscription; here a plan is paid once   *)
(* at a time.                                                              *)
(***************************************************************************)
EXTENDS Integers, FiniteSets, Functions

CONSTANTS
    Subs,
    PlanOf,       \* the plan of a subscription
    Splits,       \* the main and bonus Coins a cycle may take
    Idle,
    MaxCycles,    \* bound: cycles in all
    MaxTime       \* bound: the clock, in days

VARIABLES
    subs,         \* subscriptions
    cycles,       \* subscription_cycles
    writing,      \* the cycle a transaction has written and not committed
    now,
    report        \* the report that is being read

vars == <<subs, cycles, writing, now, report>>

Never == -1
Absent == [status |-> "none", startedAt |-> Never, endedAt |-> Never, reason |-> "none"]

Init ==
    /\ subs = [s \in Subs |-> Absent]
    /\ cycles = {}
    /\ writing = [s \in Subs |-> Idle]
    /\ now = 0
    /\ report = Idle

-----------------------------------------------------------------------------
(* The history.                                                             *)

CyclesOf(s) == {c \in cycles : c.sub = s}
Number(s) == Cardinality(CyclesOf(s)) + 1

\* subscribe: the row starts as an intent.
Subscribe(s) ==
    /\ subs[s] = Absent
    /\ subs' = [subs EXCEPT ![s] = [Absent EXCEPT !.status = "PENDING", !.startedAt = now]]
    /\ UNCHANGED <<cycles, writing, now, report>>

\* activate or renew read a row that may have been cancelled since.
Chargeable(s) ==
    /\ writing[s] = Idle /\ Cardinality(cycles) < MaxCycles
    /\ subs[s].status \in {"PENDING", "ACTIVE", "CANCELLED"}

Write(s, cycle) ==
    /\ Chargeable(s)
    /\ writing' = [writing EXCEPT ![s] = cycle]
    /\ UNCHANGED <<subs, cycles, now, report>>

Pay(s, split) ==
    Write(s, [sub |-> s, number |-> Number(s), status |-> "PAID", at |-> now,
              main |-> split.main, bonus |-> split.bonus])

MarkPastDue(s) ==
    /\ subs[s].status = "ACTIVE"
    /\ Write(s, [sub |-> s, number |-> Number(s), status |-> "FAILED", at |-> now, main |-> 0, bonus |-> 0])

Commit(s) ==
    /\ writing[s] # Idle
    /\ cycles' = cycles \cup {writing[s]}
    /\ subs' = [subs EXCEPT ![s].status = IF writing[s].status = "PAID" THEN "ACTIVE" ELSE "PAST_DUE"]
    /\ writing' = [writing EXCEPT ![s] = Idle]
    /\ UNCHANGED <<now, report>>

End(s, status, reason) ==
    /\ writing[s] = Idle
    /\ subs' = [subs EXCEPT ![s].status = status, ![s].reason = reason, ![s].endedAt = now]
    /\ UNCHANGED <<cycles, writing, now, report>>

Expire(s) == subs[s].status = "PAST_DUE" /\ End(s, "EXPIRED", "PAYMENT_FAILED")
CancelByAdmin(s) == subs[s].status # "none" /\ End(s, "CANCELLED", "CANCELLED_BY_ADMIN")

Tick ==
    /\ now < MaxTime /\ now' = now + 1
    /\ UNCHANGED <<subs, cycles, writing, report>>

-----------------------------------------------------------------------------
(* The figures of a set of cycles, split by what a report groups them by.   *)

Figures(S) ==
    [cycles |-> Cardinality(S),
     main |-> SumFunctionOnSet([c \in S |-> c.main], S),
     bonus |-> SumFunctionOnSet([c \in S |-> c.bonus], S)]

In(at, range) == range.from <= at /\ at <= range.to
PaidIn(range) == {c \in cycles : c.status = "PAID" /\ In(c.at, range)}

PlanOfCycle(S) == [c \in S |-> PlanOf[c.sub]]
DayOfCycle(S) == [c \in S |-> c.at]

\* Mutant: a row of the map is opened again by every cycle.
OneOfEach(key) ==
    [k \in Range(key) |-> Figures({CHOOSE c \in DOMAIN key : key[c] = k})]

\* One row for each key of the cycles.
GroupedBy(key) == [k \in Range(key) |-> Figures({c \in DOMAIN key : key[c] = k})]

Revenue(range) == [totals |-> Figures(PaidIn(range)), byPlan |-> GroupedBy(PlanOfCycle(PaidIn(range)))]
RevenueByDay(range) == GroupedBy(DayOfCycle(PaidIn(range)))

Ended(range, reason) == {s \in Subs : subs[s].reason = reason /\ In(subs[s].endedAt, range)}

\* Mutant: a member is lost with the first renewal that fails.
LostAtOnce(range) ==
    [unpaid |-> Ended(range, "PAYMENT_FAILED")
        \cup {c.sub : c \in {d \in cycles : d.status = "FAILED" /\ In(d.at, range)}},
     cancelled |-> Ended(range, "CANCELLED_BY_ADMIN"), going |-> <<>>, running |-> {}]

\* One look at the history; a report of churn takes each figure from a look of its own,
\* but for the three that say how it goes, which no other figure is compared with.
Churn(range) ==
    [unpaid |-> Ended(range, "PAYMENT_FAILED"),
     cancelled |-> Ended(range, "CANCELLED_BY_ADMIN"),
     going |-> [started |-> {s \in Subs : In(subs[s].startedAt, range)},
                renewed |-> Cardinality({c \in PaidIn(range) : c.number > 1}),
                failed |-> Cardinality({c \in cycles : c.status = "FAILED" /\ In(c.at, range)})],
     running |-> {s \in Subs : subs[s].status = "ACTIVE"}]

\* The cards of the dashboard: the whole window, with what is overdue among the running.
Overview ==
    [totals |-> Figures(PaidIn([from |-> 0, to |-> now])),
     active |-> {s \in Subs : subs[s].status \in {"ACTIVE", "PAST_DUE"}}]

-----------------------------------------------------------------------------
(* A report; the next one is like the first, with a longer history.         *)

\* Both bounds are included; the one that is left out is now.
RangeOf(from, to) == [from |-> from, to |-> IF to > now THEN now ELSE to]

Ask(kind, from, to) ==
    /\ report = Idle
    /\ report' = [kind |-> kind, range |-> RangeOf(from, to), before |-> IF kind = "revenue" THEN cycles ELSE {},
                  seen |-> [part \in {} |-> Idle]]
    /\ UNCHANGED <<subs, cycles, writing, now>>

Unread(part) == report # Idle /\ part \notin DOMAIN report.seen

Reads(part, figures) ==
    /\ Unread(part)
    /\ report' = [report EXCEPT !.seen =
          [p \in DOMAIN report.seen \cup {part} |-> IF p = part THEN figures ELSE report.seen[p]]]
    /\ UNCHANGED <<subs, cycles, writing, now>>

Asked(kind) == report # Idle /\ report.kind = kind

ReadRevenue == Asked("revenue") /\ Reads("revenue", Revenue(report.range))
ReadByDay == Asked("revenue") /\ Reads("byDay", RevenueByDay(report.range))
ReadOverview == Asked("overview") /\ Reads("overview", Overview)

Counts == {"unpaid", "cancelled", "going"}

\* The counts come in any order, and what is running after them.
ReadChurn(part) ==
    /\ Asked("churn")
    /\ part = "running" => Counts \subseteq DOMAIN report.seen
    /\ Reads(part, Churn(report.range)[part])

Parts == CASE report.kind = "revenue" -> {"revenue", "byDay"}
           [] report.kind = "overview" -> {"overview"}
           [] OTHER -> Counts \cup {"running"}

Answered == report # Idle /\ DOMAIN report.seen = Parts

Next ==
    \/ \E s \in Subs :
          \/ Subscribe(s) \/ MarkPastDue(s) \/ Commit(s) \/ Expire(s) \/ CancelByAdmin(s)
          \/ \E split \in Splits : Pay(s, split)
    \/ \E kind \in {"revenue", "churn", "overview"}, from, to \in 0..MaxTime : from <= to /\ Ask(kind, from, to)
    \/ ReadRevenue \/ ReadByDay \/ ReadOverview \/ \E part \in Counts \cup {"running"} : ReadChurn(part)
    \/ Tick

Spec == Init /\ [][Next]_vars

-----------------------------------------------------------------------------
Total(rows) ==
    [cycles |-> SumFunctionOnSet([k \in DOMAIN rows |-> rows[k].cycles], DOMAIN rows),
     main |-> SumFunctionOnSet([k \in DOMAIN rows |-> rows[k].main], DOMAIN rows),
     bonus |-> SumFunctionOnSet([k \in DOMAIN rows |-> rows[k].bonus], DOMAIN rows)]

Within(low, figures, high) ==
    \A f \in {"cycles", "main", "bonus"} : low[f] <= figures[f] /\ figures[f] <= high[f]

(* "revenue and churn are two views of the same cycles": the rows of the    *)
(* plans add up to the totals, and whatever is paid while a report is read, *)
(* the totals and the chart each count every cycle that was there when it   *)
(* was asked for once, and none that is not paid.                           *)
RevenueAddsUp == Asked("revenue") =>
    LET before == Figures({c \in report.before : c \in PaidIn(report.range)})
        after == Figures(PaidIn(report.range))
    IN  /\ "revenue" \in DOMAIN report.seen =>
              /\ Total(report.seen["revenue"].byPlan) = report.seen["revenue"].totals
              /\ Within(before, report.seen["revenue"].totals, after)
        /\ "byDay" \in DOMAIN report.seen => Within(before, Total(report.seen["byDay"]), after)

(* "A member whose renewal failed is counted as churn only once the plan    *)
(* really ends."                                                            *)
FailedIsNotChurn == Asked("churn") =>
    \A part \in {"unpaid", "cancelled"} \cap DOMAIN report.seen :
        \A s \in report.seen[part] : subs[s].endedAt # Never

(* "how many plans started": an intent counts as started from the moment it *)
(* is quoted, and goes on counting when it is never paid for.               *)
StartedWasPaid == Asked("churn") /\ "going" \in DOMAIN report.seen =>
    \A s \in report.seen["going"].started : \E c \in cycles : c.sub = s /\ c.status = "PAID"

(* One plan is lost once: the Admin cancels a plan the sweep just ended,    *)
(* and it is counted under both reasons, each read at its own moment.       *)
LostOnce == Answered /\ Asked("churn") =>
    report.seen["unpaid"] \cap report.seen["cancelled"] = {}

(* "activePlans": what ended is not running; a payment that was under way   *)
(* when the plan was cancelled makes it ACTIVE again with its end in place. *)
EndedIsNotRunning == Answered /\ Asked("churn") =>
    report.seen["running"] \cap (report.seen["unpaid"] \cup report.seen["cancelled"]) = {}

(* The figures of a report are those of the payments and of the plans that  *)
(* ended.                                                                   *)
FiguresAreTrue == RevenueAddsUp /\ FailedIsNotChurn

-----------------------------------------------------------------------------
(* What the proofs add to the properties.                                   *)

Cycle == [sub : Subs, number : Nat, status : {"PAID", "FAILED"}, at : Nat, main : Nat, bonus : Nat]

Subscription == [status : {"none", "PENDING", "ACTIVE", "PAST_DUE", "EXPIRED", "CANCELLED"},
                 startedAt : Int, endedAt : Int,
                 reason : {"none", "PAYMENT_FAILED", "CANCELLED_BY_ADMIN"}]

TypeOK ==
    /\ now \in Nat
    /\ subs \in [Subs -> Subscription]
    /\ cycles \subseteq Cycle /\ IsFiniteSet(cycles)
    /\ writing \in [Subs -> {Idle} \cup Cycle]
    /\ report # Idle => report = [kind |-> report.kind, range |-> report.range,
                                  before |-> report.before, seen |-> report.seen]

PaidOf(S, range) == {c \in S : c.status = "PAID" /\ In(c.at, range)}

\* The cycles there were at some moment since the report was asked for.
Moments == {S \in SUBSET cycles : report.before \subseteq S}

\* What a report of revenue shows is what there was at such a moment.
AsOfAMoment == Asked("revenue") =>
    /\ report.before \subseteq cycles
    /\ "revenue" \in DOMAIN report.seen => \E S \in Moments :
          report.seen["revenue"] = [totals |-> Figures(PaidOf(S, report.range)),
                                    byPlan |-> GroupedBy(PlanOfCycle(PaidOf(S, report.range)))]
    /\ "byDay" \in DOMAIN report.seen => \E S \in Moments :
          report.seen["byDay"] = GroupedBy(DayOfCycle(PaidOf(S, report.range)))

\* Who is counted as gone is a subscription there is.
GoneAreSubs == Asked("churn") =>
    \A part \in {"unpaid", "cancelled"} \cap DOMAIN report.seen : report.seen[part] \subseteq Subs

\* Who has a reason to be gone has an end.
GoneHasEnd == \A s \in Subs : subs[s].reason # "none" => subs[s].endedAt # Never

IInv == TypeOK /\ AsOfAMoment /\ GoneAreSubs /\ GoneHasEnd /\ FailedIsNotChurn
=============================================================================
