----------------------------- MODULE Subscription -----------------------------
(***************************************************************************)
(* Memberships: a member quotes a plan (subscribe), pays for the first     *)
(* period (activate), stops and resumes auto-renew; the renewal sweep      *)
(* charges what is due and ends what stayed unpaid; the Admin cancels.     *)
(*                                                                         *)
(* A request that reads a row and writes it later is two steps, inside a   *)
(* transaction or not: nothing locks a subscription row.  What stops two   *)
(* of them is the idempotency key of the ledger, the unique (subscription, *)
(* cycle number), the unique ledger entry of a cycle, and the rollback of  *)
(* the transaction that meets one.  The wallet is a purse (CoinWallet has  *)
(* the rest); the plan has one price.                                      *)
(***************************************************************************)
EXTENDS Integers, Sequences, FiniteSets

CONSTANTS
    Subs, Members,
    Owner,        \* the member of a subscription
    Requests,     \* member requests served at once
    Sweepers,     \* runs of subscription-renewal.sweep
    Keys, NoKey,  \* idempotency keys a client may send, or none
    Idle, None,
    Duration,     \* length of a period
    Window,       \* how long before a renewal it can no longer be stopped
    Grace,        \* how long after a failed renewal the plan may stay unpaid
    Batch,        \* subscriptions one query of the sweep takes
    AdminCancels, \* whether the Admin cancels plans
    Coins,        \* what each purse holds at first
    MaxTopUps,    \* bound: Coins bought later
    MaxSwitches,  \* bound: how often the Admin takes the plan off sale or puts it back
    MaxTime,      \* bound: the clock
    MaxFaults     \* bound: crashes

ASSUME ConstantsAssumption ==
    /\ Owner \in [Subs -> Members]
    /\ Duration \in Nat \ {0} /\ Window \in Nat /\ Grace \in Nat \ {0}
    /\ Batch \in Nat \ {0} /\ Coins \in Nat /\ MaxTopUps \in Nat
    /\ MaxSwitches \in Nat /\ MaxTime \in Nat /\ MaxFaults \in Nat
    /\ AdminCancels \in BOOLEAN
    /\ None \notin Nat

VARIABLES
    sub,        \* subscriptions
    cycles,     \* subscription_cycles
    ledger,     \* coin_transactions that took Coins for a plan, oldest first
    purse,      \* Coins of each member
    topUps,
    switches,   \* how often the plan changed between on sale and off
    clock,
    task,       \* what each request is doing
    sweep,      \* what each run is doing
    faults

vars == <<sub, cycles, ledger, purse, topUps, switches, clock, task, sweep, faults>>

db == <<sub, cycles, ledger, purse>>
world == <<topUps, switches, clock>>

Status == {"none", "PENDING", "ACTIVE", "PAST_DUE", "CANCELLED", "EXPIRED"}
OPEN == {"PENDING", "ACTIVE", "PAST_DUE"}

Row == [status : Status, autoRenew : BOOLEAN, start : Nat, end : Nat,
        renewAt : Int \cup {None}, renewals : Nat, ended : BOOLEAN]
Cycle == [sub : Subs, number : Nat, status : {"PAID", "FAILED"}, start : Nat, end : Nat, entry : Nat]
Task == [kind : {"subscribe", "activate", "cancel", "resume"}, member : Members,
         sub : Subs \cup {None}, row : Row, now : Nat, key : Keys \cup {NoKey}]
Run == [pass : {"renew", "expire"}, due : SUBSET Subs, full : BOOLEAN, now : Nat,
        at : Subs \cup {None}, row : Row]

\* membership_plans.is_active
planActive == switches % 2 = 0

Absent == [status |-> "none", autoRenew |-> FALSE, start |-> 0, end |-> 0,
           renewAt |-> None, renewals |-> 0, ended |-> FALSE]

Init ==
    /\ sub = [s \in Subs |-> Absent]
    /\ cycles = {}
    /\ ledger = <<>>
    /\ purse = [m \in Members |-> Coins]
    /\ topUps = 0
    /\ switches = 0
    /\ clock = 0
    /\ task = [r \in Requests |-> Idle]
    /\ sweep = [w \in Sweepers |-> Idle]
    /\ faults = 0

-----------------------------------------------------------------------------
(* What activate and renew share: the purse, the ledger and the cycle row.  *)

\* The entry a key was used for, and the one the next spend would write.
KeyEntries(key) == {i \in DOMAIN ledger : key # NoKey /\ ledger[i] = key}
EntryOf(key) == IF KeyEntries(key) # {} THEN CHOOSE i \in KeyEntries(key) : TRUE ELSE Len(ledger) + 1

\* Mutant: an empty purse is enough.
CanSpendEmpty(m, key) == KeyEntries(key) # {} \/ purse[m] >= 0

\* spend replays the entry of the key, or needs a Coin.
CanSpend(m, key) == KeyEntries(key) # {} \/ purse[m] > 0

TakeCoin(m, key) ==
    IF KeyEntries(key) # {} THEN UNCHANGED <<ledger, purse>>
    ELSE /\ ledger' = Append(ledger, key)
         /\ purse' = [purse EXCEPT ![m] = purse[m] - 1]

PaidCycle(s, number, start, key) ==
    [sub |-> s, number |-> number, status |-> "PAID",
     start |-> start, end |-> start + Duration, entry |-> EntryOf(key)]

FailedCycle(s, number, start) ==
    [sub |-> s, number |-> number, status |-> "FAILED",
     start |-> start, end |-> start + Duration, entry |-> 0]

\* Mutant: no unique (subscription_id, cycle_number).
FitsEntry(c) == \A d \in cycles : c.entry # 0 => d.entry # c.entry

\* Unique (subscription_id, cycle_number) and unique coin_transaction_id.
Fits(c) ==
    \A d \in cycles :
        /\ d.sub = c.sub => d.number # c.number
        /\ c.entry # 0 => d.entry # c.entry

-----------------------------------------------------------------------------
(* Requests of a member.                                                    *)

Open(m) == {s \in Subs : Owner[s] = m /\ sub[s].status \in OPEN}

NewTask(kind, m, s, key) ==
    [kind |-> kind, member |-> m, sub |-> s, row |-> IF s = None THEN Absent ELSE sub[s],
     now |-> clock, key |-> key]

Begin(r, t) ==
    /\ task[r] = Idle
    /\ task' = [task EXCEPT ![r] = t]
    /\ UNCHANGED <<db, world, sweep, faults>>

Doing(r, kind) == task[r] # Idle /\ task[r].kind = kind

Finish(r) ==
    /\ task' = [task EXCEPT ![r] = Idle]
    /\ UNCHANGED <<world, sweep, faults>>

\* subscribe: the plan is on sale and the count of open plans is 0.
BeginSubscribe(r, m) ==
    /\ planActive
    /\ Open(m) = {}
    /\ Begin(r, NewTask("subscribe", m, None, NoKey))

Subscribe(r, s) ==
    /\ Doing(r, "subscribe")
    /\ sub[s].status = "none" /\ Owner[s] = task[r].member
    /\ sub' = [sub EXCEPT ![s] =
                  [status |-> "PENDING", autoRenew |-> TRUE, start |-> clock, end |-> clock + Duration,
                   renewAt |-> clock + Duration, renewals |-> 0, ended |-> FALSE]]
    /\ Finish(r)
    /\ UNCHANGED <<cycles, ledger, purse>>

\* activate reads the intent before its transaction.
BeginActivate(r, s, key) ==
    /\ sub[s].status = "PENDING"
    /\ Begin(r, NewTask("activate", Owner[s], s, key))

FirstCycle(r) == PaidCycle(task[r].sub, 1, task[r].now, task[r].key)

Activatable(r) ==
    planActive /\ CanSpend(task[r].member, task[r].key) /\ Fits(FirstCycle(r))

\* Mutant: the Coin is taken before the transaction that may be rolled back.
ActivatePaysFirst(r) ==
    /\ Doing(r, "activate")
    /\ planActive /\ CanSpend(task[r].member, task[r].key)
    /\ TakeCoin(task[r].member, task[r].key)
    /\ IF Fits(FirstCycle(r))
       THEN /\ cycles' = cycles \cup {FirstCycle(r)}
            /\ sub' = [sub EXCEPT ![task[r].sub] =
                          [sub[task[r].sub] EXCEPT !.status = "ACTIVE", !.autoRenew = TRUE,
                                                   !.start = FirstCycle(r).start, !.end = FirstCycle(r).end,
                                                   !.renewAt = FirstCycle(r).end]]
       ELSE UNCHANGED <<cycles, sub>>
    /\ Finish(r)

Activate(r) ==
    LET s == task[r].sub
    IN  /\ Doing(r, "activate")
        /\ Activatable(r)
        /\ TakeCoin(task[r].member, task[r].key)
        /\ cycles' = cycles \cup {FirstCycle(r)}
        /\ sub' = [sub EXCEPT ![s] =
                      [sub[s] EXCEPT !.status = "ACTIVE", !.autoRenew = TRUE,
                                     !.start = FirstCycle(r).start, !.end = FirstCycle(r).end,
                                     !.renewAt = FirstCycle(r).end]]
        /\ Finish(r)

\* The plan left the sale, the Coins are short or an index was met: all is rolled back.
ActivateFails(r) ==
    /\ Doing(r, "activate")
    /\ ~Activatable(r)
    /\ Finish(r)
    /\ UNCHANGED db

\* cancelAutoRenew reads the row, and refuses once the window has closed.
BeginCancel(r, s) ==
    /\ sub[s].status # "none"
    /\ sub[s].renewAt # None => sub[s].renewAt - Window > clock
    /\ Begin(r, NewTask("cancel", Owner[s], s, NoKey))

CancelAutoRenew(r) ==
    LET s == task[r].sub
    IN  /\ Doing(r, "cancel")
        /\ sub' = [sub EXCEPT ![s] = [sub[s] EXCEPT !.autoRenew = FALSE, !.renewAt = None]]
        /\ Finish(r)
        /\ UNCHANGED <<cycles, ledger, purse>>

BeginResume(r, s) ==
    /\ sub[s].status # "none" /\ ~sub[s].autoRenew
    /\ Begin(r, NewTask("resume", Owner[s], s, NoKey))

ResumeAutoRenew(r) ==
    LET s == task[r].sub
    IN  /\ Doing(r, "resume")
        /\ sub' = [sub EXCEPT ![s] = [sub[s] EXCEPT !.autoRenew = TRUE, !.renewAt = task[r].row.end]]
        /\ Finish(r)
        /\ UNCHANGED <<cycles, ledger, purse>>

RequestCrash(r) ==
    /\ task[r] # Idle
    /\ faults < MaxFaults
    /\ faults' = faults + 1
    /\ task' = [task EXCEPT ![r] = Idle]
    /\ UNCHANGED <<db, world, sweep>>

-----------------------------------------------------------------------------
(* The Admin, the wallet and the clock.                                     *)

CancelByAdmin(s) ==
    /\ AdminCancels
    /\ sub[s].status # "none"
    /\ sub' = [sub EXCEPT ![s] =
                  [sub[s] EXCEPT !.status = "CANCELLED", !.autoRenew = FALSE,
                                 !.renewAt = None, !.ended = TRUE]]
    /\ UNCHANGED <<cycles, ledger, purse, world, task, sweep, faults>>

SwitchPlan ==
    /\ switches < MaxSwitches
    /\ switches' = switches + 1
    /\ UNCHANGED <<db, topUps, clock, task, sweep, faults>>

TopUp(m) ==
    /\ topUps < MaxTopUps
    /\ topUps' = topUps + 1
    /\ purse' = [purse EXCEPT ![m] = purse[m] + 1]
    /\ UNCHANGED <<sub, cycles, ledger, switches, clock, task, sweep, faults>>

Tick ==
    /\ clock < MaxTime
    /\ clock' = clock + 1
    /\ UNCHANGED <<db, topUps, switches, task, sweep, faults>>

-----------------------------------------------------------------------------
(* subscription-renewal.sweep: a pass that renews, then one that expires.   *)

DueBy(pass, now) ==
    {s \in Subs :
        /\ sub[s].renewAt # None /\ sub[s].renewAt <= now
        /\ IF pass = "renew" THEN sub[s].status = "ACTIVE" /\ sub[s].autoRenew
                             ELSE sub[s].status = "PAST_DUE"}

\* The Batch that is due longest; in which order it is worked through is left open.
Oldest(pass, now) ==
    LET due == DueBy(pass, now)
    IN  {B \in SUBSET due :
            /\ Cardinality(B) = IF Cardinality(due) < Batch THEN Cardinality(due) ELSE Batch
            /\ \A s \in B, t \in due \ B : sub[s].renewAt <= sub[t].renewAt}

Fetched(pass, B, now) ==
    [pass |-> pass, due |-> B, full |-> Cardinality(B) >= Batch, now |-> now, at |-> None, row |-> Absent]

Running(w, pass) == sweep[w] # Idle /\ sweep[w].pass = pass

\* A run with nothing to do changes nothing and is left out.
RunStart(w) ==
    /\ sweep[w] = Idle
    /\ DueBy("renew", clock) \cup DueBy("expire", clock) # {}
    /\ \E B \in Oldest("renew", clock) : sweep' = [sweep EXCEPT ![w] = Fetched("renew", B, clock)]
    /\ UNCHANGED <<db, world, task, faults>>

\* The loop reads again after a full batch; renewing is followed by expiring.
RunOn(w) ==
    /\ sweep[w] # Idle /\ sweep[w].at = None /\ sweep[w].due = {}
    /\ \E B \in Oldest(sweep[w].pass, sweep[w].now), C \in Oldest("expire", sweep[w].now) :
          sweep' = [sweep EXCEPT ![w] =
                       IF sweep[w].full /\ B # {} THEN Fetched(sweep[w].pass, B, sweep[w].now)
                       ELSE IF sweep[w].pass = "renew" /\ C # {} THEN Fetched("expire", C, sweep[w].now)
                       ELSE Idle]
    /\ UNCHANGED <<db, world, task, faults>>

\* renew and expire read the row again, and leave alone what they may not touch.
\* Mutant: renew leaves what it may touch alone.
NeverRenewable(s) == sub[s].status = "ACTIVE" /\ ~sub[s].autoRenew /\ planActive

Renewable(s) == sub[s].status = "ACTIVE" /\ sub[s].autoRenew /\ planActive
Expirable(s, now) == sub[s].status = "PAST_DUE" /\ (sub[s].renewAt # None => sub[s].renewAt <= now)

Read(w, s) ==
    /\ sweep[w] # Idle /\ sweep[w].at = None /\ s \in sweep[w].due
    /\ sweep' = [sweep EXCEPT ![w] =
                    IF IF sweep[w].pass = "renew" THEN Renewable(s) ELSE Expirable(s, sweep[w].now)
                    THEN [sweep[w] EXCEPT !.due = sweep[w].due \ {s}, !.at = s, !.row = sub[s]]
                    ELSE [sweep[w] EXCEPT !.due = sweep[w].due \ {s}]]
    /\ UNCHANGED <<db, world, task, faults>>

Proceed(w) == sweep' = [sweep EXCEPT ![w] = [sweep[w] EXCEPT !.at = None, !.row = Absent]]

\* Mutant: the number of the cycle just paid.
NumberOfLast(w) == sweep[w].row.renewals + 1

\* The cycle a renewal charges, as the row it read says, and its key.
NumberOf(w) == sweep[w].row.renewals + 2
RenewalKey(w) == <<sweep[w].at, NumberOf(w)>>
RenewalCycle(w) == PaidCycle(sweep[w].at, NumberOf(w), sweep[w].row.end, RenewalKey(w))
MissedCycle(w) == FailedCycle(sweep[w].at, NumberOf(w), sweep[w].row.end)

Renewing(w) == Running(w, "renew") /\ sweep[w].at # None
CanPay(w) == CanSpend(Owner[sweep[w].at], RenewalKey(w))

Renew(w) ==
    LET s == sweep[w].at
    IN  /\ Renewing(w)
        /\ CanPay(w) /\ Fits(RenewalCycle(w))
        /\ TakeCoin(Owner[s], RenewalKey(w))
        /\ cycles' = cycles \cup {RenewalCycle(w)}
        /\ sub' = [sub EXCEPT ![s] =
                      [sub[s] EXCEPT !.status = "ACTIVE", !.start = RenewalCycle(w).start,
                                     !.end = RenewalCycle(w).end, !.renewAt = RenewalCycle(w).end,
                                     !.renewals = sweep[w].row.renewals + 1]]
        /\ Proceed(w)
        /\ UNCHANGED <<world, task, faults>>

\* Mutant: the failed attempt is not written.
PastDueUntold(w) ==
    LET s == sweep[w].at
    IN  /\ Renewing(w)
        /\ ~CanPay(w) /\ Fits(MissedCycle(w))
        /\ sub' = [sub EXCEPT ![s] = [sub[s] EXCEPT !.status = "PAST_DUE", !.renewAt = clock + Grace]]
        /\ Proceed(w)
        /\ UNCHANGED <<cycles, ledger, purse, world, task, faults>>

MarkPastDue(w) ==
    LET s == sweep[w].at
    IN  /\ Renewing(w)
        /\ ~CanPay(w) /\ Fits(MissedCycle(w))
        /\ cycles' = cycles \cup {MissedCycle(w)}
        /\ sub' = [sub EXCEPT ![s] = [sub[s] EXCEPT !.status = "PAST_DUE", !.renewAt = clock + Grace]]
        /\ Proceed(w)
        /\ UNCHANGED <<ledger, purse, world, task, faults>>

\* An index was met: the transaction is rolled back and the run ends with the error.
RenewFails(w) ==
    /\ Renewing(w)
    /\ IF CanPay(w) THEN ~Fits(RenewalCycle(w)) ELSE ~Fits(MissedCycle(w))
    /\ sweep' = [sweep EXCEPT ![w] = Idle]
    /\ UNCHANGED <<db, world, task, faults>>

\* Mutant: expire forgets the status.
ExpireKeepsStatus(w) ==
    LET s == sweep[w].at
    IN  /\ Running(w, "expire") /\ s # None
        /\ sub' = [sub EXCEPT ![s] = [sub[s] EXCEPT !.autoRenew = FALSE, !.ended = TRUE]]
        /\ Proceed(w)
        /\ UNCHANGED <<cycles, ledger, purse, world, task, faults>>

Expire(w) ==
    LET s == sweep[w].at
    IN  /\ Running(w, "expire") /\ s # None
        /\ sub' = [sub EXCEPT ![s] =
                      [sub[s] EXCEPT !.status = "EXPIRED", !.autoRenew = FALSE,
                                     !.renewAt = None, !.ended = TRUE]]
        /\ Proceed(w)
        /\ UNCHANGED <<cycles, ledger, purse, world, task, faults>>

RunCrash(w) ==
    /\ sweep[w] # Idle
    /\ faults < MaxFaults
    /\ faults' = faults + 1
    /\ sweep' = [sweep EXCEPT ![w] = Idle]
    /\ UNCHANGED <<db, world, task>>

-----------------------------------------------------------------------------
RequestBegins(r) ==
    \/ \E m \in Members : BeginSubscribe(r, m)
    \/ \E s \in Subs : BeginCancel(r, s) \/ BeginResume(r, s)
    \/ \E s \in Subs, key \in Keys \cup {NoKey} : BeginActivate(r, s, key)

RequestEnds(r) ==
    \/ \E s \in Subs : Subscribe(r, s)
    \/ Activate(r) \/ ActivateFails(r) \/ CancelAutoRenew(r) \/ ResumeAutoRenew(r)

RunStep(w) ==
    \/ RunStart(w) \/ RunOn(w) \/ Renew(w) \/ MarkPastDue(w) \/ RenewFails(w) \/ Expire(w)
    \/ \E s \in Subs : Read(w, s)

Next ==
    \/ \E r \in Requests : RequestBegins(r) \/ RequestEnds(r) \/ RequestCrash(r)
    \/ \E w \in Sweepers : RunStep(w) \/ RunCrash(w)
    \/ \E s \in Subs : CancelByAdmin(s)
    \/ \E m \in Members : TopUp(m)
    \/ SwitchPlan \/ Tick

Spec == Init /\ [][Next]_vars

\* Requests run to their end unless they crash, and the sweep is a repeatable job.
Fairness ==
    /\ \A r \in Requests : WF_vars(RequestEnds(r))
    /\ \A w \in Sweepers : WF_vars(RunStep(w))

FairSpec == Spec /\ Fairness

-----------------------------------------------------------------------------
(* Properties.                                                              *)

\* The types of rows, requests and runs.
TypeOK ==
    /\ sub \in [Subs -> Row]
    /\ cycles \in SUBSET Cycle
    /\ purse \in [Members -> Nat]
    /\ topUps \in Nat /\ switches \in Nat /\ clock \in Nat /\ faults \in Nat
    /\ task \in [Requests -> Task \cup {Idle}]
    /\ sweep \in [Sweepers -> Run \cup {Idle}]

PaidOf(s) == {c \in cycles : c.sub = s /\ c.status = "PAID"}

\* Every Coin a plan took paid for exactly one cycle, and no cycle is PAID without its
\* Coin, whichever of two activations or two renewals is rolled back.
EveryCoinPaysOneCycle ==
    /\ \A i \in DOMAIN ledger : \E c \in cycles : c.status = "PAID" /\ c.entry = i
    /\ \A c \in cycles : c.status = "PAID" => c.entry \in DOMAIN ledger
    /\ \A c, d \in cycles : c.entry = d.entry /\ c.entry # 0 => c = d

\* The paid cycles of a subscription are numbered without a gap, each begins where the
\* one before it ends, and the current period is that of the last one: no race skips,
\* repeats or overlaps a period.
PeriodFollowsCycles ==
    \A s \in Subs :
        LET paid == PaidOf(s)
        IN  paid # {} =>
                /\ {c.number : c \in paid} = 1..(sub[s].renewals + 1)
                /\ \A c, d \in paid : c.number = d.number => c = d
                /\ \A c, d \in paid : d.number = c.number + 1 => d.start = c.end
                /\ \E c \in paid :
                      /\ c.number = sub[s].renewals + 1
                      /\ sub[s].start = c.start /\ sub[s].end = c.end

\* A plan that is open and past its intent was paid for: ACTIVE and PAST_DUE have a
\* first cycle, and PAST_DUE has the FAILED attempt that explains it.
RunningPlanWasPaid ==
    \A s \in Subs :
        /\ sub[s].status \in {"ACTIVE", "PAST_DUE"} => PaidOf(s) # {}
        /\ sub[s].status = "PAST_DUE" =>
              \E c \in cycles : c.sub = s /\ c.status = "FAILED" /\ c.number = sub[s].renewals + 2

\* A plan that runs is paid up to its period, without a gap.
PlanIsPaidUp == PeriodFollowsCycles /\ RunningPlanWasPaid

\* No renewal takes Coins for a period that has not begun (subscription.prisma: auto-renew
\* asks for Coins at nextRenewalAt).
NoEarlyCharge ==
    \A c \in cycles : c.status = "PAID" /\ c.number > 1 => c.start <= clock

\* What is due is decided, renewed, past due or stopped, unless the plan leaves the sale.
DueIsDecided ==
    \A s \in Subs :
        sub[s].status = "ACTIVE" /\ sub[s].autoRenew /\ sub[s].renewAt # None /\ sub[s].renewAt <= clock
            ~> \/ sub[s].status # "ACTIVE" \/ ~sub[s].autoRenew
               \/ sub[s].renewAt = None \/ sub[s].renewAt > clock
               \/ ~planActive

\* Every run of the sweep ends (subscription-renewal.sweep.ts: the loop always ends),
\* unless the plan leaves the sale under it.
RunEnds == \A w \in Sweepers : sweep[w] # Idle /\ planActive ~> sweep[w] = Idle \/ ~planActive

\* A member has at most one open subscription (subscription.prisma).
OneOpenPlan == \A m \in Members : Cardinality(Open(m)) <= 1

\* What the Admin or the sweep ended stays ended (subscription.service.ts: the plan
\* ends now).
EndedStaysEnded == \A s \in Subs : sub[s].ended => sub[s].status \notin OPEN

\* A plan whose auto-renew was stopped runs to the end of the paid period, then ends
\* (subscription.service.ts: access runs on to the end of the paid period).
StoppedPlanEnds ==
    \A s \in Subs :
        sub[s].status = "ACTIVE" /\ ~sub[s].autoRenew /\ sub[s].end <= clock
            ~> sub[s].status # "ACTIVE" \/ sub[s].autoRenew

\* A plan that is unpaid when its grace is over ends (subscription-renewal.sweep.ts:
\* every plan still unpaid after its grace period ends).
UnpaidPlanEnds ==
    \A s \in Subs :
        sub[s].status = "PAST_DUE" /\ (sub[s].renewAt # None => sub[s].renewAt <= clock)
            ~> sub[s].status # "PAST_DUE"

\* The sweep gives a plan up only when the purse is empty as it looks
\* (subscription-renewal.service.ts: nextRenewalAt becomes the retry moment, so the
\* sweeper tries again).
GivesUp(w, s) ==
    Running(w, "expire") /\ sweep[w].at = None /\ Running(w, "expire")' /\ sweep'[w].at = s

RetriedBeforeExpiring ==
    [][\A w \in Sweepers, s \in Subs : GivesUp(w, s) => purse[Owner[s]] = 0]_sweep
=============================================================================
