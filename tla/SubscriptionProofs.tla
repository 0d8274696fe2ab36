--------------------------- MODULE SubscriptionProofs ---------------------------
(***************************************************************************)
(* Every Coin pays one cycle, and a plan that runs is paid up to its       *)
(* period, for any number of plans, members, requests and sweeps.          *)
(*                                                                         *)
(* Nothing locks a subscription row, so what a sweep read may be older     *)
(* than the row it writes.  A stale reading would charge a cycle number    *)
(* that is taken, and the unique index rolls it back; a reading whose      *)
(* number is free is of the period that runs.                              *)
(***************************************************************************)
EXTENDS Subscription, TLAPS

AnyKey == Keys \cup {NoKey} \cup (Subs \X Nat)

LedgerOK == ledger \in Seq(AnyKey)

\* Whoever activates, stops or resumes a plan has one.
TasksHold == \A r \in Requests : task[r] # Idle /\ task[r].kind # "subscribe" =>
    task[r].sub \in Subs /\ sub[task[r].sub].status # "none"

\* What a sweep read of a plan it renews is the running period or an older one.
RunsHold == \A w \in Sweepers, s \in Subs : Renewing(w) /\ sweep[w].at = s =>
    /\ sub[s].status # "none" /\ PaidOf(s) # {}
    /\ sweep[w].row.renewals <= sub[s].renewals
    /\ sweep[w].row.renewals = sub[s].renewals => sweep[w].row.end = sub[s].end

NumberedOnce == \A c, d \in cycles : c.sub = d.sub /\ c.number = d.number => c = d

\* The cycles of a plan before its first is paid, and from then on.
Story(s) ==
    /\ sub[s].status = "none" => \A c \in cycles : c.sub # s
    /\ PaidOf(s) = {} => sub[s].renewals = 0
    /\ PaidOf(s) # {} =>
          /\ {c.number : c \in PaidOf(s)} = 1..(sub[s].renewals + 1)
          /\ \A c, d \in PaidOf(s) : d.number = c.number + 1 => d.start = c.end
          /\ \E c \in PaidOf(s) :
                /\ c.number = sub[s].renewals + 1
                /\ sub[s].start = c.start /\ sub[s].end = c.end
    /\ sub[s].status \in {"ACTIVE", "PAST_DUE"} => PaidOf(s) # {}
    /\ sub[s].status = "PAST_DUE" =>
          \E c \in cycles : c.sub = s /\ c.status = "FAILED" /\ c.number = sub[s].renewals + 2

IInv ==
    /\ TypeOK /\ LedgerOK /\ TasksHold /\ RunsHold
    /\ EveryCoinPaysOneCycle /\ NumberedOnce
    /\ \A s \in Subs : Story(s)

-----------------------------------------------------------------------------
\* Types, one kind of row after the other.

\* A row of a plan and its fields.
LEMMA RowFacts ==
  ASSUME NEW row \in Row
  PROVE  /\ row.status \in Status /\ row.autoRenew \in BOOLEAN /\ row.start \in Nat /\ row.end \in Nat
         /\ row.renewAt \in Int \cup {None} /\ row.renewals \in Nat /\ row.ended \in BOOLEAN
BY DEF Row

\* A request that is doing something is a record of its kind.
LEMMA TaskFacts ==
  ASSUME TypeOK, NEW r \in Requests, NEW kind, Doing(r, kind)
  PROVE  /\ task[r] \in Task /\ task[r].kind = kind /\ task[r].member \in Members
         /\ task[r].sub \in Subs \cup {None} /\ task[r].row \in Row /\ task[r].now \in Nat
         /\ task[r].key \in Keys \cup {NoKey}
BY DEF TypeOK, Doing, Task

\* So is a run of the sweep.
LEMMA RunFacts ==
  ASSUME TypeOK, NEW w \in Sweepers, sweep[w] # Idle
  PROVE  /\ sweep[w] \in Run /\ sweep[w].pass \in {"renew", "expire"} /\ sweep[w].due \in SUBSET Subs
         /\ sweep[w].full \in BOOLEAN /\ sweep[w].now \in Nat /\ sweep[w].at \in Subs \cup {None}
         /\ sweep[w].row \in Row
BY DEF TypeOK, Run

\* What a renewal writes is computed from the row it read.
LEMMA RenewingFacts ==
  ASSUME TypeOK, NEW w \in Sweepers, Renewing(w)
  PROVE  /\ sweep[w].at \in Subs /\ sweep[w].row \in Row /\ NumberOf(w) \in Nat
         /\ sweep[w].row.end \in Nat /\ sweep[w].row.renewals \in Nat
         /\ RenewalKey(w) \in AnyKey /\ Owner[sweep[w].at] \in Members
<1>1. sweep[w] # Idle /\ sweep[w].at # None
  BY DEF Renewing, Running
<1>2. sweep[w].at \in Subs /\ sweep[w].row \in Row
  BY <1>1, RunFacts
<1>3. sweep[w].row.end \in Nat /\ sweep[w].row.renewals \in Nat
  BY <1>2, RowFacts
<1>4. NumberOf(w) \in Nat
  BY <1>3 DEF NumberOf
<1>5. RenewalKey(w) \in AnyKey
  BY <1>2, <1>4 DEF RenewalKey, AnyKey
<1>6. Owner[sweep[w].at] \in Members
  BY <1>2, ConstantsAssumption
<1>. QED
  BY <1>2, <1>3, <1>4, <1>5, <1>6

LEMMA AbsentRow == Absent \in Row
BY DEF Absent, Row, Status

\* The entry a spend finds or writes.
LEMMA EntryFacts ==
  ASSUME LedgerOK, NEW key
  PROVE  /\ EntryOf(key) \in Nat \ {0}
         /\ KeyEntries(key) # {} => EntryOf(key) \in DOMAIN ledger
         /\ KeyEntries(key) = {} => EntryOf(key) = Len(ledger) + 1
<1>1. Len(ledger) \in Nat /\ DOMAIN ledger = 1..Len(ledger)
  BY DEF LedgerOK
<1>2. KeyEntries(key) \subseteq DOMAIN ledger
  BY DEF KeyEntries
<1>3. CASE KeyEntries(key) = {}
  BY <1>1, <1>3 DEF EntryOf
<1>4. CASE KeyEntries(key) # {}
  <2>1. EntryOf(key) \in KeyEntries(key)
    BY <1>4 DEF EntryOf
  <2>. QED
    BY <1>1, <1>2, <1>4, <2>1
<1>. QED
  BY <1>3, <1>4

\* Cycles are rows.
LEMMA CycleTypes ==
  ASSUME LedgerOK, NEW s \in Subs, NEW number \in Nat, NEW start \in Nat, NEW key
  PROVE  PaidCycle(s, number, start, key) \in Cycle /\ FailedCycle(s, number, start) \in Cycle
<1>1. start + Duration \in Nat /\ EntryOf(key) \in Nat /\ 0 \in Nat
  BY ConstantsAssumption, EntryFacts
<1>. QED
  BY <1>1 DEF PaidCycle, FailedCycle, Cycle

\* Paying keeps the purse and the ledger in their types.
LEMMA TakeTypes ==
  ASSUME TypeOK, LedgerOK, NEW m \in Members, NEW key \in AnyKey, CanSpend(m, key), TakeCoin(m, key)
  PROVE  purse' \in [Members -> Nat] /\ LedgerOK'
<1>1. CASE KeyEntries(key) # {}
  BY <1>1 DEF TakeCoin, TypeOK, LedgerOK
<1>2. CASE KeyEntries(key) = {}
  <2>1. /\ ledger' = Append(ledger, key) /\ purse' = [purse EXCEPT ![m] = purse[m] - 1]
        /\ purse[m] > 0 /\ purse[m] \in Nat /\ purse \in [Members -> Nat]
    BY <1>2 DEF TakeCoin, CanSpend, TypeOK
  <2>2. purse[m] - 1 \in Nat
    BY <2>1
  <2>. QED
    BY <2>1, <2>2 DEF LedgerOK
<1>. QED
  BY <1>1, <1>2
-----------------------------------------------------------------------------
\* How a step may write a plan, and what such a step leaves standing.

\* One row of a plan is written.
LEMMA RowWritten ==
  ASSUME TypeOK, NEW s \in Subs, NEW row \in Row, sub' = [sub EXCEPT ![s] = row]
  PROVE  /\ sub' \in [Subs -> Row] /\ sub'[s] = row
         /\ \A t \in Subs \ {s} : sub'[t] = sub[t]
BY DEF TypeOK

\* The period stays, and no status is gained that speaks of payments.
Adjusted(row, new) ==
    /\ new.start = row.start /\ new.end = row.end /\ new.renewals = row.renewals
    /\ new.status = "none" => row.status = "none"
    /\ new.status \in {"ACTIVE", "PAST_DUE"} => new.status = row.status

\* A plan that was paid for goes on: the same period, or a later one.
GoesOn(s) ==
    /\ sub[s].status # "none" => sub'[s].status # "none"
    /\ PaidOf(s) # {} =>
          \/ sub'[s].renewals = sub[s].renewals /\ sub'[s].end = sub[s].end
          \/ sub'[s].renewals > sub[s].renewals

LEMMA AdjustedGoesOn ==
  ASSUME NEW s \in Subs, Adjusted(sub[s], sub'[s])
  PROVE  GoesOn(s)
BY DEF Adjusted, GoesOn

LEMMA SameGoesOn ==
  ASSUME sub' = sub, NEW s \in Subs
  PROVE  GoesOn(s)
BY DEF GoesOn

\* The story of a plan whose cycles stay is not disturbed by an adjustment.
LEMMA StoryStands ==
  ASSUME NEW s \in Subs, Story(s), Adjusted(sub[s], sub'[s]),
         \A c : c \in cycles' /\ c.sub = s <=> c \in cycles /\ c.sub = s
  PROVE  Story(s)'
<1>1. PaidOf(s)' = PaidOf(s)
  BY DEF PaidOf
<1>2. /\ sub'[s].start = sub[s].start /\ sub'[s].end = sub[s].end /\ sub'[s].renewals = sub[s].renewals
      /\ sub'[s].status = "none" => sub[s].status = "none"
      /\ sub'[s].status \in {"ACTIVE", "PAST_DUE"} => sub'[s].status = sub[s].status
  BY DEF Adjusted
<1>3. sub'[s].status = "none" => \A c \in cycles' : c.sub # s
  BY <1>2 DEF Story
<1>4. sub'[s].status = "PAST_DUE" =>
        \E c \in cycles' : c.sub = s /\ c.status = "FAILED" /\ c.number = sub'[s].renewals + 2
  <2>. HAVE sub'[s].status = "PAST_DUE"
  <2>1. PICK c \in cycles : c.sub = s /\ c.status = "FAILED" /\ c.number = sub[s].renewals + 2
    BY <1>2 DEF Story
  <2>. QED
    BY <1>2, <2>1
<1>5. PaidOf(s) # {} =>
        /\ {c.number : c \in PaidOf(s)'} = 1..(sub'[s].renewals + 1)
        /\ \A c, d \in PaidOf(s)' : d.number = c.number + 1 => d.start = c.end
        /\ \E c \in PaidOf(s)' :
              c.number = sub'[s].renewals + 1 /\ sub'[s].start = c.start /\ sub'[s].end = c.end
  BY <1>1, <1>2 DEF Story
<1>6. (PaidOf(s)' = {} => sub'[s].renewals = 0) /\ (sub'[s].status \in {"ACTIVE", "PAST_DUE"} => PaidOf(s)' # {})
  BY <1>1, <1>2 DEF Story
<1>. QED
  BY <1>1, <1>3, <1>4, <1>5, <1>6 DEF Story

\* Requests that go on or stop still have their plan.
LEMMA TasksStand ==
  ASSUME TasksHold, \A s \in Subs : GoesOn(s),
         \A r \in Requests : task'[r] \in {task[r], Idle}
  PROVE  TasksHold'
<1>. SUFFICES ASSUME NEW r \in Requests, task'[r] # Idle, task'[r].kind # "subscribe"
              PROVE  task'[r].sub \in Subs /\ sub'[task'[r].sub].status # "none"
  BY DEF TasksHold
<1>1. task'[r] = task[r]
  OBVIOUS
<1>. QED
  BY <1>1 DEF TasksHold, GoesOn

\* What a run read stays an old reading, while plans go on and cycles are only added.
LEMMA RunsStand ==
  ASSUME TypeOK, sub' \in [Subs -> Row], RunsHold, \A s \in Subs : GoesOn(s), cycles \subseteq cycles',
         \A w \in Sweepers : sweep'[w] = sweep[w] \/ ~Renewing(w)'
  PROVE  RunsHold'
<1>. SUFFICES ASSUME NEW w \in Sweepers, NEW s \in Subs, Renewing(w)', sweep'[w].at = s
     PROVE  /\ sub'[s].status # "none" /\ PaidOf(s)' # {}
            /\ sweep'[w].row.renewals <= sub'[s].renewals
            /\ sweep'[w].row.renewals = sub'[s].renewals => sweep'[w].row.end = sub'[s].end
  BY DEF RunsHold
<1>1. sweep'[w] = sweep[w]
  OBVIOUS
<1>2. Renewing(w)
  BY <1>1 DEF Renewing, Running
<1>3. s = sweep[w].at
  BY <1>1
<1>4. PaidOf(s) \subseteq PaidOf(s)'
  BY DEF PaidOf
<1>5. /\ sub[s].status # "none" /\ PaidOf(s) # {}
      /\ sweep[w].row.renewals <= sub[s].renewals
      /\ sweep[w].row.renewals = sub[s].renewals => sweep[w].row.end = sub[s].end
  BY <1>2, <1>3 DEF RunsHold
<1>6. sub[s].renewals \in Nat /\ sub'[s].renewals \in Nat /\ sweep[w].row.renewals \in Nat
  BY <1>2, RenewingFacts, RowFacts DEF TypeOK
<1>7. sub'[s].status # "none" /\ PaidOf(s)' # {}
  BY <1>4, <1>5 DEF GoesOn
<1>8. /\ sweep[w].row.renewals <= sub'[s].renewals
      /\ sweep[w].row.renewals = sub'[s].renewals => sweep[w].row.end = sub'[s].end
  BY <1>5, <1>6 DEF GoesOn
<1>. QED
  BY <1>1, <1>7, <1>8

\* A step that only adjusts plans keeps everything but its own types.
LEMMA AdjustStep ==
  ASSUME IInv, TypeOK', ledger' = ledger, cycles' = cycles,
         \A s \in Subs : Adjusted(sub[s], sub'[s]),
         \A r \in Requests : task'[r] \in {task[r], Idle},
         \A w \in Sweepers : sweep'[w] = sweep[w] \/ ~Renewing(w)'
  PROVE  IInv'
<1>1. \A s \in Subs : GoesOn(s)
  BY AdjustedGoesOn
<1>2. TasksHold'
  BY <1>1, TasksStand DEF IInv
<1>3. RunsHold'
  BY <1>1, RunsStand DEF IInv, TypeOK
<1>4. \A s \in Subs : Story(s)'
  BY StoryStands DEF IInv
<1>5. LedgerOK' /\ EveryCoinPaysOneCycle' /\ NumberedOnce'
  BY DEF IInv, LedgerOK, EveryCoinPaysOneCycle, NumberedOnce
<1>. QED
  BY <1>2, <1>3, <1>4, <1>5 DEF IInv
-----------------------------------------------------------------------------
\* Requests.

\* A request begins.
LEMMA BeginStep ==
  ASSUME IInv, NEW r \in Requests, NEW t \in Task, Begin(r, t),
         t.kind # "subscribe" => t.sub \in Subs /\ sub[t.sub].status # "none"
  PROVE  IInv'
<1>1. /\ task' = [task EXCEPT ![r] = t] /\ task \in [Requests -> Task \cup {Idle}]
      /\ sub' = sub /\ cycles' = cycles /\ ledger' = ledger /\ purse' = purse /\ sweep' = sweep
      /\ topUps' = topUps /\ switches' = switches /\ clock' = clock /\ faults' = faults
  BY DEF Begin, IInv, TypeOK, db, world
<1>2. task' \in [Requests -> Task \cup {Idle}] /\ task'[r] = t /\ \A q \in Requests \ {r} : task'[q] = task[q]
  BY <1>1
<1>3. TypeOK'
  BY <1>1, <1>2 DEF IInv, TypeOK
<1>4. TasksHold'
  <2>. SUFFICES ASSUME NEW q \in Requests, task'[q] # Idle, task'[q].kind # "subscribe"
                PROVE  task'[q].sub \in Subs /\ sub'[task'[q].sub].status # "none"
    BY DEF TasksHold
  <2>1. CASE q = r
    BY <1>1, <1>2, <2>1
  <2>2. CASE q # r
    BY <1>1, <1>2, <2>2 DEF IInv, TasksHold
  <2>. QED
    BY <2>1, <2>2
<1>5. RunsHold' /\ LedgerOK' /\ EveryCoinPaysOneCycle' /\ NumberedOnce'
  BY <1>1 DEF IInv, RunsHold, Renewing, Running, PaidOf, LedgerOK, EveryCoinPaysOneCycle, NumberedOnce
<1>6. \A s \in Subs : Story(s)'
  BY <1>1, StoryStands DEF IInv, Adjusted
<1>. QED
  BY <1>3, <1>4, <1>5, <1>6 DEF IInv

LEMMA BeginsStep == ASSUME IInv, NEW r \in Requests, RequestBegins(r) PROVE IInv'
<1>1. clock \in Nat /\ sub \in [Subs -> Row] /\ Owner \in [Subs -> Members]
  BY ConstantsAssumption DEF IInv, TypeOK
<1>2. ASSUME NEW m \in Members, BeginSubscribe(r, m) PROVE IInv'
  <2>1. NewTask("subscribe", m, None, NoKey) \in Task
    BY <1>1, AbsentRow DEF NewTask, Task
  <2>2. NewTask("subscribe", m, None, NoKey).kind = "subscribe"
    BY DEF NewTask
  <2>. QED
    BY <1>2, <2>1, <2>2, BeginStep DEF BeginSubscribe
<1>3. ASSUME NEW s \in Subs, NEW kind \in {"activate", "cancel", "resume"}, NEW key \in Keys \cup {NoKey},
             sub[s].status # "none", Begin(r, NewTask(kind, Owner[s], s, key))
      PROVE  IInv'
  <2>1. (IF s = None THEN Absent ELSE sub[s]) \in Row
    BY <1>1, AbsentRow
  <2>2. NewTask(kind, Owner[s], s, key) \in Task /\ NewTask(kind, Owner[s], s, key).sub = s
    BY <1>1, <2>1 DEF NewTask, Task
  <2>. QED
    BY <1>3, <2>2, BeginStep
<1>4. ASSUME NEW s \in Subs, BeginCancel(r, s) \/ BeginResume(r, s) PROVE IInv'
  BY <1>3, <1>4 DEF BeginCancel, BeginResume
<1>5. ASSUME NEW s \in Subs, NEW key \in Keys \cup {NoKey}, BeginActivate(r, s, key) PROVE IInv'
  BY <1>3, <1>5 DEF BeginActivate
<1>. QED
  BY <1>2, <1>4, <1>5 DEF RequestBegins

\* A request that is over, and a step that leaves runs alone.
LEMMA FinishFacts ==
  ASSUME TypeOK, NEW r \in Requests, task' = [task EXCEPT ![r] = Idle]
  PROVE  /\ task' \in [Requests -> Task \cup {Idle}]
         /\ \A q \in Requests : task'[q] \in {task[q], Idle}
BY DEF TypeOK

\* One row of a plan is adjusted.
LEMMA AdjustRow ==
  ASSUME TypeOK, NEW s \in Subs, NEW row \in Row, sub' = [sub EXCEPT ![s] = row], Adjusted(sub[s], row)
  PROVE  sub' \in [Subs -> Row] /\ \A t \in Subs : Adjusted(sub[t], sub'[t])
<1>1. sub' \in [Subs -> Row] /\ sub'[s] = row /\ \A t \in Subs \ {s} : sub'[t] = sub[t]
  BY RowWritten
<1>2. \A t \in Subs \ {s} : Adjusted(sub[t], sub'[t])
  BY <1>1 DEF Adjusted
<1>. QED
  BY <1>1, <1>2

\* The rows that members, the Admin and the expiring pass write.
LEMMA AdjustedRows ==
  ASSUME TypeOK, NEW s \in Subs, NEW end \in Nat
  PROVE  /\ [sub[s] EXCEPT !.autoRenew = FALSE, !.renewAt = None] \in Row
         /\ Adjusted(sub[s], [sub[s] EXCEPT !.autoRenew = FALSE, !.renewAt = None])
         /\ [sub[s] EXCEPT !.autoRenew = TRUE, !.renewAt = end] \in Row
         /\ Adjusted(sub[s], [sub[s] EXCEPT !.autoRenew = TRUE, !.renewAt = end])
         /\ \A status \in {"CANCELLED", "EXPIRED"} :
               LET row == [sub[s] EXCEPT !.status = status, !.autoRenew = FALSE, !.renewAt = None, !.ended = TRUE]
               IN  row \in Row /\ Adjusted(sub[s], row)
<1>1. sub[s] \in Row
  BY DEF TypeOK
<1>2. /\ [sub[s] EXCEPT !.autoRenew = FALSE, !.renewAt = None] \in Row
      /\ Adjusted(sub[s], [sub[s] EXCEPT !.autoRenew = FALSE, !.renewAt = None])
  BY <1>1 DEF Row, Adjusted
<1>3. end \in Int \cup {None}
  OBVIOUS
<1>4. [sub[s] EXCEPT !.autoRenew = TRUE, !.renewAt = end] \in Row
  BY <1>1, <1>3 DEF Row
<1>5. Adjusted(sub[s], [sub[s] EXCEPT !.autoRenew = TRUE, !.renewAt = end])
  BY <1>1 DEF Row, Adjusted
<1>6. ASSUME NEW status \in {"CANCELLED", "EXPIRED"}
      PROVE  LET row == [sub[s] EXCEPT !.status = status, !.autoRenew = FALSE, !.renewAt = None, !.ended = TRUE]
             IN  row \in Row /\ Adjusted(sub[s], row)
  BY <1>1 DEF Row, Adjusted, Status
<1>. QED
  BY <1>2, <1>4, <1>5, <1>6

LEMMA CancelStep == ASSUME IInv, NEW r \in Requests, CancelAutoRenew(r) PROVE IInv'
<1>1. /\ Doing(r, "cancel") /\ task' = [task EXCEPT ![r] = Idle]
      /\ sub' = [sub EXCEPT ![task[r].sub] = [sub[task[r].sub] EXCEPT !.autoRenew = FALSE, !.renewAt = None]]
      /\ cycles' = cycles /\ ledger' = ledger /\ purse' = purse /\ sweep' = sweep
      /\ topUps' = topUps /\ switches' = switches /\ clock' = clock /\ faults' = faults
  BY DEF CancelAutoRenew, Finish, world
<1>2. PICK s \in Subs : s = task[r].sub
  BY <1>1 DEF IInv, TasksHold, Doing
<1>3. sub' \in [Subs -> Row] /\ \A t \in Subs : Adjusted(sub[t], sub'[t])
  BY <1>1, <1>2, AdjustRow, AdjustedRows DEF IInv
<1>4. TypeOK' /\ \A q \in Requests : task'[q] \in {task[q], Idle}
  BY <1>1, <1>3, FinishFacts DEF IInv, TypeOK
<1>. QED
  BY <1>1, <1>3, <1>4, AdjustStep

LEMMA ResumeStep == ASSUME IInv, NEW r \in Requests, ResumeAutoRenew(r) PROVE IInv'
<1>1. /\ Doing(r, "resume") /\ task' = [task EXCEPT ![r] = Idle]
      /\ sub' = [sub EXCEPT ![task[r].sub] =
                    [sub[task[r].sub] EXCEPT !.autoRenew = TRUE, !.renewAt = task[r].row.end]]
      /\ cycles' = cycles /\ ledger' = ledger /\ purse' = purse /\ sweep' = sweep
      /\ topUps' = topUps /\ switches' = switches /\ clock' = clock /\ faults' = faults
  BY DEF ResumeAutoRenew, Finish, world
<1>2. PICK s \in Subs : s = task[r].sub
  BY <1>1 DEF IInv, TasksHold, Doing
<1>3. task[r].row.end \in Nat
  BY <1>1, TaskFacts, RowFacts DEF IInv
<1>4. sub' \in [Subs -> Row] /\ \A t \in Subs : Adjusted(sub[t], sub'[t])
  BY <1>1, <1>2, <1>3, AdjustRow, AdjustedRows DEF IInv
<1>5. TypeOK' /\ \A q \in Requests : task'[q] \in {task[q], Idle}
  BY <1>1, <1>4, FinishFacts DEF IInv, TypeOK
<1>. QED
  BY <1>1, <1>4, <1>5, AdjustStep

LEMMA AdminStep == ASSUME IInv, NEW s \in Subs, CancelByAdmin(s) PROVE IInv'
<1>1. /\ sub' = [sub EXCEPT ![s] = [sub[s] EXCEPT !.status = "CANCELLED", !.autoRenew = FALSE,
                                                  !.renewAt = None, !.ended = TRUE]]
      /\ cycles' = cycles /\ ledger' = ledger /\ purse' = purse /\ sweep' = sweep /\ task' = task
      /\ topUps' = topUps /\ switches' = switches /\ clock' = clock /\ faults' = faults
  BY DEF CancelByAdmin, world
<1>2. sub' \in [Subs -> Row] /\ \A t \in Subs : Adjusted(sub[t], sub'[t])
  BY <1>1, AdjustRow, AdjustedRows DEF IInv
<1>3. TypeOK'
  BY <1>1, <1>2 DEF IInv, TypeOK
<1>. QED
  BY <1>1, <1>2, <1>3, AdjustStep

\* Steps that write no plan and no cycle: a purse is filled, time passes, a request is rolled back.
LEMMA QuietStep ==
  ASSUME IInv, TypeOK', sub' = sub, cycles' = cycles, ledger' = ledger,
         \A r \in Requests : task'[r] \in {task[r], Idle},
         \A w \in Sweepers : sweep'[w] = sweep[w] \/ ~Renewing(w)'
  PROVE  IInv'
<1>1. \A s \in Subs : Adjusted(sub[s], sub'[s])
  BY DEF Adjusted
<1>. QED
  BY <1>1, AdjustStep

LEMMA OutsideStep ==
  ASSUME IInv, SwitchPlan \/ Tick \/ (\E m \in Members : TopUp(m))
                 \/ (\E r \in Requests : ActivateFails(r) \/ RequestCrash(r))
  PROVE  IInv'
<1>1. ASSUME SwitchPlan PROVE IInv'
  <2>1. TypeOK' /\ UNCHANGED <<sub, cycles, ledger, task, sweep>>
    BY <1>1 DEF SwitchPlan, IInv, TypeOK, db
  <2>. QED
    BY <2>1, QuietStep
<1>2. ASSUME Tick PROVE IInv'
  <2>1. TypeOK' /\ UNCHANGED <<sub, cycles, ledger, task, sweep>>
    BY <1>2 DEF Tick, IInv, TypeOK, db
  <2>. QED
    BY <2>1, QuietStep
<1>3. ASSUME NEW m \in Members, TopUp(m) PROVE IInv'
  <2>1. TypeOK' /\ UNCHANGED <<sub, cycles, ledger, task, sweep>>
    BY <1>3 DEF TopUp, IInv, TypeOK
  <2>. QED
    BY <2>1, QuietStep
<1>4. ASSUME NEW r \in Requests, ActivateFails(r) \/ RequestCrash(r) PROVE IInv'
  <2>1. /\ task' = [task EXCEPT ![r] = Idle] /\ faults' \in {faults, faults + 1}
        /\ UNCHANGED <<sub, cycles, ledger, purse, sweep, topUps, switches, clock>>
    BY <1>4 DEF ActivateFails, RequestCrash, Finish, db, world
  <2>2. TypeOK' /\ \A q \in Requests : task'[q] \in {task[q], Idle}
    BY <2>1, FinishFacts DEF IInv, TypeOK
  <2>. QED
    BY <2>1, <2>2, QuietStep
<1>. QED
  BY <1>1, <1>2, <1>3, <1>4
-----------------------------------------------------------------------------
\* Steps that write the books: a first cycle, a renewal, a missed one.

\* Such a step concerns one plan.
LEMMA WriteStep ==
  ASSUME IInv, TypeOK', LedgerOK', EveryCoinPaysOneCycle', NumberedOnce',
         NEW s \in Subs, \A t \in Subs \ {s} : sub'[t] = sub[t],
         cycles \subseteq cycles', \A c : c.sub # s => (c \in cycles' <=> c \in cycles),
         GoesOn(s), Story(s)',
         \A r \in Requests : task'[r] \in {task[r], Idle},
         \A w \in Sweepers : sweep'[w] = sweep[w] \/ ~Renewing(w)'
  PROVE  IInv'
<1>1. ASSUME NEW t \in Subs \ {s} PROVE Story(t)' /\ GoesOn(t)
  <2>1. Adjusted(sub[t], sub'[t])
    BY DEF Adjusted
  <2>2. \A c : c \in cycles' /\ c.sub = t <=> c \in cycles /\ c.sub = t
    OBVIOUS
  <2>. QED
    BY <2>1, <2>2, StoryStands, AdjustedGoesOn DEF IInv
<1>2. \A t \in Subs : Story(t)' /\ GoesOn(t)
  BY <1>1
<1>3. TasksHold' /\ RunsHold'
  BY <1>2, TasksStand, RunsStand DEF IInv, TypeOK
<1>. QED
  BY <1>2, <1>3 DEF IInv

LEMMA SubscribeStep == ASSUME IInv, NEW r \in Requests, NEW s \in Subs, Subscribe(r, s) PROVE IInv'
<1>. DEFINE row == [status |-> "PENDING", autoRenew |-> TRUE, start |-> clock, end |-> clock + Duration,
                    renewAt |-> clock + Duration, renewals |-> 0, ended |-> FALSE]
<1>1. /\ sub[s].status = "none" /\ task' = [task EXCEPT ![r] = Idle]
      /\ sub' = [sub EXCEPT ![s] = row]
      /\ cycles' = cycles /\ ledger' = ledger /\ purse' = purse /\ sweep' = sweep
      /\ topUps' = topUps /\ switches' = switches /\ clock' = clock /\ faults' = faults
  BY DEF Subscribe, Finish, world
<1>2. clock \in Nat /\ clock + Duration \in Nat
  BY ConstantsAssumption DEF IInv, TypeOK
<1>3. row \in Row
  BY <1>2 DEF Row, Status
<1>4. row.status = "PENDING" /\ row.renewals = 0
  OBVIOUS
<1>. HIDE DEF row
<1>5. sub' \in [Subs -> Row] /\ sub'[s] = row /\ \A t \in Subs \ {s} : sub'[t] = sub[t]
  BY <1>1, <1>3, RowWritten DEF IInv
<1>6. TypeOK' /\ \A q \in Requests : task'[q] \in {task[q], Idle}
  BY <1>1, <1>5, FinishFacts DEF IInv, TypeOK
<1>7. PaidOf(s) = {} /\ PaidOf(s)' = {}
  BY <1>1 DEF IInv, Story, PaidOf
<1>8. GoesOn(s)
  BY <1>4, <1>5, <1>7 DEF GoesOn
<1>9. Story(s)'
  BY <1>1, <1>4, <1>5, <1>7 DEF Story
<1>10. LedgerOK' /\ EveryCoinPaysOneCycle' /\ NumberedOnce'
  BY <1>1 DEF IInv, LedgerOK, EveryCoinPaysOneCycle, NumberedOnce
<1>. QED
  BY <1>1, <1>5, <1>6, <1>8, <1>9, <1>10, WriteStep

\* A cycle whose entry fits is not paid with a Coin that paid before: it takes one.
LEMMA CoinTaken ==
  ASSUME LedgerOK, EveryCoinPaysOneCycle, NEW s, NEW number, NEW start, NEW key, NEW m,
         TakeCoin(m, key), Fits(PaidCycle(s, number, start, key))
  PROVE  ledger' = Append(ledger, key) /\ EntryOf(key) = Len(ledger) + 1
<1>. DEFINE c == PaidCycle(s, number, start, key)
<1>1. c.entry = EntryOf(key) /\ EntryOf(key) \in Nat \ {0}
  BY EntryFacts DEF PaidCycle
<1>2. KeyEntries(key) = {}
  <2>. SUFFICES ASSUME KeyEntries(key) # {} PROVE FALSE
    OBVIOUS
  <2>1. EntryOf(key) \in DOMAIN ledger
    BY EntryFacts
  <2>2. PICK d \in cycles : d.entry = EntryOf(key)
    BY <2>1 DEF EveryCoinPaysOneCycle
  <2>. QED
    BY <1>1, <2>2 DEF Fits
<1>. QED
  BY <1>2, EntryFacts DEF TakeCoin

\* The books after a cycle was paid.
LEMMA BooksPaid ==
  ASSUME LedgerOK, EveryCoinPaysOneCycle, NumberedOnce, cycles \in SUBSET Cycle,
         NEW s \in Subs, NEW number \in Nat, NEW start \in Nat, NEW key \in AnyKey, NEW m,
         TakeCoin(m, key), Fits(PaidCycle(s, number, start, key)),
         cycles' = cycles \cup {PaidCycle(s, number, start, key)}
  PROVE  EveryCoinPaysOneCycle' /\ NumberedOnce'
<1>. DEFINE c == PaidCycle(s, number, start, key)
            n == Len(ledger)
<1>1. c.status = "PAID" /\ c.sub = s /\ c.number = number /\ c.entry = n + 1
  BY CoinTaken DEF PaidCycle
<1>2. ledger' = Append(ledger, key) /\ n \in Nat /\ DOMAIN ledger = 1..n
  BY CoinTaken DEF LedgerOK
<1>3. DOMAIN ledger' = 1..(n + 1)
  BY <1>2 DEF LedgerOK
<1>4. Fits(c) /\ cycles' = cycles \cup {c}
  OBVIOUS
<1>. HIDE DEF c, n
<1>5. ASSUME NEW i \in DOMAIN ledger' PROVE \E d \in cycles' : d.status = "PAID" /\ d.entry = i
  <2>1. CASE i = n + 1
    BY <1>1, <1>4, <2>1
  <2>2. CASE i # n + 1
    <3>1. i \in DOMAIN ledger
      BY <1>2, <1>3, <2>2
    <3>. QED
      BY <1>4, <3>1 DEF EveryCoinPaysOneCycle
  <2>. QED
    BY <2>1, <2>2
<1>6. ASSUME NEW d \in cycles', d.status = "PAID" PROVE d.entry \in DOMAIN ledger'
  <2>1. CASE d = c
    BY <1>1, <1>2, <1>3, <2>1
  <2>2. CASE d \in cycles
    <3>1. d.entry \in DOMAIN ledger
      BY <1>6, <2>2 DEF EveryCoinPaysOneCycle
    <3>. QED
      BY <1>2, <1>3, <3>1
  <2>. QED
    BY <1>4, <2>1, <2>2
<1>7. \A d \in cycles : d.entry # c.entry
  BY <1>1, <1>2, <1>4 DEF Fits
<1>8. ASSUME NEW d \in cycles', NEW e \in cycles', d.entry = e.entry, d.entry # 0 PROVE d = e
  BY <1>4, <1>7, <1>8 DEF EveryCoinPaysOneCycle
<1>9. \A d \in cycles : d.sub = c.sub => d.number # c.number
  BY <1>4 DEF Fits
<1>10. NumberedOnce'
  BY <1>4, <1>9 DEF NumberedOnce
<1>. QED
  BY <1>5, <1>6, <1>8, <1>10 DEF EveryCoinPaysOneCycle

\* The books after a cycle was missed.
LEMMA BooksMissed ==
  ASSUME EveryCoinPaysOneCycle, NumberedOnce, NEW s, NEW number, NEW start, ledger' = ledger,
         Fits(FailedCycle(s, number, start)), cycles' = cycles \cup {FailedCycle(s, number, start)}
  PROVE  EveryCoinPaysOneCycle' /\ NumberedOnce'
<1>. DEFINE c == FailedCycle(s, number, start)
<1>1. c.status = "FAILED" /\ c.sub = s /\ c.number = number /\ c.entry = 0
  BY DEF FailedCycle
<1>2. Fits(c) /\ cycles' = cycles \cup {c}
  OBVIOUS
<1>. HIDE DEF c
<1>3. EveryCoinPaysOneCycle'
  BY <1>1, <1>2 DEF EveryCoinPaysOneCycle
<1>4. \A d \in cycles : d.sub = c.sub => d.number # c.number
  BY <1>2 DEF Fits
<1>5. NumberedOnce'
  BY <1>2, <1>4 DEF NumberedOnce
<1>. QED
  BY <1>3, <1>5
-----------------------------------------------------------------------------
\* The story of a plan after its next cycle was paid.

LEMMA StoryPaid ==
  ASSUME TypeOK, TypeOK', NumberedOnce, NEW s \in Subs, Story(s), NEW c \in Cycle,
         c.sub = s, c.status = "PAID", cycles' = cycles \cup {c},
         sub'[s].status = "ACTIVE", sub'[s].start = c.start, sub'[s].end = c.end,
         c.number = sub'[s].renewals + 1,
         \/ PaidOf(s) = {} /\ c.number = 1
         \/ PaidOf(s) # {} /\ c.number = sub[s].renewals + 2 /\ c.start = sub[s].end
  PROVE  Story(s)'
<1>. DEFINE old == PaidOf(s)
            n == sub[s].renewals
<1>1. PaidOf(s)' = old \cup {c}
  BY DEF PaidOf
<1>2. n \in Nat /\ sub'[s].renewals \in Nat /\ c.number \in Nat
  BY RowFacts DEF TypeOK, Cycle
<1>3. old \subseteq cycles /\ old \subseteq Cycle /\ \A d \in old : d.sub = s /\ d.number \in Nat
  BY DEF PaidOf, TypeOK, Cycle
<1>4. old # {} =>
        /\ {d.number : d \in old} = 1..(n + 1)
        /\ \A d, e \in old : e.number = d.number + 1 => e.start = d.end
        /\ \E d \in old : d.number = n + 1 /\ sub[s].end = d.end
  BY DEF Story
<1>5. \/ old = {} /\ c.number = 1
      \/ old # {} /\ c.number = n + 2 /\ c.start = sub[s].end
  OBVIOUS
<1>. HIDE DEF old, n
<1>6. {d.number : d \in old \cup {c}} = 1..(sub'[s].renewals + 1)
  <2>1. {d.number : d \in old \cup {c}} = {d.number : d \in old} \cup {c.number}
    OBVIOUS
  <2>2. CASE old = {}
    <3>1. c.number = 1 /\ sub'[s].renewals + 1 = 1 /\ {d.number : d \in old} = {}
      BY <1>5, <2>2
    <3>2. 1..1 = {1}
      OBVIOUS
    <3>. QED
      BY <2>1, <3>1, <3>2
  <2>3. CASE old # {}
    <3>1. c.number = n + 2 /\ sub'[s].renewals + 1 = n + 2 /\ {d.number : d \in old} = 1..(n + 1)
      BY <1>4, <1>5, <2>3
    <3>2. 1..(n + 2) = 1..(n + 1) \cup {n + 2}
      BY <1>2
    <3>. QED
      BY <2>1, <3>1, <3>2
  <2>. QED
    BY <2>2, <2>3
<1>7. ASSUME NEW d \in old \cup {c}, NEW e \in old \cup {c}, e.number = d.number + 1
      PROVE  e.start = d.end
  <2>1. CASE d \in old /\ e \in old
    BY <1>4, <1>7, <2>1
  <2>2. CASE d = c
    <3>1. e \in old
      BY <1>2, <1>7, <2>2
    <3>2. e.number \in 1..(n + 1) /\ c.number = n + 2
      BY <1>4, <1>5, <3>1
    <3>. QED
      BY <1>2, <1>7, <2>2, <3>2
  <2>3. CASE d \in old /\ e = c
    <3>1. d.number = n + 1 /\ c.start = sub[s].end
      BY <1>2, <1>3, <1>5, <1>7, <2>3
    <3>2. PICK f \in old : f.number = n + 1 /\ sub[s].end = f.end
      BY <1>4, <2>3
    <3>3. d = f
      BY <1>3, <2>3, <3>1, <3>2 DEF NumberedOnce
    <3>. QED
      BY <2>3, <3>1, <3>2, <3>3
  <2>. QED
    BY <1>7, <2>1, <2>2, <2>3
<1>. QED
  BY <1>1, <1>6, <1>7 DEF Story

\* A reading whose next number is free is of the period that runs.
LEMMA FreshReading ==
  ASSUME IInv, NEW w \in Sweepers, Renewing(w), NEW s \in Subs, s = sweep[w].at,
         NEW c, c.sub = s, c.number = NumberOf(w), Fits(c)
  PROVE  /\ PaidOf(s) # {} /\ sub[s].status # "none"
         /\ sweep[w].row.renewals = sub[s].renewals /\ sweep[w].row.end = sub[s].end
<1>1. /\ sub[s].status # "none" /\ PaidOf(s) # {}
      /\ sweep[w].row.renewals <= sub[s].renewals
      /\ sweep[w].row.renewals = sub[s].renewals => sweep[w].row.end = sub[s].end
  BY DEF IInv, RunsHold
<1>2. sub[s].renewals \in Nat /\ sweep[w].row.renewals \in Nat
  BY RenewingFacts, RowFacts DEF IInv, TypeOK
<1>3. ~(sweep[w].row.renewals < sub[s].renewals)
  <2>. SUFFICES ASSUME sweep[w].row.renewals < sub[s].renewals PROVE FALSE
    OBVIOUS
  <2>1. NumberOf(w) \in 1..(sub[s].renewals + 1)
    BY <1>2 DEF NumberOf
  <2>2. NumberOf(w) \in {d.number : d \in PaidOf(s)}
    BY <1>1, <2>1 DEF IInv, Story
  <2>3. PICK d \in cycles : d.sub = s /\ d.number = NumberOf(w)
    BY <2>2 DEF PaidOf
  <2>. QED
    BY <2>3 DEF Fits
<1>. QED
  BY <1>1, <1>2, <1>3

LEMMA ActivateStep == ASSUME IInv, NEW r \in Requests, Activate(r) PROVE IInv'
<1>. DEFINE c == FirstCycle(r)
<1>1. /\ Doing(r, "activate") /\ task' = [task EXCEPT ![r] = Idle]
      /\ CanSpend(task[r].member, task[r].key) /\ Fits(c) /\ TakeCoin(task[r].member, task[r].key)
      /\ cycles' = cycles \cup {c}
      /\ sub' = [sub EXCEPT ![task[r].sub] =
                    [sub[task[r].sub] EXCEPT !.status = "ACTIVE", !.autoRenew = TRUE,
                                             !.start = c.start, !.end = c.end, !.renewAt = c.end]]
      /\ sweep' = sweep /\ topUps' = topUps /\ switches' = switches /\ clock' = clock /\ faults' = faults
  BY DEF Activate, Activatable, Finish, world
<1>2. PICK s \in Subs : s = task[r].sub
  BY <1>1 DEF IInv, TasksHold, Doing
<1>3. /\ task[r].member \in Members /\ task[r].key \in AnyKey /\ task[r].now \in Nat
      /\ sub[s].status # "none" /\ sub[s] \in Row
  BY <1>1, <1>2, TaskFacts DEF IInv, TasksHold, Doing, AnyKey, TypeOK
<1>4. c = PaidCycle(s, 1, task[r].now, task[r].key) /\ c \in Cycle /\ 1 \in Nat
  BY <1>2, <1>3, CycleTypes DEF FirstCycle, IInv
<1>5. c.sub = s /\ c.number = 1 /\ c.status = "PAID" /\ c.start \in Nat /\ c.end \in Nat
  BY <1>4 DEF PaidCycle, Cycle
<1>6. purse' \in [Members -> Nat] /\ LedgerOK'
  BY <1>1, <1>3, TakeTypes DEF IInv
<1>7. EveryCoinPaysOneCycle' /\ NumberedOnce'
  BY <1>1, <1>3, <1>4, BooksPaid DEF IInv, TypeOK
<1>8. Fits(c) /\ cycles' = cycles \cup {c}
  BY <1>1
<1>. HIDE DEF c
<1>. DEFINE row == [sub[s] EXCEPT !.status = "ACTIVE", !.autoRenew = TRUE,
                                  !.start = c.start, !.end = c.end, !.renewAt = c.end]
<1>9. c.end \in Int \cup {None}
  BY <1>5
<1>10. /\ row \in Row /\ row.status = "ACTIVE" /\ row.start = c.start /\ row.end = c.end
       /\ row.renewals = sub[s].renewals
  BY <1>3, <1>5, <1>9 DEF Row, Status
<1>11. sub' = [sub EXCEPT ![s] = row]
  BY <1>1, <1>2
<1>. HIDE DEF row
<1>12. sub' \in [Subs -> Row] /\ sub'[s] = row /\ \A t \in Subs \ {s} : sub'[t] = sub[t]
  BY <1>10, <1>11, RowWritten DEF IInv
<1>13. TypeOK' /\ \A q \in Requests : task'[q] \in {task[q], Idle}
  BY <1>1, <1>4, <1>6, <1>8, <1>12, FinishFacts DEF IInv, TypeOK
<1>14. PaidOf(s) = {} /\ sub[s].renewals = 0
  <2>1. Story(s) /\ sub[s].renewals \in Nat
    BY <1>3, RowFacts DEF IInv
  <2>2. ASSUME PaidOf(s) # {} PROVE FALSE
    <3>1. {d.number : d \in PaidOf(s)} = 1..(sub[s].renewals + 1)
      BY <2>1, <2>2 DEF Story
    <3>2. 1 \in {d.number : d \in PaidOf(s)}
      BY <2>1, <3>1
    <3>3. PICK d \in cycles : d.sub = s /\ d.number = 1
      BY <3>2 DEF PaidOf
    <3>. QED
      BY <1>5, <1>8, <3>3 DEF Fits
  <2>. QED
    BY <2>1, <2>2 DEF Story
<1>15. Story(s)'
  BY <1>4, <1>5, <1>8, <1>10, <1>12, <1>13, <1>14, StoryPaid DEF IInv
<1>16. GoesOn(s)
  BY <1>10, <1>12, <1>14 DEF GoesOn
<1>17. cycles \subseteq cycles' /\ \A d : d.sub # s => (d \in cycles' <=> d \in cycles)
  BY <1>5, <1>8
<1>. QED
  BY <1>1, <1>6, <1>7, <1>12, <1>13, <1>15, <1>16, <1>17, WriteStep

-----------------------------------------------------------------------------
\* Runs of the sweep.

\* A run that has dealt with a plan, or that is over.
LEMMA RunDone ==
  ASSUME TypeOK, NEW w \in Sweepers, sweep[w] # Idle,
         Proceed(w) \/ sweep' = [sweep EXCEPT ![w] = Idle]
  PROVE  /\ sweep' \in [Sweepers -> Run \cup {Idle}]
         /\ \A v \in Sweepers : sweep'[v] = sweep[v] \/ ~Renewing(v)'
<1>1. sweep[w] \in Run
  BY RunFacts
<1>2. ASSUME Proceed(w)
      PROVE  /\ sweep'[w] \in Run /\ sweep'[w].at = None
             /\ sweep' = [sweep EXCEPT ![w] = [sweep[w] EXCEPT !.at = None, !.row = Absent]]
  BY <1>1, <1>2, AbsentRow DEF Proceed, TypeOK, Run
<1>3. CASE Proceed(w)
  BY <1>2, <1>3 DEF TypeOK, Renewing
<1>4. CASE sweep' = [sweep EXCEPT ![w] = Idle]
  BY <1>4 DEF TypeOK, Renewing, Running
<1>. QED
  BY <1>3, <1>4

\* What a query of the sweep fetched.
LEMMA FetchedRun ==
  ASSUME NEW pass \in {"renew", "expire"}, NEW now \in Nat, NEW B \in Oldest(pass, now)
  PROVE  Fetched(pass, B, now) \in Run /\ Fetched(pass, B, now).at = None
<1>1. B \in SUBSET Subs
  BY DEF Oldest, DueBy
<1>2. (Cardinality(B) >= Batch) \in BOOLEAN
  OBVIOUS
<1>. QED
  BY <1>1, <1>2, AbsentRow DEF Fetched, Run

LEMMA FetchStep == ASSUME IInv, NEW w \in Sweepers, RunStart(w) \/ RunOn(w) PROVE IInv'
<1>1. /\ sub' = sub /\ cycles' = cycles /\ ledger' = ledger /\ purse' = purse /\ task' = task
      /\ topUps' = topUps /\ switches' = switches /\ clock' = clock /\ faults' = faults
  BY DEF RunStart, RunOn, db, world
<1>2. PICK run \in Run \cup {Idle} : sweep' = [sweep EXCEPT ![w] = run] /\ (run # Idle => run.at = None)
  <2>1. CASE RunStart(w)
    <3>1. PICK B \in Oldest("renew", clock) : sweep' = [sweep EXCEPT ![w] = Fetched("renew", B, clock)]
      BY <2>1 DEF RunStart
    <3>2. clock \in Nat
      BY DEF IInv, TypeOK
    <3>. QED
      BY <3>1, <3>2, FetchedRun
  <2>2. CASE RunOn(w)
    <3>1. sweep[w] # Idle /\ sweep[w].pass \in {"renew", "expire"} /\ sweep[w].now \in Nat
      BY <2>2, RunFacts DEF RunOn, IInv
    <3>2. PICK B \in Oldest(sweep[w].pass, sweep[w].now), C \in Oldest("expire", sweep[w].now) :
            sweep' = [sweep EXCEPT ![w] =
                         IF sweep[w].full /\ B # {} THEN Fetched(sweep[w].pass, B, sweep[w].now)
                         ELSE IF sweep[w].pass = "renew" /\ C # {} THEN Fetched("expire", C, sweep[w].now)
                         ELSE Idle]
      BY <2>2 DEF RunOn
    <3>3. /\ Fetched(sweep[w].pass, B, sweep[w].now) \in Run
          /\ Fetched(sweep[w].pass, B, sweep[w].now).at = None
          /\ Fetched("expire", C, sweep[w].now) \in Run /\ Fetched("expire", C, sweep[w].now).at = None
      BY <3>1, FetchedRun
    <3>. QED
      BY <3>2, <3>3
  <2>. QED
    BY <2>1, <2>2
<1>3. TypeOK'
  BY <1>1, <1>2 DEF IInv, TypeOK
<1>4. \A v \in Sweepers : sweep'[v] = sweep[v] \/ ~Renewing(v)'
  BY <1>2 DEF Renewing, Running, IInv, TypeOK
<1>. QED
  BY <1>1, <1>3, <1>4, QuietStep

\* A run leaves a plan alone, or has just read the period that runs.
LEMMA ReadStep == ASSUME IInv, NEW w \in Sweepers, NEW s \in Subs, Read(w, s) PROVE IInv'
<1>. DEFINE taken == [sweep[w] EXCEPT !.due = sweep[w].due \ {s}, !.at = s, !.row = sub[s]]
            left == [sweep[w] EXCEPT !.due = sweep[w].due \ {s}]
            ready == IF sweep[w].pass = "renew" THEN Renewable(s) ELSE Expirable(s, sweep[w].now)
<1>1. /\ sweep[w] # Idle /\ sweep[w].at = None
      /\ sweep' = [sweep EXCEPT ![w] = IF ready THEN taken ELSE left]
      /\ sub' = sub /\ cycles' = cycles /\ ledger' = ledger /\ purse' = purse /\ task' = task
      /\ topUps' = topUps /\ switches' = switches /\ clock' = clock /\ faults' = faults
  BY DEF Read, db, world
<1>2. sweep[w] \in Run /\ sub[s] \in Row /\ sweep[w].due \ {s} \in SUBSET Subs
  BY <1>1, RunFacts DEF IInv, TypeOK
<1>3. /\ taken \in Run /\ taken.pass = sweep[w].pass /\ taken.at = s /\ taken.row = sub[s]
      /\ left \in Run /\ left.at = None
  BY <1>1, <1>2 DEF Run
<1>4. ready => (taken.pass = "renew" => sub[s].status = "ACTIVE")
  BY <1>3 DEF Renewable
<1>. HIDE DEF taken, left, ready
<1>5. PICK run \in {taken, left} : /\ sweep' = [sweep EXCEPT ![w] = run] /\ (run = taken => ready \/ run = left)
  BY <1>1
<1>6. /\ sweep' \in [Sweepers -> Run \cup {Idle}] /\ sweep'[w] = run
      /\ \A v \in Sweepers \ {w} : sweep'[v] = sweep[v]
  BY <1>3, <1>5 DEF IInv, TypeOK
<1>7. TypeOK'
  BY <1>1, <1>6 DEF IInv, TypeOK
<1>8. CASE run = left
  <2>1. ~Renewing(w)'
    BY <1>3, <1>6, <1>8 DEF Renewing
  <2>. QED
    BY <1>1, <1>6, <1>7, <2>1, QuietStep
<1>9. CASE run = taken /\ ready
  <2>1. TasksHold' /\ LedgerOK' /\ EveryCoinPaysOneCycle' /\ NumberedOnce'
    BY <1>1 DEF IInv, TasksHold, LedgerOK, EveryCoinPaysOneCycle, NumberedOnce
  <2>2. \A t \in Subs : Story(t)'
    BY <1>1, StoryStands DEF IInv, Adjusted
  <2>3. \A t \in Subs : PaidOf(t)' = PaidOf(t)
    BY <1>1 DEF PaidOf
  <2>4. RunsHold'
    <3>. SUFFICES ASSUME NEW v \in Sweepers, NEW t \in Subs, Renewing(v)', sweep'[v].at = t
         PROVE  /\ sub'[t].status # "none" /\ PaidOf(t)' # {}
                /\ sweep'[v].row.renewals <= sub'[t].renewals
                /\ sweep'[v].row.renewals = sub'[t].renewals => sweep'[v].row.end = sub'[t].end
      BY DEF RunsHold
    <3>1. CASE v = w
      <4>1. t = s /\ taken.pass = "renew"
        BY <1>3, <1>6, <1>9, <3>1 DEF Renewing, Running
      <4>2. sub[s].status = "ACTIVE" /\ sub[s].renewals \in Nat
        BY <1>2, <1>4, <1>9, <4>1, RowFacts
      <4>3. PaidOf(s) # {}
        BY <4>2 DEF IInv, Story
      <4>4. sub[s].renewals <= sub[s].renewals
        BY <4>2
      <4>. QED
        BY <1>1, <1>3, <1>6, <1>9, <2>3, <3>1, <4>1, <4>2, <4>3, <4>4
    <3>2. CASE v # w
      <4>1. sweep'[v] = sweep[v] /\ Renewing(v)
        BY <1>6, <3>2 DEF Renewing, Running
      <4>. QED
        BY <1>1, <2>3, <4>1 DEF IInv, RunsHold
    <3>. QED
      BY <3>1, <3>2
  <2>. QED
    BY <1>7, <2>1, <2>2, <2>4 DEF IInv
<1>. QED
  BY <1>5, <1>8, <1>9

\* A renewal that is paid.
LEMMA RenewStep == ASSUME IInv, NEW w \in Sweepers, Renew(w) PROVE IInv'
<1>. DEFINE c == RenewalCycle(w)
<1>1. /\ Renewing(w) /\ CanPay(w) /\ Fits(c)
      /\ TakeCoin(Owner[sweep[w].at], RenewalKey(w)) /\ cycles' = cycles \cup {c}
      /\ sub' = [sub EXCEPT ![sweep[w].at] =
                    [sub[sweep[w].at] EXCEPT !.status = "ACTIVE", !.start = c.start, !.end = c.end,
                                             !.renewAt = c.end, !.renewals = sweep[w].row.renewals + 1]]
      /\ Proceed(w)
      /\ topUps' = topUps /\ switches' = switches /\ clock' = clock /\ task' = task /\ faults' = faults
  BY DEF Renew, world
<1>2. PICK s \in Subs : s = sweep[w].at
  BY <1>1, RenewingFacts DEF IInv
<1>3. /\ NumberOf(w) \in Nat /\ sweep[w].row.end \in Nat /\ sweep[w].row.renewals \in Nat
      /\ RenewalKey(w) \in AnyKey /\ Owner[s] \in Members
      /\ NumberOf(w) = sweep[w].row.renewals + 2
  BY <1>1, <1>2, RenewingFacts DEF IInv, NumberOf
<1>4. c = PaidCycle(s, NumberOf(w), sweep[w].row.end, RenewalKey(w)) /\ c \in Cycle
  BY <1>2, <1>3, CycleTypes DEF RenewalCycle, IInv
<1>5. /\ c.sub = s /\ c.number = NumberOf(w) /\ c.status = "PAID" /\ c.start = sweep[w].row.end
      /\ c.start \in Nat /\ c.end \in Nat
  BY <1>4 DEF PaidCycle, Cycle
<1>6. purse' \in [Members -> Nat] /\ LedgerOK'
  BY <1>1, <1>2, <1>3, TakeTypes DEF IInv, CanPay
<1>7. EveryCoinPaysOneCycle' /\ NumberedOnce'
  BY <1>1, <1>3, <1>4, BooksPaid DEF IInv, TypeOK
<1>8. Fits(c) /\ cycles' = cycles \cup {c}
  BY <1>1
<1>. HIDE DEF c
<1>9. /\ PaidOf(s) # {} /\ sub[s].status # "none"
      /\ sweep[w].row.renewals = sub[s].renewals /\ sweep[w].row.end = sub[s].end
  BY <1>1, <1>2, <1>5, <1>8, FreshReading
<1>. DEFINE row == [sub[s] EXCEPT !.status = "ACTIVE", !.start = c.start, !.end = c.end,
                                  !.renewAt = c.end, !.renewals = sweep[w].row.renewals + 1]
<1>10. c.end \in Int \cup {None} /\ sweep[w].row.renewals + 1 \in Nat /\ sub[s] \in Row
  BY <1>3, <1>5 DEF IInv, TypeOK
<1>11. /\ row \in Row /\ row.status = "ACTIVE" /\ row.start = c.start /\ row.end = c.end
       /\ row.renewals = sub[s].renewals + 1
  BY <1>5, <1>9, <1>10 DEF Row, Status
<1>12. sub' = [sub EXCEPT ![s] = row]
  BY <1>1, <1>2
<1>. HIDE DEF row
<1>13. sub' \in [Subs -> Row] /\ sub'[s] = row /\ \A t \in Subs \ {s} : sub'[t] = sub[t]
  BY <1>11, <1>12, RowWritten DEF IInv
<1>14. /\ sweep' \in [Sweepers -> Run \cup {Idle}]
       /\ \A v \in Sweepers : sweep'[v] = sweep[v] \/ ~Renewing(v)'
  BY <1>1, RunDone DEF IInv, Renewing, Running
<1>15. TypeOK' /\ \A q \in Requests : task'[q] \in {task[q], Idle}
  BY <1>1, <1>4, <1>6, <1>8, <1>13, <1>14 DEF IInv, TypeOK
<1>16. /\ sub'[s].status = "ACTIVE" /\ sub'[s].start = c.start /\ sub'[s].end = c.end
       /\ sub'[s].renewals = sub[s].renewals + 1 /\ sub[s].renewals \in Nat
       /\ c.number = sub'[s].renewals + 1 /\ c.number = sub[s].renewals + 2 /\ c.start = sub[s].end
  BY <1>3, <1>5, <1>9, <1>11, <1>13
<1>17. Story(s)'
  BY <1>4, <1>5, <1>8, <1>9, <1>15, <1>16, StoryPaid DEF IInv
<1>18. GoesOn(s)
  BY <1>16 DEF GoesOn
<1>19. cycles \subseteq cycles' /\ \A d : d.sub # s => (d \in cycles' <=> d \in cycles)
  BY <1>5, <1>8
<1>. QED
  BY <1>6, <1>7, <1>13, <1>14, <1>15, <1>17, <1>18, <1>19, WriteStep

\* A renewal that is missed: the paid cycles stay, and the FAILED one is the next.
LEMMA MissedStep == ASSUME IInv, NEW w \in Sweepers, MarkPastDue(w) PROVE IInv'
<1>. DEFINE c == MissedCycle(w)
<1>1. /\ Renewing(w) /\ Fits(c) /\ cycles' = cycles \cup {c}
      /\ sub' = [sub EXCEPT ![sweep[w].at] =
                    [sub[sweep[w].at] EXCEPT !.status = "PAST_DUE", !.renewAt = clock + Grace]]
      /\ Proceed(w) /\ ledger' = ledger /\ purse' = purse
      /\ topUps' = topUps /\ switches' = switches /\ clock' = clock /\ task' = task /\ faults' = faults
  BY DEF MarkPastDue, world
<1>2. PICK s \in Subs : s = sweep[w].at
  BY <1>1, RenewingFacts DEF IInv
<1>3. /\ NumberOf(w) \in Nat /\ sweep[w].row.end \in Nat
      /\ NumberOf(w) = sweep[w].row.renewals + 2
  BY <1>1, <1>2, RenewingFacts DEF IInv, NumberOf
<1>4. c = FailedCycle(s, NumberOf(w), sweep[w].row.end) /\ c \in Cycle
  BY <1>2, <1>3, CycleTypes DEF MissedCycle, IInv
<1>5. c.sub = s /\ c.number = NumberOf(w) /\ c.status = "FAILED"
  BY <1>4 DEF FailedCycle
<1>6. EveryCoinPaysOneCycle' /\ NumberedOnce' /\ LedgerOK'
  BY <1>1, <1>4, BooksMissed DEF IInv, LedgerOK
<1>7. Fits(c) /\ cycles' = cycles \cup {c}
  BY <1>1
<1>. HIDE DEF c
<1>8. PaidOf(s) # {} /\ sub[s].status # "none" /\ sweep[w].row.renewals = sub[s].renewals
  BY <1>1, <1>2, <1>5, <1>7, FreshReading
<1>. DEFINE row == [sub[s] EXCEPT !.status = "PAST_DUE", !.renewAt = clock + Grace]
<1>9. clock + Grace \in Int \cup {None} /\ sub[s] \in Row
  BY ConstantsAssumption DEF IInv, TypeOK
<1>10. /\ row \in Row /\ row.status = "PAST_DUE" /\ row.start = sub[s].start /\ row.end = sub[s].end
       /\ row.renewals = sub[s].renewals
  BY <1>9 DEF Row, Status
<1>11. sub' = [sub EXCEPT ![s] = row]
  BY <1>1, <1>2
<1>. HIDE DEF row
<1>12. sub' \in [Subs -> Row] /\ sub'[s] = row /\ \A t \in Subs \ {s} : sub'[t] = sub[t]
  BY <1>10, <1>11, RowWritten DEF IInv
<1>13. /\ sweep' \in [Sweepers -> Run \cup {Idle}]
       /\ \A v \in Sweepers : sweep'[v] = sweep[v] \/ ~Renewing(v)'
  BY <1>1, RunDone DEF IInv, Renewing, Running
<1>14. TypeOK' /\ \A q \in Requests : task'[q] \in {task[q], Idle}
  BY <1>1, <1>4, <1>7, <1>12, <1>13 DEF IInv, TypeOK
<1>15. PaidOf(s)' = PaidOf(s)
  BY <1>5, <1>7 DEF PaidOf
<1>16. c \in cycles' /\ c.number = sub'[s].renewals + 2
  BY <1>3, <1>5, <1>7, <1>8, <1>10, <1>12
<1>17. Story(s)'
  <2>1. Story(s)
    BY DEF IInv
  <2>2. /\ {d.number : d \in PaidOf(s)'} = 1..(sub'[s].renewals + 1)
        /\ \A d, e \in PaidOf(s)' : e.number = d.number + 1 => e.start = d.end
        /\ \E d \in PaidOf(s)' :
              d.number = sub'[s].renewals + 1 /\ sub'[s].start = d.start /\ sub'[s].end = d.end
    BY <1>8, <1>10, <1>12, <1>15, <2>1 DEF Story
  <2>. QED
    BY <1>5, <1>8, <1>10, <1>12, <1>15, <1>16, <2>2 DEF Story
<1>18. GoesOn(s)
  BY <1>10, <1>12 DEF GoesOn
<1>19. cycles \subseteq cycles' /\ \A d : d.sub # s => (d \in cycles' <=> d \in cycles)
  BY <1>5, <1>7
<1>. QED
  BY <1>6, <1>12, <1>13, <1>14, <1>17, <1>18, <1>19, WriteStep

\* The expiring pass only ends plans.
LEMMA ExpireStep == ASSUME IInv, NEW w \in Sweepers, Expire(w) PROVE IInv'
<1>1. /\ sweep[w] # Idle /\ sweep[w].at # None
      /\ sub' = [sub EXCEPT ![sweep[w].at] =
                    [sub[sweep[w].at] EXCEPT !.status = "EXPIRED", !.autoRenew = FALSE,
                                             !.renewAt = None, !.ended = TRUE]]
      /\ Proceed(w) /\ cycles' = cycles /\ ledger' = ledger /\ purse' = purse /\ task' = task
      /\ topUps' = topUps /\ switches' = switches /\ clock' = clock /\ faults' = faults
  BY DEF Expire, Running, world
<1>2. PICK s \in Subs : s = sweep[w].at
  BY <1>1, RunFacts DEF IInv
<1>3. sub' \in [Subs -> Row] /\ \A t \in Subs : Adjusted(sub[t], sub'[t])
  BY <1>1, <1>2, AdjustRow, AdjustedRows DEF IInv
<1>4. /\ sweep' \in [Sweepers -> Run \cup {Idle}]
      /\ \A v \in Sweepers : sweep'[v] = sweep[v] \/ ~Renewing(v)'
  BY <1>1, RunDone DEF IInv
<1>5. TypeOK'
  BY <1>1, <1>3, <1>4 DEF IInv, TypeOK
<1>. QED
  BY <1>1, <1>3, <1>4, <1>5, AdjustStep

\* A run that meets an index or dies has written nothing.
LEMMA StopStep == ASSUME IInv, NEW w \in Sweepers, RenewFails(w) \/ RunCrash(w) PROVE IInv'
<1>1. /\ sweep[w] # Idle /\ sweep' = [sweep EXCEPT ![w] = Idle] /\ faults' \in {faults, faults + 1}
      /\ sub' = sub /\ cycles' = cycles /\ ledger' = ledger /\ purse' = purse /\ task' = task
      /\ topUps' = topUps /\ switches' = switches /\ clock' = clock
  BY DEF RenewFails, RunCrash, Renewing, Running, db, world
<1>2. /\ sweep' \in [Sweepers -> Run \cup {Idle}]
      /\ \A v \in Sweepers : sweep'[v] = sweep[v] \/ ~Renewing(v)'
  BY <1>1, RunDone DEF IInv
<1>3. TypeOK'
  BY <1>1, <1>2 DEF IInv, TypeOK
<1>. QED
  BY <1>1, <1>2, <1>3, QuietStep
-----------------------------------------------------------------------------
\* Invariance.

\* Before anything happened there is no plan, no cycle and no entry.
LEMMA InitHolds == ASSUME Init PROVE IInv
<1>1. TypeOK
  BY ConstantsAssumption, AbsentRow DEF Init, TypeOK
<1>2. LedgerOK /\ TasksHold /\ RunsHold /\ EveryCoinPaysOneCycle /\ NumberedOnce
  BY DEF Init, LedgerOK, TasksHold, RunsHold, Renewing, Running, EveryCoinPaysOneCycle, NumberedOnce
<1>3. ASSUME NEW s \in Subs PROVE Story(s)
  <2>1. sub[s].status = "none" /\ sub[s].renewals = 0 /\ PaidOf(s) = {} /\ cycles = {}
    BY DEF Init, Absent, PaidOf
  <2>. QED
    BY <2>1 DEF Story
<1>. QED
  BY <1>1, <1>2, <1>3 DEF IInv

\* Every step of a request, a run, the Admin, the wallet or the clock keeps the invariant.
LEMMA NextHolds == ASSUME IInv, [Next]_vars PROVE IInv'
<1>1. ASSUME UNCHANGED vars PROVE IInv'
  <2>1. /\ sub' = sub /\ cycles' = cycles /\ ledger' = ledger /\ purse' = purse /\ task' = task
        /\ topUps' = topUps /\ switches' = switches /\ clock' = clock /\ sweep' = sweep /\ faults' = faults
    BY <1>1 DEF vars
  <2>2. TypeOK'
    BY <2>1 DEF IInv, TypeOK
  <2>. QED
    BY <2>1, <2>2, QuietStep
<1>2. ASSUME NEW r \in Requests, RequestBegins(r) \/ RequestEnds(r) \/ RequestCrash(r) PROVE IInv'
  <2>1. CASE RequestBegins(r)
    BY <2>1, BeginsStep
  <2>2. CASE RequestEnds(r)
    BY <2>2, SubscribeStep, ActivateStep, OutsideStep, CancelStep, ResumeStep DEF RequestEnds
  <2>3. CASE RequestCrash(r)
    BY <2>3, OutsideStep
  <2>. QED
    BY <1>2, <2>1, <2>2, <2>3
<1>3. ASSUME NEW w \in Sweepers, RunStep(w) \/ RunCrash(w) PROVE IInv'
  <2>1. CASE RunStep(w)
    BY <2>1, FetchStep, RenewStep, MissedStep, StopStep, ExpireStep, ReadStep DEF RunStep
  <2>2. CASE RunCrash(w)
    BY <2>2, StopStep
  <2>. QED
    BY <1>3, <2>1, <2>2
<1>4. ASSUME NEW s \in Subs, CancelByAdmin(s) PROVE IInv'
  BY <1>4, AdminStep
<1>5. ASSUME (\E m \in Members : TopUp(m)) \/ SwitchPlan \/ Tick PROVE IInv'
  BY <1>5, OutsideStep
<1>. QED
  BY <1>1, <1>2, <1>3, <1>4, <1>5 DEF Next

\* The inductive invariant: types, what requests and runs have read of the plans they are
\* at, the books of cycles and entries, and the story of each plan.
THEOREM Invariance == Spec => []IInv
<1>1. Init => IInv
  BY InitHolds
<1>2. IInv /\ [Next]_vars => IInv'
  BY NextHolds
<1>. QED
  BY <1>1, <1>2, PTL DEF Spec

\* Every Coin that activate or renew took paid for one cycle, and every paid cycle has its
\* Coin, however many requests and runs of the sweep meet at a plan.
THEOREM CoinPaysOnce == Spec => []EveryCoinPaysOneCycle
<1>1. IInv => EveryCoinPaysOneCycle
  BY DEF IInv
<1>. QED
  BY <1>1, Invariance, PTL

\* A plan that runs is paid up to its period: its paid cycles follow each other without a
\* gap, the last is the period of its row, and PAST_DUE has the attempt that failed.
THEOREM PaidUp == Spec => []PlanIsPaidUp
<1>1. ASSUME IInv PROVE PlanIsPaidUp
  <2>1. ASSUME NEW s \in Subs, PaidOf(s) # {}
        PROVE  /\ {c.number : c \in PaidOf(s)} = 1..(sub[s].renewals + 1)
               /\ \A c, d \in PaidOf(s) : c.number = d.number => c = d
               /\ \A c, d \in PaidOf(s) : d.number = c.number + 1 => d.start = c.end
               /\ \E c \in PaidOf(s) :
                     /\ c.number = sub[s].renewals + 1
                     /\ sub[s].start = c.start /\ sub[s].end = c.end
    <3>1. Story(s)
      BY <1>1 DEF IInv
    <3>2. \A c, d \in PaidOf(s) : c.number = d.number => c = d
      BY <1>1 DEF IInv, NumberedOnce, PaidOf
    <3>. QED
      BY <2>1, <3>1, <3>2 DEF Story
  <2>2. PeriodFollowsCycles
    BY <2>1 DEF PeriodFollowsCycles
  <2>3. RunningPlanWasPaid
    BY <1>1 DEF IInv, Story, RunningPlanWasPaid
  <2>. QED
    BY <2>2, <2>3 DEF PlanIsPaidUp
<1>. QED
  BY <1>1, Invariance, PTL
=============================================================================
