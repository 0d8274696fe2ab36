------------------------------ MODULE DailyReward ------------------------------
(***************************************************************************)
(* The daily check-in of one member and the ladder of rewards the Admin    *)
(* edits.  A request takes the business day it starts in, looks for the    *)
(* check-in of that day and for the newest one, in either order, then for  *)
(* the rule of the streak day, and pays and records in one transaction, in *)
(* which the unique (user, day) row and the unique ledger entry of a       *)
(* check-in are the real guards.  Midnight, other check-ins and the Admin  *)
(* may come in between any two of these steps.                             *)
(***************************************************************************)
EXTENDS Integers, Sequences, FiniteSets

CONSTANTS
    Requests,      \* requests served at once
    Keys,          \* Idempotency-Keys clients send
    NoKey,         \* a request without one
    Ladder,        \* LADDER_LENGTH: days of the ladder
    MaxDay,        \* bound: business days
    MaxRules,      \* bound: rules of the ladder
    MaxOffers,     \* bound: rewards the Admin ever offers
    MaxEntries     \* bound: movements of the ledger

VARIABLES
    today,         \* the business day in Vietnam
    rules,         \* RewardRule rows, oldest first
    offered,       \* for the properties only: what rules in force have paid for which day
    entries,       \* movements of the ledger, of every kind, with their keys
    checkIns,      \* DailyCheckIn rows
    req            \* what each request has read

vars == <<today, rules, offered, entries, checkIns, req>>

Streak == 1..Ladder

\* Whether a rule pays any Coins to the main balance; one that pays nothing is as good as off.
Rule == [streak : Streak, pays : {"main", "bonus"}, active : BOOLEAN]

Idle == [op |-> "idle"]

\* The newest check-in has not been looked for.
Unread == -1

Init ==
    /\ today = 1
    /\ rules = <<>> /\ offered = {} /\ entries = <<>> /\ checkIns = {}
    /\ req = [r \in Requests |-> Idle]

Midnight ==
    /\ today < MaxDay /\ today' = today + 1
    /\ UNCHANGED <<rules, offered, entries, checkIns, req>>

\* A guard of the code throws, or the transaction of the request is rolled back.
Abort(r) ==
    /\ req[r] # Idle
    /\ req' = [req EXCEPT ![r] = Idle]
    /\ UNCHANGED <<today, rules, offered, entries, checkIns>>

-----------------------------------------------------------------------------
\* Mutant: a streak goes on from the last check-in, whenever it was.
AnyBefore(c, day) == c.day < day

IsYesterday(c, day) == c.day = day - 1

\* The streak that a check-in on that day goes on from: 0 after a gap.
StreakOn(day) ==
    LET last == {c \in checkIns : /\ \A d \in checkIns : d.day <= c.day
                                  /\ IsYesterday(c, day)}
    IN  IF last = {} THEN 0 ELSE (CHOOSE c \in last : TRUE).streak

\* The day of the ladder that follows.
NextStreakDay(streak) == (streak % Ladder) + 1

\* status: the day of the ladder the screen announces.
Announced ==
    LET done == {c \in checkIns : c.day = today}
        streak == IF done # {} THEN (CHOOSE c \in done : TRUE).streak ELSE StreakOn(today)
    IN  NextStreakDay(streak)

\* checkIn takes the business day, and sends its two queries.
BeginCheckIn(r, key) ==
    /\ req[r] = Idle
    /\ req' = [req EXCEPT ![r] = [op |-> "look", key |-> key, day |-> today,
                                  absent |-> FALSE, on |-> Unread]]
    /\ UNCHANGED <<today, rules, offered, entries, checkIns>>

\* The day has not been checked in; a request that finds it has ends.
ReadToday(r) ==
    /\ req[r].op = "look" /\ ~req[r].absent
    /\ \A c \in checkIns : c.day # req[r].day
    /\ req' = [req EXCEPT ![r].absent = TRUE]
    /\ UNCHANGED <<today, rules, offered, entries, checkIns>>

\* The newest check-in, and the streak to go on from.
ReadNewest(r) ==
    /\ req[r].op = "look" /\ req[r].on = Unread
    /\ req' = [req EXCEPT ![r].on = StreakOn(req[r].day)]
    /\ UNCHANGED <<today, rules, offered, entries, checkIns>>

\* Mutant: any rule pays, whatever day of the ladder it is for.
AnyDayOfLadder(rule, n) == rule.active

InForce(rule, n) == rule.active /\ rule.streak = n

\* rewardOfStreakDay: an active rule of that day; without one nothing is paid or written.
ReadRule(r, i) ==
    /\ req[r].op = "look" /\ req[r].absent /\ req[r].on # Unread
    /\ InForce(rules[i], NextStreakDay(req[r].on))
    /\ req' = [req EXCEPT ![r] = [op |-> "pay", key |-> @.key, day |-> @.day, on |-> @.on,
                                  pays |-> rules[i].pays]]
    /\ UNCHANGED <<today, rules, offered, entries, checkIns>>

\* The movement of whatever kind that a key was used for before, if any.
Replayed(key) == {e \in DOMAIN entries : key # NoKey /\ entries[e].key = key}

\* Mutant: nothing makes the day unique.
AnyDay(day, entry) == \A c \in checkIns : c.entry # entry

\* The unique indexes of daily_check_ins.
Unique(day, entry) == \A c \in checkIns : c.day # day /\ c.entry # entry

\* The credit, or the movement its key finds again, and the row, which is granted what
\* that movement moved; both or, when a row is there, neither.
CheckIn(r) ==
    LET q == req[r]
        streak == NextStreakDay(q.on)
        fresh == Replayed(q.key) = {}
        entry == IF fresh THEN Len(entries) + 1 ELSE CHOOSE e \in Replayed(q.key) : TRUE
    IN  /\ q.op = "pay"
        /\ fresh => Len(entries) < MaxEntries
        /\ Unique(q.day, entry)
        /\ entries' = IF fresh THEN Append(entries, [kind |-> "reward", key |-> q.key,
                                                     streak |-> streak, pays |-> q.pays])
                      ELSE entries
        /\ checkIns' = checkIns \cup {[day |-> q.day, streak |-> streak, continued |-> q.on > 0,
                                       entry |-> entry,
                                       granted |-> IF fresh THEN q.pays ELSE "replayed"]}
        /\ req' = [req EXCEPT ![r] = Idle]
        /\ UNCHANGED <<today, rules, offered>>

\* Another request with that key moves Coins: a purchase, a top-up, a correction.
OtherMovement(key) ==
    /\ Len(entries) < MaxEntries /\ Replayed(key) = {}
    /\ entries' = Append(entries, [kind |-> "other", key |-> key, streak |-> 0, pays |-> "other"])
    /\ UNCHANGED <<today, rules, offered, checkIns, req>>

-----------------------------------------------------------------------------
Offer(rule) ==
    /\ offered' = offered \cup
                    (IF rule.active THEN {[streak |-> rule.streak, pays |-> rule.pays]} ELSE {})
    /\ Cardinality(offered') <= MaxOffers

\* The Admin adds a rule under a new code.
CreateRule(rule) ==
    /\ Len(rules) < MaxRules /\ rule.active
    /\ rules' = Append(rules, rule)
    /\ Offer(rule)
    /\ UNCHANGED <<today, entries, checkIns, req>>

\* Switches a rule on or off, or changes its day or what it pays.  Nothing reads a rule that
\* is off, so what it says is settled when it is switched on again.
UpdateRule(i, rule) ==
    /\ rule.active \/ rule = [rules[i] EXCEPT !.active = FALSE]
    /\ rules' = [rules EXCEPT ![i] = rule]
    /\ Offer(rule)
    /\ UNCHANGED <<today, entries, checkIns, req>>

Next ==
    \/ Midnight
    \/ \E r \in Requests :
          \/ \E key \in Keys \cup {NoKey} : BeginCheckIn(r, key)
          \/ \E i \in DOMAIN rules : ReadRule(r, i)
          \/ ReadToday(r) \/ ReadNewest(r) \/ CheckIn(r) \/ Abort(r)
    \/ \E key \in Keys : OtherMovement(key)
    \/ \E rule \in Rule : CreateRule(rule) \/ \E i \in DOMAIN rules : UpdateRule(i, rule)

Spec == Init /\ [][Next]_vars

-----------------------------------------------------------------------------
(* "One reward per business day": whatever requests race, repeat a key on   *)
(* another day or run over midnight, the check-ins are on different days,   *)
(* no two on one movement, and every reward that was paid has its check-in, *)
(* for the day of the ladder and with the Coins the row says.               *)
OneRewardADay ==
    /\ \A c, d \in checkIns : c # d => c.day # d.day /\ c.entry # d.entry
    /\ \A e \in DOMAIN entries : entries[e].kind = "reward" =>
          \E c \in checkIns : /\ c.entry = e
                              /\ c.streak = entries[e].streak /\ c.granted = entries[e].pays

(* "A streak continues only when the previous check-in was the business day *)
(* before": a check-in that carries on a streak has the one of the day      *)
(* before under it, one step lower on the ladder; the others start again.   *)
StreakEarned == \A c \in checkIns :
    IF c.continued THEN \E d \in checkIns : d.day = c.day - 1 /\ c.streak = (d.streak % Ladder) + 1
                   ELSE c.streak = 1

(* The Admin edits the ladder while members check in: what a reward paid is *)
(* what a rule in force did pay for the day of the ladder it counts as.     *)
PaidAsOffered == \A e \in DOMAIN entries : entries[e].kind = "reward" =>
    [streak |-> entries[e].streak, pays |-> entries[e].pays] \in offered

(* "Pays today's reward", "the ledger entry that credited the Coins": the   *)
(* movement of a check-in is its reward.  A key that another movement was   *)
(* recorded under gives the check-in that movement, and no Coins.           *)
EveryCheckInPays == \A c \in checkIns : entries[c.entry].kind = "reward"

(* "The streak number a check-in today would carry": the day of the ladder  *)
(* the screen announces is the one a check-in of today carries.  Both look  *)
(* before the check-in commits, and one of yesterday may come in between.   *)
AnnouncedIsPaid ==
    [][ \A c \in checkIns' \ checkIns : c.day = today => c.streak = Announced ]_vars

(* reward_rule.prisma: "Exactly one row per streak day is in force at a     *)
(* time".  Nothing stops a second active rule for a day.                    *)
OneRuleADay == \A i, j \in DOMAIN rules :
    rules[i].active /\ rules[j].active /\ rules[i].streak = rules[j].streak => i = j

(* DailyRewardService: "the Coins are bonus Coins so they run out with      *)
(* their lot".  The Coins of a rule go to the main balance.                 *)
PaidAsBonus == \A e \in DOMAIN entries : entries[e].kind = "reward" => entries[e].pays = "bonus"

(* A member earns one reward a business day, for the day of the ladder      *)
(* their streak reached, and of what a rule in force paid for it.           *)
RewardIsEarned == OneRewardADay /\ StreakEarned /\ PaidAsOffered

-----------------------------------------------------------------------------
(* What the proofs add to the properties.                                   *)

Pays == {"main", "bonus"}
Entry == [kind : {"reward", "other"}, key : Keys \cup {NoKey}, streak : Nat, pays : Pays \cup {"other"}]
CheckInRow == [day : Nat, streak : Nat \ {0}, continued : BOOLEAN, entry : Nat,
               granted : Pays \cup {"replayed"}]

Looking == [op : {"look"}, key : Keys \cup {NoKey}, day : Nat, absent : BOOLEAN, on : Nat \cup {Unread}]
Paying == [op : {"pay"}, key : Keys \cup {NoKey}, day : Nat, on : Nat, pays : Pays]

TypeOK ==
    /\ today \in Nat
    /\ rules \in Seq(Rule)
    /\ entries \in Seq(Entry)
    /\ checkIns \subseteq CheckInRow
    /\ req \in [Requests -> {Idle} \cup Looking \cup Paying]

\* The check-in a request goes on from is still there: none is ever taken back.
Continues(q) == q.on > 0 => \E d \in checkIns : d.day = q.day - 1 /\ d.streak = q.on

\* What a request is about to pay was offered for the day of the ladder it pays for.
Offered(q) == q.op = "pay" => [streak |-> NextStreakDay(q.on), pays |-> q.pays] \in offered

RequestsHold == \A r \in Requests : req[r] # Idle => Continues(req[r]) /\ Offered(req[r])

\* A rule in force has been offered.
RulesOffered == \A i \in DOMAIN rules :
    rules[i].active => [streak |-> rules[i].streak, pays |-> rules[i].pays] \in offered

IInv == TypeOK /\ RequestsHold /\ RulesOffered /\ RewardIsEarned
=============================================================================
