----------------------------- MODULE ReviewerBudget -----------------------------
(***************************************************************************)
(* The Token budget of one Reviewer and the production fees it pays: two   *)
(* append-only ledgers, kept here as their sums, written by requests that  *)
(* race.  A fee entry locks the movie and, when it costs Token, the        *)
(* Reviewer; the Admin's grants and take-backs lock the Reviewer only.     *)
(*                                                                         *)
(* A statement sees what is committed when it runs, so the two sums of a   *)
(* balance are read in two steps, and a transaction commits in its last.   *)
(***************************************************************************)
EXTENDS Integers

CONSTANTS
    Requests,      \* requests served at once
    Movies,        \* projects of the Reviewer
    MaxAmount,     \* bound: Token of one entry
    MaxGranted     \* bound: Token granted in all

VARIABLES
    granted,       \* sum of the budget ledger
    allocated,     \* sum of the fee entries the Reviewer wrote
    fee,           \* sum of the fee entries of each movie
    status,        \* Movie.status
    movieLock,     \* who holds the row of a movie; nobody, or one
    reviewerLock,  \* who holds the row of the Reviewer
    req            \* what each request is doing, and the sum it has read

vars == <<granted, allocated, fee, status, movieLock, reviewerLock, req>>

FeeKinds == {"INITIAL", "TOP_UP", "CORRECTION"}
Amounts == -MaxAmount..MaxAmount

Open == {"DRAFT", "ASSIGNED", "IN_PRODUCTION"}

\* Statuses in which a fee may change after the first allocation.
Payable == Open \cup {"UNDER_REVISION"}

Statuses == Payable \cup {"COMPLETED", "CANCELLED"}

Waiting == [pc : {"lock", "granted", "allocated", "write"}, kind : FeeKinds \cup {"GRANT", "REVOKE"},
            movie : Movies, amount : Amounts, read : Int]
Assigning == [pc : {"assign"}, movie : Movies, was : Statuses]
Idle == [pc |-> "idle"]

Init ==
    /\ granted = 0 /\ allocated = 0
    /\ fee = [m \in Movies |-> 0]
    /\ status = [m \in Movies |-> "DRAFT"]
    /\ movieLock = [m \in Movies |-> {}]
    /\ reviewerLock = {}
    /\ req = [r \in Requests |-> Idle]

-----------------------------------------------------------------------------
\* Fees.

\* Mutant: a correction may take the fee to zero.
AllowedDownToZero(kind, amount, state, total) ==
    IF kind = "INITIAL" THEN state = "DRAFT" /\ total = 0 /\ amount > 0
    ELSE /\ state \in Payable /\ total # 0
         /\ kind = "TOP_UP" => amount > 0
         /\ kind = "CORRECTION" => amount # 0 /\ total + amount >= 0

\* assertAllowed
Allowed(kind, amount, state, total) ==
    IF kind = "INITIAL" THEN state = "DRAFT" /\ total = 0 /\ amount > 0
    ELSE /\ state \in Payable /\ total # 0
         /\ kind = "TOP_UP" => amount > 0
         /\ kind = "CORRECTION" => amount # 0 /\ total + amount > 0

Enter(r, pc, kind, m, amount) ==
    /\ req[r] = Idle
    /\ req' = [req EXCEPT ![r] =
                 [pc |-> pc, kind |-> kind, movie |-> m, amount |-> amount, read |-> 0]]
    /\ UNCHANGED <<granted, allocated, fee, status, reviewerLock>>

\* The movie is locked, then its total and status are read; only spending goes on to the Reviewer.
BeginFee(r, m, kind, amount) ==
    /\ movieLock[m] = {}
    /\ Allowed(kind, amount, status[m], fee[m])
    /\ Enter(r, IF amount > 0 THEN "lock" ELSE "write", kind, m, amount)
    /\ movieLock' = [movieLock EXCEPT ![m] = {r}]

\* The Admin grants Token, or takes some back; m is of no meaning here.
BeginBudget(r, kind, m, amount) ==
    /\ amount > 0
    /\ Enter(r, "lock", kind, m, amount)
    /\ UNCHANGED movieLock

-----------------------------------------------------------------------------
\* The balance, under the lock of the Reviewer.

\* Mutant: the balance is read without the lock.
ReadUnlocked(r) ==
    /\ req[r].pc = "lock"
    /\ req' = [req EXCEPT ![r].pc = IF req[r].kind = "GRANT" THEN "write" ELSE "granted"]
    /\ UNCHANGED <<granted, allocated, fee, status, movieLock, reviewerLock>>

LockReviewer(r) ==
    /\ req[r].pc = "lock"
    /\ reviewerLock = {}
    /\ reviewerLock' = {r}
    /\ req' = [req EXCEPT ![r].pc = IF req[r].kind = "GRANT" THEN "write" ELSE "granted"]
    /\ UNCHANGED <<granted, allocated, fee, status, movieLock>>

ReadGranted(r) ==
    /\ req[r].pc = "granted"
    /\ req' = [req EXCEPT ![r].pc = "allocated", ![r].read = granted]
    /\ UNCHANGED <<granted, allocated, fee, status, movieLock, reviewerLock>>

\* Enough is left; otherwise the request fails (Rollback).
ReadAllocated(r) ==
    /\ req[r].pc = "allocated"
    /\ req[r].read - allocated >= req[r].amount
    /\ req' = [req EXCEPT ![r].pc = "write"]
    /\ UNCHANGED <<granted, allocated, fee, status, movieLock, reviewerLock>>

Unlock(r) ==
    /\ movieLock' = [m \in Movies |-> movieLock[m] \ {r}]
    /\ reviewerLock' = reviewerLock \ {r}
    /\ req' = [req EXCEPT ![r] = Idle]

Rollback(r) ==
    /\ req[r].pc # "idle"
    /\ Unlock(r)
    /\ UNCHANGED <<granted, allocated, fee, status>>

\* The fee entry is inserted and the transaction commits.
WriteFee(r) == LET q == req[r] IN
    /\ q.pc = "write" /\ q.kind \in FeeKinds
    /\ fee' = [fee EXCEPT ![q.movie] = @ + q.amount]
    /\ allocated' = allocated + q.amount
    /\ Unlock(r)
    /\ UNCHANGED <<granted, status>>

\* The budget entry is inserted; REVOKE with its amount negated.
WriteBudget(r) == LET q == req[r] IN
    /\ q.pc = "write" /\ q.kind \in {"GRANT", "REVOKE"}
    /\ q.kind = "GRANT" => granted + q.amount <= MaxGranted
    /\ granted' = IF q.kind = "GRANT" THEN granted + q.amount ELSE granted - q.amount
    /\ Unlock(r)
    /\ UNCHANGED <<allocated, fee, status>>

-----------------------------------------------------------------------------
\* The project meanwhile.

\* assignCreator reads the fee outside its transaction and takes no lock.
BeginAssign(r, m) ==
    /\ req[r] = Idle
    /\ status[m] \in Open /\ fee[m] > 0
    /\ req' = [req EXCEPT ![r] = [pc |-> "assign", movie |-> m, was |-> status[m]]]
    /\ UNCHANGED <<granted, allocated, fee, status, movieLock, reviewerLock>>

CommitAssign(r) == LET m == req[r].movie IN
    /\ req[r].pc = "assign"
    /\ movieLock[m] = {} /\ status[m] \in Open
    /\ status' = [status EXCEPT ![m] = IF req[r].was = "DRAFT" THEN "ASSIGNED" ELSE req[r].was]
    /\ req' = [req EXCEPT ![r] = Idle]
    /\ UNCHANGED <<granted, allocated, fee, movieLock, reviewerLock>>

\* cancel; the Token spent stays a cost.
Cancel(m) ==
    /\ movieLock[m] = {} /\ status[m] \in Open
    /\ status' = [status EXCEPT ![m] = "CANCELLED"]
    /\ UNCHANGED <<granted, allocated, fee, movieLock, reviewerLock, req>>

\* The hand-off, the last release and a take-down to fix move an assigned project on.
Proceed(m) ==
    /\ movieLock[m] = {}
    /\ \E move \in {<<"ASSIGNED", "IN_PRODUCTION">>, <<"IN_PRODUCTION", "COMPLETED">>,
                    <<"COMPLETED", "UNDER_REVISION">>, <<"UNDER_REVISION", "COMPLETED">>} :
          status[m] = move[1] /\ status' = [status EXCEPT ![m] = move[2]]
    /\ UNCHANGED <<granted, allocated, fee, movieLock, reviewerLock, req>>

Step(r) ==
    \/ LockReviewer(r) \/ ReadGranted(r) \/ ReadAllocated(r)
    \/ WriteFee(r) \/ WriteBudget(r) \/ CommitAssign(r) \/ Rollback(r)

Next ==
    \/ \E r \in Requests, m \in Movies :
          \/ \E amount \in Amounts :
                \/ \E kind \in FeeKinds : BeginFee(r, m, kind, amount)
                \/ \E kind \in {"GRANT", "REVOKE"} : BeginBudget(r, kind, m, amount)
          \/ BeginAssign(r, m)
    \/ \E r \in Requests : Step(r)
    \/ \E m \in Movies : Cancel(m) \/ Proceed(m)

Spec == Init /\ [][Next]_vars

-----------------------------------------------------------------------------
(* Types: a fee never goes below zero.                                      *)
TypeOK ==
    /\ granted \in Int /\ allocated \in Int
    /\ fee \in [Movies -> Nat]
    /\ status \in [Movies -> Statuses]
    /\ movieLock \in [Movies -> SUBSET Requests]
    /\ req \in [Requests -> {Idle} \cup Waiting \cup Assigning]

(* BR-45: fees never take more than the Admin granted and has not taken     *)
(* back, through any race of fees of several movies, corrections (which     *)
(* skip the lock of the Reviewer), grants and take-backs.                   *)
NeverOverspent == allocated <= granted

(* BR-12, BR-46: a project that left DRAFT is paid for, although the fee is *)
(* read before the transaction that assigns it and without a lock: no       *)
(* correction takes it back to nothing.  A fee that was allocated never     *)
(* returns to zero, so there is one INITIAL entry.                          *)
AssignedIsFunded == \A m \in Movies :
    status[m] \in Statuses \ {"DRAFT", "CANCELLED"} => fee[m] > 0

(* The two ledgers agree: what is granted covers what is allocated, and     *)
(* every assigned project is paid for.                                      *)
FeesAreCovered == NeverOverspent /\ AssignedIsFunded

-----------------------------------------------------------------------------
(* What the proofs add to the properties.                                   *)

Writing(r) == req[r].pc \in {"lock", "granted", "allocated", "write"}

\* Who adjusts a fee holds its movie, and leaves a fee behind.
FeesHeld == \A r \in Requests : Writing(r) /\ req[r].kind \in FeeKinds =>
    /\ movieLock[req[r].movie] = {r}
    /\ fee[req[r].movie] + req[r].amount > 0

\* Who reads the balance or takes from it holds the Reviewer, so what was read stands.
BalanceHeld == \A r \in Requests : Writing(r) =>
    /\ req[r].kind \notin FeeKinds => req[r].amount > 0
    /\ req[r].pc # "lock" /\ req[r].amount > 0 => reviewerLock = {r}
    /\ req[r].pc # "write" => req[r].amount > 0
    /\ req[r].pc = "allocated" => req[r].read = granted
    /\ req[r].pc = "write" /\ req[r].amount > 0 /\ req[r].kind # "GRANT" =>
          req[r].amount <= granted - allocated

\* A movie that is about to be assigned has its fee.
AssignsFunded == \A r \in Requests : req[r].pc = "assign" => fee[req[r].movie] > 0

IInv ==
    /\ TypeOK
    /\ FeesHeld /\ BalanceHeld /\ AssignsFunded
    /\ NeverOverspent /\ AssignedIsFunded
=============================================================================
