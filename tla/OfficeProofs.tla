------------------------------ MODULE OfficeProofs ------------------------------
(***************************************************************************)
(* The components that MCStudio and MCOffice check side by side, proved one *)
(* after the other.  In a step one of them works and the others stand still, *)
(* so each has its own inductive invariant and is proved as if it were alone. *)
(***************************************************************************)
EXTENDS MCStudio, MCOffice, SumTheorems, TLAPS

-----------------------------------------------------------------------------
(* The rows of a table that are all rewritten, or one of them, are as many  *)
(* as before.                                                               *)
LEMMA RowsOf ==
  ASSUME NEW S, NEW s \in Seq(S)
  PROVE  /\ Len(s) \in Nat /\ DOMAIN s = 1..Len(s)
         /\ \A i \in DOMAIN s : s[i] \in S
OBVIOUS

LEMMA AllRewritten ==
  ASSUME NEW S, NEW s \in Seq(S), NEW t \in [DOMAIN s -> S]
  PROVE  t \in Seq(S) /\ Len(t) = Len(s) /\ DOMAIN t = DOMAIN s
<1>1. t \in [1..Len(s) -> S] /\ Len(s) \in Nat
  BY RowsOf
<1>2. t \in Seq(S)
  BY <1>1
<1>. QED
  BY <1>1, <1>2, RowsOf

LEMMA OneRewritten ==
  ASSUME NEW S, NEW s \in Seq(S), NEW k, NEW new, k \in DOMAIN s => new \in S
  PROVE  /\ [s EXCEPT ![k] = new] \in Seq(S) /\ Len([s EXCEPT ![k] = new]) = Len(s)
         /\ DOMAIN [s EXCEPT ![k] = new] = DOMAIN s
         /\ \A i \in DOMAIN s : [s EXCEPT ![k] = new][i] = IF i = k THEN new ELSE s[i]
<1>. DEFINE t == [s EXCEPT ![k] = new]
<1>1. \A i \in DOMAIN s : t[i] = IF i = k THEN new ELSE s[i]
  OBVIOUS
<1>2. t \in [DOMAIN s -> S]
  BY <1>1, RowsOf
<1>. QED
  BY <1>1, <1>2, AllRewritten

LEMMA RowAdded ==
  ASSUME NEW S, NEW s \in Seq(S), NEW new \in S
  PROVE  /\ Append(s, new) \in Seq(S) /\ Len(Append(s, new)) = Len(s) + 1
         /\ DOMAIN Append(s, new) = 1..(Len(s) + 1) /\ Append(s, new)[Len(s) + 1] = new
         /\ \A i \in DOMAIN s : Append(s, new)[i] = s[i]
OBVIOUS

-----------------------------------------------------------------------------

(* In a step of the studio one part works, and the others stand still.      *)
LEMMA StudioStep ==
  ASSUME [StudioNext]_studioVars
  PROVE  /\ Planning!Next \/ UNCHANGED planningVars
         /\ Portal!Next \/ UNCHANGED portalVars
         /\ Budget!Next \/ UNCHANGED budgetVars
         /\ Price!Next \/ UNCHANGED priceVars
BY DEF StudioNext, studioVars

-----------------------------------------------------------------------------
(***************************************************************************)
(* Reviewer budget.  Fees never take more Token than was granted, and every *)
(* assigned project is paid for.                                           *)
(*                                                                         *)
(* A request that takes from the balance holds the Reviewer from its first *)
(* read to its commit, so nobody else grants, takes back or spends in      *)
(* between; corrections skip that lock, and only lower what is allocated.  *)
(* A request that changes a fee holds the movie, and no entry takes a fee  *)
(* back to zero: the fee an assignment read without a lock is still there. *)
(***************************************************************************)

\* A request between its first and its last step is the record of its call.
LEMMA WritingRecord ==
  ASSUME MaxAmount \in Nat, Budget!TypeOK, NEW r \in Staff, Budget!Writing(r)
  PROVE  /\ budget[r] \in Budget!Waiting
         /\ budget[r].movie \in Movies /\ budget[r].amount \in Int /\ budget[r].read \in Int
         /\ budget[r].kind \in Budget!FeeKinds \cup {"GRANT", "REVOKE"}
<1>1. budget[r] \in {Budget!Idle} \cup Budget!Waiting \cup Budget!Assigning
  BY DEF Budget!TypeOK
<1>2. budget[r] # Budget!Idle /\ budget[r] \notin Budget!Assigning
  BY DEF Budget!Writing, Budget!Idle, Budget!Assigning
<1>3. budget[r] \in Budget!Waiting
  BY <1>1, <1>2
<1>. QED
  BY <1>3 DEF Budget!Waiting, Budget!Amounts

LEMMA AssigningRecord ==
  ASSUME Budget!TypeOK, NEW r \in Staff, budget[r].pc = "assign"
  PROVE  budget[r] \in Budget!Assigning /\ budget[r].movie \in Movies /\ budget[r].was \in Budget!Statuses
<1>1. budget[r] \in {Budget!Idle} \cup Budget!Waiting \cup Budget!Assigning
  BY DEF Budget!TypeOK
<1>2. budget[r] # Budget!Idle /\ budget[r] \notin Budget!Waiting
  BY DEF Budget!Idle, Budget!Waiting
<1>. QED
  BY <1>1, <1>2 DEF Budget!Assigning

-----------------------------------------------------------------------------
\* Steps that move one request on and write no ledger.

\* A request that begins a fee locks its movie, which nobody held.
LEMMA BeginFeeStep ==
  ASSUME MaxAmount \in Nat, Budget!IInv, NEW r \in Staff, NEW m \in Movies,
         NEW kind \in Budget!FeeKinds, NEW amount \in Budget!Amounts, Budget!BeginFee(r, m, kind, amount)
  PROVE  Budget!IInv'
<1>. DEFINE pc == IF amount > 0 THEN "lock" ELSE "write"
            q == [pc |-> pc, kind |-> kind, movie |-> m, amount |-> amount, read |-> 0]
<1>1. /\ budget[r] = Budget!Idle /\ budget' = [budget EXCEPT ![r] = q]
      /\ movieLock[m] = {} /\ movieLock' = [movieLock EXCEPT ![m] = {r}]
      /\ Budget!Allowed(kind, amount, status[m], fee[m])
      /\ UNCHANGED <<granted, allocated, fee, status, reviewerLock>>
  BY DEF Budget!BeginFee, Budget!Enter
<1>2. q \in Budget!Waiting /\ amount \in Int /\ fee[m] \in Nat
  BY DEF Budget!Waiting, Budget!Amounts, Budget!IInv, Budget!TypeOK
<1>3. fee[m] + amount > 0
  BY <1>1, <1>2 DEF Budget!Allowed, Budget!FeeKinds
<1>4. Budget!TypeOK'
  BY <1>1, <1>2 DEF Budget!IInv, Budget!TypeOK
<1>5. \A s \in Staff : budget'[s] = IF s = r THEN q ELSE budget[s]
  BY <1>1 DEF Budget!IInv, Budget!TypeOK
<1>6. \A n \in Movies : movieLock'[n] = IF n = m THEN {r} ELSE movieLock[n]
  BY <1>1 DEF Budget!IInv, Budget!TypeOK
<1>7. Budget!FeesHeld'
  <2>1. SUFFICES ASSUME NEW s \in Staff, Budget!Writing(s)', budget'[s].kind \in Budget!FeeKinds
                 PROVE  movieLock'[budget'[s].movie] = {s} /\ fee'[budget'[s].movie] + budget'[s].amount > 0
    BY DEF Budget!FeesHeld
  <2>2. CASE s = r
    BY <2>2, <1>1, <1>3, <1>5, <1>6
  <2>3. CASE s # r
    <3>1. Budget!Writing(s) /\ budget'[s] = budget[s]
      BY <2>1, <2>3, <1>5 DEF Budget!Writing
    <3>2. budget[s].movie \in Movies
      BY <3>1, WritingRecord DEF Budget!IInv
    <3>3. movieLock[budget[s].movie] = {s} /\ fee[budget[s].movie] + budget[s].amount > 0
      BY <2>1, <3>1 DEF Budget!IInv, Budget!FeesHeld
    <3>. QED
      BY <3>1, <3>2, <3>3, <1>1, <1>6
  <2>. QED
    BY <2>2, <2>3
<1>8. Budget!BalanceHeld'
  BY <1>1, <1>2, <1>5 DEF Budget!IInv, Budget!BalanceHeld, Budget!Writing
<1>9. Budget!AssignsFunded' /\ Budget!NeverOverspent' /\ Budget!AssignedIsFunded'
  BY <1>1, <1>5 DEF Budget!IInv, Budget!AssignsFunded, Budget!NeverOverspent, Budget!AssignedIsFunded
<1>. QED
  BY <1>4, <1>7, <1>8, <1>9 DEF Budget!IInv

LEMMA BeginBudgetStep ==
  ASSUME MaxAmount \in Nat, Budget!IInv, NEW r \in Staff, NEW m \in Movies,
         NEW kind \in {"GRANT", "REVOKE"}, NEW amount \in Budget!Amounts, Budget!BeginBudget(r, kind, m, amount)
  PROVE  Budget!IInv'
<1>. DEFINE q == [pc |-> "lock", kind |-> kind, movie |-> m, amount |-> amount, read |-> 0]
<1>1. /\ budget[r] = Budget!Idle /\ budget' = [budget EXCEPT ![r] = q] /\ amount > 0
      /\ UNCHANGED <<granted, allocated, fee, status, movieLock, reviewerLock>>
  BY DEF Budget!BeginBudget, Budget!Enter
<1>2. q \in Budget!Waiting /\ amount \in Int /\ kind \notin Budget!FeeKinds
  BY DEF Budget!Waiting, Budget!Amounts, Budget!FeeKinds
<1>3. Budget!TypeOK'
  BY <1>1, <1>2 DEF Budget!IInv, Budget!TypeOK
<1>4. \A s \in Staff : budget'[s] = IF s = r THEN q ELSE budget[s]
  BY <1>1 DEF Budget!IInv, Budget!TypeOK
<1>5. Budget!FeesHeld'
  BY <1>1, <1>2, <1>4 DEF Budget!IInv, Budget!FeesHeld, Budget!Writing
<1>6. Budget!BalanceHeld'
  BY <1>1, <1>2, <1>4 DEF Budget!IInv, Budget!BalanceHeld, Budget!Writing
<1>7. Budget!AssignsFunded' /\ Budget!NeverOverspent' /\ Budget!AssignedIsFunded'
  BY <1>1, <1>4 DEF Budget!IInv, Budget!AssignsFunded, Budget!NeverOverspent, Budget!AssignedIsFunded
<1>. QED
  BY <1>3, <1>5, <1>6, <1>7 DEF Budget!IInv

\* Only one request holds the Reviewer.
LEMMA LockReviewerStep ==
  ASSUME MaxAmount \in Nat, Budget!IInv, NEW r \in Staff, Budget!LockReviewer(r)
  PROVE  Budget!IInv'
<1>. DEFINE pc == IF budget[r].kind = "GRANT" THEN "write" ELSE "granted"
<1>1. /\ budget[r].pc = "lock" /\ reviewerLock = {} /\ reviewerLock' = {r}
      /\ budget' = [budget EXCEPT ![r].pc = pc]
      /\ UNCHANGED <<granted, allocated, fee, status, movieLock>>
  BY DEF Budget!LockReviewer
<1>2. Budget!Writing(r) /\ budget[r] \in Budget!Waiting /\ budget[r].amount \in Int
  BY <1>1, WritingRecord DEF Budget!IInv, Budget!Writing
<1>3. [budget[r] EXCEPT !.pc = pc] \in Budget!Waiting
  BY <1>2 DEF Budget!Waiting
<1>4. Budget!TypeOK'
  BY <1>1, <1>3 DEF Budget!IInv, Budget!TypeOK
<1>5. \A s \in Staff : budget'[s] = IF s = r THEN [budget[r] EXCEPT !.pc = pc] ELSE budget[s]
  BY <1>1 DEF Budget!IInv, Budget!TypeOK
<1>6. budget'[r].pc = pc /\ budget'[r].kind = budget[r].kind /\ budget'[r].movie = budget[r].movie
      /\ budget'[r].amount = budget[r].amount /\ budget'[r].read = budget[r].read
  BY <1>2, <1>5 DEF Budget!Waiting
<1>7. Budget!FeesHeld'
  BY <1>1, <1>2, <1>5, <1>6 DEF Budget!IInv, Budget!FeesHeld, Budget!Writing
<1>8. Budget!BalanceHeld'
  BY <1>1, <1>2, <1>5, <1>6 DEF Budget!IInv, Budget!BalanceHeld, Budget!Writing
<1>9. Budget!AssignsFunded' /\ Budget!NeverOverspent' /\ Budget!AssignedIsFunded'
  BY <1>1, <1>5, <1>6 DEF Budget!IInv, Budget!AssignsFunded, Budget!NeverOverspent, Budget!AssignedIsFunded
<1>. QED
  BY <1>4, <1>7, <1>8, <1>9 DEF Budget!IInv

LEMMA ReadGrantedStep ==
  ASSUME MaxAmount \in Nat, Budget!IInv, NEW r \in Staff, Budget!ReadGranted(r)
  PROVE  Budget!IInv'
<1>. DEFINE q == [budget[r] EXCEPT !.pc = "allocated", !.read = granted]
<1>1. /\ budget[r].pc = "granted"
      /\ budget' = [budget EXCEPT ![r] = q]
      /\ UNCHANGED <<granted, allocated, fee, status, movieLock, reviewerLock>>
  BY DEF Budget!ReadGranted
<1>2. Budget!Writing(r) /\ budget[r] \in Budget!Waiting /\ budget[r].amount \in Int
  BY <1>1, WritingRecord DEF Budget!IInv, Budget!Writing
<1>3. q \in Budget!Waiting
  BY <1>2 DEF Budget!Waiting, Budget!IInv, Budget!TypeOK
<1>4. Budget!TypeOK'
  BY <1>1, <1>3 DEF Budget!IInv, Budget!TypeOK
<1>5. \A s \in Staff : budget'[s] = IF s = r THEN q ELSE budget[s]
  BY <1>1 DEF Budget!IInv, Budget!TypeOK
<1>6. budget'[r].pc = "allocated" /\ budget'[r].kind = budget[r].kind /\ budget'[r].movie = budget[r].movie
      /\ budget'[r].amount = budget[r].amount /\ budget'[r].read = granted
  BY <1>2, <1>5 DEF Budget!Waiting
<1>7. Budget!FeesHeld'
  BY <1>1, <1>2, <1>5, <1>6 DEF Budget!IInv, Budget!FeesHeld, Budget!Writing
<1>8. Budget!BalanceHeld'
  BY <1>1, <1>2, <1>5, <1>6 DEF Budget!IInv, Budget!BalanceHeld, Budget!Writing
<1>9. Budget!AssignsFunded' /\ Budget!NeverOverspent' /\ Budget!AssignedIsFunded'
  BY <1>1, <1>5, <1>6 DEF Budget!IInv, Budget!AssignsFunded, Budget!NeverOverspent, Budget!AssignedIsFunded
<1>. QED
  BY <1>4, <1>7, <1>8, <1>9 DEF Budget!IInv

\* What was read of the grants still stands, so enough is left now.
LEMMA ReadAllocatedStep ==
  ASSUME MaxAmount \in Nat, Budget!IInv, NEW r \in Staff, Budget!ReadAllocated(r)
  PROVE  Budget!IInv'
<1>. DEFINE q == [budget[r] EXCEPT !.pc = "write"]
<1>1. /\ budget[r].pc = "allocated" /\ budget[r].read - allocated >= budget[r].amount
      /\ budget' = [budget EXCEPT ![r] = q]
      /\ UNCHANGED <<granted, allocated, fee, status, movieLock, reviewerLock>>
  BY DEF Budget!ReadAllocated
<1>2. Budget!Writing(r) /\ budget[r] \in Budget!Waiting /\ budget[r].amount \in Int
  BY <1>1, WritingRecord DEF Budget!IInv, Budget!Writing
<1>3. q \in Budget!Waiting
  BY <1>2 DEF Budget!Waiting
<1>4. Budget!TypeOK'
  BY <1>1, <1>3 DEF Budget!IInv, Budget!TypeOK
<1>5. \A s \in Staff : budget'[s] = IF s = r THEN q ELSE budget[s]
  BY <1>1 DEF Budget!IInv, Budget!TypeOK
<1>6. budget'[r].pc = "write" /\ budget'[r].kind = budget[r].kind /\ budget'[r].movie = budget[r].movie
      /\ budget'[r].amount = budget[r].amount /\ budget'[r].read = budget[r].read
  BY <1>2, <1>5 DEF Budget!Waiting
<1>7. Budget!FeesHeld'
  BY <1>1, <1>2, <1>5, <1>6 DEF Budget!IInv, Budget!FeesHeld, Budget!Writing
<1>8. budget[r].read = granted /\ granted \in Int /\ allocated \in Int
  BY <1>1, <1>2 DEF Budget!IInv, Budget!BalanceHeld, Budget!TypeOK
<1>9. budget[r].amount <= granted - allocated
  BY <1>1, <1>2, <1>8
<1>10. Budget!BalanceHeld'
  BY <1>1, <1>2, <1>5, <1>6, <1>9 DEF Budget!IInv, Budget!BalanceHeld, Budget!Writing
<1>11. Budget!AssignsFunded' /\ Budget!NeverOverspent' /\ Budget!AssignedIsFunded'
  BY <1>1, <1>5, <1>6 DEF Budget!IInv, Budget!AssignsFunded, Budget!NeverOverspent, Budget!AssignedIsFunded
<1>. QED
  BY <1>4, <1>7, <1>10, <1>11 DEF Budget!IInv
-----------------------------------------------------------------------------
\* Steps that end a request and let go of its locks.

\* A request that ends leaves the locks of the others alone.
LEMMA UnlockStep ==
  ASSUME MaxAmount \in Nat, Budget!IInv, NEW r \in Staff, Budget!Unlock(r)
  PROVE  /\ \A s \in Staff : budget'[s] = IF s = r THEN Budget!Idle ELSE budget[s]
         /\ \A s \in Staff : Budget!Writing(s)' => s # r /\ Budget!Writing(s) /\ budget'[s] = budget[s]
         /\ movieLock' \in [Movies -> SUBSET Staff]
         /\ budget' \in [Staff -> {Budget!Idle} \cup Budget!Waiting \cup Budget!Assigning]
         /\ \A m \in Movies, s \in Staff : s # r /\ movieLock[m] = {s} => movieLock'[m] = {s}
         /\ \A s \in Staff : s # r /\ reviewerLock = {s} => reviewerLock' = {s}
<1>1. \A s \in Staff : budget'[s] = IF s = r THEN Budget!Idle ELSE budget[s]
  BY DEF Budget!Unlock, Budget!IInv, Budget!TypeOK
<1>2. \A s \in Staff : Budget!Writing(s)' => s # r /\ Budget!Writing(s) /\ budget'[s] = budget[s]
  BY <1>1 DEF Budget!Writing, Budget!Idle
<1>3. movieLock' \in [Movies -> SUBSET Staff] /\ budget' \in [Staff -> {Budget!Idle} \cup Budget!Waiting \cup Budget!Assigning]
  BY DEF Budget!Unlock, Budget!IInv, Budget!TypeOK
<1>4. \A m \in Movies, s \in Staff : s # r /\ movieLock[m] = {s} => movieLock'[m] = {s}
  BY DEF Budget!Unlock
<1>5. \A s \in Staff : s # r /\ reviewerLock = {s} => reviewerLock' = {s}
  BY DEF Budget!Unlock
<1>. QED
  BY <1>1, <1>2, <1>3, <1>4, <1>5

LEMMA RollbackStep ==
  ASSUME MaxAmount \in Nat, Budget!IInv, NEW r \in Staff, Budget!Rollback(r)
  PROVE  Budget!IInv'
<1>1. Budget!Unlock(r) /\ UNCHANGED <<granted, allocated, fee, status>>
  BY DEF Budget!Rollback
<1>2. Budget!TypeOK'
  BY <1>1, UnlockStep DEF Budget!IInv, Budget!TypeOK
<1>3. Budget!FeesHeld'
  <2>1. SUFFICES ASSUME NEW s \in Staff, Budget!Writing(s)', budget'[s].kind \in Budget!FeeKinds
                 PROVE  movieLock'[budget'[s].movie] = {s} /\ fee'[budget'[s].movie] + budget'[s].amount > 0
    BY DEF Budget!FeesHeld
  <2>2. s # r /\ Budget!Writing(s) /\ budget'[s] = budget[s] /\ budget[s].movie \in Movies
    BY <1>1, <2>1, UnlockStep, WritingRecord DEF Budget!IInv
  <2>3. movieLock[budget[s].movie] = {s} /\ fee[budget[s].movie] + budget[s].amount > 0
    BY <2>1, <2>2 DEF Budget!IInv, Budget!FeesHeld
  <2>4. movieLock'[budget[s].movie] = {s}
    BY <1>1, <2>2, <2>3, UnlockStep
  <2>. QED
    BY <1>1, <2>2, <2>3, <2>4
<1>4. Budget!BalanceHeld'
  BY <1>1, UnlockStep DEF Budget!IInv, Budget!BalanceHeld
<1>5. Budget!AssignsFunded' /\ Budget!NeverOverspent' /\ Budget!AssignedIsFunded'
  BY <1>1, UnlockStep DEF Budget!IInv, Budget!AssignsFunded, Budget!NeverOverspent, Budget!AssignedIsFunded, Budget!Idle
<1>. QED
  BY <1>2, <1>3, <1>4, <1>5 DEF Budget!IInv

\* A fee is written: nobody else holds its movie, and when it costs Token,
\* nobody else holds the Reviewer.
LEMMA WriteFeeStep ==
  ASSUME MaxAmount \in Nat, Budget!IInv, NEW r \in Staff, Budget!WriteFee(r)
  PROVE  Budget!IInv'
<1>. DEFINE q == budget[r]
<1>1. /\ q.pc = "write" /\ q.kind \in Budget!FeeKinds /\ Budget!Unlock(r)
      /\ fee' = [fee EXCEPT ![q.movie] = @ + q.amount]
      /\ allocated' = allocated + q.amount
      /\ UNCHANGED <<granted, status>>
  BY DEF Budget!WriteFee
<1>2. Budget!Writing(r) /\ q.movie \in Movies /\ q.amount \in Int
  BY <1>1, WritingRecord DEF Budget!IInv, Budget!Writing
<1>3. movieLock[q.movie] = {r} /\ fee[q.movie] + q.amount > 0 /\ fee[q.movie] \in Nat
  BY <1>1, <1>2 DEF Budget!IInv, Budget!FeesHeld, Budget!TypeOK
<1>4. \A m \in Movies : fee'[m] = IF m = q.movie THEN fee[m] + q.amount ELSE fee[m]
  BY <1>1 DEF Budget!IInv, Budget!TypeOK
<1>5. Budget!TypeOK'
  <2>1. fee' \in [Movies -> Nat]
    BY <1>1, <1>2, <1>3 DEF Budget!IInv, Budget!TypeOK
  <2>2. allocated' \in Int /\ granted' \in Int /\ status' \in [Movies -> Budget!Statuses]
    BY <1>1, <1>2 DEF Budget!IInv, Budget!TypeOK
  <2>. QED
    BY <1>1, <2>1, <2>2, UnlockStep DEF Budget!TypeOK
<1>6. Budget!FeesHeld'
  <2>1. SUFFICES ASSUME NEW s \in Staff, Budget!Writing(s)', budget'[s].kind \in Budget!FeeKinds
                 PROVE  movieLock'[budget'[s].movie] = {s} /\ fee'[budget'[s].movie] + budget'[s].amount > 0
    BY DEF Budget!FeesHeld
  <2>2. s # r /\ Budget!Writing(s) /\ budget'[s] = budget[s] /\ budget[s].movie \in Movies
    BY <1>1, <2>1, UnlockStep, WritingRecord DEF Budget!IInv
  <2>3. movieLock[budget[s].movie] = {s} /\ fee[budget[s].movie] + budget[s].amount > 0
    BY <2>1, <2>2 DEF Budget!IInv, Budget!FeesHeld
  <2>4. budget[s].movie # q.movie
    BY <1>3, <2>2, <2>3
  <2>. QED
    BY <1>1, <1>4, <2>2, <2>3, <2>4, UnlockStep
<1>7. allocated \in Int /\ granted \in Int
  BY DEF Budget!IInv, Budget!TypeOK
<1>8. q.amount > 0 => reviewerLock = {r} /\ q.amount <= granted - allocated
  BY <1>1, <1>2 DEF Budget!IInv, Budget!BalanceHeld, Budget!FeeKinds
<1>9. Budget!BalanceHeld'
  <2>1. SUFFICES ASSUME NEW s \in Staff, Budget!Writing(s)'
                 PROVE  /\ budget'[s].kind \notin Budget!FeeKinds => budget'[s].amount > 0
                        /\ budget'[s].pc # "lock" /\ budget'[s].amount > 0 => reviewerLock' = {s}
                        /\ budget'[s].pc # "write" => budget'[s].amount > 0
                        /\ budget'[s].pc = "allocated" => budget'[s].read = granted'
                        /\ budget'[s].pc = "write" /\ budget'[s].amount > 0 /\ budget'[s].kind # "GRANT" =>
                              budget'[s].amount <= granted' - allocated'
    BY DEF Budget!BalanceHeld
  <2>2. s # r /\ Budget!Writing(s) /\ budget'[s] = budget[s] /\ budget[s].amount \in Int
    BY <1>1, <2>1, UnlockStep, WritingRecord DEF Budget!IInv
  <2>3. /\ budget[s].kind \notin Budget!FeeKinds => budget[s].amount > 0
        /\ budget[s].pc # "lock" /\ budget[s].amount > 0 => reviewerLock = {s}
        /\ budget[s].pc # "write" => budget[s].amount > 0
        /\ budget[s].pc = "allocated" => budget[s].read = granted
        /\ budget[s].pc = "write" /\ budget[s].amount > 0 /\ budget[s].kind # "GRANT" =>
              budget[s].amount <= granted - allocated
    BY <2>2 DEF Budget!IInv, Budget!BalanceHeld
  <2>4. reviewerLock = {s} => reviewerLock' = {s} /\ q.amount <= 0
    BY <1>1, <1>2, <1>8, <2>2, UnlockStep
  <2>5. q.amount <= 0 /\ budget[s].amount <= granted - allocated => budget[s].amount <= granted' - allocated'
    BY <1>1, <1>2, <1>7, <2>2
  <2>. QED
    BY <1>1, <2>2, <2>3, <2>4, <2>5
<1>10. Budget!NeverOverspent'
  <2>1. allocated <= granted
    BY DEF Budget!IInv, Budget!NeverOverspent
  <2>. QED
    BY <1>1, <1>2, <1>7, <1>8, <2>1 DEF Budget!NeverOverspent
<1>11. \A m \in Movies : fee[m] > 0 => fee'[m] > 0
  BY <1>3, <1>4
<1>12. Budget!AssignsFunded'
  <2>1. SUFFICES ASSUME NEW s \in Staff, budget'[s].pc = "assign" PROVE fee'[budget'[s].movie] > 0
    BY DEF Budget!AssignsFunded
  <2>2. budget'[s] = budget[s]
    BY <1>1, <2>1, UnlockStep DEF Budget!Idle
  <2>3. budget[s].movie \in Movies
    BY <2>1, <2>2, AssigningRecord DEF Budget!IInv
  <2>. QED
    BY <1>11, <2>1, <2>2, <2>3 DEF Budget!IInv, Budget!AssignsFunded
<1>13. Budget!AssignedIsFunded'
  BY <1>1, <1>11 DEF Budget!IInv, Budget!AssignedIsFunded
<1>. QED
  BY <1>5, <1>6, <1>9, <1>10, <1>12, <1>13 DEF Budget!IInv

\* Token is granted or taken back: nobody else holds the Reviewer.
LEMMA WriteBudgetStep ==
  ASSUME MaxAmount \in Nat, Budget!IInv, NEW r \in Staff, Budget!WriteBudget(r)
  PROVE  Budget!IInv'
<1>. DEFINE q == budget[r]
<1>1. /\ q.pc = "write" /\ q.kind \in {"GRANT", "REVOKE"} /\ Budget!Unlock(r)
      /\ granted' = IF q.kind = "GRANT" THEN granted + q.amount ELSE granted - q.amount
      /\ UNCHANGED <<allocated, fee, status>>
  BY DEF Budget!WriteBudget
<1>2. Budget!Writing(r) /\ q.amount \in Int /\ q.kind \notin Budget!FeeKinds
  BY <1>1, WritingRecord DEF Budget!IInv, Budget!Writing, Budget!FeeKinds
<1>3. allocated \in Int /\ granted \in Int
  BY DEF Budget!IInv, Budget!TypeOK
<1>4. /\ q.amount > 0 /\ reviewerLock = {r}
      /\ q.kind # "GRANT" => q.amount <= granted - allocated
  BY <1>1, <1>2 DEF Budget!IInv, Budget!BalanceHeld
<1>5. Budget!TypeOK'
  <2>1. granted' \in Int
    BY <1>1, <1>2, <1>3
  <2>. QED
    BY <1>1, <2>1, UnlockStep DEF Budget!IInv, Budget!TypeOK
<1>6. Budget!FeesHeld'
  <2>1. SUFFICES ASSUME NEW s \in Staff, Budget!Writing(s)', budget'[s].kind \in Budget!FeeKinds
                 PROVE  movieLock'[budget'[s].movie] = {s} /\ fee'[budget'[s].movie] + budget'[s].amount > 0
    BY DEF Budget!FeesHeld
  <2>2. s # r /\ Budget!Writing(s) /\ budget'[s] = budget[s] /\ budget[s].movie \in Movies
    BY <1>1, <2>1, UnlockStep, WritingRecord DEF Budget!IInv
  <2>3. movieLock[budget[s].movie] = {s} /\ fee[budget[s].movie] + budget[s].amount > 0
    BY <2>1, <2>2 DEF Budget!IInv, Budget!FeesHeld
  <2>4. movieLock'[budget[s].movie] = {s}
    BY <1>1, <2>2, <2>3, UnlockStep
  <2>. QED
    BY <1>1, <2>2, <2>3, <2>4
<1>7. Budget!BalanceHeld'
  <2>1. SUFFICES ASSUME NEW s \in Staff, Budget!Writing(s)'
                 PROVE  /\ budget'[s].kind \notin Budget!FeeKinds => budget'[s].amount > 0
                        /\ ~(budget'[s].pc # "lock" /\ budget'[s].amount > 0)
                        /\ budget'[s].pc # "write" => budget'[s].amount > 0
    BY DEF Budget!BalanceHeld
  <2>2. s # r /\ Budget!Writing(s) /\ budget'[s] = budget[s]
    BY <1>1, <2>1, UnlockStep
  <2>3. reviewerLock # {s} /\ budget[s].amount \in Int
    BY <1>4, <2>2, WritingRecord DEF Budget!IInv
  <2>. QED
    BY <2>2, <2>3 DEF Budget!IInv, Budget!BalanceHeld
<1>8. Budget!NeverOverspent'
  <2>1. allocated <= granted
    BY DEF Budget!IInv, Budget!NeverOverspent
  <2>. QED
    BY <1>1, <1>2, <1>3, <1>4, <2>1 DEF Budget!NeverOverspent
<1>9. Budget!AssignsFunded' /\ Budget!AssignedIsFunded'
  BY <1>1, UnlockStep DEF Budget!IInv, Budget!AssignsFunded, Budget!AssignedIsFunded, Budget!Idle
<1>. QED
  BY <1>5, <1>6, <1>7, <1>8, <1>9 DEF Budget!IInv

-----------------------------------------------------------------------------
\* The project meanwhile.

\* The fee that was read is there, and stays.
LEMMA BeginAssignStep ==
  ASSUME MaxAmount \in Nat, Budget!IInv, NEW r \in Staff, NEW m \in Movies, Budget!BeginAssign(r, m)
  PROVE  Budget!IInv'
<1>. DEFINE q == [pc |-> "assign", movie |-> m, was |-> status[m]]
<1>1. /\ fee[m] > 0 /\ budget' = [budget EXCEPT ![r] = q]
      /\ UNCHANGED <<granted, allocated, fee, status, movieLock, reviewerLock>>
  BY DEF Budget!BeginAssign
<1>2. q \in Budget!Assigning
  BY DEF Budget!Assigning, Budget!IInv, Budget!TypeOK
<1>3. Budget!TypeOK'
  BY <1>1, <1>2 DEF Budget!IInv, Budget!TypeOK
<1>4. \A s \in Staff : budget'[s] = IF s = r THEN q ELSE budget[s]
  BY <1>1 DEF Budget!IInv, Budget!TypeOK
<1>5. \A s \in Staff : Budget!Writing(s)' => s # r /\ Budget!Writing(s) /\ budget'[s] = budget[s]
  BY <1>4 DEF Budget!Writing
<1>6. Budget!FeesHeld' /\ Budget!BalanceHeld'
  BY <1>1, <1>5 DEF Budget!IInv, Budget!FeesHeld, Budget!BalanceHeld
<1>7. Budget!AssignsFunded' /\ Budget!NeverOverspent' /\ Budget!AssignedIsFunded'
  BY <1>1, <1>4 DEF Budget!IInv, Budget!AssignsFunded, Budget!NeverOverspent, Budget!AssignedIsFunded
<1>. QED
  BY <1>3, <1>6, <1>7 DEF Budget!IInv

LEMMA CommitAssignStep ==
  ASSUME MaxAmount \in Nat, Budget!IInv, NEW r \in Staff, Budget!CommitAssign(r)
  PROVE  Budget!IInv'
<1>. DEFINE m == budget[r].movie
            to == IF budget[r].was = "DRAFT" THEN "ASSIGNED" ELSE budget[r].was
<1>1. /\ budget[r].pc = "assign"
      /\ status' = [status EXCEPT ![m] = to]
      /\ budget' = [budget EXCEPT ![r] = Budget!Idle]
      /\ UNCHANGED <<granted, allocated, fee, movieLock, reviewerLock>>
  BY DEF Budget!CommitAssign
<1>2. m \in Movies /\ budget[r].was \in Budget!Statuses /\ to \in Budget!Statuses
  BY <1>1, AssigningRecord DEF Budget!IInv, Budget!Statuses, Budget!Payable, Budget!Open
<1>3. fee[m] > 0
  BY <1>1 DEF Budget!IInv, Budget!AssignsFunded
<1>4. Budget!TypeOK'
  BY <1>1, <1>2 DEF Budget!IInv, Budget!TypeOK
<1>5. \A s \in Staff : budget'[s] = IF s = r THEN Budget!Idle ELSE budget[s]
  BY <1>1 DEF Budget!IInv, Budget!TypeOK
<1>6. \A s \in Staff : Budget!Writing(s)' => s # r /\ Budget!Writing(s) /\ budget'[s] = budget[s]
  BY <1>5 DEF Budget!Writing, Budget!Idle
<1>7. Budget!FeesHeld' /\ Budget!BalanceHeld'
  BY <1>1, <1>6 DEF Budget!IInv, Budget!FeesHeld, Budget!BalanceHeld
<1>8. Budget!AssignsFunded' /\ Budget!NeverOverspent'
  BY <1>1, <1>5 DEF Budget!IInv, Budget!AssignsFunded, Budget!NeverOverspent, Budget!Idle
<1>9. \A n \in Movies : n # m => status'[n] = status[n]
  BY <1>1 DEF Budget!IInv, Budget!TypeOK
<1>10. Budget!AssignedIsFunded'
  BY <1>1, <1>3, <1>9 DEF Budget!IInv, Budget!AssignedIsFunded
<1>. QED
  BY <1>4, <1>7, <1>8, <1>10 DEF Budget!IInv

\* What moves on was assigned before, and what is cancelled needs no fee.
LEMMA ProjectStep ==
  ASSUME MaxAmount \in Nat, Budget!IInv, NEW m \in Movies, Budget!Cancel(m) \/ Budget!Proceed(m)
  PROVE  Budget!IInv'
<1>1. UNCHANGED <<granted, allocated, fee, movieLock, reviewerLock, budget>>
  BY DEF Budget!Cancel, Budget!Proceed
<1>2. PICK to \in Budget!Statuses :
         /\ status' = [status EXCEPT ![m] = to]
         /\ to = "CANCELLED" \/ status[m] \notin {"DRAFT", "CANCELLED"}
  BY DEF Budget!Cancel, Budget!Proceed, Budget!Statuses, Budget!Payable, Budget!Open
<1>3. Budget!TypeOK'
  BY <1>1, <1>2 DEF Budget!IInv, Budget!TypeOK
<1>4. Budget!FeesHeld' /\ Budget!BalanceHeld' /\ Budget!AssignsFunded' /\ Budget!NeverOverspent'
  BY <1>1 DEF Budget!IInv, Budget!FeesHeld, Budget!BalanceHeld, Budget!AssignsFunded, Budget!NeverOverspent, Budget!Writing
<1>5. \A n \in Movies : status'[n] = IF n = m THEN to ELSE status[n]
  BY <1>2 DEF Budget!IInv, Budget!TypeOK
<1>6. status[m] \in Budget!Statuses
  BY DEF Budget!IInv, Budget!TypeOK
<1>7. Budget!AssignedIsFunded'
  BY <1>1, <1>2, <1>5, <1>6 DEF Budget!IInv, Budget!AssignedIsFunded
<1>. QED
  BY <1>3, <1>4, <1>7 DEF Budget!IInv

(* The inductive invariant of the budget: who writes a ledger holds the row *)
(* it is about, and what it read under that lock still stands.              *)
THEOREM BudgetInvariance == StudioSpec => []Budget!IInv
<1>. MaxAmount \in Nat
  BY StudioAssumption
<1>1. StudioInit => Budget!IInv
  BY DEF StudioInit, Budget!Init, Budget!IInv, Budget!TypeOK, Budget!FeesHeld, Budget!BalanceHeld,
         Budget!AssignsFunded, Budget!NeverOverspent, Budget!AssignedIsFunded, Budget!Writing,
         Budget!Idle, Budget!Statuses, Budget!Payable, Budget!Open
<1>2. ASSUME Budget!IInv, [StudioNext]_studioVars PROVE Budget!IInv'
  <2>1. ASSUME NEW r \in Staff, NEW m \in Movies, NEW amount \in Budget!Amounts,
               NEW kind \in Budget!FeeKinds, Budget!BeginFee(r, m, kind, amount)
        PROVE  Budget!IInv'
    BY <1>2, <2>1, BeginFeeStep
  <2>2. ASSUME NEW r \in Staff, NEW m \in Movies, NEW amount \in Budget!Amounts,
               NEW kind \in {"GRANT", "REVOKE"}, Budget!BeginBudget(r, kind, m, amount)
        PROVE  Budget!IInv'
    BY <1>2, <2>2, BeginBudgetStep
  <2>3. ASSUME NEW r \in Staff, NEW m \in Movies, Budget!BeginAssign(r, m) PROVE Budget!IInv'
    BY <1>2, <2>3, BeginAssignStep
  <2>4. ASSUME NEW r \in Staff, Budget!Step(r) PROVE Budget!IInv'
    BY <1>2, <2>4, LockReviewerStep, ReadGrantedStep, ReadAllocatedStep, WriteFeeStep,
       WriteBudgetStep, CommitAssignStep, RollbackStep DEF Budget!Step
  <2>5. ASSUME NEW m \in Movies, Budget!Cancel(m) \/ Budget!Proceed(m) PROVE Budget!IInv'
    BY <1>2, <2>5, ProjectStep
  <2>6. CASE UNCHANGED budgetVars
    BY <1>2, <2>6 DEF budgetVars, Budget!IInv, Budget!TypeOK, Budget!FeesHeld, Budget!BalanceHeld,
                      Budget!AssignsFunded, Budget!NeverOverspent, Budget!AssignedIsFunded,
                      Budget!Writing
  <2>. QED
    BY <1>2, <2>1, <2>2, <2>3, <2>4, <2>5, <2>6, StudioStep DEF Budget!Next
<1>. QED
  BY <1>1, <1>2, PTL DEF StudioSpec

(* The grants cover what is allocated, and every assigned project has its   *)
(* fee, through any race of fees, corrections, grants and take-backs        *)
(* (FeesAreCovered), for any number of requests and movies.                 *)
THEOREM FeesCovered == StudioSpec => []FeesAreCovered
<1>1. Budget!IInv => FeesAreCovered
  BY DEF Budget!IInv, FeesAreCovered, Budget!FeesAreCovered
<1>. QED
  BY <1>1, BudgetInvariance, PTL

-----------------------------------------------------------------------------
(***************************************************************************)
(* Prices of episodes.  An alert is raised with the price it is about, and *)
(* the price that follows settles every alert there is, so an answer that  *)
(* was decided on before finds its alert settled.                          *)
(***************************************************************************)

LEMMA SettingRecord ==
  ASSUME Price!TypeOK, NEW r \in Staff, setting[r].op = "price"
  PROVE  setting[r] \in Price!Setting
<1>1. setting[r] \in {Price!Idle} \cup Price!Setting \cup Price!Answering
  BY DEF Price!TypeOK
<1>. QED
  BY <1>1 DEF Price!Idle, Price!Answering

\* A request that reads, or that is over, changes no alert.
LEMMA PriceReadStep ==
  ASSUME Price!IInv, UNCHANGED <<price, alerts>>, range' \in Ranges,
         NEW r \in Staff, NEW q \in {Price!Idle} \cup Price!Setting \cup Price!Answering,
         setting' = setting \/ setting' = [setting EXCEPT ![r] = q]
  PROVE  Price!IInv'
BY DEF Price!IInv, Price!TypeOK, Price!AlertIsAboutThePrice

\* The price that follows settles what there is, and raises at most one alert.
LEMMA SetPriceStep ==
  ASSUME Price!IInv, NEW r \in Staff, Price!SetPrice(r)
  PROVE  Price!IInv'
<1>. DEFINE q == setting[r]
            old == Price!Settled(alerts)
            new == Price!Raised(q)
<1>1. q \in Price!Setting /\ q.price \in EpisodePrices /\ q.range \in Ranges
  BY SettingRecord DEF Price!IInv, Price!SetPrice, Price!Setting
<1>2. /\ price' = q.price /\ alerts' = old \o new
      /\ setting' = [setting EXCEPT ![r] = Price!Idle] /\ range' = range
  BY DEF Price!SetPrice
<1>3. /\ old \in Seq(Price!Alert) /\ Len(old) = Len(alerts)
      /\ \A i \in DOMAIN old : old[i].status = "RESOLVED"
  <2>1. alerts \in Seq(Price!Alert)
    BY DEF Price!IInv, Price!TypeOK
  <2>2. \A row \in Price!Alert : LET settled == [row EXCEPT !.status = "RESOLVED"]
                                 IN  settled \in Price!Alert /\ settled.status = "RESOLVED"
    BY DEF Price!Alert
  <2>3. \A i \in DOMAIN alerts : alerts[i] \in Price!Alert
    BY <2>1, RowsOf
  <2>4. old = [i \in DOMAIN alerts |-> [alerts[i] EXCEPT !.status = "RESOLVED"]]
    BY DEF Price!Settled
  <2>5. \A i \in DOMAIN alerts : old[i] \in Price!Alert /\ old[i].status = "RESOLVED"
    BY <2>2, <2>3, <2>4
  <2>6. old \in [DOMAIN alerts -> Price!Alert]
    BY <2>4, <2>5
  <2>. HIDE DEF old
  <2>. QED
    BY <2>1, <2>5, <2>6, AllRewritten
<1>4. new \in Seq(Price!Alert) /\ (new = <<>> \/ (Len(new) = 1 /\ new[1].price = q.price))
  <2>1. [price |-> q.price, range |-> q.range, status |-> "OPEN"] \in Price!Alert
    BY <1>1 DEF Price!Alert, Price!Unresolved
  <2>. QED
    BY <2>1 DEF Price!Raised
<1>. HIDE DEF old, new, q
<1>5. alerts' \in Seq(Price!Alert)
  BY <1>2, <1>3, <1>4
<1>6. Price!TypeOK'
  BY <1>2, <1>5 DEF Price!IInv, Price!TypeOK
<1>7. Price!AlertIsAboutThePrice'
  <2>1. SUFFICES ASSUME NEW i \in DOMAIN alerts', alerts'[i].status \in Price!Unresolved
                 PROVE  i = Len(alerts') /\ alerts'[i].price = price'
    BY DEF Price!AlertIsAboutThePrice
  <2>2. i \notin DOMAIN old
    <3>1. SUFFICES ASSUME i \in DOMAIN old PROVE FALSE
      OBVIOUS
    <3>2. alerts'[i] = old[i]
      BY <1>2, <1>3, <1>4, <3>1
    <3>. QED
      BY <1>3, <2>1, <3>1, <3>2 DEF Price!Unresolved
  <2>3. Len(new) = 1 /\ i = Len(old) + 1 /\ alerts'[i] = new[1] /\ Len(alerts') = Len(old) + 1
    BY <1>2, <1>3, <1>4, <2>2
  <2>. QED
    BY <1>2, <1>4, <2>3
<1>. QED
  BY <1>6, <1>7 DEF Price!IInv

\* An answer leaves an alert that waits as the last one, about the same price.
LEMMA AnswerStep ==
  ASSUME Price!IInv, NEW r \in Staff, Price!RequestChange(r) \/ Price!Resolve(r)
  PROVE  Price!IInv'
<1>. DEFINE k == setting[r].alert
<1>1. PICK verdict \in {"CHANGE_REQUESTED", "RESOLVED"} :
         /\ alerts' = [alerts EXCEPT ![k].status = verdict]
         /\ alerts[k].status \in Price!Unresolved
  BY DEF Price!RequestChange, Price!Resolve, Price!Unresolved
<1>2. setting' = [setting EXCEPT ![r] = Price!Idle] /\ UNCHANGED <<price, range>>
  BY DEF Price!RequestChange, Price!Resolve
<1>3. alerts \in Seq(Price!Alert)
  BY DEF Price!IInv, Price!TypeOK
<1>4. /\ alerts' \in Seq(Price!Alert) /\ Len(alerts') = Len(alerts)
      /\ \A i \in 1..Len(alerts) :
            /\ i # k => alerts'[i] = alerts[i]
            /\ alerts'[i].price = alerts[i].price
  <2>1. \A row \in Price!Alert : LET written == [row EXCEPT !.status = verdict]
                                 IN  written \in Price!Alert /\ written.price = row.price
    BY DEF Price!Alert, Price!Unresolved
  <2>2. DOMAIN alerts = 1..Len(alerts) /\ \A i \in DOMAIN alerts : alerts[i] \in Price!Alert
    BY <1>3, RowsOf
  <2>. DEFINE answered == [alerts[k] EXCEPT !.status = verdict]
  <2>3. alerts' = [alerts EXCEPT ![k] = answered]
    BY <1>1
  <2>4. k \in DOMAIN alerts => answered \in Price!Alert /\ answered.price = alerts[k].price
    BY <2>1, <2>2
  <2>. HIDE DEF answered, k
  <2>5. /\ alerts' \in Seq(Price!Alert) /\ Len(alerts') = Len(alerts)
        /\ \A i \in DOMAIN alerts : alerts'[i] = IF i = k THEN answered ELSE alerts[i]
    BY <1>3, <2>3, <2>4, OneRewritten
  <2>. QED
    BY <2>2, <2>4, <2>5
<1>5. Price!TypeOK'
  BY <1>2, <1>4 DEF Price!IInv, Price!TypeOK
<1>6. Price!AlertIsAboutThePrice'
  BY <1>1, <1>2, <1>3, <1>4 DEF Price!IInv, Price!AlertIsAboutThePrice
<1>. QED
  BY <1>5, <1>6 DEF Price!IInv

(* What the Admin still has to look at is the price in force, in one alert  *)
(* at most, through any race of prices, ranges and answers                  *)
(* (AlertIsAboutThePrice).                                                  *)
THEOREM AlertsAreCurrent == StudioSpec => []AlertIsAboutThePrice
<1>1. StudioInit => Price!IInv
  BY DEF StudioInit, Price!Init, Price!IInv, Price!TypeOK, Price!AlertIsAboutThePrice
<1>2. ASSUME Price!IInv, [StudioNext]_studioVars PROVE Price!IInv'
  <2>1. range \in Ranges /\ Price!Idle \in {Price!Idle} \cup Price!Setting \cup Price!Answering
    BY <1>2 DEF Price!IInv, Price!TypeOK
  <2>2. ASSUME NEW r \in Staff, NEW p \in EpisodePrices, Price!BeginPrice(r, p) PROVE Price!IInv'
    <3>1. [op |-> "price", price |-> p, range |-> range] \in Price!Setting
      BY <2>1 DEF Price!Setting
    <3>. QED
      BY <1>2, <2>1, <2>2, <3>1, PriceReadStep DEF Price!BeginPrice
  <2>3. ASSUME NEW r \in Staff, NEW i \in DOMAIN alerts, NEW op \in {"request", "resolve"},
               Price!BeginAnswer(r, i, op)
        PROVE  Price!IInv'
    <3>1. i \in Nat
      BY <1>2 DEF Price!IInv, Price!TypeOK
    <3>2. [op |-> op, alert |-> i] \in Price!Answering
      BY <3>1 DEF Price!Answering
    <3>. QED
      BY <1>2, <2>1, <2>3, <3>2, PriceReadStep DEF Price!BeginAnswer
  <2>4. ASSUME NEW r \in Staff, Price!SetPrice(r) PROVE Price!IInv'
    BY <1>2, <2>4, SetPriceStep
  <2>5. ASSUME NEW r \in Staff, Price!RequestChange(r) \/ Price!Resolve(r) PROVE Price!IInv'
    BY <1>2, <2>5, AnswerStep
  <2>6. ASSUME NEW r \in Staff, Price!Abort(r) PROVE Price!IInv'
    BY <1>2, <2>1, <2>6, PriceReadStep DEF Price!Abort
  <2>7. ASSUME NEW r \in Ranges, Price!SetRange(r) PROVE Price!IInv'
    BY <1>2, <2>7 DEF Price!SetRange, Price!IInv, Price!TypeOK, Price!AlertIsAboutThePrice
  <2>8. CASE UNCHANGED priceVars
    BY <1>2, <2>8 DEF priceVars, Price!IInv, Price!TypeOK, Price!AlertIsAboutThePrice
  <2>. QED
    BY <1>2, <2>2, <2>3, <2>4, <2>5, <2>6, <2>7, <2>8, StudioStep DEF Price!Next
<1>3. Price!IInv => AlertIsAboutThePrice
  BY DEF Price!IInv, AlertIsAboutThePrice
<1>. QED
  BY <1>1, <1>2, <1>3, PTL DEF StudioSpec

-----------------------------------------------------------------------------
(***************************************************************************)
(* The studio's link.  An answer is written once and the hand-off of the   *)
(* studio is never taken away, so who took the project when a delivery     *)
(* began has taken it when the delivery is written.                        *)
(***************************************************************************)

LEMMA PortalRecord ==
  ASSUME Portal!TypeOK, NEW r \in Staff, portal[r].op \in {"change", "resend", "respond", "deliver"}
  PROVE  portal[r] \in Portal!Reading
BY DEF Portal!TypeOK, Portal!Idle

\* What a request that reads, or that is over, has to be for the invariant to stay.
LEMMA PortalReadStep ==
  ASSUME Portal!IInv, UNCHANGED <<handoffs, links, delivered>>,
         project' \in Portal!Visible \cup {"CANCELLED"},
         NEW r \in Staff, NEW q \in {Portal!Idle} \cup Portal!Reading,
         q.op = "deliver" => Portal!Taken(q.handoff),
         portal' = portal \/ portal' = [portal EXCEPT ![r] = q]
  PROVE  Portal!IInv'
<1>1. Portal!TypeOK'
  BY DEF Portal!IInv, Portal!TypeOK
<1>2. \A i : Portal!Taken(i) => i \in DOMAIN handoffs' /\ handoffs'[i].answer = "ACCEPTED"
  BY DEF Portal!Taken
<1>3. \A s \in Staff : portal'[s] = portal[s] \/ (s = r /\ portal'[s] = q)
  BY DEF Portal!IInv, Portal!TypeOK
<1>4. \A s \in Staff : portal'[s].op = "deliver" =>
                           LET i == portal'[s].handoff IN i \in DOMAIN handoffs' /\ handoffs'[i].answer = "ACCEPTED"
  BY <1>2, <1>3 DEF Portal!IInv, Portal!DeliverersTook
<1>5. Portal!DeliverersTook'
  BY <1>2, <1>4 DEF Portal!IInv, Portal!DeliverersTook, Portal!Taken
<1>6. Portal!CurrentHasLink'
  BY DEF Portal!IInv, Portal!CurrentHasLink, Portal!Current
<1>. QED
  BY <1>1, <1>5, <1>6 DEF Portal!IInv

\* Hand-offs are added and rewritten; nothing that was answered is answered anew.
LEMMA HandoffsStep ==
  ASSUME Portal!IInv, NEW r \in Staff, NEW rewritten \in Seq(Portal!Handoff),
         handoffs' = rewritten, links' \in Nat, UNCHANGED <<project, delivered>>,
         portal' = [portal EXCEPT ![r] = Portal!Idle],
         \A i \in DOMAIN handoffs : /\ i \in DOMAIN rewritten
                                    /\ handoffs[i].answer = "ACCEPTED" => rewritten[i].answer = "ACCEPTED",
         ~rewritten[Len(rewritten)].revoked
  PROVE  Portal!IInv'
<1>1. Portal!TypeOK'
  BY DEF Portal!IInv, Portal!TypeOK
<1>2. \A i : Portal!Taken(i) => i \in DOMAIN handoffs' /\ handoffs'[i].answer = "ACCEPTED"
  BY DEF Portal!Taken
<1>3. \A s \in Staff : portal'[s] = portal[s] \/ portal'[s] = Portal!Idle
  BY DEF Portal!IInv, Portal!TypeOK
<1>4. Portal!Idle.op # "deliver"
  BY DEF Portal!Idle
<1>5. \A s \in Staff : portal'[s].op = "deliver" =>
                           LET i == portal'[s].handoff IN i \in DOMAIN handoffs' /\ handoffs'[i].answer = "ACCEPTED"
  BY <1>2, <1>3, <1>4 DEF Portal!IInv, Portal!DeliverersTook
<1>6. Portal!DeliverersTook'
  BY <1>2, <1>5 DEF Portal!IInv, Portal!DeliverersTook, Portal!Taken
<1>7. Portal!CurrentHasLink'
  BY DEF Portal!CurrentHasLink, Portal!Current
<1>. QED
  BY <1>1, <1>6, <1>7 DEF Portal!IInv

\* What the rows of a changed studio, of a link sent again and of an answer are.
LEMMA HandoffRows ==
  ASSUME NEW row \in Portal!Handoff, NEW link \in Nat, NEW verdict \in {"ACCEPTED", "DECLINED"}
  PROVE  /\ [row EXCEPT !.revoked = TRUE] \in Portal!Handoff
         /\ [row EXCEPT !.revoked = TRUE].answer = row.answer
         /\ [row EXCEPT !.token = link, !.revoked = FALSE] \in Portal!Handoff
         /\ [row EXCEPT !.token = link, !.revoked = FALSE].answer = row.answer
         /\ ~[row EXCEPT !.token = link, !.revoked = FALSE].revoked
         /\ [row EXCEPT !.answer = verdict] \in Portal!Handoff
         /\ [row EXCEPT !.answer = verdict].answer = verdict
         /\ [row EXCEPT !.answer = verdict].revoked = row.revoked
BY DEF Portal!Handoff

\* The links of before are revoked and the new studio has one that works.
LEMMA RecordedRows ==
  ASSUME Portal!TypeOK
  PROVE  /\ Portal!Recorded \in Seq(Portal!Handoff)
         /\ ~Portal!Recorded[Len(Portal!Recorded)].revoked
         /\ \A i \in DOMAIN handoffs : /\ i \in DOMAIN Portal!Recorded
                                       /\ Portal!Recorded[i].answer = handoffs[i].answer
<1>. DEFINE old == [i \in DOMAIN handoffs |-> [handoffs[i] EXCEPT !.revoked = TRUE]]
            new == Portal!New(links + 1)
<1>1. handoffs \in Seq(Portal!Handoff) /\ links + 1 \in Nat
  BY DEF Portal!TypeOK
<1>2. new \in Portal!Handoff /\ ~new.revoked
  BY <1>1 DEF Portal!New, Portal!Handoff
<1>3. \A i \in DOMAIN handoffs : old[i] \in Portal!Handoff /\ old[i].answer = handoffs[i].answer
  <2>. SUFFICES ASSUME NEW i \in DOMAIN handoffs
                PROVE  old[i] \in Portal!Handoff /\ old[i].answer = handoffs[i].answer
    OBVIOUS
  <2>1. handoffs[i] \in Portal!Handoff
    BY <1>1, RowsOf
  <2>. QED
    BY <2>1, HandoffRows
<1>4. old \in [DOMAIN handoffs -> Portal!Handoff]
  BY <1>3
<1>5. Portal!Recorded = Append(old, new)
  BY DEF Portal!Recorded
<1>. HIDE DEF old, new
<1>6. old \in Seq(Portal!Handoff) /\ DOMAIN old = DOMAIN handoffs
  BY <1>1, <1>4, AllRewritten
<1>7. /\ Append(old, new) \in Seq(Portal!Handoff) /\ Len(Append(old, new)) = Len(old) + 1
      /\ DOMAIN Append(old, new) = 1..(Len(old) + 1) /\ Append(old, new)[Len(old) + 1] = new
      /\ \A i \in DOMAIN old : Append(old, new)[i] = old[i]
  BY <1>2, <1>6, RowAdded
<1>8. DOMAIN old \subseteq DOMAIN Append(old, new)
  BY <1>6, <1>7, RowsOf
<1>. QED
  BY <1>2, <1>3, <1>5, <1>6, <1>7, <1>8

LEMMA ChangeStudioStep ==
  ASSUME Portal!IInv, NEW r \in Staff, Portal!ChangeStudio(r)
  PROVE  Portal!IInv'
<1>1. Portal!Recorded \in Seq(Portal!Handoff) /\ links' \in Nat
  BY RecordedRows DEF Portal!IInv, Portal!TypeOK, Portal!ChangeStudio
<1>2. /\ handoffs' = Portal!Recorded /\ UNCHANGED <<project, delivered>>
      /\ portal' = [portal EXCEPT ![r] = Portal!Idle]
  BY DEF Portal!ChangeStudio, Portal!Commit
<1>3. /\ \A i \in DOMAIN handoffs :
            /\ i \in DOMAIN Portal!Recorded
            /\ handoffs[i].answer = "ACCEPTED" => Portal!Recorded[i].answer = "ACCEPTED"
      /\ ~Portal!Recorded[Len(Portal!Recorded)].revoked
  BY RecordedRows DEF Portal!IInv
<1>. QED
  BY <1>1, <1>2, <1>3, HandoffsStep

\* One hand-off is rewritten so that its link works, or as it was.
LEMMA RewriteStep ==
  ASSUME Portal!IInv, NEW r \in Staff, NEW k, NEW new,
         k \in DOMAIN handoffs =>
            /\ new \in Portal!Handoff /\ (new.revoked => handoffs[k].revoked)
            /\ handoffs[k].answer = "ACCEPTED" => new.answer = "ACCEPTED",
         handoffs' = [handoffs EXCEPT ![k] = new], links' \in Nat, UNCHANGED <<project, delivered>>,
         portal' = [portal EXCEPT ![r] = Portal!Idle]
  PROVE  Portal!IInv'
<1>. DEFINE t == [handoffs EXCEPT ![k] = new]
<1>1. handoffs \in Seq(Portal!Handoff) /\ ~handoffs[Len(handoffs)].revoked
  BY DEF Portal!IInv, Portal!TypeOK, Portal!CurrentHasLink, Portal!Current
<1>2. k \in DOMAIN handoffs => new \in Portal!Handoff
  OBVIOUS
<1>3. /\ t \in Seq(Portal!Handoff) /\ Len(t) = Len(handoffs) /\ DOMAIN t = DOMAIN handoffs
      /\ \A i \in DOMAIN handoffs : t[i] = IF i = k THEN new ELSE handoffs[i]
  BY <1>1, <1>2, OneRewritten
<1>4. ~t[Len(t)].revoked
  BY <1>1, <1>3
<1>5. handoffs' = t
  OBVIOUS
<1>. HIDE DEF t
<1>6. \A i \in DOMAIN handoffs : /\ i \in DOMAIN t
                                /\ handoffs[i].answer = "ACCEPTED" => t[i].answer = "ACCEPTED"
  BY <1>3
<1>7. t \in Seq(Portal!Handoff) /\ ~t[Len(t)].revoked
  BY <1>3, <1>4
<1>. QED
  BY <1>5, <1>6, <1>7, HandoffsStep

LEMMA ResendStep ==
  ASSUME Portal!IInv, NEW r \in Staff, Portal!Resend(r)
  PROVE  Portal!IInv'
<1>. DEFINE k == portal[r].handoff
            new == [handoffs[k] EXCEPT !.token = links + 1, !.revoked = FALSE]
<1>1. /\ handoffs' = [handoffs EXCEPT ![k] = new]
      /\ UNCHANGED <<project, delivered>> /\ portal' = [portal EXCEPT ![r] = Portal!Idle]
      /\ links' = links + 1
  BY DEF Portal!Resend, Portal!Commit
<1>2. handoffs \in Seq(Portal!Handoff) /\ links \in Nat
  BY DEF Portal!IInv, Portal!TypeOK
<1>3. k \in DOMAIN handoffs =>
         /\ new \in Portal!Handoff /\ (new.revoked => handoffs[k].revoked)
         /\ handoffs[k].answer = "ACCEPTED" => new.answer = "ACCEPTED"
  <2>. SUFFICES ASSUME k \in DOMAIN handoffs
                PROVE  new \in Portal!Handoff /\ ~new.revoked /\ new.answer = handoffs[k].answer
    OBVIOUS
  <2>1. handoffs[k] \in Portal!Handoff /\ links + 1 \in Nat
    BY <1>2, RowsOf
  <2>. QED
    BY <2>1, HandoffRows
<1>4. links' \in Nat
  BY <1>1, <1>2
<1>. HIDE DEF k, new
<1>. QED
  BY <1>1, <1>3, <1>4, RewriteStep

LEMMA RespondStep ==
  ASSUME Portal!IInv, NEW r \in Staff, NEW verdict \in {"ACCEPTED", "DECLINED"},
         Portal!Respond(r, verdict)
  PROVE  Portal!IInv'
<1>. DEFINE k == portal[r].handoff
            new == [handoffs[k] EXCEPT !.answer = verdict]
<1>1. /\ handoffs' = [handoffs EXCEPT ![k] = new] /\ handoffs[k].answer = "NONE"
      /\ UNCHANGED <<project, delivered, links>> /\ portal' = [portal EXCEPT ![r] = Portal!Idle]
  BY DEF Portal!Respond, Portal!Commit
<1>2. handoffs \in Seq(Portal!Handoff) /\ links \in Nat
  BY DEF Portal!IInv, Portal!TypeOK
<1>3. k \in DOMAIN handoffs =>
         /\ new \in Portal!Handoff /\ (new.revoked => handoffs[k].revoked)
         /\ handoffs[k].answer = "ACCEPTED" => new.answer = "ACCEPTED"
  <2>. SUFFICES ASSUME k \in DOMAIN handoffs
                PROVE  new \in Portal!Handoff /\ new.revoked = handoffs[k].revoked
    BY <1>1
  <2>1. handoffs[k] \in Portal!Handoff
    BY <1>2, RowsOf
  <2>. QED
    BY <2>1, HandoffRows
<1>4. links' \in Nat
  BY <1>1, <1>2
<1>. HIDE DEF k, new
<1>. QED
  BY <1>1, <1>3, <1>4, RewriteStep

LEMMA DeliverStep ==
  ASSUME Portal!IInv, NEW r \in Staff, Portal!Deliver(r)
  PROVE  Portal!IInv'
<1>. DEFINE k == portal[r].handoff
<1>1. /\ portal[r].op = "deliver" /\ portal' = [portal EXCEPT ![r] = Portal!Idle]
      /\ delivered' = Append(delivered, k) /\ UNCHANGED <<project, handoffs, links>>
  BY DEF Portal!Deliver, Portal!Commit
<1>2. k \in Nat /\ Portal!Taken(k)
  BY <1>1, PortalRecord DEF Portal!IInv, Portal!Reading, Portal!DeliverersTook
<1>3. delivered \in Seq(Nat)
  BY DEF Portal!IInv, Portal!TypeOK
<1>. HIDE DEF k
<1>4. /\ delivered' \in Seq(Nat)
      /\ \A n \in DOMAIN delivered' : delivered'[n] = k \/ (n \in DOMAIN delivered /\ delivered'[n] = delivered[n])
  BY <1>1, <1>2, <1>3
<1>5. \A i : Portal!Taken(i) => i \in DOMAIN handoffs' /\ handoffs'[i].answer = "ACCEPTED"
  BY <1>1 DEF Portal!Taken
<1>6. \A n \in DOMAIN delivered' : LET i == delivered'[n] IN i \in DOMAIN handoffs' /\ handoffs'[i].answer = "ACCEPTED"
  BY <1>2, <1>4, <1>5 DEF Portal!IInv, Portal!DeliverersTook
<1>7. Portal!Idle.op # "deliver"
  BY DEF Portal!Idle
<1>8. \A s \in Staff : portal'[s] = portal[s] \/ portal'[s] = Portal!Idle
  BY <1>1 DEF Portal!IInv, Portal!TypeOK
<1>9. \A s \in Staff : portal'[s].op = "deliver" =>
                           LET i == portal'[s].handoff IN i \in DOMAIN handoffs' /\ handoffs'[i].answer = "ACCEPTED"
  BY <1>5, <1>7, <1>8 DEF Portal!IInv, Portal!DeliverersTook
<1>10. Portal!TypeOK'
  BY <1>1, <1>4 DEF Portal!IInv, Portal!TypeOK
<1>. QED
  BY <1>1, <1>6, <1>9, <1>10 DEF Portal!IInv, Portal!CurrentHasLink, Portal!Current, Portal!DeliverersTook, Portal!Taken

LEMMA StepPortalIInv ==
  ASSUME Portal!IInv, [StudioNext]_studioVars
  PROVE  Portal!IInv'
<1>1. CASE UNCHANGED portalVars
  BY <1>1 DEF portalVars, Portal!IInv, Portal!TypeOK, Portal!CurrentHasLink, Portal!Current,
              Portal!DeliverersTook, Portal!Taken
<1>2. ASSUME NEW r \in Staff,
             \/ Portal!BeginChange(r) \/ Portal!BeginResend(r)
             \/ \E token \in 1..links, i \in DOMAIN handoffs :
                   Portal!BeginRespond(r, token, i) \/ Portal!BeginDeliver(r, token, i)
      PROVE  Portal!IInv'
  <2>1. handoffs \in Seq(Portal!Handoff) /\ project \in Portal!Visible \cup {"CANCELLED"}
    BY <1>2 DEF Portal!IInv, Portal!TypeOK
  <2>2. Len(handoffs) \in Nat /\ DOMAIN handoffs \subseteq Nat
    BY <2>1, RowsOf
  <2>3. PICK op \in {"change", "resend", "respond", "deliver"}, i \in Nat :
           /\ portal' = [portal EXCEPT ![r] = [op |-> op, handoff |-> i]]
           /\ UNCHANGED <<project, handoffs, links, delivered>>
           /\ op = "deliver" => i \in DOMAIN handoffs /\ handoffs[i].answer = "ACCEPTED"
    <3>1. CASE Portal!BeginChange(r)
      <4>1. 0 \in Nat
        OBVIOUS
      <4>. QED
        BY <3>1, <4>1 DEF Portal!BeginChange, Portal!Read
    <3>2. CASE Portal!BeginResend(r)
      BY <3>2, <2>2 DEF Portal!BeginResend, Portal!Read, Portal!Current
    <3>3. ASSUME NEW token, NEW i \in DOMAIN handoffs,
                 Portal!BeginRespond(r, token, i) \/ Portal!BeginDeliver(r, token, i)
          PROVE  \E op \in {"change", "resend", "respond", "deliver"}, k \in Nat :
                    /\ portal' = [portal EXCEPT ![r] = [op |-> op, handoff |-> k]]
                    /\ UNCHANGED <<project, handoffs, links, delivered>>
                    /\ op = "deliver" => k \in DOMAIN handoffs /\ handoffs[k].answer = "ACCEPTED"
      BY <3>3, <2>2 DEF Portal!BeginRespond, Portal!BeginDeliver, Portal!Read
    <3>. QED
      BY <1>2, <3>1, <3>2, <3>3
  <2>. DEFINE q == [op |-> op, handoff |-> i]
  <2>4. q \in Portal!Reading /\ (q.op = "deliver" => Portal!Taken(q.handoff))
    BY <2>3 DEF Portal!Reading, Portal!Taken
  <2>5. portal' = [portal EXCEPT ![r] = q]
    BY <2>3
  <2>. HIDE DEF q
  <2>. QED
    BY <1>2, <2>1, <2>3, <2>4, <2>5, PortalReadStep
<1>3. ASSUME NEW r \in Staff, Portal!Abort(r) PROVE Portal!IInv'
  <2>1. project \in Portal!Visible \cup {"CANCELLED"} /\ Portal!Idle.op # "deliver"
    BY <1>3 DEF Portal!IInv, Portal!TypeOK, Portal!Idle
  <2>. QED
    BY <1>3, <2>1, PortalReadStep DEF Portal!Abort
<1>4. CASE Portal!Proceed
  BY <1>4 DEF Portal!Proceed, Portal!IInv, Portal!TypeOK, Portal!CurrentHasLink, Portal!Current,
              Portal!DeliverersTook, Portal!Taken, Portal!Delivering, Portal!Visible
<1>. QED
  BY <1>1, <1>2, <1>3, <1>4, StudioStep, ChangeStudioStep, ResendStep, RespondStep, DeliverStep
  DEF Portal!Next

\* Only an answer writes an answer, where there is none and the link works.
LEMMA AnswersOnce ==
  ASSUME Portal!IInv, [StudioNext]_studioVars
  PROVE  [ \A i \in DOMAIN handoffs : handoffs'[i].answer # handoffs[i].answer =>
              handoffs[i].answer = "NONE" /\ ~handoffs[i].revoked ]_(Portal!vars)
<1>. SUFFICES ASSUME NEW i \in DOMAIN handoffs, handoffs'[i].answer # handoffs[i].answer
              PROVE  handoffs[i].answer = "NONE" /\ ~handoffs[i].revoked
  OBVIOUS
<1>1. handoffs[i] \in Portal!Handoff
  BY RowsOf DEF Portal!IInv, Portal!TypeOK
<1>2. ASSUME NEW r \in Staff, Portal!ChangeStudio(r) PROVE FALSE
  BY <1>2, RecordedRows DEF Portal!IInv, Portal!ChangeStudio
<1>3. ASSUME NEW r \in Staff, Portal!Resend(r) PROVE FALSE
  <2>1. links + 1 \in Nat
    BY DEF Portal!IInv, Portal!TypeOK
  <2>. DEFINE sent == [handoffs[i] EXCEPT !.token = links + 1, !.revoked = FALSE]
  <2>2. sent.answer = handoffs[i].answer
    BY <1>1, <2>1, HandoffRows
  <2>3. handoffs'[i] = handoffs[i] \/ handoffs'[i] = sent
    BY <1>3 DEF Portal!Resend
  <2>. HIDE DEF sent
  <2>. QED
    BY <2>2, <2>3
<1>4. ASSUME NEW r \in Staff, NEW verdict \in {"ACCEPTED", "DECLINED"}, Portal!Respond(r, verdict)
      PROVE  handoffs[i].answer = "NONE" /\ ~handoffs[i].revoked
  BY <1>4 DEF Portal!Respond
<1>. QED
  BY <1>2, <1>3, <1>4, StudioStep
  DEF Portal!Next, Portal!BeginChange, Portal!BeginResend, Portal!BeginRespond, Portal!BeginDeliver,
      Portal!Read, Portal!Deliver, Portal!Abort, Portal!Proceed, portalVars

(* The studio the project was handed to last has a link that works, what    *)
(* was delivered was delivered by a studio that took the project, and an    *)
(* answer is final, through any race of changes of studio, links sent       *)
(* again, answers and deliveries (StudioHasTheLink).                        *)
THEOREM StudioKeepsTheLink == StudioSpec => StudioHasTheLink
<1>1. StudioInit => Portal!IInv
  BY DEF StudioInit, Portal!Init, Portal!IInv, Portal!TypeOK, Portal!CurrentHasLink, Portal!Current,
         Portal!DeliverersTook, Portal!Visible, Portal!Delivering, Portal!Handoff, Portal!New, Portal!Idle
<1>2. Portal!IInv => Portal!CurrentHasLink /\ Portal!DeliveredByTaker
  BY DEF Portal!IInv, Portal!DeliverersTook, Portal!Taken, Portal!DeliveredByTaker
<1>3. ASSUME Portal!IInv, [StudioNext]_studioVars
      PROVE  [ \A i \in DOMAIN handoffs : handoffs'[i].answer # handoffs[i].answer =>
                  handoffs[i].answer = "NONE" /\ ~handoffs[i].revoked ]_(Portal!vars)
  BY <1>3, AnswersOnce
<1>4. StudioSpec => [](Portal!CurrentHasLink)
  BY <1>1, <1>2, StepPortalIInv, PTL DEF StudioSpec
<1>5. StudioSpec => [](Portal!DeliveredByTaker)
  BY <1>1, <1>2, StepPortalIInv, PTL DEF StudioSpec
<1>6. StudioSpec => Portal!AnswerIsFinal
  BY <1>1, <1>3, StepPortalIInv, PTL DEF StudioSpec, Portal!AnswerIsFinal
<1>. QED
  BY <1>4, <1>5, <1>6, PTL DEF StudioHasTheLink, Portal!StudioHasTheLink

-----------------------------------------------------------------------------
(***************************************************************************)
(* The plan of a project.  Who numbers an episode or a file holds the lock *)
(* on the movie since the largest number was read, so nobody added one; an *)
(* episode the studio is due on stays due, so an edit that found it due    *)
(* moves a deadline that is still there.                                   *)
(***************************************************************************)

LEMMA PlanningRecord ==
  ASSUME Planning!TypeOK, NEW r \in Staff
  PROVE  /\ planning[r].op \in {"add", "insert"} => planning[r] \in Planning!Adding
         /\ planning[r].op = "edit" => planning[r] \in Planning!Editing
         /\ planning[r].op = "assign" => planning[r] \in Planning!Assigning
         /\ planning[r].op = "handoff" => planning[r] \in Planning!HandingOff
         /\ planning[r].op \in {"upload", "file"} => planning[r] \in Planning!Uploading
<1>1. planning[r] \in {Planning!Idle} \cup Planning!Adding \cup Planning!Editing \cup Planning!Assigning
                      \cup Planning!HandingOff \cup Planning!Uploading
  BY DEF Planning!TypeOK
<1>. QED
  BY <1>1 DEF Planning!Idle, Planning!Adding, Planning!Editing, Planning!Assigning,
              Planning!HandingOff, Planning!Uploading

\* A request that reads without the lock, or that is over, leaves who holds it alone.
LEMMA PlanningReadStep ==
  ASSUME Planning!IInv, NEW r \in Staff, UNCHANGED <<episodes, files>>,
         NEW q, q = Planning!Idle \/ q \in Planning!Adding \cup Planning!Editing \cup Planning!Assigning
                                           \cup Planning!HandingOff \cup Planning!Uploading,
         q.op \notin {"insert", "file"},
         q.op = "edit" => q.episode \in DOMAIN episodes /\ (q.due => episodes[q.episode].due # 0),
         planning' = [planning EXCEPT ![r] = q], lock' = lock \/ lock' = lock \ {r},
         movie' \in Planning!Open \cup {"CANCELLED"}, stored' \in Nat,
         proposals' \in Seq({"OPEN", "ACCEPTED", "REJECTED"})
  PROVE  Planning!IInv'
<1>1. Planning!TypeOK'
  BY DEF Planning!IInv, Planning!TypeOK
<1>2. planning'[r] = q /\ \A s \in Staff : s # r => planning'[s] = planning[s]
  BY DEF Planning!IInv, Planning!TypeOK
<1>3. \A s \in Staff : Planning!LastIsRead(s)'
  <2>. SUFFICES ASSUME NEW s \in Staff PROVE Planning!LastIsRead(s)'
    OBVIOUS
  <2>1. CASE s = r
    BY <1>2, <2>1 DEF Planning!LastIsRead
  <2>2. CASE s # r
    <3>1. lock = {s} => lock' = {s}
      BY <2>2
    <3>2. Planning!LastIsRead(s) /\ planning'[s] = planning[s]
      BY <1>2, <2>2 DEF Planning!IInv
    <3>. QED
      BY <3>1, <3>2 DEF Planning!LastIsRead
  <2>. QED
    BY <2>1, <2>2
<1>4. \A s \in Staff : Planning!FoundDue(s)'
  BY <1>2 DEF Planning!IInv, Planning!FoundDue
<1>. QED
  BY <1>1, <1>3, <1>4 DEF Planning!IInv, Planning!NumberedOn, Planning!DueMeansHandedOff

\* The lock is taken, and the largest number read under it.
LEMMA LockStep ==
  ASSUME Planning!IInv, NEW r \in Staff, Planning!LockAdd(r) \/ Planning!LockUpload(r)
  PROVE  Planning!IInv'
<1>. DEFINE q == IF planning[r].op = "add"
                 THEN [planning[r] EXCEPT !.op = "insert", !.last = Len(episodes)]
                 ELSE [planning[r] EXCEPT !.op = "file", !.last = Len(files)]
<1>1. /\ planning[r].op \in {"add", "upload"} /\ planning' = [planning EXCEPT ![r] = q]
      /\ lock = {} /\ lock' = {r} /\ UNCHANGED <<movie, seasons, episodes, files, stored, proposals>>
  BY DEF Planning!LockAdd, Planning!LockUpload
<1>2. Len(episodes) \in Nat /\ Len(files) \in Nat
  BY DEF Planning!IInv, Planning!TypeOK
<1>3. /\ q \in Planning!Adding \cup Planning!Uploading
      /\ q.op = "insert" => q.last = Len(episodes)
      /\ q.op = "file" => q.last = Len(files)
      /\ q.op # "edit"
  <2>1. CASE planning[r].op = "add"
    <3>1. planning[r] \in Planning!Adding
      BY <2>1, PlanningRecord DEF Planning!IInv
    <3>. QED
      BY <1>2, <2>1, <3>1 DEF Planning!Adding
  <2>2. CASE planning[r].op = "upload"
    <3>1. planning[r] \in Planning!Uploading
      BY <2>2, PlanningRecord DEF Planning!IInv
    <3>. QED
      BY <1>2, <2>2, <3>1 DEF Planning!Uploading
  <2>. QED
    BY <1>1, <2>1, <2>2
<1>. HIDE DEF q
<1>4. Planning!TypeOK'
  BY <1>1, <1>3 DEF Planning!IInv, Planning!TypeOK
<1>5. planning'[r] = q /\ \A s \in Staff : s # r => planning'[s] = planning[s]
  BY <1>1 DEF Planning!IInv, Planning!TypeOK
<1>6. \A s \in Staff : Planning!LastIsRead(s)'
  BY <1>1, <1>3, <1>5 DEF Planning!IInv, Planning!LastIsRead
<1>7. \A s \in Staff : Planning!FoundDue(s)'
  BY <1>1, <1>3, <1>5 DEF Planning!IInv, Planning!FoundDue
<1>. QED
  BY <1>1, <1>4, <1>6, <1>7 DEF Planning!IInv, Planning!NumberedOn, Planning!DueMeansHandedOff

\* Rows are rewritten, none is added or renumbered, and what was due stays due.
LEMMA EpisodesRewrittenStep ==
  ASSUME Planning!IInv, NEW r \in Staff, planning' = [planning EXCEPT ![r] = Planning!Idle],
         lock' = lock \ {r}, UNCHANGED <<files, stored, proposals>>,
         movie' \in Planning!Open \cup {"CANCELLED"},
         NEW rewritten \in Seq(Planning!Episode), episodes' = rewritten, Len(rewritten) = Len(episodes),
         \A i \in DOMAIN episodes :
            /\ rewritten[i].number = episodes[i].number
            /\ rewritten[i].due # 0 <=> rewritten[i].status = "AWAITING_MEDIA"
            /\ episodes[i].due # 0 => rewritten[i].due # 0
  PROVE  Planning!IInv'
<1>1. Planning!TypeOK'
  BY DEF Planning!IInv, Planning!TypeOK
<1>2. planning'[r] = Planning!Idle /\ \A s \in Staff : s # r => planning'[s] = planning[s]
  BY DEF Planning!IInv, Planning!TypeOK
<1>3. Planning!Idle.op = "idle"
  BY DEF Planning!Idle
<1>4. DOMAIN rewritten = DOMAIN episodes
  BY DEF Planning!IInv, Planning!TypeOK
<1>5. \A s \in Staff : Planning!LastIsRead(s)'
  <2>. SUFFICES ASSUME NEW s \in Staff PROVE Planning!LastIsRead(s)'
    OBVIOUS
  <2>1. CASE s = r
    BY <1>2, <1>3, <2>1 DEF Planning!LastIsRead
  <2>2. CASE s # r
    <3>1. lock = {s} => lock' = {s}
      BY <2>2
    <3>2. Planning!LastIsRead(s) /\ planning'[s] = planning[s]
      BY <1>2, <2>2 DEF Planning!IInv
    <3>. QED
      BY <3>1, <3>2 DEF Planning!LastIsRead
  <2>. QED
    BY <2>1, <2>2
<1>6. \A s \in Staff : Planning!FoundDue(s)'
  BY <1>2, <1>3, <1>4 DEF Planning!IInv, Planning!FoundDue
<1>7. Planning!NumberedOn'
  BY <1>4 DEF Planning!IInv, Planning!NumberedOn
<1>8. Planning!DueMeansHandedOff'
  BY <1>4 DEF Planning!DueMeansHandedOff
<1>. QED
  BY <1>1, <1>5, <1>6, <1>7, <1>8 DEF Planning!IInv

\* What a hand-off makes of a row.
LEMMA EpisodeRows ==
  ASSUME NEW row \in Planning!Episode, NEW milestone \in Planning!Days
  PROVE  LET handed == [row EXCEPT !.due = milestone, !.status = "AWAITING_MEDIA"]
         IN  /\ handed \in Planning!Episode /\ handed.number = row.number
             /\ handed.status = "AWAITING_MEDIA" /\ handed.due = milestone
BY DEF Planning!Episode, Planning!BeforeApproval

LEMMA DaysArePositive ==
  ASSUME NEW d \in Planning!Days
  PROVE  d \in Nat \ {0}
BY DEF Planning!Days

LEMMA EditEpisodeStep ==
  ASSUME Planning!IInv, NEW r \in Staff, Planning!EditEpisode(r)
  PROVE  Planning!IInv'
<1>. DEFINE q == planning[r]
            k == q.episode
            row == [episodes[k] EXCEPT !.milestone = q.day, !.due = IF q.due THEN q.day ELSE @]
            t == [episodes EXCEPT ![k] = row]
<1>1. /\ q.op = "edit" /\ episodes' = t /\ planning' = [planning EXCEPT ![r] = Planning!Idle]
      /\ lock' = lock \ {r} /\ UNCHANGED <<movie, files, stored, proposals>>
  BY DEF Planning!EditEpisode, Planning!Done
<1>2. /\ q \in Planning!Editing /\ k \in DOMAIN episodes /\ (q.due => episodes[k].due # 0)
  BY <1>1, PlanningRecord DEF Planning!IInv, Planning!FoundDue
<1>3. q.day \in Planning!Days /\ q.due \in BOOLEAN
  BY <1>2 DEF Planning!Editing
<1>4. q.day # 0
  BY <1>3, DaysArePositive
<1>5. episodes \in Seq(Planning!Episode) /\ movie \in Planning!Open \cup {"CANCELLED"}
  BY DEF Planning!IInv, Planning!TypeOK
<1>6. episodes[k] \in Planning!Episode
  BY <1>2, <1>5, RowsOf
<1>7. /\ row \in Planning!Episode /\ row.number = episodes[k].number
      /\ row.status = episodes[k].status /\ row.due = IF q.due THEN q.day ELSE episodes[k].due
  <2>. DEFINE old == episodes[k]
              moved == q.due
              milestone == q.day
              edited == [old EXCEPT !.milestone = milestone, !.due = IF moved THEN milestone ELSE @]
  <2>1. old \in Planning!Episode /\ moved \in BOOLEAN /\ milestone \in Planning!Days
    BY <1>3, <1>6
  <2>2. row = edited
    OBVIOUS
  <2>3. /\ edited \in Planning!Episode /\ edited.number = old.number
        /\ edited.status = old.status /\ edited.due = IF moved THEN milestone ELSE old.due
    <3>. HIDE DEF old, moved, milestone
    <3>. QED
      BY <2>1 DEF Planning!Episode, Planning!BeforeApproval
  <2>. QED
    BY <2>2, <2>3
<1>. HIDE DEF q, k, row
<1>8. k \in DOMAIN episodes => row \in Planning!Episode
  BY <1>7
<1>9. /\ t \in Seq(Planning!Episode) /\ Len(t) = Len(episodes) /\ DOMAIN t = DOMAIN episodes
      /\ \A i \in DOMAIN episodes : t[i] = IF i = k THEN row ELSE episodes[i]
  BY <1>5, <1>8, OneRewritten
<1>. HIDE DEF t
<1>10. \A i \in DOMAIN episodes : episodes[i].due # 0 <=> episodes[i].status = "AWAITING_MEDIA"
  BY DEF Planning!IInv, Planning!DueMeansHandedOff
<1>11. \A i \in DOMAIN episodes :
            /\ t[i].number = episodes[i].number
            /\ t[i].due # 0 <=> t[i].status = "AWAITING_MEDIA"
            /\ episodes[i].due # 0 => t[i].due # 0
  BY <1>2, <1>4, <1>7, <1>9, <1>10
<1>12. movie' \in Planning!Open \cup {"CANCELLED"}
  BY <1>1, <1>5
<1>. QED
  BY <1>1, <1>9, <1>11, <1>12, EpisodesRewrittenStep

LEMMA HandOffStep ==
  ASSUME Planning!IInv, NEW r \in Staff, Planning!HandOff(r)
  PROVE  Planning!IInv'
<1>. DEFINE due == planning[r].due
            t == [i \in DOMAIN episodes |->
                    IF i \in DOMAIN due
                    THEN [episodes[i] EXCEPT !.due = due[i], !.status = "AWAITING_MEDIA"]
                    ELSE episodes[i]]
<1>1. /\ planning[r].op = "handoff" /\ planning' = [planning EXCEPT ![r] = Planning!Idle]
      /\ lock' = lock \ {r} /\ UNCHANGED <<files, stored, proposals>> /\ movie' = "IN_PRODUCTION"
  BY DEF Planning!HandOff, Planning!Done
<1>2. episodes' = t
  BY DEF Planning!HandOff
<1>3. due \in Seq(Planning!Days)
  BY <1>1, PlanningRecord DEF Planning!IInv, Planning!HandingOff
<1>4. episodes \in Seq(Planning!Episode)
  BY DEF Planning!IInv, Planning!TypeOK
<1>. HIDE DEF due
<1>5. \A i \in DOMAIN episodes :
            /\ t[i] \in Planning!Episode
            /\ t[i].number = episodes[i].number
            /\ t[i].due # 0 <=> t[i].status = "AWAITING_MEDIA"
            /\ episodes[i].due # 0 => t[i].due # 0
  <2>. SUFFICES ASSUME NEW i \in DOMAIN episodes
                PROVE  /\ t[i] \in Planning!Episode
                       /\ t[i].number = episodes[i].number
                       /\ t[i].due # 0 <=> t[i].status = "AWAITING_MEDIA"
                       /\ episodes[i].due # 0 => t[i].due # 0
    OBVIOUS
  <2>1. episodes[i] \in Planning!Episode
    BY <1>4, RowsOf
  <2>2. CASE i \in DOMAIN due
    <3>. DEFINE handed == [episodes[i] EXCEPT !.due = due[i], !.status = "AWAITING_MEDIA"]
    <3>1. due[i] \in Planning!Days
      BY <1>3, <2>2
    <3>2. due[i] # 0
      BY <3>1, DaysArePositive
    <3>3. handed \in Planning!Episode /\ handed.number = episodes[i].number
          /\ handed.status = "AWAITING_MEDIA" /\ handed.due = due[i]
      BY <2>1, <3>1, EpisodeRows
    <3>4. t[i] = handed
      BY <2>2
    <3>. HIDE DEF handed, t
    <3>. QED
      BY <3>2, <3>3, <3>4
  <2>3. CASE i \notin DOMAIN due
    <3>1. t[i] = episodes[i]
      BY <2>3
    <3>. HIDE DEF t
    <3>. QED
      BY <2>1, <3>1 DEF Planning!IInv, Planning!DueMeansHandedOff
  <2>. QED
    BY <2>2, <2>3
<1>6. t \in [DOMAIN episodes -> Planning!Episode]
  BY <1>5
<1>. HIDE DEF t
<1>7. t \in Seq(Planning!Episode) /\ Len(t) = Len(episodes)
  BY <1>4, <1>6, AllRewritten
<1>8. movie' \in Planning!Open \cup {"CANCELLED"}
  BY <1>1 DEF Planning!Open
<1>. QED
  BY <1>1, <1>2, <1>5, <1>7, <1>8, EpisodesRewrittenStep

\* The lock is held since the largest number was read, so the next number is the next row's.
LEMMA InsertEpisodeStep ==
  ASSUME Planning!IInv, NEW r \in Staff, NEW season, Planning!InsertEpisode(r, season)
  PROVE  Planning!IInv'
<1>. DEFINE q == planning[r]
            row == Planning!Added(q)
            t == Append(episodes, row)
<1>1. /\ q.op = "insert" /\ episodes' = t /\ planning' = [planning EXCEPT ![r] = Planning!Idle]
      /\ lock' = lock \ {r} /\ UNCHANGED <<movie, files, stored, proposals>>
  BY DEF Planning!InsertEpisode, Planning!Done
<1>2. q \in Planning!Adding /\ lock = {r} /\ q.last = Len(episodes)
  BY <1>1, PlanningRecord DEF Planning!IInv, Planning!LastIsRead
<1>3. q.day \in Planning!Days /\ q.last \in Nat
  BY <1>2 DEF Planning!Adding
<1>4. q.day # 0
  BY <1>3, DaysArePositive
<1>5. row \in Planning!Episode /\ row.number = q.last + 1 /\ (row.due # 0 <=> row.status = "AWAITING_MEDIA")
  BY <1>3, <1>4 DEF Planning!Added, Planning!Episode, Planning!BeforeApproval
<1>6. episodes \in Seq(Planning!Episode)
  BY DEF Planning!IInv, Planning!TypeOK
<1>. HIDE DEF q, row
<1>7. /\ t \in Seq(Planning!Episode) /\ DOMAIN t = 1..(Len(episodes) + 1) /\ t[Len(episodes) + 1] = row
      /\ \A i \in DOMAIN episodes : t[i] = episodes[i]
  BY <1>5, <1>6, RowAdded
<1>8. DOMAIN episodes = 1..Len(episodes) /\ Len(episodes) \in Nat
  BY <1>6, RowsOf
<1>. HIDE DEF t
<1>9. \A i \in DOMAIN t : (i \in DOMAIN episodes /\ t[i] = episodes[i]) \/ (i = Len(episodes) + 1 /\ t[i] = row)
  BY <1>7, <1>8
<1>10. Planning!TypeOK'
  BY <1>1, <1>7 DEF Planning!IInv, Planning!TypeOK
<1>11. planning'[r] = Planning!Idle /\ \A s \in Staff : s # r => planning'[s] = planning[s]
  BY <1>1 DEF Planning!IInv, Planning!TypeOK
<1>12. Planning!Idle.op = "idle"
  BY DEF Planning!Idle
<1>13. \A s \in Staff : Planning!LastIsRead(s)'
  BY <1>2, <1>11, <1>12 DEF Planning!IInv, Planning!LastIsRead
<1>14. \A s \in Staff : Planning!FoundDue(s)'
  <2>1. \A i \in DOMAIN episodes : i \in DOMAIN t /\ t[i] = episodes[i]
    BY <1>7, <1>8
  <2>. QED
    BY <1>1, <1>11, <1>12, <2>1 DEF Planning!IInv, Planning!FoundDue
<1>15. Planning!NumberedOn'
  BY <1>1, <1>2, <1>5, <1>9 DEF Planning!IInv, Planning!NumberedOn
<1>16. Planning!DueMeansHandedOff'
  BY <1>1, <1>5, <1>9 DEF Planning!IInv, Planning!DueMeansHandedOff
<1>. QED
  BY <1>10, <1>13, <1>14, <1>15, <1>16 DEF Planning!IInv

LEMMA InsertFileStep ==
  ASSUME Planning!IInv, NEW r \in Staff, Planning!InsertFile(r)
  PROVE  Planning!IInv'
<1>. DEFINE q == planning[r]
            row == [version |-> q.last + 1, object |-> q.object]
            t == Append(files, row)
<1>1. /\ q.op = "file" /\ files' = t /\ planning' = [planning EXCEPT ![r] = Planning!Idle]
      /\ lock' = lock \ {r} /\ UNCHANGED <<movie, episodes, stored, proposals>>
  BY DEF Planning!InsertFile, Planning!Done
<1>2. q \in Planning!Uploading /\ lock = {r} /\ q.last = Len(files)
  BY <1>1, PlanningRecord DEF Planning!IInv, Planning!LastIsRead
<1>3. row \in Planning!File /\ row.version = q.last + 1
  BY <1>2 DEF Planning!Uploading, Planning!File
<1>4. files \in Seq(Planning!File)
  BY DEF Planning!IInv, Planning!TypeOK
<1>. HIDE DEF q, row
<1>5. /\ t \in Seq(Planning!File) /\ DOMAIN t = 1..(Len(files) + 1) /\ t[Len(files) + 1] = row
      /\ \A i \in DOMAIN files : t[i] = files[i]
  BY <1>3, <1>4, RowAdded
<1>6. DOMAIN files = 1..Len(files) /\ Len(files) \in Nat
  BY <1>4, RowsOf
<1>. HIDE DEF t
<1>7. \A i \in DOMAIN t : (i \in DOMAIN files /\ t[i] = files[i]) \/ (i = Len(files) + 1 /\ t[i] = row)
  BY <1>5, <1>6
<1>8. Planning!TypeOK'
  BY <1>1, <1>5 DEF Planning!IInv, Planning!TypeOK
<1>9. planning'[r] = Planning!Idle /\ \A s \in Staff : s # r => planning'[s] = planning[s]
  BY <1>1 DEF Planning!IInv, Planning!TypeOK
<1>10. Planning!Idle.op = "idle"
  BY DEF Planning!Idle
<1>11. \A s \in Staff : Planning!LastIsRead(s)'
  BY <1>2, <1>9, <1>10 DEF Planning!IInv, Planning!LastIsRead
<1>12. \A s \in Staff : Planning!FoundDue(s)'
  BY <1>1, <1>9, <1>10 DEF Planning!IInv, Planning!FoundDue
<1>13. Planning!NumberedOn'
  BY <1>1, <1>2, <1>3, <1>7 DEF Planning!IInv, Planning!NumberedOn
<1>. QED
  BY <1>1, <1>8, <1>11, <1>12, <1>13 DEF Planning!IInv, Planning!DueMeansHandedOff

\* What is read of the project to add, edit, assign, hand off or upload.
LEMMA BeginPlanningStep ==
  ASSUME Planning!IInv, NEW r \in Staff,
         \/ \E d \in Planning!Days : \/ Planning!BeginAdd(r, d)
                                     \/ \E i \in DOMAIN episodes : Planning!BeginEdit(r, i, d)
         \/ Planning!BeginAssign(r) \/ Planning!BeginHandOff(r) \/ Planning!BeginUpload(r)
  PROVE  Planning!IInv'
<1>1. /\ episodes \in Seq(Planning!Episode) /\ stored \in Nat
      /\ movie \in Planning!Open \cup {"CANCELLED"}
      /\ proposals \in Seq({"OPEN", "ACCEPTED", "REJECTED"})
  BY DEF Planning!IInv, Planning!TypeOK
<1>2. stored' \in Nat /\ UNCHANGED <<movie, seasons, episodes, files, proposals, lock>>
  BY <1>1 DEF Planning!BeginAdd, Planning!BeginEdit, Planning!BeginAssign, Planning!BeginHandOff,
              Planning!BeginUpload, Planning!Read
<1>3. ASSUME NEW q \in Planning!Adding \cup Planning!Editing \cup Planning!Assigning
                       \cup Planning!HandingOff \cup Planning!Uploading,
             q.op \notin {"insert", "file"},
             q.op = "edit" => q.episode \in DOMAIN episodes /\ (q.due => episodes[q.episode].due # 0),
             planning' = [planning EXCEPT ![r] = q]
      PROVE  Planning!IInv'
  BY <1>1, <1>2, <1>3, PlanningReadStep
<1>4. ASSUME NEW d \in Planning!Days, Planning!BeginAdd(r, d) PROVE Planning!IInv'
  <2>. DEFINE q == [op |-> "add", day |-> d, movie |-> movie, last |-> 0]
  <2>1. q \in Planning!Adding
    BY <1>4 DEF Planning!BeginAdd, Planning!Adding
  <2>2. planning' = [planning EXCEPT ![r] = q] /\ q.op = "add"
    BY <1>4 DEF Planning!BeginAdd, Planning!Read
  <2>. HIDE DEF q
  <2>. QED
    BY <1>3, <2>1, <2>2
<1>5. ASSUME NEW d \in Planning!Days, NEW i \in DOMAIN episodes, Planning!BeginEdit(r, i, d)
      PROVE  Planning!IInv'
  <2>. DEFINE q == [op |-> "edit", episode |-> i, day |-> d, due |-> episodes[i].due # 0]
  <2>1. q \in Planning!Editing
    BY <1>1 DEF Planning!Editing
  <2>2. planning' = [planning EXCEPT ![r] = q] /\ q.op = "edit"
        /\ q.episode = i /\ (q.due => episodes[i].due # 0)
    BY <1>5 DEF Planning!BeginEdit, Planning!Read
  <2>. HIDE DEF q
  <2>. QED
    BY <1>3, <2>1, <2>2
<1>6. ASSUME Planning!BeginAssign(r) PROVE Planning!IInv'
  <2>. DEFINE q == [op |-> "assign", movie |-> movie]
  <2>1. q \in Planning!Assigning
    BY <1>6 DEF Planning!BeginAssign, Planning!Assigning
  <2>2. planning' = [planning EXCEPT ![r] = q] /\ q.op = "assign"
    BY <1>6 DEF Planning!BeginAssign, Planning!Read
  <2>. HIDE DEF q
  <2>. QED
    BY <1>3, <2>1, <2>2
<1>7. ASSUME Planning!BeginHandOff(r) PROVE Planning!IInv'
  <2>. DEFINE due == [i \in DOMAIN episodes |-> episodes[i].milestone]
              q == [op |-> "handoff", due |-> due]
  <2>1. \A row \in Planning!Episode : row.milestone \in Planning!Days
    BY DEF Planning!Episode
  <2>2. due \in Seq(Planning!Days)
    <3>1. \A i \in DOMAIN episodes : episodes[i] \in Planning!Episode
      BY <1>1, RowsOf
    <3>2. Len(episodes) \in Nat /\ DOMAIN episodes = 1..Len(episodes)
      BY <1>1, RowsOf
    <3>3. due \in [1..Len(episodes) -> Planning!Days]
      BY <2>1, <3>1, <3>2
    <3>. HIDE DEF due
    <3>. QED
      BY <3>2, <3>3
  <2>3. planning' = [planning EXCEPT ![r] = q] /\ q.op = "handoff"
    BY <1>7 DEF Planning!BeginHandOff, Planning!Read
  <2>. HIDE DEF due
  <2>4. q \in Planning!HandingOff
    BY <2>2 DEF Planning!HandingOff
  <2>. HIDE DEF q
  <2>. QED
    BY <1>3, <2>3, <2>4
<1>8. ASSUME Planning!BeginUpload(r) PROVE Planning!IInv'
  <2>. DEFINE q == [op |-> "upload", object |-> stored + 1, last |-> 0]
  <2>1. q \in Planning!Uploading
    BY <1>1 DEF Planning!Uploading
  <2>2. planning' = [planning EXCEPT ![r] = q] /\ q.op = "upload"
    BY <1>8 DEF Planning!BeginUpload, Planning!Read
  <2>. HIDE DEF q
  <2>. QED
    BY <1>3, <2>1, <2>2
<1>. QED
  BY <1>4, <1>5, <1>6, <1>7, <1>8

LEMMA StepPlanningIInv ==
  ASSUME Planning!IInv, [StudioNext]_studioVars
  PROVE  Planning!IInv'
<1>1. /\ stored \in Nat /\ movie \in Planning!Open \cup {"CANCELLED"}
      /\ proposals \in Seq({"OPEN", "ACCEPTED", "REJECTED"})
  BY DEF Planning!IInv, Planning!TypeOK
<1>2. ASSUME UNCHANGED <<episodes, files, stored, lock, planning>>,
             movie' \in Planning!Open \cup {"CANCELLED"},
             proposals' \in Seq({"OPEN", "ACCEPTED", "REJECTED"})
      PROVE  Planning!IInv'
  BY <1>2 DEF Planning!IInv, Planning!TypeOK, Planning!NumberedOn, Planning!DueMeansHandedOff,
              Planning!LastIsRead, Planning!FoundDue
<1>3. ASSUME NEW r \in Staff, Planning!Assign(r) PROVE Planning!IInv'
  <2>1. planning[r] \in Planning!Assigning
    BY <1>3, PlanningRecord DEF Planning!IInv, Planning!Assign
  <2>2. movie' \in Planning!Open \cup {"CANCELLED"}
    BY <1>3, <2>1 DEF Planning!Assign, Planning!Assigning, Planning!Open
  <2>3. Planning!Idle.op = "idle"
    BY DEF Planning!Idle
  <2>. QED
    BY <1>1, <1>3, <2>2, <2>3, PlanningReadStep DEF Planning!Assign, Planning!Done
<1>4. ASSUME NEW r \in Staff, Planning!Abort(r) PROVE Planning!IInv'
  <2>1. Planning!Idle.op = "idle"
    BY DEF Planning!Idle
  <2>. QED
    BY <1>1, <1>4, <2>1, PlanningReadStep DEF Planning!Abort, Planning!Done
<1>5. CASE Planning!Cancel
  BY <1>1, <1>2, <1>5 DEF Planning!Cancel
<1>6. CASE Planning!Propose
  BY <1>1, <1>2, <1>6 DEF Planning!Propose
<1>7. ASSUME NEW i \in DOMAIN proposals, NEW verdict \in {"ACCEPTED", "REJECTED"}, Planning!Answer(i, verdict)
      PROVE  Planning!IInv'
  BY <1>1, <1>2, <1>7 DEF Planning!Answer
<1>8. CASE Planning!NextDay
  BY <1>1, <1>2, <1>8 DEF Planning!NextDay
<1>9. CASE UNCHANGED planningVars
  BY <1>1, <1>2, <1>9 DEF planningVars
<1>. QED
  BY <1>3, <1>4, <1>5, <1>6, <1>7, <1>8, <1>9, StudioStep, BeginPlanningStep, LockStep,
     InsertEpisodeStep, EditEpisodeStep, HandOffStep, InsertFileStep
  DEF Planning!Next

\* What writes the status asks for an open project, and what writes an answer for an open proposal.
LEMMA NothingUndone ==
  ASSUME Planning!IInv, [StudioNext]_studioVars
  PROVE  [ /\ movie = "CANCELLED" => movie' = "CANCELLED"
           /\ \A i \in DOMAIN proposals : proposals[i] # "OPEN" => proposals'[i] = proposals[i]
         ]_(Planning!vars)
<1>1. proposals \in Seq({"OPEN", "ACCEPTED", "REJECTED"})
  BY DEF Planning!IInv, Planning!TypeOK
<1>2. movie = "CANCELLED" => movie' = "CANCELLED"
  BY StudioStep
  DEF Planning!Next, Planning!BeginAdd, Planning!BeginEdit, Planning!InsertEpisode, Planning!LockAdd,
      Planning!EditEpisode, Planning!BeginAssign, Planning!Assign, Planning!BeginHandOff,
      Planning!HandOff, Planning!BeginUpload, Planning!LockUpload, Planning!InsertFile, Planning!Abort,
      Planning!Cancel, Planning!Propose, Planning!Answer, Planning!NextDay, Planning!Read, Planning!Open,
      planningVars
<1>3. \/ UNCHANGED proposals
      \/ proposals' = Append(proposals, "OPEN")
      \/ \E k \in DOMAIN proposals, verdict \in {"ACCEPTED", "REJECTED"} :
            proposals[k] = "OPEN" /\ proposals' = [proposals EXCEPT ![k] = verdict]
  BY StudioStep
  DEF Planning!Next, Planning!BeginAdd, Planning!BeginEdit, Planning!InsertEpisode, Planning!LockAdd,
      Planning!EditEpisode, Planning!BeginAssign, Planning!Assign, Planning!BeginHandOff,
      Planning!HandOff, Planning!BeginUpload, Planning!LockUpload, Planning!InsertFile, Planning!Abort,
      Planning!Cancel, Planning!Propose, Planning!Answer, Planning!NextDay, Planning!Read, planningVars
<1>4. \A i \in DOMAIN proposals : proposals[i] # "OPEN" => proposals'[i] = proposals[i]
  BY <1>1, <1>3
<1>. QED
  BY <1>2, <1>4

(* Episodes and files are numbered on without a gap or a repetition, the    *)
(* studio is due on exactly the episodes that wait for it, and neither a    *)
(* cancellation nor an answer is undone, whichever additions, edits,        *)
(* assignments and hand-offs come in between (PlanIsKept).                  *)
THEOREM PlanKept == StudioSpec => PlanIsKept
<1>1. StudioInit => Planning!IInv
  <2>. SUFFICES ASSUME StudioInit PROVE Planning!IInv
    OBVIOUS
  <2>1. PICK d \in Planning!Days :
           episodes = <<[number |-> 1, status |-> "DRAFT", milestone |-> d, due |-> 0]>>
    BY DEF StudioInit, Planning!Init
  <2>. DEFINE row == [number |-> 1, status |-> "DRAFT", milestone |-> d, due |-> 0]
  <2>2. row \in Planning!Episode /\ row.number = 1 /\ row.due = 0 /\ row.status = "DRAFT"
    BY DEF Planning!Episode, Planning!BeforeApproval
  <2>3. episodes = <<row>>
    BY <2>1
  <2>. HIDE DEF row
  <2>4. episodes \in Seq(Planning!Episode) /\ DOMAIN episodes = {1} /\ episodes[1] = row
    BY <2>2, <2>3
  <2>5. /\ movie = "DRAFT" /\ files = <<>> /\ stored = 0 /\ proposals = <<>> /\ lock = {}
        /\ planning = [r \in Staff |-> Planning!Idle]
    BY DEF StudioInit, Planning!Init
  <2>6. Planning!TypeOK
    BY <2>4, <2>5 DEF Planning!TypeOK, Planning!Open
  <2>. QED
    BY <2>2, <2>4, <2>5, <2>6
    DEF Planning!IInv, Planning!NumberedOn, Planning!DueMeansHandedOff, Planning!LastIsRead,
        Planning!FoundDue, Planning!Idle
<1>2. Planning!IInv => Planning!NumberedOn /\ Planning!DueMeansHandedOff
  BY DEF Planning!IInv
<1>3. ASSUME Planning!IInv, [StudioNext]_studioVars
      PROVE  [ /\ movie = "CANCELLED" => movie' = "CANCELLED"
               /\ \A i \in DOMAIN proposals : proposals[i] # "OPEN" => proposals'[i] = proposals[i]
             ]_(Planning!vars)
  BY <1>3, NothingUndone
<1>4. StudioSpec => [](Planning!NumberedOn)
  BY <1>1, <1>2, StepPlanningIInv, PTL DEF StudioSpec
<1>5. StudioSpec => [](Planning!DueMeansHandedOff)
  BY <1>1, <1>2, StepPlanningIInv, PTL DEF StudioSpec
<1>6. StudioSpec => Planning!FinalStays
  BY <1>1, <1>3, StepPlanningIInv, PTL DEF StudioSpec, Planning!FinalStays
<1>. QED
  BY <1>4, <1>5, <1>6, PTL DEF PlanIsKept, Planning!PlanIsKept

-----------------------------------------------------------------------------
(* In a step of the office one part works, and the others stand still.      *)
LEMMA OfficeStep ==
  ASSUME [Next]_vars
  PROVE  /\ Signing!Next \/ UNCHANGED signingVars
         /\ Access!Next \/ UNCHANGED accessVars
         /\ Reward!Next \/ UNCHANGED rewardVars
         /\ Plan!Next \/ UNCHANGED planVars
         /\ View!Next \/ UNCHANGED viewVars
         /\ Pay!Next \/ UNCHANGED payVars
         /\ Report!Next \/ UNCHANGED reportVars
         /\ Fetch!Next \/ UNCHANGED fetchVars
BY DEF Next, vars

-----------------------------------------------------------------------------
(***************************************************************************)
(* Sessions.  A session is named after the number of its first token, and  *)
(* a token is replaced only in the step that revokes it, which looks again *)
(* whether somebody was first; so the next token is alone.                 *)
(***************************************************************************)

\* What the rows of a session say of each other, apart from the account.
LEMMA TokensKept ==
  ASSUME Signing!IInv, user' \in Signing!Accounts, user'.exists => user.exists,
         user'.exists \/ tokens = <<>>,
         NEW t \in [DOMAIN tokens -> Signing!Row], tokens' = t,
         \A n \in DOMAIN tokens : t[n].session = tokens[n].session
                                  /\ (tokens[n].revoked => t[n].revoked),
         signing' \in [Requests -> {Signing!Idle} \cup Signing!Issuing \cup Signing!Rotating
                                     \cup Signing!Revoking],
         \A r \in Requests : signing'[r].op = "rotate" =>
            signing'[r] = signing[r] \/ signing'[r].token \in DOMAIN tokens
  PROVE  Signing!IInv'
<1>1. tokens \in Seq(Signing!Row)
  BY DEF Signing!IInv, Signing!TypeOK
<1>2. tokens' \in Seq(Signing!Row) /\ Len(tokens') = Len(tokens) /\ DOMAIN tokens' = DOMAIN tokens
  BY <1>1, AllRewritten
<1>3. Signing!TypeOK'
  BY <1>2 DEF Signing!IInv, Signing!TypeOK
<1>4. Signing!SessionsBegan'
  BY <1>2 DEF Signing!IInv, Signing!SessionsBegan
<1>5. Signing!RotatesAToken'
  BY <1>2 DEF Signing!IInv, Signing!TypeOK, Signing!RotatesAToken
<1>6. Signing!OneLiveToken'
  <2>1. ASSUME NEW n \in DOMAIN tokens', NEW m \in DOMAIN tokens',
               tokens'[n].session = tokens'[m].session, n < m
        PROVE  tokens'[n].revoked
    BY <1>2, <2>1 DEF Signing!IInv, Signing!OneLiveToken, Signing!Live
  <2>2. user'.exists \/ tokens' = <<>>
    BY <1>2
  <2>. QED
    BY <2>1, <2>2 DEF Signing!OneLiveToken, Signing!Live
<1>. QED
  BY <1>3, <1>4, <1>5, <1>6 DEF Signing!IInv

\* A token is added that is the only live one of its session.
LEMMA TokenAdded ==
  ASSUME Signing!IInv, user.exists, user' = user,
         NEW t \in [DOMAIN tokens -> Signing!Row], NEW new \in Signing!Row,
         tokens' = Append(t, new),
         \A n \in DOMAIN tokens : t[n].session = tokens[n].session
                                  /\ (tokens[n].revoked => t[n].revoked),
         \A n \in DOMAIN tokens : t[n].session = new.session => t[n].revoked,
         new.session <= Len(tokens) + 1,
         NEW r \in Requests, signing' = [signing EXCEPT ![r] = Signing!Idle]
  PROVE  Signing!IInv'
<1>1. tokens \in Seq(Signing!Row)
  BY DEF Signing!IInv, Signing!TypeOK
<1>2. t \in Seq(Signing!Row) /\ Len(t) = Len(tokens) /\ DOMAIN t = DOMAIN tokens
  BY <1>1, AllRewritten
<1>3. Len(tokens) \in Nat /\ DOMAIN tokens = 1..Len(tokens)
  BY <1>1, RowsOf
<1>4. /\ tokens' \in Seq(Signing!Row) /\ DOMAIN tokens' = 1..(Len(tokens) + 1)
      /\ tokens'[Len(tokens) + 1] = new
      /\ \A n \in DOMAIN tokens : tokens'[n] = t[n]
  BY <1>2, RowAdded
<1>5. Signing!TypeOK'
  BY <1>4 DEF Signing!IInv, Signing!TypeOK
<1>6. Signing!SessionsBegan'
  BY <1>3, <1>4 DEF Signing!IInv, Signing!SessionsBegan
<1>7. Signing!RotatesAToken'
  BY <1>3, <1>4 DEF Signing!IInv, Signing!TypeOK, Signing!RotatesAToken, Signing!Idle
<1>8. Signing!OneLiveToken'
  <2>1. ASSUME NEW n \in DOMAIN tokens', NEW m \in DOMAIN tokens',
               tokens'[n].session = tokens'[m].session, n < m
        PROVE  tokens'[n].revoked
    <3>1. n \in DOMAIN tokens
      BY <1>3, <1>4, <2>1
    <3>2. CASE m \in DOMAIN tokens
      BY <1>4, <2>1, <3>1, <3>2 DEF Signing!IInv, Signing!OneLiveToken, Signing!Live
    <3>3. CASE m = Len(tokens) + 1
      BY <1>4, <2>1, <3>1, <3>3
    <3>. QED
      BY <1>3, <1>4, <3>2, <3>3
  <2>. QED
    BY <2>1 DEF Signing!OneLiveToken, Signing!Live
<1>. QED
  BY <1>5, <1>6, <1>7, <1>8 DEF Signing!IInv

LEMMA SigningRecord ==
  ASSUME Signing!TypeOK, NEW r \in Requests
  PROVE  /\ signing[r].op = "issue" => signing[r] \in Signing!Issuing
         /\ signing[r].op = "rotate" => signing[r] \in Signing!Rotating
<1>1. signing[r] \in {Signing!Idle} \cup Signing!Issuing \cup Signing!Rotating \cup Signing!Revoking
  BY DEF Signing!TypeOK
<1>. QED
  BY <1>1 DEF Signing!Idle, Signing!Issuing, Signing!Rotating, Signing!Revoking

\* A sign-in begins a session that no row knows.
LEMMA IssueStep ==
  ASSUME Signing!IInv, NEW r \in Requests, Signing!Issue(r)
  PROVE  Signing!IInv'
<1>. DEFINE new == Signing!Token(Len(tokens) + 1, signing[r].version)
<1>1. /\ signing[r].op = "issue" /\ user.exists /\ user' = user
      /\ tokens' = Append(tokens, new) /\ signing' = [signing EXCEPT ![r] = Signing!Idle]
  BY DEF Signing!Issue, Signing!Go
<1>2. tokens \in Seq(Signing!Row)
  BY DEF Signing!IInv, Signing!TypeOK
<1>3. Len(tokens) \in Nat /\ DOMAIN tokens = 1..Len(tokens) /\ tokens \in [DOMAIN tokens -> Signing!Row]
  BY <1>2, RowsOf
<1>4. signing[r].version \in 0..MaxUpdates
  BY <1>1, SigningRecord DEF Signing!IInv, Signing!Issuing
<1>5. new \in Signing!Row /\ new.session = Len(tokens) + 1
  BY <1>3, <1>4 DEF Signing!Token, Signing!Row
<1>6. \A n \in DOMAIN tokens : tokens[n].session # new.session
  <2>1. \A n \in DOMAIN tokens : tokens[n].session \in Nat
    BY <1>3 DEF Signing!Row
  <2>. QED
    BY <1>3, <1>5, <2>1 DEF Signing!IInv, Signing!SessionsBegan
<1>. HIDE DEF new
<1>7. \A n \in DOMAIN tokens : /\ tokens[n].session = tokens[n].session
                               /\ tokens[n].revoked => tokens[n].revoked
                               /\ tokens[n].session = new.session => tokens[n].revoked
  BY <1>6
<1>8. new.session <= Len(tokens) + 1
  BY <1>3, <1>5
<1>. QED
  BY <1>1, <1>3, <1>5, <1>7, <1>8, TokenAdded

\* The token that is replaced was live, so it was the only live one of its session.
LEMMA RotateStep ==
  ASSUME Signing!IInv, NEW r \in Requests, Signing!Rotate(r)
  PROVE  Signing!IInv'
<1>. DEFINE k == signing[r].token
            used == [tokens[k] EXCEPT !.revoked = TRUE]
            t == [tokens EXCEPT ![k] = used]
            new == Signing!Token(tokens[k].session, signing[r].version)
<1>1. /\ signing[r].op = "rotate" /\ user.exists /\ user' = user /\ ~tokens[k].revoked
      /\ tokens' = Append(t, new) /\ signing' = [signing EXCEPT ![r] = Signing!Idle]
  BY DEF Signing!Rotate, Signing!Go
<1>2. tokens \in Seq(Signing!Row)
  BY DEF Signing!IInv, Signing!TypeOK
<1>3. Len(tokens) \in Nat /\ DOMAIN tokens = 1..Len(tokens) /\ tokens \in [DOMAIN tokens -> Signing!Row]
  BY <1>2, RowsOf
<1>4. k \in DOMAIN tokens /\ signing[r].version \in 0..MaxUpdates
  BY <1>1, SigningRecord DEF Signing!IInv, Signing!Rotating, Signing!RotatesAToken
<1>5. /\ tokens[k] \in Signing!Row /\ tokens[k].session \in Nat /\ tokens[k].session <= k
      /\ k <= Len(tokens)
  BY <1>3, <1>4 DEF Signing!IInv, Signing!SessionsBegan, Signing!Row
<1>6. used \in Signing!Row /\ used.session = tokens[k].session /\ used.revoked
  BY <1>5 DEF Signing!Row
<1>7. new \in Signing!Row /\ new.session = tokens[k].session
  BY <1>4, <1>5 DEF Signing!Token, Signing!Row
<1>8. \A n \in DOMAIN tokens : n # k /\ tokens[n].session = tokens[k].session => tokens[n].revoked
  BY <1>1, <1>3, <1>4 DEF Signing!IInv, Signing!OneLiveToken, Signing!Live
<1>. HIDE DEF used, new
<1>9. \A n \in DOMAIN tokens : t[n] = IF n = k THEN used ELSE tokens[n]
  BY <1>4
<1>10. t \in [DOMAIN tokens -> Signing!Row]
  BY <1>3, <1>6, <1>9
<1>11. new.session <= Len(tokens) + 1
  BY <1>3, <1>4, <1>5, <1>7
<1>12. \A n \in DOMAIN tokens : /\ t[n].session = tokens[n].session
                                /\ tokens[n].revoked => t[n].revoked
                                /\ t[n].session = new.session => t[n].revoked
  BY <1>6, <1>7, <1>8, <1>9
<1>. HIDE DEF t
<1>. QED
  BY <1>1, <1>7, <1>10, <1>11, <1>12, TokenAdded

(* Only the newest token of a session can be live, however many refreshes   *)
(* present the same token, and no session outlives its account              *)
(* (OneLiveToken).                                                          *)
THEOREM OneTokenLives == Spec => []OneLiveToken
<1>1. Init => Signing!IInv
  BY OfficeAssumption
  DEF Init, Signing!Init, Signing!IInv, Signing!TypeOK, Signing!Accounts, Signing!SessionsBegan,
      Signing!RotatesAToken, Signing!OneLiveToken, Signing!Idle
<1>2. ASSUME Signing!IInv, [Next]_vars PROVE Signing!IInv'
  <2>. DEFINE Doing == {Signing!Idle} \cup Signing!Issuing \cup Signing!Rotating \cup Signing!Revoking
  <2>1. /\ user \in Signing!Accounts
        /\ user.exists \/ tokens = <<>>
        /\ user.version \in 0..MaxUpdates
    BY <1>2 DEF Signing!IInv, Signing!TypeOK, Signing!OneLiveToken, Signing!Accounts
  <2>2. tokens \in Seq(Signing!Row)
    BY <1>2 DEF Signing!IInv, Signing!TypeOK
  <2>3. tokens \in [DOMAIN tokens -> Signing!Row] /\ DOMAIN tokens \subseteq Nat
    BY <2>2, RowsOf
  <2>4. Signing!Idle \in Doing /\ Signing!Idle.op # "rotate"
    BY DEF Signing!Idle
  <2>5. [op |-> "revokeAll"] \in Doing
    BY DEF Signing!Revoking
  <2>6. ASSUME NEW r \in Requests, NEW q \in Doing, q.op = "rotate" => q.token \in DOMAIN tokens,
               Signing!Go(r, q), UNCHANGED <<user, tokens>>
        PROVE  Signing!IInv'
    <3>1. signing \in [Requests -> Doing] /\ signing' = [signing EXCEPT ![r] = q]
      BY <1>2, <2>6 DEF Signing!Go, Signing!IInv, Signing!TypeOK
    <3>2. /\ signing' \in [Requests -> Doing]
          /\ \A s \in Requests : signing'[s].op = "rotate" =>
                signing'[s] = signing[s] \/ signing'[s].token \in DOMAIN tokens
      BY <2>6, <3>1
    <3>. QED
      BY <1>2, <2>1, <2>3, <2>6, <3>2, TokensKept
  <2>7. ASSUME NEW r \in Requests, Signing!Abort(r) PROVE Signing!IInv'
    BY <2>4, <2>6, <2>7 DEF Signing!Abort
  <2>8. ASSUME NEW r \in Requests, Signing!BeginLogin(r) PROVE Signing!IInv'
    <3>1. [op |-> "issue", version |-> user.version] \in Signing!Issuing
      BY <2>1 DEF Signing!Issuing
    <3>. QED
      BY <2>6, <2>8, <3>1 DEF Signing!BeginLogin
  <2>9. ASSUME NEW r \in Requests, NEW n \in DOMAIN tokens, Signing!BeginRotate(r, n) PROVE Signing!IInv'
    <3>1. [op |-> "rotate", token |-> n, version |-> user.version] \in Signing!Rotating
      BY <2>1, <2>3 DEF Signing!Rotating
    <3>. QED
      BY <2>5, <2>6, <2>9, <3>1 DEF Signing!BeginRotate
  <2>10. ASSUME NEW r \in Requests, Signing!BeginRevokeAll(r) PROVE Signing!IInv'
    <3>1. [op |-> "revoking", seen |-> {n \in DOMAIN tokens : ~tokens[n].revoked}] \in Signing!Revoking
      BY <2>3 DEF Signing!Revoking
    <3>. QED
      BY <2>6, <2>10, <3>1 DEF Signing!BeginRevokeAll
  <2>11. ASSUME NEW r \in Requests, Signing!RevokeAll(r) PROVE Signing!IInv'
    <3>. DEFINE t == [n \in DOMAIN tokens |->
                        [tokens[n] EXCEPT !.revoked = @ \/ n \in signing[r].seen]]
    <3>1. /\ tokens' = t /\ user' = user /\ signing' = [signing EXCEPT ![r] = Signing!Idle]
      BY <2>11 DEF Signing!RevokeAll, Signing!Go
    <3>2. \A row \in Signing!Row, b \in BOOLEAN :
             LET revoked == [row EXCEPT !.revoked = row.revoked \/ b]
             IN  /\ revoked \in Signing!Row /\ revoked.session = row.session
                 /\ row.revoked => revoked.revoked
      BY DEF Signing!Row
    <3>3. \A n \in DOMAIN tokens : tokens[n] \in Signing!Row
      BY <2>3
    <3>4. \A n \in DOMAIN tokens :
             /\ t[n] \in Signing!Row /\ t[n].session = tokens[n].session
             /\ tokens[n].revoked => t[n].revoked
      BY <3>2, <3>3
    <3>5. t \in [DOMAIN tokens -> Signing!Row]
      BY <3>4
    <3>. HIDE DEF t
    <3>6. /\ signing' \in [Requests -> Doing]
          /\ \A s \in Requests : signing'[s].op = "rotate" => signing'[s] = signing[s]
      BY <1>2, <2>4, <3>1 DEF Signing!IInv, Signing!TypeOK
    <3>. QED
      BY <1>2, <2>1, <3>1, <3>4, <3>5, <3>6, TokensKept
  <2>12. ASSUME NEW r \in Requests, Signing!Update(r) PROVE Signing!IInv'
    <3>1. user' \in Signing!Accounts /\ (user'.exists <=> user.exists) /\ tokens' = tokens
      <4>1. \A a \in Signing!Accounts :
               /\ [a EXCEPT !.active = FALSE] \in Signing!Accounts
               /\ [a EXCEPT !.active = FALSE].exists = a.exists
               /\ [a EXCEPT !.active = TRUE] \in Signing!Accounts
               /\ [a EXCEPT !.active = TRUE].exists = a.exists
        BY DEF Signing!Accounts
      <4>2. \A a \in Signing!Accounts, v \in 0..MaxUpdates :
               /\ [a EXCEPT !.version = v] \in Signing!Accounts
               /\ [a EXCEPT !.version = v].exists = a.exists
        BY DEF Signing!Accounts
      <4>3. user.version < MaxUpdates => user.version + 1 \in 0..MaxUpdates
        BY <2>1, OfficeAssumption
      <4>. QED
        BY <2>1, <2>12, <4>1, <4>2, <4>3 DEF Signing!Update
    <3>2. signing' = signing \/ signing' = [signing EXCEPT ![r] = [op |-> "revokeAll"]]
      BY <2>12 DEF Signing!Update, Signing!Go
    <3>3. /\ signing' \in [Requests -> Doing]
          /\ \A s \in Requests : signing'[s].op = "rotate" => signing'[s] = signing[s]
      BY <1>2, <2>5, <3>2 DEF Signing!IInv, Signing!TypeOK
    <3>. QED
      BY <1>2, <2>1, <2>3, <3>1, <3>3, TokensKept
  <2>13. ASSUME NEW n \in DOMAIN tokens, Signing!Revoke(n) \/ Signing!Expire(n) PROVE Signing!IInv'
    <3>1. PICK new \in Signing!Row :
             /\ tokens' = [tokens EXCEPT ![n] = new]
             /\ new.session = tokens[n].session /\ (tokens[n].revoked => new.revoked)
      <4>1. \A row \in Signing!Row :
               /\ [row EXCEPT !.revoked = TRUE] \in Signing!Row
               /\ [row EXCEPT !.revoked = TRUE].session = row.session
               /\ [row EXCEPT !.revoked = TRUE].revoked
               /\ [row EXCEPT !.expired = TRUE] \in Signing!Row
               /\ [row EXCEPT !.expired = TRUE].session = row.session
               /\ [row EXCEPT !.expired = TRUE].revoked = row.revoked
        BY DEF Signing!Row
      <4>2. tokens[n] \in Signing!Row
        BY <2>3
      <4>. QED
        BY <2>13, <4>1, <4>2 DEF Signing!Revoke, Signing!Expire
    <3>2. user' = user /\ signing' = signing
      BY <2>13 DEF Signing!Revoke, Signing!Expire
    <3>. DEFINE t == [tokens EXCEPT ![n] = new]
    <3>3. \A m \in DOMAIN tokens : t[m] = IF m = n THEN new ELSE tokens[m]
      BY <2>3
    <3>4. t \in [DOMAIN tokens -> Signing!Row]
      BY <2>3, <3>3
    <3>5. \A m \in DOMAIN tokens : t[m].session = tokens[m].session
                                   /\ (tokens[m].revoked => t[m].revoked)
      BY <3>1, <3>3
    <3>6. signing' \in [Requests -> Doing] /\ tokens' = t
      BY <1>2, <3>1, <3>2 DEF Signing!IInv, Signing!TypeOK
    <3>. HIDE DEF t
    <3>. QED
      BY <1>2, <2>1, <3>2, <3>4, <3>5, <3>6, TokensKept
  <2>14. CASE Signing!Remove
    <3>1. /\ user' \in Signing!Accounts /\ ~user'.exists /\ tokens' = <<>> /\ signing' = signing
      <4>1. \A a \in Signing!Accounts : /\ [a EXCEPT !.exists = FALSE] \in Signing!Accounts
                                        /\ ~[a EXCEPT !.exists = FALSE].exists
        BY DEF Signing!Accounts
      <4>. QED
        BY <2>1, <2>14, <4>1 DEF Signing!Remove
    <3>. QED
      BY <1>2, <3>1 DEF Signing!IInv, Signing!TypeOK, Signing!SessionsBegan, Signing!RotatesAToken,
                        Signing!OneLiveToken
  <2>15. CASE UNCHANGED signingVars
    BY <1>2, <2>15 DEF signingVars, Signing!IInv, Signing!TypeOK, Signing!SessionsBegan,
                       Signing!RotatesAToken, Signing!OneLiveToken, Signing!Live
  <2>. QED
    BY <1>2, <2>7, <2>8, <2>9, <2>10, <2>11, <2>12, <2>13, <2>14, <2>15, IssueStep, RotateStep, OfficeStep
    DEF Signing!Next
<1>3. Signing!IInv => OneLiveToken
  BY DEF Signing!IInv, OneLiveToken
<1>. QED
  BY <1>1, <1>2, <1>3, PTL DEF Spec

-----------------------------------------------------------------------------
(***************************************************************************)
(* Entries about an account.  The clock goes on while a look-up runs, so   *)
(* what it stores may long be stale; but it was true when the look-up      *)
(* began, and an entry ends Ttl after it was stored.                       *)
(***************************************************************************)

\* Later changes take nothing away from what stood after t.
LEMMA StoodOn ==
  ASSUME Access!TypeOK, NEW v \in Nat \ {0}, NEW t \in Int, t <= clock, Access!StoodAfter(v, t),
         replaced' = Append(replaced, clock)
  PROVE  Access!StoodAfter(v, t)'
<1>1. replaced \in Seq(Nat) /\ clock \in Nat /\ (v = account => v = Len(replaced) + 1)
  BY DEF Access!TypeOK
<1>2. /\ Len(replaced') = Len(replaced) + 1 /\ replaced'[Len(replaced) + 1] = clock
      /\ \A n \in 1..Len(replaced) : replaced'[n] = replaced[n]
  BY <1>1
<1>. QED
  BY <1>1, <1>2 DEF Access!StoodAfter

LEMMA StoodSame ==
  ASSUME UNCHANGED <<account, replaced>>, NEW v, NEW t, Access!StoodAfter(v, t)
  PROVE  Access!StoodAfter(v, t)'
BY DEF Access!StoodAfter

LEMMA GuardRecord ==
  ASSUME Access!TypeOK, NEW r \in Requests
  PROVE  /\ guard[r].op = "store" => guard[r] \in Access!Storing
         /\ guard[r].op = "hold" => guard[r] \in Access!Keeping
         /\ guard[r].op \in {"forget", "clear"} => guard[r] \in Access!Clearing
<1>1. guard[r] \in {Access!Idle} \cup Access!Storing \cup Access!Keeping \cup Access!Clearing
  BY DEF Access!TypeOK
<1>. QED
  BY <1>1 DEF Access!Idle, Access!Storing, Access!Keeping, Access!Clearing

\* When what an entry says was true, by its end and the time its look-up took.
LEMMA EntryRow ==
  ASSUME Access!IInv, Ttl \in Nat, NEW i \in Instances, entry[i].account # 0
  PROVE  /\ entry[i].account \in Nat \ {0} /\ entry[i].ends \in Int /\ entry[i].took \in Int
         /\ entry[i].ends - Ttl - entry[i].took \in Int
         /\ entry[i].ends - Ttl - entry[i].took <= clock
         /\ Access!StoodAfter(entry[i].account, entry[i].ends - Ttl - entry[i].took)
<1>1. entry[i] \in [account : Nat, ends : Int, took : Int]
  BY DEF Access!IInv, Access!TypeOK
<1>. QED
  BY <1>1 DEF Access!IInv, Access!EntriesEnd

\* A tick: what was read before it was read before, and no entry moves.
LEMMA TickStep ==
  ASSUME Ttl \in Nat, Access!IInv, Access!Tick
  PROVE  Access!IInv'
<1>1. clock' = clock + 1 /\ UNCHANGED <<account, permissions, replaced, entry, held, guard>>
  BY DEF Access!Tick
<1>2. Access!TypeOK'
  BY <1>1 DEF Access!IInv, Access!TypeOK
<1>3. Access!ReadsWereTrue'
  <2>1. ASSUME NEW r \in Requests, guard[r].op = "store", guard[r].account # 0
        PROVE  guard[r].began <= clock' /\ Access!StoodAfter(guard[r].account, guard[r].began)
    <3>1. guard[r].began \in Nat /\ clock \in Nat
      BY <2>1, GuardRecord DEF Access!IInv, Access!Storing, Access!TypeOK
    <3>. QED
      BY <1>1, <2>1, <3>1 DEF Access!IInv, Access!ReadsWereTrue
  <2>. QED
    BY <1>1, <2>1 DEF Access!ReadsWereTrue, Access!StoodAfter
<1>4. Access!EntriesEnd'
  <2>1. ASSUME NEW i \in Instances, entry[i].account # 0
        PROVE  /\ entry[i].ends - Ttl - entry[i].took <= clock'
               /\ Access!StoodAfter(entry[i].account, entry[i].ends - Ttl - entry[i].took)
    <3>1. clock \in Nat
      BY DEF Access!IInv, Access!TypeOK
    <3>. QED
      BY <1>1, <2>1, <3>1, EntryRow
  <2>. QED
    BY <1>1, <2>1 DEF Access!EntriesEnd, Access!StoodAfter
<1>. QED
  BY <1>2, <1>3, <1>4 DEF Access!IInv

\* A request begins, or ends, and no entry, account or clock changes.
LEMMA AccessReadStep ==
  ASSUME Access!IInv, NEW r \in Requests,
         NEW q \in {Access!Idle} \cup Access!Storing \cup Access!Keeping \cup Access!Clearing,
         guard' = [guard EXCEPT ![r] = q],
         q \in Access!Storing => q.account = account /\ q.began = clock,
         UNCHANGED <<account, replaced, clock, entry>>, permissions' \in Nat, held' \in [Instances -> Nat]
  PROVE  Access!IInv'
<1>1. Access!TypeOK'
  BY DEF Access!IInv, Access!TypeOK
<1>2. Access!EntriesEnd'
  BY DEF Access!IInv, Access!EntriesEnd, Access!StoodAfter
<1>3. q.op = "store" => q.account = account /\ q.began = clock
  BY DEF Access!Idle, Access!Storing, Access!Keeping, Access!Clearing
<1>4. Access!ReadsWereTrue'
  <2>1. guard'[r] = q /\ \A p \in Requests \ {r} : guard'[p] = guard[p]
    BY DEF Access!IInv, Access!TypeOK
  <2>2. clock \in Nat /\ UNCHANGED <<account, replaced, clock>>
    BY DEF Access!IInv, Access!TypeOK
  <2>. QED
    BY <1>3, <2>1, <2>2 DEF Access!IInv, Access!ReadsWereTrue, Access!StoodAfter
<1>. QED
  BY <1>1, <1>2, <1>4 DEF Access!IInv

\* What was read is stored: it was true when the look-up began, `took` before now.
LEMMA StoreAccountStep ==
  ASSUME Ttl \in Nat, Access!IInv, NEW r \in Requests, Access!StoreAccount(r)
  PROVE  Access!IInv'
<1>. DEFINE q == guard[r]
            new == IF q.account = 0 THEN Access!None
                   ELSE [account |-> q.account, ends |-> clock + Ttl, took |-> clock - q.began]
<1>1. /\ q.op = "store"
      /\ entry' = [entry EXCEPT ![q.instance] = new]
      /\ guard' = [guard EXCEPT ![r] = Access!Idle]
      /\ UNCHANGED <<account, permissions, replaced, clock, held>>
  BY DEF Access!StoreAccount, Access!Go
<1>2. q.account \in Nat /\ q.instance \in Instances /\ q.began \in Nat
  BY <1>1, GuardRecord DEF Access!IInv, Access!Storing
<1>3. clock \in Nat
  BY DEF Access!IInv, Access!TypeOK
<1>4. q.account # 0 => q.began <= clock /\ Access!StoodAfter(q.account, q.began)
  BY <1>1 DEF Access!IInv, Access!ReadsWereTrue
<1>5. new \in [account : Nat, ends : Int, took : Int]
  BY <1>2, <1>3 DEF Access!None
<1>6. new.account # 0 => /\ new.account = q.account /\ q.account # 0
                         /\ new.ends - Ttl - new.took = q.began
  BY <1>2, <1>3 DEF Access!None
<1>. HIDE DEF new
<1>7. \A i \in Instances : entry'[i] = IF i = q.instance THEN new ELSE entry[i]
  BY <1>1 DEF Access!IInv, Access!TypeOK
<1>8. Access!TypeOK'
  BY <1>1, <1>5, <1>7 DEF Access!IInv, Access!TypeOK
<1>9. Access!EntriesEnd'
  BY <1>1, <1>3, <1>4, <1>6, <1>7 DEF Access!IInv, Access!EntriesEnd, Access!StoodAfter
<1>10. Access!ReadsWereTrue'
  BY <1>1 DEF Access!IInv, Access!TypeOK, Access!ReadsWereTrue, Access!StoodAfter, Access!Idle
<1>. QED
  BY <1>8, <1>9, <1>10 DEF Access!IInv

LEMMA ForgetAccountStep ==
  ASSUME Access!IInv, NEW r \in Requests, Access!ForgetAccount(r)
  PROVE  Access!IInv'
<1>. DEFINE q == guard[r]
<1>1. /\ q.op = "forget"
      /\ entry' = [entry EXCEPT ![q.instance] = Access!None]
      /\ guard' = [guard EXCEPT ![r] = Access!Idle]
      /\ UNCHANGED <<account, permissions, replaced, clock, held>>
  BY DEF Access!ForgetAccount, Access!Go
<1>2. Access!None \in [account : Nat, ends : Int, took : Int] /\ Access!None.account = 0
  BY DEF Access!None
<1>3. \A i \in Instances : entry'[i] = IF i = q.instance THEN Access!None ELSE entry[i]
  BY <1>1 DEF Access!IInv, Access!TypeOK
<1>4. Access!TypeOK'
  BY <1>1, <1>2, <1>3 DEF Access!IInv, Access!TypeOK
<1>5. Access!EntriesEnd'
  BY <1>1, <1>2, <1>3 DEF Access!IInv, Access!EntriesEnd, Access!StoodAfter
<1>6. Access!ReadsWereTrue'
  BY <1>1 DEF Access!IInv, Access!TypeOK, Access!ReadsWereTrue, Access!StoodAfter, Access!Idle
<1>. QED
  BY <1>4, <1>5, <1>6 DEF Access!IInv

\* What entries say, and requests have read, was true before this change or an older one.
LEMMA ChangeAccountStep ==
  ASSUME Ttl \in Nat, Access!IInv, NEW r \in Requests, NEW i \in Instances, Access!ChangeAccount(r, i)
  PROVE  Access!IInv'
<1>1. /\ account # 0 /\ account' \in {account + 1, 0} /\ replaced' = Append(replaced, clock)
      /\ guard' = [guard EXCEPT ![r] = [op |-> "forget", instance |-> i]]
      /\ UNCHANGED <<permissions, clock, entry, held>>
  BY DEF Access!ChangeAccount, Access!Go
<1>2. /\ Access!TypeOK /\ account \in Nat /\ clock \in Nat /\ replaced \in Seq(Nat)
      /\ account = Len(replaced) + 1
  BY <1>1 DEF Access!IInv, Access!TypeOK
<1>3. [op |-> "forget", instance |-> i] \in Access!Clearing
  BY DEF Access!Clearing
<1>4. Access!TypeOK'
  <2>1. replaced' \in Seq(Nat) /\ (account' # 0 => account' = Len(replaced') + 1) /\ account' \in Nat
    BY <1>1, <1>2
  <2>. QED
    BY <1>1, <1>2, <1>3, <2>1 DEF Access!TypeOK
<1>5. Access!EntriesEnd'
  <2>1. ASSUME NEW j \in Instances, entry[j].account # 0
        PROVE  /\ entry[j].ends - Ttl - entry[j].took <= clock
               /\ Access!StoodAfter(entry[j].account, entry[j].ends - Ttl - entry[j].took)'
    <3>1. PICK v \in Nat \ {0}, t \in Int :
             /\ v = entry[j].account /\ t = entry[j].ends - Ttl - entry[j].took
             /\ t <= clock /\ Access!StoodAfter(v, t)
      BY <2>1, EntryRow
    <3>2. Access!StoodAfter(v, t)'
      BY <1>1, <1>2, <3>1, StoodOn
    <3>. QED
      BY <1>1, <3>1, <3>2 DEF Access!StoodAfter
  <2>. QED
    BY <1>1, <2>1 DEF Access!EntriesEnd, Access!StoodAfter
<1>6. Access!ReadsWereTrue'
  <2>1. ASSUME NEW p \in Requests, guard'[p].op = "store", guard'[p].account # 0
        PROVE  guard'[p].began <= clock /\ Access!StoodAfter(guard[p].account, guard[p].began)'
               /\ guard'[p] = guard[p]
    <3>1. guard'[p] = guard[p]
      BY <1>1, <1>2, <2>1 DEF Access!TypeOK
    <3>2. PICK v \in Nat \ {0}, t \in Nat : v = guard[p].account /\ t = guard[p].began
      BY <1>2, <2>1, <3>1, GuardRecord DEF Access!Storing
    <3>3. t <= clock /\ Access!StoodAfter(v, t)
      BY <2>1, <3>1, <3>2 DEF Access!IInv, Access!ReadsWereTrue
    <3>4. Access!StoodAfter(v, t)'
      BY <1>1, <1>2, <3>3, StoodOn
    <3>5. guard[p].account = v /\ guard[p].began = t
      BY <3>2
    <3>. QED
      BY <3>1, <3>3, <3>4, <3>5 DEF Access!StoodAfter
  <2>. QED
    BY <1>1, <2>1 DEF Access!ReadsWereTrue, Access!StoodAfter
<1>. QED
  BY <1>4, <1>5, <1>6 DEF Access!IInv

(* An instance that still answers from an entry a change made stale does so *)
(* for less than Ttl, and the time the look-up took, after that change,     *)
(* whatever look-ups, updates and the clock overlap (StaleForTtl).          *)
THEOREM StaleNotForLong == Spec => []StaleForTtl
<1>. Ttl \in Nat
  BY OfficeAssumption
<1>1. Init => Access!IInv
  <2>1. SUFFICES ASSUME Init PROVE Access!IInv
    OBVIOUS
  <2>2. /\ account = 1 /\ permissions = 1 /\ replaced = <<>> /\ clock = 0
        /\ entry = [i \in Instances |-> Access!None] /\ held = [i \in Instances |-> 0]
        /\ guard = [r \in Requests |-> Access!Idle]
    BY <2>1 DEF Init, Access!Init
  <2>3. Access!None \in [account : Nat, ends : Int, took : Int] /\ Access!None.account = 0
    BY DEF Access!None
  <2>4. Access!TypeOK
    BY <2>2, <2>3 DEF Access!TypeOK
  <2>. QED
    BY <2>2, <2>3, <2>4 DEF Access!IInv, Access!EntriesEnd, Access!ReadsWereTrue, Access!Idle
<1>2. ASSUME Access!IInv, [Next]_vars PROVE Access!IInv'
  <2>. DEFINE Doing == {Access!Idle} \cup Access!Storing \cup Access!Keeping \cup Access!Clearing
  <2>1. /\ account \in Nat /\ permissions \in Nat /\ clock \in Nat /\ held \in [Instances -> Nat]
        /\ Access!Idle \in Doing /\ Access!Idle \notin Access!Storing
    BY <1>2 DEF Access!IInv, Access!TypeOK, Access!Idle, Access!Storing
  <2>2. ASSUME NEW r \in Requests, NEW i \in Instances, Access!BeginLookup(r, i) PROVE Access!IInv'
    <3>1. LET q == [op |-> "store", instance |-> i, account |-> account, began |-> clock]
          IN  q \in Access!Storing /\ q.account = account /\ q.began = clock
      BY <2>1 DEF Access!Storing
    <3>. QED
      BY <1>2, <2>1, <2>2, <3>1, AccessReadStep DEF Access!BeginLookup, Access!Go
  <2>3. ASSUME NEW r \in Requests, NEW i \in Instances, Access!BeginPermissions(r, i) PROVE Access!IInv'
    <3>1. LET q == [op |-> "hold", instance |-> i, permissions |-> permissions]
          IN  q \in Access!Keeping /\ q \notin Access!Storing
      BY <2>1 DEF Access!Keeping, Access!Storing
    <3>. QED
      BY <1>2, <2>1, <2>3, <3>1, AccessReadStep DEF Access!BeginPermissions, Access!Go
  <2>4. ASSUME NEW r \in Requests, Access!HoldPermissions(r) PROVE Access!IInv'
    <3>1. guard[r].permissions \in Nat
      BY <1>2, <2>4, GuardRecord DEF Access!HoldPermissions, Access!IInv, Access!Keeping
    <3>2. held' \in [Instances -> Nat]
      BY <2>1, <2>4, <3>1 DEF Access!HoldPermissions
    <3>. QED
      BY <1>2, <2>1, <2>4, <3>2, AccessReadStep DEF Access!HoldPermissions, Access!Go
  <2>5. ASSUME NEW r \in Requests, NEW i \in Instances, Access!SetRolePermissions(r, i) PROVE Access!IInv'
    <3>1. LET q == [op |-> "clear", instance |-> i]
          IN  q \in Access!Clearing /\ q \notin Access!Storing
      BY DEF Access!Clearing, Access!Storing
    <3>2. permissions' \in Nat
      BY <2>1, <2>5 DEF Access!SetRolePermissions
    <3>. QED
      BY <1>2, <2>1, <2>5, <3>1, <3>2, AccessReadStep DEF Access!SetRolePermissions, Access!Go
  <2>6. ASSUME NEW r \in Requests, Access!ClearPermissions(r) PROVE Access!IInv'
    <3>1. held' \in [Instances -> Nat]
      BY <2>1, <2>6 DEF Access!ClearPermissions
    <3>. QED
      BY <1>2, <2>1, <2>6, <3>1, AccessReadStep DEF Access!ClearPermissions, Access!Go
  <2>7. ASSUME NEW r \in Requests, Access!StoreAccount(r) \/ Access!ForgetAccount(r) PROVE Access!IInv'
    BY <1>2, <2>7, StoreAccountStep, ForgetAccountStep
  <2>8. ASSUME NEW r \in Requests, NEW i \in Instances, Access!ChangeAccount(r, i) PROVE Access!IInv'
    BY <1>2, <2>8, ChangeAccountStep
  <2>9. CASE Access!Tick
    BY <1>2, <2>9, TickStep
  <2>10. CASE UNCHANGED accessVars
    BY <1>2, <2>10 DEF accessVars, Access!IInv, Access!TypeOK, Access!EntriesEnd, Access!ReadsWereTrue,
                       Access!StoodAfter
  <2>. QED
    BY <1>2, <2>2, <2>3, <2>4, <2>5, <2>6, <2>7, <2>8, <2>9, <2>10, OfficeStep DEF Access!Next
<1>3. ASSUME Access!IInv PROVE StaleForTtl
  <2>1. SUFFICES ASSUME NEW i \in Instances, entry[i].account # 0, entry[i].ends > clock,
                        entry[i].account # account
                 PROVE  clock < replaced[entry[i].account] + Ttl + entry[i].took
    BY DEF StaleForTtl, Access!StaleForTtl, Access!Holds
  <2>2. /\ entry[i].account \in 1..Len(replaced)
        /\ entry[i].ends - Ttl - entry[i].took <= replaced[entry[i].account]
        /\ entry[i].ends \in Int /\ entry[i].took \in Int
    BY <1>3, <2>1, EntryRow DEF Access!StoodAfter
  <2>3. replaced \in Seq(Nat) /\ clock \in Nat
    BY <1>3 DEF Access!IInv, Access!TypeOK
  <2>4. replaced[entry[i].account] \in Nat
    BY <2>2, <2>3, RowsOf
  <2>. DEFINE gone == replaced[entry[i].account]
              ends == entry[i].ends
              took == entry[i].took
  <2>5. /\ gone \in Nat /\ ends \in Int /\ took \in Int /\ clock \in Nat
        /\ ends - Ttl - took <= gone /\ ends > clock
    BY <2>1, <2>2, <2>3, <2>4
  <2>. HIDE DEF gone, ends, took
  <2>6. clock < gone + Ttl + took
    BY <2>5
  <2>. QED
    BY <2>6 DEF gone, took
<1>. QED
  BY <1>1, <1>2, <1>3, PTL DEF Spec

-----------------------------------------------------------------------------
(***************************************************************************)
(* Daily check-in.  No check-in is ever taken back, so a streak that a     *)
(* request read still stands when it commits; a new movement gets its      *)
(* check-in in the same step, and a movement found again is left alone.    *)
(***************************************************************************)

\* A streak goes on from the check-in of the day before.
LEMMA StreakFound ==
  ASSUME Reward!TypeOK, NEW d \in Nat
  PROVE  /\ Reward!StreakOn(d) \in Nat
         /\ Reward!StreakOn(d) > 0 =>
               \E c \in checkIns : c.day = d - 1 /\ c.streak = Reward!StreakOn(d)
<1>. DEFINE last == {c \in checkIns : /\ \A e \in checkIns : e.day <= c.day
                                     /\ Reward!IsYesterday(c, d)}
            found == CHOOSE c \in last : TRUE
<1>1. CASE last = {}
  BY <1>1 DEF Reward!StreakOn
<1>2. CASE last # {}
  <2>1. found \in checkIns /\ found.day = d - 1
    BY <1>2 DEF Reward!IsYesterday
  <2>2. Reward!StreakOn(d) = found.streak
    BY <1>2 DEF Reward!StreakOn
  <2>3. found.streak \in Nat
    BY <2>1 DEF Reward!TypeOK, Reward!CheckInRow
  <2>. QED
    BY <2>1, <2>2, <2>3
<1>. QED
  BY <1>1, <1>2

LEMMA CheckingRecord ==
  ASSUME Reward!TypeOK, NEW r \in Requests
  PROVE  /\ checking[r].op = "look" => checking[r] \in Reward!Looking
         /\ checking[r].op = "pay" => checking[r] \in Reward!Paying
         /\ checking[r].op \in {"look", "pay"} <=> checking[r] # Reward!Idle
<1>1. checking[r] \in {Reward!Idle} \cup Reward!Looking \cup Reward!Paying
  BY DEF Reward!TypeOK
<1>. QED
  BY <1>1 DEF Reward!Idle, Reward!Looking, Reward!Paying

\* A request moves on, and no rule, check-in or movement changes.
LEMMA CheckingStep ==
  ASSUME Reward!IInv, NEW r \in Requests,
         NEW q \in {Reward!Idle} \cup Reward!Looking \cup Reward!Paying,
         checking' = [checking EXCEPT ![r] = q],
         q # Reward!Idle => Reward!Continues(q) /\ Reward!Offered(q),
         UNCHANGED <<today, rules, offered, entries, checkIns>>
  PROVE  Reward!IInv'
<1>1. Reward!TypeOK'
  BY DEF Reward!IInv, Reward!TypeOK
<1>2. \A s \in Requests : checking'[s] = IF s = r THEN q ELSE checking[s]
  BY DEF Reward!IInv, Reward!TypeOK
<1>3. Reward!RequestsHold'
  <2>1. SUFFICES ASSUME NEW s \in Requests, checking'[s] # Reward!Idle
                 PROVE  Reward!Continues(checking'[s]) /\ Reward!Offered(checking'[s])
    BY DEF Reward!RequestsHold, Reward!Continues, Reward!Offered
  <2>2. CASE s = r
    BY <1>2, <2>1, <2>2
  <2>3. CASE s # r
    BY <1>2, <2>1, <2>3 DEF Reward!IInv, Reward!RequestsHold
  <2>. QED
    BY <2>2, <2>3
<1>4. Reward!RulesOffered' /\ Reward!RewardIsEarned'
  BY DEF Reward!IInv, Reward!RulesOffered, Reward!RewardIsEarned, Reward!OneRewardADay,
         Reward!StreakEarned, Reward!PaidAsOffered
<1>. QED
  BY <1>1, <1>3, <1>4 DEF Reward!IInv

LEMMA BeginCheckInStep ==
  ASSUME Reward!IInv, NEW r \in Requests, NEW key \in Keys \cup {NoKey}, Reward!BeginCheckIn(r, key)
  PROVE  Reward!IInv'
<1>. DEFINE q == [op |-> "look", key |-> key, day |-> today, absent |-> FALSE, on |-> Reward!Unread]
<1>1. q \in Reward!Looking
  BY DEF Reward!Looking, Reward!IInv, Reward!TypeOK
<1>2. Reward!Continues(q) /\ Reward!Offered(q)
  BY DEF Reward!Continues, Reward!Offered, Reward!Unread
<1>. QED
  BY <1>1, <1>2, CheckingStep DEF Reward!BeginCheckIn

\* What a request has read of the check-ins; the order of the two queries does not matter.
LEMMA LookStep ==
  ASSUME Reward!IInv, NEW r \in Requests, Reward!ReadToday(r) \/ Reward!ReadNewest(r)
  PROVE  Reward!IInv'
<1>. DEFINE p == checking[r]
            n == Reward!StreakOn(p.day)
<1>1. p \in Reward!Looking /\ Reward!Continues(p) /\ p.op = "look"
  BY CheckingRecord DEF Reward!ReadToday, Reward!ReadNewest, Reward!IInv, Reward!RequestsHold
<1>2. UNCHANGED <<today, rules, offered, entries, checkIns>>
  BY DEF Reward!ReadToday, Reward!ReadNewest
<1>3. CASE Reward!ReadToday(r)
  <2>1. checking' = [checking EXCEPT ![r] = [p EXCEPT !.absent = TRUE]]
    BY <1>3 DEF Reward!ReadToday
  <2>2. [p EXCEPT !.absent = TRUE] \in Reward!Looking
    BY <1>1 DEF Reward!Looking
  <2>3. Reward!Continues([p EXCEPT !.absent = TRUE]) /\ Reward!Offered([p EXCEPT !.absent = TRUE])
    BY <1>1 DEF Reward!Continues, Reward!Offered, Reward!Looking
  <2>. QED
    BY <1>2, <2>1, <2>2, <2>3, CheckingStep
<1>4. CASE Reward!ReadNewest(r)
  <2>1. checking' = [checking EXCEPT ![r] = [p EXCEPT !.on = n]]
    BY <1>4 DEF Reward!ReadNewest
  <2>2. p.day \in Nat
    BY <1>1 DEF Reward!Looking
  <2>3. n \in Nat /\ (n > 0 => \E c \in checkIns : c.day = p.day - 1 /\ c.streak = n)
    BY <2>2, StreakFound DEF Reward!IInv
  <2>. HIDE DEF n
  <2>4. [p EXCEPT !.on = n] \in Reward!Looking
    BY <1>1, <2>3 DEF Reward!Looking
  <2>5. Reward!Continues([p EXCEPT !.on = n]) /\ Reward!Offered([p EXCEPT !.on = n])
    BY <1>1, <2>3 DEF Reward!Continues, Reward!Offered, Reward!Looking
  <2>. QED
    BY <1>2, <2>1, <2>4, <2>5, CheckingStep
<1>. QED
  BY <1>3, <1>4

LEMMA ReadRuleStep ==
  ASSUME Reward!IInv, NEW r \in Requests, NEW i \in DOMAIN rules, Reward!ReadRule(r, i)
  PROVE  Reward!IInv'
<1>. DEFINE p == checking[r]
            q == [op |-> "pay", key |-> p.key, day |-> p.day, on |-> p.on, pays |-> rules[i].pays]
<1>1. /\ p.op = "look" /\ p.on # Reward!Unread
      /\ Reward!InForce(rules[i], Reward!NextStreakDay(p.on))
      /\ checking' = [checking EXCEPT ![r] = q]
      /\ UNCHANGED <<today, rules, offered, entries, checkIns>>
  BY DEF Reward!ReadRule
<1>2. p \in Reward!Looking /\ Reward!Continues(p)
  BY <1>1, CheckingRecord DEF Reward!IInv, Reward!RequestsHold
<1>3. rules[i].pays \in Reward!Pays
  <2>1. rules \in Seq(Reward!Rule)
    BY DEF Reward!IInv, Reward!TypeOK
  <2>2. rules[i] \in Reward!Rule
    BY <2>1, RowsOf
  <2>3. \A row \in Reward!Rule : row.pays \in Reward!Pays
    BY DEF Reward!Rule, Reward!Pays
  <2>. QED
    BY <2>2, <2>3
<1>4. q \in Reward!Paying
  BY <1>1, <1>2, <1>3 DEF Reward!Looking, Reward!Paying
<1>5. Reward!Continues(q)
  BY <1>2 DEF Reward!Continues
<1>6. Reward!Offered(q)
  BY <1>1 DEF Reward!Offered, Reward!InForce, Reward!IInv, Reward!RulesOffered
<1>. QED
  BY <1>1, <1>4, <1>5, <1>6, CheckingStep

\* A movement is recorded, a check-in or none is added, and neither is ever taken back.
LEMMA LedgerGrows ==
  ASSUME Reward!IInv, UNCHANGED <<today, rules, offered>>,
         Reward!TypeOK', checkIns \subseteq checkIns',
         \A s \in Requests : checking'[s] \in {checking[s], Reward!Idle}
  PROVE  Reward!RequestsHold' /\ Reward!RulesOffered'
<1>1. Reward!RulesOffered'
  BY DEF Reward!IInv, Reward!RulesOffered
<1>2. ASSUME NEW s \in Requests, checking'[s] # Reward!Idle
      PROVE  Reward!Continues(checking[s])' /\ Reward!Offered(checking[s])' /\ checking'[s] = checking[s]
  <2>1. checking'[s] = checking[s]
    BY <1>2
  <2>2. Reward!Continues(checking[s]) /\ Reward!Offered(checking[s])
    BY <1>2, <2>1 DEF Reward!IInv, Reward!RequestsHold
  <2>. QED
    BY <2>1, <2>2 DEF Reward!Continues, Reward!Offered
<1>. QED
  BY <1>1, <1>2 DEF Reward!RequestsHold, Reward!Continues, Reward!Offered

\* The row of a check-in, and the movement it names: a reward of its own, or one found again.
LEMMA CheckInStep ==
  ASSUME Reward!IInv, NEW r \in Requests, Reward!CheckIn(r)
  PROVE  Reward!IInv'
<1>. DEFINE q == checking[r]
            streak == Reward!NextStreakDay(q.on)
            fresh == Reward!Replayed(q.key) = {}
            paidBy == IF fresh THEN Len(entries) + 1 ELSE CHOOSE e \in Reward!Replayed(q.key) : TRUE
            new == [day |-> q.day, streak |-> streak, continued |-> q.on > 0, entry |-> paidBy,
                    granted |-> IF fresh THEN q.pays ELSE "replayed"]
            paid == [kind |-> "reward", key |-> q.key, streak |-> streak, pays |-> q.pays]
<1>1. /\ q.op = "pay" /\ Reward!Unique(q.day, paidBy)
      /\ entries' = IF fresh THEN Append(entries, paid) ELSE entries
      /\ checkIns' = checkIns \cup {new}
      /\ checking' = [checking EXCEPT ![r] = Reward!Idle]
      /\ UNCHANGED <<today, rules, offered>>
  BY DEF Reward!CheckIn
<1>2. q \in Reward!Paying /\ Reward!Continues(q) /\ Reward!Offered(q)
  BY <1>1, CheckingRecord DEF Reward!IInv, Reward!RequestsHold
<1>3. q.on \in Nat /\ q.day \in Nat /\ q.pays \in Reward!Pays /\ q.key \in Keys \cup {NoKey}
  BY <1>2 DEF Reward!Paying
<1>4. streak \in Nat \ {0} /\ (q.on = 0 => streak = 1)
  <2>1. q.on % Ladder \in Nat /\ 0 % Ladder = 0
    BY <1>3, OfficeAssumption
  <2>. QED
    BY <2>1 DEF Reward!NextStreakDay
<1>5. entries \in Seq(Reward!Entry)
  BY DEF Reward!IInv, Reward!TypeOK
<1>6. Len(entries) \in Nat /\ DOMAIN entries = 1..Len(entries)
  BY <1>5, RowsOf
<1>7. paidBy \in Nat /\ (~fresh => paidBy \in DOMAIN entries)
  BY <1>6 DEF Reward!Replayed
<1>8. paid \in Reward!Entry
  BY <1>3, <1>4 DEF Reward!Entry
<1>9. new \in Reward!CheckInRow
  BY <1>3, <1>4, <1>7 DEF Reward!CheckInRow
<1>10. /\ new.day = q.day /\ new.entry = paidBy /\ new.streak = streak
       /\ (fresh => paidBy = Len(entries) + 1 /\ new.granted = q.pays)
       /\ paid.kind = "reward" /\ paid.streak = streak /\ paid.pays = q.pays
  OBVIOUS
<1>11. new.continued <=> q.on > 0
  BY Zenon
<1>12. \A c \in checkIns : c.day # new.day /\ c.entry # new.entry
  BY <1>1, <1>10 DEF Reward!Unique
<1>13. Reward!Offered(q) => [streak |-> streak, pays |-> q.pays] \in offered
  BY <1>1 DEF Reward!Offered
<1>14. streak = (q.on % Ladder) + 1
  BY DEF Reward!NextStreakDay
<1>. HIDE DEF paidBy, new, paid, fresh, streak
<1>15. /\ fresh => /\ entries' \in Seq(Reward!Entry) /\ DOMAIN entries' = 1..(Len(entries) + 1)
                   /\ entries'[Len(entries) + 1] = paid
                   /\ \A e \in DOMAIN entries : entries'[e] = entries[e]
       /\ ~fresh => entries' = entries
  BY <1>1, <1>5, <1>8, RowAdded
<1>16. Reward!TypeOK'
  BY <1>1, <1>5, <1>9, <1>15 DEF Reward!IInv, Reward!TypeOK
<1>17. Reward!RequestsHold' /\ Reward!RulesOffered'
  <2>1. \A s \in Requests : checking'[s] \in {checking[s], Reward!Idle}
    BY <1>1 DEF Reward!IInv, Reward!TypeOK
  <2>. QED
    BY <1>1, <1>16, <2>1, LedgerGrows
<1>18. Reward!OneRewardADay'
  <2>1. ASSUME NEW c \in checkIns', NEW d \in checkIns', c # d
        PROVE  c.day # d.day /\ c.entry # d.entry
    BY <1>1, <1>12, <2>1 DEF Reward!IInv, Reward!RewardIsEarned, Reward!OneRewardADay
  <2>2. ASSUME NEW e \in DOMAIN entries', entries'[e].kind = "reward"
        PROVE  \E c \in checkIns' : /\ c.entry = e
                                    /\ c.streak = entries'[e].streak /\ c.granted = entries'[e].pays
    <3>1. CASE e \in DOMAIN entries
      <4>1. entries'[e] = entries[e]
        BY <1>15, <3>1
      <4>2. \E c \in checkIns : /\ c.entry = e
                                /\ c.streak = entries[e].streak /\ c.granted = entries[e].pays
        BY <2>2, <3>1, <4>1 DEF Reward!IInv, Reward!RewardIsEarned, Reward!OneRewardADay
      <4>. QED
        BY <1>1, <4>1, <4>2
    <3>2. CASE e \notin DOMAIN entries
      <4>1. fresh /\ e = Len(entries) + 1
        BY <1>6, <1>15, <3>2
      <4>2. new \in checkIns' /\ new.entry = e /\ entries'[e] = paid
        BY <1>1, <1>10, <1>15, <4>1
      <4>. QED
        BY <1>10, <4>1, <4>2
    <3>. QED
      BY <3>1, <3>2
  <2>. QED
    BY <2>1, <2>2 DEF Reward!OneRewardADay
<1>19. Reward!StreakEarned'
  <2>1. ASSUME NEW c \in checkIns
        PROVE  IF c.continued THEN \E d \in checkIns' : d.day = c.day - 1 /\ c.streak = (d.streak % Ladder) + 1
                              ELSE c.streak = 1
    BY <1>1 DEF Reward!IInv, Reward!RewardIsEarned, Reward!StreakEarned
  <2>2. IF new.continued THEN \E d \in checkIns' : /\ d.day = new.day - 1
                                                   /\ new.streak = (d.streak % Ladder) + 1
                         ELSE new.streak = 1
    <3>1. CASE q.on > 0
      <4>1. PICK d \in checkIns : d.day = q.day - 1 /\ d.streak = q.on
        BY <1>2, <3>1 DEF Reward!Continues
      <4>2. d \in checkIns' /\ d.day = new.day - 1 /\ new.streak = (d.streak % Ladder) + 1
        BY <1>1, <1>10, <1>14, <4>1
      <4>. QED
        BY <1>11, <3>1, <4>2
    <3>2. CASE ~(q.on > 0)
      BY <1>3, <1>4, <1>10, <1>11, <3>2
    <3>. QED
      BY <3>1, <3>2
  <2>. QED
    BY <1>1, <2>1, <2>2 DEF Reward!StreakEarned
<1>20. Reward!PaidAsOffered'
  <2>1. SUFFICES ASSUME NEW e \in DOMAIN entries', entries'[e].kind = "reward"
                 PROVE  [streak |-> entries'[e].streak, pays |-> entries'[e].pays] \in offered
    BY <1>1 DEF Reward!PaidAsOffered
  <2>2. CASE e \in DOMAIN entries
    <3>1. entries'[e] = entries[e]
      BY <1>15, <2>2
    <3>. QED
      BY <2>1, <2>2, <3>1 DEF Reward!IInv, Reward!RewardIsEarned, Reward!PaidAsOffered
  <2>3. CASE e \notin DOMAIN entries
    <3>1. fresh /\ e = Len(entries) + 1
      BY <1>6, <1>15, <2>3
    <3>2. entries'[e] = paid
      BY <1>15, <3>1
    <3>. QED
      BY <1>2, <1>10, <1>13, <3>2
  <2>. QED
    BY <2>2, <2>3
<1>. QED
  BY <1>16, <1>17, <1>18, <1>19, <1>20 DEF Reward!IInv, Reward!RewardIsEarned

\* Another movement takes a key, and no check-in is on it.
LEMMA OtherMovementStep ==
  ASSUME Reward!IInv, NEW key \in Keys, Reward!OtherMovement(key)
  PROVE  Reward!IInv'
<1>. DEFINE moved == [kind |-> "other", key |-> key, streak |-> 0, pays |-> "other"]
<1>1. entries' = Append(entries, moved) /\ UNCHANGED <<today, rules, offered, checkIns, checking>>
  BY DEF Reward!OtherMovement
<1>2. moved \in Reward!Entry /\ moved.kind # "reward"
  BY DEF Reward!Entry
<1>3. entries \in Seq(Reward!Entry)
  BY DEF Reward!IInv, Reward!TypeOK
<1>. HIDE DEF moved
<1>4. Len(entries) \in Nat /\ DOMAIN entries = 1..Len(entries)
  BY <1>3, RowsOf
<1>5. /\ entries' \in Seq(Reward!Entry) /\ DOMAIN entries' = 1..(Len(entries) + 1)
      /\ entries'[Len(entries) + 1] = moved
      /\ \A e \in DOMAIN entries : entries'[e] = entries[e]
  BY <1>1, <1>2, <1>3, RowAdded
<1>6. \A e \in DOMAIN entries' : entries'[e].kind = "reward" =>
         e \in DOMAIN entries /\ entries'[e] = entries[e]
  BY <1>2, <1>4, <1>5
<1>7. Reward!TypeOK'
  BY <1>1, <1>5 DEF Reward!IInv, Reward!TypeOK
<1>8. Reward!RequestsHold' /\ Reward!RulesOffered'
  BY <1>1, <1>7, LedgerGrows
<1>9. Reward!OneRewardADay' /\ Reward!PaidAsOffered'
  BY <1>1, <1>6 DEF Reward!IInv, Reward!RewardIsEarned, Reward!OneRewardADay, Reward!PaidAsOffered
<1>10. Reward!StreakEarned'
  BY <1>1 DEF Reward!IInv, Reward!RewardIsEarned, Reward!StreakEarned
<1>. QED
  BY <1>7, <1>8, <1>9, <1>10 DEF Reward!IInv, Reward!RewardIsEarned

\* Rules and days change under the requests; what was offered stays offered.
LEMMA RulesStep ==
  ASSUME Reward!IInv, UNCHANGED <<entries, checkIns, checking>>,
         today' \in Nat, rules' \in Seq(Reward!Rule),
         offered \subseteq offered', Reward!RulesOffered'
  PROVE  Reward!IInv'
<1>1. Reward!TypeOK'
  BY DEF Reward!IInv, Reward!TypeOK
<1>2. Reward!RequestsHold'
  BY DEF Reward!IInv, Reward!RequestsHold, Reward!Continues, Reward!Offered
<1>3. Reward!RewardIsEarned'
  BY DEF Reward!IInv, Reward!RewardIsEarned, Reward!OneRewardADay, Reward!StreakEarned,
         Reward!PaidAsOffered
<1>. QED
  BY <1>1, <1>2, <1>3 DEF Reward!IInv

\* A rule is added or written over, and offered if it is in force.
LEMMA RuleStep ==
  ASSUME Reward!IInv, NEW rule \in Reward!Rule,
         Reward!CreateRule(rule) \/ \E i \in DOMAIN rules : Reward!UpdateRule(i, rule)
  PROVE  Reward!IInv'
<1>1. rules \in Seq(Reward!Rule) /\ today \in Nat
  BY DEF Reward!IInv, Reward!TypeOK
<1>2. /\ offered \subseteq offered'
      /\ rule.active => [streak |-> rule.streak, pays |-> rule.pays] \in offered'
      /\ UNCHANGED <<today, entries, checkIns, checking>>
  BY DEF Reward!CreateRule, Reward!UpdateRule, Reward!Offer
<1>3. rules' \in Seq(Reward!Rule)
      /\ \A k \in DOMAIN rules' : rules'[k] = rule \/ (k \in DOMAIN rules /\ rules'[k] = rules[k])
  <2>1. CASE Reward!CreateRule(rule)
    <3>1. Len(rules) \in Nat /\ DOMAIN rules = 1..Len(rules)
      BY <1>1, RowsOf
    <3>2. /\ rules' \in Seq(Reward!Rule) /\ DOMAIN rules' = 1..(Len(rules) + 1)
          /\ rules'[Len(rules) + 1] = rule /\ \A k \in DOMAIN rules : rules'[k] = rules[k]
      BY <1>1, <2>1, RowAdded DEF Reward!CreateRule
    <3>. QED
      BY <3>1, <3>2
  <2>2. ASSUME NEW i \in DOMAIN rules, Reward!UpdateRule(i, rule)
        PROVE  /\ rules' \in Seq(Reward!Rule)
               /\ \A k \in DOMAIN rules' : rules'[k] = rule \/ (k \in DOMAIN rules /\ rules'[k] = rules[k])
    BY <1>1, <2>2, OneRewritten DEF Reward!UpdateRule
  <2>. QED
    BY <2>1, <2>2
<1>4. Reward!RulesOffered'
  BY <1>2, <1>3 DEF Reward!IInv, Reward!RulesOffered
<1>. QED
  BY <1>1, <1>2, <1>3, <1>4, RulesStep

LEMMA StepRewardIInv ==
  ASSUME Reward!IInv, [Next]_vars
  PROVE  Reward!IInv'
<1>1. today \in Nat /\ rules \in Seq(Reward!Rule) /\ Reward!RulesOffered
  BY DEF Reward!IInv, Reward!TypeOK
<1>2. CASE Reward!Midnight
  BY <1>1, <1>2, RulesStep DEF Reward!Midnight, Reward!RulesOffered
<1>3. ASSUME NEW r \in Requests, NEW key \in Keys \cup {NoKey}, Reward!BeginCheckIn(r, key)
      PROVE  Reward!IInv'
  BY <1>3, BeginCheckInStep
<1>4. ASSUME NEW r \in Requests, NEW i \in DOMAIN rules, Reward!ReadRule(r, i) PROVE Reward!IInv'
  BY <1>4, ReadRuleStep
<1>5. ASSUME NEW r \in Requests, Reward!ReadToday(r) \/ Reward!ReadNewest(r) PROVE Reward!IInv'
  BY <1>5, LookStep
<1>6. ASSUME NEW r \in Requests, Reward!CheckIn(r) PROVE Reward!IInv'
  BY <1>6, CheckInStep
<1>7. ASSUME NEW r \in Requests, Reward!Abort(r) PROVE Reward!IInv'
  BY <1>7, CheckingStep DEF Reward!Abort
<1>8. ASSUME NEW key \in Keys, Reward!OtherMovement(key) PROVE Reward!IInv'
  BY <1>8, OtherMovementStep
<1>9. ASSUME NEW rule \in Reward!Rule,
             Reward!CreateRule(rule) \/ \E i \in DOMAIN rules : Reward!UpdateRule(i, rule)
      PROVE  Reward!IInv'
  BY <1>9, RuleStep
<1>10. CASE UNCHANGED rewardVars
  BY <1>1, <1>10, RulesStep DEF rewardVars, Reward!RulesOffered
<1>. QED
  BY <1>2, <1>3, <1>4, <1>5, <1>6, <1>7, <1>8, <1>9, <1>10, OfficeStep DEF Reward!Next

(* One reward a business day for a streak that was earned, recorded as it   *)
(* was paid and paid as a rule of its day of the ladder offered, however    *)
(* requests race, share keys with other movements or run over midnight, and *)
(* whatever the Admin changes meanwhile (RewardIsEarned).                   *)
THEOREM RewardEarned == Spec => []RewardIsEarned
<1>1. Init => Reward!IInv
  BY DEF Init, Reward!Init, Reward!IInv, Reward!TypeOK, Reward!RequestsHold, Reward!RulesOffered,
         Reward!RewardIsEarned, Reward!OneRewardADay, Reward!StreakEarned, Reward!PaidAsOffered, Reward!Idle
<1>2. Reward!IInv => RewardIsEarned
  BY DEF Reward!IInv, RewardIsEarned
<1>. QED
  BY <1>1, <1>2, StepRewardIInv, PTL DEF Spec

-----------------------------------------------------------------------------
(***************************************************************************)
(* Prices of plans.  The row that a request closes is closed at the moment *)
(* its own row begins, and both are written in one step.                   *)
(***************************************************************************)

\* The rows that were read are closed; the others stay as they are.
LEMMA ClosedRows ==
  ASSUME Plan!TypeOK, NEW q \in Plan!Setting
  PROVE  /\ Plan!Closed(q) \in Seq(Plan!Row) /\ Len(Plan!Closed(q)) = Len(rows)
         /\ \A i \in DOMAIN rows :
               /\ Plan!Closed(q)[i].from = rows[i].from
               /\ Plan!Closed(q)[i].to = IF i \in q.current THEN q.from ELSE rows[i].to
<1>. DEFINE t == Plan!Closed(q)
<1>1. rows \in Seq(Plan!Row) /\ q.from \in Plan!Times
  BY DEF Plan!TypeOK, Plan!Setting
<1>2. \A row \in Plan!Row : LET closed == [row EXCEPT !.to = q.from]
                            IN  closed \in Plan!Row /\ closed.from = row.from /\ closed.to = q.from
  BY <1>1 DEF Plan!Row
<1>3. \A i \in DOMAIN rows : rows[i] \in Plan!Row
  BY <1>1, RowsOf
<1>4. \A i \in DOMAIN rows : t[i] = IF i \in q.current THEN [rows[i] EXCEPT !.to = q.from] ELSE rows[i]
  BY DEF Plan!Closed
<1>5. \A i \in DOMAIN rows : /\ t[i] \in Plan!Row /\ t[i].from = rows[i].from
                             /\ t[i].to = IF i \in q.current THEN q.from ELSE rows[i].to
  BY <1>2, <1>3, <1>4
<1>6. t \in [DOMAIN rows -> Plan!Row]
  <2>1. t = [i \in DOMAIN rows |-> t[i]]
    BY DEF Plan!Closed
  <2>. QED
    BY <1>5, <2>1
<1>. QED
  BY <1>1, <1>5, <1>6, AllRewritten

LEMMA SetPlanPriceStep ==
  ASSUME Plan!IInv, NEW r \in Requests, Plan!SetPrice(r)
  PROVE  Plan!IInv'
<1>. DEFINE q == pricing[r]
            old == Plan!Closed(q)
            new == [price |-> q.price, from |-> q.from, to |-> Plan!Open]
<1>1. /\ q.op = "set" /\ rows' = Append(old, new)
      /\ pricing' = [pricing EXCEPT ![r] = Plan!Idle]
  BY DEF Plan!SetPrice
<1>2. q \in Plan!Setting
  <2>1. q \in {Plan!Idle} \cup Plan!Setting
    BY DEF Plan!IInv, Plan!TypeOK
  <2>. QED
    BY <1>1, <2>1 DEF Plan!Idle
<1>3. new \in Plan!Row /\ new.from = q.from /\ new.to = Plan!Open
  BY <1>2 DEF Plan!Setting, Plan!Row
<1>4. /\ old \in Seq(Plan!Row) /\ Len(old) = Len(rows)
      /\ \A i \in DOMAIN rows : /\ old[i].from = rows[i].from
                                /\ old[i].to = IF i \in q.current THEN q.from ELSE rows[i].to
  BY <1>2, ClosedRows DEF Plan!IInv
<1>5. Len(rows) \in Nat /\ DOMAIN rows = 1..Len(rows) /\ DOMAIN old = 1..Len(rows)
  BY <1>4, RowsOf DEF Plan!IInv, Plan!TypeOK
<1>. HIDE DEF old, new
<1>6. /\ rows' \in Seq(Plan!Row) /\ Len(rows') = Len(rows) + 1 /\ DOMAIN rows' = 1..(Len(rows) + 1)
      /\ rows'[Len(rows) + 1] = new
      /\ \A i \in DOMAIN rows : rows'[i] = old[i]
  BY <1>1, <1>3, <1>4, <1>5, RowAdded
<1>7. Plan!TypeOK'
  BY <1>1, <1>6 DEF Plan!IInv, Plan!TypeOK
<1>8. Plan!Seamless'
  <2>1. ASSUME NEW i \in DOMAIN rows', rows'[i].to # Plan!Open
        PROVE  \E j \in DOMAIN rows' : i < j /\ rows'[j].from = rows'[i].to
    <3>1. i \in DOMAIN rows
      BY <1>3, <1>5, <1>6, <2>1
    <3>2. CASE i \in q.current
      <4>1. rows'[i].to = q.from /\ i < Len(rows) + 1 /\ Len(rows) + 1 \in DOMAIN rows'
        BY <1>4, <1>5, <1>6, <3>1, <3>2
      <4>. QED
        BY <1>3, <1>6, <4>1
    <3>3. CASE i \notin q.current
      <4>1. rows'[i].to = rows[i].to
        BY <1>4, <1>6, <3>1, <3>3
      <4>2. PICK j \in DOMAIN rows : i < j /\ rows[j].from = rows[i].to
        BY <2>1, <3>1, <4>1 DEF Plan!IInv, Plan!Seamless
      <4>3. j \in DOMAIN rows' /\ rows'[j].from = rows[j].from
        BY <1>4, <1>5, <1>6, <4>2
      <4>. QED
        BY <4>1, <4>2, <4>3
    <3>. QED
      BY <3>2, <3>3
  <2>2. rows'[Len(rows')].to = Plan!Open
    BY <1>3, <1>6
  <2>. QED
    BY <2>1, <2>2 DEF Plan!Seamless
<1>. QED
  BY <1>7, <1>8 DEF Plan!IInv

(* A price that has an end is followed at once by the price that replaced   *)
(* it, and one price without an end is always left, through any race of     *)
(* prices (Seamless).                                                       *)
THEOREM PricesAreSeamless == Spec => []Seamless
<1>1. Init => Plan!IInv
  BY DEF Init, Plan!Init, Plan!IInv, Plan!TypeOK, Plan!Seamless
<1>2. ASSUME Plan!IInv, [Next]_vars PROVE Plan!IInv'
  <2>1. CASE UNCHANGED <<rows, pricing>>
    BY <1>2, <2>1 DEF Plan!IInv, Plan!TypeOK, Plan!Seamless
  <2>2. ASSUME NEW r \in Requests, NEW amount \in PlanPrices, NEW from \in Plan!Times,
               Plan!BeginSetPrice(r, amount, from)
        PROVE  Plan!IInv'
    <3>1. DOMAIN rows \subseteq Nat
      BY <1>2 DEF Plan!IInv, Plan!TypeOK
    <3>2. PICK current \in IF Plan!Current = {} THEN {{}} ELSE {{i} : i \in Plan!Current} :
             pricing' = [pricing EXCEPT ![r] = [op |-> "set", current |-> current,
                                                price |-> amount, from |-> from]]
      BY <2>2 DEF Plan!BeginSetPrice
    <3>3. current \subseteq Nat
      BY <3>1 DEF Plan!Current, Plan!Newest
    <3>4. [op |-> "set", current |-> current, price |-> amount, from |-> from] \in Plan!Setting
      BY <3>3 DEF Plan!Setting
    <3>5. UNCHANGED rows
      BY <2>2 DEF Plan!BeginSetPrice
    <3>. QED
      BY <1>2, <3>2, <3>4, <3>5 DEF Plan!IInv, Plan!TypeOK, Plan!Seamless
  <2>3. ASSUME NEW r \in Requests, Plan!SetPrice(r) PROVE Plan!IInv'
    BY <1>2, <2>3, SetPlanPriceStep
  <2>4. ASSUME NEW r \in Requests, Plan!Abort(r) PROVE Plan!IInv'
    BY <1>2, <2>4 DEF Plan!Abort, Plan!IInv, Plan!TypeOK, Plan!Seamless
  <2>. QED
    BY <1>2, <2>1, <2>2, <2>3, <2>4, OfficeStep
    DEF Plan!Next, Plan!TimePasses, Plan!Update, planVars
<1>3. Plan!IInv => Seamless
  BY DEF Plan!IInv, Seamless
<1>. QED
  BY <1>1, <1>2, <1>3, PTL DEF Spec

-----------------------------------------------------------------------------
(***************************************************************************)
(* Offers.  The access decision and the purchases read the same facts with *)
(* guards of their own; case by case they come to the same end.            *)
(***************************************************************************)

\* What is known of a caller: amounts are numbers, and a guest owns nothing.
LEMMA FactsKnown ==
  ASSUME NEW f \in View!Facts
  PROVE  /\ f.price \in Int /\ f.coins \in Int /\ f.number \in 1..2
         /\ f.series \in Int \/ f.series = NoPrice
         /\ f.status = "PUBLISHED" \/ f.status = "MEDIA_SUBMITTED"
         /\ f.status = "PUBLISHED" => ~f.revising
BY OfficeAssumption DEF View!Facts

\* Who is told to buy can pay for it, and who is told to get Coins cannot.
LEMMA NextCanBePaid ==
  ASSUME NEW f \in View!Facts
  PROVE  CASE View!NextAction(f) = "UNLOCK_EPISODE" -> f.coins >= f.price
           [] View!NextAction(f) = "UNLOCK_SERIES" -> f.coins >= f.series
           [] View!NextAction(f) = "OBTAIN_COIN" -> f.coins < f.price
<1>1. f.price \in Int /\ f.coins \in Int /\ (f.series \in Int \/ f.series = NoPrice)
  BY FactsKnown
<1>2. CASE f.coins < f.price
  BY <1>2 DEF View!NextAction
<1>3. CASE ~(f.coins < f.price) /\ f.series # NoPrice /\ f.series <= f.price
  BY <1>1, <1>3 DEF View!NextAction
<1>4. CASE ~(f.coins < f.price) /\ ~(f.series # NoPrice /\ f.series <= f.price)
  <2>1. View!NextAction(f) = "UNLOCK_EPISODE"
    BY <1>4, Zenon DEF View!NextAction
  <2>. QED
    BY <1>1, <1>4, <2>1
<1>. QED
  BY <1>2, <1>3, <1>4

\* A member who is not granted an episode is told what comes next.
LEMMA DecidedForMember ==
  ASSUME NEW f \in View!Facts, ~f.guest, f.status = "PUBLISHED"
  PROVE  \/ View!Decide(f).told = "granted" /\ ~View!EpisodeForSale(f)
         \/ View!Decide(f) = View!Refused(f) /\ View!EpisodeForSale(f)
<1>1. f.number \in 1..2 /\ f.price \in Int
  BY FactsKnown
<1>2. CASE f.number <= View!FreeStarter \/ f.price = 0
  <2>1. ~View!NotFree(f)
    BY <1>1, <1>2 DEF View!NotFree, View!FreeStarter
  <2>2. View!Decide(f) \in {View!Granted("FREE_STARTER"), View!Granted("FREE")}
    BY <1>2 DEF View!Decide
  <2>3. View!Decide(f).told = "granted"
    BY <2>2 DEF View!Granted
  <2>. QED
    BY <2>1, <2>3 DEF View!EpisodeForSale
<1>3. CASE ~(f.number <= View!FreeStarter) /\ f.price # 0
  <2>1. View!Decide(f) = View!ForMember(f)
    BY <1>3 DEF View!Decide
  <2>2. View!NotFree(f)
    BY <1>1, <1>3 DEF View!NotFree, View!FreeStarter
  <2>3. CASE f.plan \in View!Running \/ f.owns \/ f.ownsSeries
    BY <2>1, <2>3 DEF View!ForMember, View!Granted, View!EpisodeForSale
  <2>4. CASE ~(f.plan \in View!Running \/ f.owns \/ f.ownsSeries)
    BY <2>1, <2>2, <2>4 DEF View!ForMember, View!EpisodeForSale
  <2>. QED
    BY <2>3, <2>4
<1>. QED
  BY <1>2, <1>3

\* What is not published is not found, and nothing else is.
LEMMA NotFoundUnpublished ==
  ASSUME NEW f \in View!Facts
  PROVE  View!Decide(f) # View!NotFound <=> f.status = "PUBLISHED"
BY DEF View!Decide, View!ForMember, View!Granted, View!Refused, View!NotFound

(* A signed-in member may watch a published episode exactly when it is not  *)
(* for sale to them, what comes next can be paid for, and what the catalog  *)
(* shows as available is found (OffersAreTrue).                             *)
THEOREM OffersTrue == Spec => []OffersAreTrue
<1>1. Init => View!Told
  BY DEF Init, View!Init, View!Told
<1>2. ASSUME View!Told, [Next]_vars PROVE View!Told'
  BY <1>2, OfficeStep DEF View!Next, View!Ask, View!Told, viewVars
<1>3. ASSUME View!Told PROVE OffersAreTrue
  <2>1. CASE answer = View!Unknown
    BY <2>1 DEF OffersAreTrue, View!OffersAreTrue, View!WatchOrBuy, View!ShownCanBeOpened, View!Asked
  <2>2. CASE facts \in View!Facts /\ answer = View!Decide(facts)
    <3>1. View!WatchOrBuy
      <4>1. SUFFICES ASSUME ~facts.guest, facts.status = "PUBLISHED"
                     PROVE  /\ answer.told = "granted" <=> ~View!EpisodeForSale(facts)
                            /\ answer.told = "refused" =>
                                 CASE answer.next = "UNLOCK_EPISODE" -> facts.coins >= facts.price
                                   [] answer.next = "UNLOCK_SERIES" -> facts.coins >= facts.series
                                   [] answer.next = "OBTAIN_COIN" -> facts.coins < facts.price
        BY DEF View!WatchOrBuy
      <4>2. CASE answer.told = "granted" /\ ~View!EpisodeForSale(facts)
        BY <4>2
      <4>3. CASE answer = View!Refused(facts) /\ View!EpisodeForSale(facts)
        <5>1. answer.told = "refused" /\ answer.next = View!NextAction(facts)
          BY <4>3 DEF View!Refused
        <5>. QED
          BY <2>2, <4>3, <5>1, NextCanBePaid
      <4>. QED
        BY <2>2, <4>1, <4>2, <4>3, DecidedForMember
    <3>2. View!ShownCanBeOpened
      <4>1. SUFFICES ASSUME View!Listed(facts)
                     PROVE  View!Availability(facts) = "AVAILABLE" <=> answer # View!NotFound
        BY DEF View!ShownCanBeOpened
      <4>2. facts.status = "PUBLISHED" <=> ~facts.revising
        BY <2>2, <4>1, FactsKnown DEF View!Listed, View!Visible
      <4>. QED
        BY <2>2, <4>2, NotFoundUnpublished DEF View!Availability
    <3>. QED
      BY <3>1, <3>2 DEF OffersAreTrue, View!OffersAreTrue
  <2>. QED
    BY <1>3, <2>1, <2>2 DEF View!Told
<1>. QED
  BY <1>1, <1>2, <1>3, PTL DEF Spec

-----------------------------------------------------------------------------
(***************************************************************************)
(* The gateways.  An order waits for its link as long as the link is open, *)
(* so a decision of the gateway always meets an order that was not settled, *)
(* and what an order became it stays.                                      *)
(***************************************************************************)

\* Rounded down, the Coins cost no more than was paid for them.
LEMMA RoundedDown ==
  ASSUME NEW sum \in Nat, NEW each \in Nat \ {0}
  PROVE  sum \div each \in Nat /\ (sum \div each) * each <= sum
<1>1. sum = each * (sum \div each) + (sum % each) /\ sum % each \in 0..(each - 1) /\ sum \div each \in Int
  OBVIOUS
<1>. DEFINE d == sum \div each
            m == sum % each
<1>2. sum = each * d + m /\ m \in Nat /\ d \in Int /\ m < each
  BY <1>1
<1>. HIDE DEF d, m
<1>3. each * d = d * each
  BY <1>2
<1>4. d * each <= sum
  BY <1>2, <1>3
<1>5. d >= 0
  <2>1. SUFFICES ASSUME d <= -1 PROVE FALSE
    BY <1>2
  <2>2. d * each <= (-1) * each
    BY <1>2, <2>1
  <2>. QED
    BY <1>2, <1>3, <2>2
<1>. QED
  BY <1>2, <1>4, <1>5 DEF d

LEMMA OrderRecord ==
  ASSUME Pay!TypeOK, NEW o \in Orders
  PROVE  /\ order[o] # Pay!None => order[o] \in Pay!Order
         /\ order[o].status \in {"PENDING", "PAID", "FAILED"} => order[o] # Pay!None
         /\ order[o] = Pay!None => order[o].status = "NONE"
         /\ till[o] # Pay!NoLink => till[o] \in Pay!Link \cup Pay!Decision
         /\ till[o] = Pay!NoLink => till[o].state = "none"
         /\ till[o].state = "open" => till[o] \in Pay!Link
         /\ till[o].state \in {"paid", "failed"} => till[o] \in Pay!Decision
<1>1. order[o] \in {Pay!None} \cup Pay!Order /\ till[o] \in {Pay!NoLink} \cup Pay!Link \cup Pay!Decision
  BY DEF Pay!TypeOK
<1>2. Pay!None.status = "NONE" /\ Pay!NoLink.state = "none"
  BY DEF Pay!None, Pay!NoLink
<1>3. (\A l \in Pay!Link : l.state = "open") /\ (\A l \in Pay!Decision : l.state \in {"paid", "failed"})
  BY DEF Pay!Link, Pay!Decision
<1>. QED
  BY <1>1, <1>2, <1>3

\* A gateway that was asked for an amount and took it took that amount.
LEMMA AskedIsTaken ==
  ASSUME NEW provider, NEW sum \in Nat
  PROVE  /\ Pay!Asked(provider, sum) \in Nat
         /\ (IF provider = "VNPAY" THEN Pay!Asked(provider, sum) \div 100 ELSE Pay!Asked(provider, sum)) = sum
<1>1. sum * 100 \in Nat /\ (sum * 100) \div 100 = sum
  OBVIOUS
<1>. QED
  BY <1>1 DEF Pay!Asked

\* The orders that a step is not about are as they were.
LEMMA OneOrderStep ==
  ASSUME Pay!IInv, Pay!TypeOK', NEW o \in Orders,
         \A p \in Orders \ {o} : /\ order'[p] = order[p] /\ till'[p] = till[p]
                                 /\ credited'[p] = credited[p] /\ told'[p] = told[p],
         Pay!Sound(o)',
         till'[o].state = "paid" /\ till'[o].sum = till'[o].asked => order'[o].status # "FAILED",
         "confirmed" \in told'[o] => order'[o].status = "PAID",
         "amount" \in told'[o] => order'[o].status = "FAILED" /\ Pay!Took(o)' # order'[o].amount
  PROVE  Pay!IInv'
<1>1. ASSUME NEW p \in Orders, p # o
      PROVE  /\ Pay!Sound(p)'
             /\ till'[p].state = "paid" /\ till'[p].sum = till'[p].asked => order'[p].status # "FAILED"
             /\ "confirmed" \in told'[p] => order'[p].status = "PAID"
             /\ "amount" \in told'[p] => order'[p].status = "FAILED" /\ Pay!Took(p)' # order'[p].amount
  <2>1. order'[p] = order[p] /\ till'[p] = till[p] /\ credited'[p] = credited[p] /\ told'[p] = told[p]
    BY <1>1
  <2>2. Pay!Sound(p)
    BY DEF Pay!IInv
  <2>3. Pay!Sound(p)'
    BY <2>1, <2>2 DEF Pay!Sound, Pay!Paid, Pay!Took, Pay!Decided
  <2>. QED
    BY <2>1, <2>3 DEF Pay!IInv, Pay!TakenIsNotFailed, Pay!AnswerIsTrue, Pay!Paid, Pay!Took
<1>2. \A p \in Orders : Pay!Sound(p)'
  BY <1>1
<1>3. Pay!TakenIsNotFailed'
  BY <1>1 DEF Pay!TakenIsNotFailed, Pay!Paid
<1>4. Pay!AnswerIsTrue'
  BY <1>1 DEF Pay!AnswerIsTrue, Pay!Took
<1>. QED
  BY <1>2, <1>3, <1>4 DEF Pay!IInv

\* Somebody is told something of an order that is left as it is.
LEMMA ToldStep ==
  ASSUME Pay!IInv, NEW o \in Orders,
         NEW said \in {"invalid", "checksum", "confirmed", "recorded", "missing"},
         said = "confirmed" => order[o].status = "PAID",
         Pay!Tell(o, said), UNCHANGED <<rate, order, till, credited>>,
         callback' \in [Orders -> {"none", "handled", "refused"}]
  PROVE  Pay!IInv'
<1>1. told' = [told EXCEPT ![o] = @ \cup {said}]
  BY DEF Pay!Tell
<1>2. told \in [Orders -> SUBSET {"invalid", "checksum", "confirmed", "recorded", "missing", "amount"}]
  BY DEF Pay!IInv, Pay!TypeOK
<1>3. told' \in [Orders -> SUBSET {"invalid", "checksum", "confirmed", "recorded", "missing", "amount"}]
  BY <1>1, <1>2
<1>4. Pay!TypeOK'
  BY <1>3 DEF Pay!IInv, Pay!TypeOK
<1>5. told'[o] = told[o] \cup {said} /\ \A p \in Orders \ {o} : told'[p] = told[p]
  BY <1>1, <1>2
<1>6. Pay!Sound(o)'
  BY DEF Pay!IInv, Pay!Sound, Pay!Paid, Pay!Took, Pay!Decided
<1>7. Pay!Took(o)' = Pay!Took(o)
  BY DEF Pay!Took
<1>. QED
  BY <1>4, <1>5, <1>6, <1>7, OneOrderStep DEF Pay!IInv, Pay!TakenIsNotFailed, Pay!AnswerIsTrue, Pay!Paid

LEMMA CreateOrderStep ==
  ASSUME Pay!IInv, NEW o \in Orders, NEW provider \in {"VNPAY", "MOMO"}, NEW sum \in Amounts,
         Pay!Create(o, provider, sum)
  PROVE  Pay!IInv'
<1>. DEFINE new == [status |-> "PENDING", provider |-> provider, amount |-> sum,
                    rate |-> rate, coins |-> sum \div rate]
<1>1. order[o] = Pay!None /\ order' = [order EXCEPT ![o] = new]
      /\ UNCHANGED <<rate, till, credited, callback, told>>
  BY DEF Pay!Create
<1>2. sum \in Nat /\ rate \in Nat \ {0}
  BY OfficeAssumption DEF Pay!IInv, Pay!TypeOK
<1>3. sum \div rate \in Nat /\ (sum \div rate) * rate <= sum
  BY <1>2, RoundedDown
<1>4. new \in Pay!Order
  BY <1>2, <1>3 DEF Pay!Order
<1>5. new.status = "PENDING" /\ new.coins * new.rate <= new.amount /\ new # Pay!None
  BY <1>3 DEF Pay!None
<1>. HIDE DEF new
<1>6. Pay!TypeOK'
  BY <1>1, <1>4 DEF Pay!IInv, Pay!TypeOK
<1>7. order'[o] = new /\ \A p \in Orders \ {o} : order'[p] = order[p]
  BY <1>1 DEF Pay!IInv, Pay!TypeOK
<1>8. till[o] = Pay!NoLink /\ till[o].state = "none" /\ credited[o] = 0 /\ order[o].status = "NONE"
  BY <1>1, OrderRecord DEF Pay!IInv, Pay!Sound
<1>9. Pay!Sound(o)'
  BY <1>1, <1>5, <1>7, <1>8 DEF Pay!Sound, Pay!Paid, Pay!Decided
<1>10. "confirmed" \notin told[o] /\ "amount" \notin told[o]
  BY <1>8 DEF Pay!IInv, Pay!AnswerIsTrue
<1>. QED
  BY <1>1, <1>6, <1>7, <1>8, <1>9, <1>10, OneOrderStep

LEMMA LinkedStep ==
  ASSUME Pay!IInv, NEW o \in Orders, Pay!Linked(o)
  PROVE  Pay!IInv'
<1>. DEFINE link == [state |-> "open", asked |-> Pay!Asked(order[o].provider, order[o].amount)]
<1>1. /\ order[o].status = "PENDING" /\ till' = [till EXCEPT ![o] = link]
      /\ UNCHANGED <<rate, order, credited, callback, told>>
  BY DEF Pay!Linked
<1>2. order[o] # Pay!None /\ order[o] \in Pay!Order
  BY <1>1, OrderRecord DEF Pay!IInv
<1>3. order[o].amount \in Nat
  BY <1>2 DEF Pay!Order
<1>4. link \in Pay!Link
  BY <1>3, AskedIsTaken DEF Pay!Link
<1>5. link.state = "open" /\ link.asked = Pay!Asked(order[o].provider, order[o].amount)
  OBVIOUS
<1>. HIDE DEF link
<1>6. Pay!TypeOK'
  BY <1>1, <1>4 DEF Pay!IInv, Pay!TypeOK
<1>7. till'[o] = link /\ \A p \in Orders \ {o} : till'[p] = till[p]
  BY <1>1 DEF Pay!IInv, Pay!TypeOK
<1>8. Pay!Sound(o)'
  BY <1>1, <1>2, <1>5, <1>7 DEF Pay!IInv, Pay!Sound, Pay!Paid, Pay!Decided
<1>9. "confirmed" \notin told[o] /\ "amount" \notin told[o]
  BY <1>1 DEF Pay!IInv, Pay!AnswerIsTrue
<1>. QED
  BY <1>1, <1>5, <1>6, <1>7, <1>8, <1>9, OneOrderStep

LEMMA DecidesStep ==
  ASSUME Pay!IInv, NEW o \in Orders, NEW verdict \in Pay!Verdicts, NEW sum \in Nat,
         NEW number \in {"text", "number", "absent"}, Pay!GatewayDecides(o, verdict, sum, number)
  PROVE  Pay!IInv'
<1>. DEFINE decided == [state |-> IF verdict.state = "02" THEN "failed" ELSE "paid",
                        asked |-> till[o].asked, sum |-> sum, verdict |-> verdict, number |-> number]
<1>1. /\ till[o].state = "open" /\ till' = [till EXCEPT ![o] = decided]
      /\ UNCHANGED <<rate, order, credited, callback, told>>
  BY DEF Pay!GatewayDecides
<1>2. till[o] \in Pay!Link /\ till[o] # Pay!NoLink /\ order[o].status = "PENDING"
  BY <1>1, OrderRecord DEF Pay!IInv, Pay!Sound
<1>3. till[o].asked \in Nat
  BY <1>2 DEF Pay!Link
<1>4. decided \in Pay!Decision
  BY <1>3 DEF Pay!Decision
<1>5. /\ decided.state \in {"paid", "failed"} /\ decided.asked = till[o].asked
      /\ decided.state = "paid" <=> decided.verdict.state # "02"
  OBVIOUS
<1>. HIDE DEF decided
<1>6. Pay!TypeOK'
  BY <1>1, <1>4 DEF Pay!IInv, Pay!TypeOK
<1>7. till'[o] = decided /\ \A p \in Orders \ {o} : till'[p] = till[p]
  BY <1>1 DEF Pay!IInv, Pay!TypeOK
<1>8. order[o] # Pay!None
  BY <1>2, OrderRecord DEF Pay!IInv
<1>9. Pay!Sound(o)'
  BY <1>1, <1>2, <1>5, <1>7, <1>8 DEF Pay!IInv, Pay!Sound, Pay!Paid, Pay!Decided
<1>10. "confirmed" \notin told[o] /\ "amount" \notin told[o]
  BY <1>2 DEF Pay!IInv, Pay!AnswerIsTrue
<1>. QED
  BY <1>1, <1>2, <1>6, <1>7, <1>9, <1>10, OneOrderStep

\* A pending order is settled: paid on a payment of its amount, failed on none, or on another sum.
LEMMA SettledStep ==
  ASSUME Pay!IInv, NEW o \in Orders, NEW verdict \in {"PAID", "FAILED"},
         order[o].status = "PENDING",
         order' = [order EXCEPT ![o].status = verdict],
         credited' = IF verdict = "PAID" THEN [credited EXCEPT ![o] = @ + order[o].coins] ELSE credited,
         UNCHANGED <<rate, till>>, Pay!TypeOK',
         \A p \in Orders \ {o} : told'[p] = told[p],
         verdict = "PAID" => Pay!Paid(o) /\ Pay!AmountVnd(o) = order[o].amount,
         verdict = "FAILED" => /\ till[o].state # "open"
                               /\ ~Pay!Paid(o) \/ Pay!AmountVnd(o) # order[o].amount,
         "confirmed" \in told'[o] => "confirmed" \in told[o] \/ verdict = "PAID",
         "amount" \in told'[o] => \/ "amount" \in told[o]
                                  \/ verdict = "FAILED" /\ Pay!AmountVnd(o) # order[o].amount
  PROVE  Pay!IInv'
<1>1. order[o] \in Pay!Order /\ order[o] # Pay!None
  BY OrderRecord DEF Pay!IInv
<1>. DEFINE new == [order[o] EXCEPT !.status = verdict]
<1>2. /\ new \in Pay!Order /\ new.status = verdict /\ new.provider = order[o].provider
      /\ new.amount = order[o].amount /\ new.rate = order[o].rate /\ new.coins = order[o].coins
  BY <1>1 DEF Pay!Order
<1>3. order'[o] = new /\ \A p \in Orders \ {o} : order'[p] = order[p]
  BY DEF Pay!IInv, Pay!TypeOK
<1>. HIDE DEF new
<1>4. new # Pay!None
  BY <1>2 DEF Pay!None
<1>5. order[o].coins \in Nat /\ order[o].amount \in Nat
  BY <1>1 DEF Pay!Order
<1>6. credited[o] = 0 /\ credited \in [Orders -> Nat]
  BY DEF Pay!IInv, Pay!Sound, Pay!TypeOK
<1>7. /\ credited'[o] = IF verdict = "PAID" THEN order[o].coins ELSE 0
      /\ \A p \in Orders \ {o} : credited'[p] = credited[p]
  <2>1. CASE verdict = "PAID"
    BY <1>5, <1>6, <2>1
  <2>2. CASE verdict = "FAILED"
    BY <1>6, <2>2
  <2>. QED
    BY <2>1, <2>2
<1>8. Pay!Took(o)' = Pay!AmountVnd(o)
  BY <1>2, <1>3 DEF Pay!Took, Pay!AmountVnd
<1>9. till[o].state # "open"
  BY DEF Pay!Paid
<1>10. till'[o] = till[o]
  OBVIOUS
<1>11. Pay!Sound(o)
  BY DEF Pay!IInv
<1>12. Pay!Sound(o)'
  <2>1. order'[o] = Pay!None => till'[o] = Pay!NoLink
    BY <1>3, <1>4
  <2>2. order'[o].coins * order'[o].rate <= order'[o].amount
    BY <1>1, <1>2, <1>3, <1>11 DEF Pay!Sound
  <2>3. till'[o] # Pay!NoLink => till'[o].asked = Pay!Asked(order'[o].provider, order'[o].amount)
    BY <1>2, <1>3, <1>10, <1>11 DEF Pay!Sound
  <2>4. till'[o].state = "open" => order'[o].status = "PENDING"
    BY <1>9, <1>10
  <2>5. order'[o].status = "PAID" => Pay!Paid(o)' /\ Pay!Took(o)' = order'[o].amount
    BY <1>2, <1>3, <1>8, <1>10 DEF Pay!Paid
  <2>6. credited'[o] = IF order'[o].status = "PAID" THEN order'[o].coins ELSE 0
    BY <1>2, <1>3, <1>7
  <2>7. Pay!Decided(o)' => (Pay!Paid(o)' <=> till'[o].verdict.state # "02")
    BY <1>10, <1>11 DEF Pay!Sound, Pay!Paid, Pay!Decided
  <2>. QED
    BY <2>1, <2>2, <2>3, <2>4, <2>5, <2>6, <2>7 DEF Pay!Sound
<1>13. till[o].state = "paid" /\ till[o].sum = till[o].asked => Pay!AmountVnd(o) = order[o].amount
  <2>. SUFFICES ASSUME till[o].state = "paid", till[o].sum = till[o].asked
                PROVE  Pay!AmountVnd(o) = order[o].amount
    OBVIOUS
  <2>1. till[o] # Pay!NoLink
    BY DEF Pay!NoLink
  <2>2. till[o].sum = Pay!Asked(order[o].provider, order[o].amount)
    BY <1>11, <2>1 DEF Pay!Sound
  <2>. QED
    BY <1>5, <2>2, AskedIsTaken DEF Pay!AmountVnd
<1>14. till'[o].state = "paid" /\ till'[o].sum = till'[o].asked => order'[o].status # "FAILED"
  BY <1>2, <1>3, <1>10, <1>13 DEF Pay!Paid
<1>15. "confirmed" \notin told[o] /\ "amount" \notin told[o]
  BY DEF Pay!IInv, Pay!AnswerIsTrue
<1>16. "confirmed" \in told'[o] => order'[o].status = "PAID"
  BY <1>2, <1>3, <1>15
<1>17. "amount" \in told'[o] => order'[o].status = "FAILED" /\ Pay!Took(o)' # order'[o].amount
  BY <1>2, <1>3, <1>8, <1>15
<1>. QED
  BY <1>3, <1>7, <1>10, <1>12, <1>14, <1>16, <1>17, OneOrderStep

\* The types of what an order becomes.
LEMMA BecomesTyped ==
  ASSUME Pay!IInv, NEW o \in Orders, NEW verdict \in {"PAID", "FAILED"}, order[o].status = "PENDING",
         order' = [order EXCEPT ![o].status = verdict],
         credited' = IF verdict = "PAID" THEN [credited EXCEPT ![o] = @ + order[o].coins] ELSE credited,
         UNCHANGED <<rate, till>>, callback' \in [Orders -> {"none", "handled", "refused"}],
         told' \in [Orders -> SUBSET {"invalid", "checksum", "confirmed", "recorded", "missing", "amount"}]
  PROVE  Pay!TypeOK'
<1>1. order[o] \in Pay!Order
  BY OrderRecord DEF Pay!IInv
<1>2. order[o].coins \in Nat /\ [order[o] EXCEPT !.status = verdict] \in Pay!Order
  BY <1>1 DEF Pay!Order
<1>3. credited \in [Orders -> Nat] /\ order \in [Orders -> {Pay!None} \cup Pay!Order]
  BY DEF Pay!IInv, Pay!TypeOK
<1>4. credited' \in [Orders -> Nat]
  BY <1>2, <1>3
<1>5. order' \in [Orders -> {Pay!None} \cup Pay!Order]
  BY <1>2, <1>3
<1>. QED
  BY <1>4, <1>5 DEF Pay!IInv, Pay!TypeOK

LEMMA LinkFailsStep ==
  ASSUME Pay!IInv, NEW o \in Orders, Pay!LinkFails(o)
  PROVE  Pay!IInv'
<1>1. /\ order[o].status = "PENDING" /\ till[o] = Pay!NoLink
      /\ order' = [order EXCEPT ![o].status = "FAILED"]
      /\ UNCHANGED <<rate, till, credited, callback, told>>
  BY DEF Pay!LinkFails
<1>2. till[o].state # "open" /\ ~Pay!Paid(o)
  BY <1>1 DEF Pay!NoLink, Pay!Paid
<1>3. Pay!TypeOK'
  BY <1>1, BecomesTyped DEF Pay!IInv, Pay!TypeOK
<1>. QED
  BY <1>1, <1>2, <1>3, SettledStep

\* A delivery is read as the decision that was made.
LEMMA SuccessIsPaid ==
  ASSUME Pay!IInv, NEW o \in Orders, Pay!Decided(o)
  PROVE  Pay!Success(o) <=> Pay!Paid(o)
<1>1. till[o] \in Pay!Decision
  BY OrderRecord DEF Pay!IInv, Pay!Decided
<1>2. till[o].verdict \in Pay!Verdicts
  BY <1>1 DEF Pay!Decision
<1>3. \A verdict \in Pay!Verdicts : Pay!BothCodes(verdict) <=> verdict.state # "02"
  BY DEF Pay!Verdicts, Pay!BothCodes
<1>. QED
  BY <1>2, <1>3 DEF Pay!IInv, Pay!Sound, Pay!Success

LEMMA HandleStep ==
  ASSUME Pay!IInv, NEW o \in Orders, Pay!Handle(o)
  PROVE  Pay!IInv'
<1>1. /\ Pay!Decided(o) /\ UNCHANGED <<rate, till>>
      /\ callback' = IF Pay!Kept(o) THEN [callback EXCEPT ![o] = "handled"] ELSE callback
  BY DEF Pay!Handle, Pay!Readable
<1>2. till[o].state # "open"
  BY <1>1 DEF Pay!Decided
<1>3. Pay!Success(o) <=> Pay!Paid(o)
  BY <1>1, SuccessIsPaid
<1>4. callback' \in [Orders -> {"none", "handled", "refused"}]
  BY <1>1 DEF Pay!IInv, Pay!TypeOK
<1>. DEFINE Said == {"invalid", "checksum", "confirmed", "recorded", "missing", "amount"}
<1>5. told \in [Orders -> SUBSET Said]
  BY DEF Pay!IInv, Pay!TypeOK
<1>6. ASSUME NEW said \in Said, Pay!Tell(o, said)
      PROVE  /\ told' \in [Orders -> SUBSET Said] /\ told'[o] = told[o] \cup {said}
             /\ \A p \in Orders \ {o} : told'[p] = told[p]
  BY <1>5, <1>6 DEF Pay!Tell
<1>7. ASSUME NEW verdict \in {"PAID", "FAILED"}, NEW said \in Said, order[o].status = "PENDING",
             Pay!Becomes(o, verdict), Pay!Tell(o, said),
             verdict = "PAID" => Pay!Paid(o) /\ Pay!AmountVnd(o) = order[o].amount,
             verdict = "FAILED" => ~Pay!Paid(o) \/ Pay!AmountVnd(o) # order[o].amount,
             said = "confirmed" => verdict = "PAID",
             said = "amount" => verdict = "FAILED" /\ Pay!AmountVnd(o) # order[o].amount
      PROVE  Pay!IInv'
  <2>1. order' = [order EXCEPT ![o].status = verdict]
        /\ credited' = IF verdict = "PAID" THEN [credited EXCEPT ![o] = @ + order[o].coins] ELSE credited
    BY <1>7 DEF Pay!Becomes
  <2>2. /\ told' \in [Orders -> SUBSET Said] /\ told'[o] = told[o] \cup {said}
        /\ \A p \in Orders \ {o} : told'[p] = told[p]
    BY <1>6, <1>7
  <2>3. Pay!TypeOK'
    BY <1>1, <1>4, <1>7, <2>1, <2>2, BecomesTyped
  <2>4. /\ "confirmed" \in told'[o] => "confirmed" \in told[o] \/ verdict = "PAID"
        /\ "amount" \in told'[o] => \/ "amount" \in told[o]
                                    \/ verdict = "FAILED" /\ Pay!AmountVnd(o) # order[o].amount
    BY <1>7, <2>2
  <2>. QED
    BY <1>1, <1>2, <1>7, <2>1, <2>2, <2>3, <2>4, SettledStep
<1>8. CASE order[o].status # "PENDING"
  <2>1. Pay!Tell(o, Pay!View(order[o].status)) /\ UNCHANGED <<order, credited>>
    BY <1>8 DEF Pay!Handle
  <2>2. /\ Pay!View(order[o].status) \in {"invalid", "checksum", "confirmed", "recorded", "missing"}
        /\ Pay!View(order[o].status) = "confirmed" => order[o].status = "PAID"
    BY DEF Pay!View, Pay!Confirmed
  <2>. QED
    BY <1>1, <1>4, <2>1, <2>2, ToldStep
<1>9. CASE order[o].status = "PENDING"
  <2>1. CASE ~Pay!Success(o) /\ Pay!Becomes(o, "FAILED") /\ Pay!Tell(o, "recorded")
    BY <1>3, <1>7, <1>9, <2>1
  <2>2. CASE Pay!Success(o) /\ Pay!AmountVnd(o) # order[o].amount
             /\ Pay!Becomes(o, "FAILED") /\ Pay!Tell(o, "amount")
    BY <1>3, <1>7, <1>9, <2>2
  <2>3. CASE Pay!Success(o) /\ Pay!AmountVnd(o) = order[o].amount
             /\ Pay!Becomes(o, "PAID") /\ Pay!Tell(o, "confirmed")
    BY <1>3, <1>7, <1>9, <2>3
  <2>. QED
    BY <1>9, <2>1, <2>2, <2>3 DEF Pay!Handle
<1>. QED
  BY <1>8, <1>9

LEMMA ReconciledStep ==
  ASSUME Pay!IInv, NEW o \in Orders, Pay!VnpayQuery(o) \/ Pay!MomoQuery(o)
  PROVE  Pay!IInv'
<1>1. Pay!Reconciled(o)
  BY DEF Pay!VnpayQuery, Pay!MomoQuery
<1>2. Pay!Paid(o)
  <2>1. CASE Pay!MomoQuery(o)
    BY <2>1 DEF Pay!MomoQuery
  <2>2. CASE Pay!VnpayQuery(o)
    BY <2>2 DEF Pay!VnpayQuery, Pay!IInv, Pay!Sound
  <2>. QED
    BY <2>1, <2>2
<1>3. /\ order[o].status = "PENDING" /\ Pay!AmountVnd(o) = order[o].amount
      /\ order' = [order EXCEPT ![o].status = "PAID"]
      /\ credited' = IF "PAID" = "PAID" THEN [credited EXCEPT ![o] = @ + order[o].coins] ELSE credited
      /\ UNCHANGED <<rate, till, callback, told>>
  BY <1>1 DEF Pay!Reconciled, Pay!Becomes
<1>4. Pay!TypeOK'
  <2>1. /\ callback' \in [Orders -> {"none", "handled", "refused"}]
        /\ told' \in [Orders -> SUBSET {"invalid", "checksum", "confirmed", "recorded", "missing", "amount"}]
    BY <1>3 DEF Pay!IInv, Pay!TypeOK
  <2>. QED
    BY <1>3, <2>1, BecomesTyped
<1>. QED
  BY <1>2, <1>3, <1>4, SettledStep

LEMMA StepPayIInv ==
  ASSUME Pay!IInv, [Next]_vars
  PROVE  Pay!IInv'
<1>1. CASE UNCHANGED payVars
  BY <1>1 DEF payVars, Pay!IInv, Pay!TypeOK, Pay!Sound, Pay!TakenIsNotFailed, Pay!AnswerIsTrue,
              Pay!Paid, Pay!Took, Pay!Decided
<1>2. CASE Pay!Configure
  <2>1. rate' \in Nat \ {0} /\ UNCHANGED <<order, till, credited, callback, told>>
    BY <1>2, OfficeAssumption DEF Pay!Configure, Pay!IInv, Pay!TypeOK
  <2>. QED
    BY <2>1 DEF Pay!IInv, Pay!TypeOK, Pay!Sound, Pay!TakenIsNotFailed, Pay!AnswerIsTrue,
                Pay!Paid, Pay!Took, Pay!Decided
<1>3. ASSUME NEW o \in Orders, NEW verdict \in Pay!Verdicts, NEW sum \in Amounts,
             NEW number \in {"text", "number", "absent"},
             Pay!GatewayDecides(o, verdict, Pay!Asked(order[o].provider, sum), number)
      PROVE  Pay!IInv'
  <2>1. sum \in Nat
    BY OfficeAssumption
  <2>2. Pay!Asked(order[o].provider, sum) \in Nat
    BY <2>1, AskedIsTaken
  <2>. QED
    BY <1>3, <2>2, DecidesStep
<1>4. callback \in [Orders -> {"none", "handled", "refused"}]
  BY DEF Pay!IInv, Pay!TypeOK
<1>5. ASSUME NEW o \in Orders
      PROVE  /\ Pay!View(order[o].status) \in {"confirmed", "recorded"}
             /\ Pay!View(order[o].status) = "confirmed" => order[o].status = "PAID"
  BY DEF Pay!View, Pay!Confirmed
<1>6. ASSUME NEW o \in Orders, Pay!Unreadable(o) PROVE Pay!IInv'
  BY <1>4, <1>6, ToldStep DEF Pay!Unreadable
<1>7. ASSUME NEW o \in Orders, Pay!BadSignature(o) PROVE Pay!IInv'
  <2>1. callback' \in [Orders -> {"none", "handled", "refused"}]
    BY <1>4, <1>7 DEF Pay!BadSignature
  <2>. QED
    BY <1>7, <2>1, ToldStep DEF Pay!BadSignature
<1>8. ASSUME NEW o \in Orders, Pay!Replay(o) PROVE Pay!IInv'
  <2>1. /\ Pay!TopUpView(o) \in {"confirmed", "recorded", "missing"}
        /\ Pay!TopUpView(o) = "confirmed" => order[o].status = "PAID"
    BY <1>5 DEF Pay!TopUpView
  <2>. QED
    BY <1>4, <1>8, <2>1, ToldStep DEF Pay!Replay
<1>9. ASSUME NEW o \in Orders, Pay!VnpayReturn(o) \/ Pay!MomoReturn(o) \/ Pay!Poll(o) PROVE Pay!IInv'
  <2>1. Pay!Shown(o)
    BY <1>9 DEF Pay!VnpayReturn, Pay!MomoReturn, Pay!Poll
  <2>. QED
    BY <1>4, <1>5, <2>1, ToldStep DEF Pay!Shown
<1>10. ASSUME NEW o \in Orders, Pay!VnpayLink(o) \/ Pay!MomoLink(o) PROVE Pay!IInv'
  BY <1>10, LinkedStep DEF Pay!VnpayLink, Pay!MomoLink
<1>. QED
  BY <1>1, <1>2, <1>3, <1>6, <1>7, <1>8, <1>9, <1>10, OfficeStep, CreateOrderStep, LinkFailsStep,
     HandleStep, ReconciledStep
  DEF Pay!Next

(* An order is paid exactly on a payment of its amount, for Coins that cost *)
(* no more, a payment that was made as asked never fails it, and what the   *)
(* gateway and the member were told stays so (PaymentIsTrue).               *)
THEOREM PaymentsTrue == Spec => []PaymentIsTrue
<1>1. Init => Pay!IInv
  <2>. SUFFICES ASSUME Init PROVE Pay!IInv
    OBVIOUS
  <2>1. rate \in Nat \ {0}
    BY OfficeAssumption DEF Init, Pay!Init
  <2>. QED
    BY <2>1 DEF Init, Pay!Init, Pay!IInv, Pay!TypeOK, Pay!Sound, Pay!TakenIsNotFailed, Pay!AnswerIsTrue,
                Pay!Paid, Pay!Decided, Pay!None, Pay!NoLink
<1>2. Pay!IInv => PaymentIsTrue
  <2>. SUFFICES ASSUME Pay!IInv PROVE Pay!PaidIsTaken
    BY DEF PaymentIsTrue, Pay!PaymentIsTrue, Pay!IInv
  <2>. SUFFICES ASSUME NEW o \in Orders
                PROVE  /\ credited[o] > 0 => order[o].status = "PAID"
                       /\ order[o].status = "PAID" =>
                             /\ Pay!Paid(o) /\ Pay!Took(o) = order[o].amount
                             /\ credited[o] * order[o].rate <= Pay!Took(o)
    BY DEF Pay!PaidIsTaken
  <2>1. Pay!Sound(o)
    BY DEF Pay!IInv
  <2>2. order[o].status = "PAID" => order[o] # Pay!None
    BY OrderRecord DEF Pay!IInv
  <2>3. credited[o] = 0 => ~(credited[o] > 0)
    OBVIOUS
  <2>. QED
    BY <2>1, <2>2, <2>3 DEF Pay!Sound
<1>. QED
  BY <1>1, <1>2, StepPayIInv, PTL DEF Spec

-----------------------------------------------------------------------------
(***************************************************************************)
(* The reports.  Cycles are never taken back, so what a query of a report  *)
(* counts lies between what there was when the report was asked for and    *)
(* what there is now; and a cycle is in the row of one plan and one day.   *)
(***************************************************************************)

\* The library's operators are the same ones in the component as here.
LEMMA SameSum ==
  ASSUME NEW f, NEW S
  PROVE  Report!SumFunctionOnSet(f, S) = SumFunctionOnSet(f, S)
BY DEF Report!SumFunctionOnSet, SumFunctionOnSet, Report!FoldFunctionOnSet, FoldFunctionOnSet,
       Report!MapThenFoldSet, MapThenFoldSet

LEMMA SameFinite ==
  ASSUME NEW S
  PROVE  Report!IsFiniteSet(S) <=> IsFiniteSet(S)
BY DEF Report!IsFiniteSet, IsFiniteSet

LEMMA SameCardinality ==
  ASSUME NEW S
  PROVE  Report!Cardinality(S) = Cardinality(S)
BY DEF Report!Cardinality, Cardinality

LEMMA SameRange ==
  ASSUME NEW f
  PROVE  Report!Range(f) = Range(f)
BY DEF Report!Range, Range

Field == {"cycles", "main", "bonus"}

LEMMA FiguresAre ==
  ASSUME NEW S
  PROVE  Report!Figures(S) = [cycles |-> Cardinality(S),
                              main |-> SumFunctionOnSet([c \in S |-> c.main], S),
                              bonus |-> SumFunctionOnSet([c \in S |-> c.bonus], S)]
<1>1. /\ Report!SumFunctionOnSet([c \in S |-> c.main], S) = SumFunctionOnSet([c \in S |-> c.main], S)
      /\ Report!SumFunctionOnSet([c \in S |-> c.bonus], S) = SumFunctionOnSet([c \in S |-> c.bonus], S)
  BY SameSum
<1>. QED
  BY <1>1, SameCardinality DEF Report!Figures

LEMMA TotalIs ==
  ASSUME NEW table, NEW K, DOMAIN table = K
  PROVE  Report!Total(table) = [cycles |-> SumFunctionOnSet([k \in K |-> table[k].cycles], K),
                               main |-> SumFunctionOnSet([k \in K |-> table[k].main], K),
                               bonus |-> SumFunctionOnSet([k \in K |-> table[k].bonus], K)]
<1>1. /\ Report!SumFunctionOnSet([k \in K |-> table[k].cycles], K) = SumFunctionOnSet([k \in K |-> table[k].cycles], K)
      /\ Report!SumFunctionOnSet([k \in K |-> table[k].main], K) = SumFunctionOnSet([k \in K |-> table[k].main], K)
      /\ Report!SumFunctionOnSet([k \in K |-> table[k].bonus], K) = SumFunctionOnSet([k \in K |-> table[k].bonus], K)
  BY SameSum
<1>2. Report!Total(table) = [cycles |-> Report!SumFunctionOnSet([k \in K |-> table[k].cycles], K),
                            main |-> Report!SumFunctionOnSet([k \in K |-> table[k].main], K),
                            bonus |-> Report!SumFunctionOnSet([k \in K |-> table[k].bonus], K)]
  BY DEF Report!Total
<1>. QED
  BY <1>1, <1>2

\* The number a cycle counts for in a figure.
Part(S, field) == [c \in S |-> IF field = "cycles" THEN 1 ELSE IF field = "main" THEN c.main ELSE c.bonus]

LEMMA PartIsNat ==
  ASSUME NEW S \in SUBSET Report!Cycle, NEW field \in Field
  PROVE  \A c \in S : Part(S, field)[c] \in Nat
BY DEF Part, Field, Report!Cycle

\* Each figure of a set of cycles is a sum over them.
LEMMA FigureIsSum ==
  ASSUME NEW S \in SUBSET Report!Cycle, IsFiniteSet(S), NEW R, S \subseteq R, NEW field \in Field
  PROVE  Report!Figures(S)[field] = SumFunctionOnSet(Part(R, field), S)
<1>1. \A c \in S : Part(S, field)[c] \in Int /\ Part(S, field)[c] = Part(R, field)[c]
  <2>1. \A c \in S : Part(S, field)[c] = Part(R, field)[c]
    BY DEF Part
  <2>. QED
    BY <2>1, PartIsNat
<1>2. SumFunctionOnSet(Part(S, field), S) = SumFunctionOnSet(Part(R, field), S)
  BY <1>1, SumSame
<1>3. CASE field = "cycles"
  <2>1. \A c \in S : Part(S, field)[c] = 1
    BY <1>3 DEF Part
  <2>2. SumFunctionOnSet(Part(S, field), S) = Cardinality(S)
    BY <2>1, SumCounts
  <2>3. Report!Figures(S)[field] = Cardinality(S)
    BY <1>3, FiguresAre
  <2>. QED
    BY <1>2, <2>2, <2>3
<1>4. CASE field = "main"
  <2>1. Part(S, field) = [c \in S |-> c.main]
    BY <1>4 DEF Part
  <2>2. Report!Figures(S)[field] = SumFunctionOnSet([c \in S |-> c.main], S)
    BY <1>4, FiguresAre
  <2>. QED
    BY <1>2, <2>1, <2>2
<1>5. CASE field = "bonus"
  <2>1. Part(S, field) = [c \in S |-> c.bonus]
    BY <1>5 DEF Part
  <2>2. Report!Figures(S)[field] = SumFunctionOnSet([c \in S |-> c.bonus], S)
    BY <1>5, FiguresAre
  <2>. QED
    BY <1>2, <2>1, <2>2
<1>. QED
  BY <1>3, <1>4, <1>5 DEF Field

\* More cycles make no figure smaller.
LEMMA FiguresGrow ==
  ASSUME NEW R \in SUBSET Report!Cycle, IsFiniteSet(R), NEW S \in SUBSET R, NEW field \in Field
  PROVE  /\ Report!Figures(S)[field] \in Nat
         /\ Report!Figures(S)[field] <= Report!Figures(R)[field]
<1>1. IsFiniteSet(S) /\ S \in SUBSET Report!Cycle
  BY FS_Subset
<1>2. \A c \in R : Part(R, field)[c] \in Nat
  BY PartIsNat
<1>3. /\ Report!Figures(S)[field] = SumFunctionOnSet(Part(R, field), S)
      /\ Report!Figures(R)[field] = SumFunctionOnSet(Part(R, field), R)
  BY <1>1, FigureIsSum
<1>4. SumFunctionOnSet(Part(R, field), S) \in Nat
  BY <1>1, <1>2, SumNat
<1>5. SumFunctionOnSet(Part(R, field), S) <= SumFunctionOnSet(Part(R, field), R)
  BY <1>2, SumSubset
<1>. QED
  BY <1>3, <1>4, <1>5

\* The rows of a grouped report add up to the figures of all its cycles.
LEMMA RowsAddUp ==
  ASSUME NEW S \in SUBSET Report!Cycle, IsFiniteSet(S), NEW key, key = [c \in S |-> key[c]]
  PROVE  Report!Total(Report!GroupedBy(key)) = Report!Figures(S)
<1>. DEFINE K == Range(key)
            table == Report!GroupedBy(key)
            group(k) == {c \in S : key[c] = k}
            column(field) == [k \in K |-> table[k][field]]
<1>1. DOMAIN key = S
  OBVIOUS
<1>2. K = {key[c] : c \in S}
  BY <1>1 DEF Range
<1>3. IsFiniteSet(K)
  <2>1. key \in Surjection(S, K)
    BY <1>2 DEF Surjection
  <2>. QED
    BY <2>1, FS_Surjection
<1>4. table = [k \in K |-> Report!Figures(group(k))]
  BY <1>1, SameRange DEF Report!GroupedBy
<1>5. DOMAIN table = K /\ \A k \in K : table[k] = Report!Figures(group(k))
  BY <1>4
<1>6. ASSUME NEW field \in Field
      PROVE  SumFunctionOnSet(column(field), K) = Report!Figures(S)[field]
  <2>1. \A k \in K : column(field)[k] = SumFunctionOnSet(Part(S, field), {c \in S : key[c] = k})
    <3>. SUFFICES ASSUME NEW k \in K
                  PROVE  column(field)[k] = SumFunctionOnSet(Part(S, field), group(k))
      OBVIOUS
    <3>1. IsFiniteSet(group(k)) /\ group(k) \in SUBSET Report!Cycle /\ group(k) \subseteq S
      BY FS_Subset
    <3>2. Report!Figures(group(k))[field] = SumFunctionOnSet(Part(S, field), group(k))
      <4>. HIDE DEF group
      <4>. QED
        BY <3>1, FigureIsSum
    <3>3. column(field)[k] = table[k][field]
      OBVIOUS
    <3>. QED
      BY <1>5, <3>2, <3>3
  <2>2. \A c \in S : Part(S, field)[c] \in Int
    BY PartIsNat
  <2>. DEFINE f == Part(S, field)
              g == column(field)
  <2>3. SumsByKey(g, K, f, S, key)
    BY <2>1 DEF SumsByKey
  <2>4. AllKeyed(K, S, key)
    BY <1>2 DEF AllKeyed
  <2>5. Report!Figures(S)[field] = SumFunctionOnSet(f, S)
    BY FigureIsSum
  <2>6. AllInts(f, S)
    BY <2>2 DEF AllInts
  <2>. HIDE DEF f, g, K
  <2>7. SumFunctionOnSet(g, K) = SumFunctionOnSet(f, S)
    BY <1>3, <2>3, <2>4, <2>6, SumGrouped
  <2>. QED
    BY <2>5, <2>7 DEF g
<1>7. Report!Total(table) = [cycles |-> SumFunctionOnSet(column("cycles"), K),
                            main |-> SumFunctionOnSet(column("main"), K),
                            bonus |-> SumFunctionOnSet(column("bonus"), K)]
  <2>1. \A k \in K : table[k].cycles = table[k]["cycles"] /\ table[k].main = table[k]["main"]
                     /\ table[k].bonus = table[k]["bonus"]
    OBVIOUS
  <2>. HIDE DEF table, K
  <2>2. Report!Total(table) = [cycles |-> SumFunctionOnSet([k \in K |-> table[k].cycles], K),
                              main |-> SumFunctionOnSet([k \in K |-> table[k].main], K),
                              bonus |-> SumFunctionOnSet([k \in K |-> table[k].bonus], K)]
    BY <1>5, TotalIs
  <2>3. /\ [k \in K |-> table[k].cycles] = column("cycles")
        /\ [k \in K |-> table[k].main] = column("main")
        /\ [k \in K |-> table[k].bonus] = column("bonus")
    BY <2>1
  <2>. QED
    BY <2>2, <2>3
<1>. HIDE DEF table, column, K
<1>8. "cycles" \in Field /\ "main" \in Field /\ "bonus" \in Field
  BY DEF Field
<1>9. /\ SumFunctionOnSet(column("cycles"), K) = Report!Figures(S)["cycles"]
      /\ SumFunctionOnSet(column("main"), K) = Report!Figures(S)["main"]
      /\ SumFunctionOnSet(column("bonus"), K) = Report!Figures(S)["bonus"]
  BY <1>6, <1>8
<1>10. Report!Figures(S) = [cycles |-> Report!Figures(S)["cycles"], main |-> Report!Figures(S)["main"],
                            bonus |-> Report!Figures(S)["bonus"]]
  BY FiguresAre
<1>. QED
  BY <1>7, <1>9, <1>10 DEF table

-----------------------------------------------------------------------------

LEMMA CyclesFinite ==
  ASSUME Report!TypeOK, NEW S \in SUBSET cycles
  PROVE  IsFiniteSet(S) /\ S \in SUBSET Report!Cycle
<1>1. IsFiniteSet(cycles) /\ cycles \subseteq Report!Cycle
  BY SameFinite DEF Report!TypeOK
<1>. QED
  BY <1>1, FS_Subset

\* What is there now is a moment of the report.
LEMMA NowIsAMoment ==
  ASSUME report.before \subseteq cycles
  PROVE  cycles \in Report!Moments
BY DEF Report!Moments

\* The history goes on: what a report has read stays what there was at a moment.
LEMMA HistoryStep ==
  ASSUME Report!IInv, UNCHANGED report, cycles \subseteq cycles', Report!TypeOK',
         \A s \in Subs : subs'[s] = subs[s] \/ subs'[s].reason = subs[s].reason
                                            \/ subs'[s].endedAt # Report!Never,
         \A s \in Subs : subs[s].endedAt # Report!Never => subs'[s].endedAt # Report!Never
  PROVE  Report!IInv'
<1>1. Report!Asked("revenue")' <=> Report!Asked("revenue")
  BY DEF Report!Asked
<1>2. Report!Asked("churn")' <=> Report!Asked("churn")
  BY DEF Report!Asked
<1>3. Report!Moments \subseteq Report!Moments'
  BY DEF Report!Moments
<1>4. Report!AsOfAMoment'
  BY <1>1, <1>3 DEF Report!IInv, Report!AsOfAMoment
<1>5. Report!GoneHasEnd'
  BY DEF Report!IInv, Report!GoneHasEnd
<1>6. \A s \in Subs : subs[s].endedAt # Report!Never => subs'[s].endedAt # Report!Never
  OBVIOUS
<1>7. Report!GoneAreSubs'
  BY <1>2 DEF Report!IInv, Report!GoneAreSubs
<1>8. Report!FailedIsNotChurn'
  <2>. SUFFICES ASSUME Report!Asked("churn"), NEW p \in {"unpaid", "cancelled"} \cap DOMAIN report.seen,
                       NEW s \in report.seen[p]
                PROVE  subs'[s].endedAt # Report!Never
    BY <1>2 DEF Report!FailedIsNotChurn
  <2>1. subs[s].endedAt # Report!Never /\ s \in Subs
    BY DEF Report!IInv, Report!FailedIsNotChurn, Report!GoneAreSubs
  <2>. QED
    BY <2>1
<1>. QED
  BY <1>4, <1>5, <1>7, <1>8 DEF Report!IInv

\* One row of a plan is rewritten, cycles are added or not, and the clock may go on.
LEMMA SubStep ==
  ASSUME Report!IInv, UNCHANGED <<report, moment>>, cycles \subseteq cycles', cycles' \subseteq Report!Cycle,
         Report!IsFiniteSet(cycles'), writing' \in [Subs -> {NoReport} \cup Report!Cycle],
         NEW s \in Subs,
         NEW row \in Report!Subscription,
         subs' = [subs EXCEPT ![s] = row],
         row.reason = subs[s].reason \/ row.endedAt # Report!Never,
         subs[s].endedAt # Report!Never => row.endedAt # Report!Never
  PROVE  Report!IInv'
<1>1. Report!TypeOK'
  BY DEF Report!IInv, Report!TypeOK
<1>2. subs'[s] = row /\ \A p \in Subs : p # s => subs'[p] = subs[p]
  BY DEF Report!IInv, Report!TypeOK
<1>3. /\ \A p \in Subs : subs'[p] = subs[p] \/ subs'[p].reason = subs[p].reason
                                            \/ subs'[p].endedAt # Report!Never
      /\ \A p \in Subs : subs[p].endedAt # Report!Never => subs'[p].endedAt # Report!Never
  BY <1>2
<1>. QED
  BY <1>1, <1>3, HistoryStep

\* One column of a row is written, and the others are as they were.
LEMMA SubWritten ==
  ASSUME NEW row \in Report!Subscription
  PROVE  /\ \A v \in {"none", "PENDING", "ACTIVE", "PAST_DUE", "EXPIRED", "CANCELLED"} :
               LET new == [row EXCEPT !.status = v]
               IN  /\ new \in Report!Subscription
                   /\ new.reason = row.reason /\ new.endedAt = row.endedAt
         /\ \A v \in Int : LET new == [row EXCEPT !.startedAt = v]
                           IN  /\ new \in Report!Subscription
                               /\ new.reason = row.reason /\ new.endedAt = row.endedAt
         /\ \A v \in Int : LET new == [row EXCEPT !.endedAt = v]
                           IN  new \in Report!Subscription /\ new.endedAt = v
         /\ \A v \in {"none", "PAYMENT_FAILED", "CANCELLED_BY_ADMIN"} :
               LET new == [row EXCEPT !.reason = v]
               IN  new \in Report!Subscription
<1>1. \A v \in {"none", "PENDING", "ACTIVE", "PAST_DUE", "EXPIRED", "CANCELLED"} :
         LET new == [row EXCEPT !.status = v]
         IN  /\ new \in Report!Subscription
             /\ new.reason = row.reason /\ new.endedAt = row.endedAt
  BY DEF Report!Subscription
<1>2. \A v \in Int : LET new == [row EXCEPT !.startedAt = v]
                     IN  /\ new \in Report!Subscription
                         /\ new.reason = row.reason /\ new.endedAt = row.endedAt
  BY DEF Report!Subscription
<1>3. \A v \in Int : LET new == [row EXCEPT !.endedAt = v]
                     IN  new \in Report!Subscription /\ new.endedAt = v
  BY DEF Report!Subscription
<1>4. \A v \in {"none", "PAYMENT_FAILED", "CANCELLED_BY_ADMIN"} :
         LET new == [row EXCEPT !.reason = v]
         IN  new \in Report!Subscription
  BY DEF Report!Subscription
<1>. QED
  BY <1>1, <1>2, <1>3, <1>4

LEMMA SubscribeStep ==
  ASSUME Report!IInv, NEW s \in Subs, Report!Subscribe(s)
  PROVE  Report!IInv'
<1>. DEFINE row == [Report!Absent EXCEPT !.status = "PENDING", !.startedAt = moment]
<1>1. /\ subs[s] = Report!Absent /\ subs' = [subs EXCEPT ![s] = row]
      /\ UNCHANGED <<cycles, writing, moment, report>>
  BY DEF Report!Subscribe
<1>2. /\ row \in Report!Subscription
      /\ row.reason = Report!Absent.reason /\ row.endedAt = Report!Absent.endedAt
  <2>. DEFINE first == [Report!Absent EXCEPT !.status = "PENDING"]
  <2>1. Report!Absent \in Report!Subscription
    <3>1. -1 \in Int
      OBVIOUS
    <3>. QED
      BY <3>1 DEF Report!Absent, Report!Never, Report!Subscription
  <2>2. moment \in Int
    BY DEF Report!IInv, Report!TypeOK
  <2>3. /\ first \in Report!Subscription
        /\ first.reason = Report!Absent.reason /\ first.endedAt = Report!Absent.endedAt
    BY <2>1, SubWritten
  <2>4. row = [first EXCEPT !.startedAt = moment]
    OBVIOUS
  <2>. HIDE DEF first, row
  <2>5. LET new == [first EXCEPT !.startedAt = moment]
        IN  /\ new \in Report!Subscription
            /\ new.reason = first.reason /\ new.endedAt = first.endedAt
    BY <2>2, <2>3, SubWritten
  <2>. QED
    BY <2>3, <2>4, <2>5
<1>. HIDE DEF row
<1>3. /\ cycles' \subseteq Report!Cycle /\ Report!IsFiniteSet(cycles')
      /\ writing' \in [Subs -> {NoReport} \cup Report!Cycle] /\ cycles \subseteq cycles'
  BY <1>1 DEF Report!IInv, Report!TypeOK
<1>. QED
  BY <1>1, <1>2, <1>3, SubStep

LEMMA CommitCycleStep ==
  ASSUME Report!IInv, NEW s \in Subs, Report!Commit(s)
  PROVE  Report!IInv'
<1>. DEFINE row == [subs[s] EXCEPT !.status = IF writing[s].status = "PAID" THEN "ACTIVE" ELSE "PAST_DUE"]
<1>1. /\ writing[s] # NoReport /\ cycles' = cycles \cup {writing[s]}
      /\ subs' = [subs EXCEPT ![s] = row] /\ writing' = [writing EXCEPT ![s] = NoReport]
      /\ UNCHANGED <<moment, report>>
  BY DEF Report!Commit
<1>2. writing[s] \in Report!Cycle /\ IsFiniteSet(cycles)
  BY <1>1, SameFinite DEF Report!IInv, Report!TypeOK
<1>3. IsFiniteSet(cycles')
  BY <1>1, <1>2, FS_AddElement
<1>4. /\ row \in Report!Subscription
      /\ row.reason = subs[s].reason /\ row.endedAt = subs[s].endedAt
  <2>1. subs[s] \in Report!Subscription
    BY DEF Report!IInv, Report!TypeOK
  <2>. QED
    BY <2>1 DEF Report!Subscription
<1>. HIDE DEF row
<1>5. /\ cycles' \subseteq Report!Cycle /\ Report!IsFiniteSet(cycles')
      /\ writing' \in [Subs -> {NoReport} \cup Report!Cycle] /\ cycles \subseteq cycles'
  BY <1>1, <1>2, <1>3, SameFinite DEF Report!IInv, Report!TypeOK
<1>. QED
  BY <1>1, <1>4, <1>5, SubStep

LEMMA EndStep ==
  ASSUME Report!IInv, NEW s \in Subs, Report!Expire(s) \/ Report!CancelByAdmin(s)
  PROVE  Report!IInv'
<1>1. PICK verdict \in {"EXPIRED", "CANCELLED"}, why \in {"PAYMENT_FAILED", "CANCELLED_BY_ADMIN"} :
         Report!End(s, verdict, why)
  BY DEF Report!Expire, Report!CancelByAdmin
<1>. DEFINE row == [subs[s] EXCEPT !.status = verdict, !.reason = why, !.endedAt = moment]
<1>2. subs' = [subs EXCEPT ![s] = row] /\ UNCHANGED <<cycles, writing, moment, report>>
  BY <1>1 DEF Report!End
<1>3. moment \in Nat
  BY DEF Report!IInv, Report!TypeOK
<1>4. /\ row \in Report!Subscription
      /\ row.endedAt = moment
  <2>1. subs[s] \in Report!Subscription
    BY DEF Report!IInv, Report!TypeOK
  <2>. DEFINE first == [subs[s] EXCEPT !.status = verdict]
              second == [first EXCEPT !.reason = why]
  <2>2. moment \in Int
    BY <1>3
  <2>3. first \in Report!Subscription
    BY <2>1, SubWritten
  <2>4. row = [second EXCEPT !.endedAt = moment]
    OBVIOUS
  <2>. HIDE DEF first, row
  <2>5. second \in Report!Subscription
    BY <2>3, SubWritten
  <2>. HIDE DEF second
  <2>6. [second EXCEPT !.endedAt = moment] \in Report!Subscription
        /\ [second EXCEPT !.endedAt = moment].endedAt = moment
    BY <2>2, <2>5, SubWritten
  <2>. QED
    BY <2>4, <2>6
<1>. HIDE DEF row
<1>5. row.endedAt # Report!Never
  BY <1>3, <1>4 DEF Report!Never
<1>6. /\ cycles' \subseteq Report!Cycle /\ Report!IsFiniteSet(cycles')
      /\ writing' \in [Subs -> {NoReport} \cup Report!Cycle] /\ cycles \subseteq cycles'
  BY <1>2 DEF Report!IInv, Report!TypeOK
<1>. QED
  BY <1>2, <1>4, <1>5, <1>6, SubStep

\* A cycle is written down, not yet for others to see.
LEMMA WriteStep ==
  ASSUME Report!IInv, NEW s \in Subs, NEW cycle \in Report!Cycle, Report!Write(s, cycle)
  PROVE  Report!IInv'
<1>1. writing' = [writing EXCEPT ![s] = cycle] /\ UNCHANGED <<subs, cycles, moment, report>>
  BY DEF Report!Write
<1>2. Report!TypeOK'
  BY <1>1 DEF Report!IInv, Report!TypeOK
<1>. QED
  BY <1>1, <1>2, HistoryStep

LEMMA WriteCycleStep ==
  ASSUME Report!IInv, NEW s \in Subs,
         Report!MarkPastDue(s) \/ \E split \in OneSplit : Report!Pay(s, split)
  PROVE  Report!IInv'
<1>1. Report!Number(s) \in Nat
  <2>1. Report!CyclesOf(s) \in SUBSET cycles
    BY DEF Report!CyclesOf
  <2>2. IsFiniteSet(Report!CyclesOf(s))
    BY <2>1, CyclesFinite DEF Report!IInv
  <2>3. Cardinality(Report!CyclesOf(s)) \in Nat
    BY <2>2, FS_CardinalityType
  <2>. QED
    BY <2>3, SameCardinality DEF Report!Number
<1>2. moment \in Nat
  BY DEF Report!IInv, Report!TypeOK
<1>3. PICK verdict \in {"PAID", "FAILED"}, main \in Nat, bonus \in Nat :
         Report!Write(s, [sub |-> s, number |-> Report!Number(s), status |-> verdict, at |-> moment,
                          main |-> main, bonus |-> bonus])
  <2>1. \A split \in OneSplit : split.main \in Nat /\ split.bonus \in Nat
    BY DEF OneSplit
  <2>2. 0 \in Nat
    OBVIOUS
  <2>. QED
    BY <2>1, <2>2 DEF Report!MarkPastDue, Report!Pay
<1>. DEFINE cycle == [sub |-> s, number |-> Report!Number(s), status |-> verdict, at |-> moment,
                      main |-> main, bonus |-> bonus]
<1>4. cycle \in Report!Cycle
  BY <1>1, <1>2, <1>3 DEF Report!Cycle
<1>. HIDE DEF cycle
<1>. QED
  BY <1>3, <1>4, WriteStep DEF cycle

LEMMA AskStep ==
  ASSUME Report!IInv, NEW kind, NEW from, NEW to, Report!Ask(kind, from, to)
  PROVE  Report!IInv'
<1>. DEFINE asked == [kind |-> kind, range |-> Report!RangeOf(from, to),
                      before |-> IF kind = "revenue" THEN cycles ELSE {},
                      seen |-> [p \in {} |-> NoReport]]
<1>1. report' = asked /\ UNCHANGED <<subs, cycles, writing, moment>>
  BY DEF Report!Ask
<1>2. /\ asked.kind = kind /\ asked.before \subseteq cycles /\ DOMAIN asked.seen = {}
      /\ asked = [kind |-> asked.kind, range |-> asked.range, before |-> asked.before, seen |-> asked.seen]
  OBVIOUS
<1>. HIDE DEF asked
<1>3. Report!TypeOK'
  BY <1>1, <1>2 DEF Report!IInv, Report!TypeOK
<1>4. Report!AsOfAMoment' /\ Report!GoneAreSubs' /\ Report!FailedIsNotChurn'
  BY <1>1, <1>2 DEF Report!AsOfAMoment, Report!GoneAreSubs, Report!FailedIsNotChurn
<1>5. Report!GoneHasEnd'
  BY <1>1 DEF Report!IInv, Report!GoneHasEnd
<1>. QED
  BY <1>3, <1>4, <1>5 DEF Report!IInv

\* What a query adds to a report.
LEMMA ReadsAdds ==
  ASSUME Report!TypeOK, NEW p, NEW figures, Report!Reads(p, figures)
  PROVE  /\ report # NoReport /\ UNCHANGED <<subs, cycles, writing, moment>>
         /\ report' = [kind |-> report.kind, range |-> report.range, before |-> report.before,
                       seen |-> report'.seen]
         /\ DOMAIN report'.seen = DOMAIN report.seen \cup {p} /\ report'.seen[p] = figures
         /\ \A o \in DOMAIN report.seen : report'.seen[o] = report.seen[o]
<1>. DEFINE new == [o \in DOMAIN report.seen \cup {p} |-> IF o = p THEN figures ELSE report.seen[o]]
<1>1. /\ report # NoReport /\ p \notin DOMAIN report.seen /\ UNCHANGED <<subs, cycles, writing, moment>>
      /\ report' = [report EXCEPT !.seen = new]
  BY DEF Report!Reads, Report!Unread
<1>2. /\ DOMAIN new = DOMAIN report.seen \cup {p} /\ new[p] = figures
      /\ \A o \in DOMAIN report.seen : new[o] = report.seen[o]
  BY <1>1
<1>. HIDE DEF new
<1>3. report = [kind |-> report.kind, range |-> report.range, before |-> report.before, seen |-> report.seen]
  BY <1>1 DEF Report!TypeOK
<1>4. report' = [kind |-> report.kind, range |-> report.range, before |-> report.before, seen |-> new]
  BY <1>1, <1>3
<1>. QED
  BY <1>1, <1>2, <1>4

LEMMA ReadsStep ==
  ASSUME Report!IInv, NEW p, NEW figures, Report!Reads(p, figures),
         Report!Asked("revenue") /\ p = "revenue" => figures = Report!Revenue(report.range),
         Report!Asked("revenue") /\ p = "byDay" => figures = Report!RevenueByDay(report.range),
         Report!Asked("churn") /\ p \in {"unpaid", "cancelled"} =>
            figures \subseteq {s \in Subs : subs[s].reason # "none"}
  PROVE  Report!IInv'
<1>1. /\ report # NoReport /\ UNCHANGED <<subs, cycles, writing, moment>>
      /\ report' = [kind |-> report.kind, range |-> report.range, before |-> report.before,
                    seen |-> report'.seen]
      /\ DOMAIN report'.seen = DOMAIN report.seen \cup {p} /\ report'.seen[p] = figures
      /\ \A o \in DOMAIN report.seen : report'.seen[o] = report.seen[o]
  BY ReadsAdds DEF Report!IInv
<1>2. report'.kind = report.kind /\ report'.range = report.range /\ report'.before = report.before
  BY <1>1
<1>3. Report!TypeOK'
  BY <1>1, <1>2 DEF Report!IInv, Report!TypeOK
<1>4. \A kind : Report!Asked(kind)' => Report!Asked(kind)
  BY <1>1, <1>2 DEF Report!Asked
<1>5. Report!AsOfAMoment'
  <2>. SUFFICES ASSUME Report!Asked("revenue")
                PROVE  /\ report.before \subseteq cycles
                       /\ "revenue" \in DOMAIN report'.seen => \E S \in Report!Moments :
                             report'.seen["revenue"] =
                                [totals |-> Report!Figures(Report!PaidOf(S, report.range)),
                                 byPlan |-> Report!GroupedBy(Report!PlanOfCycle(Report!PaidOf(S, report.range)))]
                       /\ "byDay" \in DOMAIN report'.seen => \E S \in Report!Moments :
                             report'.seen["byDay"] = Report!GroupedBy(Report!DayOfCycle(Report!PaidOf(S, report.range)))
    BY <1>1, <1>2, <1>4 DEF Report!AsOfAMoment, Report!Moments
  <2>1. report.before \subseteq cycles
    BY DEF Report!IInv, Report!AsOfAMoment
  <2>2. cycles \in Report!Moments
    BY <2>1, NowIsAMoment
  <2>3. Report!PaidIn(report.range) = Report!PaidOf(cycles, report.range)
    BY DEF Report!PaidIn, Report!PaidOf
  <2>4. CASE p = "revenue"
    <3>1. report'.seen["revenue"] =
             [totals |-> Report!Figures(Report!PaidOf(cycles, report.range)),
              byPlan |-> Report!GroupedBy(Report!PlanOfCycle(Report!PaidOf(cycles, report.range)))]
      BY <1>1, <2>3, <2>4 DEF Report!Revenue
    <3>2. "byDay" \in DOMAIN report'.seen => "byDay" \in DOMAIN report.seen
      BY <1>1, <2>4
    <3>. QED
      BY <1>1, <2>1, <2>2, <3>1, <3>2 DEF Report!IInv, Report!AsOfAMoment
  <2>5. CASE p = "byDay"
    <3>1. report'.seen["byDay"] = Report!GroupedBy(Report!DayOfCycle(Report!PaidOf(cycles, report.range)))
      BY <1>1, <2>3, <2>5 DEF Report!RevenueByDay
    <3>2. "revenue" \in DOMAIN report'.seen => "revenue" \in DOMAIN report.seen
      BY <1>1, <2>5
    <3>. QED
      BY <1>1, <2>1, <2>2, <3>1, <3>2 DEF Report!IInv, Report!AsOfAMoment
  <2>6. CASE p \notin {"revenue", "byDay"}
    <3>1. /\ "byDay" \in DOMAIN report'.seen => "byDay" \in DOMAIN report.seen
          /\ "revenue" \in DOMAIN report'.seen => "revenue" \in DOMAIN report.seen
      BY <1>1, <2>6
    <3>. QED
      BY <1>1, <2>1, <3>1 DEF Report!IInv, Report!AsOfAMoment
  <2>. QED
    BY <2>4, <2>5, <2>6
<1>6. ASSUME Report!Asked("churn"), NEW o \in {"unpaid", "cancelled"} \cap DOMAIN report'.seen
      PROVE  report'.seen[o] \subseteq {s \in Subs : subs[s].endedAt # Report!Never}
  <2>1. CASE o = p
    BY <1>1, <1>6, <2>1 DEF Report!IInv, Report!GoneHasEnd
  <2>2. CASE o # p
    BY <1>1, <1>6, <2>2 DEF Report!IInv, Report!GoneAreSubs, Report!FailedIsNotChurn
  <2>. QED
    BY <2>1, <2>2
<1>7. Report!GoneAreSubs'
  BY <1>4, <1>6 DEF Report!GoneAreSubs
<1>8. Report!FailedIsNotChurn'
  BY <1>1, <1>4, <1>6 DEF Report!FailedIsNotChurn
<1>9. Report!GoneHasEnd'
  BY <1>1 DEF Report!IInv, Report!GoneHasEnd
<1>. QED
  BY <1>3, <1>5, <1>7, <1>8, <1>9 DEF Report!IInv

LEMMA StepReportIInv ==
  ASSUME Report!IInv, [Next]_vars
  PROVE  Report!IInv'
<1>1. CASE UNCHANGED reportVars
  BY <1>1 DEF reportVars, Report!IInv, Report!TypeOK, Report!AsOfAMoment, Report!GoneAreSubs,
              Report!GoneHasEnd, Report!FailedIsNotChurn, Report!Asked, Report!Moments
<1>2. CASE Report!Tick
  <2>1. Report!TypeOK' /\ UNCHANGED <<subs, cycles, writing, report>>
    BY <1>2 DEF Report!IInv, Report!TypeOK, Report!Tick
  <2>. QED
    BY <2>1, HistoryStep
<1>3. CASE Report!ReadRevenue \/ Report!ReadByDay
  BY <1>3, ReadsStep DEF Report!ReadRevenue, Report!ReadByDay, Report!Asked
<1>4. CASE Report!ReadOverview
  BY <1>4, ReadsStep DEF Report!ReadOverview, Report!Asked
<1>5. ASSUME NEW p \in Report!Counts \cup {"running"}, Report!ReadChurn(p) PROVE Report!IInv'
  <2>. DEFINE figures == Report!Churn(report.range)[p]
  <2>1. Report!Asked("churn") /\ Report!Reads(p, figures)
    BY <1>5 DEF Report!ReadChurn
  <2>2. ~Report!Asked("revenue")
    BY <2>1 DEF Report!Asked
  <2>3. /\ p = "unpaid" => figures = Report!Ended(report.range, "PAYMENT_FAILED")
        /\ p = "cancelled" => figures = Report!Ended(report.range, "CANCELLED_BY_ADMIN")
    <3>1. Report!Churn(report.range)["unpaid"] = Report!Ended(report.range, "PAYMENT_FAILED")
      BY DEF Report!Churn
    <3>2. Report!Churn(report.range)["cancelled"] = Report!Ended(report.range, "CANCELLED_BY_ADMIN")
      BY DEF Report!Churn
    <3>. QED
      BY <3>1, <3>2
  <2>. HIDE DEF figures
  <2>4. p \in {"unpaid", "cancelled"} => figures \subseteq {s \in Subs : subs[s].reason # "none"}
    BY <2>3 DEF Report!Ended
  <2>. QED
    BY <2>1, <2>2, <2>4, ReadsStep
<1>6. ASSUME NEW kind, NEW from, NEW to, Report!Ask(kind, from, to) PROVE Report!IInv'
  BY <1>6, AskStep
<1>. QED
  BY <1>1, <1>2, <1>3, <1>4, <1>5, <1>6, OfficeStep, SubscribeStep, CommitCycleStep, EndStep, WriteCycleStep
  DEF Report!Next

\* What a report of revenue shows of a moment adds up and lies between then and now.
LEMMA MomentAddsUp ==
  ASSUME Report!IInv, NEW S \in Report!Moments, NEW span, NEW key,
         LET paid == Report!PaidOf(S, span) IN key = [c \in paid |-> key[c]]
  PROVE  LET paid == Report!PaidOf(S, span)
             old == Report!Figures({c \in report.before : c \in Report!PaidIn(span)})
         IN  /\ Report!Total(Report!GroupedBy(key)) = Report!Figures(paid)
             /\ Report!Within(old, Report!Figures(paid), Report!Figures(Report!PaidIn(span)))
<1>. DEFINE paid == Report!PaidOf(S, span)
            all == Report!PaidIn(span)
            before == {c \in report.before : c \in all}
<1>1. S \in SUBSET cycles /\ report.before \subseteq S
  BY DEF Report!Moments
<1>2. /\ paid \in SUBSET cycles /\ all \in SUBSET cycles /\ before \in SUBSET paid /\ paid \in SUBSET all
  BY <1>1 DEF Report!PaidOf, Report!PaidIn
<1>. HIDE DEF paid, all, before
<1>3. /\ IsFiniteSet(paid) /\ paid \in SUBSET Report!Cycle
      /\ IsFiniteSet(all) /\ all \in SUBSET Report!Cycle
  BY <1>2, CyclesFinite DEF Report!IInv
<1>4. Report!Total(Report!GroupedBy(key)) = Report!Figures(paid)
  <2>1. key = [c \in paid |-> key[c]]
    BY DEF paid
  <2>. QED
    BY <1>3, <2>1, RowsAddUp
<1>5. \A field \in Field : /\ Report!Figures(before)[field] <= Report!Figures(paid)[field]
                           /\ Report!Figures(paid)[field] <= Report!Figures(all)[field]
  BY <1>2, <1>3, FiguresGrow
<1>6. Report!Within(Report!Figures(before), Report!Figures(paid), Report!Figures(all))
  BY <1>5 DEF Report!Within, Field
<1>. QED
  BY <1>4, <1>6 DEF paid, all, before

(* Whatever is paid while a report of revenue is read, its rows add up to   *)
(* its totals, and both count what was there when it was asked for and      *)
(* nothing that is not paid; nobody is lost whose plan has not ended        *)
(* (FiguresAreTrue).                                                        *)
THEOREM FiguresTrue == Spec => []FiguresAreTrue
<1>1. Init => Report!IInv
  <2>1. IsFiniteSet({})
    BY FS_EmptySet
  <2>2. Report!IsFiniteSet({})
    BY <2>1, SameFinite
  <2>. QED
    BY <2>2 DEF Init, Report!Init, Report!IInv, Report!TypeOK, Report!AsOfAMoment, Report!GoneAreSubs,
                Report!GoneHasEnd, Report!FailedIsNotChurn, Report!Asked, Report!Subscription, Report!Absent, Report!Never
<1>2. Report!IInv => FiguresAreTrue
  <2>. SUFFICES ASSUME Report!IInv PROVE Report!RevenueAddsUp
    BY DEF Report!IInv, FiguresAreTrue, Report!FiguresAreTrue
  <2>. SUFFICES ASSUME Report!Asked("revenue") PROVE Report!RevenueAddsUp
    BY DEF Report!RevenueAddsUp
  <2>. DEFINE span == report.range
              old == Report!Figures({c \in report.before : c \in Report!PaidIn(span)})
              new == Report!Figures(Report!PaidIn(span))
  <2>1. ASSUME "revenue" \in DOMAIN report.seen
        PROVE  /\ Report!Total(report.seen["revenue"].byPlan) = report.seen["revenue"].totals
               /\ Report!Within(old, report.seen["revenue"].totals, new)
    <3>1. PICK S \in Report!Moments :
             report.seen["revenue"] = [totals |-> Report!Figures(Report!PaidOf(S, span)),
                                       byPlan |-> Report!GroupedBy(Report!PlanOfCycle(Report!PaidOf(S, span)))]
      BY <2>1 DEF Report!IInv, Report!AsOfAMoment
    <3>. DEFINE key == Report!PlanOfCycle(Report!PaidOf(S, span))
    <3>2. key = [c \in Report!PaidOf(S, span) |-> key[c]]
      BY DEF Report!PlanOfCycle
    <3>3. /\ report.seen["revenue"].totals = Report!Figures(Report!PaidOf(S, span))
          /\ report.seen["revenue"].byPlan = Report!GroupedBy(key)
      BY <3>1
    <3>. HIDE DEF key, span
    <3>4. /\ Report!Total(Report!GroupedBy(key)) = Report!Figures(Report!PaidOf(S, span))
          /\ Report!Within(old, Report!Figures(Report!PaidOf(S, span)), new)
      BY <3>2, MomentAddsUp
    <3>. QED
      BY <3>3, <3>4
  <2>2. ASSUME "byDay" \in DOMAIN report.seen
        PROVE  Report!Within(old, Report!Total(report.seen["byDay"]), new)
    <3>1. PICK S \in Report!Moments :
             report.seen["byDay"] = Report!GroupedBy(Report!DayOfCycle(Report!PaidOf(S, span)))
      BY <2>2 DEF Report!IInv, Report!AsOfAMoment
    <3>. DEFINE key == Report!DayOfCycle(Report!PaidOf(S, span))
    <3>2. key = [c \in Report!PaidOf(S, span) |-> key[c]]
      BY DEF Report!DayOfCycle
    <3>. HIDE DEF key, span
    <3>4. /\ Report!Total(Report!GroupedBy(key)) = Report!Figures(Report!PaidOf(S, span))
          /\ Report!Within(old, Report!Figures(Report!PaidOf(S, span)), new)
      BY <3>2, MomentAddsUp
    <3>. QED
      BY <3>1, <3>4 DEF key
  <2>. QED
    BY <2>1, <2>2 DEF Report!RevenueAddsUp
<1>. QED
  BY <1>1, <1>2, StepReportIInv, PTL DEF Spec

-----------------------------------------------------------------------------
(***************************************************************************)
(* What a link of a studio may reach, cost and bring in, for any names,    *)
(* limits and moves.  A link that is connected to was checked; a name may  *)
(* have moved since, and its lookup is guarded; an address cannot move.    *)
(* Every redirect uses up one hop, and a request is made once per hop.     *)
(***************************************************************************)

\* Every step but Start works on a fetch that is under way.
LEMMA FetchUnderWay ==
  ASSUME Fetch!TypeOK, fetch.at \in {"check", "send", "answer", "body", "done"}
  PROVE  fetch \in Fetch!Fetching
BY DEF Fetch!TypeOK, Fetch!Nothing

\* A fetch that is under way has the fields of one, each of its kind.
LEMMA FetchFields ==
  ASSUME fetch \in Fetch!Fetching
  PROVE  /\ fetch = [at |-> fetch.at, job |-> fetch.job, link |-> fetch.link, hop |-> fetch.hop,
                     rendition |-> fetch.rendition, declared |-> fetch.declared,
                     size |-> fetch.size, requests |-> fetch.requests]
         /\ fetch.job \in {"download", "probe"} /\ fetch.link \in Fetch!Links /\ fetch.rendition \in BOOLEAN
         /\ fetch.hop \in Nat /\ fetch.declared \in Int /\ fetch.size \in Nat /\ fetch.requests \in Nat
BY DEF Fetch!Fetching

\* A fetch that fails leaves nothing to check.
LEMMA FetchFailsStep ==
  ASSUME Fetch!IInv, Fetch!Fails
  PROVE  Fetch!IInv'
<1>1. fetch' = [at |-> "failed"] /\ UNCHANGED <<resolves, moves, contacted>>
  BY DEF Fetch!Fails
<1>2. fetch' \in Fetch!Nothing /\ fetch' \notin Fetch!Fetching
  BY <1>1 DEF Fetch!Nothing, Fetch!Fetching
<1>3. Fetch!TypeOK' /\ Fetch!OnlyPublicIsContacted'
  BY <1>1, <1>2 DEF Fetch!IInv, Fetch!TypeOK, Fetch!OnlyPublicIsContacted, Fetch!Fetching
<1>4. Fetch!Checked'
  BY <1>1 DEF Fetch!Checked, Fetch!At
<1>. QED
  BY <1>2, <1>3, <1>4 DEF Fetch!IInv, Fetch!SizeWithin, Fetch!RequestsWithin, Fetch!Fetching

LEMMA FetchStartStep ==
  ASSUME MaxRedirects \in Nat, MaxBytes \in Nat, Fetch!IInv,
         NEW job \in {"download", "probe"}, NEW link \in Fetch!Links, Fetch!Start(job, link)
  PROVE  Fetch!IInv'
<1>1. /\ fetch' = [at |-> "check", job |-> job, link |-> link, hop |-> 0, rendition |-> FALSE,
                   declared |-> Fetch!Unknown, size |-> 0, requests |-> 0]
      /\ UNCHANGED <<resolves, moves, contacted>>
  BY DEF Fetch!Start
<1>2. fetch' \in Fetch!Fetching
  BY <1>1 DEF Fetch!Fetching, Fetch!Unknown
<1>3. Fetch!TypeOK' /\ Fetch!OnlyPublicIsContacted'
  BY <1>1, <1>2 DEF Fetch!IInv, Fetch!TypeOK, Fetch!OnlyPublicIsContacted, Fetch!Fetching
<1>4. Fetch!Checked' /\ Fetch!SizeWithin' /\ Fetch!RequestsWithin'
  BY <1>1 DEF Fetch!Checked, Fetch!SizeWithin, Fetch!RequestsWithin, Fetch!Made, Fetch!At
<1>. QED
  BY <1>3, <1>4 DEF Fetch!IInv

\* An address that is not the platform's own is public.
LEMMA FetchCheckStep ==
  ASSUME MaxRedirects \in Nat, MaxBytes \in Nat, Fetch!IInv, Fetch!AssertPublicUrl
  PROVE  Fetch!IInv'
<1>1. CASE Fetch!Fails
  BY <1>1, FetchFailsStep
<1>2. CASE /\ fetch.link # Fetch!Malformed /\ (Fetch!Allowed(Fetch!Addressed(fetch.link)))
           /\ Fetch!Goes("send") /\ UNCHANGED <<resolves, moves, contacted>>
  <2>1. fetch.at = "check" /\ fetch' = [fetch EXCEPT !.at = "send"]
    BY <1>2 DEF Fetch!AssertPublicUrl, Fetch!Goes, Fetch!At
  <2>2. fetch \in Fetch!Fetching
    BY <2>1, FetchUnderWay DEF Fetch!IInv
  <2>3. /\ fetch' \in Fetch!Fetching /\ fetch'.at = "send" /\ fetch'.link = fetch.link
        /\ fetch'.size = fetch.size /\ fetch'.hop = fetch.hop
        /\ fetch'.rendition = fetch.rendition /\ fetch'.requests = fetch.requests
    BY <2>1, <2>2 DEF Fetch!Fetching
  <2>4. Fetch!TypeOK' /\ Fetch!OnlyPublicIsContacted'
    BY <1>2, <2>3 DEF Fetch!IInv, Fetch!TypeOK, Fetch!OnlyPublicIsContacted, Fetch!Fetching
  <2>5. fetch.link \notin Names => fetch.link \in Fetch!Addresses
    BY <1>2, <2>2 DEF Fetch!Fetching, Fetch!Links
  <2>6. fetch.link \in Names \cup {Outside}
    BY <1>2, <2>5 DEF Fetch!Allowed, Fetch!Addressed, Fetch!IsBlocked, Fetch!Addresses
  <2>7. Fetch!Checked' /\ Fetch!SizeWithin'
    BY <1>2, <2>1, <2>2, <2>3, <2>6 DEF Fetch!IInv, Fetch!Checked, Fetch!SizeWithin, Fetch!At
  <2>8. Fetch!RequestsWithin'
    BY <2>1, <2>2, <2>3 DEF Fetch!IInv, Fetch!RequestsWithin, Fetch!Made
  <2>. QED
    BY <2>4, <2>7, <2>8 DEF Fetch!IInv
<1>. QED
  BY <1>1, <1>2 DEF Fetch!AssertPublicUrl

\* What is connected to is public: the lookup of a name is guarded, and an
\* address is the one that was checked.
LEMMA FetchSendStep ==
  ASSUME MaxRedirects \in Nat, MaxBytes \in Nat, Fetch!IInv, Fetch!Send
  PROVE  Fetch!IInv'
<1>1. CASE Fetch!Fails
  BY <1>1, FetchFailsStep
<1>2. CASE \E a \in Fetch!Looked(fetch.link) :
             /\ contacted' = contacted \cup {a}
             /\ fetch' = [fetch EXCEPT !.at = "answer", !.requests = @ + 1]
             /\ UNCHANGED <<resolves, moves>>
  <2>1. PICK a \in Fetch!Looked(fetch.link) :
             /\ contacted' = contacted \cup {a}
             /\ fetch' = [fetch EXCEPT !.at = "answer", !.requests = @ + 1]
             /\ UNCHANGED <<resolves, moves>>
    BY <1>2
  <2>2. fetch.at = "send"
    BY DEF Fetch!Send, Fetch!At
  <2>3. fetch \in Fetch!Fetching
    BY <2>2, FetchUnderWay DEF Fetch!IInv
  <2>4. /\ fetch' \in Fetch!Fetching /\ fetch'.at = "answer" /\ fetch'.size = fetch.size
        /\ fetch'.hop = fetch.hop /\ fetch'.rendition = fetch.rendition
        /\ fetch'.requests = fetch.requests + 1 /\ fetch.requests \in Nat /\ fetch.hop \in Nat
    <3>1. fetch' = [at |-> "answer", job |-> fetch.job, link |-> fetch.link, hop |-> fetch.hop,
                    rendition |-> fetch.rendition, declared |-> fetch.declared,
                    size |-> fetch.size, requests |-> fetch.requests + 1]
      BY <2>1, <2>3, FetchFields
    <3>. QED
      BY <2>3, <3>1, FetchFields DEF Fetch!Fetching
  <2>5. Fetch!TypeOK'
    BY <2>1, <2>4 DEF Fetch!IInv, Fetch!TypeOK
  <2>6. a = Outside
    <3>1. CASE fetch.link \in Names
      BY <2>1, <3>1 DEF Fetch!IInv, Fetch!TypeOK, Fetch!Looked, Fetch!Addressed, Fetch!Allowed, Fetch!IsBlocked, Fetch!Addresses
    <3>2. CASE fetch.link \notin Names
      BY <2>1, <2>2, <3>2 DEF Fetch!IInv, Fetch!Checked, Fetch!At, Fetch!Looked, Fetch!Addressed
    <3>. QED
      BY <3>1, <3>2
  <2>7. Fetch!OnlyPublicIsContacted'
    BY <2>1, <2>6 DEF Fetch!IInv, Fetch!OnlyPublicIsContacted
  <2>8. Fetch!Checked' /\ Fetch!SizeWithin'
    BY <2>3, <2>4 DEF Fetch!IInv, Fetch!Checked, Fetch!SizeWithin, Fetch!At
  <2>9. Fetch!RequestsWithin'
    BY <2>2, <2>3, <2>4 DEF Fetch!IInv, Fetch!RequestsWithin, Fetch!Made
  <2>. QED
    BY <2>5, <2>7, <2>8, <2>9 DEF Fetch!IInv
<1>. QED
  BY <1>1, <1>2 DEF Fetch!Send

\* A redirect uses up one hop and asks for one more request.
LEMMA FetchRedirectStep ==
  ASSUME MaxRedirects \in Nat, MaxBytes \in Nat, Fetch!IInv, NEW link \in Fetch!Links, Fetch!Redirect(link)
  PROVE  Fetch!IInv'
<1>1. CASE Fetch!Fails
  BY <1>1, FetchFailsStep
<1>2. CASE /\ ~(Fetch!Hop(fetch.hop) > MaxRedirects)
           /\ fetch' = [fetch EXCEPT !.at = "check", !.link = link, !.hop = Fetch!Hop(@)]
           /\ UNCHANGED <<resolves, moves, contacted>>
  <2>1. fetch.at = "answer"
    BY DEF Fetch!Redirect, Fetch!At
  <2>2. fetch \in Fetch!Fetching
    BY <2>1, FetchUnderWay DEF Fetch!IInv
  <2>3. /\ fetch' \in Fetch!Fetching /\ fetch'.at = "check" /\ fetch'.size = fetch.size
        /\ fetch'.hop = fetch.hop + 1 /\ fetch'.rendition = fetch.rendition
        /\ fetch'.requests = fetch.requests /\ fetch.requests \in Nat /\ fetch.hop \in Nat
    <3>1. fetch' = [at |-> "check", job |-> fetch.job, link |-> link, hop |-> fetch.hop + 1,
                    rendition |-> fetch.rendition, declared |-> fetch.declared,
                    size |-> fetch.size, requests |-> fetch.requests]
      BY <1>2, <2>2, FetchFields DEF Fetch!Hop
    <3>. QED
      BY <2>2, <3>1, FetchFields DEF Fetch!Fetching
  <2>4. Fetch!TypeOK' /\ Fetch!OnlyPublicIsContacted'
    BY <1>2, <2>3 DEF Fetch!IInv, Fetch!TypeOK, Fetch!OnlyPublicIsContacted
  <2>5. Fetch!Checked' /\ Fetch!SizeWithin'
    BY <2>2, <2>3 DEF Fetch!IInv, Fetch!Checked, Fetch!SizeWithin, Fetch!At
  <2>6. fetch.hop + 1 <= MaxRedirects
    BY <1>2, <2>3 DEF Fetch!Hop
  <2>7. Fetch!RequestsWithin'
    BY <2>1, <2>2, <2>3, <2>6 DEF Fetch!IInv, Fetch!RequestsWithin, Fetch!Made
  <2>. QED
    BY <2>4, <2>5, <2>7 DEF Fetch!IInv
<1>. QED
  BY <1>1, <1>2 DEF Fetch!Redirect

\* A playlist costs at most the requests of one link before its rendition is fetched.
LEMMA FetchMasterStep ==
  ASSUME MaxRedirects \in Nat, MaxBytes \in Nat, Fetch!IInv, NEW link \in Fetch!Links, Fetch!MasterPlaylist(link)
  PROVE  Fetch!IInv'
<1>1. /\ fetch.at = "body" /\ ~fetch.rendition
      /\ fetch' = [fetch EXCEPT !.at = "check", !.link = link, !.hop = 0, !.rendition = TRUE,
                   !.declared = Fetch!Unknown, !.size = 0]
      /\ UNCHANGED <<resolves, moves, contacted>>
  BY DEF Fetch!MasterPlaylist, Fetch!Whole, Fetch!At
<1>2. fetch \in Fetch!Fetching
  BY <1>1, FetchUnderWay DEF Fetch!IInv
<1>3. /\ fetch' \in Fetch!Fetching /\ fetch'.at = "check" /\ fetch'.size = 0 /\ fetch'.hop = 0
      /\ fetch'.rendition = TRUE /\ fetch'.requests = fetch.requests
      /\ fetch.requests \in Nat /\ fetch.hop \in Nat
  <2>1. fetch' = [at |-> "check", job |-> fetch.job, link |-> link, hop |-> 0, rendition |-> TRUE,
                  declared |-> Fetch!Unknown, size |-> 0, requests |-> fetch.requests]
    BY <1>1, <1>2, FetchFields
  <2>2. Fetch!Unknown \in Int
    BY DEF Fetch!Unknown
  <2>. QED
    BY <1>2, <2>1, <2>2, FetchFields DEF Fetch!Fetching
<1>4. Fetch!TypeOK' /\ Fetch!OnlyPublicIsContacted'
  BY <1>1, <1>3 DEF Fetch!IInv, Fetch!TypeOK, Fetch!OnlyPublicIsContacted
<1>5. Fetch!Checked' /\ Fetch!SizeWithin'
  BY <1>3 DEF Fetch!Checked, Fetch!SizeWithin, Fetch!At
<1>6. Fetch!RequestsWithin'
  BY <1>1, <1>2, <1>3 DEF Fetch!IInv, Fetch!RequestsWithin, Fetch!Made
<1>. QED
  BY <1>4, <1>5, <1>6 DEF Fetch!IInv

\* Steps that stay on one request: the body is read, and is taken when it is whole.
LEMMA FetchBodyStep ==
  ASSUME MaxRedirects \in Nat, MaxBytes \in Nat, Fetch!IInv,
         \/ \E declared \in {Fetch!Unknown} \cup 0..(MaxBytes + 1) : Fetch!Answer(declared)
         \/ Fetch!Chunk \/ Fetch!Downloaded \/ Fetch!MediaPlaylist
  PROVE  Fetch!IInv'
<1>1. CASE Fetch!Fails
  BY <1>1, FetchFailsStep
<1>2. CASE /\ ~Fetch!Fails
           /\ UNCHANGED <<resolves, moves, contacted>>
  <2>1. fetch.at \in {"answer", "body"}
    BY DEF Fetch!Answer, Fetch!Chunk, Fetch!Downloaded, Fetch!MediaPlaylist, Fetch!Whole, Fetch!At
  <2>2. fetch \in Fetch!Fetching
    BY <2>1, FetchUnderWay DEF Fetch!IInv
  <2>3. /\ fetch.size \in Nat /\ fetch.hop \in Nat /\ fetch.requests \in Nat
        /\ fetch.size <= MaxBytes
    BY <2>2 DEF Fetch!IInv, Fetch!SizeWithin, Fetch!Fetching
  <2>4. PICK step \in {"body", "done"}, declared \in Int, size \in Nat :
           /\ fetch' = [fetch EXCEPT !.at = step, !.declared = declared, !.size = size]
           /\ size <= MaxBytes /\ (step = "done" => size > 0)
    <3>1. CASE \E declared \in {Fetch!Unknown} \cup 0..(MaxBytes + 1) : Fetch!Answer(declared)
      <4>1. PICK d \in {Fetch!Unknown} \cup 0..(MaxBytes + 1) : Fetch!Answer(d)
        BY <3>1
      <4>2. fetch' = [fetch EXCEPT !.at = "body", !.declared = d] /\ d \in Int
        <5>1. d \in Int
          BY DEF Fetch!Unknown
        <5>2. ~Fetch!Fails
          BY <1>2
        <5>3. fetch' = [fetch EXCEPT !.at = "body", !.declared = d]
          BY <4>1, <5>2 DEF Fetch!Answer
        <5>. QED
          BY <5>1, <5>3
      <4>3. fetch' = [fetch EXCEPT !.at = "body", !.declared = d, !.size = fetch.size]
        BY <2>2, <4>2 DEF Fetch!Fetching
      <4>. QED
        BY <2>3, <4>2, <4>3
    <3>2. CASE Fetch!Chunk
      <4>1. fetch' = [fetch EXCEPT !.size = fetch.size + 1] /\ fetch.at = "body"
            /\ fetch.size + 1 <= MaxBytes /\ fetch.declared \in Int
        BY <1>2, <2>2, <2>3, <3>2 DEF Fetch!Chunk, Fetch!TooLarge, Fetch!At, Fetch!Fetching
      <4>2. fetch' = [fetch EXCEPT !.at = "body", !.declared = fetch.declared, !.size = fetch.size + 1]
        BY <2>2, <4>1 DEF Fetch!Fetching
      <4>. QED
        BY <2>3, <4>1, <4>2, fetch.size + 1 \in Nat
    <3>3. CASE Fetch!Downloaded \/ Fetch!MediaPlaylist
      <4>1. fetch' = [fetch EXCEPT !.at = "done"] /\ fetch.size > 0 /\ fetch.declared \in Int
        BY <1>2, <2>2, <2>3, <3>3 DEF Fetch!Downloaded, Fetch!MediaPlaylist, Fetch!Goes, Fetch!Fetching
      <4>2. fetch' = [fetch EXCEPT !.at = "done", !.declared = fetch.declared, !.size = fetch.size]
        BY <2>2, <4>1 DEF Fetch!Fetching
      <4>. QED
        BY <2>3, <4>1, <4>2
    <3>. QED
      BY <3>1, <3>2, <3>3
  <2>5. /\ fetch' \in Fetch!Fetching /\ fetch'.at = step /\ fetch'.size = size /\ fetch'.hop = fetch.hop
        /\ fetch'.rendition = fetch.rendition /\ fetch'.requests = fetch.requests
    <3>1. fetch' = [at |-> step, job |-> fetch.job, link |-> fetch.link, hop |-> fetch.hop,
                    rendition |-> fetch.rendition, declared |-> declared,
                    size |-> size, requests |-> fetch.requests]
      BY <2>2, <2>4, FetchFields
    <3>. QED
      BY <2>2, <2>4, <3>1, FetchFields DEF Fetch!Fetching
  <2>6. Fetch!TypeOK' /\ Fetch!OnlyPublicIsContacted'
    BY <1>2, <2>5 DEF Fetch!IInv, Fetch!TypeOK, Fetch!OnlyPublicIsContacted
  <2>7. Fetch!Checked' /\ Fetch!SizeWithin'
    BY <2>4, <2>5 DEF Fetch!Checked, Fetch!SizeWithin, Fetch!At
  <2>8. Fetch!RequestsWithin'
    BY <2>1, <2>2, <2>5 DEF Fetch!IInv, Fetch!RequestsWithin, Fetch!Made
  <2>. QED
    BY <2>6, <2>7, <2>8 DEF Fetch!IInv
<1>. QED
  BY <1>1, <1>2 DEF Fetch!Answer, Fetch!Chunk, Fetch!Downloaded, Fetch!MediaPlaylist

\* A name moves: what was checked was a name, or an address that cannot move.
LEMMA FetchMoveStep ==
  ASSUME Fetch!IInv, NEW n \in Names, Fetch!Move(n)
  PROVE  Fetch!IInv'
<1>1. PICK addresses \in SUBSET Fetch!Addresses : resolves' = [resolves EXCEPT ![n] = addresses]
  BY DEF Fetch!Move
<1>2. moves' = moves + 1 /\ UNCHANGED <<fetch, contacted>>
  BY DEF Fetch!Move
<1>3. Fetch!TypeOK'
  BY <1>1, <1>2 DEF Fetch!IInv, Fetch!TypeOK
<1>. QED
  BY <1>2, <1>3 DEF Fetch!IInv, Fetch!OnlyPublicIsContacted, Fetch!Checked, Fetch!SizeWithin, Fetch!RequestsWithin, Fetch!Made, Fetch!At

(* The inductive invariant of a fetch.                                      *)
THEOREM FetchInvariance == Spec => []Fetch!IInv
<1>. MaxRedirects \in Nat /\ MaxBytes \in Nat
  BY OfficeAssumption
<1>1. Init => Fetch!IInv
  <2>1. SUFFICES ASSUME Init PROVE Fetch!IInv
    OBVIOUS
  <2>2. fetch = [at |-> "idle"] /\ fetch \notin Fetch!Fetching
    BY <2>1 DEF Init, Fetch!Init, Fetch!Fetching
  <2>3. Fetch!TypeOK /\ Fetch!OnlyPublicIsContacted
    BY <2>1, <2>2 DEF Init, Fetch!Init, Fetch!TypeOK, Fetch!OnlyPublicIsContacted, Fetch!Nothing, Fetch!Addresses
  <2>. QED
    BY <2>2, <2>3 DEF Fetch!IInv, Fetch!Checked, Fetch!SizeWithin, Fetch!RequestsWithin, Fetch!At
<1>2. ASSUME Fetch!IInv, [Next]_vars PROVE Fetch!IInv'
  <2>1. ASSUME NEW job \in {"download", "probe"}, NEW link \in Fetch!Links, Fetch!Start(job, link) PROVE Fetch!IInv'
    BY <1>2, <2>1, FetchStartStep
  <2>2. CASE Fetch!AssertPublicUrl \/ Fetch!Send
    BY <1>2, <2>2, FetchCheckStep, FetchSendStep
  <2>3. ASSUME NEW link \in Fetch!Links, Fetch!Redirect(link) \/ Fetch!MasterPlaylist(link) PROVE Fetch!IInv'
    BY <1>2, <2>3, FetchRedirectStep, FetchMasterStep
  <2>4. CASE Fetch!ErrorStatus \/ Fetch!Breaks \/ Fetch!NoPlaylist
    BY <1>2, <2>4, FetchFailsStep DEF Fetch!ErrorStatus, Fetch!Breaks, Fetch!NoPlaylist
  <2>5. CASE \/ \E declared \in {Fetch!Unknown} \cup 0..(MaxBytes + 1) : Fetch!Answer(declared)
             \/ Fetch!Chunk \/ Fetch!Downloaded \/ Fetch!MediaPlaylist
    BY <1>2, <2>5, FetchBodyStep
  <2>6. ASSUME NEW n \in Names, Fetch!Move(n) PROVE Fetch!IInv'
    BY <1>2, <2>6, FetchMoveStep
  <2>7. CASE UNCHANGED fetchVars
    BY <1>2, <2>7 DEF fetchVars, Fetch!IInv, Fetch!TypeOK, Fetch!OnlyPublicIsContacted, Fetch!Checked, Fetch!SizeWithin,
                      Fetch!RequestsWithin, Fetch!Made, Fetch!At
  <2>. QED
    BY <1>2, <2>1, <2>2, <2>3, <2>4, <2>5, <2>6, <2>7, OfficeStep DEF Fetch!Next
<1>. QED
  BY <1>1, <1>2, PTL DEF Spec

(* Whatever a link, a redirect or a playlist names, and however names move, *)
(* a fetch connects to public addresses only, makes a bounded number of     *)
(* requests and takes no more than the limit.                               *)
THEOREM FetchSafe == Spec => []FetchIsSafe
<1>. MaxRedirects \in Nat /\ MaxBytes \in Nat
  BY OfficeAssumption
<1>1. ASSUME Fetch!IInv PROVE FetchIsSafe
  <2>1. Fetch!OnlyPublicIsContacted
    BY <1>1 DEF Fetch!IInv
  <2>2. Fetch!TakenIsWithinLimit
    <3>1. SUFFICES ASSUME fetch.at = "done" PROVE fetch.size \in 1..MaxBytes
      BY DEF Fetch!TakenIsWithinLimit, Fetch!At
    <3>2. fetch \in Fetch!Fetching
      BY <1>1, <3>1, FetchUnderWay DEF Fetch!IInv
    <3>. QED
      BY <1>1, <3>1, <3>2 DEF Fetch!IInv, Fetch!SizeWithin, Fetch!Fetching, Fetch!At
  <2>3. Fetch!FetchIsBounded
    <3>1. SUFFICES ASSUME "requests" \in DOMAIN fetch PROVE fetch.requests <= 2 * (MaxRedirects + 1)
      BY DEF Fetch!FetchIsBounded
    <3>2. fetch \in Fetch!Fetching
      BY <1>1, <3>1 DEF Fetch!IInv, Fetch!TypeOK, Fetch!Nothing
    <3>3. fetch.requests \in Nat /\ fetch.hop \in Nat /\ fetch.rendition \in BOOLEAN
      BY <3>2 DEF Fetch!Fetching
    <3>4. fetch.hop <= MaxRedirects /\ fetch.requests <= MaxRedirects + 1 + fetch.hop + Fetch!Made
      BY <1>1, <3>2, <3>3 DEF Fetch!IInv, Fetch!RequestsWithin, Fetch!Made
    <3>. QED
      BY <3>3, <3>4 DEF Fetch!Made
  <2>. QED
    BY <2>1, <2>2, <2>3 DEF FetchIsSafe, Fetch!FetchIsSafe
<1>. QED
  BY <1>1, FetchInvariance, PTL
=============================================================================
