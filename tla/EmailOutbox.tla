------------------------------ MODULE EmailOutbox ------------------------------
(***************************************************************************)
(* One message of the email outbox and the job that delivers it.  The row  *)
(* is written with the change that causes it, the job is added after that  *)
(* transaction committed.  With Redis the workers run the job: the queue   *)
(* hands it out again when a worker died, and also when it only stalled,   *)
(* while its attempt goes on; without Redis the caller runs it.  What      *)
(* fails (the process, the database, Redis) fails MaxFaults times at most. *)
(***************************************************************************)
EXTENDS Integers

CONSTANTS
    Workers,       \* workers of all instances that take this job
    Attempts,      \* tries before the job is given up
    MaxFaults      \* bound: crashes, stalls and lost writes

VARIABLES
    background,    \* whether jobs run on workers (Redis)
    row,           \* EmailMessage.status, NONE before the row is there
    caller,        \* where the request that sends the message is
    job,           \* state of the job
    tries,         \* attempts the queue has counted
    worker,        \* where each worker's attempt is, and whether the job is still its own
    sends,         \* mails that left
    unmarked,      \* mails whose SENT was never written: lost write, or a crash before it
    strayed,       \* mails of attempts that had lost the job before SENT was written
    notices,       \* notifications about the failure
    faults         \* what has failed so far

vars == <<background, row, caller, job, tries, worker, sends, unmarked, strayed, notices, faults>>

NoAttempt == [at |-> "idle", owns |-> FALSE]

Init ==
    /\ background \in BOOLEAN
    /\ row = "NONE" /\ caller = "begin" /\ job = "none"
    /\ worker = [w \in Workers |-> NoAttempt]
    /\ tries = 0 /\ sends = 0 /\ unmarked = 0 /\ strayed = 0 /\ notices = 0 /\ faults = 0

Fault == faults < MaxFaults /\ faults' = faults + 1

At(w) == worker[w].at
Owns(w) == worker[w].owns
Moves(w, at) == worker' = [worker EXCEPT ![w].at = at]
Rests(w) == worker' = [worker EXCEPT ![w] = NoAttempt]

\* create, in the transaction of the caller's change.
Create ==
    /\ caller = "begin"
    /\ caller' = "dispatch"
    /\ row' = "QUEUED"
    /\ UNCHANGED <<background, job, tries, worker, sends, unmarked, strayed, notices, faults>>

\* dispatch: the job is queued, or runs inside the call.
Dispatch ==
    /\ caller = "dispatch" /\ job = "none"
    /\ job' = "waiting"
    /\ caller' = IF background THEN "done" ELSE "dispatch"
    /\ UNCHANGED <<background, row, tries, worker, sends, unmarked, strayed, notices, faults>>

\* Redis does not answer in time: the caller is told, the job may have been taken all the same.
DispatchTimesOut ==
    /\ background /\ caller = "dispatch" /\ job = "none"
    /\ Fault
    /\ caller' = "told"
    /\ job' \in {"none", "waiting"}
    /\ UNCHANGED <<background, row, tries, worker, sends, unmarked, strayed, notices>>

\* Mutant: the handler does not look at the status.
TakeAnyway(w) ==
    /\ worker[w] = NoAttempt /\ job = "waiting"
    /\ job' = "active"
    /\ worker' = [worker EXCEPT ![w] = [at |-> "send", owns |-> TRUE]]
    /\ UNCHANGED <<background, row, caller, tries, sends, unmarked, strayed, notices, faults>>

\* The handler starts: a message that was sent needs nothing.
Take(w) ==
    /\ worker[w] = NoAttempt /\ job = "waiting"
    /\ job' = "active"
    /\ worker' = [worker EXCEPT ![w] =
                    [at |-> IF row = "SENT" THEN "finish" ELSE "send", owns |-> TRUE]]
    /\ UNCHANGED <<background, row, caller, tries, sends, unmarked, strayed, notices, faults>>

\* Nothing is read again before the mail leaves, so an attempt that stalled sends it too.
Send(w) ==
    /\ At(w) = "send"
    /\ Moves(w, "mark") /\ sends' = sends + 1
    /\ strayed' = IF Owns(w) THEN strayed ELSE strayed + 1
    /\ UNCHANGED <<background, row, caller, job, tries, unmarked, notices, faults>>

\* An attachment cannot be read, or the mail server refuses.
SendFails(w) ==
    /\ At(w) = "send"
    /\ Moves(w, "failed")
    /\ UNCHANGED <<background, row, caller, job, tries, sends, unmarked, strayed, notices, faults>>

Mark(w) ==
    /\ At(w) = "mark"
    /\ Moves(w, "finish") /\ row' = "SENT"
    /\ UNCHANGED <<background, caller, job, tries, sends, unmarked, strayed, notices, faults>>

\* A mail whose attempt ends before SENT is written stays unmarked; one that strayed counts as that.
Unmarked(w) == IF At(w) = "mark" /\ Owns(w) THEN unmarked + 1 ELSE unmarked

\* The mail left, but SENT is not written: the attempt counts as failed.
MarkFails(w) ==
    /\ At(w) = "mark"
    /\ Fault
    /\ Moves(w, "failed") /\ unmarked' = Unmarked(w)
    /\ UNCHANGED <<background, row, caller, job, tries, sends, strayed, notices>>

\* The call of a job that ran inside it returns with the job.
Ended(w, state) ==
    /\ job' = state /\ Rests(w)
    /\ caller' = IF caller = "dispatch" THEN "done" ELSE caller

\* An attempt that lost its job reports to nobody.
Reports(w) == ~Owns(w) /\ Rests(w) /\ UNCHANGED <<job, caller>>

Finish(w) ==
    /\ At(w) = "finish"
    /\ \/ Reports(w)
       \/ Owns(w) /\ Ended(w, "done")
    /\ UNCHANGED <<background, row, tries, sends, unmarked, strayed, notices, faults>>

\* Mutant: the retry does not count.
RetryForEver(w) ==
    /\ At(w) = "failed"
    /\ \/ Reports(w) /\ UNCHANGED tries
       \/ Owns(w) /\ job' = "waiting" /\ Rests(w) /\ UNCHANGED <<caller, tries>>
    /\ UNCHANGED <<background, row, sends, unmarked, strayed, notices, faults>>

\* The attempt failed: another try, or the end.
Retry(w) ==
    /\ At(w) = "failed"
    /\ \/ Reports(w) /\ UNCHANGED tries
       \/ /\ Owns(w)
          /\ tries' = tries + 1
          /\ IF tries + 1 < Attempts THEN job' = "waiting" /\ Rests(w)
                                     ELSE job' = "failed" /\ Moves(w, "giveup")
          /\ UNCHANGED caller
    /\ UNCHANGED <<background, row, sends, unmarked, strayed, notices, faults>>

GiveUp(w) ==
    /\ At(w) = "giveup"
    /\ row' = "FAILED" /\ Moves(w, "notify")
    /\ UNCHANGED <<background, caller, job, tries, sends, unmarked, strayed, notices, faults>>

Notify(w) ==
    /\ At(w) = "notify"
    /\ Ended(w, "failed")
    /\ notices' = notices + 1
    /\ UNCHANGED <<background, row, tries, sends, unmarked, strayed, faults>>

\* onFailed throws: it is logged, and nobody calls it again.
GiveUpFails(w) ==
    /\ At(w) \in {"giveup", "notify"}
    /\ Fault
    /\ Ended(w, "failed")
    /\ UNCHANGED <<background, row, tries, sends, unmarked, strayed, notices>>

\* The lock of the job ran out: the queue hands it out again while this attempt goes on.
Stall(w) ==
    /\ background /\ Owns(w) /\ job = "active"
    /\ Fault
    /\ worker' = [worker EXCEPT ![w].owns = FALSE]
    /\ job' = "waiting"
    /\ strayed' = IF At(w) = "mark" THEN strayed + 1 ELSE strayed
    /\ UNCHANGED <<background, row, caller, tries, sends, unmarked, notices>>

\* A worker dies: the queue runs a job that had not ended again.
WorkerDies(w) ==
    /\ background /\ worker[w] # NoAttempt
    /\ Fault
    /\ Rests(w)
    /\ unmarked' = Unmarked(w)
    /\ job' = IF Owns(w) /\ job = "active" THEN "waiting" ELSE job
    /\ UNCHANGED <<background, row, caller, tries, sends, strayed, notices>>

\* The process of the caller dies, after its transaction and before the job is queued or ended.
CallerDies ==
    /\ caller = "dispatch"
    /\ Fault
    /\ caller' = "dead"
    /\ worker' = [w \in Workers |-> NoAttempt]
    /\ unmarked' = IF \E w \in Workers : At(w) = "mark" THEN unmarked + 1 ELSE unmarked
    /\ job' = IF job = "none" THEN job ELSE "lost"
    /\ UNCHANGED <<background, row, tries, sends, strayed, notices>>

Deliver ==
    \E w \in Workers :
        \/ Take(w) \/ Send(w) \/ SendFails(w) \/ Mark(w) \/ MarkFails(w) \/ Finish(w)
        \/ Retry(w) \/ GiveUp(w) \/ GiveUpFails(w) \/ Notify(w)

Next ==
    \/ Create \/ Dispatch \/ DispatchTimesOut \/ Deliver \/ CallerDies
    \/ \E w \in Workers : Stall(w) \/ WorkerDies(w)

\* The queue hands out jobs, and a process that is up goes on.
Fairness == WF_vars(Deliver) /\ WF_vars(Dispatch)

Spec == Init /\ [][Next]_vars /\ Fairness

-----------------------------------------------------------------------------
(* Only a crash or a lost write between a mail and its mark, or an attempt  *)
(* that stalled before it, lets the message leave twice: every retry and    *)
(* every other worker finds SENT.  And SENT is only written for a mail that *)
(* left.                                                                    *)
OneMail == sends <= 1 + unmarked + strayed /\ (row = "SENT" => sends > 0)

(* A job the queue took is over at last, whatever keeps failing; it is      *)
(* given up after the last attempt, or lost with the process it ran in.     *)
JobEnds == job = "waiting" ~> job \in {"done", "failed", "lost"}

(* EmailOutboxService: "The message is written with the change that causes  *)
(* it, then delivered by a background job with retries; a message that      *)
(* still fails is marked FAILED".  Nothing looks for a QUEUED message whose *)
(* job was never added.                                                     *)
EveryMessageSettles == row = "QUEUED" ~> row \in {"SENT", "FAILED"}

(* The job has one attempt at most that owns it, and where that one is says *)
(* how far the job is; an attempt that lost it is not past its handler.     *)
JobHasItsAttempt ==
    /\ worker \in [Workers -> [at : {"idle", "send", "mark", "finish", "failed", "giveup", "notify"},
                               owns : BOOLEAN]]
    /\ \A u, w \in Workers : Owns(u) /\ Owns(w) => u = w
    /\ \A w \in Workers :
          IF Owns(w) THEN \/ At(w) \in {"send", "mark", "finish", "failed"} /\ job = "active"
                          \/ At(w) \in {"giveup", "notify"} /\ job = "failed"
                     ELSE At(w) \in {"idle", "send", "mark", "finish", "failed"}

(* No mail is out that is neither unmarked nor strayed.                     *)
NoMailKept == sends <= unmarked + strayed

(* What the theorem about OneMail needs: the attempt that owns the job      *)
(* sends only if no mail was kept, the next one does if SENT is not written *)
(* by then, and nothing is there before the caller wrote the message.       *)
IInv ==
    /\ sends \in Nat /\ unmarked \in Nat /\ strayed \in Nat
    /\ JobHasItsAttempt
    /\ caller = "begin" => row = "NONE" /\ job = "none" /\ \A w \in Workers : At(w) = "idle"
    /\ \A w \in Workers : /\ Owns(w) /\ At(w) \in {"send", "failed"} => NoMailKept
                          /\ Owns(w) /\ At(w) = "finish" => row = "SENT"
                          /\ At(w) = "mark" => sends > 0
    /\ job \in {"none", "waiting"} /\ row # "SENT" => NoMailKept
    /\ OneMail
=============================================================================
