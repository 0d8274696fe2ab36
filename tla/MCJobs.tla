--------------------------------- MODULE MCJobs ---------------------------------
(***************************************************************************)
(* What runs by itself and must get on: the sweep that expires bonus Coins *)
(* (CoinWallet), the mails of the outbox and the sweeps that alert, each   *)
(* checked on its own in one run.  The first state says which of them      *)
(* works, the others stand still.                                          *)
(***************************************************************************)
EXTENDS MCCoinWallet

CONSTANTS Workers, Attempts, MaxFaults,          \* EmailOutbox
          Episodes, MaxChanges, MaxDeaths        \* Alerts

VARIABLES
    part,                                        \* what works
    background, message, caller, job, tries, worker, sends, unmarked, strayed, notices, faults,
    subject, link, notice, reports, overdue, flags, round, changes, deaths

Outbox == INSTANCE EmailOutbox WITH row <- message
Alert == INSTANCE Alerts WITH sweep <- round, faults <- deaths, MaxFaults <- MaxDeaths

mailVars == <<background, message, caller, job, tries, worker, sends, unmarked, strayed, notices, faults>>
alertVars == <<subject, link, notice, reports, overdue, flags, round, changes, deaths>>

InitJobs ==
    /\ part \in {"wallet", "mail", "alerts"}
    /\ Init /\ Outbox!Init /\ Alert!Init
    /\ part # "mail" => background
    /\ part # "alerts" => subject = "link"

\* The other parts stand still.
NextJobs ==
    /\ UNCHANGED part
    /\ \/ part = "wallet" /\ Next /\ UNCHANGED <<mailVars, alertVars>>
       \/ part = "mail" /\ Outbox!Next /\ UNCHANGED <<vars, alertVars>>
       \/ part = "alerts" /\ Alert!Next /\ UNCHANGED <<vars, mailVars>>

\* The fairness of the three; a part that stands still has nothing to do.
SpecJobs ==
    /\ InitJobs /\ [][NextJobs]_<<part, vars, mailVars, alertVars>>
    /\ \A s \in Sweepers :
          /\ WF_vars(part = "wallet" /\ SweepStart(s))
          /\ WF_vars(part = "wallet" /\ SweepNext(s))
          /\ SF_vars(part = "wallet" /\ SweepExpire(s))
    /\ WF_mailVars(part = "mail" /\ Outbox!Deliver)
    /\ WF_mailVars(part = "mail" /\ Outbox!Dispatch)
    /\ \A i \in Sweepers :
          /\ WF_alertVars(part = "alerts" /\ Alert!CheckStep(i))
          /\ WF_alertVars(part = "alerts" /\ Alert!OverdueStep(i))

-----------------------------------------------------------------------------
(* No retry sends again what another attempt marked SENT (EmailOutbox).    *)
OneMail == Outbox!OneMail

(* A job the queue took is over at last (EmailOutbox).                      *)
JobEnds == Outbox!JobEnds

(* What stays dead or late is reported (Alerts).                            *)
StaysReported == Alert!StaysReported
=============================================================================
