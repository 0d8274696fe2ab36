------------------------------ MODULE StudioPortal ------------------------------
(***************************************************************************)
(* The studio a project is handed off to, and the private link it works    *)
(* through.  The Creator changes the studio or sends its link again; the   *)
(* studio takes or declines the project and delivers.  Every operation     *)
(* reads first and writes in a transaction of its own, so a link may be    *)
(* revoked, replaced or answered in between.                               *)
(*                                                                         *)
(* A link is the number of the token it carries: tokens are fresh.  What   *)
(* becomes of a delivered version is in Delivery.                          *)
(***************************************************************************)
EXTENDS Integers, Sequences

CONSTANTS
    Requests,       \* requests served at once
    MaxHandoffs,    \* bound: studios the project is handed to
    MaxTokens,      \* bound: links made
    MaxDeliveries   \* bound: versions delivered through links

VARIABLES
    project,        \* Movie.status
    handoffs,       \* StudioHandoff rows, oldest first
    tokens,         \* number of links made so far
    delivered,      \* hand-off each delivered version names, oldest first
    req             \* what each request has read

vars == <<project, handoffs, tokens, delivered, req>>

Delivering == {"IN_PRODUCTION", "UNDER_REVISION"}
Visible == Delivering \cup {"COMPLETED"}

Handoff == [token : Nat, revoked : BOOLEAN, answer : {"NONE", "ACCEPTED", "DECLINED"}]
New(token) == [token |-> token, revoked |-> FALSE, answer |-> "NONE"]
Current == Len(handoffs)

Idle == [op |-> "idle"]

\* The project has just been handed off.
Init ==
    /\ project = "IN_PRODUCTION"
    /\ tokens = 1
    /\ handoffs = <<New(1)>>
    /\ delivered = <<>>
    /\ req = [r \in Requests |-> Idle]

Read(r, op, i) ==
    /\ req[r] = Idle
    /\ req' = [req EXCEPT ![r] = [op |-> op, handoff |-> i]]
    /\ UNCHANGED <<project, handoffs, tokens, delivered>>

Commit(r, op) ==
    /\ req[r].op = op
    /\ req' = [req EXCEPT ![r] = Idle]

Abort(r) ==
    /\ req[r] # Idle
    /\ req' = [req EXCEPT ![r] = Idle]
    /\ UNCHANGED <<project, handoffs, tokens, delivered>>

\* The last release, a take-down to fix, a cancellation.
Proceed ==
    /\ \/ project \in Delivering /\ project' = "COMPLETED"
       \/ project = "COMPLETED" /\ project' = "UNDER_REVISION"
       \/ project = "IN_PRODUCTION" /\ project' = "CANCELLED"
    /\ UNCHANGED <<handoffs, tokens, delivered, req>>

-----------------------------------------------------------------------------
\* The Creator's side.

\* changeStudio: the brief is prepared between the look at the status and the transaction.
BeginChange(r) == project \in Delivering /\ Read(r, "change", 0)

\* Mutant: the links are revoked after the new hand-off was written.
RecordedThenRevoked ==
    [i \in 1..(Current + 1) |->
       [Append(handoffs, New(tokens + 1))[i] EXCEPT !.revoked = TRUE]]

\* recordHandoff: every link that works is revoked, then the new hand-off is written.
Recorded == Append([i \in DOMAIN handoffs |-> [handoffs[i] EXCEPT !.revoked = TRUE]],
                   New(tokens + 1))

\* The update of the movie row makes changes wait for each other; it has no guard.
ChangeStudio(r) ==
    /\ Commit(r, "change")
    /\ Len(handoffs) < MaxHandoffs /\ tokens < MaxTokens
    /\ handoffs' = Recorded
    /\ tokens' = tokens + 1
    /\ UNCHANGED <<project, delivered>>

\* resendPortalLink reads the newest hand-off.
BeginResend(r) ==
    /\ project \in Delivering
    /\ handoffs[Current].answer # "DECLINED"
    /\ Read(r, "resend", Current)

\* The hand-off that was read gets a fresh link that works, whatever it has become.
Resend(r) ==
    /\ Commit(r, "resend")
    /\ tokens < MaxTokens
    /\ handoffs' = [handoffs EXCEPT ![req[r].handoff].token = tokens + 1,
                                    ![req[r].handoff].revoked = FALSE]
    /\ tokens' = tokens + 1
    /\ UNCHANGED <<project, delivered>>

-----------------------------------------------------------------------------
\* The studio's side, by the token of its link.

\* resolve: the hand-off behind a link that works, of a project still to be seen.
Resolves(token, i) ==
    /\ handoffs[i].token = token /\ ~handoffs[i].revoked
    /\ project \in Visible

BeginRespond(r, token, i) ==
    /\ Resolves(token, i)
    /\ project \in Delivering
    /\ Read(r, "respond", i)

\* Mutant: an answer does not look for an older one.
RespondAgain(r, answer) == LET i == req[r].handoff IN
    /\ Commit(r, "respond")
    /\ ~handoffs[i].revoked
    /\ handoffs' = [handoffs EXCEPT ![i].answer = answer]
    /\ UNCHANGED <<project, tokens, delivered>>

\* Accept or decline, once, through the link of a hand-off that still has one.
Respond(r, answer) == LET i == req[r].handoff IN
    /\ Commit(r, "respond")
    /\ handoffs[i].answer = "NONE" /\ ~handoffs[i].revoked
    /\ handoffs' = [handoffs EXCEPT ![i].answer = answer]
    /\ UNCHANGED <<project, tokens, delivered>>

\* Mutant: who has not declined may deliver.
UnlessDeclined(r, token, i) ==
    /\ Resolves(token, i)
    /\ handoffs[i].answer # "DECLINED"
    /\ project \in Delivering
    /\ Read(r, "deliver", i)

\* deliverer, and the status assertCanSubmit asks for.
BeginDeliver(r, token, i) ==
    /\ Resolves(token, i)
    /\ handoffs[i].answer = "ACCEPTED"
    /\ project \in Delivering
    /\ Read(r, "deliver", i)

\* createVersion names the hand-off; neither the link nor the project is looked at again.
Deliver(r) ==
    /\ Commit(r, "deliver")
    /\ Len(delivered) < MaxDeliveries
    /\ delivered' = Append(delivered, req[r].handoff)
    /\ UNCHANGED <<project, handoffs, tokens>>

-----------------------------------------------------------------------------
Next ==
    \/ \E r \in Requests :
          \/ BeginChange(r) \/ ChangeStudio(r) \/ BeginResend(r) \/ Resend(r)
          \/ \E token \in 1..tokens, i \in DOMAIN handoffs :
                BeginRespond(r, token, i) \/ BeginDeliver(r, token, i)
          \/ \E answer \in {"ACCEPTED", "DECLINED"} : Respond(r, answer)
          \/ Deliver(r) \/ Abort(r)
    \/ Proceed

Spec == Init /\ [][Next]_vars

-----------------------------------------------------------------------------
(* The studio the project was handed to last always has a link that works,  *)
(* through any race of changes of studio and of links sent again.           *)
CurrentHasLink == ~handoffs[Current].revoked

(* BR-13: versions are delivered by studios that took the project, and what *)
(* a studio answered, through a link that worked when the answer was        *)
(* written, is never answered again.                                        *)
DeliveredByTaker == \A n \in DOMAIN delivered : handoffs[delivered[n]].answer = "ACCEPTED"

AnswerIsFinal ==
    [][ \A i \in DOMAIN handoffs :
          handoffs'[i].answer # handoffs[i].answer => handoffs[i].answer = "NONE" /\ ~handoffs[i].revoked ]_vars

(* recordHandoff: "One studio at a time: the previous studio's link stops   *)
(* working with this hand-off".  A link sent again, read before the studio  *)
(* was changed, works again beside the new one.                             *)
OneLink == \A i \in DOMAIN handoffs : ~handoffs[i].revoked => i = Current

(* StudioPortalService: "The link is the only credential; it dies when the  *)
(* studio is changed."  A delivery that resolved it before still commits.   *)
DeliveredByCurrent ==
    [][ delivered' # delivered => ~handoffs[delivered'[Len(delivered')]].revoked ]_vars

(* The studio that took the project, and no other, works through its link.  *)
StudioHasTheLink == []CurrentHasLink /\ []DeliveredByTaker /\ AnswerIsFinal

-----------------------------------------------------------------------------
(* What the proofs add to the properties.                                   *)

Reading == [op : {"change", "resend", "respond", "deliver"}, handoff : Nat]

TypeOK ==
    /\ project \in Visible \cup {"CANCELLED"}
    /\ tokens \in Nat
    /\ handoffs \in Seq(Handoff)
    /\ delivered \in Seq(Nat)
    /\ req \in [Requests -> {Idle} \cup Reading]

\* A delivery under way and a delivery made name a hand-off that was accepted.
Taken(i) == i \in DOMAIN handoffs /\ handoffs[i].answer = "ACCEPTED"

DeliverersTook ==
    /\ \A r \in Requests : req[r].op = "deliver" => Taken(req[r].handoff)
    /\ \A n \in DOMAIN delivered : Taken(delivered[n])

IInv == TypeOK /\ CurrentHasLink /\ DeliverersTook
=============================================================================
