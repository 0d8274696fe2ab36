------------------------------- MODULE Release -------------------------------
(***************************************************************************)
(* From a delivered version to a release: review, AI label, compliance     *)
(* check, price, publication now or on a date, take-down, revision,        *)
(* completion and cancellation of the project.                             *)
(*                                                                         *)
(* A request reads the episode (Begin...) and decides later, in one        *)
(* transaction whose guarded updates may no longer match: Abort is such a  *)
(* conflict, and any other roll-back.  publish looks for the pending       *)
(* release before anything is locked: FindPending.  The transaction of a   *)
(* release is two steps more, because what it reads before its commit (the *)
(* project, the episodes not out yet) is not locked either: StartRelease   *)
(* and CommitRelease.                                                      *)
(* The scheduler releases due publications one transaction each.           *)
(***************************************************************************)
EXTENDS Integers, Sequences, FiniteSets

CONSTANTS
    Episodes,
    Requests,      \* concurrent requests of the Reviewer and the Admin
    Scheduler,     \* the job that runs publishDue
    Commitments,   \* whether the studio rules out real persons: the values a run looks at
    Answers,       \* what a Reviewer may answer in a compliance check
    MaxVersions,   \* bound: deliveries of an episode
    MaxReleases,   \* bound: publications
    MaxFailures    \* bound: transactions of the scheduler that fail for no reason of ours

Actors == Requests \cup {Scheduler}
Versions == 1..MaxVersions
Assets == Episodes \X Versions

\* The four items of BR-42; the label is the system's, the last one needs both sides.
Items == {"AI_LABEL_PRESENCE", "DECREE_142_NOTICE", "CONTENT_SAFETY", "REAL_PERSON_LIKENESS"}

ASSUME ConstantsAssumption ==
    /\ Scheduler \notin Requests
    /\ Commitments \subseteq BOOLEAN
    /\ Answers \subseteq [notice : {"PASS", "FAIL"}, safety : {"PASS", "FAIL"}, depicts : BOOLEAN]
    /\ {MaxVersions, MaxReleases, MaxFailures} \subseteq Nat

VARIABLES
    movie,         \* status, and whether the texts a release needs are filled in
    episode,       \* rows of episodes
    newest,        \* media_assets: the version delivered last, the only READY one not approved yet
    disclosed,     \* versions whose studio committed to no real-person likeness
    labelled,      \* ai_content_labels: the versions with a label
    checks,        \* compliance_checks of a version, by item
    publication,   \* publications, in order of creation
    req,           \* what each request, and the scheduler's transaction, has read
    due,           \* publications this run of publishDue has still to release
    failures

vars == <<movie, episode, newest, disclosed, labelled, checks, publication, req, due, failures>>
Media == <<newest, disclosed>>
Vetting == <<labelled, checks>>

\* DELIVERY_PROJECT_STATUSES, RELEASING_PROJECT, and those of OPEN_PROJECT_STATUSES after the hand-off.
Delivering == {"IN_PRODUCTION", "UNDER_REVISION"}
Releasing == Delivering \cup {"COMPLETED"}
Open == {"IN_PRODUCTION"}
Reviewed == {"APPROVED", "LABELED", "COMPLIANCE_PASSED"}
Releasable == {"COMPLIANCE_PASSED", "UNPUBLISHED", "SCHEDULED"}
Out == {"PUBLISHED", "UNPUBLISHED"}
EpisodeStatus ==
    {"AWAITING_MEDIA", "IN_REVIEW", "CHANGES_REQUESTED", "SCHEDULED"} \cup Reviewed \cup Out

Row == [status : EpisodeStatus, approved : 0..MaxVersions, priced : BOOLEAN, revising : BOOLEAN]
Publication == [episode : Episodes, asset : Versions, at : {"now", "later", "due"},
                published : BOOLEAN, taken : BOOLEAN]

Idle == [op |-> "idle"]
\* What a request read: the status of its episode, where moveEpisode compares it ("any" where
\* nothing does), a version, or a publication.
Compared == {"schedule", "remove", "withdraw"}
Reading == [op : {"approve", "changes", "label", "comply", "price", "schedule", "scheduling",
                  "release", "releasing", "out", "revise", "remove", "withdraw"},
            e : Episodes, status : EpisodeStatus \cup {"any"}, v : 0..MaxVersions,
            p : Nat, last : BOOLEAN]
Cancelling == [op |-> "cancel"]

Pending(p) == ~publication[p].published /\ ~publication[p].taken
Live(p) == publication[p].published /\ ~publication[p].taken
PendingOf(e) == {p \in DOMAIN publication : publication[p].episode = e /\ Pending(p)}

Cleared(a) == a \in labelled /\ \A i \in Items : checks[a][i] = "PASS"

Init ==
    /\ movie \in [status : {"IN_PRODUCTION"}, described : BOOLEAN]
    /\ episode = [e \in Episodes |->
                    [status |-> "AWAITING_MEDIA", approved |-> 0, priced |-> FALSE, revising |-> FALSE]]
    /\ newest = [e \in Episodes |-> 0]
    /\ disclosed = {}
    /\ labelled = {}
    /\ checks = [a \in Assets |-> [i \in Items |-> "NONE"]]
    /\ publication = <<>>
    /\ req = [r \in Actors |-> Idle]
    /\ due = {}
    /\ failures = 0

\* Mutant: the trigger looks at the price only.
PriceGate(e, row) == row.priced /\ row.approved # 0 /\ movie.status # "CANCELLED"

\* The triggers of the database on an episode that becomes, or is, SCHEDULED or PUBLISHED.
GateOpen(e, row) ==
    /\ row.approved # 0 /\ Cleared(<<e, row.approved>>)
    /\ row.priced
    /\ movie.status # "CANCELLED"

-----------------------------------------------------------------------------
\* Requests.

Begin(r, op, e, v, p) ==
    /\ r \in Requests /\ req[r] = Idle
    /\ req' = [req EXCEPT ![r] = [op |-> op, e |-> e, v |-> v, p |-> p, last |-> FALSE,
                                  status |-> IF op \in Compared THEN episode[e].status ELSE "any"]]
    /\ UNCHANGED <<movie, episode, Media, Vetting, publication, due, failures>>

\* The transaction of a release holds the row of its episode until it commits.
Unlocked(e, r) == \A q \in Actors \ {r} : req[q].op = "out" => req[q].e # e

\* The transaction of r's operation, alone on the rows of its episode.
Transaction(r, op) ==
    /\ req[r].op = op
    /\ Unlocked(req[r].e, r)
    /\ req' = [req EXCEPT ![r] = Idle]

Abort(r) ==
    /\ req[r].op # "idle"
    /\ r = Scheduler => failures < MaxFailures
    /\ failures' = IF r = Scheduler THEN failures + 1 ELSE failures
    /\ req' = [req EXCEPT ![r] = Idle]
    /\ UNCHANGED <<movie, episode, Media, Vetting, publication, due>>

\* The studio delivers, and processing ends well (module Delivery).
Deliver(e) ==
    /\ movie.status \in Delivering
    /\ episode[e].status \in {"AWAITING_MEDIA", "IN_REVIEW", "CHANGES_REQUESTED"}
    /\ newest[e] < MaxVersions
    /\ newest' = [newest EXCEPT ![e] = @ + 1]
    /\ episode' = [episode EXCEPT ![e].status = "IN_REVIEW"]
    /\ \E commits \in Commitments :
          disclosed' = disclosed \cup IF commits THEN {<<e, newest'[e]>>} ELSE {}
    /\ UNCHANGED <<movie, Vetting, publication, req, due, failures>>

\* The Reviewer fills in or empties the texts; also once episodes are out.
Describe ==
    /\ movie.status # "CANCELLED"
    /\ movie' = [movie EXCEPT !.described = ~@]
    /\ UNCHANGED <<episode, Media, Vetting, publication, req, due, failures>>

-----------------------------------------------------------------------------
\* Review, label and compliance.

\* assertUnderReview: v is the version the episode is reviewed with.
UnderReview(e, v, allowed) ==
    /\ movie.status \in Delivering
    /\ episode[e].status \in allowed
    /\ v = IF episode[e].status = "IN_REVIEW" THEN newest[e] ELSE episode[e].approved

BeginReview(r, e, v) ==
    \/ UnderReview(e, v, {"IN_REVIEW"}) /\ Begin(r, "approve", e, v, 0)
    \/ UnderReview(e, v, {"IN_REVIEW"} \cup Reviewed) /\ Begin(r, "changes", e, v, 0)
    \/ UnderReview(e, v, Reviewed) /\ Begin(r, "label", e, v, 0)
    \/ UnderReview(e, v, {"LABELED"}) /\ Begin(r, "comply", e, v, 0)

Approve(r) == LET e == req[r].e IN
    /\ Transaction(r, "approve")
    /\ episode[e].status = "IN_REVIEW"
    /\ episode' = [episode EXCEPT ![e].status = "APPROVED", ![e].approved = req[r].v]
    /\ UNCHANGED <<movie, Media, Vetting, publication, due, failures>>

\* The guard and the write of requestChanges; three operations send a version back with it.
CanSendBack(e, v) ==
    \/ episode[e].status = "IN_REVIEW"
    \/ episode[e].status \in Reviewed \cup {"PUBLISHED"} /\ episode[e].approved = v

\* Mutant: the approved version is kept.
SentBackApproved(e) == [episode[e] EXCEPT !.status = "CHANGES_REQUESTED"]

SentBack(e) == [episode[e] EXCEPT !.status = "CHANGES_REQUESTED", !.approved = 0]

RequestChanges(r) == LET e == req[r].e IN
    /\ Transaction(r, "changes")
    /\ CanSendBack(e, req[r].v)
    /\ episode' = [episode EXCEPT ![e] = SentBack(e)]
    /\ UNCHANGED <<movie, Media, Vetting, publication, due, failures>>

\* A new label: the checks judged the previous one and have to be run again.
ApplyLabel(r) == LET e == req[r].e  a == <<e, req[r].v>> IN
    /\ Transaction(r, "label")
    /\ episode[e].status \in Reviewed /\ episode[e].approved = req[r].v
    /\ episode' = [episode EXCEPT ![e].status = "LABELED"]
    /\ checks' = [checks EXCEPT ![a] = [i \in Items |-> IF @[i] = "NONE" THEN "NONE" ELSE "PENDING"]]
    /\ labelled' = labelled \cup {a}
    /\ UNCHANGED <<movie, Media, publication, due, failures>>

Verdicts(a, answer) == [i \in Items |->
    CASE i = "AI_LABEL_PRESENCE"    -> IF a \in labelled THEN "PASS" ELSE "FAIL"
      [] i = "DECREE_142_NOTICE"    -> answer.notice
      [] i = "CONTENT_SAFETY"       -> answer.safety
      [] i = "REAL_PERSON_LIKENESS" -> IF a \in disclosed /\ ~answer.depicts THEN "PASS" ELSE "FAIL"]

\* Mutant: failing verdicts are kept even though the episode cannot be sent back any more.
RecordAnyway(r) == LET e == req[r].e  a == <<e, req[r].v>> IN
    \E answer \in Answers :
        /\ Transaction(r, "comply")
        /\ checks' = [checks EXCEPT ![a] = Verdicts(a, answer)]
        /\ IF \E i \in Items : Verdicts(a, answer)[i] = "FAIL"
           THEN episode' = [episode EXCEPT ![e] = IF CanSendBack(e, req[r].v) THEN SentBack(e) ELSE @]
           ELSE /\ episode[e].status = "LABELED" /\ episode[e].approved = req[r].v
                /\ episode' = [episode EXCEPT ![e].status = "COMPLIANCE_PASSED"]
        /\ UNCHANGED <<movie, Media, labelled, publication, due, failures>>

\* The verdicts are recorded, and the episode moves on or goes back, or nothing of it is kept.
RunCompliance(r) == LET e == req[r].e  a == <<e, req[r].v>> IN
    \E answer \in Answers :
        /\ Transaction(r, "comply")
        /\ checks' = [checks EXCEPT ![a] = Verdicts(a, answer)]
        /\ IF \E i \in Items : Verdicts(a, answer)[i] = "FAIL"
           THEN /\ CanSendBack(e, req[r].v)
                /\ episode' = [episode EXCEPT ![e] = SentBack(e)]
           ELSE /\ episode[e].status = "LABELED" /\ episode[e].approved = req[r].v
                /\ episode' = [episode EXCEPT ![e].status = "COMPLIANCE_PASSED"]
        /\ UNCHANGED <<movie, Media, labelled, publication, due, failures>>

-----------------------------------------------------------------------------
\* Prices (their alerts are in module Pricing).  A row that is out passes the gate again.

BeginPrice(r, e) == movie.status # "CANCELLED" /\ Begin(r, "price", e, 0, 0)

SetPrice(r) == LET e == req[r].e  row == [episode[e] EXCEPT !.priced = TRUE] IN
    /\ Transaction(r, "price")
    /\ row.status \in {"SCHEDULED", "PUBLISHED"} => GateOpen(e, row)
    /\ episode' = [episode EXCEPT ![e] = row]
    /\ UNCHANGED <<movie, Media, Vetting, publication, due, failures>>

-----------------------------------------------------------------------------
\* Releases.

NothingMissing(e) ==
    /\ episode[e].approved # 0 /\ Cleared(<<e, episode[e].approved>>)
    /\ episode[e].priced
    /\ movie.described

BeginPublish(r, e) ==
    /\ movie.status \in Releasing
    /\ episode[e].status \in Releasable
    /\ NothingMissing(e)
    /\ \E op \in {"schedule", "release"} : Begin(r, op, e, episode[e].approved, 0)

Created(e, v, at) ==
    Append(publication, [episode |-> e, asset |-> v, at |-> at, published |-> FALSE, taken |-> FALSE])

\* The database only takes a new publication for the approved version.
CanCreate(e, v) == episode[e].approved = v

\* The transaction looks for the pending release, with nothing locked; if there is none it
\* inserts one, which nobody else sees until the commit (p = 0).
FindPending(r) == LET e == req[r].e
                      Found(p) == req' = [req EXCEPT ![r].p = p,
                                     ![r].op = IF @ = "schedule" THEN "scheduling" ELSE "releasing"] IN
    /\ req[r].op \in {"schedule", "release"}
    /\ \/ PendingOf(e) = {} /\ CanCreate(e, req[r].v) /\ Found(0)
       \/ \E p \in PendingOf(e) : Found(p)
    /\ UNCHANGED <<movie, episode, Media, Vetting, publication, due, failures>>

\* The update of a release that was found does not ask whether it still waits.
Schedule(r) == LET e == req[r].e  p == req[r].p IN
    /\ Transaction(r, "scheduling")
    /\ p = 0 => Len(publication) < MaxReleases
    /\ publication' = IF p = 0 THEN Created(e, req[r].v, "later")
                               ELSE [publication EXCEPT ![p].at = "later"]
    /\ episode[e].status = req[r].status /\ GateOpen(e, episode[e])
    /\ episode' = [episode EXCEPT ![e].status = "SCHEDULED"]
    /\ UNCHANGED <<movie, Media, Vetting, due, failures>>

\* completeIfAllPublished, as the transaction of e's release sees the other episodes.
OthersOut(e) == \A f \in Episodes \ {e} : episode[f].status \in Out

\* The transaction up to its commit: p is the pending publication, or 0 for a new one.  The
\* status of the episode is read again, and only the gate of the database judges it.
StartRelease(r, e, v, p) ==
    /\ Unlocked(e, r)
    /\ p = 0 => Len(publication) < MaxReleases
    /\ movie.status \in Releasing /\ GateOpen(e, episode[e])
    /\ req' = [req EXCEPT ![r] = [op |-> "out", e |-> e, status |-> "any",
                                  v |-> v, p |-> p, last |-> OthersOut(e)]]
    /\ UNCHANGED <<movie, episode, Media, Vetting, publication, failures>>

\* Mutant: release does not ask whether the publication still waits.
ReleaseAnyway(r) ==
    /\ req[r].op = "releasing"
    /\ StartRelease(r, req[r].e, req[r].v, req[r].p)
    /\ UNCHANGED due

\* A release that was found has to be pending still.
ReleaseNow(r) ==
    /\ req[r].op = "releasing"
    /\ req[r].p # 0 => Pending(req[r].p)
    /\ StartRelease(r, req[r].e, req[r].v, req[r].p)
    /\ UNCHANGED due

\* Mutant: a fixed episode still counts as under revision once it is out.
StillRevising(r) == LET e == req[r].e  p == req[r].p IN
    /\ Transaction(r, "out")
    /\ publication' =
          IF p = 0 THEN [Created(e, req[r].v, "now") EXCEPT ![Len(publication) + 1].published = TRUE]
          ELSE [publication EXCEPT ![p].published = TRUE]
    /\ episode' = [episode EXCEPT ![e].status = "PUBLISHED"]
    /\ movie' = IF req[r].last /\ movie.status \in Delivering THEN [movie EXCEPT !.status = "COMPLETED"]
                ELSE movie
    /\ UNCHANGED <<Media, Vetting, due, failures>>

CommitRelease(r) == LET e == req[r].e  p == req[r].p IN
    /\ Transaction(r, "out")
    /\ publication' =
          IF p = 0 THEN [Created(e, req[r].v, "now") EXCEPT ![Len(publication) + 1].published = TRUE]
          ELSE [publication EXCEPT ![p].published = TRUE, ![p].at = IF r = Scheduler THEN @ ELSE "now"]
    /\ episode' = [episode EXCEPT ![e].status = "PUBLISHED", ![e].revising = FALSE]
    /\ movie' = IF req[r].last /\ movie.status \in Delivering THEN [movie EXCEPT !.status = "COMPLETED"]
                ELSE movie
    /\ UNCHANGED <<Media, Vetting, due, failures>>

\* A live release is taken down to be fixed or for good; a pending one is withdrawn.
BeginUnpublish(r, p) == LET e == publication[p].episode IN
    \/ /\ Live(p) /\ episode[e].status = "PUBLISHED"
       /\ \E op \in {"revise", "remove"} : Begin(r, op, e, publication[p].asset, p)
    \/ /\ Pending(p) /\ episode[e].status = "SCHEDULED"
       /\ Begin(r, "withdraw", e, publication[p].asset, p)

TakenDown(p) == [publication EXCEPT ![p].taken = TRUE]

\* sendBack: the version is sent back, and a completed movie is under revision again.
Revise(r) == LET e == req[r].e  p == req[r].p IN
    /\ Transaction(r, "revise")
    /\ Live(p) /\ publication' = TakenDown(p)
    /\ CanSendBack(e, req[r].v)
    /\ episode' = [episode EXCEPT ![e] = [SentBack(e) EXCEPT !.revising = TRUE]]
    /\ movie' = [movie EXCEPT !.status = IF @ = "COMPLETED" THEN "UNDER_REVISION" ELSE @]
    /\ UNCHANGED <<Media, Vetting, due, failures>>

\* Mutant: the release is taken down and the episode left as it is.
RemoveRelease(r) == LET p == req[r].p IN
    /\ Transaction(r, "remove")
    /\ Live(p) /\ publication' = TakenDown(p)
    /\ UNCHANGED <<movie, episode, Media, Vetting, due, failures>>

\* For good: members are paid back in the same transaction (module Purchase).
Remove(r) == LET e == req[r].e  p == req[r].p IN
    /\ Transaction(r, "remove")
    /\ Live(p) /\ publication' = TakenDown(p)
    /\ episode[e].status = req[r].status
    /\ episode' = [episode EXCEPT ![e].status = "UNPUBLISHED"]
    /\ UNCHANGED <<movie, Media, Vetting, due, failures>>

Withdraw(r) == LET e == req[r].e  p == req[r].p IN
    /\ Transaction(r, "withdraw")
    /\ Pending(p) /\ publication' = TakenDown(p)
    /\ episode[e].status = req[r].status
    /\ episode' = [episode EXCEPT ![e].status = "COMPLIANCE_PASSED"]
    /\ UNCHANGED <<movie, Media, Vetting, due, failures>>

-----------------------------------------------------------------------------
\* The project is cancelled while nothing of it was ever published.

BeginCancel(r) ==
    /\ req[r] = Idle /\ movie.status \in Open
    /\ \A p \in DOMAIN publication : ~publication[p].published
    /\ req' = [req EXCEPT ![r] = Cancelling]
    /\ UNCHANGED <<movie, episode, Media, Vetting, publication, due, failures>>

\* Withdraws the releases still scheduled; it waits for the rows a release under way holds.
Cancel(r) ==
    /\ req[r] = Cancelling /\ movie.status \in Open
    /\ \A q \in Actors : req[q].op = "out" =>
          req[q].p = 0 /\ episode[req[q].e].status # "SCHEDULED"
    /\ movie' = [movie EXCEPT !.status = "CANCELLED"]
    /\ publication' = [p \in DOMAIN publication |->
                         [publication[p] EXCEPT !.taken = @ \/ ~publication[p].published]]
    /\ episode' = [e \in Episodes |->
                     [episode[e] EXCEPT !.status = IF @ = "SCHEDULED" THEN "COMPLIANCE_PASSED" ELSE @]]
    /\ req' = [req EXCEPT ![r] = Idle]
    /\ UNCHANGED <<Media, Vetting, due, failures>>

-----------------------------------------------------------------------------
\* The scheduler.

TimePasses(p) ==
    /\ Pending(p) /\ publication[p].at = "later"
    /\ publication' = [publication EXCEPT ![p].at = "due"]
    /\ UNCHANGED <<movie, episode, Media, Vetting, req, due, failures>>

IsDue(p) == Pending(p) /\ publication[p].at = "due"

PublishDue ==
    /\ due = {} /\ req[Scheduler] = Idle
    /\ due' = {p \in DOMAIN publication : IsDue(p)}
    /\ due' # {}
    /\ UNCHANGED <<movie, episode, Media, Vetting, publication, req, failures>>

\* Each in a transaction of its own; one that cannot go out is logged and left for the next run.
ReleaseDue == \E p \in due : LET e == publication[p].episode IN
    /\ req[Scheduler] = Idle /\ due' = due \ {p}
    /\ \/ Pending(p) /\ StartRelease(Scheduler, e, publication[p].asset, p)
       \/ /\ ~Pending(p) \/ movie.status \notin Releasing \/ ~GateOpen(e, episode[e])
          /\ UNCHANGED <<movie, episode, Media, Vetting, publication, req, failures>>

-----------------------------------------------------------------------------
Decide(r) ==
    \/ Approve(r) \/ RequestChanges(r) \/ ApplyLabel(r) \/ RunCompliance(r)
    \/ SetPrice(r)
    \/ FindPending(r) \/ Schedule(r) \/ ReleaseNow(r) \/ Revise(r) \/ Remove(r) \/ Withdraw(r) \/ Cancel(r)

Next ==
    \/ \E e \in Episodes : Deliver(e)
    \/ Describe
    \/ \E r \in Requests, e \in Episodes :
          \/ \E v \in Versions : BeginReview(r, e, v)
          \/ BeginPrice(r, e)
          \/ BeginPublish(r, e)
    \/ \E r \in Requests :
          \/ \E p \in DOMAIN publication : BeginUnpublish(r, p)
          \/ BeginCancel(r)
          \/ Decide(r)
    \/ \E r \in Actors : CommitRelease(r) \/ Abort(r)
    \/ \E p \in DOMAIN publication : TimePasses(p)
    \/ PublishDue \/ ReleaseDue

Spec == Init /\ [][Next]_vars

-----------------------------------------------------------------------------
(* Types; and an episode has an approved version exactly from its approval  *)
(* until it is sent back, whatever requests decide on older readings.       *)
TypeOK ==
    /\ movie \in [status : Releasing \cup {"CANCELLED"}, described : BOOLEAN]
    /\ episode \in [Episodes -> Row]
    /\ \A e \in Episodes :
          episode[e].approved # 0 <=> episode[e].status \in Reviewed \cup {"SCHEDULED"} \cup Out
    /\ newest \in [Episodes -> 0..MaxVersions]
    /\ disclosed \subseteq Assets /\ labelled \subseteq Assets
    /\ checks \in [Assets -> [Items -> {"NONE", "PENDING", "PASS", "FAIL"}]]
    /\ publication \in Seq(Publication)
    /\ req \in [Actors -> Reading \cup {Idle, Cancelling}]
    /\ due \subseteq DOMAIN publication
    /\ failures \in 0..MaxFailures

\* What members can watch, and what is vetted for them.
Gate == INSTANCE ReleaseGate WITH
    shown <- [e \in Episodes |-> IF episode[e].status = "PUBLISHED" THEN episode[e].approved ELSE 0],
    vetted <- {a \in Assets : Cleared(a)}

(* BR-14, BR-19: members only ever see one version that was vetted before,  *)
(* through any race of reviews, labels, checks, releases and take-downs.    *)
Gated == Gate!Spec

(* A scheduled or published episode keeps its label, its four passed checks *)
(* and its price: the triggers only look when the episode row is written,   *)
(* and labels and checks are rows of their own.                             *)
NothingUnvettedOut == \A e \in Episodes :
    episode[e].status \in {"SCHEDULED", "PUBLISHED"} =>
        Cleared(<<e, episode[e].approved>>) /\ episode[e].priced

(* A published episode has a release that a take-down can name.             *)
OutIsLive == \A e \in Episodes : episode[e].status = "PUBLISHED" =>
    \E p \in DOMAIN publication : publication[p].episode = e /\ Live(p)

(* BR-56: an episode shown as under maintenance is not out.                 *)
RevisingIsNotOut == \A e \in Episodes : episode[e].revising => episode[e].status # "PUBLISHED"

(* A release that was withdrawn never goes out, though a request had found  *)
(* it, or the scheduler had it in its batch, before it was withdrawn; and   *)
(* what was taken down, or went out, stays recorded as that.                *)
WithdrawnStaysIn == [][\A p \in DOMAIN publication :
    /\ publication[p].taken => publication'[p].taken
    /\ publication[p].published => publication'[p].published
    /\ publication[p].taken /\ ~publication[p].published => ~publication'[p].published]_publication

(* Whatever requests and the scheduler decide on older readings, the status *)
(* of an episode that is out is borne out by its releases, and none of them *)
(* goes out once it was withdrawn.                                          *)
StatusHasItsRelease == [](OutIsLive /\ RevisingIsNotOut) /\ WithdrawnStaysIn

-----------------------------------------------------------------------------
\* What makes these inductive.

\* What a request works on was there when it was read, and stays what it was.
RequestsHold == \A r \in Actors :
    /\ req[r].op \in {"approve", "comply", "schedule", "scheduling", "release", "releasing", "out"} =>
          req[r].v # 0
    /\ req[r].op = "remove" => req[r].status = "PUBLISHED"
    /\ req[r].op = "withdraw" => req[r].status = "SCHEDULED"
    /\ req[r].op \in {"revise", "remove", "withdraw"} =>
          req[r].p \in DOMAIN publication /\ publication[req[r].p].episode = req[r].e
    /\ req[r].op \in {"scheduling", "releasing"} /\ req[r].p # 0 =>
          req[r].p \in DOMAIN publication /\ publication[req[r].p].episode = req[r].e

\* A release under way holds the row of its episode: what let it start still holds.
ReleasesHold == \A r \in Actors : req[r].op = "out" => LET e == req[r].e  p == req[r].p IN
    /\ episode[e].approved # 0 /\ Cleared(<<e, episode[e].approved>>) /\ episode[e].priced
    /\ p # 0 => p \in PendingOf(e)
    /\ \A q \in Actors \ {r} : req[q].op = "out" => req[q].e # e

\* An episode and its releases.
Story(e) ==
    /\ episode[e].status \in {"SCHEDULED", "PUBLISHED"} =>
          Cleared(<<e, episode[e].approved>>) /\ episode[e].priced
    /\ episode[e].status = "PUBLISHED" =>
          \E p \in DOMAIN publication : publication[p].episode = e /\ Live(p)
    /\ episode[e].revising => episode[e].status # "PUBLISHED"

IInv == TypeOK /\ RequestsHold /\ ReleasesHold /\ \A e \in Episodes : Story(e)

-----------------------------------------------------------------------------
\* What the repository says and the code does not keep; each has a run of its own.

(* "Until it is scheduled, a reviewed episode can still be sent back": a    *)
(* release that is live has its episode out.                                *)
LiveIsOut == \A p \in DOMAIN publication :
    Live(p) => episode[publication[p].episode].status = "PUBLISHED"

(* "The scheduled release of an episode not out yet, if any": a release     *)
(* that waits belongs to a scheduled episode and is of its version.         *)
PendingIsScheduled == \A p \in DOMAIN publication : Pending(p) =>
    LET row == episode[publication[p].episode] IN
        row.status = "SCHEDULED" /\ row.approved = publication[p].asset

(* The same comment: a scheduled episode has one release to wait for.       *)
ScheduledHasOne == \A e \in Episodes :
    episode[e].status = "SCHEDULED" => Cardinality(PendingOf(e)) = 1

(* An episode that is out is not releasable: it has one live release.       *)
OneLive == \A e \in Episodes :
    Cardinality({p \in DOMAIN publication : publication[p].episode = e /\ Live(p)}) <= 1

(* BR-38: the project is complete once every episode is out.                *)
AllOutCompletes == (\A e \in Episodes : episode[e].status \in Out) => movie.status \notin Delivering

(* The scheduler releases what is due.                                      *)
NothingEarly == [][\A p \in DOMAIN publication :
    publication'[p].published /\ ~publication[p].published =>
        publication[p].at # "later" \/ publication'[p].at = "now"]_vars

(* The synopsis and the age rating are there before an episode is out.      *)
DescribedWhenReleased == [][\A e \in Episodes :
    episode'[e].status = "PUBLISHED" /\ episode[e].status # "PUBLISHED" => movie.described]_vars
=============================================================================
