------------------------------- MODULE Delivery -------------------------------
(***************************************************************************)
(* The deliveries of one episode: each is a new version, processed by a    *)
(* background job, and the episode waits in PROCESSING until the version   *)
(* is READY and reviewed, or FAILED and given back.                        *)
(*                                                                         *)
(* A request (deliver, retry, review) reads the episode first and decides  *)
(* in a transaction later; a delivery is queued after its transaction.  A  *)
(* worker's attempt is several statements: what it read, one or two        *)
(* pipeline steps, and the outcome.  The outcomes are transactions of      *)
(* two: what they read, then the writes, whose row locks make them one     *)
(* step.                                                                   *)
(*                                                                         *)
(* With background the queue is Redis: adding a job may time out, a worker *)
(* may stall or die, and its job is handed out again.  Otherwise a job     *)
(* lives in the process, and a restart fails what was under way.           *)
(***************************************************************************)
EXTENDS Naturals, Sequences, FiniteSets, FiniteSetsExt, Functions

CONSTANTS
    Requests,     \* concurrent requests of the studio, the Creator and the Reviewer
    Operations,   \* the requests a run looks at
    Workers,      \* jobs processed at a time
    Deployments,  \* whether REDIS_URL is set: the values a run looks at
    Attempts,     \* tries of a job before it is given up
    MaxVersions,  \* bound: deliveries
    MaxRetries,   \* bound: deliveries processed again
    MaxStrays,    \* bound: stalled attempts and jobs Redis does not acknowledge
    MaxCrashes,   \* bound: requests and workers that die, with Redis
    MaxRestarts   \* bound: processes that die, without Redis

Versions == 1..MaxVersions

ASSUME ConstantsAssumption ==
    /\ Operations \subseteq {"submit", "retry", "approve", "changes"}
    /\ Deployments \subseteq BOOLEAN
    /\ Attempts \in Nat \ {0}
    /\ {MaxVersions, MaxRetries, MaxStrays, MaxCrashes, MaxRestarts} \subseteq Nat

VARIABLES
    status,      \* episodes.status; REVIEWED is APPROVED and what follows it
    approved,    \* episodes.approved_media_asset_id, 0 when null
    assets,      \* media_assets: a version is the index
    open,        \* the project still takes deliveries
    jobs,        \* jobs that wait for a worker
    worker,      \* the attempt each worker makes
    request,     \* what each request has read
    background,  \* jobs live in Redis
    faults       \* how often each bounded thing has happened

vars == <<status, approved, assets, open, jobs, worker, request, background, faults>>

Episode == <<status, approved>>
Queue == <<jobs, worker>>
World == <<open, background>>
Fault == {"retry", "stray", "crash", "restart"}

EpisodeStatus == {"AWAITING_MEDIA", "PROCESSING", "IN_REVIEW", "CHANGES_REQUESTED", "REVIEWED"}
IngestStatus == {"PENDING", "WORKING", "READY", "FAILED", "SUPERSEDED"}
DONE == {"READY", "FAILED", "SUPERSEDED"}
SUBMITTABLE == {"AWAITING_MEDIA", "IN_REVIEW", "CHANGES_REQUESTED"}

\* The verdict is the decision of the last content review of the version.
Asset == [ingest : IngestStatus, verdict : {"NONE", "APPROVED", "CHANGES_REQUESTED"}]

Job == [version : Versions, id : 0..MaxRetries, tries : 0..(Attempts - 1)]
Request == [at : {"submit", "retry", "relock", "queue", "unqueued", "fail", "approve", "changes"},
            version : 0..MaxVersions]
\* owns: the queue still counts on this attempt.
Attempt == [job : Job, at : {"read", "step", "laststep", "unready", "ready", "unfit", "fail"},
            owns : BOOLEAN]

Free == [at |-> "free", version |-> 0]
Resting == [at |-> "resting"]

Latest == Len(assets)
Done(v) == assets[v].ingest \in DONE
ReadyVersions == {v \in DOMAIN assets : assets[v].ingest = "READY"}
Count(fault) == faults' = [faults EXCEPT ![fault] = @ + 1]

-----------------------------------------------------------------------------
(* Outcomes of a version.                                                   *)

WithIngest(v, ingest) == assets' = [assets EXCEPT ![v].ingest = ingest]

\* Mutant: the last ready version is reviewed again, whatever was said of it.
BackToReview(versions) ==
    IF ReadyVersions \cap versions = {} THEN "AWAITING_MEDIA" ELSE "IN_REVIEW"

\* Where the episode stands with the READY versions among these.
StatusWithoutPending(versions) ==
    LET ready == ReadyVersions \cap versions
    IN  IF ready = {} THEN "AWAITING_MEDIA"
        ELSE IF assets[Max(ready)].verdict = "CHANGES_REQUESTED" THEN "CHANGES_REQUESTED"
        ELSE "IN_REVIEW"

\* Mutant: a failed delivery keeps the episode.
FailKeeps(v) ==
    WithIngest(v, "FAILED") /\ UNCHANGED Episode

\* fail, after it read a version that was not done: the write is not guarded.
Fail(v) ==
    /\ WithIngest(v, "FAILED")
    /\ status' = IF v = Latest /\ status = "PROCESSING"
                 THEN StatusWithoutPending(DOMAIN assets \ {v}) ELSE status
    /\ UNCHANGED approved

\* Mutant: older versions stay READY.
ReadyBeside(v) ==
    /\ WithIngest(v, "READY")
    /\ status' = IF status = "PROCESSING" THEN "IN_REVIEW" ELSE status
    /\ UNCHANGED approved

\* ready, once the version is the newest and not done.
Ready(v) ==
    /\ assets' = [w \in DOMAIN assets |->
                    IF w = v THEN [assets[w] EXCEPT !.ingest = "READY"]
                    ELSE IF w < v /\ assets[w].ingest = "READY"
                         THEN [assets[w] EXCEPT !.ingest = "SUPERSEDED"]
                         ELSE assets[w]]
    /\ status' = IF status = "PROCESSING" THEN "IN_REVIEW" ELSE status
    /\ UNCHANGED approved

-----------------------------------------------------------------------------
(* What the studio reads of the episode through its link.                   *)

\* LATEST_DELIVERY: the newest version, and whether changes were asked of it.
LatestDelivery ==
    [version |-> Latest, asked |-> Latest > 0 /\ assets[Latest].verdict = "CHANGES_REQUESTED"]

\* changesRequested: the comments shown, only while the studio has something to fix.
ChangesShown == status = "CHANGES_REQUESTED" /\ LatestDelivery.asked

-----------------------------------------------------------------------------
Init ==
    /\ status = "AWAITING_MEDIA"
    /\ approved = 0
    /\ assets = <<>>
    /\ open = TRUE
    /\ jobs = {}
    /\ worker = [w \in Workers |-> Resting]
    /\ request = [r \in Requests |-> Free]
    /\ background \in Deployments
    /\ faults = [f \in Fault |-> 0]

-----------------------------------------------------------------------------
(* Requests.                                                                *)

Goes(r, at, v) == request' = [request EXCEPT ![r] = [at |-> at, version |-> v]]
Ends(r) == request' = [request EXCEPT ![r] = Free]

UnderReview(v, decision) ==
    \/ status = "IN_REVIEW" /\ assets[v].ingest = "READY"
    \/ decision = "changes" /\ status = "REVIEWED" /\ approved = v

\* A request is accepted on what it reads.
Begin(r) ==
    /\ request[r] = Free /\ open
    /\ \/ /\ "submit" \in Operations /\ status \in SUBMITTABLE /\ Latest < MaxVersions
          /\ Goes(r, "submit", 0)
       \/ \E v \in DOMAIN assets :
            \/ /\ "retry" \in Operations /\ faults["retry"] < MaxRetries
               /\ assets[v].ingest = "FAILED" /\ status \in SUBMITTABLE
               /\ Goes(r, "retry", v)
            \/ \E decision \in {"approve", "changes"} \cap Operations :
                 UnderReview(v, decision) /\ Goes(r, decision, v)
    /\ UNCHANGED <<Episode, assets, World, Queue, faults>>

\* createVersion: the guarded update makes one of two deliveries fail.
CreateVersion(r) ==
    /\ request[r].at = "submit" /\ status \in SUBMITTABLE /\ Latest < MaxVersions
    /\ status' = "PROCESSING"
    /\ assets' = Append(assets, [ingest |-> "PENDING", verdict |-> "NONE"])
    /\ Goes(r, "queue", Latest + 1)
    /\ UNCHANGED <<approved, World, Queue, faults>>

\* retry looks for a newer version before it locks the episode.
CheckLatest(r) ==
    /\ request[r].at = "retry" /\ request[r].version = Latest
    /\ Goes(r, "relock", Latest)
    /\ UNCHANGED <<Episode, assets, World, Queue, faults>>

Reopen(r) ==
    /\ request[r].at = "relock" /\ status \in SUBMITTABLE /\ faults["retry"] < MaxRetries
    /\ status' = "PROCESSING"
    /\ WithIngest(request[r].version, "PENDING")
    /\ Goes(r, "queue", request[r].version)
    /\ Count("retry")
    /\ UNCHANGED <<approved, World, Queue>>

NewJob(v) == [version |-> v, id |-> faults["retry"], tries |-> 0]

Enqueue(r) ==
    /\ request[r].at = "queue"
    /\ jobs' = jobs \cup {NewJob(request[r].version)}
    /\ Ends(r)
    /\ UNCHANGED <<Episode, assets, World, worker, faults>>

\* Redis does not answer in time; it may have the job all the same.
EnqueueTimesOut(r) ==
    /\ background /\ request[r].at = "queue" /\ faults["stray"] < MaxStrays
    /\ jobs' \in {jobs, jobs \cup {NewJob(request[r].version)}}
    /\ Goes(r, "unqueued", request[r].version)
    /\ Count("stray")
    /\ UNCHANGED <<Episode, assets, World, worker>>

FailUnqueued(r) ==
    \/ /\ request[r].at = "unqueued"
       /\ IF Done(request[r].version) THEN Ends(r) ELSE Goes(r, "fail", request[r].version)
       /\ UNCHANGED <<Episode, assets, World, Queue, faults>>
    \/ /\ request[r].at = "fail"
       /\ Fail(request[r].version)
       /\ Ends(r)
       /\ UNCHANGED <<World, Queue, faults>>

Verdict(v, decision) == assets' = [assets EXCEPT ![v].verdict = decision]

\* Mutant: an approval names no version.
ApproveNothing(r) ==
    /\ request[r].at = "approve" /\ status = "IN_REVIEW"
    /\ status' = "REVIEWED"
    /\ Verdict(request[r].version, "APPROVED")
    /\ Ends(r)
    /\ UNCHANGED <<approved, World, Queue, faults>>

Approve(r) ==
    /\ request[r].at = "approve" /\ status = "IN_REVIEW"
    /\ status' = "REVIEWED" /\ approved' = request[r].version
    /\ Verdict(request[r].version, "APPROVED")
    /\ Ends(r)
    /\ UNCHANGED <<World, Queue, faults>>

RequestChanges(r) ==
    /\ request[r].at = "changes"
    /\ \/ status = "IN_REVIEW"
       \/ status = "REVIEWED" /\ approved = request[r].version
    /\ status' = "CHANGES_REQUESTED" /\ approved' = 0
    /\ Verdict(request[r].version, "CHANGES_REQUESTED")
    /\ Ends(r)
    /\ UNCHANGED <<World, Queue, faults>>

\* The transaction finds that the episode changed meanwhile.
Refused(r) ==
    /\ \/ request[r].at \in {"submit", "relock"} /\ status \notin SUBMITTABLE
       \/ request[r].at = "submit" /\ Latest = MaxVersions
       \/ request[r].at = "relock" /\ faults["retry"] = MaxRetries
       \/ request[r].at = "retry" /\ request[r].version # Latest
       \/ request[r].at \in {"approve", "changes"} /\ status # "IN_REVIEW"
            /\ ~(request[r].at = "changes" /\ status = "REVIEWED" /\ approved = request[r].version)
    /\ Ends(r)
    /\ UNCHANGED <<Episode, assets, World, Queue, faults>>

\* The process that serves the request dies.
RequestDies(r) ==
    /\ background /\ request[r] # Free /\ faults["crash"] < MaxCrashes
    /\ Ends(r) /\ Count("crash")
    /\ UNCHANGED <<Episode, assets, World, Queue>>

CancelProject ==
    /\ open /\ open' = FALSE
    /\ UNCHANGED <<Episode, assets, Queue, request, background, faults>>

-----------------------------------------------------------------------------
(* Attempts.                                                                *)

At(w) == worker[w].at
On(w) == worker[w].job.version
Moves(w, at) == worker' = [worker EXCEPT ![w].at = at]
Rests(w) == worker' = [worker EXCEPT ![w] = Resting]

\* process reads the version: a job whose version is done has nothing to do.
Take(w) ==
    /\ worker[w] = Resting
    /\ \E job \in jobs :
         /\ jobs' = jobs \ {job}
         /\ IF Done(job.version) THEN UNCHANGED worker
            ELSE worker' = [worker EXCEPT ![w] = [job |-> job, at |-> "read", owns |-> TRUE]]
    /\ UNCHANGED <<Episode, assets, World, request, faults>>

\* The update of the step's status is not guarded. An import has two steps.
Step(w) ==
    /\ At(w) \in {"read", "step"}
    /\ WithIngest(On(w), "WORKING")
    /\ \/ At(w) = "read" /\ \E at \in {"step", "laststep"} : Moves(w, at)
       \/ At(w) = "step" /\ Moves(w, "laststep")
    /\ UNCHANGED <<Episode, jobs, World, request, faults>>

\* The work succeeded: a newer version supersedes this one.
ReadyOrSuperseded(w) ==
    /\ At(w) = "laststep"
    /\ IF Latest > On(w)
       THEN /\ IF Done(On(w)) THEN UNCHANGED assets ELSE WithIngest(On(w), "SUPERSEDED")
            /\ Rests(w)
       ELSE Moves(w, "ready") /\ UNCHANGED assets
    /\ UNCHANGED <<Episode, jobs, World, request, faults>>

BecomesReady(w) ==
    /\ At(w) = "ready"
    /\ IF Done(On(w)) THEN UNCHANGED <<Episode, assets>> ELSE Ready(On(w))
    /\ Rests(w)
    /\ UNCHANGED <<jobs, World, request, faults>>

\* What was delivered can never be processed: failed at once.
Reject(w) ==
    /\ At(w) \in {"step", "laststep"}
    /\ Moves(w, "unfit")
    /\ UNCHANGED <<Episode, assets, jobs, World, request, faults>>

\* Mutant: the last try ends without onFailed.
ThrowForgets(w) ==
    /\ At(w) \in {"step", "laststep"}
    /\ Rests(w)
    /\ LET job == worker[w].job
       IN  jobs' = IF worker[w].owns /\ job.tries + 1 < Attempts
                   THEN jobs \cup {[job EXCEPT !.tries = @ + 1]} ELSE jobs
    /\ UNCHANGED <<Episode, assets, World, request, faults>>

\* A transient error: the queue tries again, and calls onFailed after the last
\* try. An attempt that lost its job reports to nobody.
Throw(w) ==
    /\ At(w) \in {"step", "laststep"}
    /\ LET job == worker[w].job
       IN  IF ~worker[w].owns THEN Rests(w) /\ UNCHANGED jobs
           ELSE IF job.tries + 1 < Attempts
           THEN Rests(w) /\ jobs' = jobs \cup {[job EXCEPT !.tries = @ + 1]}
           ELSE /\ worker' = [worker EXCEPT ![w].at = "unfit", ![w].owns = FALSE]
                /\ UNCHANGED jobs
    /\ UNCHANGED <<Episode, assets, World, request, faults>>

FailAttempt(w) ==
    \/ /\ At(w) = "unfit"
       /\ IF Done(On(w)) THEN Rests(w) ELSE Moves(w, "fail")
       /\ UNCHANGED <<Episode, assets, jobs, World, request, faults>>
    \/ /\ At(w) = "fail"
       /\ Fail(On(w))
       /\ Rests(w)
       /\ UNCHANGED <<jobs, World, request, faults>>

\* The worker's lock ran out: the queue hands the job out again while this
\* attempt goes on.
Stall(w) ==
    /\ background /\ worker[w] # Resting /\ faults["stray"] < MaxStrays
    /\ worker[w].owns
    /\ worker' = [worker EXCEPT ![w].owns = FALSE]
    /\ jobs' = jobs \cup {worker[w].job}
    /\ Count("stray")
    /\ UNCHANGED <<Episode, assets, World, request>>

WorkerDies(w) ==
    /\ background /\ worker[w] # Resting /\ faults["crash"] < MaxCrashes
    /\ Rests(w)
    /\ jobs' = IF worker[w].owns THEN jobs \cup {worker[w].job} ELSE jobs
    /\ Count("crash")
    /\ UNCHANGED <<Episode, assets, World, request>>

\* Without Redis: the process dies, and its start-up fails, one by one, the
\* versions that are not done.
Restart ==
    /\ ~background /\ faults["restart"] < MaxRestarts
    /\ jobs' = {}
    /\ worker' = [w \in Workers |-> Resting]
    /\ request' = [r \in Requests |-> Free]
    /\ assets' = [v \in DOMAIN assets |->
                    IF Done(v) THEN assets[v] ELSE [assets[v] EXCEPT !.ingest = "FAILED"]]
    /\ status' = IF status = "PROCESSING" /\ Latest > 0 /\ ~Done(Latest)
                 THEN StatusWithoutPending(DOMAIN assets) ELSE status
    /\ Count("restart")
    /\ UNCHANGED <<approved, World>>

-----------------------------------------------------------------------------
RequestStep(r) ==
    \/ CreateVersion(r) \/ CheckLatest(r) \/ Reopen(r) \/ Enqueue(r) \/ EnqueueTimesOut(r)
    \/ FailUnqueued(r) \/ Approve(r) \/ RequestChanges(r) \/ Refused(r)

AttemptStep(w) ==
    \/ Take(w) \/ Step(w) \/ ReadyOrSuperseded(w) \/ BecomesReady(w)
    \/ Reject(w) \/ Throw(w) \/ FailAttempt(w)

Next ==
    \/ \E r \in Requests : Begin(r) \/ RequestStep(r) \/ RequestDies(r)
    \/ \E w \in Workers : AttemptStep(w) \/ Stall(w) \/ WorkerDies(w)
    \/ CancelProject \/ Restart

Spec == Init /\ [][Next]_vars

\* A request that began is served, a worker takes jobs and finishes attempts.
FairSpec ==
    /\ Spec
    /\ \A r \in Requests : WF_vars(RequestStep(r))
    /\ \A w \in Workers : WF_vars(AttemptStep(w))

-----------------------------------------------------------------------------
(* Properties.                                                              *)

\* Types of the columns, and approved_media_asset_id names a delivery of the
\* episode exactly while it is past review.
TypeOK ==
    /\ status \in EpisodeStatus
    /\ approved \in 0..Latest /\ (approved # 0 <=> status = "REVIEWED")
    /\ assets \in Seq(Asset) /\ Latest <= MaxVersions
    /\ open \in BOOLEAN
    /\ jobs \subseteq Job
    /\ worker \in [Workers -> {Resting} \cup Attempt]
    /\ request \in [Requests -> {Free} \cup Request]
    /\ background \in BOOLEAN
    /\ faults \in [Fault -> Nat]

\* As long as no delivery is processed again, an episode waits in PROCESSING only
\* for its newest version, and only while that version is not done: whatever ends
\* a version, a stalled attempt included, gives the episode back.
ProcessingIsHeld ==
    faults["retry"] = 0 /\ status = "PROCESSING" => Latest > 0 /\ ~Done(Latest)

\* At most one version is READY, and an episode under review has one, the
\* newest of its versions that did not fail.
OneVersionToReview ==
    /\ Cardinality(ReadyVersions) <= 1
    /\ status = "IN_REVIEW" => ReadyVersions # {}
    /\ \A v \in ReadyVersions, w \in DOMAIN assets :
         w > v => assets[w].ingest # "SUPERSEDED"

\* The Reviewer is not asked again about the version that was sent back.
SentBackIsNotReviewed ==
    status = "IN_REVIEW" => \A v \in ReadyVersions : assets[v].verdict # "CHANGES_REQUESTED"

\* Review always has one version in front of it, and a new one.
VersionUnderReview == OneVersionToReview /\ SentBackIsNotReviewed

\* What is READY has reached review: the episode neither waits for a first
\* delivery nor for the version itself (media-outcome.service.ts:25).
ReadyReachesReview ==
    Latest > 0 /\ Latest \in ReadyVersions => status \notin {"AWAITING_MEDIA", "PROCESSING"}

\* A delivery that failed stays failed unless it is processed again on request
\* (media-outcome.service.ts:49).
FailedStands ==
    [][\A v \in DOMAIN assets :
         assets[v].ingest = "FAILED" /\ assets'[v].ingest # "FAILED" =>
           \E r \in Requests : request[r] = [at |-> "relock", version |-> v]]_vars

\* A version that became READY stays so until a newer one is READY
\* (media-outcome.service.ts:10).
ReadyStands ==
    [][\A v \in ReadyVersions : assets'[v].ingest \in {"READY", "SUPERSEDED"}]_vars

\* Only the newest version is processed again (media-ingest.service.ts:149).
NewestIsRetried ==
    [][\A v \in DOMAIN assets :
         assets[v].ingest = "FAILED" /\ assets'[v].ingest = "PENDING" => v = Latest]_vars

\* Only a version that is ready is approved (content-review.service.ts:141).
ApprovedIsReady ==
    [][approved' # approved /\ approved' # 0 => approved' \in ReadyVersions]_vars

\* An episode under review is sent back for what is wrong with the version
\* under review (content-review.service.ts:61).
SentBackForItsVersion ==
    [][status = "IN_REVIEW" /\ status' = "CHANGES_REQUESTED" =>
         \A v \in ReadyVersions : assets'[v].verdict = "CHANGES_REQUESTED"]_vars

\* A studio whose episode was sent back reads the changes asked of it
\* (studio-portal.service.ts:53), whatever it delivered since.
ChangesAreShown == status = "CHANGES_REQUESTED" => ChangesShown

\* An episode does not wait in PROCESSING for ever.
ProcessingEnds == status = "PROCESSING" ~> status # "PROCESSING"

-----------------------------------------------------------------------------
(* What the proofs add to the properties.                                   *)

\* What a request, a job or an attempt works on has been delivered.
VersionsKnown ==
    /\ \A r \in Requests :
         request[r].at \notin {"free", "submit"} => request[r].version \in DOMAIN assets
    /\ \A job \in jobs : job.version \in DOMAIN assets
    /\ \A w \in Workers : worker[w] # Resting => On(w) \in DOMAIN assets

\* Nothing was processed again, no attempt stalled, no job was left unacknowledged.
Undisturbed == faults["retry"] = 0 /\ faults["stray"] = 0

Queueing == {r \in Requests : request[r].at = "queue"}
Working == {w \in Workers : worker[w] # Resting}

\* A version that is not done has one request, job or attempt at most, and these
\* work on nothing else.
OneAtWork ==
    /\ \A r \in Queueing : ~Done(request[r].version)
    /\ \A job \in jobs : ~Done(job.version)
    /\ \A w \in Working : ~Done(On(w))
    /\ \A q, r \in Queueing : q = r
    /\ \A j, k \in jobs : j = k
    /\ \A u, w \in Working : u = w
    /\ Queueing # {} => jobs = {} /\ Working = {}
    /\ jobs # {} => Working = {}

\* A version that is not done is the newest, the episode waits for it, and nobody
\* has judged it.
NewestWaits == \A v \in DOMAIN assets :
    ~Done(v) => v = Latest /\ status = "PROCESSING" /\ assets[v].verdict = "NONE"

\* A review decides on a version that is done, and fails no delivery.
ReviewsTheDone ==
    /\ approved # 0 => Done(approved)
    /\ \A r \in Requests :
         /\ request[r].at \notin {"unqueued", "fail"}
         /\ request[r].at \in {"approve", "changes"} => Done(request[r].version)

OneReady == \A v, w \in ReadyVersions : v = w

\* No version overtakes another.
InOrder == OneAtWork /\ NewestWaits /\ ReviewsTheDone /\ OneReady /\ VersionUnderReview

InTurn == Undisturbed => InOrder

IInv ==
    /\ TypeOK
    /\ faults["retry"] <= MaxRetries
    /\ VersionsKnown
    /\ ProcessingIsHeld
=============================================================================
