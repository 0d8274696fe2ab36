---------------------------- MODULE DeliveryProofs ----------------------------
(***************************************************************************)
(* Proofs about Delivery, for any number of requests, workers, versions    *)
(* and faults, with and without Redis: IInv is inductive, so the rows keep *)
(* their types and an episode in PROCESSING waits for a version that       *)
(* something can still end.  As long as no attempt is retried over a       *)
(* newer version and nothing stray is queued, InOrder is inductive too:    *)
(* versions are worked at one at a time and the one that is ready is the   *)
(* one under review.                                                       *)
(***************************************************************************)
EXTENDS Delivery, FiniteSetTheorems, TLAPS

-----------------------------------------------------------------------------
(* Writes to the versions.                                                  *)

\* Versions with the same numbers as before are still a sequence of the same length.
LEMMA SameVersions ==
    ASSUME assets \in Seq(Asset), assets' \in [DOMAIN assets -> Asset]
    PROVE  assets' \in Seq(Asset) /\ Latest' = Latest /\ DOMAIN assets' = DOMAIN assets
<1>1. Len(assets) \in Nat /\ DOMAIN assets = 1..Len(assets)
  OBVIOUS
<1>2. assets' \in [1..Len(assets) -> Asset]
  BY <1>1
<1>3. assets' \in Seq(Asset) /\ Len(assets') = Len(assets)
  BY <1>1, <1>2
<1> QED BY <1>3 DEF Latest

\* Writing the ingest status of a version changes nothing else.
LEMMA IngestWritten ==
    ASSUME assets \in Seq(Asset), NEW v \in DOMAIN assets, NEW ingest \in IngestStatus,
           WithIngest(v, ingest)
    PROVE  /\ assets' \in Seq(Asset) /\ Latest' = Latest /\ DOMAIN assets' = DOMAIN assets
           /\ assets'[v].ingest = ingest /\ assets'[v].verdict = assets[v].verdict
           /\ \A u \in DOMAIN assets : u # v => assets'[u] = assets[u]
<1>1. assets \in [DOMAIN assets -> Asset] /\ assets[v] \in Asset
  OBVIOUS
<1>2. [assets[v] EXCEPT !.ingest = ingest] \in Asset
  BY <1>1 DEF Asset
<1>3. assets' = [assets EXCEPT ![v] = [assets[v] EXCEPT !.ingest = ingest]]
  BY <1>1 DEF WithIngest
<1>4. assets' \in [DOMAIN assets -> Asset]
  BY <1>1, <1>2, <1>3
<1>5. /\ assets'[v].ingest = ingest /\ assets'[v].verdict = assets[v].verdict
      /\ \A u \in DOMAIN assets : u # v => assets'[u] = assets[u]
  BY <1>1, <1>3 DEF Asset
<1> QED BY <1>4, <1>5, SameVersions

\* So does the decision of a review.
LEMMA VerdictWritten ==
    ASSUME assets \in Seq(Asset), NEW v \in DOMAIN assets,
           NEW decision \in {"APPROVED", "CHANGES_REQUESTED"},
           Verdict(v, decision)
    PROVE  /\ assets' \in Seq(Asset) /\ Latest' = Latest /\ DOMAIN assets' = DOMAIN assets
           /\ \A u \in DOMAIN assets : assets'[u].ingest = assets[u].ingest
<1>1. assets \in [DOMAIN assets -> Asset] /\ assets[v] \in Asset
  OBVIOUS
<1>2. [assets[v] EXCEPT !.verdict = decision] \in Asset
  BY <1>1 DEF Asset
<1>3. assets' = [assets EXCEPT ![v] = [assets[v] EXCEPT !.verdict = decision]]
  BY <1>1 DEF Verdict
<1>4. assets' \in [DOMAIN assets -> Asset]
  BY <1>1, <1>2, <1>3
<1>5. \A u \in DOMAIN assets : assets'[u].ingest = assets[u].ingest
  BY <1>1, <1>3 DEF Asset
<1> QED BY <1>4, <1>5, SameVersions

\* An episode that is given back does not go on processing.
LEMMA GivenBack ==
    ASSUME NEW versions
    PROVE  StatusWithoutPending(versions) \in EpisodeStatus \ {"PROCESSING", "REVIEWED"}
  BY DEF StatusWithoutPending, EpisodeStatus

\* A failed delivery gives the episode back if it is the one the episode waits for.
LEMMA FailKeepsInvariant ==
    ASSUME TypeOK, ProcessingIsHeld, NEW v \in DOMAIN assets, Fail(v), UNCHANGED faults
    PROVE  /\ assets' \in Seq(Asset) /\ Latest' = Latest /\ DOMAIN assets' = DOMAIN assets
           /\ status' \in EpisodeStatus /\ approved' = approved
           /\ status' = "REVIEWED" <=> status = "REVIEWED"
           /\ ProcessingIsHeld'
<1>1. assets \in Seq(Asset) /\ Latest \in Nat
  BY DEF TypeOK, Latest
<1>2. WithIngest(v, "FAILED") /\ approved' = approved
  BY DEF Fail
<1>3. /\ assets' \in Seq(Asset) /\ Latest' = Latest /\ DOMAIN assets' = DOMAIN assets
      /\ \A u \in DOMAIN assets : u # v => assets'[u] = assets[u]
  BY <1>1, <1>2, IngestWritten DEF IngestStatus
<1>4. /\ status' \in EpisodeStatus
      /\ status' = "REVIEWED" <=> status = "REVIEWED"
      /\ status' = "PROCESSING" => status = "PROCESSING" /\ v # Latest
  BY GivenBack DEF Fail, TypeOK, EpisodeStatus
<1>5. ProcessingIsHeld'
  <2>1. SUFFICES ASSUME faults["retry"] = 0, status' = "PROCESSING"
                 PROVE  Latest' > 0 /\ ~Done(Latest)'
    BY DEF ProcessingIsHeld
  <2>2. Latest > 0 /\ ~Done(Latest) /\ v # Latest
    BY <1>4, <2>1 DEF ProcessingIsHeld
  <2>3. Latest \in DOMAIN assets
    BY <1>1, <2>2 DEF Latest
  <2> QED BY <1>3, <2>2, <2>3 DEF Done
<1> QED
  BY <1>2, <1>3, <1>4, <1>5

\* Nothing has been delivered to begin with.
LEMMA Initially == Init => IInv
<1> SUFFICES ASSUME Init PROVE IInv
  OBVIOUS
<1>1. TypeOK
  BY ConstantsAssumption DEF Init, TypeOK, EpisodeStatus, Latest, Fault
<1>2. faults["retry"] <= MaxRetries
  BY ConstantsAssumption DEF Init, Fault
<1>3. VersionsKnown /\ ProcessingIsHeld
  BY DEF Init, VersionsKnown, ProcessingIsHeld, Free
<1> QED BY <1>1, <1>2, <1>3 DEF IInv

-----------------------------------------------------------------------------
(* Requests.                                                                *)

\* A request goes on to something it may remember: it knows versions that exist.
LEMMA RequestWritten ==
    ASSUME IInv, NEW r \in Requests, NEW q \in {Free} \cup Request,
           q.at \notin {"free", "submit"} => q.version \in DOMAIN assets,
           request' = [request EXCEPT ![r] = q]
    PROVE  /\ request' \in [Requests -> {Free} \cup Request]
           /\ \A p \in Requests :
                request'[p].at \notin {"free", "submit"} => request'[p].version \in DOMAIN assets
<1>1. request \in [Requests -> {Free} \cup Request]
  BY DEF IInv, TypeOK
<1>2. \A p \in Requests : request'[p] = IF p = r THEN q ELSE request[p]
  BY <1>1
<1>3. \A p \in Requests : request[p].at \notin {"free", "submit"} => request[p].version \in DOMAIN assets
  BY DEF IInv, VersionsKnown
<1> QED BY <1>1, <1>2, <1>3

\* A request that reads, is refused or dies writes no row.
LEMMA RequestReads ==
    ASSUME IInv, NEW r \in Requests,
           Begin(r) \/ CheckLatest(r) \/ Refused(r) \/ RequestDies(r)
    PROVE  IInv'
<1>1. UNCHANGED <<Episode, assets, World, Queue>>
  BY DEF Begin, CheckLatest, Refused, RequestDies
<1>2. Latest \in Nat /\ Latest <= MaxVersions /\ DOMAIN assets = 1..Latest /\ MaxVersions \in Nat
  BY ConstantsAssumption DEF IInv, TypeOK, Latest
<1>3. /\ faults' \in [Fault -> Nat] /\ faults'["retry"] = faults["retry"]
      /\ request' = [request EXCEPT ![r] = Free]
         \/ \E at \in {"submit", "retry", "relock", "approve", "changes"}, v \in 0..MaxVersions :
              /\ at # "submit" => v \in DOMAIN assets
              /\ request' = [request EXCEPT ![r] = [at |-> at, version |-> v]]
  <2>1. CASE Begin(r)
    BY <1>2, <2>1 DEF Begin, Goes, IInv, TypeOK
  <2>2. CASE CheckLatest(r)
    <3>1. request[r].at = "retry" /\ request[r].version = Latest /\ Latest \in DOMAIN assets
      BY <1>2, <2>2 DEF CheckLatest, IInv, VersionsKnown
    <3>2. faults' = faults /\ request' = [request EXCEPT ![r] = [at |-> "relock", version |-> Latest]]
      BY <2>2 DEF CheckLatest, Goes
    <3>3. faults' \in [Fault -> Nat] /\ faults'["retry"] = faults["retry"]
      BY <3>2 DEF IInv, TypeOK
    <3>4. Latest \in 0..MaxVersions
      BY <1>2
    <3> QED BY <3>1, <3>2, <3>3, <3>4
  <2>3. CASE Refused(r)
    BY <2>3 DEF Refused, Ends, IInv, TypeOK
  <2>4. CASE RequestDies(r)
    BY <2>4 DEF RequestDies, Ends, Count, IInv, TypeOK, Fault
  <2> QED BY <2>1, <2>2, <2>3, <2>4
<1>4. /\ request' \in [Requests -> {Free} \cup Request]
      /\ \A q \in Requests : request'[q].at \notin {"free", "submit"} => request'[q].version \in DOMAIN assets
  <2>1. Free.at = "free"
    BY DEF Free
  <2>2. CASE request' = [request EXCEPT ![r] = Free]
    BY <2>1, <2>2, RequestWritten
  <2>3. ASSUME NEW at \in {"submit", "retry", "relock", "approve", "changes"}, NEW v \in 0..MaxVersions,
               at # "submit" => v \in DOMAIN assets,
               request' = [request EXCEPT ![r] = [at |-> at, version |-> v]]
        PROVE  <1>4!1 /\ <1>4!2
    <3>1. [at |-> at, version |-> v] \in Request
      BY DEF Request
    <3> QED BY <2>3, <3>1, RequestWritten
  <2> QED BY <1>3, <2>2, <2>3
<1>5. TypeOK'
  BY <1>1, <1>3, <1>4 DEF IInv, TypeOK, Episode, World, Queue, Latest
<1>6. VersionsKnown'
  BY <1>1, <1>4 DEF IInv, VersionsKnown, Queue, On
<1>7. ProcessingIsHeld'
  BY <1>1, <1>3 DEF IInv, ProcessingIsHeld, Episode, Latest, Done
<1> QED BY <1>3, <1>5, <1>6, <1>7 DEF IInv

\* A delivery is the newest version, and the episode waits for it.
LEMMA CreateVersionStep == ASSUME IInv, NEW r \in Requests, CreateVersion(r) PROVE IInv'
<1>1. /\ assets \in Seq(Asset) /\ Latest \in Nat /\ DOMAIN assets = 1..Latest
      /\ Latest < MaxVersions /\ MaxVersions \in Nat
  BY ConstantsAssumption DEF CreateVersion, IInv, TypeOK, Latest
<1>2. [ingest |-> "PENDING", verdict |-> "NONE"] \in Asset
  BY DEF Asset, IngestStatus
<1>3. /\ assets' \in Seq(Asset) /\ Latest' = Latest + 1 /\ DOMAIN assets' = 1..(Latest + 1)
      /\ assets'[Latest + 1].ingest = "PENDING"
  BY <1>1, <1>2 DEF CreateVersion, Latest
<1>4. /\ request' \in [Requests -> {Free} \cup Request]
      /\ \A q \in Requests : request'[q].at \notin {"free", "submit"} => request'[q].version \in DOMAIN assets'
  <2>1. [at |-> "queue", version |-> Latest + 1] \in Request
    BY <1>1 DEF Request
  <2>2. request' = [request EXCEPT ![r] = [at |-> "queue", version |-> Latest + 1]]
    BY DEF CreateVersion, Goes
  <2> QED BY <1>1, <1>3, <2>1, <2>2 DEF IInv, TypeOK, VersionsKnown
<1>5. TypeOK'
  <2>1. approved = 0
    BY DEF CreateVersion, IInv, TypeOK, SUBMITTABLE
  <2> QED BY <1>1, <1>3, <1>4, <2>1 DEF CreateVersion, IInv, TypeOK, World, Queue, EpisodeStatus
<1>6. VersionsKnown'
  BY <1>1, <1>3, <1>4 DEF CreateVersion, IInv, VersionsKnown, Queue, On
<1>7. ProcessingIsHeld'
  BY <1>1, <1>3 DEF ProcessingIsHeld, Done, DONE
<1> QED BY <1>5, <1>6, <1>7 DEF CreateVersion, IInv

\* A delivery processed again is counted, and ProcessingIsHeld speaks of none.
LEMMA ReopenStep == ASSUME IInv, NEW r \in Requests, Reopen(r) PROVE IInv'
<1> DEFINE v == request[r].version
<1>1. assets \in Seq(Asset) /\ v \in DOMAIN assets /\ v \in 0..MaxVersions
  <2>1. request[r] \in Request
    BY DEF Reopen, IInv, TypeOK, Free
  <2> QED BY <2>1 DEF Reopen, IInv, TypeOK, VersionsKnown, Request
<1>2. assets' \in Seq(Asset) /\ Latest' = Latest /\ DOMAIN assets' = DOMAIN assets
  BY <1>1, IngestWritten DEF Reopen, IngestStatus
<1>3. faults["retry"] \in Nat /\ faults' \in [Fault -> Nat] /\ faults'["retry"] = faults["retry"] + 1
  BY DEF Reopen, Count, IInv, TypeOK, Fault
<1>4. /\ request' \in [Requests -> {Free} \cup Request]
      /\ \A q \in Requests : request'[q].at \notin {"free", "submit"} => request'[q].version \in DOMAIN assets
  <2>1. [at |-> "queue", version |-> v] \in Request
    BY <1>1 DEF Request
  <2>2. request' = [request EXCEPT ![r] = [at |-> "queue", version |-> v]]
    BY DEF Reopen, Goes
  <2> QED BY <1>1, <2>1, <2>2, RequestWritten
<1>5. TypeOK'
  <2>1. approved = 0
    BY DEF Reopen, IInv, TypeOK, SUBMITTABLE
  <2> QED BY <1>2, <1>3, <1>4, <2>1 DEF Reopen, IInv, TypeOK, World, Queue, EpisodeStatus
<1>6. VersionsKnown'
  BY <1>2, <1>4 DEF Reopen, IInv, VersionsKnown, Queue, On
<1>7. ProcessingIsHeld' /\ faults'["retry"] <= MaxRetries
  BY <1>3, ConstantsAssumption DEF Reopen, ProcessingIsHeld
<1> QED BY <1>5, <1>6, <1>7 DEF IInv

\* Queueing adds a job for a version that exists.
LEMMA EnqueueStep ==
    ASSUME IInv, NEW r \in Requests, Enqueue(r) \/ EnqueueTimesOut(r)
    PROVE  IInv'
<1> DEFINE v == request[r].version
<1>1. request[r] \in Request /\ request[r].at = "queue" /\ v \in DOMAIN assets /\ v \in Versions
  <2>1. request[r] \in Request /\ request[r].at = "queue"
    BY DEF Enqueue, EnqueueTimesOut, IInv, TypeOK, Free
  <2>2. v \in DOMAIN assets /\ v \in 0..MaxVersions
    BY <2>1 DEF IInv, VersionsKnown, Request
  <2>3. DOMAIN assets = 1..Len(assets)
    BY DEF IInv, TypeOK
  <2> QED BY <2>1, <2>2, <2>3 DEF Versions
<1>2. NewJob(v) \in Job /\ NewJob(v).version = v
  BY <1>1, ConstantsAssumption DEF NewJob, Job, IInv, TypeOK, Fault
<1>3. jobs' \subseteq Job /\ \A job \in jobs' : job.version \in DOMAIN assets
  <2>1. jobs' \subseteq jobs \cup {NewJob(v)}
    BY DEF Enqueue, EnqueueTimesOut
  <2> QED BY <1>1, <1>2, <2>1 DEF IInv, TypeOK, VersionsKnown
<1>4. /\ request' \in [Requests -> {Free} \cup Request]
      /\ \A q \in Requests : request'[q].at \notin {"free", "submit"} => request'[q].version \in DOMAIN assets
  <2>1. [at |-> "unqueued", version |-> v] \in Request
    BY <1>1 DEF Request
  <2>2. \/ request' = [request EXCEPT ![r] = [at |-> "unqueued", version |-> v]]
        \/ request' = [request EXCEPT ![r] = Free]
    BY DEF Enqueue, EnqueueTimesOut, Goes, Ends
  <2>3. Free.at = "free"
    BY DEF Free
  <2> QED BY <1>1, <2>1, <2>2, <2>3, RequestWritten
<1>5. faults' \in [Fault -> Nat] /\ faults'["retry"] = faults["retry"]
  BY DEF Enqueue, EnqueueTimesOut, Count, IInv, TypeOK, Fault
<1>6. UNCHANGED <<Episode, assets, World, worker>>
  BY DEF Enqueue, EnqueueTimesOut
<1>7. TypeOK'
  BY <1>3, <1>4, <1>5, <1>6 DEF IInv, TypeOK, Episode, World, Latest
<1>8. VersionsKnown'
  BY <1>3, <1>4, <1>6 DEF IInv, VersionsKnown, On
<1>9. ProcessingIsHeld'
  BY <1>5, <1>6 DEF IInv, ProcessingIsHeld, Episode, Latest, Done
<1> QED BY <1>5, <1>7, <1>8, <1>9 DEF IInv

\* Marking a delivery that could not be queued FAILED.
LEMMA FailUnqueuedStep == ASSUME IInv, NEW r \in Requests, FailUnqueued(r) PROVE IInv'
<1> DEFINE v == request[r].version
<1>1. request[r] \in Request /\ request[r].at \in {"unqueued", "fail"} /\ v \in DOMAIN assets
  BY DEF FailUnqueued, IInv, TypeOK, VersionsKnown, Free
<1>2. UNCHANGED <<World, Queue, faults>>
  BY DEF FailUnqueued
<1>3. /\ request' \in [Requests -> {Free} \cup Request]
      /\ \A q \in Requests : request'[q].at \notin {"free", "submit"} => request'[q].version \in DOMAIN assets
  <2>1. [at |-> "fail", version |-> v] \in Request
    BY <1>1 DEF Request
  <2>2. \/ request' = [request EXCEPT ![r] = [at |-> "fail", version |-> v]]
        \/ request' = [request EXCEPT ![r] = Free]
    BY DEF FailUnqueued, Goes, Ends
  <2>3. Free.at = "free"
    BY DEF Free
  <2> QED BY <1>1, <2>1, <2>2, <2>3, RequestWritten
<1>4. /\ assets' \in Seq(Asset) /\ Latest' = Latest /\ DOMAIN assets' = DOMAIN assets
      /\ status' \in EpisodeStatus /\ approved' = approved
      /\ status' = "REVIEWED" <=> status = "REVIEWED"
      /\ ProcessingIsHeld'
  <2>1. CASE UNCHANGED <<Episode, assets>>
    BY <1>2, <2>1 DEF IInv, TypeOK, ProcessingIsHeld, Episode, Latest, Done
  <2>2. CASE Fail(v)
    BY <1>1, <1>2, <2>2, FailKeepsInvariant DEF IInv
  <2> QED BY <2>1, <2>2 DEF FailUnqueued
<1>5. TypeOK'
  BY <1>2, <1>3, <1>4 DEF IInv, TypeOK, World, Queue
<1>6. VersionsKnown'
  BY <1>2, <1>3, <1>4 DEF IInv, VersionsKnown, Queue, On
<1> QED BY <1>2, <1>4, <1>5, <1>6 DEF IInv

\* A review takes the episode out of processing, if it ever was in it.
LEMMA ReviewStep ==
    ASSUME IInv, NEW r \in Requests, Approve(r) \/ RequestChanges(r)
    PROVE  IInv'
<1> DEFINE v == request[r].version
<1>1. request[r] \in Request /\ v \in DOMAIN assets
  BY DEF Approve, RequestChanges, IInv, TypeOK, VersionsKnown, Free
<1>2. assets \in Seq(Asset) /\ v \in 1..Latest
  BY <1>1 DEF IInv, TypeOK, Latest
<1>3. PICK decision \in {"APPROVED", "CHANGES_REQUESTED"} : Verdict(v, decision)
  BY DEF Approve, RequestChanges
<1>4. assets' \in Seq(Asset) /\ Latest' = Latest /\ DOMAIN assets' = DOMAIN assets
  BY <1>1, <1>2, <1>3, VerdictWritten
<1>5. /\ request' \in [Requests -> {Free} \cup Request]
      /\ \A q \in Requests : request'[q].at \notin {"free", "submit"} => request'[q].version \in DOMAIN assets
  <2>1. request' = [request EXCEPT ![r] = Free] /\ Free.at = "free"
    BY DEF Approve, RequestChanges, Ends, Free
  <2> QED BY <2>1, RequestWritten
<1>6. UNCHANGED <<World, Queue, faults>>
  BY DEF Approve, RequestChanges
<1>7. /\ status' \in EpisodeStatus \ {"PROCESSING"}
      /\ approved' \in 0..Latest /\ (approved' # 0 <=> status' = "REVIEWED")
  <2>1. Latest \in Nat /\ v \in 0..Latest /\ v # 0 /\ 0 \in 0..Latest
    BY <1>2 DEF Latest
  <2>2. \/ status' = "REVIEWED" /\ approved' = v
        \/ status' = "CHANGES_REQUESTED" /\ approved' = 0
    BY DEF Approve, RequestChanges
  <2> QED BY <2>1, <2>2 DEF EpisodeStatus
<1>8. TypeOK'
  BY <1>4, <1>5, <1>6, <1>7 DEF IInv, TypeOK, World, Queue
<1>9. VersionsKnown'
  BY <1>4, <1>5, <1>6 DEF IInv, VersionsKnown, Queue, On
<1>10. ProcessingIsHeld'
  BY <1>7 DEF ProcessingIsHeld
<1> QED BY <1>6, <1>8, <1>9, <1>10 DEF IInv

LEMMA CancelProjectStep == ASSUME IInv, CancelProject PROVE IInv'
<1>1. UNCHANGED <<Episode, assets, Queue, request, background, faults>> /\ open' \in BOOLEAN
  BY DEF CancelProject
<1> QED
  BY <1>1 DEF IInv, TypeOK, VersionsKnown, ProcessingIsHeld, Episode, Queue, Latest, Done, On

-----------------------------------------------------------------------------
(* Attempts.                                                                *)

\* An attempt goes on with, and hands back, a version that exists.
LEMMA WorkerWritten ==
    ASSUME IInv, NEW w \in Workers, NEW a \in {Resting} \cup Attempt,
           a # Resting => a.job.version \in DOMAIN assets,
           worker' = [worker EXCEPT ![w] = a]
    PROVE  /\ worker' \in [Workers -> {Resting} \cup Attempt]
           /\ \A u \in Workers : worker'[u] # Resting => worker'[u].job.version \in DOMAIN assets
<1>1. worker \in [Workers -> {Resting} \cup Attempt]
  BY DEF IInv, TypeOK
<1>2. \A u \in Workers : worker'[u] = IF u = w THEN a ELSE worker[u]
  BY <1>1
<1>3. \A u \in Workers : worker[u] # Resting => worker[u].job.version \in DOMAIN assets
  BY DEF IInv, VersionsKnown, On
<1> QED BY <1>1, <1>2, <1>3

\* What a worker is busy with.
LEMMA Busy ==
    ASSUME IInv, NEW w \in Workers, worker[w] # Resting
    PROVE  worker[w] \in Attempt /\ worker[w].job \in Job /\ worker[w].job.version \in DOMAIN assets
  BY DEF IInv, TypeOK, VersionsKnown, Attempt, On

\* Whoever is at a stage of an attempt is busy.
LEMMA AtStage ==
    ASSUME IInv, NEW w \in Workers,
           At(w) \in {"read", "step", "laststep", "ready", "unfit", "fail"}
    PROVE  worker[w] # Resting
<1>1. Resting.at = "resting"
  BY DEF Resting
<1> QED BY <1>1 DEF At

\* Steps that write no row: taking a job, judging it, throwing, stalling, dying.
LEMMA AttemptMoves ==
    ASSUME IInv, NEW w \in Workers, UNCHANGED <<Episode, assets, World, request>>,
           faults' \in [Fault -> Nat], faults'["retry"] = faults["retry"],
           NEW a \in {Resting} \cup Attempt, a # Resting => a.job.version \in DOMAIN assets,
           worker' = [worker EXCEPT ![w] = a],
           NEW job \in Job, job.version \in DOMAIN assets, jobs' \subseteq jobs \cup {job}
    PROVE  IInv'
<1>1. /\ worker' \in [Workers -> {Resting} \cup Attempt]
      /\ \A u \in Workers : worker'[u] # Resting => worker'[u].job.version \in DOMAIN assets
  BY WorkerWritten
<1>2. jobs' \subseteq Job /\ \A j \in jobs' : j.version \in DOMAIN assets
  BY DEF IInv, TypeOK, VersionsKnown
<1>3. TypeOK'
  BY <1>1, <1>2 DEF IInv, TypeOK, Episode, World, Latest
<1>4. VersionsKnown'
  BY <1>1, <1>2 DEF IInv, VersionsKnown, On
<1>5. ProcessingIsHeld'
  BY DEF IInv, ProcessingIsHeld, Episode, Latest, Done
<1> QED BY <1>3, <1>4, <1>5 DEF IInv

LEMMA TakeStep == ASSUME IInv, NEW w \in Workers, Take(w) PROVE IInv'
<1>1. PICK job \in jobs :
        /\ jobs' = jobs \ {job}
        /\ IF Done(job.version) THEN UNCHANGED worker
           ELSE worker' = [worker EXCEPT ![w] = [job |-> job, at |-> "read", owns |-> TRUE]]
  BY DEF Take
<1>2. job \in Job /\ job.version \in DOMAIN assets /\ worker \in [Workers -> {Resting} \cup Attempt]
  BY DEF IInv, TypeOK, VersionsKnown
<1>3. UNCHANGED <<Episode, assets, World, request, faults>> /\ worker[w] = Resting
  BY DEF Take
<1>4. faults' \in [Fault -> Nat] /\ faults'["retry"] = faults["retry"]
  BY <1>3 DEF IInv, TypeOK
<1>5. CASE Done(job.version)
  <2>1. worker' = [worker EXCEPT ![w] = Resting]
    BY <1>1, <1>2, <1>3, <1>5
  <2> QED BY <1>1, <1>2, <1>3, <1>4, <2>1, AttemptMoves
<1>6. CASE ~Done(job.version)
  <2>1. [job |-> job, at |-> "read", owns |-> TRUE] \in Attempt
    BY <1>2 DEF Attempt
  <2> QED BY <1>1, <1>2, <1>3, <1>4, <1>6, <2>1, AttemptMoves
<1> QED BY <1>5, <1>6

\* A rejection, an error, a stall or a death changes the attempt and the queue only.
LEMMA AttemptFaults ==
    ASSUME IInv, NEW w \in Workers, Reject(w) \/ Throw(w) \/ Stall(w) \/ WorkerDies(w)
    PROVE  IInv'
<1> DEFINE job == worker[w].job
<1>1. worker[w] # Resting
  BY AtStage DEF Reject, Throw, Stall, WorkerDies
<1>2. worker[w] \in Attempt /\ job \in Job /\ job.version \in DOMAIN assets
  BY <1>1, Busy
<1>3. worker \in [Workers -> {Resting} \cup Attempt] /\ Attempts \in Nat \ {0}
  BY ConstantsAssumption DEF IInv, TypeOK
<1>4. UNCHANGED <<Episode, assets, World, request>>
  BY DEF Reject, Throw, Stall, WorkerDies
<1>5. faults' \in [Fault -> Nat] /\ faults'["retry"] = faults["retry"]
  BY DEF Reject, Throw, Stall, WorkerDies, Count, IInv, TypeOK, Fault
<1>6. \E a \in {Resting} \cup Attempt :
        /\ a # Resting => a.job = job
        /\ worker' = [worker EXCEPT ![w] = a]
  <2>1. CASE Rests(w)
    BY <2>1 DEF Rests
  <2>2. ASSUME NEW at \in {"unfit"}, worker' = [worker EXCEPT ![w].at = at]
        PROVE  <1>6
    <3>1. [worker[w] EXCEPT !.at = at] \in Attempt /\ [worker[w] EXCEPT !.at = at].job = job
      BY <1>2 DEF Attempt
    <3> QED BY <1>3, <2>2, <3>1
  <2>3. ASSUME worker' = [worker EXCEPT ![w].at = "unfit", ![w].owns = FALSE]
        PROVE  <1>6
    <3> DEFINE a == [worker[w] EXCEPT !.at = "unfit", !.owns = FALSE]
    <3>1. a \in Attempt /\ a.job = job
      BY <1>2 DEF Attempt
    <3>2. worker' = [worker EXCEPT ![w] = a]
      BY <1>3, <2>3
    <3> QED BY <3>1, <3>2
  <2>4. ASSUME worker' = [worker EXCEPT ![w].owns = FALSE]
        PROVE  <1>6
    <3>1. [worker[w] EXCEPT !.owns = FALSE] \in Attempt /\ [worker[w] EXCEPT !.owns = FALSE].job = job
      BY <1>2 DEF Attempt
    <3> QED BY <1>3, <2>4, <3>1
  <2> QED BY <2>1, <2>2, <2>3, <2>4 DEF Reject, Throw, Stall, WorkerDies, Moves
<1>7. \E again \in Job : again.version = job.version /\ jobs' \subseteq jobs \cup {again}
  <2>1. CASE jobs' \subseteq jobs \cup {job}
    BY <1>2, <2>1
  <2>2. ASSUME job.tries + 1 < Attempts, jobs' = jobs \cup {[job EXCEPT !.tries = @ + 1]}
        PROVE  <1>7
    <3>1. [job EXCEPT !.tries = @ + 1] \in Job /\ [job EXCEPT !.tries = @ + 1].version = job.version
      BY <1>2, <1>3, <2>2 DEF Job
    <3> QED BY <2>2, <3>1
  <2> QED BY <2>1, <2>2 DEF Reject, Throw, Stall, WorkerDies
<1> QED BY <1>2, <1>4, <1>5, <1>6, <1>7, AttemptMoves

\* The update of a step makes a version busy again, which an episode may wait for.
LEMMA StepStep == ASSUME IInv, NEW w \in Workers, Step(w) PROVE IInv'
<1>1. worker[w] # Resting
  BY AtStage DEF Step
<1>2. worker[w] \in Attempt /\ On(w) \in DOMAIN assets
  BY <1>1, Busy DEF On
<1>3. /\ assets' \in Seq(Asset) /\ Latest' = Latest /\ DOMAIN assets' = DOMAIN assets
      /\ assets'[On(w)].ingest = "WORKING"
      /\ \A u \in DOMAIN assets : u # On(w) => assets'[u] = assets[u]
  BY <1>2, IngestWritten DEF Step, IInv, TypeOK, IngestStatus
<1>4. UNCHANGED <<Episode, jobs, World, request, faults>>
  BY DEF Step
<1>5. PICK at \in {"step", "laststep"} : worker' = [worker EXCEPT ![w].at = at]
  BY DEF Step, Moves
<1>6. /\ worker' \in [Workers -> {Resting} \cup Attempt]
      /\ \A u \in Workers : worker'[u] # Resting => worker'[u].job.version \in DOMAIN assets
  <2> DEFINE a == [worker[w] EXCEPT !.at = at]
  <2>1. a \in Attempt /\ a.job = worker[w].job
    BY <1>2 DEF Attempt
  <2>2. worker' = [worker EXCEPT ![w] = a]
    BY <1>5 DEF IInv, TypeOK
  <2> QED BY <1>2, <2>1, <2>2, WorkerWritten DEF On
<1>7. TypeOK'
  BY <1>3, <1>4, <1>6 DEF IInv, TypeOK, Episode, World
<1>8. VersionsKnown'
  BY <1>3, <1>4, <1>6 DEF IInv, VersionsKnown, On
<1>9. ProcessingIsHeld'
  <2>1. SUFFICES ASSUME faults["retry"] = 0, status = "PROCESSING"
                 PROVE  Latest > 0 /\ assets'[Latest].ingest \notin DONE
    BY <1>3, <1>4 DEF ProcessingIsHeld, Done, Episode
  <2>2. Latest > 0 /\ assets[Latest].ingest \notin DONE /\ Latest \in DOMAIN assets
    BY <2>1 DEF IInv, TypeOK, ProcessingIsHeld, Done, Latest
  <2> QED BY <1>3, <2>2 DEF DONE
<1> QED BY <1>4, <1>7, <1>8, <1>9 DEF IInv

\* A superseded version is not the one the episode waits for.
LEMMA ReadyOrSupersededStep == ASSUME IInv, NEW w \in Workers, ReadyOrSuperseded(w) PROVE IInv'
<1>1. worker[w] # Resting
  BY AtStage DEF ReadyOrSuperseded
<1>2. worker[w] \in Attempt /\ On(w) \in DOMAIN assets
  BY <1>1, Busy DEF On
<1>3. UNCHANGED <<Episode, jobs, World, request, faults>>
  BY DEF ReadyOrSuperseded
<1>4. \E a \in {Resting} \cup Attempt :
        /\ a # Resting => a.job = worker[w].job
        /\ worker' = [worker EXCEPT ![w] = a]
  <2>1. CASE Rests(w)
    BY <2>1 DEF Rests
  <2>2. CASE Moves(w, "ready")
    <3> DEFINE a == [worker[w] EXCEPT !.at = "ready"]
    <3>1. a \in Attempt /\ a.job = worker[w].job
      BY <1>2 DEF Attempt
    <3>2. worker' = [worker EXCEPT ![w] = a]
      BY <2>2 DEF Moves, IInv, TypeOK
    <3> QED BY <3>1, <3>2
  <2> QED BY <2>1, <2>2 DEF ReadyOrSuperseded
<1>5. /\ worker' \in [Workers -> {Resting} \cup Attempt]
      /\ \A u \in Workers : worker'[u] # Resting => worker'[u].job.version \in DOMAIN assets
  BY <1>2, <1>4, WorkerWritten DEF On
<1>6. /\ assets' \in Seq(Asset) /\ Latest' = Latest /\ DOMAIN assets' = DOMAIN assets
      /\ Latest > 0 => assets'[Latest] = assets[Latest]
  <2>1. CASE UNCHANGED assets
    BY <2>1 DEF IInv, TypeOK, Latest
  <2>2. CASE Latest > On(w) /\ WithIngest(On(w), "SUPERSEDED")
    <3>1. /\ assets' \in Seq(Asset) /\ Latest' = Latest /\ DOMAIN assets' = DOMAIN assets
          /\ \A u \in DOMAIN assets : u # On(w) => assets'[u] = assets[u]
      BY <1>2, <2>2, IngestWritten DEF IInv, TypeOK, IngestStatus
    <3>2. Latest \in Nat /\ DOMAIN assets = 1..Latest
      BY DEF IInv, TypeOK, Latest
    <3> QED BY <2>2, <3>1, <3>2
  <2> QED BY <2>1, <2>2 DEF ReadyOrSuperseded
<1>7. TypeOK'
  BY <1>3, <1>5, <1>6 DEF IInv, TypeOK, Episode, World
<1>8. VersionsKnown'
  BY <1>3, <1>5, <1>6 DEF IInv, VersionsKnown, On
<1>9. ProcessingIsHeld'
  BY <1>3, <1>6 DEF IInv, ProcessingIsHeld, Episode, Done
<1> QED BY <1>3, <1>7, <1>8, <1>9 DEF IInv

\* A version that becomes READY sends its episode to review.
LEMMA BecomesReadyStep == ASSUME IInv, NEW w \in Workers, BecomesReady(w) PROVE IInv'
<1>1. worker[w] # Resting
  BY AtStage DEF BecomesReady
<1>2. worker[w] \in Attempt /\ On(w) \in DOMAIN assets
  BY <1>1, Busy DEF On
<1>3. UNCHANGED <<jobs, World, request, faults>>
  BY DEF BecomesReady
<1>4. /\ worker' \in [Workers -> {Resting} \cup Attempt]
      /\ \A u \in Workers : worker'[u] # Resting => worker'[u].job.version \in DOMAIN assets
  BY WorkerWritten DEF BecomesReady, Rests
<1>5. /\ assets' \in Seq(Asset) /\ Latest' = Latest /\ DOMAIN assets' = DOMAIN assets
      /\ approved' = approved /\ status' \in EpisodeStatus
      /\ status' = "REVIEWED" <=> status = "REVIEWED"
      /\ ProcessingIsHeld'
  <2>1. CASE UNCHANGED <<Episode, assets>>
    BY <1>3, <2>1 DEF IInv, TypeOK, ProcessingIsHeld, Episode, Latest, Done
  <2>2. CASE Ready(On(w))
    <3>1. assets \in Seq(Asset)
      BY DEF IInv, TypeOK
    <3>2. ASSUME NEW u \in DOMAIN assets PROVE assets'[u] \in Asset
      <4>1. assets[u] \in Asset
        BY <3>1, <3>2
      <4>2. [assets[u] EXCEPT !.ingest = "READY"] \in Asset /\ [assets[u] EXCEPT !.ingest = "SUPERSEDED"] \in Asset
        BY <4>1 DEF Asset, IngestStatus
      <4> QED BY <2>2, <3>2, <4>1, <4>2 DEF Ready
    <3>3. assets' \in [DOMAIN assets -> Asset]
      BY <2>2, <3>2 DEF Ready
    <3>4. assets' \in Seq(Asset) /\ Latest' = Latest /\ DOMAIN assets' = DOMAIN assets
      BY <3>1, <3>3, SameVersions
    <3>5. /\ status' \in EpisodeStatus \ {"PROCESSING"} /\ approved' = approved
          /\ status' = "REVIEWED" <=> status = "REVIEWED"
      BY <2>2 DEF Ready, IInv, TypeOK, EpisodeStatus
    <3> QED BY <3>4, <3>5 DEF ProcessingIsHeld
  <2> QED BY <2>1, <2>2 DEF BecomesReady
<1>6. TypeOK'
  BY <1>3, <1>4, <1>5 DEF IInv, TypeOK, World
<1>7. VersionsKnown'
  BY <1>3, <1>4, <1>5 DEF IInv, VersionsKnown, On
<1> QED BY <1>3, <1>5, <1>6, <1>7 DEF IInv

\* An attempt that gives up marks its version FAILED, unless it is done.
LEMMA FailAttemptStep == ASSUME IInv, NEW w \in Workers, FailAttempt(w) PROVE IInv'
<1>1. worker[w] # Resting
  BY AtStage DEF FailAttempt
<1>2. worker[w] \in Attempt /\ On(w) \in DOMAIN assets
  BY <1>1, Busy DEF On
<1>3. UNCHANGED <<jobs, World, request, faults>>
  BY DEF FailAttempt
<1>4. \E a \in {Resting} \cup Attempt :
        /\ a # Resting => a.job = worker[w].job
        /\ worker' = [worker EXCEPT ![w] = a]
  <2>1. CASE Rests(w)
    BY <2>1 DEF Rests
  <2>2. CASE Moves(w, "fail")
    <3> DEFINE a == [worker[w] EXCEPT !.at = "fail"]
    <3>1. a \in Attempt /\ a.job = worker[w].job
      BY <1>2 DEF Attempt
    <3>2. worker' = [worker EXCEPT ![w] = a]
      BY <2>2 DEF Moves, IInv, TypeOK
    <3> QED BY <3>1, <3>2
  <2> QED BY <2>1, <2>2 DEF FailAttempt
<1>5. /\ worker' \in [Workers -> {Resting} \cup Attempt]
      /\ \A u \in Workers : worker'[u] # Resting => worker'[u].job.version \in DOMAIN assets
  BY <1>2, <1>4, WorkerWritten DEF On
<1>6. /\ assets' \in Seq(Asset) /\ Latest' = Latest /\ DOMAIN assets' = DOMAIN assets
      /\ status' \in EpisodeStatus /\ approved' = approved
      /\ status' = "REVIEWED" <=> status = "REVIEWED"
      /\ ProcessingIsHeld'
  <2>1. CASE UNCHANGED <<Episode, assets>>
    BY <1>3, <2>1 DEF IInv, TypeOK, ProcessingIsHeld, Episode, Latest, Done
  <2>2. CASE Fail(On(w))
    BY <1>2, <1>3, <2>2, FailKeepsInvariant DEF IInv
  <2> QED BY <2>1, <2>2 DEF FailAttempt
<1>7. TypeOK'
  BY <1>3, <1>5, <1>6 DEF IInv, TypeOK, World
<1>8. VersionsKnown'
  BY <1>3, <1>5, <1>6 DEF IInv, VersionsKnown, On
<1> QED BY <1>3, <1>6, <1>7, <1>8 DEF IInv

\* A restart fails what was under way and gives the episode back.
LEMMA RestartStep == ASSUME IInv, Restart PROVE IInv'
<1>1. assets \in Seq(Asset)
  BY DEF IInv, TypeOK
<1>2. ASSUME NEW v \in DOMAIN assets PROVE assets'[v] \in Asset
  <2>1. assets[v] \in Asset
    BY <1>1, <1>2
  <2>2. [assets[v] EXCEPT !.ingest = "FAILED"] \in Asset
    BY <2>1 DEF Asset, IngestStatus
  <2> QED BY <1>2, <2>1, <2>2 DEF Restart
<1>3. assets' \in [DOMAIN assets -> Asset]
  BY <1>2 DEF Restart
<1>4. assets' \in Seq(Asset) /\ Latest' = Latest /\ DOMAIN assets' = DOMAIN assets
  BY <1>1, <1>3, SameVersions
<1>5. faults' \in [Fault -> Nat] /\ faults'["retry"] = faults["retry"]
  BY DEF Restart, Count, IInv, TypeOK, Fault
<1>6. /\ jobs' = {} /\ worker' = [w \in Workers |-> Resting] /\ request' = [r \in Requests |-> Free]
      /\ UNCHANGED <<approved, World>>
  BY DEF Restart
<1>7. /\ status' \in EpisodeStatus
      /\ status' = "REVIEWED" <=> status = "REVIEWED"
      /\ status' = "PROCESSING" => status = "PROCESSING" /\ ~(Latest > 0 /\ ~Done(Latest))
  BY GivenBack DEF Restart, IInv, TypeOK, EpisodeStatus
<1>8. TypeOK'
  BY <1>4, <1>5, <1>6, <1>7 DEF IInv, TypeOK, World
<1>9. VersionsKnown'
  BY <1>6 DEF VersionsKnown, Free
<1>10. ProcessingIsHeld'
  BY <1>5, <1>7 DEF IInv, ProcessingIsHeld
<1> QED BY <1>5, <1>8, <1>9, <1>10 DEF IInv

-----------------------------------------------------------------------------
(* Versions in turn.                                                        *)

\* The numbers of the versions.
LEMMA Numbers ==
    ASSUME TypeOK
    PROVE  /\ Latest \in Nat /\ DOMAIN assets = 1..Latest
           /\ \A v \in DOMAIN assets : assets[v] \in Asset
  BY DEF TypeOK, Latest

\* Where no row is written, only who works on what has to be looked at.
LEMMA SameRows ==
    ASSUME InOrder, UNCHANGED <<status, approved, assets>>, OneAtWork',
           \A r \in Requests :
              \/ request'[r] = request[r]
              \/ /\ request'[r].at \notin {"unqueued", "fail"}
                 /\ request'[r].at \in {"approve", "changes"} => Done(request'[r].version)
    PROVE  InOrder'
<1>1. NewestWaits' /\ OneReady' /\ VersionUnderReview'
  BY DEF InOrder, NewestWaits, OneReady, VersionUnderReview, OneVersionToReview, SentBackIsNotReviewed,
         ReadyVersions, Done, Latest
<1>2. ReviewsTheDone'
  BY DEF InOrder, ReviewsTheDone, Done
<1> QED BY <1>1, <1>2 DEF InOrder

\* The same work under other names, or less of it.
LEMMA SameWork ==
    ASSUME OneAtWork, UNCHANGED assets,
           \A r \in Requests : request'[r].at = "queue" => request'[r] = request[r],
           jobs' \subseteq jobs,
           \A w \in Workers : worker'[w] # Resting => worker[w] # Resting /\ worker'[w].job = worker[w].job
    PROVE  OneAtWork'
<1>1. Queueing' \subseteq Queueing /\ \A r \in Queueing' : request'[r] = request[r]
  BY DEF Queueing
<1>2. Working' \subseteq Working /\ \A w \in Working' : On(w)' = On(w)
  BY DEF Working, On
<1> QED BY <1>1, <1>2 DEF OneAtWork, Done

\* A request that reads, is refused or dies.
LEMMA RequestReadsInOrder ==
    ASSUME IInv, InOrder, NEW r \in Requests,
           Begin(r) \/ CheckLatest(r) \/ Refused(r) \/ RequestDies(r)
    PROVE  InOrder'
<1>1. UNCHANGED <<Episode, assets, Queue>>
  BY DEF Begin, CheckLatest, Refused, RequestDies
<1>2. request \in [Requests -> {Free} \cup Request] /\ Free.at = "free"
  BY DEF IInv, TypeOK, Free
<1>3. /\ \A q \in Requests \ {r} : request'[q] = request[q]
      /\ request'[r].at \in {"free", "submit", "retry", "relock", "approve", "changes"}
      /\ request'[r].at \in {"approve", "changes"} => Done(request'[r].version)
  <2>1. CASE request' = [request EXCEPT ![r] = Free]
    BY <1>2, <2>1
  <2>2. ASSUME NEW at \in {"submit", "retry", "relock"}, NEW v, Goes(r, at, v)
        PROVE  <1>3
    BY <1>2, <2>2 DEF Goes
  <2>3. ASSUME NEW v \in DOMAIN assets, NEW decision \in {"approve", "changes"},
               UnderReview(v, decision), Goes(r, decision, v)
        PROVE  <1>3
    <3>1. v # 0
      BY Numbers DEF IInv
    <3>2. Done(v)
      BY <2>3, <3>1 DEF UnderReview, InOrder, ReviewsTheDone, Done, DONE
    <3> QED BY <1>2, <2>3, <3>2 DEF Goes
  <2> QED BY <2>1, <2>2, <2>3 DEF Begin, CheckLatest, Refused, RequestDies, Ends
<1>4. OneAtWork'
  BY <1>1, <1>3, SameWork DEF InOrder, Queue
<1> QED BY <1>1, <1>3, <1>4, SameRows DEF Episode

\* A delivery that is queued is a job, and nothing else was at work.
LEMMA EnqueueInOrder ==
    ASSUME IInv, InOrder, NEW r \in Requests, Enqueue(r)
    PROVE  InOrder'
<1>1. /\ r \in Queueing /\ jobs' = jobs \cup {NewJob(request[r].version)}
      /\ request' = [request EXCEPT ![r] = Free]
      /\ UNCHANGED <<status, approved, assets, worker>>
  BY DEF Enqueue, Queueing, Ends, Episode
<1>2. request \in [Requests -> {Free} \cup Request] /\ Free.at = "free"
  BY DEF IInv, TypeOK, Free
<1>3. /\ jobs = {} /\ Working = {} /\ ~Done(request[r].version)
      /\ \A q \in Requests : request[q].at = "queue" => q = r
  BY <1>1 DEF InOrder, OneAtWork, Queueing
<1>4. Queueing' = {} /\ Working' = {}
  BY <1>1, <1>2, <1>3 DEF Queueing, Working
<1>5. PICK job : job = NewJob(request[r].version)
  OBVIOUS
<1>6. jobs' = {job} /\ ~Done(job.version)
  BY <1>1, <1>3, <1>5 DEF NewJob
<1>7. OneAtWork'
  BY <1>1, <1>4, <1>6 DEF OneAtWork, Done
<1> QED BY <1>1, <1>2, <1>7, SameRows

\* Once every version is done nothing is at work.
LEMMA NothingAtWork ==
    ASSUME IInv, InOrder, \A v \in DOMAIN assets : Done(v)
    PROVE  Queueing = {} /\ jobs = {} /\ Working = {}
<1>1. \A r \in Queueing : request[r].version \in DOMAIN assets
  BY DEF IInv, VersionsKnown, Queueing
<1>2. \A job \in jobs : job.version \in DOMAIN assets
  BY DEF IInv, VersionsKnown
<1>3. \A w \in Working : On(w) \in DOMAIN assets
  BY DEF IInv, VersionsKnown, Working
<1> QED BY <1>1, <1>2, <1>3 DEF InOrder, OneAtWork

\* A delivery while nothing is at work: it is the only version that is not done.
LEMMA CreateVersionInOrder ==
    ASSUME IInv, InOrder, NEW r \in Requests, CreateVersion(r)
    PROVE  InOrder'
<1>1. /\ status \in SUBMITTABLE /\ status' = "PROCESSING" /\ approved' = approved
      /\ assets' = Append(assets, [ingest |-> "PENDING", verdict |-> "NONE"])
      /\ request' = [request EXCEPT ![r] = [at |-> "queue", version |-> Latest + 1]]
      /\ jobs' = jobs /\ worker' = worker
  BY DEF CreateVersion, Goes, Queue
<1>2. /\ Latest \in Nat /\ DOMAIN assets = 1..Latest
      /\ request \in [Requests -> {Free} \cup Request] /\ assets \in Seq(Asset)
  BY Numbers DEF IInv, TypeOK
<1>3. /\ Latest' = Latest + 1 /\ DOMAIN assets' = 1..(Latest + 1)
      /\ assets'[Latest + 1] = [ingest |-> "PENDING", verdict |-> "NONE"]
      /\ \A v \in DOMAIN assets : assets'[v] = assets[v]
  BY <1>1, <1>2 DEF Latest
<1>4. \A v \in DOMAIN assets : Done(v)
  BY <1>1 DEF InOrder, NewestWaits, SUBMITTABLE
<1>5. Queueing = {} /\ jobs = {} /\ Working = {}
  BY <1>4, NothingAtWork
<1>6. /\ \A v \in DOMAIN assets : Done(v)' /\ v # Latest + 1
      /\ assets'[Latest + 1].ingest \notin DONE
      /\ ReadyVersions' = ReadyVersions
  BY <1>2, <1>3, <1>4 DEF Done, DONE, ReadyVersions
<1>7. OneAtWork'
  <2>1. Queueing' = {r} /\ request'[r].version = Latest + 1
    BY <1>1, <1>2, <1>5 DEF Queueing
  <2>2. jobs' = {} /\ Working' = {}
    BY <1>1, <1>5 DEF Working
  <2> QED BY <1>3, <2>1, <2>2 DEF OneAtWork, Done, DONE
<1>8. NewestWaits'
  BY <1>1, <1>2, <1>3, <1>6 DEF NewestWaits, Done
<1>9. ReviewsTheDone'
  <2>1. approved # 0 => approved \in DOMAIN assets
    BY <1>2 DEF IInv, TypeOK
  <2>2. \A q \in Requests \ {r} : request'[q] = request[q]
    BY <1>1, <1>2
  <2>3. \A q \in Requests \ {r} :
          request[q].at \in {"approve", "changes"} => request[q].version \in DOMAIN assets
    BY DEF IInv, VersionsKnown
  <2>4. request'[r].at = "queue"
    BY <1>1, <1>2
  <2> QED BY <1>1, <1>3, <2>1, <2>2, <2>3, <2>4 DEF ReviewsTheDone, InOrder, Done
<1>10. OneReady'
  BY <1>6 DEF InOrder, OneReady
<1>11. VersionUnderReview'
  <2>1. Cardinality(ReadyVersions) <= 1
    BY DEF InOrder, VersionUnderReview, OneVersionToReview
  <2>2. \A v \in ReadyVersions', w \in DOMAIN assets' : w > v => assets'[w].ingest # "SUPERSEDED"
    BY <1>2, <1>3, <1>6 DEF InOrder, VersionUnderReview, OneVersionToReview, ReadyVersions
  <2> QED BY <1>1, <1>6, <2>1, <2>2 DEF VersionUnderReview, OneVersionToReview, SentBackIsNotReviewed
<1> QED BY <1>7, <1>8, <1>9, <1>10, <1>11 DEF InOrder

\* A review: nothing is under way, and what it says of a version it says of one that
\* is done, after which the episode is not under review.
LEMMA ReviewInOrder ==
    ASSUME IInv, InOrder, NEW r \in Requests, Approve(r) \/ RequestChanges(r)
    PROVE  InOrder'
<1> DEFINE v == request[r].version
<1>1. /\ request[r].at \in {"approve", "changes"} /\ request' = [request EXCEPT ![r] = Free]
      /\ status \in {"IN_REVIEW", "REVIEWED"} /\ status' \in {"REVIEWED", "CHANGES_REQUESTED"}
      /\ approved' \in {0, v}
      /\ UNCHANGED <<jobs, worker>>
  BY DEF Approve, RequestChanges, Ends, Queue
<1>2. PICK decision \in {"APPROVED", "CHANGES_REQUESTED"} : Verdict(v, decision)
  BY DEF Approve, RequestChanges
<1>3. v \in DOMAIN assets /\ Done(v)
  BY <1>1 DEF InOrder, ReviewsTheDone, IInv, VersionsKnown
<1>4. /\ Latest' = Latest /\ DOMAIN assets' = DOMAIN assets
      /\ \A u \in DOMAIN assets : assets'[u].ingest = assets[u].ingest
  BY <1>2, <1>3, VerdictWritten DEF IInv, TypeOK
<1>5. /\ \A u \in DOMAIN assets : Done(u)' <=> Done(u)
      /\ ReadyVersions' = ReadyVersions
  BY <1>4 DEF Done, ReadyVersions
<1>6. \A u \in DOMAIN assets : Done(u)
  BY <1>1 DEF InOrder, NewestWaits
<1>7. request \in [Requests -> {Free} \cup Request] /\ Free.at = "free"
  BY DEF IInv, TypeOK, Free
<1>8. \A q \in Requests : request'[q] = request[q] \/ request'[q] = Free
  BY <1>1, <1>7
<1>9. OneAtWork'
  <2>1. Queueing = {} /\ jobs = {} /\ Working = {}
    BY <1>6, NothingAtWork
  <2>2. Queueing' = {} /\ jobs' = {} /\ Working' = {}
    BY <1>1, <1>7, <1>8, <2>1 DEF Queueing, Working
  <2> QED BY <2>2 DEF OneAtWork
<1>10. NewestWaits' /\ OneReady'
  BY <1>4, <1>5, <1>6 DEF NewestWaits, OneReady, InOrder
<1>11. ReviewsTheDone'
  <2>1. \A q \in Requests : request[q].at \in {"approve", "changes"} =>
          request[q].version \in DOMAIN assets /\ Done(request[q].version)
    BY DEF InOrder, ReviewsTheDone, IInv, VersionsKnown
  <2>2. approved' # 0 => approved' = v
    BY <1>1
  <2> QED BY <1>3, <1>4, <1>5, <1>7, <1>8, <2>1, <2>2 DEF InOrder, ReviewsTheDone, Done
<1>12. VersionUnderReview'
  BY <1>1, <1>4, <1>5 DEF InOrder, VersionUnderReview, OneVersionToReview, SentBackIsNotReviewed, ReadyVersions
<1> QED BY <1>9, <1>10, <1>11, <1>12 DEF InOrder

\* An attempt that is handed out, judged, thrown or lost is still the only one.
LEMMA AttemptInOrder ==
    ASSUME IInv, InOrder, NEW w \in Workers,
           Take(w) \/ Reject(w) \/ Throw(w) \/ WorkerDies(w)
    PROVE  InOrder'
<1>1. UNCHANGED <<status, approved, assets, request>>
  BY DEF Take, Reject, Throw, WorkerDies, Episode
<1>2. worker \in [Workers -> {Resting} \cup Attempt] /\ Queueing' = Queueing
  BY <1>1 DEF IInv, TypeOK, Queueing
<1>3. CASE Take(w)
  <2>1. PICK job \in jobs :
          /\ jobs' = jobs \ {job}
          /\ IF Done(job.version) THEN UNCHANGED worker
             ELSE worker' = [worker EXCEPT ![w] = [job |-> job, at |-> "read", owns |-> TRUE]]
    BY <1>3 DEF Take
  <2>2. /\ Queueing = {} /\ Working = {} /\ ~Done(job.version) /\ jobs = {job}
    BY <2>1 DEF InOrder, OneAtWork
  <2>3. jobs' = {} /\ Working' \subseteq {w} /\ worker'[w].job = job
    BY <1>2, <2>1, <2>2 DEF Working
  <2>4. OneAtWork'
    BY <1>1, <1>2, <2>2, <2>3 DEF OneAtWork, Working, On, Done
  <2> QED BY <1>1, <2>4, SameRows
<1>4. CASE Reject(w) \/ Throw(w) \/ WorkerDies(w)
  <2>1. w \in Working
    BY <1>4, AtStage DEF Reject, Throw, WorkerDies, Working
  <2>2. Working = {w} /\ Queueing = {} /\ jobs = {} /\ ~Done(On(w))
    BY <2>1 DEF InOrder, OneAtWork
  <2>3. PICK job \in Job : job = worker[w].job
    BY <2>1, Busy DEF Working
  <2>4. \/ jobs' = {} /\ \A u \in Workers : worker'[u] # Resting => u = w /\ worker'[w].job = job
        \/ /\ \A u \in Workers : worker'[u] = Resting
           /\ \E again \in {job, [job EXCEPT !.tries = @ + 1]} : jobs' = {again}
    <3>1. \A u \in Workers \ {w} : worker[u] = Resting
      BY <2>2 DEF Working
    <3>2. worker[w] \in Attempt
      BY <2>1, Busy DEF Working
    <3>3. CASE Rests(w)
      <4>1. \A u \in Workers : worker'[u] = Resting
        BY <1>2, <3>1, <3>3 DEF Rests
      <4>2. jobs' \in {{}, {job}, {[job EXCEPT !.tries = @ + 1]}}
        BY <1>4, <2>2, <2>3 DEF Reject, Throw, WorkerDies
      <4> QED BY <4>1, <4>2
    <3>4. ASSUME ~Rests(w) PROVE jobs' = jobs /\ worker'[w].job = job /\ \A u \in Workers \ {w} : worker'[u] = worker[u]
      <4>1. CASE Reject(w)
        BY <1>2, <2>3, <3>2, <4>1 DEF Reject, Moves, Attempt
      <4>2. CASE Throw(w)
        BY <1>2, <2>3, <3>2, <3>4, <4>2 DEF Throw, Attempt
      <4> QED BY <1>4, <3>4, <4>1, <4>2 DEF WorkerDies
    <3> QED BY <2>2, <3>1, <3>3, <3>4
  <2>5. \A again \in {job, [job EXCEPT !.tries = @ + 1]} : again.version = job.version
    BY DEF Job
  <2>6. ~Done(job.version)
    BY <2>2, <2>3 DEF On
  <2>7. OneAtWork'
    <3>1. CASE jobs' = {} /\ \A u \in Workers : worker'[u] # Resting => u = w /\ worker'[w].job = job
      BY <1>1, <1>2, <2>2, <2>6, <3>1 DEF OneAtWork, Working, On, Done
    <3>2. ASSUME \A u \in Workers : worker'[u] = Resting,
                 NEW again \in {job, [job EXCEPT !.tries = @ + 1]}, jobs' = {again}
          PROVE  OneAtWork'
      BY <1>1, <1>2, <2>2, <2>5, <2>6, <3>2 DEF OneAtWork, Working, Done
    <3> QED BY <2>4, <3>1, <3>2
  <2> QED BY <1>1, <2>7, SameRows
<1> QED BY <1>3, <1>4

\* The attempt at work is at the newest version, for which the episode waits.
LEMMA TheAttempt ==
    ASSUME IInv, InOrder, NEW w \in Workers, worker[w] # Resting
    PROVE  /\ Working = {w} /\ Queueing = {} /\ jobs = {}
           /\ On(w) \in DOMAIN assets /\ ~Done(On(w)) /\ On(w) = Latest
           /\ status = "PROCESSING" /\ assets[On(w)].verdict = "NONE"
           /\ \A v \in DOMAIN assets : v # On(w) => Done(v)
<1>1. w \in Working /\ On(w) \in DOMAIN assets
  BY Busy DEF Working, On
<1>2. Working = {w} /\ Queueing = {} /\ jobs = {} /\ ~Done(On(w))
  BY <1>1 DEF InOrder, OneAtWork
<1> QED BY <1>1, <1>2 DEF InOrder, NewestWaits

\* Its end leaves nothing at work.
LEMMA AttemptOver ==
    ASSUME IInv, InOrder, NEW w \in Workers, worker[w] # Resting, Rests(w), UNCHANGED <<jobs, request>>
    PROVE  OneAtWork'
<1>1. Working = {w} /\ Queueing = {} /\ jobs = {}
  BY TheAttempt
<1>2. Working' = {} /\ Queueing' = {} /\ jobs' = {}
  BY <1>1 DEF Rests, Working, Queueing, IInv, TypeOK
<1> QED BY <1>2 DEF OneAtWork

\* What a review may rely on stands as long as what is done stays done.
LEMMA ReviewsStand ==
    ASSUME IInv, InOrder, approved' = approved, request' = request,
           \A v \in DOMAIN assets : Done(v) => assets'[v].ingest \in DONE
    PROVE  ReviewsTheDone'
<1>1. approved # 0 => approved \in DOMAIN assets
  BY Numbers DEF IInv, TypeOK
<1>2. \A q \in Requests : request[q].at \in {"approve", "changes"} => request[q].version \in DOMAIN assets
  BY DEF IInv, VersionsKnown
<1> QED BY <1>1, <1>2 DEF InOrder, ReviewsTheDone, Done

\* A step of the attempt keeps its version busy.
LEMMA StepInOrder == ASSUME IInv, InOrder, NEW w \in Workers, Step(w) PROVE InOrder'
<1> DEFINE v == On(w)
<1>1. worker[w] # Resting
  BY AtStage DEF Step
<1>2. /\ Working = {w} /\ Queueing = {} /\ jobs = {}
      /\ v \in DOMAIN assets /\ ~Done(v) /\ v = Latest
      /\ status = "PROCESSING" /\ assets[v].verdict = "NONE"
      /\ \A u \in DOMAIN assets : u # v => Done(u)
  BY <1>1, TheAttempt
<1>3. /\ Latest' = Latest /\ DOMAIN assets' = DOMAIN assets
      /\ assets'[v].ingest = "WORKING" /\ assets'[v].verdict = assets[v].verdict
      /\ \A u \in DOMAIN assets : u # v => assets'[u] = assets[u]
  BY <1>2, IngestWritten DEF Step, IInv, TypeOK, IngestStatus
<1>4. /\ UNCHANGED <<status, approved, jobs, request>>
      /\ \E at \in {"step", "laststep"} : worker' = [worker EXCEPT ![w].at = at]
  BY DEF Step, Moves, Episode
<1>5. Working' = {w} /\ Queueing' = {} /\ jobs' = {} /\ worker'[w].job = worker[w].job
  <2>1. worker[w] \in Attempt /\ worker \in [Workers -> {Resting} \cup Attempt]
    BY <1>1, Busy DEF IInv, TypeOK
  <2>2. PICK at \in {"step", "laststep"} : worker' = [worker EXCEPT ![w] = [worker[w] EXCEPT !.at = at]]
    BY <1>4, <2>1
  <2>3. worker'[w].job = worker[w].job /\ worker'[w].at \in {"step", "laststep"}
    BY <2>1, <2>2 DEF Attempt
  <2>4. \A u \in Workers \ {w} : worker'[u] = worker[u]
    BY <2>1, <2>2
  <2>5. worker'[w] # Resting
    BY <2>3 DEF Resting
  <2>6. Working' = {w}
    BY <1>2, <2>4, <2>5 DEF Working
  <2> QED BY <1>2, <1>4, <2>3, <2>6 DEF Queueing
<1>6. OneAtWork'
  BY <1>3, <1>5 DEF OneAtWork, On, Done, DONE
<1>7. /\ \A u \in DOMAIN assets : Done(u)' <=> Done(u)
      /\ ReadyVersions' = ReadyVersions
  BY <1>2, <1>3 DEF Done, DONE, ReadyVersions
<1>8. NewestWaits' /\ OneReady'
  BY <1>2, <1>3, <1>4, <1>7 DEF NewestWaits, InOrder, OneReady
<1>9. ReviewsTheDone'
  BY <1>4, <1>7, ReviewsStand DEF Done
<1>10. VersionUnderReview'
  BY <1>2, <1>3, <1>4, <1>7
     DEF InOrder, VersionUnderReview, OneVersionToReview, SentBackIsNotReviewed, ReadyVersions
<1> QED BY <1>6, <1>8, <1>9, <1>10 DEF InOrder

\* There is no newer version, so the attempt goes on to make its version READY.
LEMMA ReadyOrSupersededInOrder ==
    ASSUME IInv, InOrder, NEW w \in Workers, ReadyOrSuperseded(w)
    PROVE  InOrder'
<1>1. worker[w] # Resting
  BY AtStage DEF ReadyOrSuperseded
<1>2. On(w) = Latest /\ Latest \in Nat
  BY <1>1, TheAttempt, Numbers DEF IInv
<1>3. Moves(w, "ready") /\ UNCHANGED <<status, approved, assets, jobs, request>>
  BY <1>2 DEF ReadyOrSuperseded, Episode
<1>4. \A u \in Workers : worker'[u] # Resting => worker[u] # Resting /\ worker'[u].job = worker[u].job
  <2>1. worker[w] \in Attempt
    BY <1>1, Busy
  <2> QED BY <1>1, <1>3, <2>1 DEF Moves, IInv, TypeOK, Attempt
<1>5. OneAtWork'
  BY <1>3, <1>4, SameWork DEF InOrder
<1> QED BY <1>3, <1>5, SameRows

\* The newest version becomes READY, and the others are not any more.
LEMMA BecomesReadyInOrder == ASSUME IInv, InOrder, NEW w \in Workers, BecomesReady(w) PROVE InOrder'
<1> DEFINE v == On(w)
<1>1. worker[w] # Resting
  BY AtStage DEF BecomesReady
<1>2. /\ v \in DOMAIN assets /\ ~Done(v) /\ v = Latest
      /\ status = "PROCESSING" /\ assets[v].verdict = "NONE"
      /\ \A u \in DOMAIN assets : u # v => Done(u)
  BY <1>1, TheAttempt
<1>3. Ready(v) /\ Rests(w) /\ UNCHANGED <<jobs, request>>
  BY <1>2 DEF BecomesReady
<1>4. DOMAIN assets = 1..Latest /\ Latest \in Nat /\ \A u \in DOMAIN assets : assets[u] \in Asset
  BY Numbers DEF IInv
<1>5. DOMAIN assets' = DOMAIN assets /\ Latest' = Latest
  <2>1. TypeOK'
    BY BecomesReadyStep DEF IInv
  <2>2. Latest' \in Nat /\ DOMAIN assets' = 1..Latest'
    BY <2>1 DEF TypeOK, Latest
  <2>3. DOMAIN assets' = DOMAIN assets
    BY <1>3 DEF Ready
  <2> QED BY <1>4, <2>2, <2>3
<1>6. /\ assets'[v].ingest = "READY" /\ assets'[v].verdict = "NONE"
      /\ \A u \in DOMAIN assets : u # v =>
           IF assets[u].ingest = "READY" THEN assets'[u].ingest = "SUPERSEDED" ELSE assets'[u] = assets[u]
      /\ status' = "IN_REVIEW" /\ approved' = approved
  <2>1. \A u \in DOMAIN assets : u # v => u < v
    BY <1>2, <1>4
  <2> QED BY <1>2, <1>3, <1>4, <2>1 DEF Ready, Asset
<1>7. \A u \in DOMAIN assets : assets'[u].ingest \in DONE
  BY <1>2, <1>6 DEF Done, DONE
<1>8. ReadyVersions' = {v}
  BY <1>2, <1>5, <1>6 DEF ReadyVersions
<1>9. OneAtWork'
  BY <1>1, <1>3, AttemptOver
<1>10. NewestWaits'
  BY <1>5, <1>7 DEF NewestWaits, Done
<1>11. ReviewsTheDone'
  BY <1>3, <1>6, <1>7, ReviewsStand
<1>12. OneReady'
  BY <1>8 DEF OneReady
<1>13. VersionUnderReview'
  <2>1. Cardinality(ReadyVersions') <= 1
    BY <1>8, FS_Singleton
  <2>2. \A u \in DOMAIN assets : ~(u > v)
    BY <1>2, <1>4
  <2> QED BY <1>5, <1>6, <1>8, <2>1, <2>2
          DEF VersionUnderReview, OneVersionToReview, SentBackIsNotReviewed
<1> QED BY <1>9, <1>10, <1>11, <1>12, <1>13 DEF InOrder

\* Where an episode stands that is given back: under review only with a READY version
\* that was not sent back.
LEMMA GivenBackInOrder ==
    ASSUME IInv, InOrder, NEW versions, ReadyVersions \subseteq versions
    PROVE  StatusWithoutPending(versions) = "IN_REVIEW" =>
             /\ ReadyVersions # {}
             /\ \A v \in ReadyVersions : assets[v].verdict # "CHANGES_REQUESTED"
<1>1. SUFFICES ASSUME StatusWithoutPending(versions) = "IN_REVIEW"
               PROVE  /\ ReadyVersions # {}
                      /\ \A v \in ReadyVersions : assets[v].verdict # "CHANGES_REQUESTED"
  OBVIOUS
<1>2. ReadyVersions \cap versions = ReadyVersions
  OBVIOUS
<1>3. ReadyVersions # {} /\ assets[Max(ReadyVersions)].verdict # "CHANGES_REQUESTED"
  BY <1>1, <1>2 DEF StatusWithoutPending
<1>4. PICK v \in ReadyVersions : ReadyVersions = {v}
  BY <1>3 DEF InOrder, OneReady
<1>5. v \in Nat
  BY DEF ReadyVersions, IInv, TypeOK
<1>6. Max(ReadyVersions) = v
  BY <1>4, <1>5 DEF Max
<1> QED BY <1>3, <1>4, <1>6

\* The newest version fails and the episode is given back, or what was at work had
\* been failed before.
LEMMA FailAttemptInOrder == ASSUME IInv, InOrder, NEW w \in Workers, FailAttempt(w) PROVE InOrder'
<1> DEFINE v == On(w)
<1>1. worker[w] # Resting
  BY AtStage DEF FailAttempt
<1>2. /\ v \in DOMAIN assets /\ ~Done(v) /\ v = Latest
      /\ status = "PROCESSING"
      /\ \A u \in DOMAIN assets : u # v => Done(u)
  BY <1>1, TheAttempt
<1>3. CASE Moves(w, "fail") /\ UNCHANGED <<status, approved, assets, jobs, request>>
  <2>1. \A u \in Workers : worker'[u] # Resting => worker[u] # Resting /\ worker'[u].job = worker[u].job
    <3>1. worker[w] \in Attempt
      BY <1>1, Busy
    <3> QED BY <1>1, <1>3, <3>1 DEF Moves, IInv, TypeOK, Attempt
  <2>2. OneAtWork'
    BY <1>3, <2>1, SameWork DEF InOrder
  <2> QED BY <1>3, <2>2, SameRows
<1>4. CASE Fail(v) /\ Rests(w) /\ UNCHANGED <<jobs, request>>
  <2>1. /\ Latest' = Latest /\ DOMAIN assets' = DOMAIN assets
        /\ assets'[v].ingest = "FAILED"
        /\ \A u \in DOMAIN assets : u # v => assets'[u] = assets[u]
    BY <1>2, <1>4, IngestWritten DEF Fail, IInv, TypeOK, IngestStatus
  <2>2. status' = StatusWithoutPending(DOMAIN assets \ {v}) /\ approved' = approved
    BY <1>2, <1>4 DEF Fail
  <2>3. \A u \in DOMAIN assets : assets'[u].ingest \in DONE
    BY <1>2, <2>1 DEF Done, DONE
  <2>4. v \notin ReadyVersions /\ ReadyVersions \subseteq DOMAIN assets \ {v}
    BY <1>2 DEF ReadyVersions, Done, DONE
  <2>5. ReadyVersions' = ReadyVersions
    BY <2>1, <2>4 DEF ReadyVersions
  <2>6. OneAtWork'
    BY <1>1, <1>4, AttemptOver
  <2>7. NewestWaits' /\ OneReady'
    BY <2>1, <2>3, <2>5 DEF NewestWaits, Done, InOrder, OneReady
  <2>8. ReviewsTheDone'
    BY <1>4, <2>2, <2>3, ReviewsStand
  <2>9. status' = "IN_REVIEW" =>
          ReadyVersions # {} /\ \A u \in ReadyVersions : assets[u].verdict # "CHANGES_REQUESTED"
    BY <2>2, <2>4, GivenBackInOrder
  <2>10. \A u \in ReadyVersions, x \in DOMAIN assets : x > u => assets'[x].ingest # "SUPERSEDED"
    BY <2>1 DEF InOrder, VersionUnderReview, OneVersionToReview
  <2>11. VersionUnderReview'
    BY <2>1, <2>4, <2>5, <2>9, <2>10
       DEF InOrder, VersionUnderReview, OneVersionToReview, SentBackIsNotReviewed
  <2> QED BY <2>6, <2>7, <2>8, <2>11 DEF InOrder
<1> QED BY <1>2, <1>3, <1>4 DEF FailAttempt, Episode

\* A restart fails what was at work, and gives the episode back if it waited.
LEMMA RestartInOrder == ASSUME IInv, InOrder, Restart PROVE InOrder'
<1>1. /\ jobs' = {} /\ worker' = [w \in Workers |-> Resting] /\ request' = [r \in Requests |-> Free]
      /\ approved' = approved
      /\ assets' = [v \in DOMAIN assets |->
                      IF Done(v) THEN assets[v] ELSE [assets[v] EXCEPT !.ingest = "FAILED"]]
      /\ status' = IF status = "PROCESSING" /\ Latest > 0 /\ ~Done(Latest)
                   THEN StatusWithoutPending(DOMAIN assets) ELSE status
  BY DEF Restart
<1>2. /\ Latest \in Nat /\ DOMAIN assets = 1..Latest
      /\ \A v \in DOMAIN assets : assets[v] \in Asset
  BY Numbers DEF IInv
<1>3. DOMAIN assets' = DOMAIN assets
  BY <1>1
<1>4. \A v \in DOMAIN assets :
        /\ assets'[v].ingest \in DONE
        /\ assets'[v].verdict = assets[v].verdict
        /\ Done(v) => assets'[v] = assets[v]
        /\ ~Done(v) => assets'[v].ingest = "FAILED"
  BY <1>1, <1>2 DEF Asset, Done, DONE
<1>5. ReadyVersions' = ReadyVersions
  BY <1>3, <1>4 DEF ReadyVersions, Done, DONE
<1>6. Queueing' = {} /\ Working' = {}
  BY <1>1 DEF Queueing, Working, Free
<1>7. OneAtWork'
  BY <1>1, <1>6 DEF OneAtWork
<1>8. NewestWaits' /\ OneReady'
  BY <1>3, <1>4, <1>5 DEF NewestWaits, Done, InOrder, OneReady
<1>9. ReviewsTheDone'
  <2>1. approved # 0 => approved \in DOMAIN assets
    BY <1>2 DEF IInv, TypeOK
  <2> QED BY <1>1, <1>4, <2>1 DEF ReviewsTheDone, Done, Free
<1>10. status' = "IN_REVIEW" =>
         ReadyVersions # {} /\ \A u \in ReadyVersions : assets[u].verdict # "CHANGES_REQUESTED"
  <2>1. ReadyVersions \subseteq DOMAIN assets
    BY DEF ReadyVersions
  <2>2. StatusWithoutPending(DOMAIN assets) = "IN_REVIEW" =>
          ReadyVersions # {} /\ \A u \in ReadyVersions : assets[u].verdict # "CHANGES_REQUESTED"
    BY <2>1, GivenBackInOrder
  <2>3. status = "IN_REVIEW" =>
          ReadyVersions # {} /\ \A u \in ReadyVersions : assets[u].verdict # "CHANGES_REQUESTED"
    BY DEF InOrder, VersionUnderReview, OneVersionToReview, SentBackIsNotReviewed
  <2> QED BY <1>1, <2>2, <2>3
<1>11. \A u \in ReadyVersions, x \in DOMAIN assets : x > u => assets'[x].ingest # "SUPERSEDED"
  BY <1>4 DEF InOrder, VersionUnderReview, OneVersionToReview
<1>12. \A u \in ReadyVersions : assets'[u].verdict = assets[u].verdict
  BY <1>4 DEF ReadyVersions
<1>13. VersionUnderReview'
  BY <1>3, <1>5, <1>10, <1>11, <1>12
     DEF InOrder, VersionUnderReview, OneVersionToReview, SentBackIsNotReviewed
<1> QED BY <1>7, <1>8, <1>9, <1>13 DEF InOrder

-----------------------------------------------------------------------------
(* The theorems.                                                            *)

\* Every step keeps the invariant.
LEMMA Inductive == IInv /\ [Next]_vars => IInv'
<1> SUFFICES ASSUME IInv, [Next]_vars PROVE IInv'
  OBVIOUS
<1>1. ASSUME NEW r \in Requests, Begin(r) \/ RequestStep(r) \/ RequestDies(r) PROVE IInv'
  BY <1>1, RequestReads, CreateVersionStep, ReopenStep, EnqueueStep, FailUnqueuedStep, ReviewStep
     DEF RequestStep
<1>2. ASSUME NEW w \in Workers, AttemptStep(w) \/ Stall(w) \/ WorkerDies(w) PROVE IInv'
  BY <1>2, TakeStep, StepStep, ReadyOrSupersededStep, BecomesReadyStep, AttemptFaults, FailAttemptStep
     DEF AttemptStep
<1>3. CASE UNCHANGED vars
  BY <1>3 DEF vars, IInv, TypeOK, VersionsKnown, ProcessingIsHeld, Latest, Done, On
<1> QED BY <1>1, <1>2, <1>3, CancelProjectStep, RestartStep DEF Next

\* The inductive invariant holds in every reachable state.
THEOREM Invariance == Spec => []IInv
  BY Initially, Inductive, PTL DEF Spec

\* The rows, jobs and attempts keep their types, and the approved version is one of
\* the episode's own exactly while it is past review.
THEOREM TypeCorrect == Spec => []TypeOK
<1>1. IInv => TypeOK
  BY DEF IInv
<1> QED BY <1>1, Invariance, PTL

\* Whatever races, stalls, times out or dies: an episode in PROCESSING waits for its
\* newest version, and that version is not done (media-outcome.service.ts: every
\* outcome gives the episode back).
THEOREM HeldWhileProcessing == Spec => []ProcessingIsHeld
<1>1. IInv => ProcessingIsHeld
  BY DEF IInv
<1> QED BY <1>1, Invariance, PTL

\* To begin with there is no version.
LEMMA InitiallyInTurn == Init => InTurn
<1> SUFFICES ASSUME Init PROVE InOrder
  BY DEF InTurn
<1>1. assets = <<>> /\ jobs = {} /\ Queueing = {} /\ Working = {} /\ approved = 0
      /\ status = "AWAITING_MEDIA" /\ \A r \in Requests : request[r] = Free
  BY DEF Init, Queueing, Working, Free
<1>2. ReadyVersions = {} /\ DOMAIN assets = {}
  BY <1>1 DEF ReadyVersions
<1>3. OneAtWork /\ NewestWaits /\ ReviewsTheDone /\ OneReady
  BY <1>1, <1>2 DEF OneAtWork, NewestWaits, ReviewsTheDone, OneReady, Free
<1>4. VersionUnderReview
  BY <1>1, <1>2, FS_EmptySet DEF VersionUnderReview, OneVersionToReview, SentBackIsNotReviewed
<1> QED BY <1>3, <1>4 DEF InOrder

\* Every step that is no retry and goes not astray keeps the versions in turn.
LEMMA StaysInTurn == ASSUME IInv, InTurn, [Next]_vars PROVE InTurn'
<1>1. faults \in [Fault -> Nat]
  BY DEF IInv, TypeOK
<1>2. SUFFICES ASSUME Undisturbed' PROVE InOrder'
  BY DEF InTurn
<1>3. ASSUME NEW r \in Requests, Begin(r) \/ RequestStep(r) \/ RequestDies(r) PROVE InOrder'
  <2>1. ~Reopen(r) /\ ~EnqueueTimesOut(r)
    BY <1>1, <1>2 DEF Reopen, EnqueueTimesOut, Count, Undisturbed, Fault
  <2>2. InOrder
    BY <1>1, <1>2, <1>3, <2>1
       DEF InTurn, Undisturbed, Fault, Begin, RequestStep, RequestDies, CreateVersion, CheckLatest,
           Enqueue, FailUnqueued, Approve, RequestChanges, Refused, Count
  <2>3. ~FailUnqueued(r)
    BY <2>2 DEF InOrder, ReviewsTheDone, FailUnqueued
  <2> QED
    BY <1>3, <2>1, <2>2, <2>3, RequestReadsInOrder, CreateVersionInOrder, EnqueueInOrder, ReviewInOrder
       DEF RequestStep
<1>4. ASSUME NEW w \in Workers, AttemptStep(w) \/ Stall(w) \/ WorkerDies(w) PROVE InOrder'
  <2>1. ~Stall(w)
    BY <1>1, <1>2 DEF Stall, Count, Undisturbed, Fault
  <2>2. InOrder
    BY <1>1, <1>2, <1>4, <2>1
       DEF InTurn, Undisturbed, Fault, AttemptStep, WorkerDies, Take, Step, ReadyOrSuperseded,
           BecomesReady, Reject, Throw, FailAttempt, Count
  <2> QED
    BY <1>4, <2>1, <2>2, AttemptInOrder, StepInOrder, ReadyOrSupersededInOrder, BecomesReadyInOrder,
       FailAttemptInOrder DEF AttemptStep
<1>5. CASE CancelProject
  <2>1. UNCHANGED <<status, approved, assets, jobs, worker, request, faults>>
    BY <1>5 DEF CancelProject, Episode, Queue
  <2>2. InOrder
    BY <1>2, <2>1 DEF InTurn, Undisturbed
  <2>3. OneAtWork'
    BY <2>1, <2>2, SameWork DEF InOrder
  <2> QED BY <2>1, <2>2, <2>3, SameRows
<1>6. CASE Restart
  <2>1. InOrder
    BY <1>1, <1>2, <1>6 DEF InTurn, Undisturbed, Fault, Restart, Count
  <2> QED BY <1>6, <2>1, RestartInOrder
<1>7. CASE UNCHANGED vars
  <2>1. UNCHANGED <<status, approved, assets, jobs, worker, request, faults>>
    BY <1>7 DEF vars
  <2>2. InOrder
    BY <1>2, <2>1 DEF InTurn, Undisturbed
  <2>3. OneAtWork'
    BY <2>1, <2>2, SameWork DEF InOrder
  <2> QED BY <2>1, <2>2, <2>3, SameRows
<1> QED BY <1>3, <1>4, <1>5, <1>6, <1>7 DEF Next

\* As long as nothing is processed again, stalls or is left unacknowledged, review has one
\* version in front of it, the newest that did not fail, and never one that was sent back
\* (media-outcome.service.ts).
THEOREM OneAtATime == Spec => [](Undisturbed => VersionUnderReview)
<1>1. Init => IInv /\ InTurn
  BY Initially, InitiallyInTurn
<1>2. IInv /\ InTurn /\ [Next]_vars => IInv' /\ InTurn'
  BY Inductive, StaysInTurn
<1>3. InTurn => (Undisturbed => VersionUnderReview)
  BY DEF InTurn, InOrder
<1> QED BY <1>1, <1>2, <1>3, PTL DEF Spec
=============================================================================
