---------------------------- MODULE ReleaseProofs ----------------------------
(***************************************************************************)
(* Proofs about Release, for any episodes, requests and bounds: IInv is    *)
(* inductive, so nothing unvetted is out, an episode that is out has a     *)
(* live release and a withdrawn release never goes out, and Release        *)
(* implements ReleaseGate.                                                 *)
(* A step works on one episode; Story says of one episode what IInv says   *)
(* of all.                                                                 *)
(***************************************************************************)
EXTENDS Release, TLAPS

Versioned == Reviewed \cup {"SCHEDULED"} \cup Out

EpisodesOK ==
    /\ episode \in [Episodes -> Row]
    /\ \A e \in Episodes : episode[e].approved # 0 <=> episode[e].status \in Versioned

LEMMA PendingFacts ==
  ASSUME NEW e, NEW p \in PendingOf(e)
  PROVE  p \in DOMAIN publication /\ publication[p].episode = e /\ Pending(p)
BY DEF PendingOf

LEMMA EpisodeFacts ==
  ASSUME TypeOK, NEW e \in Episodes
  PROVE  /\ episode[e].status \in EpisodeStatus /\ episode[e].approved \in 0..MaxVersions
         /\ episode[e].priced \in BOOLEAN /\ episode[e].revising \in BOOLEAN
         /\ episode[e] = [status |-> episode[e].status, approved |-> episode[e].approved,
                          priced |-> episode[e].priced, revising |-> episode[e].revising]
         /\ episode[e].approved # 0 <=> episode[e].status \in Versioned
         /\ episode[e].approved # 0 => episode[e].approved \in Versions
<1>1. episode[e] \in Row /\ (episode[e].approved # 0 <=> episode[e].status \in Versioned)
  BY DEF TypeOK, Versioned
<1>2. MaxVersions \in Nat
  BY ConstantsAssumption
<1>. QED
  BY <1>1, <1>2 DEF Row, Versions

LEMMA ReadingFacts ==
  ASSUME TypeOK, NEW r \in Actors, req[r].op \notin {"idle", "cancel"}
  PROVE  /\ req[r] \in Reading
         /\ req[r].e \in Episodes
         /\ req[r].v \in 0..MaxVersions /\ req[r].p \in Nat /\ req[r].last \in BOOLEAN
         /\ req[r].v # 0 => req[r].v \in Versions
<1>1. req[r] \in Reading \cup {Idle, Cancelling}
  BY DEF TypeOK
<1>2. req[r] \in Reading
  BY <1>1 DEF Idle, Cancelling
<1>3. MaxVersions \in Nat
  BY ConstantsAssumption
<1>. QED
  BY <1>2, <1>3 DEF Reading, Versions

-----------------------------------------------------------------------------
(* Writes of one row.                                                       *)

LEMMA RowWritten ==
  ASSUME TypeOK, NEW e \in Episodes, NEW row \in Row,
         row.approved # 0 <=> row.status \in Versioned, episode' = [episode EXCEPT ![e] = row]
  PROVE  /\ EpisodesOK' /\ episode'[e] = row
         /\ \A f \in Episodes \ {e} : episode'[f] = episode[f]
BY DEF TypeOK, EpisodesOK, Versioned

\* The releases of an episode are as before.
SameReleases(f) ==
    /\ PendingOf(f)' = PendingOf(f)
    /\ \A p \in DOMAIN publication : publication[p].episode = f =>
          p \in DOMAIN publication' /\ publication'[p] = publication[p]

LEMMA Untouched == ASSUME publication' = publication, NEW f PROVE SameReleases(f)
BY DEF SameReleases, PendingOf, Pending

\* Every release keeps its episode.
KeptEpisodes ==
    \A p \in DOMAIN publication :
        p \in DOMAIN publication' /\ publication'[p].episode = publication[p].episode

LEMMA ReleaseWritten ==
  ASSUME TypeOK, NEW p \in DOMAIN publication, NEW row \in Publication,
         row.episode = publication[p].episode, publication' = [publication EXCEPT ![p] = row]
  PROVE  /\ publication' \in Seq(Publication) /\ DOMAIN publication' = DOMAIN publication
         /\ publication'[p] = row
         /\ \A q \in DOMAIN publication : q # p => publication'[q] = publication[q]
         /\ KeptEpisodes
         /\ \A f : f # row.episode => SameReleases(f)
<1>1. publication \in Seq(Publication) /\ publication[p] \in Publication
  BY DEF TypeOK
<1>2. /\ publication' \in Seq(Publication) /\ DOMAIN publication' = DOMAIN publication
      /\ publication'[p] = row
      /\ \A q \in DOMAIN publication : q # p => publication'[q] = publication[q]
  BY <1>1
<1>3. KeptEpisodes
  BY <1>2 DEF KeptEpisodes
<1>4. ASSUME NEW f, f # row.episode PROVE SameReleases(f)
  BY <1>2, <1>4 DEF SameReleases, PendingOf, Pending
<1>. QED
  BY <1>2, <1>3, <1>4

LEMMA ReleaseGrown ==
  ASSUME NEW n, n \notin DOMAIN publication, DOMAIN publication' = DOMAIN publication \cup {n},
         NEW e, publication'[n].episode = e,
         \A q \in DOMAIN publication : publication'[q] = publication[q]
  PROVE  KeptEpisodes /\ \A f : f # e => SameReleases(f)
<1>1. KeptEpisodes
  BY DEF KeptEpisodes
<1>2. ASSUME NEW f, f # e PROVE SameReleases(f)
  BY <1>2 DEF SameReleases, PendingOf, Pending
<1>. QED
  BY <1>1, <1>2

LEMMA ReleaseAdded ==
  ASSUME TypeOK, NEW row \in Publication, publication' = Append(publication, row),
         NEW n, n = Len(publication) + 1
  PROVE  /\ publication' \in Seq(Publication) /\ DOMAIN publication' = DOMAIN publication \cup {n}
         /\ n \notin DOMAIN publication /\ publication'[n] = row
         /\ \A q \in DOMAIN publication : publication'[q] = publication[q]
         /\ KeptEpisodes /\ \A f : f # row.episode => SameReleases(f)
<1>1. publication \in Seq(Publication) /\ Len(publication) \in Nat
  BY DEF TypeOK
<1>2. /\ publication' \in Seq(Publication) /\ DOMAIN publication' = DOMAIN publication \cup {n}
      /\ n \notin DOMAIN publication /\ publication'[n] = row
      /\ \A q \in DOMAIN publication : publication'[q] = publication[q]
  BY <1>1
<1>. QED
  BY <1>2, ReleaseGrown

\* The row of a request.
LEMMA RequestWritten ==
  ASSUME TypeOK, NEW r \in Actors, NEW row \in Reading \cup {Idle, Cancelling},
         req' = [req EXCEPT ![r] = row]
  PROVE  /\ req' \in [Actors -> Reading \cup {Idle, Cancelling}] /\ req'[r] = row
         /\ \A q \in Actors \ {r} : req'[q] = req[q]
BY DEF TypeOK

LEMMA RequestsStand ==
  ASSUME RequestsHold, KeptEpisodes,
         \A r \in Actors : req'[r] = req[r] \/ req'[r].op \in {"idle", "cancel"}
  PROVE  RequestsHold'
BY DEF RequestsHold, KeptEpisodes

\* A request that is done.
LEMMA RequestDone ==
  ASSUME IInv, KeptEpisodes, NEW r \in Actors, req' = [req EXCEPT ![r] = Idle]
  PROVE  /\ req' \in [Actors -> Reading \cup {Idle, Cancelling}]
         /\ RequestsHold'
         /\ \A q \in Actors : req'[q].op = "out" => req'[q] = req[q] /\ q # r
<1>1. req' \in [Actors -> Reading \cup {Idle, Cancelling}] /\ req'[r] = Idle
      /\ \A q \in Actors \ {r} : req'[q] = req[q]
  BY RequestWritten DEF IInv
<1>2. \A q \in Actors : req'[q].op = "out" => req'[q] = req[q] /\ q # r
  BY <1>1 DEF Idle
<1>3. RequestsHold'
  BY <1>1, RequestsStand DEF IInv, Idle
<1>. QED
  BY <1>1, <1>2, <1>3

-----------------------------------------------------------------------------
(* A step on one episode.                                                   *)

Elsewhere(e) ==
    \A f \in Episodes \ {e} :
        /\ episode'[f] = episode[f] /\ SameReleases(f)
        /\ \A v \in Versions : Cleared(<<f, v>>) => Cleared(<<f, v>>)'

\* No release under way works on e, and none starts.
NotOut(e) == \A q \in Actors : req'[q].op = "out" => req'[q] = req[q] /\ req[q].e # e

LEMMA EpisodeStep ==
  ASSUME IInv, TypeOK', RequestsHold', NEW e \in Episodes, Elsewhere(e), Story(e)', NotOut(e)
  PROVE  IInv'
<1>1. TypeOK /\ ReleasesHold /\ \A f \in Episodes : Story(f)
  BY DEF IInv
<1>2. ASSUME NEW f \in Episodes \ {e} PROVE Story(f)'
  <2>1. /\ episode'[f] = episode[f] /\ SameReleases(f)
        /\ \A v \in Versions : Cleared(<<f, v>>) => Cleared(<<f, v>>)'
    BY DEF Elsewhere
  <2>2. Story(f)
    BY <1>1
  <2>3. /\ PendingOf(f)' = PendingOf(f)
        /\ \A p \in DOMAIN publication : publication[p].episode = f =>
              p \in DOMAIN publication' /\ publication'[p] = publication[p]
    BY <2>1 DEF SameReleases
  <2>4. episode'[f].status \in {"SCHEDULED", "PUBLISHED"} =>
            Cleared(<<f, episode[f].approved>>)' /\ episode'[f].priced
    <3>1. episode[f].status \in {"SCHEDULED", "PUBLISHED"} => episode[f].approved \in Versions
      BY <1>1, EpisodeFacts DEF Versioned, Out
    <3>. QED
      BY <2>1, <2>2, <3>1 DEF Story
  <2>5. episode'[f].status = "PUBLISHED" =>
            \E p \in DOMAIN publication' : publication'[p].episode = f /\ Live(p)'
    BY <2>1, <2>2, <2>3 DEF Story, Live
  <2>6. episode'[f].revising => episode'[f].status # "PUBLISHED"
    BY <2>1, <2>2 DEF Story
  <2>. QED
    BY <2>4, <2>5, <2>6 DEF Story
<1>3. ASSUME NEW r \in Actors, req'[r].op = "out"
      PROVE  LET f == req[r].e IN
             /\ req'[r] = req[r] /\ f \in Episodes /\ episode'[f] = episode[f]
             /\ episode[f].approved # 0 /\ Cleared(<<f, episode[f].approved>>)' /\ episode[f].priced
             /\ req[r].p # 0 => req[r].p \in PendingOf(f)'
             /\ \A q \in Actors \ {r} : req'[q].op = "out" => req'[q].e # f
  <2>. DEFINE f == req[r].e
  <2>1. req'[r] = req[r] /\ req[r].op = "out" /\ f # e
    BY <1>3 DEF NotOut
  <2>2. f \in Episodes
    BY <1>1, <2>1, ReadingFacts
  <2>3. /\ episode[f].approved # 0 /\ Cleared(<<f, episode[f].approved>>) /\ episode[f].priced
        /\ req[r].p # 0 => req[r].p \in PendingOf(f)
        /\ \A q \in Actors \ {r} : req[q].op = "out" => req[q].e # f
    BY <1>1, <2>1 DEF ReleasesHold
  <2>4. /\ episode'[f] = episode[f] /\ PendingOf(f)' = PendingOf(f)
        /\ \A v \in Versions : Cleared(<<f, v>>) => Cleared(<<f, v>>)'
    BY <2>1, <2>2 DEF Elsewhere, SameReleases
  <2>5. episode[f].approved \in Versions
    BY <1>1, <2>2, <2>3, EpisodeFacts
  <2>6. \A q \in Actors \ {r} : req'[q].op = "out" => req'[q].e # f
    BY <2>3 DEF NotOut
  <2>. QED
    BY <2>1, <2>2, <2>3, <2>4, <2>5, <2>6
<1>4. ReleasesHold'
  BY <1>3 DEF ReleasesHold
<1>. QED
  <2>1. \A f \in Episodes : Story(f)'
    BY <1>2
  <2>. QED
    BY <1>4, <2>1 DEF IInv

-----------------------------------------------------------------------------
(* Requests that read, and steps that write no episode.                     *)

LEMMA TypeFacts ==
  ASSUME TypeOK
  PROVE  /\ EpisodesOK /\ publication \in Seq(Publication)
         /\ req \in [Actors -> Reading \cup {Idle, Cancelling}]
         /\ labelled \subseteq Assets
         /\ checks \in [Assets -> [Items -> {"NONE", "PENDING", "PASS", "FAIL"}]]
BY DEF TypeOK, EpisodesOK, Versioned

\* The rows that do not belong to a request, an episode or a release.
RestOK ==
    /\ movie \in [status : Releasing \cup {"CANCELLED"}, described : BOOLEAN]
    /\ newest \in [Episodes -> 0..MaxVersions]
    /\ disclosed \subseteq Assets /\ labelled \subseteq Assets
    /\ checks \in [Assets -> [Items -> {"NONE", "PENDING", "PASS", "FAIL"}]]
    /\ failures \in 0..MaxFailures

LEMMA TypesHold ==
  ASSUME EpisodesOK', RestOK', publication' \in Seq(Publication), due' \subseteq DOMAIN publication',
         req' \in [Actors -> Reading \cup {Idle, Cancelling}]
  PROVE  TypeOK'
BY DEF TypeOK, EpisodesOK, RestOK, Versioned

LEMMA RestStands ==
  ASSUME TypeOK, UNCHANGED <<movie, newest, disclosed, labelled, checks, failures>>
  PROVE  RestOK'
BY DEF TypeOK, RestOK

LEMMA SameEpisodes == ASSUME TypeOK, episode' = episode PROVE EpisodesOK'
BY DEF TypeOK, EpisodesOK, Versioned

\* Nothing that Story or a release under way speaks of is written.
LEMMA QuietStep ==
  ASSUME IInv, UNCHANGED <<episode, publication, labelled, checks>>,
         TypeOK', RequestsHold', ReleasesHold'
  PROVE  IInv'
<1>1. ASSUME NEW e \in Episodes PROVE Story(e)'
  <2>1. Story(e)
    BY DEF IInv
  <2>. QED
    BY <2>1 DEF Story, Cleared, PendingOf, Pending, Live
<1>2. \A e \in Episodes : Story(e)'
  BY <1>1
<1>. QED
  BY <1>2 DEF IInv

LEMMA ReleasesStand ==
  ASSUME IInv, UNCHANGED <<episode, publication, labelled, checks>>,
         \A q \in Actors : req'[q].op = "out" => req'[q] = req[q]
  PROVE  ReleasesHold'
<1>1. ASSUME NEW r \in Actors, req'[r].op = "out"
      PROVE  /\ req'[r] = req[r]
             /\ episode[req[r].e].approved # 0 /\ Cleared(<<req[r].e, episode[req[r].e].approved>>)
             /\ episode[req[r].e].priced
             /\ req[r].p # 0 => req[r].p \in PendingOf(req[r].e)
             /\ \A q \in Actors \ {r} : req'[q].op = "out" => req'[q].e # req[r].e
  BY <1>1 DEF IInv, ReleasesHold
<1>. QED
  BY <1>1 DEF ReleasesHold, Cleared, PendingOf, Pending

LEMMA BeginStep ==
  ASSUME IInv, NEW r, NEW e \in Episodes, NEW v \in 0..MaxVersions, NEW p \in Nat,
         NEW op \in {"approve", "changes", "label", "comply", "price", "schedule", "release",
                     "revise", "remove", "withdraw"},
         op \in {"approve", "comply", "schedule", "release"} => v # 0,
         op = "remove" => episode[e].status = "PUBLISHED",
         op = "withdraw" => episode[e].status = "SCHEDULED",
         op \in {"revise", "remove", "withdraw"} =>
             p \in DOMAIN publication /\ publication[p].episode = e,
         Begin(r, op, e, v, p)
  PROVE  IInv'
<1>. DEFINE row == [op |-> op, e |-> e, v |-> v, p |-> p, last |-> FALSE,
                    status |-> IF op \in Compared THEN episode[e].status ELSE "any"]
<1>1. /\ r \in Actors /\ TypeOK /\ RequestsHold /\ req' = [req EXCEPT ![r] = row]
      /\ UNCHANGED <<movie, episode, newest, disclosed, labelled, checks, publication, due, failures>>
  BY DEF Begin, IInv, Media, Vetting, Actors
<1>2. row \in Reading
  <2>1. episode[e].status \in EpisodeStatus
    BY <1>1, EpisodeFacts
  <2>. QED
    BY <2>1 DEF Reading
<1>3. /\ req' \in [Actors -> Reading \cup {Idle, Cancelling}] /\ req'[r] = row
      /\ \A q \in Actors \ {r} : req'[q] = req[q]
  BY <1>1, <1>2, RequestWritten
<1>4. TypeOK'
  BY <1>1, <1>3, TypesHold, RestStands, SameEpisodes, TypeFacts DEF TypeOK
<1>5. RequestsHold'
  BY <1>1, <1>3 DEF RequestsHold, Compared
<1>6. ReleasesHold'
  BY <1>1, <1>3, ReleasesStand
<1>. QED
  BY <1>1, <1>4, <1>5, <1>6, QuietStep

\* A conflict, or any other roll-back.
LEMMA AbortStep ==
  ASSUME IInv, NEW r \in Actors, Abort(r)
  PROVE  IInv'
<1>1. /\ TypeOK /\ req' = [req EXCEPT ![r] = Idle]
      /\ UNCHANGED <<movie, episode, newest, disclosed, labelled, checks, publication, due>>
  BY DEF Abort, IInv, Media, Vetting
<1>2. KeptEpisodes
  BY <1>1 DEF KeptEpisodes
<1>3. /\ req' \in [Actors -> Reading \cup {Idle, Cancelling}] /\ RequestsHold'
      /\ \A q \in Actors : req'[q].op = "out" => req'[q] = req[q] /\ q # r
  BY <1>1, <1>2, RequestDone
<1>4. failures' \in 0..MaxFailures
  BY ConstantsAssumption DEF Abort, IInv, TypeOK
<1>5. TypeOK'
  BY <1>1, <1>3, <1>4, TypesHold, SameEpisodes, TypeFacts DEF TypeOK, RestOK
<1>6. ReleasesHold'
  BY <1>1, <1>3, ReleasesStand
<1>. QED
  BY <1>1, <1>3, <1>5, <1>6, QuietStep

LEMMA DescribeStep == ASSUME IInv, Describe PROVE IInv'
<1>1. /\ TypeOK /\ movie' = [movie EXCEPT !.described = ~@]
      /\ UNCHANGED <<episode, newest, disclosed, labelled, checks, publication, req, due, failures>>
  BY DEF Describe, IInv, Media, Vetting
<1>2. movie' \in [status : Releasing \cup {"CANCELLED"}, described : BOOLEAN]
  BY <1>1 DEF TypeOK
<1>3. TypeOK'
  BY <1>1, <1>2, TypesHold, SameEpisodes, TypeFacts DEF TypeOK, RestOK
<1>4. RequestsHold' /\ ReleasesHold'
  BY <1>1, RequestsStand, ReleasesStand DEF KeptEpisodes, IInv
<1>. QED
  BY <1>1, <1>3, <1>4, QuietStep

LEMMA BatchStep == ASSUME IInv, PublishDue PROVE IInv'
<1>1. /\ TypeOK /\ due' \subseteq DOMAIN publication
      /\ UNCHANGED <<movie, episode, newest, disclosed, labelled, checks, publication, req, failures>>
  BY DEF PublishDue, IInv, Media, Vetting
<1>2. TypeOK'
  BY <1>1, TypesHold, SameEpisodes, RestStands, TypeFacts
<1>3. RequestsHold' /\ ReleasesHold'
  BY <1>1, RequestsStand, ReleasesStand DEF KeptEpisodes, IInv
<1>. QED
  BY <1>1, <1>2, <1>3, QuietStep

\* A cancellation counts what was published.
LEMMA BeginCancelStep == ASSUME IInv, NEW r \in Requests, BeginCancel(r) PROVE IInv'
<1>1. /\ TypeOK /\ r \in Actors /\ req' = [req EXCEPT ![r] = Cancelling]
      /\ UNCHANGED <<movie, episode, newest, disclosed, labelled, checks, publication, due, failures>>
  BY DEF BeginCancel, IInv, Media, Vetting, Actors
<1>2. /\ req' \in [Actors -> Reading \cup {Idle, Cancelling}] /\ req'[r] = Cancelling
      /\ \A q \in Actors \ {r} : req'[q] = req[q]
  BY <1>1, RequestWritten
<1>3. TypeOK'
  BY <1>1, <1>2, TypesHold, SameEpisodes, RestStands, TypeFacts DEF TypeOK
<1>4. \A q \in Actors : req'[q] = req[q] \/ req'[q].op = "cancel"
  BY <1>2 DEF Cancelling
<1>5. RequestsHold' /\ ReleasesHold'
  BY <1>1, <1>4, RequestsStand, ReleasesStand DEF KeptEpisodes, IInv
<1>. QED
  BY <1>1, <1>3, <1>5, QuietStep

-----------------------------------------------------------------------------
(* Review, label, compliance and price: the releases stay as they are.      *)

LEMMA TransactionFacts ==
  ASSUME IInv, KeptEpisodes, NEW r \in Actors, NEW op, op \notin {"idle", "cancel"}, Transaction(r, op)
  PROVE  /\ req[r].op = op /\ req[r].e \in Episodes
         /\ req[r].v \in 0..MaxVersions
         /\ req[r].v # 0 => req[r].v \in Versions
         /\ req' \in [Actors -> Reading \cup {Idle, Cancelling}] /\ RequestsHold'
         /\ NotOut(req[r].e)
<1>1. req[r].op = op /\ Unlocked(req[r].e, r) /\ req' = [req EXCEPT ![r] = Idle] /\ TypeOK
  BY DEF Transaction, IInv
<1>2. /\ req[r].e \in Episodes
      /\ req[r].v \in 0..MaxVersions
      /\ req[r].v # 0 => req[r].v \in Versions
  BY <1>1, ReadingFacts
<1>3. /\ req' \in [Actors -> Reading \cup {Idle, Cancelling}] /\ RequestsHold'
      /\ \A q \in Actors : req'[q].op = "out" => req'[q] = req[q] /\ q # r
  BY <1>1, RequestDone
<1>4. NotOut(req[r].e)
  BY <1>1, <1>3 DEF NotOut, Unlocked
<1>. QED
  BY <1>1, <1>2, <1>3, <1>4

\* An episode gets a status that is neither out nor scheduled.
LEMMA ReviewStep ==
  ASSUME IInv, NEW e \in Episodes,
         NEW status \in EpisodeStatus \ {"SCHEDULED", "PUBLISHED"}, NEW approved \in 0..MaxVersions,
         approved # 0 <=> status \in Versioned,
         episode' = [episode EXCEPT ![e] = [episode[e] EXCEPT !.status = status, !.approved = approved]],
         UNCHANGED <<publication, due>>, RestOK',
         req' \in [Actors -> Reading \cup {Idle, Cancelling}], RequestsHold', NotOut(e),
         \A f \in Episodes \ {e}, v \in Versions : Cleared(<<f, v>>) => Cleared(<<f, v>>)'
  PROVE  IInv'
<1>1. TypeOK
  BY DEF IInv
<1>2. episode[e] \in Row
  BY <1>1 DEF TypeOK
<1>3. /\ EpisodesOK' /\ episode'[e].status = status
      /\ \A f \in Episodes \ {e} : episode'[f] = episode[f]
  <2>. DEFINE row == [episode[e] EXCEPT !.status = status, !.approved = approved]
  <2>1. row \in Row /\ row.status = status /\ row.approved = approved
    BY <1>2 DEF Row
  <2>2. episode' = [episode EXCEPT ![e] = row]
    OBVIOUS
  <2>. HIDE DEF row
  <2>. QED
    BY <1>1, <2>1, <2>2, RowWritten
<1>4. TypeOK'
  BY <1>1, <1>3, TypesHold DEF TypeOK
<1>5. Elsewhere(e)
  BY <1>3, Untouched DEF Elsewhere
<1>6. Story(e)'
  BY <1>3 DEF Story
<1>. QED
  BY <1>4, <1>5, <1>6, EpisodeStep

\* Labels and checks as they were keep what they clear.
LEMMA SameVetting ==
  ASSUME UNCHANGED <<labelled, checks>>, NEW a PROVE Cleared(a) => Cleared(a)'
BY DEF Cleared

LEMMA DeliverStep == ASSUME IInv, NEW e \in Episodes, Deliver(e) PROVE IInv'
<1>1. /\ TypeOK /\ episode[e].status \in {"AWAITING_MEDIA", "IN_REVIEW", "CHANGES_REQUESTED"}
      /\ episode' = [episode EXCEPT ![e].status = "IN_REVIEW"]
      /\ UNCHANGED <<movie, labelled, checks, publication, req, due, failures>>
  BY DEF Deliver, IInv, Vetting
<1>2. episode[e].approved = 0
  BY <1>1, EpisodeFacts DEF Versioned, Reviewed, Out
<1>3. RestOK'
  <2>1. newest[e] < MaxVersions /\ newest \in [Episodes -> 0..MaxVersions] /\ MaxVersions \in Nat
    BY <1>1, ConstantsAssumption DEF Deliver, TypeOK
  <2>2. newest[e] + 1 \in 0..MaxVersions /\ newest[e] + 1 \in Versions
    BY <2>1 DEF Versions
  <2>3. newest' = [newest EXCEPT ![e] = newest[e] + 1]
    BY DEF Deliver
  <2>4. newest' \in [Episodes -> 0..MaxVersions] /\ newest'[e] = newest[e] + 1
    BY <2>1, <2>2, <2>3
  <2>5. disclosed' \subseteq Assets
    <3>1. <<e, newest'[e]>> \in Assets
      BY <2>2, <2>4 DEF Assets
    <3>2. PICK commits \in Commitments :
             disclosed' = disclosed \cup IF commits THEN {<<e, newest'[e]>>} ELSE {}
      BY DEF Deliver
    <3>. QED
      BY <1>1, <3>1, <3>2 DEF TypeOK
  <2>. QED
    BY <1>1, <2>4, <2>5 DEF TypeOK, RestOK
<1>4. episode' = [episode EXCEPT ![e] = [episode[e] EXCEPT !.status = "IN_REVIEW", !.approved = 0]]
  BY <1>1, <1>2, EpisodeFacts
<1>5. req' \in [Actors -> Reading \cup {Idle, Cancelling}] /\ RequestsHold'
  BY <1>1, RequestsStand DEF IInv, TypeOK, KeptEpisodes
<1>6. NotOut(e)
  BY <1>1, <1>2 DEF NotOut, IInv, ReleasesHold
<1>7. "IN_REVIEW" \in EpisodeStatus \ {"SCHEDULED", "PUBLISHED"} /\ "IN_REVIEW" \notin Versioned
  BY DEF EpisodeStatus, Versioned, Reviewed, Out
<1>8. 0 \in 0..MaxVersions
  BY ConstantsAssumption
<1>. QED
  BY <1>1, <1>3, <1>4, <1>5, <1>6, <1>7, <1>8, SameVetting, ReviewStep

LEMMA ApproveStep == ASSUME IInv, NEW r \in Requests, Approve(r) PROVE IInv'
<1>. DEFINE e == req[r].e
<1>1. /\ TypeOK /\ r \in Actors /\ Transaction(r, "approve") /\ episode[e].status = "IN_REVIEW"
      /\ episode' = [episode EXCEPT ![e].status = "APPROVED", ![e].approved = req[r].v]
      /\ UNCHANGED <<movie, newest, disclosed, labelled, checks, publication, due, failures>>
  BY DEF Approve, IInv, Media, Vetting, Actors
<1>2. /\ e \in Episodes /\ req[r].v \in 0..MaxVersions /\ req[r].op = "approve"
      /\ req' \in [Actors -> Reading \cup {Idle, Cancelling}] /\ RequestsHold' /\ NotOut(e)
  BY <1>1, TransactionFacts DEF KeptEpisodes
<1>3. req[r].v # 0
  BY <1>1, <1>2 DEF IInv, RequestsHold
<1>4. episode' = [episode EXCEPT ![e] = [episode[e] EXCEPT !.status = "APPROVED", !.approved = req[r].v]]
  BY <1>1, <1>2, EpisodeFacts
<1>5. "APPROVED" \in EpisodeStatus \ {"SCHEDULED", "PUBLISHED"} /\ "APPROVED" \in Versioned
  BY DEF EpisodeStatus, Versioned, Reviewed
<1>6. RestOK'
  BY <1>1, RestStands
<1>. QED
  BY <1>1, <1>2, <1>3, <1>4, <1>5, <1>6, SameVetting, ReviewStep

\* What a version that can be sent back becomes.
LEMMA SentBackFacts ==
  ASSUME IInv, NEW e \in Episodes, NEW v, CanSendBack(e, v)
  PROVE  /\ "CHANGES_REQUESTED" \in EpisodeStatus \ {"SCHEDULED", "PUBLISHED"}
         /\ "CHANGES_REQUESTED" \notin Versioned /\ 0 \in 0..MaxVersions
         /\ SentBack(e) = [episode[e] EXCEPT !.status = "CHANGES_REQUESTED", !.approved = 0]
<1>1. MaxVersions \in Nat
  BY ConstantsAssumption
<1>. QED
  BY <1>1 DEF CanSendBack, SentBack, EpisodeStatus, Versioned, Reviewed, Out

LEMMA RequestChangesStep == ASSUME IInv, NEW r \in Requests, RequestChanges(r) PROVE IInv'
<1>. DEFINE e == req[r].e
<1>1. /\ TypeOK /\ r \in Actors /\ Transaction(r, "changes") /\ CanSendBack(e, req[r].v)
      /\ episode' = [episode EXCEPT ![e] = SentBack(e)]
      /\ UNCHANGED <<movie, newest, disclosed, labelled, checks, publication, due, failures>>
  BY DEF RequestChanges, IInv, Media, Vetting, Actors
<1>2. /\ e \in Episodes
      /\ req' \in [Actors -> Reading \cup {Idle, Cancelling}] /\ RequestsHold' /\ NotOut(e)
  BY <1>1, TransactionFacts DEF KeptEpisodes
<1>3. RestOK'
  BY <1>1, RestStands
<1>. QED
  BY <1>1, <1>2, <1>3, SentBackFacts, SameVetting, ReviewStep

Verdict == {"NONE", "PENDING", "PASS", "FAIL"}

\* The checks of one version are written; those of other episodes stay.
LEMMA ChecksWritten ==
  ASSUME TypeOK, NEW e \in Episodes, NEW v \in Versions, NEW c \in [Items -> Verdict],
         checks' = [checks EXCEPT ![<<e, v>>] = c], labelled \subseteq labelled'
  PROVE  /\ checks' \in [Assets -> [Items -> Verdict]] /\ checks'[<<e, v>>] = c
         /\ \A a \in Assets : a # <<e, v>> => checks'[a] = checks[a]
         /\ \A f \in Episodes \ {e}, w \in Versions : Cleared(<<f, w>>) => Cleared(<<f, w>>)'
<1>1. <<e, v>> \in Assets /\ checks \in [Assets -> [Items -> Verdict]]
  BY TypeFacts DEF Assets, Verdict
<1>2. /\ checks' \in [Assets -> [Items -> Verdict]] /\ checks'[<<e, v>>] = c
      /\ \A a \in Assets : a # <<e, v>> => checks'[a] = checks[a]
  BY <1>1
<1>3. ASSUME NEW f \in Episodes \ {e}, NEW w \in Versions, Cleared(<<f, w>>)
      PROVE  <<f, w>> \in labelled' /\ \A i \in Items : checks'[<<f, w>>][i] = "PASS"
  <2>1. <<f, w>> \in Assets /\ <<f, w>> # <<e, v>>
    BY DEF Assets
  <2>. QED
    BY <1>2, <1>3, <2>1 DEF Cleared
<1>4. \A f \in Episodes \ {e}, w \in Versions : Cleared(<<f, w>>) => Cleared(<<f, w>>)'
  BY <1>3 DEF Cleared
<1>. QED
  BY <1>2, <1>4

LEMMA ApplyLabelStep == ASSUME IInv, NEW r \in Requests, ApplyLabel(r) PROVE IInv'
<1>. DEFINE e == req[r].e
            a == <<e, req[r].v>>
            c == [i \in Items |-> IF checks[a][i] = "NONE" THEN "NONE" ELSE "PENDING"]
<1>1. /\ TypeOK /\ r \in Actors /\ Transaction(r, "label")
      /\ episode[e].status \in Reviewed /\ episode[e].approved = req[r].v
      /\ episode' = [episode EXCEPT ![e].status = "LABELED"]
      /\ checks' = [checks EXCEPT ![a] = c] /\ labelled' = labelled \cup {a}
      /\ UNCHANGED <<movie, newest, disclosed, publication, due, failures>>
  BY DEF ApplyLabel, IInv, Media, Actors
<1>2. /\ e \in Episodes
      /\ req' \in [Actors -> Reading \cup {Idle, Cancelling}] /\ RequestsHold' /\ NotOut(e)
  BY <1>1, TransactionFacts DEF KeptEpisodes
<1>3. req[r].v \in Versions /\ req[r].v # 0 /\ req[r].v \in 0..MaxVersions /\ a \in Assets
  BY <1>1, <1>2, EpisodeFacts DEF Versioned, Reviewed, Assets
<1>4. c \in [Items -> Verdict]
  BY DEF Verdict
<1>. HIDE DEF c
<1>5. /\ checks' \in [Assets -> [Items -> Verdict]]
      /\ \A f \in Episodes \ {e}, w \in Versions : Cleared(<<f, w>>) => Cleared(<<f, w>>)'
  BY <1>1, <1>2, <1>3, <1>4, ChecksWritten
<1>6. RestOK'
  BY <1>1, <1>3, <1>5 DEF TypeOK, RestOK, Verdict
<1>7. episode' = [episode EXCEPT ![e] = [episode[e] EXCEPT !.status = "LABELED", !.approved = req[r].v]]
  BY <1>1, <1>2, EpisodeFacts
<1>8. "LABELED" \in EpisodeStatus \ {"SCHEDULED", "PUBLISHED"} /\ "LABELED" \in Versioned
  BY DEF EpisodeStatus, Versioned, Reviewed
<1>. QED
  BY <1>1, <1>2, <1>3, <1>5, <1>6, <1>7, <1>8, ReviewStep

LEMMA VerdictsFacts ==
  ASSUME NEW a, NEW answer \in Answers PROVE Verdicts(a, answer) \in [Items -> Verdict]
<1>1. answer.notice \in {"PASS", "FAIL"} /\ answer.safety \in {"PASS", "FAIL"}
  BY ConstantsAssumption
<1>. QED
  BY <1>1 DEF Verdicts, Items, Verdict

LEMMA RunComplianceStep == ASSUME IInv, NEW r \in Requests, RunCompliance(r) PROVE IInv'
<1>. DEFINE e == req[r].e
            a == <<e, req[r].v>>
<1>1. PICK answer \in Answers :
        /\ Transaction(r, "comply")
        /\ checks' = [checks EXCEPT ![a] = Verdicts(a, answer)]
        /\ IF \E i \in Items : Verdicts(a, answer)[i] = "FAIL"
           THEN CanSendBack(e, req[r].v) /\ episode' = [episode EXCEPT ![e] = SentBack(e)]
           ELSE /\ episode[e].status = "LABELED" /\ episode[e].approved = req[r].v
                /\ episode' = [episode EXCEPT ![e].status = "COMPLIANCE_PASSED"]
        /\ UNCHANGED <<movie, newest, disclosed, labelled, publication, due, failures>>
  BY DEF RunCompliance, Media
<1>2. TypeOK /\ r \in Actors /\ RequestsHold
  BY DEF IInv, Actors
<1>3. /\ e \in Episodes /\ req[r].op = "comply" /\ req[r].v \in 0..MaxVersions
      /\ req[r].v # 0 => req[r].v \in Versions
      /\ req' \in [Actors -> Reading \cup {Idle, Cancelling}] /\ RequestsHold' /\ NotOut(e)
  BY <1>1, <1>2, TransactionFacts DEF KeptEpisodes
<1>4. req[r].v # 0 /\ req[r].v \in Versions
  BY <1>2, <1>3 DEF RequestsHold
<1>5. /\ checks' \in [Assets -> [Items -> Verdict]]
      /\ \A f \in Episodes \ {e}, w \in Versions : Cleared(<<f, w>>) => Cleared(<<f, w>>)'
  BY <1>1, <1>2, <1>3, <1>4, VerdictsFacts, ChecksWritten
<1>6. RestOK'
  BY <1>1, <1>2, <1>5 DEF TypeOK, RestOK, Verdict
<1>7. CASE CanSendBack(e, req[r].v) /\ episode' = [episode EXCEPT ![e] = SentBack(e)]
  BY <1>1, <1>2, <1>3, <1>5, <1>6, <1>7, SentBackFacts, ReviewStep
<1>8. CASE /\ episode[e].status = "LABELED" /\ episode[e].approved = req[r].v
           /\ episode' = [episode EXCEPT ![e].status = "COMPLIANCE_PASSED"]
  <2>1. episode' = [episode EXCEPT ![e] =
                      [episode[e] EXCEPT !.status = "COMPLIANCE_PASSED", !.approved = req[r].v]]
    BY <1>2, <1>3, <1>8, EpisodeFacts
  <2>2. /\ "COMPLIANCE_PASSED" \in EpisodeStatus \ {"SCHEDULED", "PUBLISHED"}
        /\ "COMPLIANCE_PASSED" \in Versioned
    BY DEF EpisodeStatus, Versioned, Reviewed
  <2>. QED
    BY <1>1, <1>2, <1>3, <1>4, <1>5, <1>6, <1>8, <2>1, <2>2, ReviewStep
<1>. QED
  BY <1>1, <1>7, <1>8

\* A row that is scheduled or out was cleared before, and stays cleared.
LEMMA SetPriceStep == ASSUME IInv, NEW r \in Requests, SetPrice(r) PROVE IInv'
<1>1. /\ TypeOK /\ r \in Actors /\ Transaction(r, "price")
      /\ episode' = [episode EXCEPT ![req[r].e] = [episode[req[r].e] EXCEPT !.priced = TRUE]]
      /\ UNCHANGED <<movie, newest, disclosed, labelled, checks, publication, due, failures>>
  BY DEF SetPrice, IInv, Media, Vetting, Actors
<1>2. PICK e \in Episodes :
        /\ e = req[r].e /\ NotOut(e)
        /\ req' \in [Actors -> Reading \cup {Idle, Cancelling}] /\ RequestsHold'
  BY <1>1, TransactionFacts DEF KeptEpisodes
<1>. DEFINE row == [episode[e] EXCEPT !.priced = TRUE]
<1>3. episode[e] \in Row /\ Story(e)
  BY <1>1 DEF TypeOK, IInv
<1>4. /\ row \in Row /\ row.status = episode[e].status /\ row.approved = episode[e].approved
      /\ row.revising = episode[e].revising /\ row.priced = TRUE
  BY <1>3 DEF Row
<1>5. row.approved # 0 <=> row.status \in Versioned
  BY <1>1, <1>4, EpisodeFacts
<1>6. episode' = [episode EXCEPT ![e] = row]
  BY <1>1, <1>2
<1>. HIDE DEF row
<1>7. EpisodesOK' /\ episode'[e] = row /\ \A f \in Episodes \ {e} : episode'[f] = episode[f]
  BY <1>1, <1>4, <1>5, <1>6, RowWritten
<1>8. TypeOK'
  BY <1>1, <1>2, <1>7, TypesHold, RestStands DEF TypeOK
<1>9. Elsewhere(e)
  BY <1>1, <1>7, Untouched, SameVetting DEF Elsewhere
<1>10. Story(e)'
  <2>1. UNCHANGED <<labelled, checks, publication>>
    BY <1>1
  <2>2. PendingOf(e)' = PendingOf(e) /\ \A p : Live(p)' <=> Live(p)
    BY <2>1 DEF PendingOf, Pending, Live
  <2>. QED
    BY <1>3, <1>4, <1>7, <2>1, <2>2 DEF Story, Cleared
<1>. QED
  BY <1>2, <1>8, <1>9, <1>10, EpisodeStep

-----------------------------------------------------------------------------
(* Releases.                                                                *)

LEMMA GateFacts ==
  ASSUME NEW e, NEW row, GateOpen(e, row)
  PROVE  row.approved # 0 /\ Cleared(<<e, row.approved>>) /\ row.priced
BY DEF GateOpen

\* A release an episode may be waiting for.
LEMMA PendingRow ==
  ASSUME TypeOK, NEW e, NEW p \in PendingOf(e)
  PROVE  /\ p \in DOMAIN publication /\ publication[p] \in Publication
         /\ publication[p].episode = e /\ Pending(p) /\ p \in Nat \ {0}
<1>1. p \in DOMAIN publication /\ publication[p].episode = e /\ Pending(p)
  BY PendingFacts
<1>2. publication[p] \in Publication /\ p \in Nat \ {0}
  BY <1>1 DEF TypeOK
<1>. QED
  BY <1>1, <1>2

\* The look-up names a release of the episode, or none.
LEMMA FindPendingStep == ASSUME IInv, NEW r \in Requests, FindPending(r) PROVE IInv'
<1>1. /\ TypeOK /\ RequestsHold /\ r \in Actors /\ req[r].op \in {"schedule", "release"}
      /\ UNCHANGED <<movie, episode, newest, disclosed, labelled, checks, publication, due, failures>>
  BY DEF FindPending, IInv, Media, Vetting, Actors
<1>. DEFINE op == IF req[r].op = "schedule" THEN "scheduling" ELSE "releasing"
<1>2. PICK p \in Nat :
        /\ req' = [req EXCEPT ![r].p = p, ![r].op = op]
        /\ p # 0 => p \in DOMAIN publication /\ publication[p].episode = req[r].e
  <2>1. PICK p \in PendingOf(req[r].e) \cup {0} :
           req' = [req EXCEPT ![r].p = p, ![r].op = IF @ = "schedule" THEN "scheduling" ELSE "releasing"]
    BY DEF FindPending
  <2>2. req' = [req EXCEPT ![r].p = p, ![r].op = op]
    BY <1>1, <2>1 DEF TypeOK
  <2>3. p # 0 => p \in DOMAIN publication /\ publication[p].episode = req[r].e /\ p \in Nat
    BY <1>1, <2>1, PendingRow
  <2>. QED
    BY <2>2, <2>3
<1>. DEFINE row == [req[r] EXCEPT !.p = p, !.op = op]
<1>3. /\ row \in Reading /\ row.e = req[r].e /\ row.v = req[r].v /\ row.p = p
      /\ row.op \in {"scheduling", "releasing"}
  <2>1. req[r] \in Reading
    BY <1>1, ReadingFacts
  <2>. QED
    BY <1>2, <2>1 DEF Reading
<1>4. req' = [req EXCEPT ![r] = row]
  BY <1>2
<1>. HIDE DEF row
<1>5. /\ req' \in [Actors -> Reading \cup {Idle, Cancelling}] /\ req'[r] = row
      /\ \A q \in Actors \ {r} : req'[q] = req[q]
  BY <1>1, <1>3, <1>4, RequestWritten
<1>6. TypeOK'
  BY <1>1, <1>5, TypesHold, RestStands, SameEpisodes, TypeFacts DEF TypeOK
<1>7. RequestsHold'
  <2>1. req[r].v # 0
    BY <1>1 DEF RequestsHold
  <2>. QED
    BY <1>1, <1>2, <1>3, <1>5, <2>1 DEF RequestsHold
<1>8. ReleasesHold'
  BY <1>1, <1>3, <1>5, ReleasesStand
<1>. QED
  BY <1>1, <1>6, <1>7, <1>8, QuietStep

LEMMA ScheduleStep == ASSUME IInv, NEW r \in Requests, Schedule(r) PROVE IInv'
<1>1. /\ TypeOK /\ r \in Actors /\ RequestsHold /\ Transaction(r, "scheduling")
      /\ GateOpen(req[r].e, episode[req[r].e])
      /\ episode' = [episode EXCEPT ![req[r].e].status = "SCHEDULED"]
      /\ publication' = IF req[r].p = 0 THEN Created(req[r].e, req[r].v, "later")
                                        ELSE [publication EXCEPT ![req[r].p].at = "later"]
      /\ UNCHANGED <<movie, newest, disclosed, labelled, checks, due, failures>>
  BY DEF Schedule, IInv, Media, Vetting, Actors
<1>2. /\ req[r].e \in Episodes /\ req[r].v \in Versions
      /\ req[r].p # 0 => req[r].p \in DOMAIN publication /\ publication[req[r].p].episode = req[r].e
  <2>1. req[r].op = "scheduling"
    BY <1>1 DEF Transaction
  <2>. QED
    BY <1>1, <2>1, ReadingFacts DEF RequestsHold
<1>3. PICK e \in Episodes, v \in Versions, p \in {req[r].p} :
          e = req[r].e /\ v = req[r].v /\ p = req[r].p
  BY <1>2
<1>4. /\ episode[e].approved # 0 /\ Cleared(<<e, episode[e].approved>>) /\ episode[e].priced
      /\ episode[e].approved \in Versions /\ episode[e] \in Row /\ Story(e)
  BY <1>1, <1>3, GateFacts, EpisodeFacts DEF TypeOK, IInv
<1>. DEFINE row == [episode[e] EXCEPT !.status = "SCHEDULED"]
<1>5. /\ row \in Row /\ row.status = "SCHEDULED" /\ row.approved = episode[e].approved
      /\ row.priced = episode[e].priced
  BY <1>4 DEF Row, EpisodeStatus
<1>6. episode' = [episode EXCEPT ![e] = row] /\ (row.approved # 0 <=> row.status \in Versioned)
  BY <1>1, <1>3, <1>4, <1>5 DEF Versioned
<1>. HIDE DEF row
<1>7. EpisodesOK' /\ episode'[e] = row /\ \A f \in Episodes \ {e} : episode'[f] = episode[f]
  <2>1. TypeOK
    BY DEF IInv
  <2>. QED
    BY <1>5, <1>6, <2>1, RowWritten
<1>8. /\ publication' \in Seq(Publication) /\ KeptEpisodes
      /\ \A f : f # e => SameReleases(f)
  <2>1. CASE p = 0 /\ publication' = Created(e, v, "later")
    <3>. DEFINE new == [episode |-> e, asset |-> v, at |-> "later", published |-> FALSE, taken |-> FALSE]
    <3>1. new \in Publication /\ new.episode = e
      BY DEF Publication
    <3>2. TypeOK /\ publication' = Append(publication, new)
      BY <2>1 DEF Created, IInv
    <3>. HIDE DEF new
    <3>. PICK n : n = Len(publication) + 1
      OBVIOUS
    <3>3. publication' \in Seq(Publication) /\ KeptEpisodes /\ \A f : f # new.episode => SameReleases(f)
      BY <3>1, <3>2, ReleaseAdded
    <3>. QED
      BY <3>1, <3>3
  <2>2. CASE p # 0 /\ publication' = [publication EXCEPT ![p].at = "later"]
    <3>1. p \in DOMAIN publication /\ publication[p] \in Publication /\ publication[p].episode = e
      BY <1>1, <1>2, <1>3, <2>2 DEF TypeOK
    <3>. DEFINE new == [publication[p] EXCEPT !.at = "later"]
    <3>2. new \in Publication /\ new.episode = publication[p].episode
      BY <3>1 DEF Publication
    <3>3. publication' = [publication EXCEPT ![p] = new]
      BY <2>2
    <3>. HIDE DEF new
    <3>4. publication' \in Seq(Publication) /\ KeptEpisodes /\ \A f : f # new.episode => SameReleases(f)
      BY <1>1, <3>1, <3>2, <3>3, ReleaseWritten
    <3>. QED
      BY <3>1, <3>2, <3>4
  <2>. QED
    BY <1>1, <1>3, <2>1, <2>2
<1>9. NotOut(e) /\ req' \in [Actors -> Reading \cup {Idle, Cancelling}] /\ RequestsHold'
  BY <1>1, <1>3, <1>8, TransactionFacts
<1>10. TypeOK'
  BY <1>1, <1>7, <1>8, <1>9, TypesHold, RestStands DEF TypeOK, KeptEpisodes
<1>11. Elsewhere(e)
  BY <1>1, <1>7, <1>8, SameVetting DEF Elsewhere
<1>12. Story(e)'
  <2>1. Cleared(<<e, episode[e].approved>>)'
    BY <1>1, <1>4, <1>5, <1>7 DEF Cleared
  <2>. QED
    BY <1>4, <1>5, <1>7, <2>1 DEF Story
<1>. QED
  BY <1>9, <1>10, <1>11, <1>12, EpisodeStep

\* A release starts: what the trigger saw holds until it commits.
LEMMA StartReleaseStep ==
  ASSUME IInv, NEW r \in Actors, NEW e \in Episodes, NEW v \in 0..MaxVersions, NEW p \in Nat,
         v # 0, p # 0 => p \in PendingOf(e),
         StartRelease(r, e, v, p), due' \subseteq due
  PROVE  IInv'
<1>. DEFINE row == [op |-> "out", e |-> e, status |-> "any", v |-> v, p |-> p, last |-> OthersOut(e)]
<1>1. /\ TypeOK /\ Unlocked(e, r) /\ GateOpen(e, episode[e]) /\ req' = [req EXCEPT ![r] = row]
      /\ UNCHANGED <<movie, episode, newest, disclosed, labelled, checks, publication, failures>>
  BY DEF StartRelease, IInv, Media, Vetting
<1>2. row \in Reading
  <2>1. OthersOut(e) \in BOOLEAN
    BY DEF OthersOut
  <2>. QED
    BY <2>1 DEF Reading
<1>3. /\ row.op = "out" /\ row.e = e /\ row.v = v /\ row.p = p
  OBVIOUS
<1>. HIDE DEF row
<1>4. /\ req' \in [Actors -> Reading \cup {Idle, Cancelling}] /\ req'[r] = row
      /\ \A q \in Actors \ {r} : req'[q] = req[q]
  BY <1>1, <1>2, RequestWritten
<1>5. TypeOK'
  BY <1>1, <1>4, TypesHold, RestStands, SameEpisodes, TypeFacts DEF TypeOK
<1>6. RequestsHold'
  BY <1>1, <1>3, <1>4 DEF IInv, RequestsHold
<1>7. /\ episode[e].approved # 0 /\ Cleared(<<e, episode[e].approved>>) /\ episode[e].priced
  BY <1>1, GateFacts
<1>8. ASSUME NEW q \in Actors, req'[q].op = "out"
      PROVE  LET f == req'[q].e IN
             /\ episode[f].approved # 0 /\ Cleared(<<f, episode[f].approved>>) /\ episode[f].priced
             /\ req'[q].p # 0 => req'[q].p \in PendingOf(f)
             /\ \A s \in Actors \ {q} : req'[s].op = "out" => req'[s].e # f
  <2>1. CASE q = r
    BY <1>1, <1>3, <1>4, <1>7, <2>1 DEF Unlocked
  <2>2. CASE q # r
    <3>1. req'[q] = req[q] /\ req[q].op = "out"
      BY <1>4, <1>8, <2>2
    <3>2. req[q].e # e
      BY <1>1, <2>2, <3>1 DEF Unlocked
    <3>3. ReleasesHold
      BY DEF IInv
    <3>. QED
      BY <1>3, <1>4, <3>1, <3>2, <3>3 DEF ReleasesHold
  <2>. QED
    BY <2>1, <2>2
<1>9. ReleasesHold'
  <2>1. UNCHANGED <<episode, labelled, checks, publication>>
    BY <1>1
  <2>2. \A f : PendingOf(f)' = PendingOf(f)
    BY <2>1 DEF PendingOf, Pending
  <2>. QED
    BY <1>8, <2>1, <2>2 DEF ReleasesHold, Cleared
<1>. QED
  BY <1>1, <1>5, <1>6, <1>9, QuietStep

LEMMA ReleaseNowStep == ASSUME IInv, NEW r \in Requests, ReleaseNow(r) PROVE IInv'
<1>. DEFINE e == req[r].e
<1>1. /\ r \in Actors /\ e \in Episodes /\ req[r].v \in 0..MaxVersions /\ req[r].p \in Nat
      /\ req[r].op = "releasing" /\ RequestsHold
  BY ReadingFacts DEF ReleaseNow, IInv, Actors
<1>2. req[r].v # 0 /\ (req[r].p # 0 => req[r].p \in PendingOf(e))
  BY <1>1 DEF RequestsHold, ReleaseNow, PendingOf
<1>3. StartRelease(r, e, req[r].v, req[r].p) /\ due' \subseteq due
  BY DEF ReleaseNow
<1>. QED
  BY <1>1, <1>2, <1>3, StartReleaseStep

\* The scheduler: a release that is still pending starts, and any other is left.
LEMMA ReleaseDueStep == ASSUME IInv, ReleaseDue PROVE IInv'
<1>1. PICK p \in due :
        /\ due' = due \ {p}
        /\ \/ Pending(p) /\ StartRelease(Scheduler, publication[p].episode, publication[p].asset, p)
           \/ UNCHANGED <<movie, episode, Media, Vetting, publication, req, failures>>
  BY DEF ReleaseDue
<1>2. TypeOK /\ p \in DOMAIN publication /\ publication[p] \in Publication /\ Scheduler \in Actors
  BY <1>1 DEF IInv, TypeOK, Actors
<1>3. CASE Pending(p) /\ StartRelease(Scheduler, publication[p].episode, publication[p].asset, p)
  <2>1. /\ publication[p].episode \in Episodes /\ publication[p].asset \in 0..MaxVersions
        /\ publication[p].asset # 0 /\ p \in Nat
    BY <1>2, ConstantsAssumption DEF Publication, Versions, TypeOK
  <2>2. p \in PendingOf(publication[p].episode)
    BY <1>2, <1>3 DEF PendingOf
  <2>. QED
    BY <1>1, <1>2, <1>3, <2>1, <2>2, StartReleaseStep
<1>4. CASE UNCHANGED <<movie, episode, Media, Vetting, publication, req, failures>>
  <2>1. UNCHANGED <<movie, episode, newest, disclosed, labelled, checks, publication, req, failures>>
    BY <1>4 DEF Media, Vetting
  <2>2. TypeOK'
    BY <1>1, <1>2, <2>1, TypesHold, SameEpisodes, RestStands, TypeFacts DEF TypeOK
  <2>3. RequestsHold' /\ ReleasesHold'
    BY <2>1, RequestsStand, ReleasesStand DEF KeptEpisodes, IInv
  <2>. QED
    BY <2>1, <2>2, <2>3, QuietStep
<1>. QED
  BY <1>1, <1>3, <1>4

\* A row that is added and written at once.
LEMMA AddedAndWritten ==
  ASSUME NEW s \in Seq(Publication), NEW new \in Publication, NEW row \in Publication,
         NEW n, n = Len(s) + 1
  PROVE  LET t == [Append(s, new) EXCEPT ![n] = row] IN
         /\ t \in Seq(Publication) /\ DOMAIN t = DOMAIN s \cup {n}
         /\ n \notin DOMAIN s /\ t[n] = row
         /\ \A q \in DOMAIN s : t[q] = s[q]
<1>1. /\ Append(s, new) \in Seq(Publication) /\ DOMAIN Append(s, new) = DOMAIN s \cup {n}
      /\ n \notin DOMAIN s /\ Append(s, new)[n] = new
      /\ \A q \in DOMAIN s : Append(s, new)[q] = s[q]
  OBVIOUS
<1>2. ASSUME NEW a \in Seq(Publication), n \in DOMAIN a
      PROVE  LET t == [a EXCEPT ![n] = row] IN
             /\ t \in Seq(Publication) /\ DOMAIN t = DOMAIN a /\ t[n] = row
             /\ \A q \in DOMAIN a : q # n => t[q] = a[q]
  BY <1>2
<1>. QED
  BY <1>1, <1>2

\* A new release goes out with the transaction that creates it.
LEMMA CreatedOut ==
  ASSUME TypeOK, NEW e \in Episodes, NEW v \in Versions,
         publication' = [Created(e, v, "now") EXCEPT ![Len(publication) + 1].published = TRUE]
  PROVE  /\ publication' \in Seq(Publication) /\ KeptEpisodes /\ \A f : f # e => SameReleases(f)
         /\ \A q \in DOMAIN publication : publication'[q] = publication[q]
         /\ \E q \in DOMAIN publication' : publication'[q].episode = e /\ Live(q)'
<1>. DEFINE new == [episode |-> e, asset |-> v, at |-> "now", published |-> FALSE, taken |-> FALSE]
            row == [new EXCEPT !.published = TRUE]
<1>1. publication \in Seq(Publication) /\ Len(publication) \in Nat
  BY DEF TypeOK
<1>2. PICK n : n = Len(publication) + 1
  OBVIOUS
<1>3. /\ new \in Publication /\ row \in Publication /\ row.episode = e
      /\ row.published = TRUE /\ row.taken = FALSE
  BY DEF Publication
<1>4. publication' = [Append(publication, new) EXCEPT ![n] = row]
  <2>1. Append(publication, new)[n] = new
    BY <1>1, <1>2, <1>3
  <2>2. publication' = [Append(publication, new) EXCEPT ![n] =
                            [Append(publication, new)[n] EXCEPT !.published = TRUE]]
    BY <1>2 DEF Created
  <2>. HIDE DEF new
  <2>. QED
    BY <2>1, <2>2
<1>. HIDE DEF new, row
<1>5. /\ publication' \in Seq(Publication) /\ DOMAIN publication' = DOMAIN publication \cup {n}
      /\ n \notin DOMAIN publication /\ publication'[n] = row
      /\ \A q \in DOMAIN publication : publication'[q] = publication[q]
  <2>1. PICK t : t = [Append(publication, new) EXCEPT ![n] = row]
    OBVIOUS
  <2>2. /\ t \in Seq(Publication) /\ DOMAIN t = DOMAIN publication \cup {n}
        /\ n \notin DOMAIN publication /\ t[n] = row
        /\ \A q \in DOMAIN publication : t[q] = publication[q]
    BY <1>1, <1>2, <1>3, <2>1, AddedAndWritten
  <2>3. publication' = t
    BY <1>4, <2>1
  <2>. QED
    BY <2>2, <2>3
<1>6. KeptEpisodes /\ \A f : f # e => SameReleases(f)
  BY <1>3, <1>5, ReleaseGrown
<1>7. publication'[n].episode = e /\ Live(n)' /\ n \in DOMAIN publication'
  BY <1>3, <1>5 DEF Live
<1>. QED
  BY <1>5, <1>6, <1>7

LEMMA CommitReleaseStep == ASSUME IInv, NEW r \in Actors, CommitRelease(r) PROVE IInv'
<1>0. TypeOK /\ RequestsHold /\ ReleasesHold /\ UNCHANGED <<labelled, checks>>
  BY DEF CommitRelease, IInv, Vetting
<1>1. /\ Transaction(r, "out")
      /\ publication' =
            IF req[r].p = 0
            THEN [Created(req[r].e, req[r].v, "now") EXCEPT ![Len(publication) + 1].published = TRUE]
            ELSE [publication EXCEPT ![req[r].p].published = TRUE,
                                     ![req[r].p].at = IF r = Scheduler THEN @ ELSE "now"]
      /\ episode' = [episode EXCEPT ![req[r].e].status = "PUBLISHED", ![req[r].e].revising = FALSE]
      /\ movie' = IF req[r].last /\ movie.status \in Delivering
                  THEN [movie EXCEPT !.status = "COMPLETED"] ELSE movie
      /\ UNCHANGED <<newest, disclosed, due, failures>>
  BY DEF CommitRelease, IInv, Media, Vetting
<1>2. req[r].op = "out" /\ req[r].e \in Episodes /\ req[r].v \in Versions
  BY <1>0, <1>1, ReadingFacts DEF Transaction, RequestsHold
<1>3. PICK e \in Episodes, v \in Versions, p \in {req[r].p} : e = req[r].e /\ v = req[r].v /\ p = req[r].p
  BY <1>2
<1>4. /\ episode[e].approved # 0 /\ Cleared(<<e, episode[e].approved>>) /\ episode[e].priced
      /\ p # 0 => p \in PendingOf(e)
  BY <1>0, <1>2, <1>3 DEF ReleasesHold
<1>5. episode[e].approved \in Versions /\ episode[e] \in Row
  BY <1>0, <1>4, EpisodeFacts DEF TypeOK
<1>. DEFINE row == [episode[e] EXCEPT !.status = "PUBLISHED", !.revising = FALSE]
<1>6. /\ row \in Row /\ row.status = "PUBLISHED" /\ row.approved = episode[e].approved
      /\ row.priced = episode[e].priced /\ row.revising = FALSE
  BY <1>5 DEF Row, EpisodeStatus, Out
<1>7. episode' = [episode EXCEPT ![e] = row] /\ (row.approved # 0 <=> row.status \in Versioned)
  BY <1>1, <1>3, <1>4, <1>6 DEF Versioned, Out
<1>. HIDE DEF row
<1>8. EpisodesOK' /\ episode'[e] = row /\ \A f \in Episodes \ {e} : episode'[f] = episode[f]
  <2>1. TypeOK
    BY DEF IInv
  <2>. QED
    BY <1>6, <1>7, <2>1, RowWritten
<1>9. /\ publication' \in Seq(Publication) /\ KeptEpisodes /\ \A f : f # e => SameReleases(f)
      /\ \E q \in DOMAIN publication' : publication'[q].episode = e /\ Live(q)'
  <2>1. publication \in Seq(Publication)
    BY <1>0 DEF TypeOK
  <2>2. CASE p = 0
    BY <1>0, <1>1, <1>3, <2>2, CreatedOut
  <2>3. CASE p # 0
    <3>1. /\ p \in DOMAIN publication /\ publication[p] \in Publication
          /\ publication[p].episode = e /\ Pending(p)
      BY <1>0, <1>4, <2>3, PendingRow
    <3>. DEFINE at == IF r = Scheduler THEN publication[p].at ELSE "now"
               new == [publication[p] EXCEPT !.published = TRUE, !.at = at]
    <3>2. at \in {"now", "later", "due"}
      BY <3>1 DEF Publication
    <3>3. publication' = [publication EXCEPT ![p] = new]
      BY <1>1, <1>3, <2>1, <2>3, <3>1 DEF Publication
    <3>. HIDE DEF at
    <3>4. /\ new \in Publication /\ new.episode = e /\ new.published = TRUE
          /\ new.taken = publication[p].taken
      BY <3>1, <3>2 DEF Publication
    <3>. HIDE DEF new
    <3>5. /\ publication' \in Seq(Publication) /\ DOMAIN publication' = DOMAIN publication
          /\ publication'[p] = new
          /\ \A q \in DOMAIN publication : q # p => publication'[q] = publication[q]
          /\ KeptEpisodes /\ \A f : f # new.episode => SameReleases(f)
      BY <1>0, <3>1, <3>3, <3>4, ReleaseWritten
    <3>6. publication'[p].episode = e /\ Live(p)'
      BY <3>1, <3>4, <3>5 DEF Live, Pending
    <3>. QED
      BY <3>1, <3>4, <3>5, <3>6
  <2>. QED
    BY <2>2, <2>3
<1>10. NotOut(e) /\ req' \in [Actors -> Reading \cup {Idle, Cancelling}] /\ RequestsHold'
  BY <1>1, <1>3, <1>9, TransactionFacts
<1>11. RestOK'
  <2>1. movie' \in [status : Releasing \cup {"CANCELLED"}, described : BOOLEAN]
    <3>1. movie \in [status : Releasing \cup {"CANCELLED"}, described : BOOLEAN]
      BY <1>0 DEF TypeOK
    <3>2. [movie EXCEPT !.status = "COMPLETED"] \in
             [status : Releasing \cup {"CANCELLED"}, described : BOOLEAN]
      BY <3>1 DEF Releasing
    <3>. QED
      BY <1>1, <3>1, <3>2
  <2>. QED
    BY <1>0, <1>1, <2>1 DEF TypeOK, RestOK
<1>12. TypeOK'
  BY <1>0, <1>1, <1>8, <1>9, <1>10, <1>11, TypesHold DEF TypeOK, KeptEpisodes
<1>13. Elsewhere(e)
  BY <1>0, <1>8, <1>9, SameVetting DEF Elsewhere
<1>14. Story(e)'
  <2>1. Cleared(<<e, episode[e].approved>>)'
    BY <1>0, <1>4, <1>6, <1>8 DEF Cleared
  <2>. QED
    BY <1>4, <1>6, <1>8, <1>9, <2>1 DEF Story
<1>. QED
  BY <1>10, <1>12, <1>13, <1>14, EpisodeStep

\* A release is taken down: the others stay what they are.
LEMMA TakenDownFacts ==
  ASSUME TypeOK, NEW p \in DOMAIN publication, NEW e, publication[p].episode = e,
         publication' = TakenDown(p)
  PROVE  /\ publication' \in Seq(Publication) /\ DOMAIN publication' = DOMAIN publication
         /\ KeptEpisodes /\ \A f : f # e => SameReleases(f)
<1>1. publication[p] \in Publication
  BY DEF TypeOK
<1>. DEFINE new == [publication[p] EXCEPT !.taken = TRUE]
<1>2. new \in Publication /\ new.episode = e /\ new.taken = TRUE
  BY <1>1 DEF Publication
<1>3. publication' = [publication EXCEPT ![p] = new]
  BY DEF TakenDown
<1>. HIDE DEF new
<1>4. /\ publication' \in Seq(Publication) /\ DOMAIN publication' = DOMAIN publication
      /\ publication'[p] = new
      /\ \A q \in DOMAIN publication : q # p => publication'[q] = publication[q]
      /\ KeptEpisodes /\ \A f : f # new.episode => SameReleases(f)
  <2>1. new.episode = publication[p].episode
    BY <1>2
  <2>. QED
    BY <1>2, <1>3, <2>1, ReleaseWritten
<1>. QED
  BY <1>2, <1>4

-----------------------------------------------------------------------------
(* Take-downs.                                                              *)

\* A request that takes a release down names one of its episode.
LEMMA NamedFacts ==
  ASSUME IInv, NEW r \in Requests, NEW op \in {"revise", "remove", "withdraw"}, Transaction(r, op),
         NEW e, e = req[r].e, NEW p, p = req[r].p, publication' = TakenDown(p)
  PROVE  /\ e \in Episodes /\ episode[e] \in Row
         /\ op = "remove" => req[r].status = "PUBLISHED"
         /\ op = "withdraw" => req[r].status = "SCHEDULED"
         /\ p \in DOMAIN publication /\ publication[p].episode = e
         /\ publication' \in Seq(Publication) /\ DOMAIN publication' = DOMAIN publication
         /\ KeptEpisodes /\ \A f : f # e => SameReleases(f)
         /\ req' \in [Actors -> Reading \cup {Idle, Cancelling}] /\ RequestsHold'
         /\ NotOut(e)
<1>1. r \in Actors /\ TypeOK /\ RequestsHold /\ req[r].op = op
  BY DEF IInv, Actors, Transaction
<1>2. e \in Episodes
  BY <1>1, ReadingFacts
<1>3. /\ p \in DOMAIN publication /\ publication[p].episode = e
      /\ op = "remove" => req[r].status = "PUBLISHED"
      /\ op = "withdraw" => req[r].status = "SCHEDULED"
  BY <1>1 DEF RequestsHold
<1>4. /\ publication' \in Seq(Publication) /\ DOMAIN publication' = DOMAIN publication
      /\ KeptEpisodes /\ \A f : f # e => SameReleases(f)
  BY <1>1, <1>3, TakenDownFacts
<1>5. /\ req' \in [Actors -> Reading \cup {Idle, Cancelling}] /\ RequestsHold'
      /\ NotOut(e)
  BY <1>1, <1>4, TransactionFacts
<1>6. episode[e] \in Row
  BY <1>1, <1>2 DEF TypeOK
<1>. QED
  BY <1>2, <1>3, <1>4, <1>5, <1>6

\* The episode of a release that is taken down: it is neither scheduled nor out.
LEMMA TakenDownStep ==
  ASSUME IInv, NEW r \in Requests, NEW op \in {"revise", "remove", "withdraw"}, Transaction(r, op),
         NEW e, e = req[r].e, NEW p, p = req[r].p, publication' = TakenDown(p),
         NEW row \in Row, row.status \notin {"SCHEDULED", "PUBLISHED"},
         row.approved # 0 <=> row.status \in Versioned,
         episode' = [episode EXCEPT ![e] = row],
         UNCHANGED <<newest, disclosed, labelled, checks, due, failures>>,
         movie' \in [status : Releasing \cup {"CANCELLED"}, described : BOOLEAN]
  PROVE  IInv'
<1>1. TypeOK /\ e \in Episodes
  BY NamedFacts DEF IInv
<1>2. /\ publication' \in Seq(Publication) /\ DOMAIN publication' = DOMAIN publication
      /\ \A f : f # e => SameReleases(f)
      /\ req' \in [Actors -> Reading \cup {Idle, Cancelling}] /\ RequestsHold'
      /\ NotOut(e)
  <2>1. publication' \in Seq(Publication) /\ DOMAIN publication' = DOMAIN publication
    BY NamedFacts
  <2>2. \A f : f # e => SameReleases(f)
    BY NamedFacts
  <2>3. req' \in [Actors -> Reading \cup {Idle, Cancelling}] /\ RequestsHold' /\ NotOut(e)
    BY NamedFacts
  <2>. QED
    BY <2>1, <2>2, <2>3
<1>3. EpisodesOK' /\ episode'[e] = row /\ \A f \in Episodes \ {e} : episode'[f] = episode[f]
  BY <1>1, RowWritten
<1>4. RestOK'
  BY <1>1 DEF TypeOK, RestOK
<1>5. TypeOK'
  BY <1>1, <1>2, <1>3, <1>4, TypesHold DEF TypeOK
<1>6. Elsewhere(e)
  BY <1>2, <1>3, SameVetting DEF Elsewhere
<1>7. Story(e)'
  BY <1>2, <1>3 DEF Story
<1>. QED
  BY <1>1, <1>2, <1>5, <1>6, <1>7, EpisodeStep

LEMMA ReviseStep == ASSUME IInv, NEW r \in Requests, Revise(r) PROVE IInv'
<1>1. /\ TypeOK /\ Transaction(r, "revise") /\ publication' = TakenDown(req[r].p)
      /\ CanSendBack(req[r].e, req[r].v)
      /\ episode' = [episode EXCEPT ![req[r].e] = [SentBack(req[r].e) EXCEPT !.revising = TRUE]]
      /\ movie' = [movie EXCEPT !.status = IF @ = "COMPLETED" THEN "UNDER_REVISION" ELSE @]
      /\ UNCHANGED <<newest, disclosed, labelled, checks, due, failures>>
  BY DEF Revise, IInv, Media, Vetting
<1>2. req[r].e \in Episodes /\ episode[req[r].e] \in Row
  BY <1>1, NamedFacts
<1>. DEFINE row == [SentBack(req[r].e) EXCEPT !.revising = TRUE]
<1>4. row \in Row /\ row.status = "CHANGES_REQUESTED" /\ row.approved = 0
  <2>1. "CHANGES_REQUESTED" \in EpisodeStatus /\ 0 \in 0..MaxVersions
    BY <1>1, <1>2, SentBackFacts
  <2>. QED
    BY <1>2, <2>1 DEF SentBack, Row
<1>5. row.status \notin Versioned
  BY <1>4 DEF Versioned, Reviewed, Out
<1>6. movie' \in [status : Releasing \cup {"CANCELLED"}, described : BOOLEAN]
  <2>1. movie \in [status : Releasing \cup {"CANCELLED"}, described : BOOLEAN]
    BY <1>1 DEF TypeOK
  <2>. QED
    BY <1>1, <2>1 DEF Releasing, Delivering
<1>7. episode' = [episode EXCEPT ![req[r].e] = row]
  BY <1>1
<1>8. /\ Transaction(r, "revise") /\ publication' = TakenDown(req[r].p)
      /\ UNCHANGED <<newest, disclosed, labelled, checks, due, failures>>
  BY <1>1
<1>9. row.status \notin {"SCHEDULED", "PUBLISHED"} /\ (row.approved # 0 <=> row.status \in Versioned)
  BY <1>4, <1>5
<1>. HIDE DEF row
<1>. QED
  BY <1>4, <1>6, <1>7, <1>8, <1>9, TakenDownStep

LEMMA RemoveStep == ASSUME IInv, NEW r \in Requests, Remove(r) PROVE IInv'
<1>1. /\ TypeOK /\ Transaction(r, "remove") /\ publication' = TakenDown(req[r].p)
      /\ episode[req[r].e].status = req[r].status
      /\ episode' = [episode EXCEPT ![req[r].e].status = "UNPUBLISHED"]
      /\ UNCHANGED <<movie, newest, disclosed, labelled, checks, due, failures>>
  BY DEF Remove, IInv, Media, Vetting
<1>2. /\ req[r].e \in Episodes /\ episode[req[r].e] \in Row
      /\ episode[req[r].e].status = "PUBLISHED"
  BY <1>1, NamedFacts
<1>. DEFINE row == [episode[req[r].e] EXCEPT !.status = "UNPUBLISHED"]
<1>4. /\ row \in Row /\ row.status = "UNPUBLISHED" /\ row.approved = episode[req[r].e].approved
  BY <1>2 DEF Row, EpisodeStatus, Out
<1>5. row.approved # 0 /\ row.status \in Versioned
  BY <1>1, <1>2, <1>4, EpisodeFacts DEF Versioned, Out
<1>6. episode' = [episode EXCEPT ![req[r].e] = row]
  BY <1>1
<1>7. movie' \in [status : Releasing \cup {"CANCELLED"}, described : BOOLEAN]
  BY <1>1 DEF TypeOK
<1>8. /\ Transaction(r, "remove") /\ publication' = TakenDown(req[r].p)
      /\ UNCHANGED <<newest, disclosed, labelled, checks, due, failures>>
  BY <1>1
<1>9. row.status \notin {"SCHEDULED", "PUBLISHED"}
  BY <1>4
<1>. HIDE DEF row
<1>. QED
  BY <1>4, <1>5, <1>6, <1>7, <1>8, <1>9, TakenDownStep

LEMMA WithdrawStep == ASSUME IInv, NEW r \in Requests, Withdraw(r) PROVE IInv'
<1>1. /\ TypeOK /\ Transaction(r, "withdraw") /\ publication' = TakenDown(req[r].p)
      /\ Pending(req[r].p) /\ episode[req[r].e].status = req[r].status
      /\ episode' = [episode EXCEPT ![req[r].e].status = "COMPLIANCE_PASSED"]
      /\ UNCHANGED <<movie, newest, disclosed, labelled, checks, due, failures>>
  BY DEF Withdraw, IInv, Media, Vetting
<1>2. /\ req[r].e \in Episodes /\ episode[req[r].e] \in Row
      /\ episode[req[r].e].status = "SCHEDULED"
  BY <1>1, NamedFacts
<1>. DEFINE row == [episode[req[r].e] EXCEPT !.status = "COMPLIANCE_PASSED"]
<1>4. /\ row \in Row /\ row.status = "COMPLIANCE_PASSED"
      /\ row.approved = episode[req[r].e].approved
  BY <1>2 DEF Row, EpisodeStatus, Reviewed
<1>5. row.approved # 0 /\ row.status \in Versioned
  BY <1>1, <1>2, <1>4, EpisodeFacts DEF Versioned, Reviewed
<1>6. episode' = [episode EXCEPT ![req[r].e] = row]
  BY <1>1
<1>7. movie' \in [status : Releasing \cup {"CANCELLED"}, described : BOOLEAN]
  BY <1>1 DEF TypeOK
<1>8. /\ Transaction(r, "withdraw") /\ publication' = TakenDown(req[r].p)
      /\ UNCHANGED <<newest, disclosed, labelled, checks, due, failures>>
  BY <1>1
<1>9. row.status \notin {"SCHEDULED", "PUBLISHED"}
  BY <1>4
<1>. HIDE DEF row
<1>. QED
  BY <1>4, <1>5, <1>6, <1>7, <1>8, <1>9, TakenDownStep

-----------------------------------------------------------------------------
(* Steps on many episodes, or on none.                                      *)

\* A cancellation leaves nothing scheduled; a release it finds under way is a new one.
LEMMA CancelStep == ASSUME IInv, NEW r \in Requests, Cancel(r) PROVE IInv'
<1>1. /\ TypeOK /\ r \in Actors /\ ReleasesHold /\ req' = [req EXCEPT ![r] = Idle]
      /\ movie' = [movie EXCEPT !.status = "CANCELLED"]
      /\ UNCHANGED <<newest, disclosed, labelled, checks, due, failures>>
  BY DEF Cancel, IInv, Media, Vetting, Actors
<1>2. /\ publication \in Seq(Publication)
      /\ publication' = [p \in DOMAIN publication |->
             [publication[p] EXCEPT !.taken = @ \/ ~publication[p].published]]
  BY <1>1 DEF Cancel, TypeOK
<1>3. ASSUME NEW p \in DOMAIN publication
      PROVE  /\ publication'[p] \in Publication /\ publication'[p].episode = publication[p].episode
             /\ ~Pending(p)' /\ (Live(p) => Live(p)')
  <2>1. publication[p] \in Publication
    BY <1>2
  <2>. DEFINE row == [publication[p] EXCEPT !.taken = @ \/ ~publication[p].published]
  <2>2. /\ row \in Publication /\ row.episode = publication[p].episode
        /\ row.published = publication[p].published
        /\ row.taken = (publication[p].taken \/ ~publication[p].published)
    BY <2>1 DEF Publication
  <2>3. publication'[p] = row
    BY <1>2
  <2>. HIDE DEF row
  <2>. QED
    BY <2>1, <2>2, <2>3 DEF Pending, Live, Publication
<1>4. DOMAIN publication' = DOMAIN publication
  BY <1>2
<1>5. publication' \in Seq(Publication)
  <2>1. DOMAIN publication = 1..Len(publication) /\ Len(publication) \in Nat
    BY <1>2
  <2>2. publication' \in [1..Len(publication) -> Publication]
    BY <1>2, <1>3, <2>1
  <2>. QED
    BY <2>1, <2>2
<1>6. KeptEpisodes
  BY <1>3, <1>4 DEF KeptEpisodes
<1>7. /\ req' \in [Actors -> Reading \cup {Idle, Cancelling}] /\ RequestsHold'
      /\ \A q \in Actors : req'[q].op = "out" => req'[q] = req[q] /\ q # r
  BY <1>1, <1>6, RequestDone
<1>8. ASSUME NEW e \in Episodes
      PROVE  /\ episode'[e] \in Row /\ episode'[e].approved = episode[e].approved
             /\ episode'[e].priced = episode[e].priced
             /\ episode'[e].revising = episode[e].revising
             /\ episode'[e].status # "SCHEDULED"
             /\ episode'[e].status = "PUBLISHED" => episode[e].status = "PUBLISHED"
             /\ episode'[e].status \in Versioned <=> episode[e].status \in Versioned
  <2>1. episode[e] \in Row
    BY <1>1 DEF TypeOK
  <2>. DEFINE status == IF episode[e].status = "SCHEDULED" THEN "COMPLIANCE_PASSED" ELSE episode[e].status
              row == [episode[e] EXCEPT !.status = status]
  <2>2. episode'[e] = row
    BY DEF Cancel
  <2>3. status \in EpisodeStatus /\ status # "SCHEDULED"
    BY <2>1 DEF Row, EpisodeStatus, Reviewed
  <2>4. /\ status = "PUBLISHED" => episode[e].status = "PUBLISHED"
        /\ status \in Versioned <=> episode[e].status \in Versioned
    BY <2>1 DEF Versioned, Reviewed
  <2>. HIDE DEF status
  <2>5. /\ row \in Row /\ row.approved = episode[e].approved /\ row.priced = episode[e].priced
        /\ row.revising = episode[e].revising /\ row.status = status
    BY <2>1, <2>3 DEF Row
  <2>. HIDE DEF row
  <2>. QED
    BY <2>2, <2>3, <2>4, <2>5
<1>9. EpisodesOK'
  <2>1. episode' \in [Episodes -> Row]
    BY <1>8 DEF Cancel
  <2>. QED
    BY <1>1, <1>8, <2>1, EpisodeFacts DEF EpisodesOK
<1>10. RestOK'
  <2>1. movie' \in [status : Releasing \cup {"CANCELLED"}, described : BOOLEAN]
    BY <1>1 DEF TypeOK
  <2>. QED
    BY <1>1, <2>1 DEF TypeOK, RestOK
<1>11. TypeOK'
  BY <1>1, <1>4, <1>5, <1>7, <1>9, <1>10, TypesHold DEF TypeOK
<1>12. ASSUME NEW e \in Episodes PROVE Story(e)'
  <2>1. Story(e)
    BY DEF IInv
  <2>2. episode'[e].status = "PUBLISHED" => Cleared(<<e, episode[e].approved>>)' /\ episode'[e].priced
    BY <1>1, <1>8, <2>1 DEF Story, Cleared
  <2>3. episode'[e].status = "PUBLISHED" =>
            \E p \in DOMAIN publication' : publication'[p].episode = e /\ Live(p)'
    BY <1>3, <1>4, <1>8, <2>1 DEF Story
  <2>. QED
    BY <1>8, <2>1, <2>2, <2>3 DEF Story
<1>13. ReleasesHold'
  <2>1. ASSUME NEW q \in Actors, req'[q].op = "out"
        PROVE  LET e == req[q].e IN
               /\ req'[q] = req[q] /\ e \in Episodes /\ req[q].p = 0
               /\ episode'[e].approved # 0 /\ Cleared(<<e, episode[e].approved>>)'
               /\ episode'[e].approved = episode[e].approved
               /\ episode'[e].priced
               /\ \A s \in Actors \ {q} : req'[s].op = "out" => req'[s].e # e
    <3>1. req'[q] = req[q] /\ req[q].op = "out" /\ req[q].p = 0 /\ req[q].e \in Episodes
      BY <1>1, <1>7, <2>1, ReadingFacts DEF Cancel
    <3>2. /\ episode[req[q].e].approved # 0 /\ Cleared(<<req[q].e, episode[req[q].e].approved>>)
          /\ episode[req[q].e].priced
          /\ \A s \in Actors \ {q} : req[s].op = "out" => req[s].e # req[q].e
      BY <1>1, <3>1 DEF ReleasesHold
    <3>3. \A s \in Actors \ {q} : req'[s].op = "out" => req'[s].e # req[q].e
      BY <1>7, <3>2
    <3>4. UNCHANGED <<labelled, checks>>
      BY <1>1
    <3>. QED
      BY <1>8, <3>1, <3>2, <3>3, <3>4 DEF Cleared
  <2>. QED
    BY <2>1 DEF ReleasesHold
<1>. QED
  <2>1. \A e \in Episodes : Story(e)'
    BY <1>12
  <2>. QED
    BY <1>7, <1>11, <1>13, <2>1 DEF IInv

\* A date comes: only when the release is due changes.
LEMMA TimePassesStep == ASSUME IInv, NEW p \in DOMAIN publication, TimePasses(p) PROVE IInv'
<1>1. /\ TypeOK /\ Pending(p) /\ publication' = [publication EXCEPT ![p].at = "due"]
      /\ UNCHANGED <<movie, episode, newest, disclosed, labelled, checks, req, due, failures>>
  BY DEF TimePasses, IInv, Media, Vetting
<1>2. publication[p] \in Publication
  BY <1>1 DEF TypeOK
<1>. DEFINE row == [publication[p] EXCEPT !.at = "due"]
<1>3. /\ row \in Publication /\ row.episode = publication[p].episode
      /\ row.asset = publication[p].asset
      /\ row.published = publication[p].published /\ row.taken = publication[p].taken
  BY <1>2 DEF Publication
<1>4. publication' = [publication EXCEPT ![p] = row]
  BY <1>1
<1>. HIDE DEF row
<1>5. /\ publication' \in Seq(Publication) /\ DOMAIN publication' = DOMAIN publication
      /\ publication'[p] = row
      /\ \A q \in DOMAIN publication : q # p => publication'[q] = publication[q]
      /\ KeptEpisodes
  BY <1>1, <1>3, <1>4, ReleaseWritten
<1>6. \A q \in DOMAIN publication :
          /\ publication'[q].episode = publication[q].episode
          /\ publication'[q].asset = publication[q].asset
          /\ Pending(q)' <=> Pending(q)
          /\ Live(q)' <=> Live(q)
  BY <1>3, <1>5 DEF Pending, Live
<1>7. \A e : PendingOf(e)' = PendingOf(e)
  BY <1>5, <1>6 DEF PendingOf
<1>8. UNCHANGED <<movie, episode, newest, disclosed, labelled, checks, req, due, failures>>
  BY <1>1
<1>9. TypeOK'
  BY <1>1, <1>5, <1>8, TypesHold, RestStands, SameEpisodes, TypeFacts DEF TypeOK
<1>10. RequestsHold'
  BY <1>5, <1>8, RequestsStand DEF IInv
<1>11. ASSUME NEW e \in Episodes PROVE Story(e)'
  <2>1. Story(e)
    BY DEF IInv
  <2>. QED
    BY <1>5, <1>6, <1>8, <2>1 DEF Story, Cleared
<1>12. ReleasesHold'
  BY <1>7, <1>8 DEF IInv, ReleasesHold, Cleared
<1>. QED
  <2>1. \A e \in Episodes : Story(e)'
    BY <1>11
  <2>. QED
    BY <1>9, <1>10, <1>12, <2>1 DEF IInv

-----------------------------------------------------------------------------
(* All of it.                                                               *)

LEMMA InitHolds == Init => IInv
<1>. SUFFICES ASSUME Init PROVE IInv
  OBVIOUS
<1>1. {MaxVersions, MaxReleases, MaxFailures} \subseteq Nat
  BY ConstantsAssumption
<1>2. /\ movie \in [status : {"IN_PRODUCTION"}, described : BOOLEAN]
      /\ episode = [e \in Episodes |->
             [status |-> "AWAITING_MEDIA", approved |-> 0, priced |-> FALSE, revising |-> FALSE]]
      /\ publication = <<>> /\ req = [r \in Actors |-> Idle] /\ due = {}
  BY DEF Init
<1>3. EpisodesOK
  <2>1. [status |-> "AWAITING_MEDIA", approved |-> 0, priced |-> FALSE, revising |-> FALSE] \in Row
    BY <1>1 DEF Row, EpisodeStatus
  <2>2. "AWAITING_MEDIA" \notin Versioned
    BY DEF Versioned, Reviewed, Out
  <2>. QED
    BY <1>2, <2>1, <2>2 DEF EpisodesOK
<1>4. movie \in [status : Releasing \cup {"CANCELLED"}, described : BOOLEAN]
  BY <1>2 DEF Releasing, Delivering
<1>5. TypeOK
  BY <1>1, <1>2, <1>3, <1>4 DEF Init, TypeOK, EpisodesOK, Versioned
<1>6. RequestsHold /\ ReleasesHold
  BY <1>2 DEF RequestsHold, ReleasesHold, Idle
<1>7. \A e \in Episodes : Story(e)
  BY <1>2 DEF Story
<1>. QED
  BY <1>5, <1>6, <1>7 DEF IInv

LEMMA StutterStep == ASSUME IInv, UNCHANGED vars PROVE IInv'
<1>1. UNCHANGED <<movie, episode, newest, disclosed, labelled, checks, publication, req, due, failures>>
  BY DEF vars
<1>2. TypeOK'
  BY <1>1, TypesHold, RestStands, SameEpisodes, TypeFacts DEF IInv, TypeOK
<1>3. RequestsHold' /\ ReleasesHold'
  BY <1>1, RequestsStand, ReleasesStand DEF IInv, KeptEpisodes
<1>. QED
  BY <1>1, <1>2, <1>3, QuietStep

LEMMA BeginReviewStep ==
  ASSUME IInv, NEW r \in Requests, NEW e \in Episodes, NEW v \in Versions, BeginReview(r, e, v)
  PROVE  IInv'
<1>1. v # 0 /\ v \in 0..MaxVersions
  BY ConstantsAssumption DEF Versions
<1>2. PICK op \in {"approve", "changes", "label", "comply"} : Begin(r, op, e, v, 0)
  BY DEF BeginReview
<1>. QED
  BY <1>1, <1>2, BeginStep

LEMMA BeginPublishStep ==
  ASSUME IInv, NEW r \in Requests, NEW e \in Episodes, BeginPublish(r, e) PROVE IInv'
<1>1. PICK op \in {"schedule", "release"} : Begin(r, op, e, episode[e].approved, 0)
  BY DEF BeginPublish
<1>2. episode[e].approved \in 0..MaxVersions /\ episode[e].approved # 0
  BY EpisodeFacts DEF IInv, BeginPublish, NothingMissing
<1>. QED
  BY <1>1, <1>2, BeginStep

LEMMA BeginUnpublishStep ==
  ASSUME IInv, NEW r \in Requests, NEW p \in DOMAIN publication, BeginUnpublish(r, p) PROVE IInv'
<1>1. /\ publication[p].episode \in Episodes /\ publication[p].asset \in 0..MaxVersions /\ p \in Nat
  <2>1. publication[p] \in Publication /\ p \in Nat
    BY DEF IInv, TypeOK
  <2>. QED
    BY <2>1, ConstantsAssumption DEF Publication, Versions
<1>2. CASE /\ episode[publication[p].episode].status = "PUBLISHED"
           /\ \E op \in {"revise", "remove"} :
                 Begin(r, op, publication[p].episode, publication[p].asset, p)
  BY <1>1, <1>2, BeginStep
<1>3. CASE /\ episode[publication[p].episode].status = "SCHEDULED"
           /\ Begin(r, "withdraw", publication[p].episode, publication[p].asset, p)
  BY <1>1, <1>3, BeginStep
<1>. QED
  BY <1>2, <1>3 DEF BeginUnpublish

LEMMA DecideStep == ASSUME IInv, NEW r \in Requests, Decide(r) PROVE IInv'
BY ApproveStep, RequestChangesStep, ApplyLabelStep, RunComplianceStep, SetPriceStep,
   FindPendingStep, ScheduleStep, ReleaseNowStep, ReviseStep, RemoveStep, WithdrawStep, CancelStep
   DEF Decide

LEMMA NextHolds == IInv /\ [Next]_vars => IInv'
<1>. SUFFICES ASSUME IInv, [Next]_vars PROVE IInv'
  OBVIOUS
<1>1. CASE \E e \in Episodes : Deliver(e)
  BY <1>1, DeliverStep
<1>2. CASE Describe
  BY <1>2, DescribeStep
<1>3. CASE \E r \in Requests, e \in Episodes, v \in Versions : BeginReview(r, e, v)
  BY <1>3, BeginReviewStep
<1>4. CASE \E r \in Requests, e \in Episodes : BeginPrice(r, e)
  <2>1. 0 \in 0..MaxVersions
    BY ConstantsAssumption
  <2>. QED
    BY <1>4, <2>1, BeginStep DEF BeginPrice
<1>5. CASE \E r \in Requests, e \in Episodes : BeginPublish(r, e)
  BY <1>5, BeginPublishStep
<1>6. CASE \E r \in Requests, p \in DOMAIN publication : BeginUnpublish(r, p)
  BY <1>6, BeginUnpublishStep
<1>7. CASE \E r \in Requests : BeginCancel(r) \/ Decide(r)
  BY <1>7, BeginCancelStep, DecideStep
<1>8. CASE \E r \in Actors : CommitRelease(r) \/ Abort(r)
  BY <1>8, CommitReleaseStep, AbortStep
<1>9. CASE \E p \in DOMAIN publication : TimePasses(p)
  BY <1>9, TimePassesStep
<1>10. CASE PublishDue \/ ReleaseDue
  BY <1>10, BatchStep, ReleaseDueStep
<1>11. CASE UNCHANGED vars
  BY <1>11, StutterStep
<1>. QED
  BY <1>1, <1>2, <1>3, <1>4, <1>5, <1>6, <1>7, <1>8, <1>9, <1>10, <1>11 DEF Next

(* The inductive invariant: whatever requests decide on what they read      *)
(* before, a version is approved, labelled, checked and priced while its    *)
(* episode is scheduled or out, an episode that is out has a live release,  *)
(* and what let a release start holds until it commits.                     *)
THEOREM Invariance == Spec => []IInv
<1>. QED
  BY InitHolds, NextHolds, PTL DEF Spec

(* Nothing that is scheduled or out is without its label, its four passed   *)
(* checks and its price, with any number of requests and releases.          *)
THEOREM NothingUnvetted == Spec => []NothingUnvettedOut
<1>1. IInv => NothingUnvettedOut
  BY DEF IInv, Story, NothingUnvettedOut
<1>. QED
  BY <1>1, Invariance, PTL

-----------------------------------------------------------------------------
(* What becomes of one release in a step.                                   *)

Recorded(p) ==
    /\ publication[p].taken => publication'[p].taken
    /\ publication[p].published => publication'[p].published
    /\ publication[p].taken /\ ~publication[p].published => ~publication'[p].published

LEMMA SameRecord ==
  ASSUME NEW p, publication'[p].taken = publication[p].taken,
         publication'[p].published = publication[p].published
  PROVE  Recorded(p)
BY DEF Recorded

LEMMA ScheduleRecorded ==
  ASSUME TypeOK, NEW r, Schedule(r), NEW p \in DOMAIN publication
  PROVE  Recorded(p)
<1>1. publication \in Seq(Publication) /\ publication[p] \in Publication
  BY DEF TypeOK
<1>2. CASE publication' = Created(req[r].e, req[r].v, "later")
  <2>1. PICK row : publication' = Append(publication, row)
    BY <1>2 DEF Created
  <2>2. publication'[p] = publication[p]
    BY <1>1, <2>1
  <2>. QED
    BY <2>2, SameRecord
<1>3. CASE publication' = [publication EXCEPT ![req[r].p].at = "later"]
  BY <1>1, <1>3, SameRecord DEF Publication
<1>. QED
  BY <1>2, <1>3 DEF Schedule

\* Only this sets published, and only of a release that was waiting all along.
LEMMA CommitRecorded ==
  ASSUME IInv, NEW r \in Actors, CommitRelease(r), NEW p \in DOMAIN publication
  PROVE  Recorded(p)
<1>1. /\ TypeOK /\ RequestsHold /\ ReleasesHold /\ req[r].op = "out"
      /\ publication \in Seq(Publication) /\ publication[p] \in Publication
  BY DEF IInv, CommitRelease, Transaction, TypeOK
<1>2. req[r].e \in Episodes /\ req[r].v \in Versions
  BY <1>1, ReadingFacts DEF RequestsHold
<1>3. CASE req[r].p = 0
  <2>1. publication' = [Created(req[r].e, req[r].v, "now") EXCEPT ![Len(publication) + 1].published = TRUE]
    BY <1>3 DEF CommitRelease
  <2>2. publication'[p] = publication[p]
    BY <1>1, <1>2, <2>1, CreatedOut
  <2>. QED
    BY <2>2, SameRecord
<1>4. CASE req[r].p # 0
  <2>1. /\ publication' = [publication EXCEPT ![req[r].p].published = TRUE,
                                ![req[r].p].at = IF r = Scheduler THEN @ ELSE "now"]
        /\ Pending(req[r].p)
    BY <1>1, <1>4, PendingFacts DEF CommitRelease, ReleasesHold
  <2>2. CASE p # req[r].p
    <3>1. publication'[p] = publication[p]
      BY <1>1, <2>1, <2>2
    <3>. QED
      BY <3>1, SameRecord
  <2>3. CASE p = req[r].p
    <3>1. publication'[p].taken = publication[p].taken /\ publication'[p].published = TRUE
      BY <1>1, <2>1, <2>3 DEF Publication
    <3>. QED
      BY <2>1, <2>3, <3>1 DEF Recorded, Pending
  <2>. QED
    BY <2>2, <2>3
<1>. QED
  BY <1>3, <1>4

LEMMA TakeDownRecorded ==
  ASSUME TypeOK, NEW d, publication' = TakenDown(d), NEW p \in DOMAIN publication
  PROVE  Recorded(p)
<1>1. publication[p] \in Publication
  BY DEF TypeOK
<1>2. publication'[p].published = publication[p].published
  BY <1>1 DEF TakenDown, Publication
<1>3. publication[p].taken => publication'[p].taken
  BY <1>1 DEF TakenDown, Publication
<1>. QED
  BY <1>1, <1>2, <1>3 DEF Recorded, Publication

LEMMA CancelRecorded ==
  ASSUME TypeOK, NEW r, Cancel(r), NEW p \in DOMAIN publication
  PROVE  Recorded(p)
<1>1. publication[p] \in Publication
  BY DEF TypeOK
<1>2. publication'[p] = [publication[p] EXCEPT !.taken = @ \/ ~publication[p].published]
  BY DEF Cancel
<1>3. /\ publication'[p].published = publication[p].published
      /\ publication'[p].taken = (publication[p].taken \/ ~publication[p].published)
  BY <1>1, <1>2 DEF Publication
<1>. QED
  BY <1>1, <1>3 DEF Recorded, Publication

LEMMA TimeRecorded ==
  ASSUME TypeOK, NEW q, TimePasses(q), NEW p \in DOMAIN publication
  PROVE  Recorded(p)
<1>1. publication[p] \in Publication /\ publication' = [publication EXCEPT ![q].at = "due"]
  BY DEF TypeOK, TimePasses
<1>. QED
  BY <1>1, SameRecord DEF Publication

LEMMA RecordNext ==
  ASSUME IInv, Next, publication' # publication, NEW p \in DOMAIN publication
  PROVE  Recorded(p)
<1>1. TypeOK
  BY DEF IInv
<1>2. CASE \E r \in Requests : Schedule(r)
  BY <1>1, <1>2, ScheduleRecorded
<1>3. CASE \E r \in Actors : CommitRelease(r)
  BY <1>3, CommitRecorded
<1>4. CASE \E r \in Requests : Revise(r) \/ Remove(r) \/ Withdraw(r)
  BY <1>1, <1>4, TakeDownRecorded DEF Revise, Remove, Withdraw
<1>5. CASE \E r \in Requests : Cancel(r)
  BY <1>1, <1>5, CancelRecorded
<1>6. CASE \E q \in DOMAIN publication : TimePasses(q)
  BY <1>1, <1>6, TimeRecorded
<1>7. \/ \E r \in Requests : Schedule(r)
      \/ \E r \in Actors : CommitRelease(r)
      \/ \E r \in Requests : Revise(r) \/ Remove(r) \/ Withdraw(r)
      \/ \E r \in Requests : Cancel(r)
      \/ \E q \in DOMAIN publication : TimePasses(q)
  <2>1. ~ \E r \in Requests, e \in Episodes :
            (\E v \in Versions : BeginReview(r, e, v)) \/ BeginPrice(r, e) \/ BeginPublish(r, e)
    BY DEF BeginReview, BeginPrice, BeginPublish, Begin
  <2>2. ~ \E r \in Requests : (\E q \in DOMAIN publication : BeginUnpublish(r, q)) \/ BeginCancel(r)
    BY DEF BeginUnpublish, BeginCancel, Begin
  <2>3. ~ \E r \in Requests : \/ Approve(r) \/ RequestChanges(r) \/ ApplyLabel(r) \/ RunCompliance(r)
                               \/ SetPrice(r) \/ FindPending(r) \/ ReleaseNow(r)
    BY DEF Approve, RequestChanges, ApplyLabel, RunCompliance, SetPrice, FindPending, ReleaseNow,
           StartRelease
  <2>4. ~ \/ \E e \in Episodes : Deliver(e)
          \/ Describe \/ PublishDue \/ ReleaseDue
          \/ \E r \in Actors : Abort(r)
    BY DEF Deliver, Describe, PublishDue, ReleaseDue, StartRelease, Abort
  <2>. QED
    BY <2>1, <2>2, <2>3, <2>4 DEF Next, Decide
<1>. QED
  BY <1>2, <1>3, <1>4, <1>5, <1>6, <1>7

(* A release that was withdrawn never goes out, though a request had found  *)
(* it before, or the scheduler had it in its batch; and what was taken      *)
(* down, or went out, stays recorded as that.                               *)
THEOREM WithdrawnKept == Spec => WithdrawnStaysIn
<1>1. ASSUME IInv, [Next]_vars
      PROVE  [\A p \in DOMAIN publication :
                 /\ publication[p].taken => publication'[p].taken
                 /\ publication[p].published => publication'[p].published
                 /\ publication[p].taken /\ ~publication[p].published
                      => ~publication'[p].published]_publication
  <2>1. CASE publication' = publication
    BY <2>1
  <2>2. CASE Next /\ publication' # publication
    <3>1. \A p \in DOMAIN publication : Recorded(p)
      BY <1>1, <2>2, RecordNext
    <3>. QED
      BY <3>1 DEF Recorded
  <2>. QED
    BY <1>1, <2>1, <2>2 DEF vars
<1>. QED
  BY <1>1, Invariance, PTL DEF Spec, WithdrawnStaysIn

(* An episode that is out has a live release, whichever requests found what *)
(* release before, it is not shown as under maintenance, and a release that *)
(* was withdrawn stays in.                                                  *)
THEOREM StatusTrue == Spec => StatusHasItsRelease
<1>1. IInv => OutIsLive /\ RevisingIsNotOut
  BY DEF IInv, Story, OutIsLive, RevisingIsNotOut
<1>. QED
  BY <1>1, Invariance, WithdrawnKept, PTL DEF StatusHasItsRelease

-----------------------------------------------------------------------------
(* Release implements ReleaseGate.                                          *)

Shown == [e \in Episodes |-> IF episode[e].status = "PUBLISHED" THEN episode[e].approved ELSE 0]
Vetted == {a \in Assets : Cleared(a)}

\* After a step what is shown is vetted.
LEMMA ShownIsVetted ==
  ASSUME IInv', NEW e \in Episodes, Shown'[e] # 0
  PROVE  <<e, Shown'[e]>> \in Vetted' /\ Shown'[e] \in Versions
<1>1. PICK v : v = episode'[e].approved
  OBVIOUS
<1>2. episode'[e].status = "PUBLISHED" /\ Shown'[e] = v
  BY <1>1 DEF Shown
<1>3. <<e, v>> \in labelled' /\ \A i \in Items : checks'[<<e, v>>][i] = "PASS"
  <2>1. Story(e)'
    BY DEF IInv
  <2>. QED
    BY <1>1, <1>2, <2>1 DEF Story, Cleared
<1>4. v \in Versions
  <2>1. episode'[e] \in Row
    BY DEF IInv, TypeOK
  <2>2. v # 0
    BY <1>2
  <2>. QED
    BY <1>1, <2>1, <2>2, ConstantsAssumption DEF Row, Versions
<1>5. <<e, v>> \in Vetted'
  BY <1>3, <1>4 DEF Vetted, Assets, Cleared
<1>. QED
  BY <1>2, <1>4, <1>5

\* What is shown stays; what is vetted may change.
LEMMA VetStep == ASSUME IInv, IInv', Shown' = Shown PROVE Gate!Vet
<1>1. Vetted' \in SUBSET Gate!Assets
  BY DEF Vetted, Assets, Versions, Gate!Assets
<1>2. \A e \in Episodes : Shown[e] # 0 => <<e, Shown[e]>> \in Vetted'
  <2>1. ASSUME NEW e \in Episodes, Shown'[e] # 0 PROVE <<e, Shown'[e]>> \in Vetted'
    BY <2>1, ShownIsVetted
  <2>. QED
    BY <2>1
<1>. QED
  BY <1>1, <1>2 DEF Gate!Vet, Shown, Vetted

\* One episode is shown or hidden.
LEMMA OneStep ==
  ASSUME IInv, IInv', NEW e \in Episodes, \A f \in Episodes \ {e} : episode'[f] = episode[f],
         \/ Shown[e] = 0 /\ Vetted' = Vetted
         \/ Shown'[e] = 0 /\ Vetted' \subseteq Vetted
         \/ Shown'[e] = Shown[e]
  PROVE  [Gate!Next]_Gate!vars
<1>1. Shown' = [Shown EXCEPT ![e] = Shown'[e]]
  BY DEF Shown
<1>2. CASE Shown'[e] = Shown[e]
  <2>1. Shown' = Shown
    BY <1>1, <1>2 DEF Shown
  <2>. QED
    BY <2>1, VetStep DEF Gate!Next
<1>3. CASE Shown'[e] # Shown[e] /\ Shown[e] = 0 /\ Vetted' = Vetted
  <2>1. <<e, Shown'[e]>> \in Vetted /\ Shown'[e] \in 1..MaxVersions
    <3>1. <<e, Shown'[e]>> \in Vetted' /\ Shown'[e] \in Versions
      BY <1>3, ShownIsVetted
    <3>. QED
      BY <1>3, <3>1 DEF Versions
  <2>2. Gate!Show(e)
    BY <1>1, <1>3, <2>1 DEF Gate!Show, Shown, Vetted
  <2>. QED
    BY <2>2 DEF Gate!Next
<1>4. CASE Shown'[e] # Shown[e] /\ Shown'[e] = 0 /\ Vetted' \subseteq Vetted
  <2>1. Gate!Hide(e)
    BY <1>1, <1>4 DEF Gate!Hide, Shown, Vetted
  <2>. QED
    BY <2>1 DEF Gate!Next
<1>. QED
  BY <1>2, <1>3, <1>4

LEMMA SameShown == ASSUME episode' = episode PROVE Shown' = Shown
BY DEF Shown

LEMMA SameVetted == ASSUME UNCHANGED Vetting PROVE Vetted' = Vetted
BY DEF Vetted, Vetting, Cleared

\* The episode a step writes.
LEMMA EpisodeWritten ==
  ASSUME TypeOK, NEW e \in Episodes, NEW row, episode' = [episode EXCEPT ![e] = row]
  PROVE  /\ \A f \in Episodes \ {e} : episode'[f] = episode[f]
         /\ episode'[e] = row
         /\ Shown[e] = IF episode[e].status = "PUBLISHED" THEN episode[e].approved ELSE 0
         /\ Shown'[e] = IF row.status = "PUBLISHED" THEN row.approved ELSE 0
<1>1. episode'[e] = row /\ \A f \in Episodes \ {e} : episode'[f] = episode[f]
  BY DEF TypeOK
<1>. QED
  BY <1>1 DEF Shown

LEMMA GateInit == Init => Gate!Init
<1>. SUFFICES ASSUME Init PROVE Gate!Init
  OBVIOUS
<1>1. Shown = [e \in Episodes |-> 0]
  BY DEF Init, Shown
<1>2. Vetted \in SUBSET Gate!Assets
  BY DEF Vetted, Assets, Versions, Gate!Assets
<1>. QED
  BY <1>1, <1>2 DEF Gate!Init, Shown, Vetted

\* An episode is written, and labels and checks are not.
LEMMA WrittenStep ==
  ASSUME IInv, IInv', NEW e \in Episodes, NEW row, episode' = [episode EXCEPT ![e] = row],
         UNCHANGED Vetting,
         \/ row.status # "PUBLISHED"
         \/ row.approved = episode[e].approved
  PROVE  [Gate!Next]_Gate!vars
<1>1. TypeOK
  BY DEF IInv
<1>2. /\ \A f \in Episodes \ {e} : episode'[f] = episode[f]
      /\ Shown[e] = IF episode[e].status = "PUBLISHED" THEN episode[e].approved ELSE 0
      /\ Shown'[e] = IF row.status = "PUBLISHED" THEN row.approved ELSE 0
  BY <1>1, EpisodeWritten
<1>3. Shown[e] = 0 \/ Shown'[e] = 0 \/ Shown'[e] = Shown[e]
  BY <1>2
<1>4. Vetted' = Vetted
  BY SameVetted
<1>5. \/ Shown[e] = 0 /\ Vetted' = Vetted
      \/ Shown'[e] = 0 /\ Vetted' \subseteq Vetted
      \/ Shown'[e] = Shown[e]
  BY <1>3, <1>4
<1>. QED
  BY <1>2, <1>5, OneStep

\* A version that is not out gets its label, or its checks, and is not out after that.
LEMMA LabelGated == ASSUME IInv, IInv', NEW r \in Requests, ApplyLabel(r) PROVE [Gate!Next]_Gate!vars
<1>1. /\ TypeOK /\ req[r].op = "label" /\ r \in Actors
      /\ episode[req[r].e].status \in Reviewed
      /\ episode' = [episode EXCEPT ![req[r].e] = [episode[req[r].e] EXCEPT !.status = "LABELED"]]
  BY DEF ApplyLabel, IInv, Transaction, Actors
<1>2. req[r].e \in Episodes
  BY <1>1, ReadingFacts
<1>3. episode[req[r].e] \in Row
  BY <1>1, <1>2 DEF TypeOK
<1>. DEFINE row == [episode[req[r].e] EXCEPT !.status = "LABELED"]
<1>4. row.status = "LABELED" /\ episode' = [episode EXCEPT ![req[r].e] = row]
  BY <1>1, <1>3 DEF Row
<1>. HIDE DEF row
<1>5. PICK e \in Episodes : e = req[r].e
  BY <1>2
<1>6. /\ \A f \in Episodes \ {e} : episode'[f] = episode[f]
      /\ Shown[e] = 0 /\ Shown'[e] = 0
  BY <1>1, <1>4, <1>5, EpisodeWritten DEF Reviewed
<1>. QED
  BY <1>6, OneStep

LEMMA ComplianceGated ==
  ASSUME IInv, IInv', NEW r \in Requests, RunCompliance(r) PROVE [Gate!Next]_Gate!vars
<1>. DEFINE e0 == req[r].e
            a0 == <<req[r].e, req[r].v>>
<1>1. PICK answer \in Answers :
        /\ req[r].op = "comply"
        /\ checks' = [checks EXCEPT ![a0] = Verdicts(a0, answer)]
        /\ IF \E i \in Items : Verdicts(a0, answer)[i] = "FAIL"
           THEN episode' = [episode EXCEPT ![e0] = SentBack(e0)]
           ELSE /\ episode[e0].status = "LABELED"
                /\ episode' = [episode EXCEPT ![e0] = [episode[e0] EXCEPT !.status = "COMPLIANCE_PASSED"]]
        /\ labelled' = labelled
  BY DEF RunCompliance, Transaction
<1>2. /\ TypeOK /\ r \in Actors /\ e0 \in Episodes /\ req[r].v \in Versions
  BY <1>1, ReadingFacts DEF IInv, Actors, RequestsHold
<1>3. PICK e \in Episodes, a \in Assets : e = e0 /\ a = a0
  BY <1>2 DEF Assets
<1>4. episode[e] \in Row
  BY <1>2 DEF TypeOK
<1>5. CASE /\ \E i \in Items : Verdicts(a0, answer)[i] = "FAIL"
           /\ episode' = [episode EXCEPT ![e0] = SentBack(e0)]
  <2>1. SentBack(e).status = "CHANGES_REQUESTED"
    BY <1>4 DEF SentBack, Row
  <2>2. /\ \A f \in Episodes \ {e} : episode'[f] = episode[f]
        /\ Shown'[e] = 0
    <3>1. TypeOK /\ episode' = [episode EXCEPT ![e] = SentBack(e)]
      BY <1>2, <1>3, <1>5
    <3>. QED
      BY <2>1, <3>1, EpisodeWritten
  <2>3. checks'[a] = Verdicts(a, answer) /\ \A b \in Assets \ {a} : checks'[b] = checks[b]
    <3>1. checks \in [Assets -> [Items -> Verdict]]
      BY <1>2, TypeFacts DEF Verdict
    <3>. QED
      BY <1>1, <1>3, <3>1
  <2>4. ~Cleared(a)'
    <3>1. PICK i \in Items : checks'[a][i] = "FAIL"
      BY <1>3, <1>5, <2>3
    <3>. QED
      BY <3>1 DEF Cleared
  <2>5. \A b \in Assets \ {a} : Cleared(b)' => Cleared(b)
    BY <1>1, <2>3 DEF Cleared
  <2>6. Vetted' \subseteq Vetted
    BY <2>4, <2>5 DEF Vetted
  <2>. QED
    BY <2>2, <2>6, OneStep
<1>6. CASE /\ episode[e0].status = "LABELED"
           /\ episode' = [episode EXCEPT ![e0] = [episode[e0] EXCEPT !.status = "COMPLIANCE_PASSED"]]
  <2>. DEFINE row == [episode[e] EXCEPT !.status = "COMPLIANCE_PASSED"]
  <2>1. row.status = "COMPLIANCE_PASSED" /\ episode' = [episode EXCEPT ![e] = row]
    BY <1>3, <1>4, <1>6 DEF Row
  <2>. HIDE DEF row
  <2>2. /\ \A f \in Episodes \ {e} : episode'[f] = episode[f]
        /\ Shown[e] = 0 /\ Shown'[e] = 0
    <3>1. TypeOK /\ episode[e].status = "LABELED"
      BY <1>2, <1>3, <1>6
    <3>. QED
      BY <2>1, <3>1, EpisodeWritten
  <2>. QED
    BY <2>2, OneStep
<1>. QED
  BY <1>1, <1>5, <1>6

\* Every other decision leaves labels and checks alone and never swaps what is shown.
LEMMA DecideGated ==
  ASSUME IInv, IInv', NEW r \in Requests,
         \/ Approve(r) \/ RequestChanges(r) \/ SetPrice(r) \/ Schedule(r)
         \/ Revise(r) \/ Remove(r) \/ Withdraw(r)
  PROVE  [Gate!Next]_Gate!vars
<1>1. TypeOK /\ r \in Actors /\ UNCHANGED Vetting
  BY DEF IInv, Actors, Approve, RequestChanges, SetPrice, Schedule, Revise, Remove, Withdraw
<1>2. req[r].e \in Episodes
  <2>1. req[r].op \in {"approve", "changes", "price", "scheduling", "revise", "remove", "withdraw"}
    BY DEF Transaction, Approve, RequestChanges, SetPrice, Schedule, Revise, Remove, Withdraw
  <2>. QED
    BY <1>1, <2>1, ReadingFacts
<1>3. PICK e \in Episodes : e = req[r].e
  BY <1>2
<1>4. episode[e] \in Row
  BY <1>1 DEF TypeOK
<1>5. \E row :
        /\ episode' = [episode EXCEPT ![e] = row]
        /\ row.status # "PUBLISHED" \/ row.approved = episode[e].approved
  <2>1. CASE Approve(r)
    <3>1. episode' = [episode EXCEPT ![e] = [episode[e] EXCEPT !.status = "APPROVED",
                                                              !.approved = req[r].v]]
      BY <1>1, <1>3, <2>1 DEF Approve, TypeOK
    <3>2. [episode[e] EXCEPT !.status = "APPROVED", !.approved = req[r].v].status = "APPROVED"
      BY <1>4 DEF Row
    <3>. QED
      BY <3>1, <3>2
  <2>2. CASE RequestChanges(r)
    <3>1. SentBack(e).status = "CHANGES_REQUESTED"
      BY <1>4 DEF SentBack, Row
    <3>. QED
      BY <1>3, <2>2, <3>1 DEF RequestChanges
  <2>3. CASE SetPrice(r)
    <3>1. [episode[e] EXCEPT !.priced = TRUE].approved = episode[e].approved
      BY <1>4 DEF Row
    <3>. QED
      BY <1>3, <2>3, <3>1 DEF SetPrice
  <2>4. CASE Schedule(r)
    <3>1. [episode[e] EXCEPT !.status = "SCHEDULED"].status = "SCHEDULED"
      BY <1>4 DEF Row
    <3>. QED
      BY <1>3, <2>4, <3>1 DEF Schedule
  <2>5. CASE Revise(r)
    <3>1. [SentBack(e) EXCEPT !.revising = TRUE].status = "CHANGES_REQUESTED"
      BY <1>4 DEF SentBack, Row
    <3>. QED
      BY <1>3, <2>5, <3>1 DEF Revise
  <2>6. CASE Remove(r)
    <3>1. [episode[e] EXCEPT !.status = "UNPUBLISHED"].status = "UNPUBLISHED"
      BY <1>4 DEF Row
    <3>. QED
      BY <1>3, <2>6, <3>1 DEF Remove
  <2>7. CASE Withdraw(r)
    <3>1. [episode[e] EXCEPT !.status = "COMPLIANCE_PASSED"].status = "COMPLIANCE_PASSED"
      BY <1>4 DEF Row
    <3>. QED
      BY <1>3, <2>7, <3>1 DEF Withdraw
  <2>. QED
    BY <2>1, <2>2, <2>3, <2>4, <2>5, <2>6, <2>7
<1>. QED
  BY <1>1, <1>5, WrittenStep

LEMMA CancelGated == ASSUME IInv, IInv', NEW r \in Requests, Cancel(r) PROVE [Gate!Next]_Gate!vars
<1>1. ASSUME NEW e \in Episodes
      PROVE  /\ episode'[e].status = "PUBLISHED" <=> episode[e].status = "PUBLISHED"
             /\ episode'[e].approved = episode[e].approved
  <2>1. episode[e] \in Row
    BY DEF IInv, TypeOK
  <2>2. episode'[e] = [episode[e] EXCEPT !.status =
                          IF @ = "SCHEDULED" THEN "COMPLIANCE_PASSED" ELSE @]
    BY DEF Cancel
  <2>. QED
    BY <2>1, <2>2 DEF Row
<1>2. Shown' = Shown
  BY <1>1 DEF Shown
<1>. QED
  BY <1>2, VetStep DEF Gate!Next

LEMMA CommitGated ==
  ASSUME IInv, IInv', NEW r \in Actors, CommitRelease(r) PROVE [Gate!Next]_Gate!vars
<1>1. /\ TypeOK /\ UNCHANGED Vetting /\ req[r].op = "out"
      /\ episode' = [episode EXCEPT ![req[r].e].status = "PUBLISHED", ![req[r].e].revising = FALSE]
  BY DEF CommitRelease, Transaction, IInv
<1>2. req[r].e \in Episodes
  BY <1>1, ReadingFacts
<1>3. PICK e \in Episodes : e = req[r].e
  BY <1>2
<1>4. episode[e] \in Row
  BY <1>1 DEF TypeOK
<1>. DEFINE row == [episode[e] EXCEPT !.status = "PUBLISHED", !.revising = FALSE]
<1>5. row.approved = episode[e].approved
  BY <1>4 DEF Row
<1>6. episode' = [episode EXCEPT ![e] = row]
  BY <1>1, <1>3 DEF TypeOK
<1>. HIDE DEF row
<1>. QED
  BY <1>1, <1>5, <1>6, WrittenStep

LEMMA DeliverGated ==
  ASSUME IInv, IInv', NEW e \in Episodes, Deliver(e) PROVE [Gate!Next]_Gate!vars
<1>1. TypeOK /\ UNCHANGED Vetting /\ episode[e] \in Row
  BY DEF Deliver, IInv, TypeOK
<1>. DEFINE row == [episode[e] EXCEPT !.status = "IN_REVIEW"]
<1>2. row.status = "IN_REVIEW" /\ episode' = [episode EXCEPT ![e] = row]
  BY <1>1 DEF Deliver, Row
<1>. HIDE DEF row
<1>. QED
  BY <1>1, <1>2, WrittenStep

LEMMA GateNext == IInv /\ IInv' /\ [Next]_vars => [Gate!Next]_Gate!vars
<1>. SUFFICES ASSUME IInv, IInv', [Next]_vars PROVE [Gate!Next]_Gate!vars
  OBVIOUS
<1>1. CASE \E e \in Episodes : Deliver(e)
  BY <1>1, DeliverGated
<1>2. CASE \E r \in Requests : \/ Approve(r) \/ RequestChanges(r) \/ SetPrice(r) \/ Schedule(r)
                               \/ Revise(r) \/ Remove(r) \/ Withdraw(r)
  BY <1>2, DecideGated
<1>3. CASE \E r \in Requests : ApplyLabel(r)
  BY <1>3, LabelGated
<1>4. CASE \E r \in Requests : RunCompliance(r)
  BY <1>4, ComplianceGated
<1>5. CASE \E r \in Requests : Cancel(r)
  BY <1>5, CancelGated
<1>6. CASE \E r \in Actors : CommitRelease(r)
  BY <1>6, CommitGated
<1>7. CASE UNCHANGED episode
  BY <1>7, SameShown, VetStep DEF Gate!Next
<1>8. \/ \E e \in Episodes : Deliver(e)
      \/ \E r \in Requests : \/ Approve(r) \/ RequestChanges(r) \/ SetPrice(r) \/ Schedule(r)
                              \/ Revise(r) \/ Remove(r) \/ Withdraw(r)
      \/ \E r \in Requests : ApplyLabel(r)
      \/ \E r \in Requests : RunCompliance(r)
      \/ \E r \in Requests : Cancel(r)
      \/ \E r \in Actors : CommitRelease(r)
      \/ UNCHANGED episode
  <2>1. CASE Describe
    BY <2>1 DEF Describe
  <2>2. CASE \E r \in Requests, e \in Episodes, v \in Versions : BeginReview(r, e, v)
    BY <2>2 DEF BeginReview, Begin
  <2>3. CASE \E r \in Requests, e \in Episodes : BeginPrice(r, e) \/ BeginPublish(r, e)
    BY <2>3 DEF BeginPrice, BeginPublish, Begin
  <2>4. CASE \E r \in Requests, p \in DOMAIN publication : BeginUnpublish(r, p)
    BY <2>4 DEF BeginUnpublish, Begin
  <2>5. CASE \E r \in Requests : BeginCancel(r)
    BY <2>5 DEF BeginCancel
  <2>6. CASE \E r \in Requests : Decide(r)
    <3>1. CASE \E r \in Requests : FindPending(r) \/ ReleaseNow(r)
      BY <3>1 DEF FindPending, ReleaseNow, StartRelease
    <3>. QED
      BY <2>6, <3>1 DEF Decide
  <2>7. CASE \E r \in Actors : Abort(r)
    BY <2>7 DEF Abort
  <2>8. CASE \E p \in DOMAIN publication : TimePasses(p)
    BY <2>8 DEF TimePasses
  <2>9. CASE PublishDue
    BY <2>9 DEF PublishDue
  <2>10. CASE ReleaseDue
    BY <2>10 DEF ReleaseDue, StartRelease
  <2>11. CASE UNCHANGED vars
    BY <2>11 DEF vars
  <2>. QED
    BY <2>1, <2>2, <2>3, <2>4, <2>5, <2>6, <2>7, <2>8, <2>9, <2>10, <2>11 DEF Next
<1>. QED
  BY <1>1, <1>2, <1>3, <1>4, <1>5, <1>6, <1>7, <1>8

(* BR-14, BR-19: every behaviour of the release process is one of the gate: *)
(* members see one version of an episode, vetted before and while it is     *)
(* shown, and never another one in its place without a take-down.           *)
THEOREM GateKept == Spec => Gated
<1>. QED
  BY GateInit, GateNext, Invariance, PTL DEF Spec, Gated, Gate!Spec
=============================================================================
