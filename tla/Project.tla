-------------------------------- MODULE Project --------------------------------
(***************************************************************************)
(* A movie project from its creation to the hand-off and beyond: seasons   *)
(* and episodes are added and edited, the Creator is assigned and hands    *)
(* the project off, the Reviewer attaches idea files or cancels, the Admin *)
(* proposes changes.                                                       *)
(*                                                                         *)
(* Requests read first and write in a transaction.  Additions lock the row *)
(* of the movie and number what they add from the largest number there is; *)
(* nothing that was read before the transaction is read again under that   *)
(* lock.  Updates of the movie row wait for it.  Fees are in               *)
(* ReviewerBudget, links and answers of the studio in StudioPortal, what   *)
(* happens to a delivered episode in Delivery and Release.                 *)
(***************************************************************************)
EXTENDS Integers, Sequences

CONSTANTS
    Requests,      \* requests served at once
    MaxDay,        \* bound: the last day
    MaxRows        \* bound: episodes, idea files and proposals of the project

VARIABLES
    movie,         \* Movie.status
    seasons,       \* number of seasons, which are numbered 1, 2, ...
    episodes,      \* Episode rows, in the order they were added
    files,         \* MovieIdeaFile rows, in the order they were added
    stored,        \* number of objects the uploads have stored
    proposals,     \* status of each ProjectChangeRequest
    today,         \* the business day
    lock,          \* who holds the row of the movie; nobody, or one
    req            \* what each request has read

vars == <<movie, seasons, episodes, files, stored, proposals, today, lock, req>>

Open == {"DRAFT", "ASSIGNED", "IN_PRODUCTION"}
BeforeApproval == {"DRAFT", "AWAITING_MEDIA"}
Days == 1..MaxDay

\* due is 0 before the hand-off.
Episode == [number : Nat, status : BeforeApproval, milestone : Days, due : Days \cup {0}]
File == [version : Nat, object : Nat]

Idle == [op |-> "idle"]

Room == Len(episodes) + stored + Len(proposals) < MaxRows

\* The project is created with its first season and episode.
Init ==
    /\ movie = "DRAFT"
    /\ seasons = 1
    /\ \E day \in Days :
          episodes = <<[number |-> 1, status |-> "DRAFT", milestone |-> day, due |-> 0]>>
    /\ files = <<>> /\ stored = 0
    /\ proposals = <<>>
    /\ today = 1
    /\ lock = {}
    /\ req = [r \in Requests |-> Idle]

Read(r, reading) ==
    /\ req[r] = Idle
    /\ req' = [req EXCEPT ![r] = reading]
    /\ UNCHANGED <<movie, seasons, episodes, files, proposals, today, lock>>

\* The request is over; its transaction commits with this step.
Done(r) ==
    /\ lock' = lock \ {r}
    /\ req' = [req EXCEPT ![r] = Idle]

Abort(r) ==
    /\ req[r] # Idle
    /\ Done(r)
    /\ UNCHANGED <<movie, seasons, episodes, files, stored, proposals, today>>

NextDay ==
    /\ today < MaxDay /\ today' = today + 1
    /\ UNCHANGED <<movie, seasons, episodes, files, stored, proposals, lock, req>>

-----------------------------------------------------------------------------
\* Seasons and episodes.

\* A milestone in the past is refused (milestoneDay).
BeginAdd(r, day) ==
    /\ movie \in Open
    /\ day >= today
    /\ Read(r, [op |-> "add", day |-> day, movie |-> movie, last |-> 0])
    /\ UNCHANGED stored

\* Mutant: the largest number is read without the lock.
ReadLast(r) ==
    /\ req[r].op = "add"
    /\ req' = [req EXCEPT ![r].op = "insert", ![r].last = Len(episodes)]
    /\ UNCHANGED <<movie, seasons, episodes, files, stored, proposals, today, lock>>

\* lockMovie, and the largest numbers under it.
LockAdd(r) ==
    /\ req[r].op = "add"
    /\ lock = {}
    /\ lock' = {r}
    /\ req' = [req EXCEPT ![r].op = "insert", ![r].last = Len(episodes)]
    /\ UNCHANGED <<movie, seasons, episodes, files, stored, proposals, today>>

\* Mutant: an episode added after the hand-off waits for the studio without a due date.
AddedWithoutDue(q) ==
    [number |-> q.last + 1, milestone |-> q.day, due |-> 0,
     status |-> IF q.movie = "IN_PRODUCTION" THEN "AWAITING_MEDIA" ELSE "DRAFT"]

\* createEpisodes, with initialEpisodeStatus of the project as it was read before the lock.
Added(q) ==
    IF q.movie = "IN_PRODUCTION"
    THEN [number |-> q.last + 1, milestone |-> q.day, due |-> q.day,
          status |-> "AWAITING_MEDIA"]
    ELSE [number |-> q.last + 1, milestone |-> q.day, due |-> 0,
          status |-> "DRAFT"]

\* addEpisode to a season there is; addSeason makes the next season, with its first episode.
InsertEpisode(r, season) ==
    /\ req[r].op = "insert"
    /\ Room
    /\ seasons' = IF season THEN seasons + 1 ELSE seasons
    /\ episodes' = Append(episodes, Added(req[r]))
    /\ Done(r)
    /\ UNCHANGED <<movie, files, stored, proposals, today>>

\* updateEpisode moves the deadline; whether the studio has one is read first.
BeginEdit(r, i, day) ==
    /\ movie \in Open
    /\ episodes[i].status \in BeforeApproval
    /\ day >= today
    /\ Read(r, [op |-> "edit", episode |-> i, day |-> day, due |-> episodes[i].due # 0])
    /\ UNCHANGED stored

EditEpisode(r) == LET i == req[r].episode IN
    /\ req[r].op = "edit"
    /\ episodes' = [episodes EXCEPT ![i].milestone = req[r].day,
                                    ![i].due = IF req[r].due THEN req[r].day ELSE @]
    /\ Done(r)
    /\ UNCHANGED <<movie, seasons, files, stored, proposals, today>>

-----------------------------------------------------------------------------
\* Assignment, hand-off, cancellation.

BeginAssign(r) ==
    /\ movie \in Open
    /\ Read(r, [op |-> "assign", movie |-> movie])
    /\ UNCHANGED stored

\* Mutant: the status is not looked at again.
AssignAnyway(r) ==
    /\ req[r].op = "assign"
    /\ lock = {}
    /\ movie' = IF req[r].movie = "DRAFT" THEN "ASSIGNED" ELSE req[r].movie
    /\ Done(r)
    /\ UNCHANGED <<seasons, episodes, files, stored, proposals, today>>

\* assignCreator: any open project is taken, and the status that was read is written back.
Assign(r) ==
    /\ req[r].op = "assign"
    /\ lock = {} /\ movie \in Open
    /\ movie' = IF req[r].movie = "DRAFT" THEN "ASSIGNED" ELSE req[r].movie
    /\ Done(r)
    /\ UNCHANGED <<seasons, episodes, files, stored, proposals, today>>

\* handOff reads the deadlines; one already past has to be moved first.
BeginHandOff(r) ==
    /\ movie = "ASSIGNED"
    /\ \A i \in DOMAIN episodes : episodes[i].milestone >= today
    /\ Read(r, [op |-> "handoff", due |-> [i \in DOMAIN episodes |-> episodes[i].milestone]])
    /\ UNCHANGED stored

\* The deadlines that were read are written to the episodes that were found.
HandOff(r) == LET due == req[r].due IN
    /\ req[r].op = "handoff"
    /\ lock = {} /\ movie = "ASSIGNED"
    /\ movie' = "IN_PRODUCTION"
    /\ episodes' = [i \in DOMAIN episodes |->
                      IF i \in DOMAIN due
                      THEN [episodes[i] EXCEPT !.due = due[i], !.status = "AWAITING_MEDIA"]
                      ELSE episodes[i]]
    /\ Done(r)
    /\ UNCHANGED <<seasons, files, stored, proposals, today>>

\* cancel; the releases it withdraws are in Release.
Cancel ==
    /\ lock = {} /\ movie \in Open
    /\ movie' = "CANCELLED"
    /\ UNCHANGED <<seasons, episodes, files, stored, proposals, today, lock, req>>

-----------------------------------------------------------------------------
\* Idea files: the object is stored, then the row gets the next version under the lock.

BeginUpload(r) ==
    /\ movie \in Open
    /\ Room /\ stored' = stored + 1
    /\ Read(r, [op |-> "upload", object |-> stored + 1, last |-> 0])

LockUpload(r) ==
    /\ req[r].op = "upload"
    /\ lock = {}
    /\ lock' = {r}
    /\ req' = [req EXCEPT ![r].op = "file", ![r].last = Len(files)]
    /\ UNCHANGED <<movie, seasons, episodes, files, stored, proposals, today>>

InsertFile(r) ==
    /\ req[r].op = "file"
    /\ files' = Append(files, [version |-> req[r].last + 1, object |-> req[r].object])
    /\ Done(r)
    /\ UNCHANGED <<movie, seasons, episodes, stored, proposals, today>>

-----------------------------------------------------------------------------
\* Changes the Admin proposes, answered once.

Propose ==
    /\ movie # "CANCELLED"
    /\ Room
    /\ proposals' = Append(proposals, "OPEN")
    /\ UNCHANGED <<movie, seasons, episodes, files, stored, today, lock, req>>

\* Mutant: an answer replaces an older one.
AnswerAgain(i, answer) ==
    /\ proposals' = [proposals EXCEPT ![i] = answer]
    /\ UNCHANGED <<movie, seasons, episodes, files, stored, today, lock, req>>

Answer(i, answer) ==
    /\ proposals[i] = "OPEN"
    /\ proposals' = [proposals EXCEPT ![i] = answer]
    /\ UNCHANGED <<movie, seasons, episodes, files, stored, today, lock, req>>

-----------------------------------------------------------------------------
Next ==
    \/ \E r \in Requests :
          \/ \E day \in Days :
                \/ BeginAdd(r, day)
                \/ \E i \in DOMAIN episodes : BeginEdit(r, i, day)
          \/ \E season \in BOOLEAN : InsertEpisode(r, season)
          \/ LockAdd(r) \/ EditEpisode(r)
          \/ BeginAssign(r) \/ Assign(r) \/ BeginHandOff(r) \/ HandOff(r)
          \/ BeginUpload(r) \/ LockUpload(r) \/ InsertFile(r) \/ Abort(r)
    \/ Cancel
    \/ Propose
    \/ \E i \in DOMAIN proposals, answer \in {"ACCEPTED", "REJECTED"} : Answer(i, answer)
    \/ NextDay

Spec == Init /\ [][Next]_vars

-----------------------------------------------------------------------------
(* BR-37: episodes are numbered 1, 2, ... over the whole movie and every    *)
(* upload of a file gets the next version, although requests add seasons,   *)
(* episodes and files at once: the lock on the movie covers both reads.     *)
NumberedOn ==
    /\ \A i \in DOMAIN episodes : episodes[i].number = i
    /\ \A i \in DOMAIN files : files[i].version = i

(* BR-38: the studio is due on an episode exactly when it waits for media,  *)
(* and an episode waits only in a project that was handed off, whichever of *)
(* additions, edits, assignments and the hand-off come in between.          *)
DueMeansHandedOff == \A i \in DOMAIN episodes :
    episodes[i].due # 0 <=> episodes[i].status = "AWAITING_MEDIA"

(* A cancelled project is never assigned or handed off again by a request   *)
(* that read it before, and an answer to a proposal is final.               *)
FinalStays ==
    [][ /\ movie = "CANCELLED" => movie' = "CANCELLED"
        /\ \A i \in DOMAIN proposals : proposals[i] # "OPEN" => proposals'[i] = proposals[i] ]_vars

(* project-rules: "A project can still be planned and changed until it is   *)
(* completed or cancelled": it moves on and not back.  Assigning another    *)
(* Creator writes back the status it read and undoes a hand-off.            *)
NeverBack == [][movie = "IN_PRODUCTION" => movie' \in {"IN_PRODUCTION", "CANCELLED"}]_vars

(* updateEpisode: "Once handed off the studio is due that day too: one      *)
(* deadline per episode (BR-38)".  An edit and a hand-off that read before  *)
(* the other commits leave two.                                             *)
OneDeadline == \A i \in DOMAIN episodes :
    episodes[i].due # 0 => episodes[i].due = episodes[i].milestone

(* initialEpisodeStatus: "New episodes start waiting for the studio once    *)
(* the project was handed off".  One that is added while the hand-off runs  *)
(* stays a draft nobody can deliver.                                        *)
NoneLeftBehind == movie = "IN_PRODUCTION" =>
    \A i \in DOMAIN episodes : episodes[i].status = "AWAITING_MEDIA"

(* The plan of a project stays in order, and what was cancelled or answered *)
(* stays so.                                                               *)
PlanIsKept == []NumberedOn /\ []DueMeansHandedOff /\ FinalStays

-----------------------------------------------------------------------------
(* What the proofs add to the properties.                                   *)

Adding == [op : {"add", "insert"}, day : Days, movie : Open, last : Nat]
Editing == [op : {"edit"}, episode : Nat, day : Days, due : BOOLEAN]
Assigning == [op : {"assign"}, movie : Open]
HandingOff == [op : {"handoff"}, due : Seq(Days)]
Uploading == [op : {"upload", "file"}, object : Nat, last : Nat]

TypeOK ==
    /\ movie \in Open \cup {"CANCELLED"}
    /\ episodes \in Seq(Episode)
    /\ files \in Seq(File)
    /\ stored \in Nat
    /\ proposals \in Seq({"OPEN", "ACCEPTED", "REJECTED"})
    /\ lock \subseteq Requests
    /\ req \in [Requests -> {Idle} \cup Adding \cup Editing \cup Assigning \cup HandingOff \cup Uploading]

\* Who is about to insert holds the lock, and the number read under it is still the last one.
LastIsRead(r) ==
    /\ req[r].op = "insert" => lock = {r} /\ req[r].last = Len(episodes)
    /\ req[r].op = "file" => lock = {r} /\ req[r].last = Len(files)

\* An episode that an edit found due is due.
FoundDue(r) ==
    req[r].op = "edit" =>
        /\ req[r].episode \in DOMAIN episodes
        /\ req[r].due => episodes[req[r].episode].due # 0

IInv == TypeOK /\ NumberedOn /\ DueMeansHandedOff /\ \A r \in Requests : LastIsRead(r) /\ FoundDue(r)
=============================================================================
