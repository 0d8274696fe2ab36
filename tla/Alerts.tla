--------------------------------- MODULE Alerts ---------------------------------
(***************************************************************************)
(* The two sweeps that tell the Creator and the Reviewer of something that *)
(* goes on: an external link that is dead (HlsLinkCheckJob), an episode    *)
(* that is late (OverdueEpisodesJob).  Neither keeps a flag: it counts the *)
(* notices there are.  The sweeps of two instances, or two of one instance *)
(* when the first is slow, run over each other.                            *)
(*                                                                         *)
(* The two sweeps share nothing, so a behaviour follows one of them, with  *)
(* one link or with the episodes.  Of the times of notices and of checks   *)
(* only the order is kept.                                                 *)
(***************************************************************************)
EXTENDS Integers

CONSTANTS
    Sweepers,     \* sweeps that may run at once
    Episodes,
    Idle,
    MaxChanges,   \* bound: times the link or an episode changes
    MaxFaults     \* bound: sweeps that die

VARIABLES
    subject,      \* "link" or "episodes": which sweep this behaviour follows
    link,         \* "up" or "down"
    notice,       \* the last notice of the link: none, or before or after last_checked_at
    reports,      \* notices of the link since it last was up
    overdue,      \* the episodes that are past their due date without a delivery
    flags,        \* notices of an episode
    sweep,
    changes, faults

vars == <<subject, link, notice, reports, overdue, flags, sweep, changes, faults>>

Init ==
    /\ subject \in {"link", "episodes"}
    /\ link = "up" /\ notice = "none" /\ reports = 0
    /\ overdue = {} /\ flags = [e \in Episodes |-> 0]
    /\ sweep = [i \in Sweepers |-> Idle]
    /\ changes = 0 /\ faults = 0

Goes(i, pc) == sweep' = [sweep EXCEPT ![i].pc = pc]
Ends(i) == sweep' = [sweep EXCEPT ![i] = Idle]
At(i, pc) == sweep[i] # Idle /\ sweep[i].pc = pc

world == <<subject, link, overdue, changes, faults>>

-----------------------------------------------------------------------------
(* HlsLinkCheckJob.sweep, for one approved asset.                           *)

\* Mutant: any notice of the asset will do, an old one too.
EverReported == notice # "none"

\* A notice is created after the last_checked_at that the sweep reads.
Reported == notice = "new"

BeginCheck(i) ==
    /\ subject = "link" /\ sweep[i] = Idle
    /\ sweep' = [sweep EXCEPT ![i] = [pc |-> "probe", known |-> Reported]]
    /\ UNCHANGED <<world, notice, reports, flags>>

Probe(i) ==
    /\ At(i, "probe")
    /\ Goes(i, IF link = "up" THEN "worked" ELSE "count")
    /\ UNCHANGED <<world, notice, reports, flags>>

\* last_checked_at is now: later than every notice.
Worked(i) ==
    /\ At(i, "worked")
    /\ notice' = IF notice = "none" THEN notice ELSE "old"
    /\ Ends(i)
    /\ UNCHANGED <<world, reports, flags>>

\* The update is inside the try: a link that works is reported when it is not written.
UnwrittenCheck(i) ==
    /\ At(i, "worked") /\ faults < MaxFaults /\ faults' = faults + 1
    /\ Goes(i, "count")
    /\ UNCHANGED <<subject, link, overdue, changes, notice, reports, flags>>

Count(i) ==
    /\ At(i, "count")
    /\ IF sweep[i].known THEN Ends(i) ELSE Goes(i, "report")
    /\ UNCHANGED <<world, notice, reports, flags>>

\* Whatever another sweep read, this notice is later.
Report(i) ==
    /\ At(i, "report")
    /\ notice' = "new"
    /\ reports' = IF link = "down" /\ reports < 2 THEN reports + 1 ELSE reports
    /\ sweep' = [j \in Sweepers |->
          IF j = i \/ sweep[j] = Idle THEN (IF j = i THEN Idle ELSE sweep[j])
          ELSE [sweep[j] EXCEPT !.known = TRUE]]
    /\ UNCHANGED <<world, flags>>

-----------------------------------------------------------------------------
(* OverdueEpisodesJob.sweep.                                                *)

\* Mutant: the notices of the project are counted.
AnyFlagged(e) == \E other \in Episodes : flags[other] > 0

AlreadyFlagged(e) == flags[e] > 0

BeginOverdue(i) ==
    /\ subject = "episodes" /\ sweep[i] = Idle /\ overdue # {}
    /\ sweep' = [sweep EXCEPT ![i] = [pc |-> "next", left |-> overdue]]
    /\ UNCHANGED <<world, notice, reports, flags>>

NextEpisode(i, e) ==
    /\ At(i, "next") /\ e \in sweep[i].left
    /\ sweep' = [sweep EXCEPT ![i] =
          IF ~AlreadyFlagged(e) THEN [pc |-> "flag", left |-> sweep[i].left, episode |-> e]
          ELSE IF sweep[i].left = {e} THEN Idle
          ELSE [sweep[i] EXCEPT !.left = @ \ {e}]]
    /\ UNCHANGED <<world, notice, reports, flags>>

Flag(i) ==
    /\ At(i, "flag")
    /\ flags' = [flags EXCEPT ![sweep[i].episode] = IF @ < 2 THEN @ + 1 ELSE @]
    /\ LET left == sweep[i].left \ {sweep[i].episode}
       IN  sweep' = [sweep EXCEPT ![i] = IF left = {} THEN Idle ELSE [pc |-> "next", left |-> left]]
    /\ UNCHANGED <<world, notice, reports>>

-----------------------------------------------------------------------------
(* A sweep that throws, or whose process stops, leaves the rest of its list *)
(* to the next one.                                                         *)
Dies(i) ==
    /\ sweep[i] # Idle /\ faults < MaxFaults /\ faults' = faults + 1
    /\ Ends(i)
    /\ UNCHANGED <<subject, link, overdue, changes, notice, reports, flags>>

Changes ==
    /\ changes < MaxChanges /\ changes' = changes + 1
    /\ UNCHANGED <<subject, faults, notice, flags, sweep>>

LinkBreaks == subject = "link" /\ link = "up" /\ link' = "down" /\ Changes /\ UNCHANGED <<reports, overdue>>
LinkWorks == link = "down" /\ link' = "up" /\ reports' = 0 /\ Changes /\ UNCHANGED overdue

FallsDue(e) ==
    /\ subject = "episodes" /\ e \notin overdue /\ overdue' = overdue \cup {e}
    /\ Changes /\ UNCHANGED <<link, reports>>
Delivered(e) == e \in overdue /\ overdue' = overdue \ {e} /\ Changes /\ UNCHANGED <<link, reports>>

CheckStep(i) == BeginCheck(i) \/ Probe(i) \/ Worked(i) \/ Count(i) \/ Report(i)
OverdueStep(i) == BeginOverdue(i) \/ Flag(i) \/ \E e \in Episodes : NextEpisode(i, e)

Next ==
    \/ \E i \in Sweepers : CheckStep(i) \/ OverdueStep(i) \/ UnwrittenCheck(i) \/ Dies(i)
    \/ LinkBreaks \/ LinkWorks
    \/ \E e \in Episodes : FallsDue(e) \/ Delivered(e)

\* A schedule runs its handler at every interval, and the handler ends.
Fairness == \A i \in Sweepers : WF_vars(CheckStep(i)) /\ WF_vars(OverdueStep(i))

Spec == Init /\ [][Next]_vars /\ Fairness

-----------------------------------------------------------------------------
(* A link that stays dead is reported, also when it was reported before and *)
(* worked in between, and whatever sweep dies on the way.                   *)
DeadIsReported == <>[](link = "down") => <>[](notice = "new")

(* An episode that stays late is flagged, whatever else was flagged before  *)
(* and whatever sweep died on the way.                                      *)
LateIsFlagged == \A e \in Episodes : e \in overdue ~> (flags[e] > 0 \/ e \notin overdue)

(* "a dead link is reported once to the Creator and the Reviewer until it   *)
(* works again": two sweeps count before either of them writes.             *)
ReportedOnce == reports <= 1

(* "an episode past its due date without a delivery is flagged once".       *)
FlaggedOnce == \A e \in Episodes : flags[e] <= 1

(* What stays wrong is reported, whatever sweep dies on the way.            *)
StaysReported == DeadIsReported /\ LateIsFlagged
=============================================================================
