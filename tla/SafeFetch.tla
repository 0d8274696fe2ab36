------------------------------- MODULE SafeFetch -------------------------------
(***************************************************************************)
(* One link that a studio delivered is fetched: a file is downloaded, or a *)
(* playlist is read and then its lowest rendition.  A link is checked, and *)
(* so is every redirect; what a name resolves to may change between the    *)
(* check and the connection.  The server answers what it wants.            *)
(*                                                                         *)
(* A playlist is what probeHls reads of it: finished with segments, live,  *)
(* a master that names renditions, or something else.                      *)
(***************************************************************************)
EXTENDS Integers

CONSTANTS
    Names,         \* hosts that a name server resolves
    Inside, Outside,   \* an address of the platform's own network, and a public one
    AllowPrivate,  \* the setting of a developer's machine
    MaxRedirects,
    MaxBytes,      \* the limit of a file or a playlist, in chunks
    MaxMoves       \* bound: names that change their address

VARIABLES
    resolves,      \* what each name resolves to now
    moves,
    fetch,         \* the fetch under way
    contacted      \* the addresses connected to

vars == <<resolves, moves, fetch, contacted>>

Addresses == {Inside, Outside}
Malformed == "ftp://"
Links == Names \cup Addresses \cup {Malformed}

Unknown == -1

Init ==
    /\ resolves = [n \in Names |-> {Outside}]
    /\ moves = 0
    /\ fetch = [at |-> "idle"]
    /\ contacted = {}

At(step) == fetch.at = step
Goes(step) == fetch' = [fetch EXCEPT !.at = step]
Fails == fetch' = [at |-> "failed"] /\ UNCHANGED <<resolves, moves, contacted>>

-----------------------------------------------------------------------------
(* assertPublicUrl, guardedLookup, send.                                    *)

IsBlocked(address) == address = Inside
Addressed(link) == IF link \in Names THEN resolves[link] ELSE {link}

Allowed(addresses) ==
    AllowPrivate \/ (addresses # {} /\ \A a \in addresses : ~IsBlocked(a))

\* What a connection may be made to: the lookup of a name is guarded, an address has none.
\* Mutant: the name is looked up again without the guard.
AnyLooked(link) == Addressed(link)

Looked(link) == IF link \in Names /\ ~Allowed(Addressed(link)) THEN {} ELSE Addressed(link)

Start(job, link) ==
    /\ At("idle")
    /\ fetch' = [at |-> "check", job |-> job, link |-> link, hop |-> 0, rendition |-> FALSE,
                 declared |-> Unknown, size |-> 0, requests |-> 0]
    /\ UNCHANGED <<resolves, moves, contacted>>

AssertPublicUrl ==
    /\ At("check")
    /\ IF fetch.link # Malformed /\ (AllowPrivate \/ Allowed(Addressed(fetch.link)))
       THEN Goes("send") /\ UNCHANGED <<resolves, moves, contacted>>
       ELSE Fails

Send ==
    /\ At("send")
    /\ \/ Looked(fetch.link) = {} /\ Fails
       \/ \E a \in Looked(fetch.link) :
             /\ contacted' = contacted \cup {a}
             /\ fetch' = [fetch EXCEPT !.at = "answer", !.requests = @ + 1]
             /\ UNCHANGED <<resolves, moves>>

-----------------------------------------------------------------------------
(* safeGet: what the server answers.                                        *)

\* Mutant: the way of a redirect is not counted.
HopOnce(hop) == 1

Hop(hop) == hop + 1

Redirect(link) ==
    /\ At("answer")
    /\ IF Hop(fetch.hop) > MaxRedirects THEN Fails
       ELSE /\ fetch' = [fetch EXCEPT !.at = "check", !.link = link, !.hop = Hop(@)]
            /\ UNCHANGED <<resolves, moves, contacted>>

ErrorStatus == At("answer") /\ Fails

\* The answer has a body; a file that says it is too large is not read.
Answer(declared) ==
    /\ At("answer")
    /\ IF fetch.job = "download" /\ declared > MaxBytes THEN Fails
       ELSE /\ fetch' = [fetch EXCEPT !.at = "body", !.declared = declared]
            /\ UNCHANGED <<resolves, moves, contacted>>

\* Mutant: the size is only what the server said.
AnySize(size) == size < 0

TooLarge(size) == size > MaxBytes

\* A server sends no more than it declared.
Chunk ==
    /\ At("body")
    /\ fetch.declared = Unknown \/ fetch.size < fetch.declared
    /\ IF TooLarge(fetch.size + 1) THEN Fails
       ELSE fetch' = [fetch EXCEPT !.size = @ + 1] /\ UNCHANGED <<resolves, moves, contacted>>

\* A time-out, or a connection that is refused or breaks before the body is there.
Breaks == (At("send") \/ At("answer") \/ At("body")) /\ Fails

Whole == At("body") /\ fetch.declared \in {Unknown, fetch.size}

\* downloadTo.
Downloaded ==
    /\ Whole /\ fetch.job = "download"
    /\ IF fetch.size = 0 THEN Fails ELSE Goes("done") /\ UNCHANGED <<resolves, moves, contacted>>

\* probeHls on a master playlist: the lowest rendition is fetched the same way.
MasterPlaylist(link) ==
    /\ Whole /\ fetch.job = "probe" /\ fetch.size > 0 /\ ~fetch.rendition
    /\ fetch' = [fetch EXCEPT !.at = "check", !.link = link, !.hop = 0, !.rendition = TRUE,
                 !.declared = Unknown, !.size = 0]
    /\ UNCHANGED <<resolves, moves, contacted>>

\* mediaPlaylistDuration: a finished playlist with segments.
MediaPlaylist ==
    /\ Whole /\ fetch.job = "probe" /\ fetch.size > 0
    /\ Goes("done") /\ UNCHANGED <<resolves, moves, contacted>>

\* No playlist, a live one, or one without segments.
NoPlaylist == Whole /\ fetch.job = "probe" /\ Fails

-----------------------------------------------------------------------------
(* The owner of a name gives it other addresses, or none.                   *)
Move(n) ==
    /\ moves < MaxMoves /\ moves' = moves + 1
    /\ \E addresses \in SUBSET Addresses : resolves' = [resolves EXCEPT ![n] = addresses]
    /\ UNCHANGED <<fetch, contacted>>

Next ==
    \/ \E job \in {"download", "probe"}, link \in Links : Start(job, link)
    \/ AssertPublicUrl \/ Send
    \/ \E link \in Links : Redirect(link) \/ MasterPlaylist(link)
    \/ ErrorStatus \/ Breaks \/ \E declared \in {Unknown} \cup 0..(MaxBytes + 1) : Answer(declared)
    \/ Chunk \/ Downloaded \/ MediaPlaylist \/ NoPlaylist
    \/ \E n \in Names : Move(n)

Spec == Init /\ [][Next]_vars

-----------------------------------------------------------------------------
(* "the address the socket really connects to is the one checked", and      *)
(* "variants cannot point inside the network": whatever a link, a redirect  *)
(* or a playlist names, and whenever a name moves, a deployment that does   *)
(* not allow it connects to public addresses only.                          *)
OnlyPublicIsContacted == ~AllowPrivate => contacted \subseteq {Outside}

(* What is taken for a file or a playlist is not empty and within the limit,*)
(* whatever the server declares.                                            *)
TakenIsWithinLimit == At("done") => fetch.size \in 1..MaxBytes

(* Servers do not send the platform around for ever: a link costs at most   *)
(* MaxRedirects and one requests, and a playlist as many for its rendition. *)
FetchIsBounded == ("requests" \in DOMAIN fetch) => fetch.requests <= 2 * (MaxRedirects + 1)

(* A link of a studio reaches, costs and brings in what it may.             *)
FetchIsSafe == OnlyPublicIsContacted /\ TakenIsWithinLimit /\ FetchIsBounded

-----------------------------------------------------------------------------
(* What the proofs add to the properties.                                   *)

Fetching ==
    [at : {"check", "send", "answer", "body", "done"}, job : {"download", "probe"}, link : Links,
     hop : Nat, rendition : BOOLEAN, declared : Int, size : Nat, requests : Nat]

Nothing == {[at |-> "idle"], [at |-> "failed"]}

TypeOK ==
    /\ resolves \in [Names -> SUBSET Addresses]
    /\ moves \in Int
    /\ fetch \in Nothing \cup Fetching

\* A link that is about to be connected to is a name, or an address that was checked.
Checked == At("send") => fetch.link # Malformed /\ (AllowPrivate \/ fetch.link \in Names \cup {Outside})

SizeWithin == fetch \in Fetching => fetch.size <= MaxBytes /\ (At("done") => fetch.size > 0)

\* The request of the hop under way is made once the answer is waited for.
Made == IF fetch.at \in {"check", "send"} THEN 0 ELSE 1

RequestsWithin == fetch \in Fetching =>
    /\ fetch.hop <= MaxRedirects
    /\ fetch.rendition => fetch.requests <= MaxRedirects + 1 + fetch.hop + Made
    /\ ~fetch.rendition => fetch.requests <= fetch.hop + Made

IInv == TypeOK /\ OnlyPublicIsContacted /\ Checked /\ SizeWithin /\ RequestsWithin
=============================================================================
