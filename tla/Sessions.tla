-------------------------------- MODULE Sessions --------------------------------
(***************************************************************************)
(* The refresh tokens of one account.  Logins issue them, each refresh     *)
(* replaces the one it used, a replaced token that comes back signs the    *)
(* account out everywhere, and so does an update that locks the account or *)
(* changes its role or password.  Requests read first and write later; the *)
(* statement that signs out everywhere revokes what it saw when it began.  *)
(***************************************************************************)
EXTENDS Integers, Sequences, FiniteSets

CONSTANTS
    Requests,      \* requests served at once
    MaxTokens,     \* bound: refresh tokens made
    MaxChanges     \* bound: updates of role or password

VARIABLES
    account,       \* the User row: whether it is there and active, and its role and
                   \* password as the number of changes they have seen
    tokens,        \* RefreshToken rows, oldest first; a token is its number here
    req            \* what each request is doing

vars == <<account, tokens, req>>

Accounts == [exists : BOOLEAN, active : BOOLEAN, version : 0..MaxChanges]

\* session is the token its login issued; version is the account it was issued to.
Token(session, version) ==
    [session |-> session, version |-> version, revoked |-> FALSE, expired |-> FALSE]

Idle == [op |-> "idle"]

Init ==
    /\ account = [exists |-> TRUE, active |-> TRUE, version |-> 0]
    /\ tokens = <<>>
    /\ req = [r \in Requests |-> Idle]

Go(r, doing) == req' = [req EXCEPT ![r] = doing]

\* A request fails, or its process dies.
Abort(r) ==
    /\ req[r] # Idle
    /\ Go(r, Idle)
    /\ UNCHANGED <<account, tokens>>

-----------------------------------------------------------------------------
\* Sign-in; register comes to Issue with the account it has just committed.

BeginLogin(r) ==
    /\ req[r] = Idle
    /\ account.exists /\ account.active
    /\ Go(r, [op |-> "issue", version |-> account.version])
    /\ UNCHANGED <<account, tokens>>

\* The row names its user: no token without the account.
Issue(r) ==
    /\ req[r].op = "issue"
    /\ account.exists /\ Len(tokens) < MaxTokens
    /\ tokens' = Append(tokens, Token(Len(tokens) + 1, req[r].version))
    /\ Go(r, Idle)
    /\ UNCHANGED account

\* rotate: what becomes of a presented token is decided by what was read.
BeginRotate(r, t) ==
    /\ req[r] = Idle /\ account.exists
    /\ \/ tokens[t].revoked /\ Go(r, [op |-> "revokeAll"])
       \/ /\ ~tokens[t].revoked /\ ~tokens[t].expired /\ account.active
          /\ Go(r, [op |-> "rotate", token |-> t, version |-> account.version])
    /\ UNCHANGED <<account, tokens>>

\* Mutant: the second of two refreshes does not look whether it was first.
RotateAnyway(r) == LET t == req[r].token IN
    /\ req[r].op = "rotate"
    /\ account.exists
    /\ Len(tokens) < MaxTokens
    /\ tokens' = Append([tokens EXCEPT ![t].revoked = TRUE],
                        Token(tokens[t].session, req[r].version))
    /\ Go(r, Idle)
    /\ UNCHANGED account

\* Only the request that revokes the token gets the next one.
Rotate(r) == LET t == req[r].token IN
    /\ req[r].op = "rotate"
    /\ account.exists /\ ~tokens[t].revoked
    /\ Len(tokens) < MaxTokens
    /\ tokens' = Append([tokens EXCEPT ![t].revoked = TRUE],
                        Token(tokens[t].session, req[r].version))
    /\ Go(r, Idle)
    /\ UNCHANGED account

\* Sign-out of one session.
Revoke(t) ==
    /\ ~tokens[t].revoked
    /\ tokens' = [tokens EXCEPT ![t].revoked = TRUE]
    /\ UNCHANGED <<account, req>>

\* revokeAll: the statement sees the tokens that are committed when it starts ...
BeginRevokeAll(r) ==
    /\ req[r].op = "revokeAll"
    /\ Go(r, [op |-> "revoking", seen |-> {t \in DOMAIN tokens : ~tokens[t].revoked}])
    /\ UNCHANGED <<account, tokens>>

\* ... and revokes those.
RevokeAll(r) ==
    /\ req[r].op = "revoking"
    /\ tokens' = [t \in DOMAIN tokens |->
                    [tokens[t] EXCEPT !.revoked = @ \/ t \in req[r].seen]]
    /\ Go(r, Idle)
    /\ UNCHANGED account

Expire(t) ==
    /\ ~tokens[t].expired
    /\ tokens' = [tokens EXCEPT ![t].expired = TRUE]
    /\ UNCHANGED <<account, req>>

-----------------------------------------------------------------------------
\* The Admin's updates; all but an unlock sign the account out once they committed.

Update(r) ==
    /\ req[r] = Idle
    /\ account.exists
    /\ \/ /\ account.version < MaxChanges
          /\ account' = [account EXCEPT !.version = @ + 1]
          /\ Go(r, [op |-> "revokeAll"])
       \/ account' = [account EXCEPT !.active = FALSE] /\ Go(r, [op |-> "revokeAll"])
       \/ account' = [account EXCEPT !.active = TRUE] /\ UNCHANGED req
    /\ UNCHANGED tokens

\* Mutant: the sessions outlive the account.
RemoveKeepingTokens ==
    /\ account.exists
    /\ account' = [account EXCEPT !.exists = FALSE]
    /\ UNCHANGED <<tokens, req>>

\* remove: sessions go with the account.
Remove ==
    /\ account.exists
    /\ account' = [account EXCEPT !.exists = FALSE]
    /\ tokens' = <<>>
    /\ UNCHANGED req

-----------------------------------------------------------------------------
Next ==
    \/ \E r \in Requests :
          \/ BeginLogin(r) \/ Issue(r) \/ Rotate(r)
          \/ BeginRevokeAll(r) \/ RevokeAll(r) \/ Update(r) \/ Abort(r)
          \/ \E t \in DOMAIN tokens : BeginRotate(r, t)
    \/ \E t \in DOMAIN tokens : Revoke(t) \/ Expire(t)
    \/ Remove

Spec == Init /\ [][Next]_vars

-----------------------------------------------------------------------------
Live(t) == ~tokens[t].revoked

(* SessionTokenService: "Each refresh replaces the token it used".  However *)
(* many refreshes present the same token at once, only the newest token of  *)
(* a session can be live, and no session outlives its account.              *)
OneLiveToken ==
    /\ \A t, u \in DOMAIN tokens : tokens[t].session = tokens[u].session /\ t < u => ~Live(t)
    /\ account.exists \/ tokens = <<>>

(* UserService: "A locked account, a new role or a new password must not    *)
(* keep the sessions issued before."  When a sign-out is done and nothing   *)
(* else is going on, no live token was issued to the account as it was; a   *)
(* refresh or a login that finishes while it runs leaves one behind.        *)
SignedOutEverywhere ==
    [][ \A r \in Requests :
          RevokeAll(r) /\ (\A s \in Requests : req'[s] = Idle)
          => \A t \in DOMAIN tokens' : ~tokens'[t].revoked => tokens'[t].version = account.version ]_vars

-----------------------------------------------------------------------------
(* What the proofs add to the properties.                                   *)

Row == [session : Nat, version : 0..MaxChanges, revoked : BOOLEAN, expired : BOOLEAN]

Issuing == [op : {"issue"}, version : 0..MaxChanges]
Rotating == [op : {"rotate"}, token : Nat, version : 0..MaxChanges]
Revoking == {[op |-> "revokeAll"]} \cup [op : {"revoking"}, seen : SUBSET Nat]

TypeOK ==
    /\ account \in Accounts
    /\ tokens \in Seq(Row)
    /\ req \in [Requests -> {Idle} \cup Issuing \cup Rotating \cup Revoking]

\* No token is older than the one its session began with.
SessionsBegan == \A t \in DOMAIN tokens : tokens[t].session <= t

\* While the account is there no row is deleted, so what was read to be replaced is there.
RotatesAToken == \A r \in Requests :
    req[r].op = "rotate" /\ account.exists => req[r].token \in DOMAIN tokens

IInv == TypeOK /\ SessionsBegan /\ RotatesAToken /\ OneLiveToken
=============================================================================
