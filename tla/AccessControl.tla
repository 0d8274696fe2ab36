------------------------------ MODULE AccessControl ------------------------------
(***************************************************************************)
(* What the API instances keep in memory of an account and of the          *)
(* permissions of its role.  An entry about an account ends after Ttl, the *)
(* permissions are kept until this instance changes them.  Requests read   *)
(* the database and store what they read in a later step, and the clock    *)
(* goes on in between: an entry lives from when it is stored.  An instance *)
(* that updates the account, or the permissions, forgets its own entry     *)
(* only.                                                                   *)
(*                                                                         *)
(* The account and the permissions are numbers: a change is the next one.  *)
(***************************************************************************)
EXTENDS Integers, Sequences

CONSTANTS
    Instances,     \* API instances
    Requests,      \* requests that have missed the memory or are updating
    Ttl,           \* how long an entry about an account holds
    MaxTime,       \* bound: the clock
    MaxChanges     \* bound: changes of the account and of the permissions

VARIABLES
    account,       \* role and status of the account, 0 when it was deleted
    permissions,   \* permissions of its role
    replaced,      \* when each state of the account was replaced by the next one
    now,
    entry,         \* the entry about the account on each instance, when it ends, and, for the
                   \* properties only, how long its look-up took
    held,          \* the permissions each instance keeps; 0 when it keeps none
    req            \* what each request is doing

vars == <<account, permissions, replaced, now, entry, held, req>>

Idle == [op |-> "idle"]
None == [account |-> 0, ends |-> 0, took |-> 0]

Init ==
    /\ account = 1 /\ permissions = 1
    /\ replaced = <<>> /\ now = 0
    /\ entry = [i \in Instances |-> None]
    /\ held = [i \in Instances |-> 0]
    /\ req = [r \in Requests |-> Idle]

Go(r, doing) == req' = [req EXCEPT ![r] = doing]

Tick ==
    /\ now < MaxTime
    /\ now' = now + 1
    /\ UNCHANGED <<account, permissions, replaced, entry, held, req>>

-----------------------------------------------------------------------------
\* Mutant: an entry is used for as long as it is there.
HoldsForEver(i) == entry[i].account # 0

\* An entry that has not ended answers without the database.
Holds(i) == entry[i].account # 0 /\ entry[i].ends > now

\* accountState of the permissions guard misses, and reads the account.
BeginLookup(r, i) ==
    /\ req[r] = Idle /\ ~Holds(i)
    /\ Go(r, [op |-> "store", instance |-> i, account |-> account, began |-> now])
    /\ UNCHANGED <<account, permissions, replaced, now, entry, held>>

\* What was read is kept, for Ttl from now on; an account that is gone is forgotten.
StoreAccount(r) ==
    /\ req[r].op = "store"
    /\ entry' = [entry EXCEPT ![req[r].instance] =
                   IF req[r].account = 0 THEN None
                   ELSE [account |-> req[r].account, ends |-> now + Ttl, took |-> now - req[r].began]]
    /\ Go(r, Idle)
    /\ UNCHANGED <<account, permissions, replaced, now, held>>

\* The guard goes on to the permissions of the role.
BeginPermissions(r, i) ==
    /\ req[r] = Idle /\ held[i] = 0
    /\ Go(r, [op |-> "hold", instance |-> i, permissions |-> permissions])
    /\ UNCHANGED <<account, permissions, replaced, now, entry, held>>

HoldPermissions(r) ==
    /\ req[r].op = "hold"
    /\ held' = [held EXCEPT ![req[r].instance] = req[r].permissions]
    /\ Go(r, Idle)
    /\ UNCHANGED <<account, permissions, replaced, now, entry>>

-----------------------------------------------------------------------------
\* update or remove of the account on instance i, then forgetAccount there.
ChangeAccount(r, i) ==
    /\ req[r] = Idle
    /\ account # 0 /\ account < MaxChanges
    /\ account' \in {account + 1, 0}
    /\ replaced' = Append(replaced, now)
    /\ Go(r, [op |-> "forget", instance |-> i])
    /\ UNCHANGED <<permissions, now, entry, held>>

ForgetAccount(r) ==
    /\ req[r].op = "forget"
    /\ entry' = [entry EXCEPT ![req[r].instance] = None]
    /\ Go(r, Idle)
    /\ UNCHANGED <<account, permissions, replaced, now, held>>

\* setRolePermissions, then the memory of instance i is cleared.
SetRolePermissions(r, i) ==
    /\ req[r] = Idle
    /\ permissions < MaxChanges
    /\ permissions' = permissions + 1
    /\ Go(r, [op |-> "clear", instance |-> i])
    /\ UNCHANGED <<account, replaced, now, entry, held>>

ClearPermissions(r) ==
    /\ req[r].op = "clear"
    /\ held' = [held EXCEPT ![req[r].instance] = 0]
    /\ Go(r, Idle)
    /\ UNCHANGED <<account, permissions, replaced, now, entry>>

-----------------------------------------------------------------------------
Next ==
    \/ Tick
    \/ \E r \in Requests :
          \/ StoreAccount(r) \/ HoldPermissions(r) \/ ForgetAccount(r) \/ ClearPermissions(r)
          \/ \E i \in Instances :
                \/ BeginLookup(r, i) \/ BeginPermissions(r, i)
                \/ ChangeAccount(r, i) \/ SetRolePermissions(r, i)

Spec == Init /\ [][Next]_vars

-----------------------------------------------------------------------------
(* Whatever look-ups, updates and the clock overlap, an instance that still *)
(* answers from an entry a change made stale does so for less than Ttl      *)
(* after that change, and the time the look-up itself took: it may have     *)
(* read before the change and stored long after it.                         *)
StaleForTtl == \A i \in Instances :
    Holds(i) /\ entry[i].account # account =>
        now < replaced[entry[i].account] + Ttl + entry[i].took

(* "A role change or deactivation reaches other server instances within     *)
(* this delay": the delay is counted from the change.                       *)
StaleWithinTtl == \A i \in Instances :
    Holds(i) /\ entry[i].account # account => now < replaced[entry[i].account] + Ttl

(* "on this instance it applies at once because the Admin's update clears   *)
(* the cache": once an update is done and nothing else is going on, the     *)
(* only instance there is answers from the account and the permissions as   *)
(* they are.  A request that read before the update stores what it read     *)
(* after the memory was cleared, the permissions for good.                  *)
AppliesAtOnce ==
    (\A r \in Requests : req[r] = Idle)
    => \A i \in Instances :
          /\ Holds(i) => entry[i].account = account
          /\ held[i] \in {0, permissions}

-----------------------------------------------------------------------------
(* What the proofs add to the properties.                                   *)

Storing == [op : {"store"}, instance : Instances, account : Nat, began : Nat]
Keeping == [op : {"hold"}, instance : Instances, permissions : Nat]
Clearing == [op : {"forget", "clear"}, instance : Instances]

TypeOK ==
    /\ account \in Nat /\ permissions \in Nat
    /\ replaced \in Seq(Nat) /\ now \in Nat
    /\ account # 0 => account = Len(replaced) + 1
    /\ entry \in [Instances -> [account : Nat, ends : Int, took : Int]]
    /\ held \in [Instances -> Nat]
    /\ req \in [Requests -> {Idle} \cup Storing \cup Keeping \cup Clearing]

\* The account was in state v after the moment t, or is in it.
StoodAfter(v, t) == v = account \/ (v \in 1..Len(replaced) /\ t <= replaced[v])

\* A request does not read ahead of the clock, and what it read was true when it began.
ReadsWereTrue == \A r \in Requests : req[r].op = "store" /\ req[r].account # 0 =>
    req[r].began <= now /\ StoodAfter(req[r].account, req[r].began)

\* An entry ends Ttl after it was stored, which is `took` after what it says was true.
EntriesEnd == \A i \in Instances : entry[i].account # 0 =>
    /\ entry[i].ends - Ttl - entry[i].took <= now
    /\ StoodAfter(entry[i].account, entry[i].ends - Ttl - entry[i].took)

IInv == TypeOK /\ ReadsWereTrue /\ EntriesEnd
=============================================================================
