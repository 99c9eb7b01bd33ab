--------------------------- MODULE Organizations ---------------------------
(***************************************************************************)
(* Accounts, organizations and who belongs to them: the users, orgs,       *)
(* org_members and org_invitations tables, and the principals table that   *)
(* triggers on users and orgs keep so that /{slug} finds either kind.      *)
(*                                                                         *)
(* A statement that commits by itself and a transaction whose statements   *)
(* do not depend on an earlier read are one step.  Handlers that read, let *)
(* go and write keep a process: between two of its steps others run.       *)
(* Account deletion has no process: it writes by id whatever the           *)
(* row has become, so a delayed request is a request made late.            *)
(***************************************************************************)
EXTENDS Integers, FiniteSets

CONSTANTS
    Users, Orgs,    \* ids the two sequences can hand out
    Addresses,      \* email addresses an invitation can be sent to
    OwnerOf,        \* user_emails: the user who verifies the address; one may verify several
    Slugs,          \* the /{slug} URL space
    MaxInvites,     \* bound: invitations ever issued
    Procs,          \* requests and sweeps that can be in progress at once
    Ops,            \* handlers the instance exercises
    Letters,        \* invitations it exercises: to which user or address, for which role
    None

Roles == {"owner", "member"}
Answers == {"accepted", "declined", "canceled"}
Invites == 1 .. MaxInvites
Account == [st : {"none", "live", "deleted", "expired", "gone"}, name : Slugs \cup {None}]
Principal == {"user"} \X Users \cup {"org"} \X Orgs
Targets == Users \cup Addresses
Invitation == [org : Orgs, target : Targets, role : Roles,
               answers : SUBSET Answers, expired : BOOLEAN]

\* What a process has read or is about to write: the row, the person or the
\* address, the role or answer, and whether another member change was written
\* to the organization since.
Work == [at : {"idle", "softdelete", "restore", "sweep", "count", "change", "invite", "answer"},
         on : Orgs \cup Invites \cup {None}, who : Targets \cup {None},
         arg : Roles \cup Answers \cup {None}, stale : BOOLEAN]

ASSUME OrgAssumption ==
    /\ IsFiniteSet(Users) /\ IsFiniteSet(Procs)
    /\ MaxInvites \in Nat
    /\ Users \cap Addresses = {} /\ OwnerOf \in [Addresses -> Users]
    /\ Letters \subseteq Targets \X Roles
    /\ None \notin Users \cup Orgs \cup Slugs \cup Roles
    /\ None \notin Principal \cup Invitation

VARIABLES
    user,        \* users: id -> deleted_at against the grace window, and username
    org,         \* orgs: id -> deleted_at against the grace window, and slug
    principals,  \* slug -> kind and id, or None
    redirects,   \* username_redirects.old_username
    member,      \* org_members: org and user -> role, or None
    inv,         \* org_invitations: id -> row, or None
    issued,      \* the sequence behind org_invitations.id
    proc,        \* what every process is in the middle of
    usurped,     \* history: live accounts whose slug another's un-delete took over
    raced        \* history: orgs with member changes written from stale reads

vars == <<user, org, principals, redirects, member, inv, issued, proc,
          usurped, raced>>
names == <<user, org, principals, redirects, usurped>>
people == <<member, raced>>
letters == <<inv, issued>>

Idle == [at |-> "idle", on |-> None, who |-> None, arg |-> None, stale |-> FALSE]

Exists(row) == row.st \in {"live", "deleted", "expired"}
Fallen(row) == row.st \in {"deleted", "expired"}
Owners(o) == {u \in Users : member[o][u] = "owner"}

\* validatePending, and the WHERE of GetExistingPendingInvitation.
Pending(i) == inv[i] # None /\ inv[i].answers = {} /\ ~inv[i].expired

Free(s) == proc[s] = Idle
At(s, step) == proc[s].at = step
Go(s, step) == proc' = [proc EXCEPT ![s].at = step]
Done(s) == proc' = [proc EXCEPT ![s] = Idle]
Begin(s, work) == proc' = [proc EXCEPT ![s] = work]

\* A change of the members of o is through; what other changes have read is stale.
Changing == {"count", "change"}
DoneOver(s, o) ==
    proc' = [t \in Procs |-> IF t = s THEN Idle
                             ELSE [proc[t] EXCEPT !.stale = @ \/ (proc[t].on = o /\ proc[t].at \in Changing)]]

Init ==
    /\ user = [u \in Users |-> [st |-> "none", name |-> None]]
    /\ org = [o \in Orgs |-> [st |-> "none", name |-> None]]
    /\ principals = [n \in Slugs |-> None]
    /\ redirects = {}
    /\ member = [o \in Orgs |-> [u \in Users |-> None]]
    /\ inv = [i \in Invites |-> None]
    /\ proc = [s \in Procs |-> Idle]
    /\ issued = 0
    /\ usurped = {} /\ raced = {}

----------------------------------------------------------------------------
(* The triggers on users and orgs. *)

\* No row of the table has this name: UNIQUE does not look at deleted_at.
NameFree(table, n) == \A x \in DOMAIN table : ~(Exists(table[x]) /\ table[x].name = n)

\* INSERT: a principals row for the slug must not exist yet.
Register(p, n) ==
    /\ principals[n] = None
    /\ principals' = [principals EXCEPT ![n] = p]

\* deleted_at set, or the row deleted.
Drop(p) == principals' = [n \in Slugs |-> IF principals[n] = p THEN None ELSE principals[n]]

\* deleted_at cleared: INSERT ... ON CONFLICT (slug) DO UPDATE.
Reclaim(p, n) ==
    /\ principals' = [principals EXCEPT ![n] = p]
    /\ usurped' = (usurped \cup ({principals[n]} \ {None})) \ {p}

\* Mutant: the trigger only handles deleted_at.
MoveForgotten(p, n) == UNCHANGED principals

\* username changed: the row, when there is one, moves to the new slug.
Move(p, n) ==
    LET listed == \E m \in Slugs : principals[m] = p
    IN /\ listed => principals[n] = None
       /\ principals' = [m \in Slugs |-> IF m = n /\ listed THEN p
                                         ELSE IF principals[m] = p THEN None ELSE principals[m]]

----------------------------------------------------------------------------
(* Accounts *)

Signup(u, n) ==
    /\ user[u].st = "none" /\ NameFree(user, n)
    /\ Register(<<"user", u>>, n)
    /\ user' = [user EXCEPT ![u] = [st |-> "live", name |-> n]]
    /\ UNCHANGED <<org, redirects, usurped, people, letters, proc>>

\* The transaction inserts the old name, a primary key, and updates the row;
\* the account may have been deleted since the session was read.
Rename(u, n) ==
    /\ "rename" \in Ops
    /\ user[u].st \in {"live", "deleted"} /\ user[u].name # n
    /\ user[u].name \notin redirects
    /\ NameFree(user, n)
    /\ Move(<<"user", u>>, n)
    /\ redirects' = redirects \cup {user[u].name}
    /\ user' = [user EXCEPT ![u].name = n]
    /\ UNCHANGED <<org, usurped, people, letters, proc>>

\* No look at the organizations the account is the last owner of.
DeleteAccount(u) ==
    /\ "account" \in Ops
    /\ user[u].st \in {"live", "deleted"}
    /\ Drop(<<"user", u>>)
    /\ usurped' = usurped \ {<<"user", u>>}
    /\ user' = [user EXCEPT ![u].st = "deleted"]
    /\ UNCHANGED <<org, redirects, people, letters, proc>>

\* A login inside the grace window restores the account.
Login(u) ==
    /\ user[u].st = "deleted"
    /\ Reclaim(<<"user", u>>, user[u].name)
    /\ user' = [user EXCEPT ![u].st = "live"]
    /\ UNCHANGED <<org, redirects, people, letters, proc>>

\* The 14 days of a deleted account or organization pass.
GracePasses ==
    /\ \/ \E u \in Users : /\ user[u].st = "deleted"
                           /\ user' = [user EXCEPT ![u].st = "expired"]
                           /\ UNCHANGED org
       \/ \E o \in Orgs : /\ org[o].st = "deleted"
                          /\ org' = [org EXCEPT ![o].st = "expired"]
                          /\ UNCHANGED user
    /\ UNCHANGED <<principals, redirects, usurped, people, letters, proc>>

----------------------------------------------------------------------------
(* Organizations *)

\* The creator becomes the owner in the transaction that inserts the org.
Create(o, n, u) ==
    /\ org[o].st = "none" /\ NameFree(org, n)
    /\ Exists(user[u])
    /\ Register(<<"org", o>>, n)
    /\ org' = [org EXCEPT ![o] = [st |-> "live", name |-> n]]
    /\ member' = [member EXCEPT ![o][u] = "owner"]
    /\ UNCHANGED <<user, redirects, usurped, raced, letters, proc>>

\* SoftDelete looks at deleted_at and then updates by id: a second request
\* that looked before the first one wrote starts the grace window again.
SoftDelete(s, o) ==
    /\ "delete" \in Ops
    /\ Free(s) /\ org[o].st = "live"
    /\ Begin(s, [Idle EXCEPT !.at = "softdelete", !.on = o])
    /\ UNCHANGED <<names, people, letters>>

SoftDeleteWrite(s) ==
    LET o == proc[s].on
    IN /\ At(s, "softdelete")
       /\ Done(s)
       /\ IF Exists(org[o])
          THEN /\ Drop(<<"org", o>>)
               /\ usurped' = usurped \ {<<"org", o>>}
               /\ org' = [org EXCEPT ![o].st = "deleted"]
          ELSE UNCHANGED <<principals, usurped, org>>
       /\ UNCHANGED <<user, redirects, people, letters>>

\* Restore refuses a slug someone holds, then updates by id.
Restore(s, o) ==
    /\ "restore" \in Ops
    /\ Free(s) /\ Fallen(org[o])
    /\ principals[org[o].name] = None
    /\ Begin(s, [Idle EXCEPT !.at = "restore", !.on = o])
    /\ UNCHANGED <<names, people, letters>>

RestoreWrite(s) ==
    LET o == proc[s].on
    IN /\ At(s, "restore")
       /\ Done(s)
       /\ IF Fallen(org[o])
          THEN /\ Reclaim(<<"org", o>>, org[o].name)
               /\ org' = [org EXCEPT ![o].st = "live"]
          ELSE UNCHANGED <<principals, usurped, org>>
       /\ UNCHANGED <<user, redirects, people, letters>>

\* The lifecycle sweep lists organizations past their grace window and
\* deletes them one by one: repositories first, then the row by id.  The
\* foreign keys take the members and the invitations along.
SweepList(s, o) ==
    /\ "delete" \in Ops
    /\ Free(s) /\ org[o].st = "expired"
    /\ Begin(s, [Idle EXCEPT !.at = "sweep", !.on = o])
    /\ UNCHANGED <<names, people, letters>>

HardDelete(s) ==
    LET o == proc[s].on
    IN /\ At(s, "sweep")
       /\ Done(s)
       /\ Drop(<<"org", o>>)
       /\ usurped' = usurped \ {<<"org", o>>}
       /\ org' = [org EXCEPT ![o] = [st |-> "gone", name |-> None]]
       /\ member' = [member EXCEPT ![o] = [u \in Users |-> None]]
       /\ inv' = [i \in Invites |-> IF inv[i] # None /\ inv[i].org = o THEN None ELSE inv[i]]
       /\ UNCHANGED <<user, redirects, raced, issued>>

----------------------------------------------------------------------------
(* Members *)

\* INSERT ... ON CONFLICT (org_id, user_id) DO NOTHING, and the foreign key.
Joins(o, u, role) ==
    /\ Exists(org[o])
    /\ member' = [member EXCEPT ![o][u] = IF @ = None THEN role ELSE @]

AddMember(o, u, role) ==
    /\ "add" \in Ops
    /\ Exists(user[u])
    /\ Joins(o, u, role)
    /\ UNCHANGED <<names, raced, letters, proc>>

\* ChangeRole and RemoveMember (to = None), for an owner of a live org: the
\* member's row is read; only taking the owner role away needs the count.
ChangeRead(s, o, u, to) ==
    /\ "change" \in Ops
    /\ Free(s) /\ org[o].st = "live" /\ Owners(o) # {}
    /\ member[o][u] # None
    /\ Begin(s, [Idle EXCEPT !.at = IF member[o][u] = "owner" /\ to # "owner" THEN "count" ELSE "change",
                             !.on = o, !.who = u, !.arg = to])
    /\ UNCHANGED <<names, people, letters>>

\* Mutant: off by one.
ChangeCountZero(s) ==
    /\ At(s, "count")
    /\ IF Cardinality(Owners(proc[s].on)) < 1 THEN Done(s) ELSE Go(s, "change")
    /\ UNCHANGED <<names, people, letters>>

\* CountOrgOwners: the last owner is refused.
ChangeCount(s) ==
    /\ At(s, "count")
    /\ IF Cardinality(Owners(proc[s].on)) <= 1 THEN Done(s) ELSE Go(s, "change")
    /\ UNCHANGED <<names, people, letters>>

\* UPDATE or DELETE by key: nothing happens when the row is gone.
ChangeWrite(s) ==
    LET o == proc[s].on
    IN /\ At(s, "change")
       /\ DoneOver(s, o)
       /\ member' = [member EXCEPT ![o][proc[s].who] = IF @ = None THEN None ELSE proc[s].arg]
       /\ raced' = IF proc[s].stale THEN raced \cup {o} ELSE raced
       /\ UNCHANGED <<names, letters>>

----------------------------------------------------------------------------
(* Invitations *)

\* userOwnsVerifiedEmail, or the user of a target_user_id.
Claimant(t) == IF t \in Users THEN t ELSE OwnerOf[t]

\* Invite refuses a member invited by name and a second pending invitation of
\* the same user or address; the addresses of one user are different targets.
Invite(s, o, t, role) ==
    /\ "invite" \in Ops
    /\ issued + Cardinality({x \in Procs : At(x, "invite")}) < MaxInvites
    /\ Free(s) /\ org[o].st = "live" /\ Owners(o) # {}
    /\ t \in Users => user[t].st = "live" /\ member[o][t] = None
    /\ ~\E i \in Invites : Pending(i) /\ inv[i].org = o /\ inv[i].target = t
    /\ Begin(s, [Idle EXCEPT !.at = "invite", !.on = o, !.who = t, !.arg = role])
    /\ UNCHANGED <<names, people, letters>>

\* CreateOrgInvitation: no index stands for the check made before.
InviteWrite(s) ==
    LET o == proc[s].on
        row == [org |-> o, target |-> proc[s].who, role |-> proc[s].arg, answers |-> {}, expired |-> FALSE]
    IN /\ At(s, "invite")
       /\ Done(s)
       /\ IF Exists(org[o])
          THEN inv' = [inv EXCEPT ![issued + 1] = row] /\ issued' = issued + 1
          ELSE UNCHANGED letters
       /\ UNCHANGED <<names, people>>

\* AcceptInvitation and DeclineInvitation by whom the invitation is for, and
\* CancelInvitation, judge the row the handler read ...
Answer(s, i, how) ==
    /\ "answer" \in Ops
    /\ Free(s) /\ Pending(i)
    /\ how # "canceled" => user[Claimant(inv[i].target)].st = "live"
    /\ Begin(s, [Idle EXCEPT !.at = "answer", !.on = i, !.arg = how])
    /\ UNCHANGED <<names, people, letters>>

\* ... and update by id.  Accepting joins in the same transaction; when the
\* organization is gone the foreign key rolls it back.
AnswerWrite(s) ==
    LET i == proc[s].on
        how == proc[s].arg
    IN /\ At(s, "answer")
       /\ Done(s)
       /\ IF inv[i] # None
          THEN /\ IF how = "accepted" THEN Joins(inv[i].org, Claimant(inv[i].target), inv[i].role)
                                      ELSE UNCHANGED member
               /\ inv' = [inv EXCEPT ![i].answers = @ \cup {how}]
          ELSE UNCHANGED <<member, inv>>
       /\ UNCHANGED <<names, raced, issued>>

\* The 7 days of an invitation pass.
Expire(i) ==
    /\ "expire" \in Ops
    /\ Pending(i)
    /\ inv' = [inv EXCEPT ![i].expired = TRUE]
    /\ UNCHANGED <<names, people, issued, proc>>

----------------------------------------------------------------------------

Naming ==
    \/ \E u \in Users, n \in Slugs : Signup(u, n) \/ Rename(u, n)
    \/ \E u \in Users : DeleteAccount(u) \/ Login(u)
    \/ \E o \in Orgs, n \in Slugs, u \in Users : Create(o, n, u)
    \/ \E s \in Procs, o \in Orgs : SoftDelete(s, o) \/ Restore(s, o) \/ SweepList(s, o)
    \/ \E s \in Procs : SoftDeleteWrite(s) \/ RestoreWrite(s) \/ HardDelete(s)
    \/ GracePasses

Membership ==
    \/ \E o \in Orgs, u \in Users, r \in Roles : AddMember(o, u, r)
    \/ \E s \in Procs, o \in Orgs, u \in Users, to \in Roles \cup {None} : ChangeRead(s, o, u, to)
    \/ \E s \in Procs : ChangeCount(s) \/ ChangeWrite(s)

Inviting ==
    \/ \E s \in Procs, o \in Orgs, k \in Letters : Invite(s, o, k[1], k[2])
    \/ \E s \in Procs, i \in Invites, how \in Answers : Answer(s, i, how)
    \/ \E s \in Procs : InviteWrite(s) \/ AnswerWrite(s)
    \/ \E i \in Invites : Expire(i)

Next == Naming \/ Membership \/ Inviting

Spec == Init /\ [][Next]_vars

----------------------------------------------------------------------------
(* Properties *)

\* Rows, processes and history have their types, and a row has a name for as
\* long as it exists: writes by id never bring a destroyed one back.
TypeOK ==
    /\ user \in [Users -> Account] /\ org \in [Orgs -> Account]
    /\ \A u \in Users : Exists(user[u]) <=> user[u].name # None
    /\ \A o \in Orgs : Exists(org[o]) <=> org[o].name # None
    /\ principals \in [Slugs -> Principal \cup {None}]
    /\ redirects \subseteq Slugs
    /\ member \in [Orgs -> [Users -> Roles \cup {None}]]
    /\ inv \in [Invites -> Invitation \cup {None}]
    /\ issued \in 0 .. MaxInvites
    /\ proc \in [Procs -> Work]
    /\ usurped \subseteq Principal /\ raced \subseteq Orgs

\* ChangeRole and RemoveMember never leave an organization without an owner,
\* whatever else happens to it, as long as no member change was written from
\* a read another member change had made stale: the count and the write are
\* separate statements and nothing is locked between them.
OwnerStays == \A o \in Orgs : Exists(org[o]) /\ o \notin raced => Owners(o) # {}

\* /{slug} leads to the account or organization of that name, and every live
\* one can be reached, unless the un-delete of another took its slug over.
RowOf(p) == IF p[1] = "user" THEN user[p[2]] ELSE org[p[2]]
NamesResolve ==
    /\ \A n \in Slugs : principals[n] # None =>
         RowOf(principals[n]).st = "live" /\ RowOf(principals[n]).name = n
    /\ \A p \in Principal : RowOf(p).st = "live" /\ p \notin usurped => principals[RowOf(p).name] = p
============================================================================
