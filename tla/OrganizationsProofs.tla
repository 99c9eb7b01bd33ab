------------------------ MODULE OrganizationsProofs ------------------------
(***************************************************************************)
(* Proofs about Organizations for any number of accounts, organizations,   *)
(* names, invitations and requests in progress.                            *)
(***************************************************************************)
EXTENDS Organizations, FiniteSetTheorems, TLAPS

(* Processes *)

\* The fields a process has set at each of its steps.
Sound(w) ==
    /\ w.at \in {"softdelete", "restore", "sweep", "count", "change", "invite"} => w.on \in Orgs
    /\ w.at \in {"count", "change"} => w.who \in Users /\ w.arg \in Roles \cup {None}
    /\ w.at = "invite" => w.who \in Targets /\ w.arg \in Roles
    /\ w.at = "answer" => w.on \in Invites /\ w.arg \in Answers

Sounds == \A s \in Procs : Sound(proc[s])

\* Invitations written and about to be written stay within the bound.
Inviters == {t \in Procs : At(t, "invite")}
Room == issued + Cardinality(Inviters) <= MaxInvites

TypeInv == TypeOK /\ Sounds /\ Room

\* A process with nothing to do is well formed.
LEMMA IdleSound == Idle \in Work /\ Sound(Idle) /\ Idle.at = "idle"
BY Zenon DEF Idle, Work, Sound

\* A process that begins: everyone else is as before.
LEMMA BeginEffect ==
    ASSUME TypeInv, NEW s \in Procs, NEW w \in Work, Sound(w), Begin(s, w)
    PROVE  /\ proc' \in [Procs -> Work] /\ Sounds'
           /\ proc'[s] = w
           /\ \A t \in Procs \ {s} : proc'[t] = proc[t]
BY Zenon DEF TypeInv, TypeOK, Sounds, Begin

\* A process that is through without having written.
LEMMA DoneEffect ==
    ASSUME TypeInv, NEW s \in Procs, Done(s)
    PROVE  /\ proc' \in [Procs -> Work] /\ Sounds'
           /\ proc'[s] = Idle
           /\ \A t \in Procs \ {s} : proc'[t] = proc[t]
BY IdleSound, Zenon DEF TypeInv, TypeOK, Sounds, Done

\* Two processes that differ in nothing but staleness.
Alike(w, x) == w.at = x.at /\ w.on = x.on /\ w.who = x.who /\ w.arg = x.arg

\* A process that is through and leaves others with stale reads.
LEMMA DoneOverEffect ==
    ASSUME TypeInv, NEW s \in Procs, NEW o, DoneOver(s, o)
    PROVE  /\ proc' \in [Procs -> Work] /\ Sounds'
           /\ proc'[s] = Idle
           /\ \A t \in Procs \ {s} :
                 /\ Alike(proc'[t], proc[t])
                 /\ proc[t].stale => proc'[t].stale
                 /\ proc[t].on = o /\ proc[t].at \in Changing => proc'[t].stale
<1>1. proc'[s] = Idle
  BY Zenon DEF DoneOver
<1>2. ASSUME NEW t \in Procs, t # s
      PROVE  /\ proc'[t] \in Work
             /\ Alike(proc'[t], proc[t])
             /\ proc[t].stale => proc'[t].stale
             /\ proc[t].on = o /\ proc[t].at \in Changing => proc'[t].stale
  <2>1. proc[t] \in Work
    BY Zenon DEF TypeInv, TypeOK
  <2>2. proc'[t] = [proc[t] EXCEPT !.stale =
                      proc[t].stale \/ (proc[t].on = o /\ proc[t].at \in Changing)]
    BY <1>2, Zenon DEF DoneOver
  <2>3. proc'[t].stale = (proc[t].stale \/ (proc[t].on = o /\ proc[t].at \in Changing))
    BY <2>1, <2>2, Zenon DEF Work
  <2>4. Alike(proc'[t], proc[t])
    BY <2>1, <2>2, Zenon DEF Work, Alike
  <2>5. proc'[t] \in Work
    BY <2>1, <2>2, Zenon DEF Work
  <2>. QED
    BY <2>3, <2>4, <2>5, Zenon
<1>3. proc' \in [Procs -> Work]
  BY <1>1, <1>2, IdleSound, Zenon DEF DoneOver
<1>4. Sounds'
  BY <1>1, <1>2, IdleSound DEF TypeInv, Sounds, Sound, Alike
<1>. QED
  BY <1>1, <1>2, <1>3, <1>4, Zenon

\* The bound on invitations: who is about to write one, before and after a step.
LEMMA RoomKept ==
    ASSUME TypeInv, Inviters' \subseteq Inviters, issued' = issued
    PROVE  Room'
<1>1. IsFiniteSet(Inviters)
  BY OrgAssumption, FS_Subset, Zenon DEF Inviters
<1>2. Cardinality(Inviters') <= Cardinality(Inviters)
  BY <1>1, FS_Subset, Zenon
<1>3. Cardinality(Inviters) \in Nat /\ Cardinality(Inviters') \in Nat
  BY <1>1, FS_Subset, FS_CardinalityType, Zenon
<1>. QED
  BY <1>2, <1>3, OrgAssumption, SMTT(40) DEF TypeInv, TypeOK, Room

-----------------------------------------------------------------------------
(* Types *)

\* TypeOK by the groups of variables that steps leave alone.
NamesOK ==
    /\ user \in [Users -> Account] /\ org \in [Orgs -> Account]
    /\ \A u \in Users : Exists(user[u]) <=> user[u].name # None
    /\ \A o \in Orgs : Exists(org[o]) <=> org[o].name # None
    /\ principals \in [Slugs -> Principal \cup {None}]
    /\ redirects \subseteq Slugs /\ usurped \subseteq Principal
PeopleOK == member \in [Orgs -> [Users -> Roles \cup {None}]] /\ raced \subseteq Orgs
LettersOK ==
    /\ inv \in [Invites -> Invitation \cup {None}]
    /\ issued \in 0 .. MaxInvites
ProcsOK == proc \in [Procs -> Work] /\ Sounds /\ Room

\* Type correctness falls into four groups of variables.
LEMMA TypeGroups ==
    /\ TypeInv <=> NamesOK /\ PeopleOK /\ LettersOK /\ ProcsOK
    /\ TypeInv' <=> NamesOK' /\ PeopleOK' /\ LettersOK' /\ ProcsOK'
BY Zenon DEF TypeInv, TypeOK, NamesOK, PeopleOK, LettersOK, ProcsOK

\* A step that leaves a group alone leaves its types alone: names,
LEMMA NamesUnchanged == ASSUME NamesOK, UNCHANGED names PROVE NamesOK'
BY Zenon DEF NamesOK, names, Exists

\* ... members,
LEMMA PeopleUnchanged == ASSUME PeopleOK, UNCHANGED people PROVE PeopleOK'
BY DEF PeopleOK, people

\* ... invitations,
LEMMA LettersUnchanged == ASSUME LettersOK, UNCHANGED letters PROVE LettersOK'
BY Zenon DEF LettersOK, letters

\* ... and requests in progress.
LEMMA ProcsUnchanged == ASSUME ProcsOK, UNCHANGED <<proc, issued>> PROVE ProcsOK'
BY Zenon DEF ProcsOK, Sounds, Room, Inviters, At

\* An account or organization whose row changes.
LEMMA UserChanged ==
    ASSUME NamesOK, NEW u \in Users, NEW row \in Account,
           Exists(row) <=> row.name # None,
           user' = [user EXCEPT ![u] = row], UNCHANGED org,
           principals' \in [Slugs -> Principal \cup {None}],
           redirects' \subseteq Slugs, usurped' \subseteq Principal
    PROVE  NamesOK'
BY Zenon DEF NamesOK

\* The same for an organization.
LEMMA OrgChanged ==
    ASSUME NamesOK, NEW o \in Orgs, NEW row \in Account,
           Exists(row) <=> row.name # None,
           org' = [org EXCEPT ![o] = row], UNCHANGED user,
           principals' \in [Slugs -> Principal \cup {None}],
           redirects' \subseteq Slugs, usurped' \subseteq Principal
    PROVE  NamesOK'
BY Zenon DEF NamesOK

\* The triggers keep the type of the principals table.
LEMMA TriggerTypes ==
    ASSUME NamesOK, NEW p \in Principal, NEW n \in Slugs,
           \/ Register(p, n) \/ Drop(p) \/ Reclaim(p, n) \/ Move(p, n)
    PROVE  /\ principals' \in [Slugs -> Principal \cup {None}]
           /\ Reclaim(p, n) => usurped' \subseteq Principal
BY DEF NamesOK, Register, Drop, Reclaim, Move

\* Sign-up, rename, deletion and restore of accounts.
LEMMA AccountTypes ==
    ASSUME TypeInv, NEW u \in Users, NEW n \in Slugs,
           Signup(u, n) \/ Rename(u, n) \/ DeleteAccount(u) \/ Login(u)
    PROVE  TypeInv'
<1>. DEFINE p == <<"user", u>>
<1>1. p \in Principal /\ None \notin Slugs
  BY OrgAssumption, Zenon DEF Principal
<1>2. NamesOK /\ PeopleOK /\ LettersOK /\ ProcsOK /\ user[u] \in Account
  BY TypeGroups, Zenon DEF NamesOK
<1>3. PeopleOK' /\ LettersOK' /\ ProcsOK'
  <2>1. UNCHANGED people /\ UNCHANGED letters /\ UNCHANGED <<proc, issued>>
    BY Zenon DEF Signup, Rename, DeleteAccount, Login, people, letters
  <2>. QED
    BY <1>2, <2>1, PeopleUnchanged, LettersUnchanged, ProcsUnchanged, Zenon
<1>. HIDE DEF p
<1>4. CASE Signup(u, n)
  <2>1. Register(p, n)
    BY <1>4, Zenon DEF Signup, p
  <2>. DEFINE row == [st |-> "live", name |-> n]
  <2>2. row \in Account /\ (Exists(row) <=> row.name # None)
    BY <1>1, Zenon DEF Account, Exists
  <2>. HIDE DEF row
  <2>3. user' = [user EXCEPT ![u] = row] /\ UNCHANGED <<org, redirects, usurped>>
    BY <1>4, Zenon DEF Signup, row
  <2>4. NamesOK'
    BY <1>1, <1>2, <2>1, <2>2, <2>3, TriggerTypes, UserChanged, Zenon DEF NamesOK
  <2>. QED
    BY <1>3, <2>4, TypeGroups, Zenon
<1>5. CASE Rename(u, n)
  <2>1. Move(p, n)
    BY <1>5, Zenon DEF Rename, p
  <2>. DEFINE row == [user[u] EXCEPT !.name = n]
  <2>2. row \in Account /\ (Exists(row) <=> row.name # None)
    BY <1>1, <1>2, <1>5, Zenon DEF Account, Exists, Rename
  <2>3. user' = [user EXCEPT ![u] = row] /\ UNCHANGED <<org, usurped>>
    BY <1>5, Zenon DEF Rename
  <2>4. redirects' \subseteq Slugs
    BY <1>2, <1>5, Zenon DEF Rename, NamesOK, Account, Exists
  <2>. HIDE DEF row
  <2>5. NamesOK'
    BY <1>1, <1>2, <2>1, <2>2, <2>3, <2>4, TriggerTypes, UserChanged, Zenon DEF NamesOK
  <2>. QED
    BY <1>3, <2>5, TypeGroups, Zenon
<1>6. CASE DeleteAccount(u)
  <2>1. Drop(p)
    BY <1>6, Zenon DEF DeleteAccount, p
  <2>. DEFINE row == [user[u] EXCEPT !.st = "deleted"]
  <2>2. row \in Account /\ (Exists(row) <=> row.name # None)
    BY <1>2, <1>6, Zenon DEF Account, Exists, DeleteAccount, NamesOK
  <2>3. user' = [user EXCEPT ![u] = row] /\ UNCHANGED <<org, redirects>>
    BY <1>6, Zenon DEF DeleteAccount
  <2>4. usurped' \subseteq Principal
    BY <1>2, <1>6, Zenon DEF DeleteAccount, NamesOK
  <2>. HIDE DEF row
  <2>5. NamesOK'
    BY <1>1, <1>2, <2>1, <2>2, <2>3, <2>4, TriggerTypes, UserChanged, Zenon DEF NamesOK
  <2>. QED
    BY <1>3, <2>5, TypeGroups, Zenon
<1>7. CASE Login(u)
  <2>0. user[u].name \in Slugs
    BY <1>2, <1>7, Zenon DEF Login, NamesOK, Account, Exists
  <2>1. Reclaim(p, user[u].name)
    BY <1>7, Zenon DEF Login, p
  <2>. DEFINE row == [user[u] EXCEPT !.st = "live"]
  <2>2. row \in Account /\ (Exists(row) <=> row.name # None)
    BY <1>2, <1>7, Zenon DEF Account, Exists, Login, NamesOK
  <2>3. user' = [user EXCEPT ![u] = row] /\ UNCHANGED <<org, redirects>>
    BY <1>7, Zenon DEF Login
  <2>. HIDE DEF row
  <2>4. NamesOK'
    BY <1>1, <1>2, <2>0, <2>1, <2>2, <2>3, TriggerTypes, UserChanged, Zenon DEF NamesOK
  <2>. QED
    BY <1>3, <2>4, TypeGroups, Zenon
<1>. QED
  BY <1>4, <1>5, <1>6, <1>7, Zenon

\* Processes after a step: one begins something other than an invitation, or is
\* through with or without having written.
LEMMA BeginProcs ==
    ASSUME TypeInv, NEW s \in Procs, NEW w \in Work, Sound(w), w.at # "invite",
           Begin(s, w), UNCHANGED issued
    PROVE  ProcsOK'
<1>1. Inviters' \subseteq Inviters
  BY BeginEffect, Zenon DEF Inviters, At
<1>. QED
  BY <1>1, BeginEffect, RoomKept, Zenon DEF ProcsOK

\* A request that ends frees its place among those that will write an invitation.
LEMMA DoneProcs ==
    ASSUME TypeInv, NEW s \in Procs, Done(s), UNCHANGED issued
    PROVE  ProcsOK'
<1>1. Inviters' \subseteq Inviters
  BY DoneEffect, IdleSound, Zenon DEF Inviters, At
<1>. QED
  BY <1>1, DoneEffect, RoomKept, Zenon DEF ProcsOK

\* The same when its write overtakes the reads of others ...
LEMMA DoneOverInviters ==
    ASSUME TypeInv, NEW s \in Procs, NEW o, DoneOver(s, o)
    PROVE  Inviters' = Inviters \ {s}
BY DoneOverEffect, IdleSound DEF Inviters, At, Alike

\* ... which stay well formed.
LEMMA DoneOverProcs ==
    ASSUME TypeInv, NEW s \in Procs, NEW o, DoneOver(s, o),
           UNCHANGED issued
    PROVE  ProcsOK'
BY DoneOverInviters, DoneOverEffect, RoomKept, Zenon DEF ProcsOK

\* The steps that only read and begin.
LEMMA BeginTypes ==
    ASSUME TypeInv, NEW s \in Procs,
           \/ \E o \in Orgs : SoftDelete(s, o) \/ Restore(s, o) \/ SweepList(s, o)
           \/ \E o \in Orgs, u \in Users, to \in Roles \cup {None} : ChangeRead(s, o, u, to)
           \/ \E i \in Invites, how \in Answers : Answer(s, i, how)
    PROVE  TypeInv'
<1>1. UNCHANGED <<names, people, letters>>
  BY Zenon DEF SoftDelete, Restore, SweepList, ChangeRead, Answer
<1>2. PICK w \in Work : Sound(w) /\ w.at # "invite" /\ Begin(s, w)
  <2>1. ASSUME NEW o \in Orgs, SoftDelete(s, o) \/ Restore(s, o) \/ SweepList(s, o)
        PROVE  \E w \in Work : Sound(w) /\ w.at # "invite" /\ Begin(s, w)
    <3>1. PICK step \in {"softdelete", "restore", "sweep"} :
            Begin(s, [Idle EXCEPT !.at = step, !.on = o])
      BY <2>1, Zenon DEF SoftDelete, Restore, SweepList
    <3>2. [Idle EXCEPT !.at = step, !.on = o] \in Work
      BY Zenon DEF Idle, Work
    <3>3. /\ Sound([Idle EXCEPT !.at = step, !.on = o])
          /\ [Idle EXCEPT !.at = step, !.on = o].at # "invite"
      BY DEF Idle, Sound
    <3>. QED
      BY <3>1, <3>2, <3>3, Zenon
  <2>2. ASSUME NEW o \in Orgs, NEW u \in Users, NEW to \in Roles \cup {None},
               ChangeRead(s, o, u, to)
        PROVE  \E w \in Work : Sound(w) /\ w.at # "invite" /\ Begin(s, w)
    <3>1. PICK step \in {"count", "change"} :
            Begin(s, [Idle EXCEPT !.at = step, !.on = o, !.who = u, !.arg = to])
      BY <2>2, Zenon DEF ChangeRead
    <3>2. [Idle EXCEPT !.at = step, !.on = o, !.who = u, !.arg = to] \in Work
      BY Zenon DEF Idle, Work, Targets
    <3>3. /\ Sound([Idle EXCEPT !.at = step, !.on = o, !.who = u, !.arg = to])
          /\ [Idle EXCEPT !.at = step, !.on = o, !.who = u, !.arg = to].at # "invite"
      BY Zenon DEF Idle, Sound
    <3>. QED
      BY <3>1, <3>2, <3>3, Zenon
  <2>3. ASSUME NEW i \in Invites, NEW how \in Answers, Answer(s, i, how)
        PROVE  \E w \in Work : Sound(w) /\ w.at # "invite" /\ Begin(s, w)
    <3>1. Begin(s, [Idle EXCEPT !.at = "answer", !.on = i, !.arg = how])
      BY <2>3, Zenon DEF Answer
    <3>2. [Idle EXCEPT !.at = "answer", !.on = i, !.arg = how] \in Work
      BY Zenon DEF Idle, Work
    <3>3. /\ Sound([Idle EXCEPT !.at = "answer", !.on = i, !.arg = how])
          /\ [Idle EXCEPT !.at = "answer", !.on = i, !.arg = how].at # "invite"
      BY Zenon DEF Idle, Sound
    <3>. QED
      BY <3>1, <3>2, <3>3, Zenon
  <2>. QED
    BY <2>1, <2>2, <2>3, Zenon
<1>3. ProcsOK'
  BY <1>1, <1>2, BeginProcs, Zenon DEF letters
<1>. QED
  BY <1>1, <1>3, TypeGroups, NamesUnchanged, PeopleUnchanged, LettersUnchanged, Zenon

\* Creation, deletion and restore of organizations, and the grace window.
LEMMA OrgTypes ==
    ASSUME TypeInv,
           \/ \E o \in Orgs, n \in Slugs, u \in Users : Create(o, n, u)
           \/ \E s \in Procs : SoftDeleteWrite(s) \/ RestoreWrite(s) \/ HardDelete(s)
           \/ GracePasses
    PROVE  TypeInv'
<1>1. NamesOK /\ PeopleOK /\ LettersOK /\ ProcsOK /\ None \notin Slugs
  BY TypeGroups, OrgAssumption, Zenon
<1>2. ASSUME NEW o \in Orgs, NEW n \in Slugs, NEW u \in Users, Create(o, n, u)
      PROVE  TypeInv'
  <2>1. <<"org", o>> \in Principal /\ Register(<<"org", o>>, n)
    BY <1>2, Zenon DEF Create, Principal
  <2>. DEFINE row == [st |-> "live", name |-> n]
  <2>2. row \in Account /\ (Exists(row) <=> row.name # None)
    BY <1>1, Zenon DEF Account, Exists
  <2>. HIDE DEF row
  <2>3. org' = [org EXCEPT ![o] = row] /\ UNCHANGED <<user, redirects, usurped>>
    BY <1>2, Zenon DEF Create, row
  <2>4. NamesOK'
    BY <1>1, <2>1, <2>2, <2>3, TriggerTypes, OrgChanged, Zenon DEF NamesOK
  <2>5. PeopleOK'
    BY <1>1, <1>2, Zenon DEF Create, PeopleOK, Roles
  <2>6. UNCHANGED letters /\ UNCHANGED <<proc, issued>>
    BY <1>2, Zenon DEF Create, letters
  <2>. QED
    BY <1>1, <2>4, <2>5, <2>6, TypeGroups, LettersUnchanged, ProcsUnchanged, Zenon
<1>3. ASSUME NEW s \in Procs, SoftDeleteWrite(s) PROVE TypeInv'
  <2>. DEFINE o == proc[s].on
  <2>1. o \in Orgs /\ org[o] \in Account
    BY <1>1, <1>3, Zenon DEF SoftDeleteWrite, At, ProcsOK, Sounds, Sound, NamesOK
  <2>2. UNCHANGED people /\ UNCHANGED letters /\ UNCHANGED <<user, redirects>>
    BY <1>3, Zenon DEF SoftDeleteWrite
  <2>3. ProcsOK'
    BY <1>3, <2>2, DoneProcs, Zenon DEF SoftDeleteWrite, letters
  <2>4. ASSUME Exists(org[o]) PROVE NamesOK'
    <3>. DEFINE row == [org[o] EXCEPT !.st = "deleted"]
    <3>1. row \in Account /\ (Exists(row) <=> row.name # None)
      BY <1>1, <2>1, <2>4, Zenon DEF Account, Exists, NamesOK
    <3>2. org' = [org EXCEPT ![o] = row] /\ Drop(<<"org", o>>)
      BY <1>3, <2>4, Zenon DEF SoftDeleteWrite
    <3>3. usurped' \subseteq Principal
      BY <1>1, <1>3, <2>4, Zenon DEF SoftDeleteWrite, NamesOK
    <3>4. principals' \in [Slugs -> Principal \cup {None}]
      BY <1>1, <3>2, Zenon DEF Drop, NamesOK
    <3>. HIDE DEF row, o
    <3>. QED
      BY <1>1, <2>1, <2>2, <3>1, <3>2, <3>3, <3>4, OrgChanged, Zenon DEF NamesOK
  <2>5. ASSUME ~Exists(org[o]) PROVE NamesOK'
    BY <1>1, <1>3, <2>2, <2>5, NamesUnchanged, Zenon DEF SoftDeleteWrite, names
  <2>. QED
    BY <1>1, <2>2, <2>3, <2>4, <2>5, TypeGroups, PeopleUnchanged, LettersUnchanged, Zenon
<1>4. ASSUME NEW s \in Procs, RestoreWrite(s) PROVE TypeInv'
  <2>. DEFINE o == proc[s].on
  <2>1. o \in Orgs /\ org[o] \in Account /\ <<"org", o>> \in Principal
    BY <1>1, <1>4, Zenon DEF RestoreWrite, At, ProcsOK, Sounds, Sound, NamesOK, Principal
  <2>2. UNCHANGED people /\ UNCHANGED letters /\ UNCHANGED <<user, redirects>>
    BY <1>4, Zenon DEF RestoreWrite
  <2>3. ProcsOK'
    BY <1>4, <2>2, DoneProcs, Zenon DEF RestoreWrite, letters
  <2>4. ASSUME Fallen(org[o]) PROVE NamesOK'
    <3>. DEFINE row == [org[o] EXCEPT !.st = "live"]
    <3>1. row \in Account /\ (Exists(row) <=> row.name # None)
      BY <1>1, <2>1, <2>4, Zenon DEF Account, Exists, Fallen, NamesOK
    <3>2. org' = [org EXCEPT ![o] = row] /\ Reclaim(<<"org", o>>, org[o].name)
      BY <1>4, <2>4, Zenon DEF RestoreWrite
    <3>3. org[o].name \in Slugs
      BY <1>1, <2>1, <2>4, Zenon DEF NamesOK, Account, Exists, Fallen
    <3>. HIDE DEF row, o
    <3>. QED
      BY <1>1, <2>1, <2>2, <3>1, <3>2, <3>3, TriggerTypes, OrgChanged, Zenon DEF NamesOK
  <2>5. ASSUME ~Fallen(org[o]) PROVE NamesOK'
    BY <1>1, <1>4, <2>2, <2>5, NamesUnchanged, Zenon DEF RestoreWrite, names
  <2>. QED
    BY <1>1, <2>2, <2>3, <2>4, <2>5, TypeGroups, PeopleUnchanged, LettersUnchanged, Zenon
<1>5. ASSUME NEW s \in Procs, HardDelete(s) PROVE TypeInv'
  <2>. DEFINE o == proc[s].on
              row == [st |-> "gone", name |-> None]
  <2>1. o \in Orgs
    BY <1>1, <1>5, Zenon DEF HardDelete, At, ProcsOK, Sounds, Sound
  <2>2. row \in Account /\ (Exists(row) <=> row.name # None)
    BY Zenon DEF Account, Exists
  <2>3. org' = [org EXCEPT ![o] = row] /\ UNCHANGED <<user, redirects>>
    BY <1>5, Zenon DEF HardDelete
  <2>4. /\ principals' \in [Slugs -> Principal \cup {None}]
        /\ usurped' \subseteq Principal
    BY <1>1, <1>5, Zenon DEF HardDelete, Drop, NamesOK
  <2>5. PeopleOK'
    BY <1>1, <1>5, Zenon DEF HardDelete, PeopleOK
  <2>6. LettersOK'
    BY <1>1, <1>5, Zenon DEF HardDelete, LettersOK
  <2>7. ProcsOK'
    BY <1>5, DoneProcs, Zenon DEF HardDelete
  <2>. HIDE DEF row, o
  <2>8. NamesOK'
    BY <1>1, <2>1, <2>2, <2>3, <2>4, OrgChanged, Zenon DEF NamesOK
  <2>. QED
    BY <2>5, <2>6, <2>7, <2>8, TypeGroups, Zenon
<1>6. ASSUME GracePasses PROVE TypeInv'
  <2>1. UNCHANGED people /\ UNCHANGED letters /\ UNCHANGED <<proc, issued>>
    BY <1>6, Zenon DEF GracePasses, people, letters
  <2>2. NamesOK'
    BY <1>1, <1>6, SMTT(40) DEF GracePasses, NamesOK, Account, Exists
  <2>. QED
    BY <1>1, <2>1, <2>2, TypeGroups, PeopleUnchanged, LettersUnchanged, ProcsUnchanged, Zenon
<1>. QED
  BY <1>2, <1>3, <1>4, <1>5, <1>6, Zenon

\* A member who joins has one of the two roles.
LEMMA JoinsTypes ==
    ASSUME PeopleOK, NEW o \in Orgs, NEW u \in Users, NEW role \in Roles,
           Joins(o, u, role), UNCHANGED raced
    PROVE  PeopleOK'
BY Zenon DEF Joins, PeopleOK

\* Whom an invitation is for is a user, whether it names one or an address.
LEMMA ClaimantType == \A t \in Targets : Claimant(t) \in Users
BY OrgAssumption, Zenon DEF Targets, Claimant

\* Members, and the steps of invitations that write.
LEMMA PeopleTypes ==
    ASSUME TypeInv,
           \/ \E o \in Orgs, u \in Users, r \in Roles : AddMember(o, u, r)
           \/ \E s \in Procs : ChangeCount(s) \/ ChangeWrite(s) \/ AnswerWrite(s)
           \/ \E i \in Invites : Expire(i)
    PROVE  TypeInv'
<1>1. NamesOK /\ PeopleOK /\ LettersOK /\ ProcsOK
  BY TypeGroups, Zenon
<1>2. ASSUME NEW o \in Orgs, NEW u \in Users, NEW r \in Roles, AddMember(o, u, r)
      PROVE  TypeInv'
  <2>1. UNCHANGED names /\ UNCHANGED letters /\ UNCHANGED <<proc, issued>>
    BY <1>2, Zenon DEF AddMember, letters
  <2>2. PeopleOK'
    BY <1>1, <1>2, JoinsTypes, Zenon DEF AddMember
  <2>. QED
    BY <1>1, <2>1, <2>2, TypeGroups, NamesUnchanged, LettersUnchanged, ProcsUnchanged, Zenon
<1>3. ASSUME NEW s \in Procs, ChangeCount(s) PROVE TypeInv'
  <2>1. UNCHANGED names /\ UNCHANGED people /\ UNCHANGED letters /\ UNCHANGED issued
    BY <1>3, Zenon DEF ChangeCount, letters
  <2>2. ProcsOK'
    <3>1. CASE Done(s)
      BY <2>1, <3>1, DoneProcs, Zenon
    <3>2. CASE Go(s, "change")
      <4>. DEFINE w == [proc[s] EXCEPT !.at = "change"]
      <4>1. w \in Work /\ Sound(w) /\ w.at # "invite"
        BY <1>1, <1>3 DEF ProcsOK, Sounds, Sound, Work, ChangeCount, At
      <4>2. Begin(s, w)
        BY <3>2, Zenon DEF Go, Begin
      <4>. HIDE DEF w
      <4>. QED
        BY <2>1, <4>1, <4>2, BeginProcs, Zenon
    <3>. QED
      BY <1>3, <3>1, <3>2, Zenon DEF ChangeCount
  <2>. QED
    BY <1>1, <2>1, <2>2, TypeGroups, NamesUnchanged, PeopleUnchanged, LettersUnchanged, Zenon
<1>4. ASSUME NEW s \in Procs, ChangeWrite(s) PROVE TypeInv'
  <2>1. proc[s].on \in Orgs /\ proc[s].who \in Users /\ proc[s].arg \in Roles \cup {None}
    BY <1>1, <1>4, Zenon DEF ProcsOK, Sounds, Sound, ChangeWrite, At
  <2>2. UNCHANGED names /\ UNCHANGED letters /\ UNCHANGED issued
    BY <1>4, Zenon DEF ChangeWrite, letters
  <2>3. PeopleOK'
    BY <1>1, <1>4, <2>1, ZenonT(30) DEF ChangeWrite, PeopleOK
  <2>4. ProcsOK'
    BY <1>4, <2>2, DoneOverProcs, Zenon DEF ChangeWrite
  <2>. QED
    BY <1>1, <2>2, <2>3, <2>4, TypeGroups, NamesUnchanged, LettersUnchanged, Zenon
<1>5. ASSUME NEW s \in Procs, AnswerWrite(s) PROVE TypeInv'
  <2>. DEFINE i == proc[s].on
              how == proc[s].arg
  <2>1. i \in Invites /\ how \in Answers
    BY <1>1, <1>5, Zenon DEF ProcsOK, Sounds, Sound, AnswerWrite, At
  <2>2. UNCHANGED names /\ UNCHANGED <<raced, issued>>
    BY <1>5, Zenon DEF AnswerWrite
  <2>3. ProcsOK'
    BY <1>5, <2>2, DoneProcs, Zenon DEF AnswerWrite
  <2>4. PeopleOK' /\ LettersOK'
    <3>1. CASE inv[i] = None
      BY <1>1, <1>5, <2>2, <3>1, Zenon DEF AnswerWrite, PeopleOK, LettersOK
    <3>2. CASE inv[i] # None
      <4>1. inv[i] \in Invitation
        BY <1>1, <2>1, <3>2, Zenon DEF LettersOK
      <4>2. PeopleOK'
        <5>1. inv[i].org \in Orgs /\ Claimant(inv[i].target) \in Users /\ inv[i].role \in Roles
          BY <4>1, ClaimantType, Zenon DEF Invitation
        <5>2. UNCHANGED member \/ Joins(inv[i].org, Claimant(inv[i].target), inv[i].role)
          BY <1>5, <3>2, Zenon DEF AnswerWrite
        <5>. QED
          BY <1>1, <2>2, <5>1, <5>2, JoinsTypes, PeopleUnchanged, Zenon DEF people
      <4>3. inv' \in [Invites -> Invitation \cup {None}]
        <5>1. [inv[i] EXCEPT !.answers = @ \cup {how}] \in Invitation
          BY <2>1, <4>1, Zenon DEF Invitation
        <5>2. inv' = [inv EXCEPT ![i] = [inv[i] EXCEPT !.answers = @ \cup {how}]]
          BY <1>5, <3>2, Zenon DEF AnswerWrite
        <5>. QED
          BY <1>1, <5>1, <5>2, Zenon DEF LettersOK
      <4>. QED
        BY <1>1, <2>2, <4>2, <4>3, Zenon DEF LettersOK
    <3>. QED
      BY <3>1, <3>2, Zenon
  <2>. QED
    BY <1>1, <2>2, <2>3, <2>4, TypeGroups, NamesUnchanged, Zenon
<1>6. ASSUME NEW i \in Invites, Expire(i) PROVE TypeInv'
  <2>1. UNCHANGED names /\ UNCHANGED people /\ UNCHANGED <<proc, issued>>
    BY <1>6, Zenon DEF Expire
  <2>2. inv[i] \in Invitation
    BY <1>1, <1>6, Zenon DEF Expire, Pending, LettersOK
  <2>3. [inv[i] EXCEPT !.expired = TRUE] \in Invitation
    BY <2>2, Zenon DEF Invitation
  <2>4. LettersOK'
    BY <1>1, <1>6, <2>3, Zenon DEF Expire, LettersOK
  <2>. QED
    BY <1>1, <2>1, <2>4, TypeGroups, NamesUnchanged, PeopleUnchanged, ProcsUnchanged, Zenon
<1>. QED
  BY <1>2, <1>3, <1>4, <1>5, <1>6, Zenon

\* A request that found room for an invitation has it when it writes.
LEMMA InviteTypes ==
    ASSUME TypeInv, NEW s \in Procs,
           \/ \E o \in Orgs, k \in Letters : Invite(s, o, k[1], k[2])
           \/ InviteWrite(s)
    PROVE  TypeInv'
<1>1. NamesOK /\ PeopleOK /\ LettersOK /\ ProcsOK
  BY TypeGroups, Zenon
<1>2. /\ IsFiniteSet(Inviters) /\ Cardinality(Inviters) \in Nat
      /\ issued \in Nat /\ MaxInvites \in Nat
  BY <1>1, OrgAssumption, FS_Subset, FS_CardinalityType, SMTT(40) DEF Inviters, LettersOK
<1>3. ASSUME NEW o \in Orgs, NEW k \in Letters, Invite(s, o, k[1], k[2])
      PROVE  TypeInv'
  <2>. DEFINE w == [Idle EXCEPT !.at = "invite", !.on = o, !.who = k[1], !.arg = k[2]]
  <2>1. k[1] \in Targets /\ k[2] \in Roles
    BY OrgAssumption, Zenon
  <2>2. w \in Work /\ Sound(w) /\ w.at = "invite"
    BY <2>1, Zenon DEF Idle, Work, Sound
  <2>3. Begin(s, w) /\ UNCHANGED <<names, people, letters>>
    BY <1>3, Zenon DEF Invite
  <2>. HIDE DEF w
  <2>4. Inviters' = Inviters \cup {s}
    BY <2>2, <2>3, BeginEffect, Zenon DEF Inviters, At
  <2>5. s \notin Inviters
    BY <1>3, IdleSound, Zenon DEF Invite, Free, Inviters, At
  <2>6. Cardinality(Inviters') = Cardinality(Inviters) + 1
    BY <1>2, <2>4, <2>5, FS_AddElement, Zenon
  <2>7. issued + Cardinality(Inviters) < MaxInvites
    BY <1>3, Zenon DEF Invite, Inviters
  <2>8. Room'
    BY <1>2, <2>3, <2>6, <2>7, SMTT(40) DEF Room, letters
  <2>9. ProcsOK'
    BY <2>2, <2>3, <2>8, BeginEffect, Zenon DEF ProcsOK
  <2>. QED
    BY <1>1, <2>3, <2>9, TypeGroups, NamesUnchanged, PeopleUnchanged, LettersUnchanged, Zenon
<1>4. ASSUME InviteWrite(s) PROVE TypeInv'
  <2>1. s \in Inviters /\ Inviters' = Inviters \ {s}
    BY <1>4, DoneEffect, IdleSound, Zenon DEF InviteWrite, Inviters, At
  <2>2. Cardinality(Inviters') = Cardinality(Inviters) - 1
    BY <1>2, <2>1, FS_RemoveElement, Zenon
  <2>3. issued + 1 \in Invites
    <3>1. Cardinality(Inviters) # 0
      BY <1>2, <2>1, FS_EmptySet, Zenon
    <3>. QED
      BY <1>1, <1>2, <3>1, SMTT(40) DEF ProcsOK, Room, Invites
  <2>4. issued' \in {issued, issued + 1}
    BY <1>4, Zenon DEF InviteWrite, letters
  <2>5. Room'
    BY <1>1, <1>2, <2>2, <2>4, SMTT(20) DEF Room, ProcsOK
  <2>6. ProcsOK'
    BY <1>4, <2>5, DoneEffect, Zenon DEF InviteWrite, ProcsOK
  <2>7. LettersOK'
    <3>. DEFINE row == [org |-> proc[s].on, target |-> proc[s].who, role |-> proc[s].arg,
                        answers |-> {}, expired |-> FALSE]
    <3>1. row \in Invitation
      BY <1>1, <1>4, Zenon DEF ProcsOK, Sounds, Sound, InviteWrite, At, Invitation
    <3>. HIDE DEF row
    <3>2. inv' = inv \/ inv' = [inv EXCEPT ![issued + 1] = row]
      BY <1>4, Zenon DEF InviteWrite, letters, row
    <3>3. issued' \in 0 .. MaxInvites
      BY <1>1, <2>3, <2>4, SMTT(40) DEF LettersOK, Invites
    <3>. QED
      BY <1>1, <2>3, <3>1, <3>2, <3>3, SMTT(20) DEF LettersOK
  <2>8. UNCHANGED names /\ UNCHANGED people
    BY <1>4, Zenon DEF InviteWrite
  <2>. QED
    BY <1>1, <2>6, <2>7, <2>8, TypeGroups, NamesUnchanged, PeopleUnchanged, Zenon
<1>. QED
  BY <1>3, <1>4, Zenon

\* The inductive invariant behind TypeOK.
LEMMA TypeInvKept == Spec => []TypeInv
<1>1. Init => TypeInv
  <2>. SUFFICES ASSUME Init PROVE TypeInv
    BY Zenon
  <2>1. Inviters = {}
    BY IdleSound, Zenon DEF Init, Inviters, At
  <2>2. Room
    BY <2>1, FS_EmptySet, OrgAssumption, SMTT(40) DEF Init, Room
  <2>. QED
    BY <2>2, IdleSound, OrgAssumption, SMTT(40) DEF Init, TypeInv, TypeOK, Sounds, Account, Exists, Invites
<1>2. TypeInv /\ [Next]_vars => TypeInv'
  <2>. SUFFICES ASSUME TypeInv, [Next]_vars PROVE TypeInv'
    BY Zenon
  <2>1. CASE UNCHANGED vars
    <3>1. UNCHANGED names /\ UNCHANGED people /\ UNCHANGED letters /\ UNCHANGED <<proc, issued>>
      BY <2>1, Zenon DEF vars, names, people, letters
    <3>. QED
      BY <3>1, TypeGroups, NamesUnchanged, PeopleUnchanged, LettersUnchanged, ProcsUnchanged, Zenon
  <2>2. CASE Naming
    <3>1. ASSUME NEW u \in Users, DeleteAccount(u) \/ Login(u) PROVE TypeInv'
      <4>1. user[u].name \in Slugs
        BY <3>1, Zenon DEF DeleteAccount, Login, TypeInv, TypeOK, Account, Exists
      <4>. QED
        BY <3>1, <4>1, AccountTypes, Zenon
    <3>. QED
      BY <2>2, <3>1, AccountTypes, OrgTypes, BeginTypes, Zenon DEF Naming
  <2>3. CASE Membership
    BY <2>3, PeopleTypes, BeginTypes, Zenon DEF Membership
  <2>4. CASE Inviting
    BY <2>4, PeopleTypes, BeginTypes, InviteTypes, Zenon DEF Inviting
  <2>. QED
    BY <2>1, <2>2, <2>3, <2>4, Zenon DEF Next
<1>. QED
  BY <1>1, <1>2, PTL DEF Spec

\* Every table, process and history variable keeps its type; in particular a row
\* of users or orgs has a name for exactly as long as it exists, whatever the
\* writes by id of requests and sweeps in progress do.
THEOREM TypeCorrect == Spec => []TypeOK
BY TypeInvKept, PTL DEF TypeInv

-----------------------------------------------------------------------------
(* The last owner *)

\* Why OwnerStays is inductive: a change that takes the owner role away and has
\* not been overtaken by another change either hits a plain member or leaves
\* another owner.
Guarded(s) ==
    LET o == proc[s].on
        u == proc[s].who
    IN /\ proc[s].at \in Changing => org[o].st # "none"
       /\ (proc[s].at = "change" /\ ~proc[s].stale /\ Exists(org[o]) /\ proc[s].arg # "owner") =>
              \/ member[o][u] = "member"
              \/ \E v \in Users \ {u} : member[o][v] = "owner"

OwnerInv == OwnerStays /\ \A s \in Procs : Guarded(s)

\* Those who have a role keep it when someone joins.
LEMMA JoinsKeeps ==
    ASSUME TypeInv, NEW o \in Orgs, NEW u \in Users, NEW role \in Roles, Joins(o, u, role)
    PROVE  \A p \in Orgs, v \in Users : member[p][v] # None => member'[p][v] = member[p][v]
BY Zenon DEF Joins, TypeInv, TypeOK

\* Steps after which those who had a role have it still, and no organization
\* comes into being.
LEMMA OwnerKeptByJoining ==
    ASSUME TypeInv, OwnerInv, TypeInv', UNCHANGED raced,
           \A p \in Orgs, v \in Users : member[p][v] # None => member'[p][v] = member[p][v],
           \A p \in Orgs : /\ Exists(org'[p]) => Exists(org[p])
                           /\ org[p].st # "none" => org'[p].st # "none",
           \A s \in Procs : \/ proc'[s].at \notin Changing
                            \/ Alike(proc'[s], proc[s]) /\ (proc[s].stale => proc'[s].stale)
    PROVE  OwnerInv'
<1>1. None # "owner" /\ None # "member"
  BY OrgAssumption, Zenon DEF Roles
<1>2. OwnerStays'
  BY <1>1 DEF OwnerInv, OwnerStays, Owners
<1>3. ASSUME NEW s \in Procs PROVE Guarded(s)'
  <2>1. CASE proc'[s].at \notin Changing
    BY <2>1, Zenon DEF Guarded, Changing
  <2>2. CASE /\ proc'[s].at \in Changing
             /\ Alike(proc'[s], proc[s]) /\ (proc[s].stale => proc'[s].stale)
    <3>1. Guarded(s) /\ Sound(proc[s])
      BY Zenon DEF OwnerInv, TypeInv, Sounds
    <3>. QED
      BY <1>1, <2>2, <3>1 DEF Guarded, Sound, Alike, Changing
  <2>. QED
    BY <2>1, <2>2, Zenon
<1>. QED
  BY <1>2, <1>3, Zenon DEF OwnerInv

\* The steps that write a role or create an organization.
LEMMA OwnerStep ==
    ASSUME TypeInv, OwnerInv, TypeInv', Next
    PROVE  OwnerInv'
<1>. DEFINE KeepRoles == \A p \in Orgs, v \in Users :
                             member[p][v] # None => member'[p][v] = member[p][v]
            KeepOrgs == \A p \in Orgs : /\ Exists(org'[p]) => Exists(org[p])
                                        /\ org[p].st # "none" => org'[p].st # "none"
            KeepProcs == \A s \in Procs :
                             \/ proc'[s].at \notin Changing
                             \/ Alike(proc'[s], proc[s]) /\ (proc[s].stale => proc'[s].stale)
<1>1. None # "owner" /\ None # "member"
  BY OrgAssumption, Zenon DEF Roles
<1>2. proc \in [Procs -> Work] /\ org \in [Orgs -> Account] /\ proc' \in [Procs -> Work]
  BY Zenon DEF TypeInv, TypeOK
<1>3. UNCHANGED proc => KeepProcs
  BY Zenon DEF Alike
<1>4. ASSUME NEW s \in Procs, NEW w \in Work, w.at \notin Changing, Begin(s, w)
      PROVE  KeepProcs
  BY <1>2, <1>4, Zenon DEF Begin, Alike
<1>5. ASSUME NEW s \in Procs, Done(s) PROVE KeepProcs
  BY <1>2, <1>5, IdleSound, Zenon DEF Done, Alike, Changing
<1>6. ASSUME NEW s \in Procs, NEW o, DoneOver(s, o)
      PROVE  KeepProcs
  BY <1>6, DoneOverEffect, IdleSound, Zenon DEF Changing
<1>7. ASSUME NEW u \in Users, NEW n \in Slugs, Signup(u, n) \/ Rename(u, n)
      PROVE  OwnerInv'
  BY <1>3, <1>7, OwnerKeptByJoining, Zenon DEF Signup, Rename, people
<1>8. ASSUME NEW u \in Users, DeleteAccount(u) \/ Login(u) PROVE OwnerInv'
  BY <1>3, <1>8, OwnerKeptByJoining, Zenon DEF DeleteAccount, Login, people
<1>9. ASSUME GracePasses PROVE OwnerInv'
  <2>1. KeepOrgs
    BY <1>2, <1>9, Zenon DEF GracePasses, Account, Exists
  <2>. QED
    BY <1>3, <1>9, <2>1, OwnerKeptByJoining, Zenon DEF GracePasses, people
<1>10. ASSUME NEW o \in Orgs, NEW n \in Slugs, NEW u \in Users, Create(o, n, u)
       PROVE  OwnerInv'
  <2>1. /\ org[o].st = "none" /\ member'[o][u] = "owner"
        /\ \A p \in Orgs \ {o} : member'[p] = member[p] /\ org'[p] = org[p]
        /\ org'[o].st = "live"
        /\ UNCHANGED <<raced, proc>>
    BY <1>10, Zenon DEF Create, TypeInv, TypeOK
  <2>2. OwnerStays'
    BY <2>1, Zenon DEF OwnerInv, OwnerStays, Owners
  <2>3. ASSUME NEW s \in Procs PROVE Guarded(s)'
    <3>1. Guarded(s) /\ Sound(proc[s])
      BY Zenon DEF OwnerInv, TypeInv, Sounds
    <3>2. proc[s].at \in Changing => proc[s].on # o
      BY <2>1, <3>1, Zenon DEF Guarded
    <3>. QED
      BY <2>1, <3>1, <3>2, Zenon DEF Guarded, Sound, Changing
  <2>. QED
    BY <2>2, <2>3, Zenon DEF OwnerInv
<1>11. ASSUME NEW s \in Procs, NEW o \in Orgs,
              SoftDelete(s, o) \/ Restore(s, o) \/ SweepList(s, o)
       PROVE  OwnerInv'
  <2>1. PICK step \in {"softdelete", "restore", "sweep"} :
          Begin(s, [Idle EXCEPT !.at = step, !.on = o])
    BY <1>11, Zenon DEF SoftDelete, Restore, SweepList
  <2>2. /\ [Idle EXCEPT !.at = step, !.on = o] \in Work
        /\ [Idle EXCEPT !.at = step, !.on = o].at \notin Changing
    BY Zenon DEF Idle, Work, Changing
  <2>3. KeepProcs
    BY <1>4, <2>1, <2>2, Zenon
  <2>. QED
    BY <1>11, <2>3, OwnerKeptByJoining, Zenon DEF SoftDelete, Restore, SweepList, names, people
<1>12. ASSUME NEW s \in Procs, SoftDeleteWrite(s) \/ RestoreWrite(s) PROVE OwnerInv'
  <2>1. KeepProcs
    BY <1>5, <1>12, Zenon DEF SoftDeleteWrite, RestoreWrite
  <2>2. KeepOrgs
    BY <1>2, <1>12, SMTT(40) DEF SoftDeleteWrite, RestoreWrite, Account, Exists, Fallen
  <2>. QED
    BY <1>12, <2>1, <2>2, OwnerKeptByJoining, Zenon DEF SoftDeleteWrite, RestoreWrite, people
<1>13. ASSUME NEW s \in Procs, HardDelete(s) PROVE OwnerInv'
  <2>. DEFINE o == proc[s].on
  <2>1. o \in Orgs /\ KeepProcs
    BY <1>5, <1>13, Zenon DEF HardDelete, At, TypeInv, Sounds, Sound
  <2>2. /\ org'[o].st = "gone"
        /\ \A p \in Orgs \ {o} : member'[p] = member[p] /\ org'[p] = org[p]
        /\ UNCHANGED raced
    BY <1>13, <2>1, Zenon DEF HardDelete, TypeInv, TypeOK
  <2>. HIDE DEF o
  <2>3. OwnerStays'
    BY <2>2 DEF OwnerInv, OwnerStays, Owners, Exists
  <2>4. ASSUME NEW t \in Procs PROVE Guarded(t)'
    <3>1. Guarded(t) /\ Sound(proc[t])
      BY Zenon DEF OwnerInv, TypeInv, Sounds
    <3>2. CASE proc'[t].at \notin Changing
      BY <3>2, Zenon DEF Guarded, Changing
    <3>3. CASE proc'[t].at \in Changing
      BY <2>1, <2>2, <3>1, <3>3, SMTT(40) DEF Guarded, Sound, Alike, Changing, Exists
    <3>. QED
      BY <3>2, <3>3, Zenon
  <2>. QED
    BY <2>3, <2>4, Zenon DEF OwnerInv
<1>14. ASSUME NEW o \in Orgs, NEW u \in Users, NEW r \in Roles, AddMember(o, u, r)
       PROVE  OwnerInv'
  BY <1>3, <1>14, JoinsKeeps, OwnerKeptByJoining, Zenon DEF AddMember, names
<1>15. ASSUME NEW s \in Procs, NEW o \in Orgs, NEW u \in Users,
              NEW to \in Roles \cup {None}, ChangeRead(s, o, u, to)
       PROVE  OwnerInv'
  <2>. DEFINE w == [Idle EXCEPT !.at = IF member[o][u] = "owner" /\ to # "owner"
                                       THEN "count" ELSE "change",
                                !.on = o, !.who = u, !.arg = to]
  <2>1. /\ w \in Work /\ w.on = o /\ w.who = u /\ w.arg = to
        /\ w.at = IF member[o][u] = "owner" /\ to # "owner" THEN "count" ELSE "change"
    BY Zenon DEF Idle, Work, Targets
  <2>2. Sound(w)
    BY <2>1, SMTT(40) DEF Sound
  <2>3. /\ Begin(s, w) /\ UNCHANGED <<org, member, raced>>
        /\ org[o].st = "live" /\ member[o][u] \in Roles
    BY <1>15, SMTT(40) DEF ChangeRead, names, people, TypeInv, TypeOK
  <2>. HIDE DEF w
  <2>4. proc'[s] = w /\ \A t \in Procs \ {s} : proc'[t] = proc[t]
    BY <2>1, <2>2, <2>3, BeginEffect
  <2>5. Guarded(s)'
    BY <2>1, <2>3, <2>4, Zenon DEF Guarded, Roles
  <2>6. \A t \in Procs \ {s} : Guarded(t)'
    BY <2>3, <2>4, SMTT(40) DEF Guarded, OwnerInv
  <2>7. OwnerStays'
    BY <2>3, Zenon DEF OwnerInv, OwnerStays, Owners
  <2>. QED
    BY <2>5, <2>6, <2>7 DEF OwnerInv
<1>16. ASSUME NEW s \in Procs, ChangeCount(s) PROVE OwnerInv'
  <2>. DEFINE o == proc[s].on
              u == proc[s].who
  <2>1. UNCHANGED <<org, member, raced>> /\ o \in Orgs /\ u \in Users
    BY <1>16, Zenon DEF ChangeCount, names, people, At, TypeInv, Sounds, Sound
  <2>2. CASE Done(s)
    BY <1>5, <2>1, <2>2, OwnerKeptByJoining, Zenon
  <2>3. CASE ~(Cardinality(Owners(o)) <= 1) /\ Go(s, "change")
    <3>1. \E v \in Users \ {u} : member[o][v] = "owner"
      <4>. SUFFICES ASSUME Owners(o) \subseteq {u} PROVE FALSE
        BY Zenon DEF Owners
      <4>1. IsFiniteSet({u}) /\ Cardinality({u}) = 1
        BY FS_Singleton, Zenon
      <4>2. Cardinality(Owners(o)) <= 1
        BY <4>1, FS_Subset, Zenon
      <4>. QED
        BY <2>3, <4>2, Zenon
    <3>2. org[o].st # "none"
      BY <1>16, Zenon DEF OwnerInv, Guarded, ChangeCount, At, Changing
    <3>3. /\ proc'[s].on = o /\ proc'[s].who = u
          /\ \A t \in Procs \ {s} : proc'[t] = proc[t]
      BY <1>2, <2>3 DEF Go, Work
    <3>. HIDE DEF o, u
    <3>4. Guarded(s)'
      BY <2>1, <3>1, <3>2, <3>3, Zenon DEF Guarded
    <3>5. \A t \in Procs \ {s} : Guarded(t)'
      BY <2>1, <3>3, SMTT(40) DEF Guarded, OwnerInv
    <3>6. OwnerStays'
      BY <2>1, Zenon DEF OwnerInv, OwnerStays, Owners
    <3>. QED
      BY <3>4, <3>5, <3>6, Zenon DEF OwnerInv
  <2>. QED
    BY <1>16, <2>2, <2>3, Zenon DEF ChangeCount
<1>17. ASSUME NEW s \in Procs, ChangeWrite(s) PROVE OwnerInv'
  <2>. DEFINE o == proc[s].on
              u == proc[s].who
  <2>1. /\ o \in Orgs /\ u \in Users /\ proc[s].arg \in Roles \cup {None}
        /\ proc[s].at = "change" /\ UNCHANGED org
    BY <1>17, Zenon DEF ChangeWrite, names, At, TypeInv, Sounds, Sound
  <2>2. /\ member'[o][u] = IF member[o][u] = None THEN None ELSE proc[s].arg
        /\ \A v \in Users \ {u} : member'[o][v] = member[o][v]
        /\ \A p \in Orgs \ {o} : member'[p] = member[p]
    BY <1>17, <2>1, Zenon DEF ChangeWrite, TypeInv, TypeOK
  <2>3. raced \subseteq raced' /\ (proc[s].stale => o \in raced')
    BY <1>17, Zenon DEF ChangeWrite
  <2>4. Guarded(s) /\ OwnerStays
    BY Zenon DEF OwnerInv
  <2>5. /\ proc'[s] = Idle
        /\ \A t \in Procs \ {s} : /\ Alike(proc'[t], proc[t])
                                  /\ proc[t].stale => proc'[t].stale
                                  /\ proc[t].on = o /\ proc[t].at \in Changing => proc'[t].stale
    BY <1>17, DoneOverEffect, Zenon DEF ChangeWrite
  <2>. HIDE DEF o, u
  <2>6. Guarded(s)'
    BY <2>5, IdleSound, ZenonT(30) DEF Guarded, Changing
  <2>7. ASSUME NEW t \in Procs \ {s} PROVE Guarded(t)'
    <3>1. Guarded(t) /\ Sound(proc[t])
      BY Zenon DEF OwnerInv, TypeInv, Sounds
    <3>. QED
      <4>1. /\ Alike(proc'[t], proc[t]) /\ (proc[t].stale => proc'[t].stale)
            /\ proc[t].on = o /\ proc[t].at \in Changing => proc'[t].stale
        BY <2>5, Zenon
      <4>2. CASE proc[t].at \notin Changing
        BY <4>1, <4>2, Zenon DEF Guarded, Alike, Changing
      <4>3. CASE proc[t].at \in Changing /\ proc[t].on = o
        BY <2>1, <3>1, <4>1, <4>3, Zenon DEF Guarded, Alike
      <4>4. CASE proc[t].at \in Changing /\ proc[t].on # o
        <5>1. member'[proc[t].on] = member[proc[t].on]
          BY <2>2, <3>1, <4>4, Zenon DEF Sound, Changing
        <5>. QED
          BY <2>1, <3>1, <4>1, <5>1, Zenon DEF Guarded, Alike
      <4>. QED
        BY <4>2, <4>3, <4>4
  <2>8. Exists(org[o]) /\ o \notin raced' => \E v \in Users : member'[o][v] = "owner"
    <3>. SUFFICES ASSUME Exists(org[o]), o \notin raced'
                  PROVE  \E v \in Users : member'[o][v] = "owner"
      BY Zenon
    <3>1. PICK x \in Users : member[o][x] = "owner"
      BY <2>1, <2>3, <2>4, Zenon DEF OwnerStays, Owners
    <3>2. CASE proc[s].arg = "owner"
      BY <1>1, <2>1, <2>2, <3>1, <3>2, Zenon
    <3>3. CASE proc[s].arg # "owner"
      <4>1. \/ member[o][u] = "member"
            \/ \E v \in Users \ {u} : member[o][v] = "owner"
        BY <2>1, <2>3, <2>4, <3>3, Zenon DEF Guarded, o, u
      <4>. QED
        BY <2>2, <3>1, <4>1, Zenon
    <3>. QED
      BY <3>2, <3>3, Zenon
  <2>9. OwnerStays'
    BY <2>1, <2>2, <2>3, <2>4, <2>8, SMTT(40) DEF OwnerStays, Owners
  <2>. QED
    BY <2>6, <2>7, <2>9, Zenon DEF OwnerInv
<1>18. ASSUME NEW s \in Procs, NEW o \in Orgs, NEW k \in Letters, Invite(s, o, k[1], k[2])
       PROVE  OwnerInv'
  <2>. DEFINE w == [Idle EXCEPT !.at = "invite", !.on = o, !.who = k[1], !.arg = k[2]]
  <2>1. w \in Work /\ w.at \notin Changing
    BY OrgAssumption, Zenon DEF Idle, Work, Changing
  <2>2. Begin(s, w)
    BY <1>18 DEF Invite
  <2>. HIDE DEF w
  <2>3. KeepProcs
    BY <1>4, <2>1, <2>2
  <2>. QED
    BY <1>18, <2>3, OwnerKeptByJoining, Zenon DEF Invite, names, people
<1>19. ASSUME NEW s \in Procs, NEW i \in Invites, NEW how \in Answers, Answer(s, i, how)
       PROVE  OwnerInv'
  <2>. DEFINE w == [Idle EXCEPT !.at = "answer", !.on = i, !.arg = how]
  <2>1. w \in Work /\ w.at \notin Changing
    BY ZenonT(30) DEF Idle, Work, Changing
  <2>2. Begin(s, w)
    BY <1>19, Zenon DEF Answer
  <2>. HIDE DEF w
  <2>3. KeepProcs
    BY <1>4, <2>1, <2>2, Zenon
  <2>. QED
    BY <1>19, <2>3, OwnerKeptByJoining, Zenon DEF Answer, names, people
<1>20. ASSUME NEW s \in Procs, InviteWrite(s) PROVE OwnerInv'
  <2>1. KeepProcs
    BY <1>5, <1>20, Zenon DEF InviteWrite
  <2>. QED
    BY <1>20, <2>1, OwnerKeptByJoining, Zenon DEF InviteWrite, names, people
<1>21. ASSUME NEW s \in Procs, AnswerWrite(s) PROVE OwnerInv'
  <2>1. KeepProcs
    BY <1>5, <1>21, Zenon DEF AnswerWrite
  <2>2. KeepRoles
    <3>1. proc[s].on \in Invites
      BY <1>21, Zenon DEF AnswerWrite, At, TypeInv, Sounds, Sound
    <3>2. \/ UNCHANGED member
          \/ /\ inv[proc[s].on] # None
             /\ Joins(inv[proc[s].on].org, Claimant(inv[proc[s].on].target), inv[proc[s].on].role)
      BY <1>21, Zenon DEF AnswerWrite
    <3>3. inv[proc[s].on] # None => /\ inv[proc[s].on].org \in Orgs
                                    /\ Claimant(inv[proc[s].on].target) \in Users
                                    /\ inv[proc[s].on].role \in Roles
      BY <3>1, ClaimantType, Zenon DEF TypeInv, TypeOK, Invitation
    <3>. QED
      BY <3>2, <3>3, JoinsKeeps, Zenon
  <2>. QED
    BY <1>21, <2>1, <2>2, OwnerKeptByJoining, Zenon DEF AnswerWrite, names
<1>22. ASSUME NEW i \in Invites, Expire(i) PROVE OwnerInv'
  BY <1>3, <1>22, OwnerKeptByJoining, Zenon DEF Expire, names, people
<1>. QED
  BY <1>7, <1>8, <1>9, <1>10, <1>11, <1>12, <1>13, <1>14, <1>15, <1>16, <1>17,
     <1>18, <1>19, <1>20, <1>21, <1>22
  DEF Next, Naming, Membership, Inviting

\* However requests interleave, an organization whose member changes were never
\* written from a read that another change had overtaken keeps an owner.
THEOREM OwnerKept == Spec => []OwnerStays
<1>1. Init => OwnerInv
  BY IdleSound, SMTT(40) DEF Init, OwnerInv, OwnerStays, Guarded, Exists, Changing
<1>2. TypeInv /\ TypeInv' /\ OwnerInv /\ [Next]_vars => OwnerInv'
  <2>1. CASE UNCHANGED vars
    BY <2>1, Zenon DEF vars, OwnerInv, OwnerStays, Owners, Guarded
  <2>. QED
    BY <2>1, OwnerStep, Zenon
<1>. QED
  BY <1>1, <1>2, TypeInvKept, PTL DEF Spec, OwnerInv

-----------------------------------------------------------------------------
(* Names *)

\* NamesResolve of any principals table, rows and history, so that each trigger
\* can be judged by itself.
Coherent(table, row, taken) ==
    /\ \A n \in Slugs : table[n] # None =>
          row[table[n]].st = "live" /\ row[table[n]].name = n
    /\ \A p \in Principal : row[p].st = "live" /\ p \notin taken => table[row[p].name] = p

Rows == [p \in Principal |-> RowOf(p)]

\* NamesResolve is coherence of the triggers' table with users and orgs taken together.
LEMMA RowsResolve ==
    /\ TypeInv => (NamesResolve <=> Coherent(principals, Rows, usurped))
    /\ TypeInv' => (NamesResolve' <=> Coherent(principals', Rows', usurped'))
<1>1. ASSUME principals \in [Slugs -> Principal \cup {None}]
      PROVE  NamesResolve <=> Coherent(principals, Rows, usurped)
  BY <1>1, Zenon DEF NamesResolve, Coherent, Rows
<1>2. ASSUME principals' \in [Slugs -> Principal \cup {None}]
      PROVE  NamesResolve' <=> Coherent(principals', Rows', usurped')
  <2>1. \A p \in Principal : Rows'[p] = IF p[1] = "user" THEN user'[p[2]] ELSE org'[p[2]]
    BY DEF Rows, RowOf
  <2>. QED
    BY <1>2, <2>1, SMTT(20) DEF NamesResolve, Coherent, RowOf
<1>. QED
  BY <1>1, <1>2, Zenon DEF TypeInv, TypeOK

\* A row that changes, in users or in orgs.
LEMMA UserRow ==
    ASSUME TypeInv, NEW u \in Users, NEW r,
           user' = [user EXCEPT ![u] = r], UNCHANGED org
    PROVE  Rows' = [Rows EXCEPT ![<<"user", u>>] = r]
<1>1. <<"user", u>> \in Principal
  BY Zenon DEF Principal
<1>2. ASSUME NEW q \in Principal
      PROVE  RowOf(q)' = IF q = <<"user", u>> THEN r ELSE RowOf(q)
  <2>1. CASE q \in {"user"} \X Users
    BY <2>1, SMTT(40) DEF RowOf, TypeInv, TypeOK
  <2>2. CASE q \in {"org"} \X Orgs
    BY <2>2, SMTT(40) DEF RowOf, TypeInv, TypeOK
  <2>. QED
    BY <2>1, <2>2, Zenon DEF Principal
<1>3. Rows' = [q \in Principal |-> IF q = <<"user", u>> THEN r ELSE RowOf(q)]
  BY <1>2, Zenon DEF Rows
<1>. QED
  BY <1>1, <1>3, Zenon DEF Rows

\* The same for an organization.
LEMMA OrgRow ==
    ASSUME TypeInv, NEW o \in Orgs, NEW r,
           org' = [org EXCEPT ![o] = r], UNCHANGED user
    PROVE  Rows' = [Rows EXCEPT ![<<"org", o>>] = r]
<1>1. <<"org", o>> \in Principal
  BY Zenon DEF Principal
<1>2. ASSUME NEW q \in Principal
      PROVE  RowOf(q)' = IF q = <<"org", o>> THEN r ELSE RowOf(q)
  <2>1. CASE q \in {"user"} \X Users
    BY <2>1, SMTT(40) DEF RowOf, TypeInv, TypeOK
  <2>2. CASE q \in {"org"} \X Orgs
    BY <2>2, SMTT(40) DEF RowOf, TypeInv, TypeOK
  <2>. QED
    BY <2>1, <2>2, Zenon DEF Principal
<1>3. Rows' = [q \in Principal |-> IF q = <<"org", o>> THEN r ELSE RowOf(q)]
  BY <1>2, Zenon DEF Rows
<1>. QED
  BY <1>1, <1>3, Zenon DEF Rows

\* What each trigger does when the row of p becomes r.
LEMMA RegisterKeeps ==
    ASSUME TypeInv, Coherent(principals, Rows, usurped),
           NEW p \in Principal, NEW n \in Slugs, NEW r,
           Register(p, n), r.st = "live", r.name = n, UNCHANGED usurped,
           Rows' = [Rows EXCEPT ![p] = r], Rows[p].st # "live"
    PROVE  Coherent(principals', Rows', usurped')
<1>1. principals \in [Slugs -> Principal \cup {None}] /\ None \notin Principal
  BY OrgAssumption, Zenon DEF TypeInv, TypeOK
<1>2. \A m \in Slugs : principals[m] # p
  BY <1>1, OrgAssumption DEF Coherent
<1>3. \A q \in Principal \ {p} : Rows'[q] = Rows[q]
  BY Zenon DEF Rows
<1>4. Rows'[p] = r
  BY Zenon DEF Rows
<1>. QED
  BY <1>1, <1>2, <1>3, <1>4, SMTT(40) DEF Coherent, Register

\* tg_principals_*: a row that is no longer live gives up its slug.
LEMMA DropKeeps ==
    ASSUME TypeInv, Coherent(principals, Rows, usurped),
           NEW p \in Principal, NEW r,
           Drop(p), r.st # "live", usurped' = usurped \ {p},
           Rows' = [Rows EXCEPT ![p] = r]
    PROVE  Coherent(principals', Rows', usurped')
<1>1. principals \in [Slugs -> Principal \cup {None}] /\ None \notin Principal
  BY OrgAssumption, Zenon DEF TypeInv, TypeOK
<1>2. \A q \in Principal \ {p} : Rows'[q] = Rows[q]
  BY Zenon DEF Rows
<1>3. Rows'[p] = r
  BY Zenon DEF Rows
<1>4. \A q \in Principal : Rows[q].st = "live" => Rows[q].name \in Slugs
  BY SMTT(40) DEF Rows, RowOf, TypeInv, TypeOK, Principal, Account, Exists
<1>. QED
  BY <1>1, <1>2, <1>3, <1>4, SMTT(40) DEF Coherent, Drop

\* A row that is live again takes its slug, from whoever has it.
LEMMA ReclaimKeeps ==
    ASSUME TypeInv, Coherent(principals, Rows, usurped),
           NEW p \in Principal, NEW n \in Slugs, NEW r,
           Reclaim(p, n), r.st = "live", r.name = n,
           Rows' = [Rows EXCEPT ![p] = r], Rows[p].st # "live"
    PROVE  Coherent(principals', Rows', usurped')
<1>1. principals \in [Slugs -> Principal \cup {None}] /\ None \notin Principal
  BY OrgAssumption DEF TypeInv, TypeOK
<1>2. \A q \in Principal \ {p} : Rows'[q] = Rows[q]
  BY Zenon DEF Rows
<1>3. Rows'[p] = r
  BY Zenon DEF Rows
<1>4. \A m \in Slugs : principals[m] # p
  BY <1>1 DEF Coherent
<1>. QED
  BY <1>1, <1>2, <1>3, <1>4, SMTT(40) DEF Coherent, Reclaim

\* A live row that gets another name moves its slug.
LEMMA MoveKeeps ==
    ASSUME TypeInv, Coherent(principals, Rows, usurped),
           NEW p \in Principal, NEW n \in Slugs, NEW r,
           Move(p, n), r.st = Rows[p].st, r.name = n, UNCHANGED usurped,
           Rows' = [Rows EXCEPT ![p] = r]
    PROVE  Coherent(principals', Rows', usurped')
<1>1. principals \in [Slugs -> Principal \cup {None}] /\ None \notin Principal
  BY OrgAssumption, Zenon DEF TypeInv, TypeOK
<1>2. \A q \in Principal \ {p} : Rows'[q] = Rows[q]
  BY Zenon DEF Rows
<1>3. Rows'[p] = r
  BY Zenon DEF Rows
<1>4. \A q \in Principal : Rows[q].st = "live" => Rows[q].name \in Slugs
  BY SMTT(40) DEF Rows, RowOf, TypeInv, TypeOK, Principal, Account, Exists
<1>5. CASE \E m \in Slugs : principals[m] = p
  <2>1. /\ principals[n] = None /\ Rows[p].st = "live"
        /\ principals' = [m \in Slugs |-> IF m = n THEN p
                                         ELSE IF principals[m] = p THEN None ELSE principals[m]]
    BY <1>1, <1>5 DEF Move, Coherent
  <2>. QED
    BY <1>1, <1>2, <1>3, <1>4, <2>1, SMTT(40) DEF Coherent
<1>6. CASE ~\E m \in Slugs : principals[m] = p
  <2>1. \A m \in Slugs : principals'[m] = principals[m]
    BY <1>6, Zenon DEF Move
  <2>2. ~(Rows[p].st = "live" /\ p \notin usurped)
    BY <1>4, <1>6, Zenon DEF Coherent
  <2>. QED
    BY <1>1, <1>2, <1>3, <1>4, <1>6, <2>1, <2>2, SMTT(40) DEF Coherent
<1>. QED
  BY <1>5, <1>6, Zenon

\* A step that touches neither names nor principals, or the rows of things that
\* are not live and stay so.
LEMMA DeadRowKeeps ==
    ASSUME TypeInv, Coherent(principals, Rows, usurped),
           NEW p \in Principal, NEW r, Rows[p].st # "live", r.st # "live",
           Rows' = [Rows EXCEPT ![p] = r], UNCHANGED <<principals, usurped>>
    PROVE  Coherent(principals', Rows', usurped')
<1>1. principals \in [Slugs -> Principal \cup {None}] /\ None \notin Principal
  BY OrgAssumption, Zenon DEF TypeInv, TypeOK
<1>2. \A q \in Principal \ {p} : Rows'[q] = Rows[q]
  BY Zenon DEF Rows
<1>3. Rows'[p] = r
  BY Zenon DEF Rows
<1>. QED
  BY <1>1, <1>2, <1>3, SMTT(40) DEF Coherent

\* Every step keeps names coherent.
LEMMA NamesStep ==
    ASSUME TypeInv, TypeInv', NamesResolve, Next
    PROVE  NamesResolve'
<1>. DEFINE U(u) == <<"user", u>>
            G(o) == <<"org", o>>
            Before == Coherent(principals, Rows, usurped)
            After == Coherent(principals', Rows', usurped')
<1>1. Before /\ (After => NamesResolve')
  BY RowsResolve, Zenon
<1>2. /\ \A u \in Users : U(u) \in Principal /\ Rows[U(u)] = user[u]
      /\ \A o \in Orgs : G(o) \in Principal /\ Rows[G(o)] = org[o]
  BY DEF Principal, Rows, RowOf
<1>. HIDE DEF U, G
<1>3. user \in [Users -> Account] /\ org \in [Orgs -> Account]
  BY Zenon DEF TypeInv, TypeOK
<1>4. ASSUME NEW u \in Users, NEW n \in Slugs, Signup(u, n) PROVE After
  <2>. DEFINE r == [st |-> "live", name |-> n]
  <2>1. r.st = "live" /\ r.name = n
    BY Zenon
  <2>2. /\ Rows[U(u)].st # "live" /\ Register(U(u), n) /\ UNCHANGED usurped
        /\ user' = [user EXCEPT ![u] = r] /\ UNCHANGED org
    BY <1>2, <1>4, Zenon DEF Signup, U
  <2>. HIDE DEF r
  <2>3. Rows' = [Rows EXCEPT ![U(u)] = r]
    BY <2>2, UserRow, Zenon DEF U
  <2>. QED
    BY <1>1, <1>2, <2>1, <2>2, <2>3, RegisterKeeps, Zenon
<1>5. ASSUME NEW u \in Users, NEW n \in Slugs, Rename(u, n) PROVE After
  <2>. DEFINE r == [user[u] EXCEPT !.name = n]
  <2>1. r.st = Rows[U(u)].st /\ r.name = n
    BY <1>2, <1>3 DEF Account
  <2>2. /\ Move(U(u), n) /\ UNCHANGED usurped
        /\ user' = [user EXCEPT ![u] = r] /\ UNCHANGED org
    BY <1>5 DEF Rename, U
  <2>. HIDE DEF r
  <2>3. Rows' = [Rows EXCEPT ![U(u)] = r]
    BY <2>2, UserRow, Zenon DEF U
  <2>. QED
    BY <1>1, <1>2, <2>1, <2>2, <2>3, MoveKeeps, Zenon
<1>6. ASSUME NEW u \in Users, DeleteAccount(u) PROVE After
  <2>. DEFINE r == [user[u] EXCEPT !.st = "deleted"]
  <2>1. r.st # "live"
    BY <1>3, Zenon DEF Account
  <2>2. /\ Drop(U(u)) /\ usurped' = usurped \ {U(u)}
        /\ user' = [user EXCEPT ![u] = r] /\ UNCHANGED org
    BY <1>6, Zenon DEF DeleteAccount, U
  <2>. HIDE DEF r
  <2>3. Rows' = [Rows EXCEPT ![U(u)] = r]
    BY <2>2, UserRow, Zenon DEF U
  <2>. QED
    BY <1>1, <1>2, <2>1, <2>2, <2>3, DropKeeps, Zenon
<1>7. ASSUME NEW u \in Users, Login(u) PROVE After
  <2>. DEFINE r == [user[u] EXCEPT !.st = "live"]
  <2>1. r.st = "live" /\ r.name = user[u].name /\ user[u].name \in Slugs
    BY <1>3, <1>7, SMTT(40) DEF Account, Login, TypeInv, TypeOK, Exists
  <2>2. /\ Rows[U(u)].st # "live" /\ Reclaim(U(u), user[u].name)
        /\ user' = [user EXCEPT ![u] = r] /\ UNCHANGED org
    BY <1>2, <1>7, Zenon DEF Login, U
  <2>. HIDE DEF r
  <2>3. Rows' = [Rows EXCEPT ![U(u)] = r]
    BY <2>2, UserRow, Zenon DEF U
  <2>. QED
    BY <1>1, <1>2, <2>1, <2>2, <2>3, ReclaimKeeps, Zenon
<1>8. ASSUME GracePasses PROVE After
  <2>1. ASSUME NEW u \in Users, user[u].st = "deleted",
               user' = [user EXCEPT ![u].st = "expired"], UNCHANGED org
        PROVE  After
    <3>. DEFINE r == [user[u] EXCEPT !.st = "expired"]
    <3>1. r.st # "live" /\ Rows[U(u)].st # "live"
      BY <1>2, <1>3, <2>1 DEF Account
    <3>2. user' = [user EXCEPT ![u] = r]
      BY <2>1
    <3>. HIDE DEF r
    <3>3. Rows' = [Rows EXCEPT ![U(u)] = r]
      BY <2>1, <3>2, UserRow, Zenon DEF U
    <3>. QED
      BY <1>1, <1>2, <1>8, <3>1, <3>3, DeadRowKeeps, Zenon DEF GracePasses
  <2>2. ASSUME NEW o \in Orgs, org[o].st = "deleted",
               org' = [org EXCEPT ![o].st = "expired"], UNCHANGED user
        PROVE  After
    <3>. DEFINE r == [org[o] EXCEPT !.st = "expired"]
    <3>1. r.st # "live" /\ Rows[G(o)].st # "live"
      BY <1>2, <1>3, <2>2 DEF Account
    <3>2. org' = [org EXCEPT ![o] = r]
      BY <2>2, Zenon
    <3>. HIDE DEF r
    <3>3. Rows' = [Rows EXCEPT ![G(o)] = r]
      BY <2>2, <3>2, OrgRow, Zenon DEF G
    <3>. QED
      BY <1>1, <1>2, <1>8, <3>1, <3>3, DeadRowKeeps, Zenon DEF GracePasses
  <2>. QED
    BY <1>8, <2>1, <2>2, Zenon DEF GracePasses
<1>9. ASSUME NEW o \in Orgs, NEW n \in Slugs, NEW u \in Users, Create(o, n, u) PROVE After
  <2>. DEFINE r == [st |-> "live", name |-> n]
  <2>1. r.st = "live" /\ r.name = n
    OBVIOUS
  <2>2. /\ Rows[G(o)].st # "live" /\ Register(G(o), n) /\ UNCHANGED usurped
        /\ org' = [org EXCEPT ![o] = r] /\ UNCHANGED user
    BY <1>2, <1>9, Zenon DEF Create, G
  <2>. HIDE DEF r
  <2>3. Rows' = [Rows EXCEPT ![G(o)] = r]
    BY <2>2, OrgRow, Zenon DEF G
  <2>. QED
    BY <1>1, <1>2, <2>1, <2>2, <2>3, RegisterKeeps, Zenon
<1>10. ASSUME UNCHANGED names PROVE After
  BY <1>1, <1>10, Zenon DEF names, Rows, RowOf
<1>11. ASSUME NEW s \in Procs, SoftDeleteWrite(s) PROVE After
  <2>. DEFINE o == proc[s].on
              r == [org[o] EXCEPT !.st = "deleted"]
  <2>1. o \in Orgs
    BY <1>11, Zenon DEF SoftDeleteWrite, At, TypeInv, Sounds, Sound
  <2>2. CASE Exists(org[o])
    <3>1. r.st # "live"
      BY <1>3, <2>1 DEF Account
    <3>2. /\ Drop(G(o)) /\ usurped' = usurped \ {G(o)}
          /\ org' = [org EXCEPT ![o] = r] /\ UNCHANGED user
      BY <1>11, <2>2, Zenon DEF SoftDeleteWrite, G
    <3>. HIDE DEF r, o
    <3>3. Rows' = [Rows EXCEPT ![G(o)] = r]
      BY <2>1, <3>2, OrgRow, Zenon DEF G
    <3>. QED
      BY <1>1, <1>2, <2>1, <3>1, <3>2, <3>3, DropKeeps, Zenon
  <2>3. CASE ~Exists(org[o])
    BY <1>10, <1>11, <2>3 DEF SoftDeleteWrite, names
  <2>. QED
    BY <2>2, <2>3, Zenon
<1>12. ASSUME NEW s \in Procs, RestoreWrite(s) PROVE After
  <2>. DEFINE o == proc[s].on
              r == [org[o] EXCEPT !.st = "live"]
  <2>1. o \in Orgs
    BY <1>12, Zenon DEF RestoreWrite, At, TypeInv, Sounds, Sound
  <2>2. CASE Fallen(org[o])
    <3>1. r.st = "live" /\ r.name = org[o].name /\ org[o].name \in Slugs
      BY <1>3, <2>1, <2>2, SMTT(40) DEF Account, TypeInv, TypeOK, Exists, Fallen
    <3>2. /\ Rows[G(o)].st # "live" /\ Reclaim(G(o), org[o].name)
          /\ org' = [org EXCEPT ![o] = r] /\ UNCHANGED user
      BY <1>2, <1>12, <2>1, <2>2, Zenon DEF RestoreWrite, G, Fallen
    <3>. HIDE DEF r, o
    <3>3. Rows' = [Rows EXCEPT ![G(o)] = r]
      BY <2>1, <3>2, OrgRow, Zenon DEF G
    <3>. QED
      BY <1>1, <1>2, <2>1, <3>1, <3>2, <3>3, ReclaimKeeps, Zenon
  <2>3. CASE ~Fallen(org[o])
    BY <1>10, <1>12, <2>3 DEF RestoreWrite, names
  <2>. QED
    BY <2>2, <2>3, Zenon
<1>13. ASSUME NEW s \in Procs, HardDelete(s) PROVE After
  <2>. DEFINE o == proc[s].on
              r == [st |-> "gone", name |-> None]
  <2>1. o \in Orgs
    BY <1>13, Zenon DEF HardDelete, At, TypeInv, Sounds, Sound
  <2>2. r.st # "live"
    BY Zenon
  <2>3. /\ Drop(G(o)) /\ usurped' = usurped \ {G(o)}
        /\ org' = [org EXCEPT ![o] = r] /\ UNCHANGED user
    BY <1>13, Zenon DEF HardDelete, G
  <2>. HIDE DEF r, o
  <2>4. Rows' = [Rows EXCEPT ![G(o)] = r]
    BY <2>1, <2>3, OrgRow, Zenon DEF G
  <2>. QED
    BY <1>1, <1>2, <2>1, <2>2, <2>3, <2>4, DropKeeps, ZenonT(30)
<1>14. CASE Naming
  <2>1. ASSUME NEW s \in Procs, NEW o \in Orgs,
               SoftDelete(s, o) \/ Restore(s, o) \/ SweepList(s, o)
        PROVE  UNCHANGED names
    BY <2>1, Zenon DEF SoftDelete, Restore, SweepList
  <2>. QED
    BY <1>1, <1>4, <1>5, <1>6, <1>7, <1>8, <1>9, <1>10, <1>11, <1>12, <1>13, <1>14, <2>1, Zenon DEF Naming
<1>15. CASE Membership \/ Inviting
  <2>1. UNCHANGED names
    BY <1>15, Zenon DEF Membership, Inviting, AddMember, ChangeRead, ChangeCount, ChangeWrite,
                 Invite, InviteWrite, Answer, AnswerWrite, Expire
  <2>. QED
    BY <1>1, <1>10, <2>1, Zenon
<1>. QED
  BY <1>14, <1>15, Zenon DEF Next

\* The triggers keep principals coherent: whatever order sign-ups, renames,
\* deletions, restores and sweeps come in, a slug leads to the live row of that
\* name, and every live row is reached unless an un-delete took its slug.
THEOREM NamesCoherent == Spec => []NamesResolve
<1>1. Init => NamesResolve
  BY OrgAssumption, SMTT(40) DEF Init, NamesResolve, RowOf, Principal
<1>2. TypeInv /\ TypeInv' /\ NamesResolve /\ [Next]_vars => NamesResolve'
  <2>1. CASE UNCHANGED vars
    BY <2>1, Zenon DEF vars, NamesResolve, RowOf
  <2>. QED
    BY <2>1, NamesStep, Zenon
<1>. QED
  BY <1>1, <1>2, TypeInvKept, PTL DEF Spec
=============================================================================
