--------------------------- MODULE RepoDataProofs ---------------------------
(***************************************************************************)
(* The invariant of RepoLifecycle while the history is clean, for every    *)
(* set of repositories, owners, names, transfers and sessions: the types,  *)
(* what every session relies on, and where the data of every repository    *)
(* is; what a step may do without breaking it; and that the creation of a  *)
(* repository does not.                                                    *)
(*                                                                         *)
(* A step of one session is local: it changes rows and directories of a    *)
(* few places only, and a session that relies on a place keeps others away *)
(* from it, by the lock or, for the steps without the lock, because the    *)
(* history is clean.  What a session relies on (Fits) is stated of a       *)
(* record, rows R, places C and tombstones T, so that it can be spoken of  *)
(* before and after a step.                                                *)
(***************************************************************************)
EXTENDS RepoLifecycle, TLAPS

-----------------------------------------------------------------------------
(* Kinds of steps *)

In(k) == k.pc \in {"createInit", "createDisplace", "createReinit", "createCommit"}
Del(k) == k.pc \in {"hardRemove", "hardCommit"}
Burying(k) == k.pc \in {"softDeleteCommit", "softDeleteUndo"}
Raising(k) == k.pc \in {"restoreCommit", "restoreUndo"}
Rel(k) == k.pc \in {"renameMove", "renameUndo", "transferMove"}
Reader(k) == k.pc \in {"softDelete", "restore", "hardDelete", "renameCommit"}
Keyed(k) == Reader(k) \/ Del(k) \/ Burying(k) \/ Raising(k)

\* With the lock, and without it.
Holder(k) == In(k) \/ Del(k) \/ k.pc \in {"softDeleteCommit", "restoreCommit"}
Loose(k) == Rel(k) \/ k.pc \in {"createUndo", "softDeleteUndo", "restoreUndo"}
Firm(k) == Holder(k) \/ Loose(k)

\* The places a session relies on.
Places(k) == IF Rel(k) THEN {k.at, k.to} ELSE {k.at}

-----------------------------------------------------------------------------
(* Types *)

\* A session that is under way has a repository and a place, and what its step
\* needs besides.
Sound(k) ==
    k.pc # "idle" =>
        /\ k.r \in Repos /\ k.at \in Place
        /\ IF Rel(k) \/ k.pc = "renameCommit" THEN k.to \in Place /\ k.lock = None ELSE k.to = None
        /\ k.pc \in {"renameCommit", "renameMove", "renameUndo"} => k.to[1] = k.at[1]
        /\ k.pc = "softDelete" => k.del = NotDeleted
        /\ Holder(k) => k.lock = k.at
        /\ k.lock # None => k.lock = k.at

\* A transfer that can be accepted has a repository and a new owner.
Meant(x) == x.st = "pending" => x.r \in Repos /\ x.to \in Owners

RowOK ==
    /\ row \in [Repos -> Row]
    /\ \A r \in Repos : Exists(r) => row[r].at # None
MetaOK ==
    /\ redirect \in [Place -> Dir]
    /\ xfer \in [Transfers -> Transfer] /\ \A t \in Transfers : Meant(xfer[t])
DiskOK == canon \in [Place -> Dir] /\ tomb \in [Owners \X Repos -> Dir]
SessOK == sess \in [Sessions -> Session] /\ \A s \in Sessions : Sound(sess[s])
HistOK == faults \in 0 .. MaxFaults /\ acked \subseteq Repos /\ clean \in BOOLEAN

TypeInv == RowOK /\ MetaOK /\ DiskOK /\ SessOK /\ HistOK

\* The groups are the type invariant.
LEMMA TypeGroups == TypeInv => TypeOK
BY Zenon DEF TypeInv, RowOK, MetaOK, DiskOK, SessOK, HistOK, TypeOK

\* w is the record k at another step.
Heir(w, k, pc, lock) ==
    /\ w \in Session /\ w.pc = pc /\ w.lock = lock
    /\ w.r = k.r /\ w.at = k.at /\ w.to = k.to /\ w.del = k.del

\* w is the record of a session that begins.
Newborn(w, pc, r, at, to, del, lock) ==
    /\ w \in Session /\ w.pc = pc /\ w.lock = lock
    /\ w.r = r /\ w.at = at /\ w.to = to /\ w.del = del

\* A session at rest.
LEMMA IdleWork ==
    /\ Idle \in Session /\ Sound(Idle) /\ Idle.pc = "idle" /\ Idle.lock = None
    /\ Idle.r = None /\ Idle.at = None /\ Idle.to = None /\ Idle.del = NotDeleted
<1>. "idle" \in Steps /\ NotDeleted \in Age \cup {NotDeleted}
  BY Zenon DEF Steps
<1>. QED
  BY Zenon DEF Idle, Session, Sound, Dir

\* Go moves the step and nothing else.
LEMMA GoWork ==
    ASSUME NEW k \in Session, NEW pc \in Steps
    PROVE  Heir([k EXCEPT !.pc = pc], k, pc, k.lock)
BY Zenon DEF Heir, Session

\* The end of a transaction gives up the lock.
LEMMA FreeWork ==
    ASSUME NEW k \in Session, NEW pc \in Steps
    PROVE  Heir([k EXCEPT !.pc = pc, !.lock = None], k, pc, None)
BY Zenon DEF Heir, Session

\* Soft delete and restore take the lock on the place they have read.
LEMMA HoldWork ==
    ASSUME NEW k \in Session, NEW pc \in Steps, NEW moved \in BOOLEAN, k.at \in Place
    PROVE  Heir([k EXCEPT !.pc = pc, !.lock = k.at, !.moved = moved], k, pc, k.at)
BY Zenon DEF Heir, Session

\* So does a hard delete, which also notes whether the name is in use.
LEMMA EraseWork ==
    ASSUME NEW k \in Session, NEW pc \in Steps, NEW active \in BOOLEAN, k.at \in Place
    PROVE  /\ Heir([k EXCEPT !.pc = pc, !.lock = k.at, !.active = active], k, pc, k.at)
           /\ [k EXCEPT !.pc = pc, !.lock = k.at, !.active = active].active = active
BY Zenon DEF Heir, Session

\* A Create begins.
LEMMA CreateWork ==
    ASSUME NEW r \in Repos, NEW p \in Place
    PROVE  Newborn([Idle EXCEPT !.pc = "createInit", !.r = r, !.at = p, !.lock = p],
                   "createInit", r, p, None, NotDeleted, p)
<1>. "createInit" \in Steps /\ NotDeleted \in Age \cup {NotDeleted}
  BY Zenon DEF Steps
<1>. QED
  BY Zenon DEF Newborn, Idle, Session, Dir

\* A deletion or a restore has read its row.
LEMMA ReadWork ==
    ASSUME NEW pc \in Steps, NEW r \in Repos, NEW p \in Place, NEW del \in Age \cup {NotDeleted}
    PROVE  Newborn([Idle EXCEPT !.pc = pc, !.r = r, !.at = p, !.del = del],
                   pc, r, p, None, del, None)
BY Zenon DEF Newborn, Idle, Session, Dir

\* A rename has read its row, a transfer has committed.
LEMMA MoveWork ==
    ASSUME NEW pc \in Steps, NEW r \in Repos, NEW p \in Place, NEW q \in Place
    PROVE  Newborn([Idle EXCEPT !.pc = pc, !.r = r, !.at = p, !.to = q],
                   pc, r, p, q, NotDeleted, None)
<1>. NotDeleted \in Age \cup {NotDeleted}
  BY Zenon DEF NotDeleted
<1>. QED
  BY Zenon DEF Newborn, Idle, Session, Dir

-----------------------------------------------------------------------------
(* What the updates of rows and directories do *)

\* R2 is R but for the row of r.
Differs(R, R2, r) == R2 \in [Repos -> Row] /\ \A x \in Repos : x # r => R2[x] = R[x]

\* C2 is C with d at the place p; T2 is T with d at the tombstone t.
Puts(C, C2, p, d) == C2 \in [Place -> Dir] /\ C2[p] = d /\ \A q \in Place : q # p => C2[q] = C[q]
Lays(T, T2, t, d) ==
    /\ T2 \in [Owners \X Repos -> Dir] /\ T2[t] = d
    /\ \A u \in Owners \X Repos : u # t => T2[u] = T[u]

\* C2 is C with what was at p at q.
Shifts(C, C2, p, q) ==
    /\ C2 \in [Place -> Dir] /\ C2[p] = None /\ C2[q] = C[p]
    /\ \A x \in Place : x # p /\ x # q => C2[x] = C[x]

\* A Create that fails and a hard delete.
LEMMA SpendRow ==
    ASSUME NEW R \in [Repos -> Row], NEW r \in Repos
    PROVE  LET R2 == [R EXCEPT ![r].st = "gone"]
           IN  Differs(R, R2, r) /\ R2[r].st = "gone" /\ R2[r].at = R[r].at /\ R2[r].del = R[r].del
BY SMT DEF Differs, Row

\* The INSERT of a Create.
LEMMA InsertRow ==
    ASSUME NEW R \in [Repos -> Row], NEW r \in Repos, NEW p \in Place
    PROVE  LET R2 == [R EXCEPT ![r] = [st |-> "row", at |-> p, del |-> NotDeleted]]
           IN  Differs(R, R2, r) /\ R2[r].st = "row" /\ R2[r].at = p /\ R2[r].del = NotDeleted
BY Zenon DEF Differs, Row

\* A rename, its compensation and a transfer.
LEMMA PlaceRow ==
    ASSUME RowOK, NEW r \in Repos, NEW q \in Place, row' = [row EXCEPT ![r].at = q]
    PROVE  /\ Differs(row, row', r) /\ row'[r].st = row[r].st /\ row'[r].at = q
           /\ row'[r].del = row[r].del /\ q # None
<1>. q # None
  BY LifecycleAssumption, Zenon DEF Place
<1>. QED
  BY Zenon DEF Differs, Row, RowOK

\* Soft delete, restore and force delete.
LEMMA DeletedRow ==
    ASSUME RowOK, NEW r \in Repos, NEW d \in Age \cup {NotDeleted}, SetDeleted(r, d)
    PROVE  /\ Differs(row, row', r) /\ row'[r].st = row[r].st /\ row'[r].at = row[r].at
           /\ Exists(r) => row'[r].del = d
           /\ ~Exists(r) => row'[r].del = row[r].del
BY Zenon DEF Differs, Row, RowOK, SetDeleted, Exists

\* A row that exists has a place.
LEMMA RowPlace ==
    ASSUME RowOK, NEW r \in Repos, Exists(r)
    PROVE  row[r].at \in Place /\ row[r].del \in Age \cup {NotDeleted}
BY Zenon DEF RowOK, Row

\* One row changes and has a place if it exists.
LEMMA RowStep ==
    ASSUME RowOK, NEW r \in Repos, Differs(row, row', r), row'[r].st = "row" => row'[r].at # None
    PROVE  RowOK'
BY Zenon DEF RowOK, Differs, Exists

\* Place and tombstone are paths of one owner.
LEMMA TombPath ==
    ASSUME NEW p \in Place, NEW r \in Repos
    PROVE  Tomb(p, r) \in Owners \X Repos /\ Tomb(p, r) = <<p[1], r>> /\ p[1] \in Owners
BY Zenon DEF Tomb, Place

\* The moves of a directory and its removal.
LEMMA BuryDisk ==
    ASSUME DiskOK, NEW p \in Place, NEW t \in Owners \X Repos, Bury(p, t)
    PROVE  Puts(canon, canon', p, None) /\ Lays(tomb, tomb', t, canon[p])
BY Zenon DEF DiskOK, Bury, Puts, Lays, Dir

\* Moving a tombstone back changes its place and the tombstone.
LEMMA UnburyDisk ==
    ASSUME DiskOK, NEW p \in Place, NEW t \in Owners \X Repos, Unbury(t, p)
    PROVE  Puts(canon, canon', p, tomb[t]) /\ Lays(tomb, tomb', t, None)
BY Zenon DEF DiskOK, Unbury, Puts, Lays, Dir

\* Moving a directory changes the two places.
LEMMA ShiftDisk ==
    ASSUME DiskOK, NEW p \in Place, NEW q \in Place, p # q, Shift(p, q)
    PROVE  Shifts(canon, canon', p, q)
BY Zenon DEF DiskOK, Shift, Shifts, Dir

\* A directory that appears or goes at a place changes that place.
LEMMA PutDisk ==
    ASSUME DiskOK, NEW p \in Place, NEW d \in Dir, canon' = [canon EXCEPT ![p] = d]
    PROVE  Puts(canon, canon', p, d)
BY Zenon DEF DiskOK, Puts

\* A tombstone that appears or goes changes that tombstone.
LEMMA LayDisk ==
    ASSUME DiskOK, NEW t \in Owners \X Repos, NEW d \in Dir, tomb' = [tomb EXCEPT ![t] = d]
    PROVE  Lays(tomb, tomb', t, d)
BY Zenon DEF DiskOK, Lays

-----------------------------------------------------------------------------
(* The invariant of a clean history *)

Up(R, r) == R[r].st = "row"
On(R, r) == R[r].st = "row" /\ R[r].del = NotDeleted

\* No live repository is at p; none but r.
Vacant(R, p) == \A x \in Repos : ~(On(R, x) /\ R[x].at = p)
Only(R, p, r) == \A x \in Repos : On(R, x) /\ R[x].at = p => x = r

\* The tombstones of r hold nothing but its data.
Pure(T, r) == \A o \in Owners : T[<<o, r>>] \in {r, None}

\* What a session relies on.
Fits(k, R, C, T) ==
    /\ In(k) => R[k.r].st = "none" /\ Vacant(R, k.at)
    /\ k.pc = "createUndo" => R[k.r].st = "gone"
    /\ Keyed(k) => R[k.r].st # "none" /\ R[k.r].at = k.at
    /\ Rel(k) => On(R, k.r) /\ R[k.r].at = k.to /\ Only(R, k.at, k.r)
    /\ Del(k) \/ Burying(k) \/ Raising(k) => Up(R, k.r)
    /\ Del(k) => R[k.r].del >= Grace
    /\ k.pc = "hardRemove" /\ ~k.active => Vacant(R, k.at)
    /\ Burying(k) => Only(R, k.at, k.r) /\ T[Tomb(k.at, k.r)] = k.r /\ Pure(T, k.r)
    /\ Raising(k) => Vacant(R, k.at) /\ C[k.at] = k.r /\ Pure(T, k.r)
    /\ Rel(k) \/ k.pc \in {"createCommit", "createUndo"} => C[k.at] = k.r

\* Two sessions at once: they hold different locks, one without the lock has its
\* places for itself, and neither inserts or deletes the other's row.
Compatible(j, k) ==
    /\ j.lock = None \/ j.lock # k.lock
    /\ (Loose(j) \/ Loose(k)) /\ j.pc # "idle" /\ k.pc # "idle" => Places(j) \cap Places(k) = {}
    /\ In(j) /\ In(k) => j.r # k.r
    /\ Del(j) /\ Del(k) => j.r # k.r

Fitting(R, C, T, S) == \A s \in Sessions : Fits(S[s], R, C, T)
Mutual(S) == \A s, t \in Sessions : s # t => Compatible(S[s], S[t])

\* The partial unique index.
OneLive(R) == \A x, y \in Repos : On(R, x) /\ On(R, y) /\ R[x].at = R[y].at => x = y

\* The data of a repository is in one directory.
Uniq(C, T) ==
    /\ \A p, q \in Place : C[p] # None /\ C[p] = C[q] => p = q
    /\ \A t, u \in Owners \X Repos : T[t] # None /\ T[t] = T[u] => t = u
    /\ \A p \in Place, t \in Owners \X Repos : C[p] # None => C[p] # T[t]

\* An id that was not inserted has no tombstone and no data but that of the
\* Create that is about to commit it.
Unborn(R, C, T, S) ==
    \A r \in Repos : R[r].st = "none" =>
        /\ \A o \in Owners : T[<<o, r>>] = None
        /\ \A t \in Owners \X Repos : T[t] # r
        /\ \A p \in Place : C[p] = r => \E s \in Sessions : S[s].pc = "createCommit" /\ S[s].r = r

\* r is in the middle of a relocation.
Underway(S, r) == \E s \in Sessions : S[s].r = r /\ Rel(S[s])

\* The data of r is where the code looks for it, and nothing else is.
Kept(r, R, C, T, S) ==
    Up(R, r) /\ R[r].del < Grace =>
        /\ Pure(T, r)
        /\ C[R[r].at] = r \/ T[Tomb(R[r].at, r)] = r \/ Underway(S, r)
Own(r, R, C, S) == On(R, r) /\ ~Underway(S, r) => C[R[r].at] \in {r, None}
Settled(r, R, C, T, S) == Kept(r, R, C, T, S) /\ Own(r, R, C, S)

Good(R, C, T, S) ==
    /\ Fitting(R, C, T, S) /\ Mutual(S) /\ OneLive(R) /\ Uniq(C, T) /\ Unborn(R, C, T, S)
    /\ \A r \in Repos : Settled(r, R, C, T, S)

Inv == TypeInv /\ (clean => Good(row, canon, tomb, sess))

\* A live repository is within its grace.
LEMMA OnGrace ==
    ASSUME NEW R, NEW x, On(R, x)
    PROVE  Up(R, x) /\ R[x].del < Grace
BY LifecycleAssumption DEF On, Up, NotDeleted

-----------------------------------------------------------------------------
(* Steps are local *)

\* Rows, directories and sessions of their types.
Rows(R) == R \in [Repos -> Row] /\ \A r \in Repos : Up(R, r) => R[r].at \in Place
Disk(C, T) == C \in [Place -> Dir] /\ T \in [Owners \X Repos -> Dir]
Team(S) == S \in [Sessions -> Session] /\ \A s \in Sessions : Sound(S[s])

\* What a step of a clean history starts from.
Sane(R, C, T, S) == Rows(R) /\ Team(S) /\ Good(R, C, T, S)

\* S2 is S but for session s, which is w now.
Turns(S, S2, s, w) == Team(S2) /\ S2[s] = w /\ \A t \in Sessions : t # s => S2[t] = S[t]

\* Outside of P the places stay; a row that changes is the one a Create inserts
\* or was at P, and is at P if it still exists; so for tombstones.
Local(R, C, T, R2, C2, T2, k, P) ==
    /\ \A p \in Place : p \notin P => C2[p] = C[p]
    /\ \A r \in Repos : R2[r] = R[r] \/ (In(k) /\ r = k.r) \/ (Up(R, r) /\ R[r].at \in P)
    /\ \A r \in Repos : Up(R2, r) => R2[r] = R[r] \/ R2[r].at \in P
    /\ \A r \in Repos : (\A o \in Owners : T2[<<o, r>>] = T[<<o, r>>]) \/ (Up(R, r) /\ R[r].at \in P)

\* The step has nothing to do with what the session k relies on.
Spares(k, R, R2, P) ==
    /\ Firm(k) => Places(k) \cap P = {}
    /\ Reader(k) => R2[k.r].st # "none" /\ R2[k.r].at = R[k.r].at

\* A session under way is a reader or firm.
LEMMA Kinds ==
    ASSUME NEW k \in Session
    PROVE  k.pc = "idle" \/ Reader(k) \/ Firm(k)
BY Zenon DEF Session, Steps, Reader, Firm, Holder, Loose, In, Del, Rel

\* Compatibility does not depend on the order.
LEMMA CompatibleBack ==
    ASSUME NEW j, NEW k, Compatible(j, k)
    PROVE  Compatible(k, j)
BY Zenon DEF Compatible

\* Nothing is asked of a session at rest.
LEMMA IdleFits ==
    ASSUME NEW R, NEW C, NEW T, NEW k
    PROVE  Fits(Idle, R, C, T) /\ Compatible(Idle, k)
BY IdleWork, Zenon DEF Fits, Compatible, In, Keyed, Reader, Del, Burying, Raising, Rel, Loose

\* Two sessions that rely on places rely on different ones.
LEMMA FirmApart ==
    ASSUME NEW j \in Session, NEW k \in Session, Sound(j), Sound(k), Firm(j), Firm(k),
           Compatible(j, k)
    PROVE  Places(j) \cap Places(k) = {}
<1>. j.pc # "idle" /\ k.pc # "idle"
  BY Zenon DEF Firm, Holder, Loose, In, Del, Rel
<1>. CASE Loose(j) \/ Loose(k)
  BY Zenon DEF Compatible
<1>. CASE ~Loose(j) /\ ~Loose(k)
  <2>. Holder(j) /\ Holder(k) /\ ~Rel(j) /\ ~Rel(k)
    BY Zenon DEF Firm, Loose
  <2>. j.lock = j.at /\ k.lock = k.at /\ j.at # None
    BY LifecycleAssumption, Zenon DEF Sound, Place
  <2>. QED
    BY Zenon DEF Places, Compatible
<1>. QED  BY Zenon

\* What a firm session relies on stays.
LEMMA FirmStays ==
    ASSUME NEW R, Rows(R), NEW C, NEW T, NEW R2, NEW C2, NEW T2, NEW P,
           NEW j \in Session, Sound(j), NEW k \in Session, Sound(k),
           Fits(j, R, C, T), Fits(k, R, C, T), Compatible(j, k),
           Local(R, C, T, R2, C2, T2, j, P), Firm(k), Places(k) \cap P = {}
    PROVE  Fits(k, R2, C2, T2)
<1>. k.pc # "idle" /\ k.r \in Repos /\ k.at \in Place /\ k.at \notin P /\ (Rel(k) => k.to \notin P)
  BY Zenon DEF Firm, Holder, Loose, In, Del, Rel, Sound, Places
<1>. ~(In(j) /\ j.r = k.r) \/ ~(In(k) \/ k.pc = "createUndo" \/ Keyed(k) \/ Rel(k))
  <2>. CASE In(k)
    BY Zenon DEF Compatible
  <2>. CASE In(j) /\ ~In(k)
    <3>. R[j.r].st = "none"
      BY Zenon DEF Fits
    <3>. k.pc = "createUndo" \/ Keyed(k) \/ Rel(k) => R[k.r].st # "none"
      BY Zenon DEF Fits, On
    <3>. QED  BY Zenon
  <2>. QED  BY Zenon
<1>. In(k) \/ k.pc = "createUndo" \/ Keyed(k) \/ Rel(k)
  BY Zenon DEF Firm, Holder, Loose, Keyed, Burying, Raising
<1>. R2[k.r] = R[k.r] /\ \A o \in Owners : T2[<<o, k.r>>] = T[<<o, k.r>>]
  <2>. ~(Up(R, k.r) /\ R[k.r].at \in P)
    <3>. In(k) \/ k.pc = "createUndo" => ~Up(R, k.r)
      BY Zenon DEF Fits, Up
    <3>. Keyed(k) => R[k.r].at = k.at
      BY Zenon DEF Fits
    <3>. Rel(k) => R[k.r].at = k.to
      BY Zenon DEF Fits
    <3>. QED  BY Zenon
  <2>. QED  BY Zenon DEF Local
<1>. C2[k.at] = C[k.at]
  BY Zenon DEF Local
<1>. \A x \in Repos : On(R2, x) /\ R2[x].at = k.at => On(R, x) /\ R[x].at = k.at
  BY Zenon DEF Local, On, Up
<1>. (Vacant(R, k.at) => Vacant(R2, k.at)) /\ (Only(R, k.at, k.r) => Only(R2, k.at, k.r))
  BY Zenon DEF Vacant, Only
<1>. T2[Tomb(k.at, k.r)] = T[Tomb(k.at, k.r)]
  BY TombPath, Zenon
<1>. Pure(T, k.r) => Pure(T2, k.r)
  BY Zenon DEF Pure
<1>. (On(R, k.r) => On(R2, k.r)) /\ (Up(R, k.r) => Up(R2, k.r))
  BY Zenon DEF On, Up
<1>. QED
  BY Zenon DEF Fits

\* What a reader relies on is the place of its row.
LEMMA ReaderStays ==
    ASSUME NEW R, NEW C, NEW T, NEW R2, NEW C2, NEW T2, NEW k \in Session, Reader(k),
           Fits(k, R, C, T), R2[k.r].st # "none", R2[k.r].at = R[k.r].at
    PROVE  Fits(k, R2, C2, T2)
<1>. ~In(k) /\ k.pc # "createUndo" /\ ~Rel(k) /\ ~Del(k) /\ k.pc # "hardRemove"
      /\ ~Burying(k) /\ ~Raising(k) /\ k.pc # "createCommit" /\ Keyed(k)
  BY Zenon DEF Reader, In, Rel, Del, Burying, Raising, Keyed
<1>. QED
  BY Zenon DEF Fits

\* All the others fit as before.
LEMMA FittingStep ==
    ASSUME NEW R, NEW C, NEW T, NEW S, Sane(R, C, T, S),
           NEW R2, NEW C2, NEW T2, NEW S2, NEW s \in Sessions, NEW w, Turns(S, S2, s, w), NEW P,
           Local(R, C, T, R2, C2, T2, S[s], P),
           \A t \in Sessions : t # s => Spares(S[t], R, R2, P),
           Fits(w, R2, C2, T2)
    PROVE  Fitting(R2, C2, T2, S2)
<1>1. SUFFICES ASSUME NEW t \in Sessions, t # s PROVE Fits(S2[t], R2, C2, T2)
  BY Zenon DEF Fitting, Turns
<1>2. S2[t] = S[t] /\ S[t] \in Session /\ Sound(S[t]) /\ S[s] \in Session /\ Sound(S[s])
  BY <1>1, Zenon DEF Turns, Team, Sane
<1>3. Fits(S[t], R, C, T) /\ Fits(S[s], R, C, T) /\ Compatible(S[s], S[t])
  BY <1>1, Zenon DEF Sane, Good, Fitting, Mutual
<1>4. Spares(S[t], R, R2, P)
  BY <1>1, Zenon
<1>5. CASE S[t].pc = "idle"
  BY <1>2, <1>5, Zenon DEF Fits, In, Keyed, Reader, Del, Burying, Raising, Rel
<1>6. CASE Reader(S[t])
  BY <1>2, <1>3, <1>4, <1>6, ReaderStays, Zenon DEF Spares
<1>7. CASE Firm(S[t])
  BY <1>2, <1>3, <1>4, <1>7, FirmStays, Zenon DEF Spares, Sane
<1>. QED  BY <1>2, <1>5, <1>6, <1>7, Kinds, Zenon

\* The sessions stay compatible when s is.
LEMMA MutualStep ==
    ASSUME NEW S, Mutual(S), NEW S2, NEW s \in Sessions, NEW w, Turns(S, S2, s, w),
           \A t \in Sessions : t # s => Compatible(w, S[t])
    PROVE  Mutual(S2)
<1>. SUFFICES ASSUME NEW t \in Sessions, NEW u \in Sessions, t # u
              PROVE  Compatible(S2[t], S2[u])
  BY Zenon DEF Mutual
<1>. CASE t = s
  BY Zenon DEF Turns
<1>. CASE u = s
  BY CompatibleBack, Zenon DEF Turns
<1>. CASE t # s /\ u # s
  BY Zenon DEF Turns, Mutual
<1>. QED  BY Zenon

\* A relocation ends where s takes a step from it.
LEMMA UnderwayStep ==
    ASSUME NEW S, NEW S2, NEW s \in Sessions, NEW w, Turns(S, S2, s, w), NEW r \in Repos,
           ~(S[s].r = r /\ Rel(S[s])), Underway(S, r)
    PROVE  Underway(S2, r)
BY Zenon DEF Underway, Turns

\* The data of repositories elsewhere is where it was.
LEMMA SettledStep ==
    ASSUME NEW R, NEW C, NEW T, NEW S, Sane(R, C, T, S),
           NEW R2, NEW C2, NEW T2, NEW S2, NEW s \in Sessions, NEW w, Turns(S, S2, s, w), NEW P,
           Local(R, C, T, R2, C2, T2, S[s], P), Rel(S[s]) => S[s].to \in P,
           NEW r \in Repos, Up(R2, r), R2[r].at \notin P
    PROVE  Settled(r, R2, C2, T2, S2)
<1>. R2[r] = R[r] /\ Up(R, r) /\ R[r].at \notin P /\ R[r].at \in Place
  BY Zenon DEF Local, Up, Rows, Sane
<1>. C2[R[r].at] = C[R[r].at] /\ \A o \in Owners : T2[<<o, r>>] = T[<<o, r>>]
  BY Zenon DEF Local
<1>. T2[Tomb(R[r].at, r)] = T[Tomb(R[r].at, r)] /\ (Pure(T, r) => Pure(T2, r))
  BY TombPath, Zenon DEF Pure
<1>. ~(S[s].r = r /\ Rel(S[s]))
  BY Zenon DEF Sane, Good, Fitting, Fits
<1>. Underway(S, r) => Underway(S2, r)
  BY UnderwayStep, Zenon
<1>. Settled(r, R, C, T, S)
  BY Zenon DEF Sane, Good
<1>. (On(R2, r) => On(R, r)) /\ R2[r].at = R[r].at /\ R2[r].del = R[r].del
  BY Zenon DEF On
<1>. QED
  BY Zenon DEF Settled, Kept, Own

\* A step that is local to P keeps the invariant if it does at P.
LEMMA Framed ==
    ASSUME NEW R, NEW C, NEW T, NEW S, Sane(R, C, T, S),
           NEW R2, NEW C2, NEW T2, NEW S2, NEW s \in Sessions, NEW w, Turns(S, S2, s, w), NEW P,
           Local(R, C, T, R2, C2, T2, S[s], P), Rel(S[s]) => S[s].to \in P,
           \A t \in Sessions : t # s => Spares(S[t], R, R2, P) /\ Compatible(w, S[t]),
           Fits(w, R2, C2, T2), OneLive(R2), Uniq(C2, T2), Unborn(R2, C2, T2, S2),
           \A r \in Repos : Up(R2, r) /\ R2[r].at \in P => Settled(r, R2, C2, T2, S2)
    PROVE  Good(R2, C2, T2, S2)
<1>. Fitting(R2, C2, T2, S2)
  BY FittingStep, Zenon
<1>. Mutual(S2)
  BY MutualStep, Zenon DEF Sane, Good
<1>. \A r \in Repos : Settled(r, R2, C2, T2, S2)
  <2>. TAKE r \in Repos
  <2>. CASE ~Up(R2, r)
    BY Zenon DEF Settled, Kept, Own, Up, On
  <2>. CASE Up(R2, r) /\ R2[r].at \notin P
    BY SettledStep, Zenon
  <2>. QED  BY Zenon
<1>. QED
  BY Zenon DEF Good

\* A step that only the session notices.
LEMMA Silent ==
    ASSUME NEW R, NEW C, NEW T, NEW S, Sane(R, C, T, S),
           NEW S2, NEW s \in Sessions, NEW w, Turns(S, S2, s, w),
           \A t \in Sessions : t # s => Compatible(w, S[t]), Fits(w, R, C, T),
           Rel(S[s]) => Rel(w) /\ w.r = S[s].r, S[s].pc # "createCommit"
    PROVE  Good(R, C, T, S2)
<1>. Mutual(S2)
  BY MutualStep, Zenon DEF Sane, Good
<1>. Fitting(R, C, T, S2)
  BY Zenon DEF Sane, Good, Fitting, Turns
<1>. Unborn(R, C, T, S2)
  BY SMTT(40) DEF Sane, Good, Unborn, Turns
<1>. \A r \in Repos : Settled(r, R, C, T, S2)
  <2>. TAKE r \in Repos
  <2>. Underway(S, r) => Underway(S2, r)
    BY Zenon DEF Underway, Turns
  <2>. QED  BY Zenon DEF Sane, Good, Settled, Kept, Own
<1>. QED
  BY Zenon DEF Sane, Good

-----------------------------------------------------------------------------
(* Directories keep one copy *)

\* The data of a new repository, or nothing, is put at a place.
LEMMA UniqPut ==
    ASSUME NEW C, NEW T, NEW C2, Uniq(C, T), NEW p \in Place, NEW d, Puts(C, C2, p, d),
           d # None => (\A q \in Place : C[q] # d) /\ (\A t \in Owners \X Repos : T[t] # d)
    PROVE  Uniq(C2, T)
BY SMTT(40) DEF Uniq, Puts

\* A tombstone is removed.
LEMMA UniqLay ==
    ASSUME NEW C, NEW T, NEW T2, Uniq(C, T), NEW t \in Owners \X Repos, Lays(T, T2, t, None)
    PROVE  Uniq(C, T2)
BY SMTT(40) DEF Uniq, Lays

\* A directory moves to a tombstone.
LEMMA UniqBury ==
    ASSUME NEW C, NEW T, NEW C2, NEW T2, Uniq(C, T), NEW p \in Place, NEW t \in Owners \X Repos,
           Puts(C, C2, p, None), Lays(T, T2, t, C[p])
    PROVE  Uniq(C2, T2)
BY SMTT(40) DEF Uniq, Puts, Lays

\* Back from the tombstone.
LEMMA UniqUnbury ==
    ASSUME NEW C, NEW T, NEW C2, NEW T2, Uniq(C, T), NEW p \in Place, NEW t \in Owners \X Repos,
           Puts(C, C2, p, T[t]), Lays(T, T2, t, None)
    PROVE  Uniq(C2, T2)
BY SMTT(40) DEF Uniq, Puts, Lays

\* To another place.
LEMMA UniqShift ==
    ASSUME NEW C, NEW T, NEW C2, Uniq(C, T), NEW p \in Place, NEW q \in Place, Shifts(C, C2, p, q)
    PROVE  Uniq(C2, T)
BY SMTT(40) DEF Uniq, Shifts

-----------------------------------------------------------------------------
(* A firm session steps at its own places *)

\* A session in a clean history.
LEMMA Member ==
    ASSUME NEW R, NEW C, NEW T, NEW S, Sane(R, C, T, S), NEW s \in Sessions
    PROVE  /\ S[s] \in Session /\ Sound(S[s]) /\ Fits(S[s], R, C, T)
           /\ \A t \in Sessions : t # s => Compatible(S[t], S[s]) /\ Compatible(S[s], S[t])
BY Zenon DEF Sane, Team, Good, Fitting, Mutual

\* What it relies on, by its kind.  A Create:
LEMMA MemberIn ==
    ASSUME NEW R, NEW C, NEW T, NEW S, Sane(R, C, T, S), NEW s \in Sessions, In(S[s])
    PROVE  R[S[s].r].st = "none" /\ Vacant(R, S[s].at)
<1>. Fits(S[s], R, C, T)
  BY Member, Zenon
<1>. QED  BY Zenon DEF Fits

\* A Create that has made its directory.
LEMMA MemberMade ==
    ASSUME NEW R, NEW C, NEW T, NEW S, Sane(R, C, T, S), NEW s \in Sessions,
           S[s].pc \in {"createCommit", "createUndo"}
    PROVE  C[S[s].at] = S[s].r
<1>. Fits(S[s], R, C, T)
  BY Member, Zenon
<1>. QED  BY Zenon DEF Fits

\* A session that has read its row.
LEMMA MemberRead ==
    ASSUME NEW R, NEW C, NEW T, NEW S, Sane(R, C, T, S), NEW s \in Sessions, Reader(S[s])
    PROVE  R[S[s].r].st # "none" /\ R[S[s].r].at = S[s].at
<1>. Fits(S[s], R, C, T)
  BY Member, Zenon
<1>. QED  BY Zenon DEF Fits, Keyed

\* A hard delete that holds the lock.
LEMMA MemberDel ==
    ASSUME NEW R, NEW C, NEW T, NEW S, Sane(R, C, T, S), NEW s \in Sessions, Del(S[s])
    PROVE  Up(R, S[s].r) /\ R[S[s].r].at = S[s].at /\ R[S[s].r].del >= Grace
<1>. Fits(S[s], R, C, T)
  BY Member, Zenon
<1>. QED  BY Zenon DEF Fits, Keyed

\* A soft delete or a restore that holds the lock, or undoes its move.
LEMMA MemberMoved ==
    ASSUME NEW R, NEW C, NEW T, NEW S, Sane(R, C, T, S), NEW s \in Sessions, Burying(S[s]) \/ Raising(S[s])
    PROVE  Up(R, S[s].r) /\ R[S[s].r].at = S[s].at /\ Pure(T, S[s].r)
<1>. Fits(S[s], R, C, T)
  BY Member, Zenon
<1>. QED  BY Zenon DEF Fits, Keyed

\* A soft delete that has moved the directory, or found it moved.
LEMMA MemberBury ==
    ASSUME NEW R, NEW C, NEW T, NEW S, Sane(R, C, T, S), NEW s \in Sessions, Burying(S[s])
    PROVE  Only(R, S[s].at, S[s].r) /\ T[Tomb(S[s].at, S[s].r)] = S[s].r
<1>. Fits(S[s], R, C, T)
  BY Member, Zenon
<1>. QED  BY Zenon DEF Fits

\* So for a restore.
LEMMA MemberRaise ==
    ASSUME NEW R, NEW C, NEW T, NEW S, Sane(R, C, T, S), NEW s \in Sessions, Raising(S[s])
    PROVE  Vacant(R, S[s].at) /\ C[S[s].at] = S[s].r
<1>. Fits(S[s], R, C, T)
  BY Member, Zenon
<1>. QED  BY Zenon DEF Fits

\* A relocation.
LEMMA MemberRel ==
    ASSUME NEW R, NEW C, NEW T, NEW S, Sane(R, C, T, S), NEW s \in Sessions, Rel(S[s])
    PROVE  /\ On(R, S[s].r) /\ R[S[s].r].at = S[s].to /\ Only(R, S[s].at, S[s].r)
           /\ C[S[s].at] = S[s].r
<1>. Fits(S[s], R, C, T)
  BY Member, Zenon
<1>. QED  BY Zenon DEF Fits

\* The relocation of a session in the present state.
LEMMA Relocates ==
    ASSUME Sane(row, canon, tomb, sess), NEW s \in Sessions, Rel(sess[s])
    PROVE  /\ On(row, sess[s].r) /\ row[sess[s].r].at = sess[s].to
           /\ Only(row, sess[s].at, sess[s].r) /\ canon[sess[s].at] = sess[s].r
BY MemberRel, SMTT(40)

\* The others are spared.
LEMMA SparesOthers ==
    ASSUME NEW R, NEW C, NEW T, NEW S, Sane(R, C, T, S), NEW s \in Sessions, Firm(S[s]),
           NEW R2, \A r \in Repos : R[r].st # "none" => R2[r].st # "none" /\ R2[r].at = R[r].at,
           NEW t \in Sessions, t # s
    PROVE  Spares(S[t], R, R2, Places(S[s]))
<1>. Firm(S[t]) => Places(S[t]) \cap Places(S[s]) = {}
  BY Member, FirmApart, Zenon
<1>. ASSUME Reader(S[t]) PROVE S[t].r \in Repos /\ R[S[t].r].st # "none"
  <2>. Sound(S[t]) /\ Fits(S[t], R, C, T)
    BY Member, Zenon
  <2>. QED  BY Zenon DEF Keyed, Reader, Sound, Fits
<1>. QED
  BY Zenon DEF Spares

\* A session without the lock may even move rows away from its places.
LEMMA LooseSpares ==
    ASSUME NEW R, NEW C, NEW T, NEW S, Sane(R, C, T, S), NEW s \in Sessions, Loose(S[s]),
           NEW R2, \A r \in Repos : R[r].st # "none" =>
                       R2[r].st # "none" /\ (R2[r].at = R[r].at \/ R[r].at \in Places(S[s])),
           NEW t \in Sessions, t # s
    PROVE  Spares(S[t], R, R2, Places(S[s]))
<1>. Compatible(S[t], S[s]) /\ Fits(S[t], R, C, T) /\ Sound(S[t])
  BY Member, Zenon
<1>. S[t].pc # "idle" => Places(S[t]) \cap Places(S[s]) = {}
  BY Zenon DEF Compatible, Loose, Rel
<1>. ASSUME Reader(S[t]) PROVE R2[S[t].r].st # "none" /\ R2[S[t].r].at = R[S[t].r].at
  <2>. /\ S[t].pc # "idle" /\ S[t].r \in Repos /\ S[t].at \in Places(S[t])
       /\ R[S[t].r].st # "none" /\ R[S[t].r].at = S[t].at
    BY Zenon DEF Keyed, Reader, Sound, Places, Fits
  <2>. QED
    BY Zenon
<1>. Firm(S[t]) => S[t].pc # "idle"
  BY Zenon DEF Firm, Holder, Loose, In, Del, Rel
<1>. QED
  BY Zenon DEF Spares

\* Nobody else relocates a repository whose place a session relies on.
LEMMA NotUnderway ==
    ASSUME NEW R, NEW C, NEW T, NEW S, Sane(R, C, T, S), NEW s \in Sessions, S[s].pc # "idle",
           NEW x \in Repos, R[x].at \in Places(S[s]), ~(Rel(S[s]) /\ S[s].r = x)
    PROVE  ~Underway(S, x)
<1>. SUFFICES ASSUME NEW t \in Sessions, S[t].r = x, Rel(S[t]) PROVE FALSE
  BY Zenon DEF Underway
<1>. Compatible(S[t], S[s]) /\ Fits(S[t], R, C, T)
  BY Member, Zenon
<1>. R[x].at \in Places(S[t]) /\ Loose(S[t]) /\ S[t].pc # "idle"
  BY Zenon DEF Fits, Places, Loose, Rel
<1>. QED
  BY Zenon DEF Compatible

\* A repository whose data is not at its place does not care what happens there.
LEMMA SettledAside ==
    ASSUME NEW R, NEW C, NEW T, NEW S, Sane(R, C, T, S), NEW R2, NEW C2, NEW T2, NEW S2,
           NEW x \in Repos, R[x].at \in Place, R2[x] = R[x], ~Underway(S, x),
           \A o \in Owners : T2[<<o, x>>] = T[<<o, x>>],
           \/ C2[R[x].at] = C[R[x].at]
           \/ C[R[x].at] # x /\ (On(R, x) => C2[R[x].at] \in {x, None})
    PROVE  Settled(x, R2, C2, T2, S2)
<1>. Settled(x, R, C, T, S)
  BY Zenon DEF Sane, Good
<1>. T2[Tomb(R[x].at, x)] = T[Tomb(R[x].at, x)] /\ (Pure(T, x) => Pure(T2, x))
  BY TombPath DEF Pure
<1>. (Up(R2, x) => Up(R, x)) /\ (On(R2, x) => On(R, x))
  BY Zenon DEF Up, On
<1>. QED
  BY Zenon DEF Settled, Kept, Own

\* The session k rewrites at most its own row, which is at its place.
Rewrites(k, R, R2) ==
    \/ R2 = R
    \/ /\ k.pc # "createUndo"
       /\ Differs(R, R2, k.r) /\ R2[k.r].st # "none"
       /\ R2[k.r].at = k.at \/ (In(k) /\ ~Up(R2, k.r))

\* Only tombstones of y change, if any, and y is at p.
Retombs(R, T, T2, p, y) ==
    \/ T2 = T
    \/ Up(R, y) /\ R[y].at = p /\ \A u \in Owners \X Repos : u[2] # y => T2[u] = T[u]

\* The directory at p is not the data of x, and does not become another's if x is live.
Leaves(R, C, C2, p, x) == C2[p] = C[p] \/ (C[p] # x /\ (On(R, x) => C2[p] \in {x, None}))

\* So for all that are within their grace at the place of k, itself and y apart.
Others(k, y, R, C, C2) ==
    \A x \in Repos : x # k.r /\ x # y /\ Up(R, x) /\ R[x].at = k.at /\ R[x].del < Grace =>
        Leaves(R, C, C2, k.at, x)

\* x is settled if it exists.
Unless(x, R, C, T, S) == Up(R, x) => Settled(x, R, C, T, S)

\* Nothing is promised past the grace.
LEMMA PastGrace ==
    ASSUME NEW R, NEW C, NEW T, NEW S, NEW x, ~(R[x].del < Grace)
    PROVE  Settled(x, R, C, T, S)
BY LifecycleAssumption, SMTT(40) DEF Settled, Kept, Own, On, NotDeleted

\* The step of k has nothing to do with the data of ids that are not inserted.
Barren(k, R, C, T, R2, C2, T2) ==
    \A x \in Repos : R2[x].st = "none" =>
        /\ R[x].st = "none" /\ ~(k.pc = "createCommit" /\ k.r = x)
        /\ \A q \in Place : C2[q] = x => C[q] = x
        /\ \A u \in Owners \X Repos : T2[u] = x => T[u] = x
        /\ \A o \in Owners : T2[<<o, x>>] = T[<<o, x>>]

\* Ids that were not inserted stay without data if the step leaves them alone.
LEMMA UnbornStep ==
    ASSUME NEW R, NEW C, NEW T, NEW S, Unborn(R, C, T, S), NEW s \in Sessions,
           NEW R2, NEW C2, NEW T2, NEW S2, NEW w, Turns(S, S2, s, w),
           Barren(S[s], R, C, T, R2, C2, T2)
    PROVE  Unborn(R2, C2, T2, S2)
<1>. SUFFICES ASSUME NEW x \in Repos, R2[x].st = "none"
              PROVE  /\ \A o \in Owners : T2[<<o, x>>] = None
                     /\ \A t \in Owners \X Repos : T2[t] # x
                     /\ \A p \in Place : C2[p] = x =>
                           \E t \in Sessions : S2[t].pc = "createCommit" /\ S2[t].r = x
  BY Zenon DEF Unborn
<1>1. \A t \in Sessions : S[t].pc = "createCommit" /\ S[t].r = x => S2[t] = S[t]
  BY DEF Turns, Barren
<1>2. /\ R[x].st = "none" /\ \A q \in Place : C2[q] = x => C[q] = x
      /\ \A u \in Owners \X Repos : T2[u] = x => T[u] = x
      /\ \A o \in Owners : T2[<<o, x>>] = T[<<o, x>>]
  BY Zenon DEF Barren
<1>. QED
  BY <1>1, <1>2, SMTT(40) DEF Unborn

\* s has read, and takes the lock of its place to move a directory.
Alights(S, s, R, R2) ==
    Reader(S[s]) /\ R2 = R /\ \A t \in Sessions : t # s => Spares(S[t], R, R, {S[s].at})

\* A session that relies on one place, or comes to, takes a step there.
LEMMA OnePlace ==
    ASSUME NEW R, NEW C, NEW T, NEW S, Sane(R, C, T, S), NEW s \in Sessions, ~Rel(S[s]),
           NEW R2, NEW C2, NEW T2, NEW S2, NEW w, Firm(S[s]) \/ Alights(S, s, R, R2), Turns(S, S2, s, w),
           Fits(w, R2, C2, T2), \A t \in Sessions : t # s => Compatible(w, S[t]),
           Rewrites(S[s], R, R2),
           \A q \in Place : q # S[s].at => C2[q] = C[q],
           NEW y \in Repos, Retombs(R, T, T2, S[s].at, y),
           OneLive(R2), Uniq(C2, T2), Unborn(R2, C2, T2, S2),
           Unless(S[s].r, R2, C2, T2, S2), Unless(y, R2, C2, T2, S2),
           Others(S[s], y, R, C, C2)
    PROVE  Good(R2, C2, T2, S2)
<1>. DEFINE k == S[s]
            p == k.at
            r == k.r
<1>1. k \in Session /\ Sound(k) /\ Fits(k, R, C, T)
  BY Member, Zenon
<1>2. k.pc # "idle" /\ r \in Repos /\ p \in Place /\ Places(k) = {p}
  BY <1>1, Zenon DEF Firm, Alights, Reader, Holder, Loose, In, Del, Rel, Sound, Places
<1>3. /\ R2 = R \/ In(k) \/ k.pc = "createUndo" \/ (Up(R, r) /\ R[r].at = p)
      /\ In(k) => R[r].st = "none"
  BY <1>1, Zenon DEF Firm, Alights, Holder, Loose, Keyed, Burying, Raising, Fits
<1>4. \A x \in Repos : x # r => R2[x] = R[x]
  BY Zenon DEF Rewrites, Differs
<1>5. Local(R, C, T, R2, C2, T2, k, {p})
  <2>. R2[r] = R[r] \/ In(k) \/ (Up(R, r) /\ R[r].at = p)
    BY <1>3, Zenon DEF Rewrites
  <2>. Up(R2, r) => R2[r] = R[r] \/ R2[r].at = p
    BY Zenon DEF Rewrites
  <2>. ASSUME NEW x \in Repos
       PROVE  (\A o \in Owners : T2[<<o, x>>] = T[<<o, x>>]) \/ (Up(R, x) /\ R[x].at = p)
    BY Zenon DEF Retombs
  <2>. QED  BY <1>4, Zenon DEF Local
<1>6. \A x \in Repos : R[x].st # "none" => R2[x].st # "none" /\ R2[x].at = R[x].at
  <2>. R[r].st # "none" => R2[r].st # "none" /\ R2[r].at = R[r].at
    BY <1>3, Zenon DEF Rewrites
  <2>. QED  BY <1>4, Zenon
<1>7. \A t \in Sessions : t # s => Spares(S[t], R, R2, {p}) /\ Compatible(w, S[t])
  <2>. CASE Firm(k)
    BY <1>2, <1>6, SparesOthers, Zenon
  <2>. CASE Alights(S, s, R, R2)
    BY Zenon DEF Alights
  <2>. QED  BY Zenon
<1>8. ASSUME NEW x \in Repos, Up(R2, x), R2[x].at \in {p}, x # r, x # y
      PROVE  Settled(x, R2, C2, T2, S2)
  <2>. R2[x] = R[x] /\ Up(R, x) /\ R[x].at = p
    BY <1>4, <1>8, Zenon DEF Up
  <2>. ~Underway(S, x)
    BY <1>2, NotUnderway, Zenon
  <2>. \A o \in Owners : T2[<<o, x>>] = T[<<o, x>>]
    BY <1>8, Zenon DEF Retombs
  <2>. CASE R[x].del < Grace
    <3>. Leaves(R, C, C2, p, x)
      BY <1>8, Zenon DEF Others
    <3>. QED  BY <1>2, SettledAside, SMTT(40) DEF Leaves
  <2>. CASE ~(R[x].del < Grace)
    BY PastGrace, Zenon
  <2>. QED  BY Zenon
<1>9. \A x \in Repos : Up(R2, x) /\ R2[x].at \in {p} => Settled(x, R2, C2, T2, S2)
  BY <1>8, Zenon DEF Unless
<1>. QED
  BY <1>5, <1>7, <1>9, Framed, Zenon

\* What the step puts at p or at a tombstone is not the data of an id that was not inserted.
Carries(p, R2, C, T, C2, T2) ==
    \A x \in Repos : R2[x].st = "none" =>
        (C2[p] = x => C[p] = x) /\ \A u \in Owners \X Repos : T2[u] = x => T[u] = x

\* It does, and is done.
LEMMA OnePlaceDone ==
    ASSUME NEW R, NEW C, NEW T, NEW S, Sane(R, C, T, S), NEW s \in Sessions, Firm(S[s]), ~Rel(S[s]),
           NEW R2, NEW C2, NEW T2, NEW S2, Turns(S, S2, s, Idle), Rewrites(S[s], R, R2),
           \A q \in Place : q # S[s].at => C2[q] = C[q],
           NEW y \in Repos, Retombs(R, T, T2, S[s].at, y),
           OneLive(R2), Uniq(C2, T2),
           S[s].pc = "createCommit" => R2[S[s].r].st # "none",
           Carries(S[s].at, R2, C, T, C2, T2),
           Unless(S[s].r, R2, C2, T2, S2), Unless(y, R2, C2, T2, S2),
           Others(S[s], y, R, C, C2)
    PROVE  Good(R2, C2, T2, S2)
<1>. Fits(Idle, R2, C2, T2) /\ \A t \in Sessions : Compatible(Idle, S[t])
  BY IdleFits, Zenon
<1>. ASSUME NEW x \in Repos, R2[x].st = "none"
     PROVE  /\ R[x].st = "none" /\ ~(S[s].pc = "createCommit" /\ S[s].r = x)
            /\ \A q \in Place : C2[q] = x => C[q] = x
            /\ \A u \in Owners \X Repos : T2[u] = x => T[u] = x
            /\ \A o \in Owners : T2[<<o, x>>] = T[<<o, x>>]
  <2>. R2[x] = R[x]
    BY Zenon DEF Rewrites, Differs
  <2>. \A o \in Owners : T2[<<o, x>>] = T[<<o, x>>]
    BY Zenon DEF Retombs, Up
  <2>. QED  BY Zenon DEF Carries
<1>. Unborn(R2, C2, T2, S2)
  <2>. Barren(S[s], R, C, T, R2, C2, T2)
    BY Zenon DEF Barren
  <2>. QED  BY UnbornStep, Zenon DEF Sane, Good
<1>. QED
  BY OnePlace, Zenon

-----------------------------------------------------------------------------
(* From the state to its parts *)

\* What the invariant says of a clean state.
LEMMA Context ==
    ASSUME Inv, clean
    PROVE  Sane(row, canon, tomb, sess)
<1>. Rows(row)
  BY RowPlace, Zenon DEF Inv, TypeInv, RowOK, Rows, Up, Exists
<1>. QED
  BY Zenon DEF Inv, TypeInv, SessOK, Team, Sane

\* A session that relies on one place.
LEMMA AtWork ==
    ASSUME TypeInv, NEW s \in Sessions, Firm(sess[s]) \/ Reader(sess[s]), ~Rel(sess[s])
    PROVE  /\ sess[s] \in Session /\ Sound(sess[s]) /\ sess[s].r \in Repos /\ sess[s].at \in Place
           /\ sess[s].pc # "idle" /\ Places(sess[s]) = {sess[s].at}
           /\ sess[s].pc # "renameCommit" => sess[s].to = None
           /\ Holder(sess[s]) => sess[s].lock = sess[s].at
           /\ Tomb(sess[s].at, sess[s].r) \in Owners \X Repos
<1>. sess[s] \in Session /\ Sound(sess[s])
  BY Zenon DEF TypeInv, SessOK
<1>. sess[s].pc # "idle" /\ Places(sess[s]) = {sess[s].at}
  BY Zenon DEF Firm, Reader, Holder, Loose, In, Del, Rel, Places
<1>. sess[s].r \in Repos /\ sess[s].at \in Place
  BY Zenon DEF Sound
<1>. QED
  BY TombPath, Zenon DEF Sound

\* A session that relocates a repository.
LEMMA Relocating ==
    ASSUME TypeInv, NEW s \in Sessions, Rel(sess[s])
    PROVE  /\ sess[s] \in Session /\ Sound(sess[s]) /\ sess[s].r \in Repos
           /\ sess[s].at \in Place /\ sess[s].to \in Place /\ sess[s].pc # "idle"
           /\ Places(sess[s]) = {sess[s].at, sess[s].to} /\ Loose(sess[s]) /\ Firm(sess[s])
BY Zenon DEF TypeInv, SessOK, Sound, Rel, Places, Loose, Firm

\* A session turns into a sound record.
LEMMA Turning ==
    ASSUME TypeInv, NEW s \in Sessions, NEW w \in Session, Sound(w), Become(s, w)
    PROVE  SessOK' /\ Turns(sess, sess', s, w)
<1>. sess' \in [Sessions -> Session] /\ sess'[s] = w /\ \A t \in Sessions : t # s => sess'[t] = sess[t]
  BY Zenon DEF TypeInv, SessOK, Become
<1>. \A t \in Sessions : Sound(sess'[t])
  BY Zenon DEF TypeInv, SessOK
<1>. QED
  BY Zenon DEF Turns, Team, SessOK

\* A session comes to rest.
LEMMA Resting ==
    ASSUME TypeInv, NEW s \in Sessions, Done(s)
    PROVE  SessOK' /\ Turns(sess, sess', s, Idle)
BY Turning, IdleWork, Zenon DEF Done

\* What does not change keeps its type.
LEMMA Same ==
    ASSUME TypeInv
    PROVE  /\ UNCHANGED row => RowOK'
           /\ UNCHANGED redirect /\ UNCHANGED xfer => MetaOK'
           /\ UNCHANGED canon /\ UNCHANGED tomb => DiskOK'
           /\ UNCHANGED sess => SessOK'
<1>. UNCHANGED row => RowOK'
  BY Zenon DEF TypeInv, RowOK, Exists
<1>. UNCHANGED redirect /\ UNCHANGED xfer => MetaOK'
  BY Zenon DEF TypeInv, MetaOK
<1>. QED  BY Zenon DEF TypeInv, DiskOK, SessOK

\* The fault budget and the history.
LEMMA Hist ==
    ASSUME TypeInv, faults' = faults \/ \E kind \in {"crash", "fs", "seed", "commit"} : Fault(kind),
           acked' = acked, clean' \in BOOLEAN
    PROVE  HistOK'
BY LifecycleAssumption, SMTT(40) DEF TypeInv, HistOK, Fault

\* A step without a fault.
LEMMA Calm ==
    ASSUME TypeInv, UNCHANGED <<faults, acked, clean>>
    PROVE  HistOK'
BY Zenon DEF TypeInv, HistOK

\* The invariant from its parts.
LEMMA Whole ==
    ASSUME RowOK', MetaOK', DiskOK', SessOK', HistOK', clean' => Good(row', canon', tomb', sess')
    PROVE  Inv'
BY Zenon DEF Inv, TypeInv

\* A step that only the session notices.
LEMMA Turned ==
    ASSUME Inv, NEW s \in Sessions, NEW w \in Session, Sound(w), Become(s, w),
           UNCHANGED <<row, meta, disk>>, HistOK', sess[s].pc # "createCommit",
           Rel(sess[s]) => Rel(w) /\ w.r = sess[s].r,
           clean' => /\ clean /\ Fits(w, row, canon, tomb)
                     /\ \A t \in Sessions : t # s => Compatible(w, sess[t])
    PROVE  Inv'
<1>. TypeInv
  BY Zenon DEF Inv
<1>. SessOK' /\ Turns(sess, sess', s, w)
  BY Turning, Zenon
<1>. RowOK' /\ MetaOK' /\ DiskOK' /\ row' = row /\ canon' = canon /\ tomb' = tomb
  BY Same, Zenon DEF meta, disk
<1>. clean' => Good(row, canon, tomb, sess')
  BY Context, Silent, Zenon
<1>. QED
  BY Whole, Zenon

\* A session gives up.
LEMMA Quiet ==
    ASSUME Inv, NEW s \in Sessions, Done(s), UNCHANGED <<row, meta, disk>>, HistOK',
           ~Rel(sess[s]), sess[s].pc # "createCommit", clean' => clean
    PROVE  Inv'
<1>. Fits(Idle, row, canon, tomb) /\ \A t \in Sessions : Compatible(Idle, sess[t])
  BY IdleFits, Zenon
<1>. QED
  BY IdleWork, Turned, Zenon DEF Done

\* A step that begins on the place p is apart from the sessions without the lock.
LEMMA Avoids ==
    ASSUME TypeInv, NEW p, Begin(p), clean'
    PROVE  clean /\ \A t \in Sessions : Loose(sess[t]) => Places(sess[t]) \cap {p} = {}
<1>. clean /\ Apart({t \in Sessions : Unlocked(t)}, {p})
  BY Zenon DEF Begin
<1>. ASSUME NEW t \in Sessions, Loose(sess[t]) PROVE Places(sess[t]) \cap {p} = {}
  <2>. Unlocked(t) /\ sess[t].pc # "idle" /\ Sound(sess[t])
    BY Zenon DEF Loose, Rel, Unlocked, TypeInv, SessOK
  <2>. Places(sess[t]) \subseteq Touched(t)
    BY LifecycleAssumption, Zenon DEF Sound, Places, Touched, Place
  <2>. QED  BY Zenon DEF Apart
<1>. QED  BY Zenon

\* A step without the lock is apart from all the others.
LEMMA Alone ==
    ASSUME TypeInv, NEW s \in Sessions, NEW Q, Apart(Sessions \ {s}, Q), NEW t \in Sessions, t # s,
           sess[t].pc # "idle"
    PROVE  Places(sess[t]) \cap Q = {}
<1>. Sound(sess[t])
  BY Zenon DEF TypeInv, SessOK
<1>. Places(sess[t]) \subseteq Touched(t)
  BY LifecycleAssumption, Zenon DEF Sound, Places, Touched, Place
<1>. QED
  BY Zenon DEF Apart

\* A session goes on, with its lock or without, and no less than before.
LEMMA GoesOn ==
    ASSUME NEW j, NEW k, NEW w, Compatible(j, k), w.lock = j.lock \/ w.lock = None,
           j.pc # "idle", Places(w) = Places(j), w.r = j.r,
           Loose(w) => Loose(j), In(w) => In(j), Del(w) => Del(j)
    PROVE  Compatible(w, k)
BY Zenon DEF Compatible

\* A session gives up the lock when no other is at its places.
LEMMA LetsGo ==
    ASSUME NEW k, NEW w, w.lock = None, ~In(w), ~Del(w),
           k.pc # "idle" => Places(w) \cap Places(k) = {}
    PROVE  Compatible(w, k)
BY Zenon DEF Compatible

\* A session takes the lock of a place.
LEMMA Takes ==
    ASSUME NEW k, NEW w, w.lock # k.lock, ~Loose(w), Loose(k) => Places(w) \cap Places(k) = {},
           In(w) /\ In(k) => w.r # k.r, Del(w) /\ Del(k) => w.r # k.r
    PROVE  Compatible(w, k)
BY Zenon DEF Compatible

\* A session begins with a read.
LEMMA Reads ==
    ASSUME NEW k, NEW w, w.lock = None, Reader(w), Loose(k) => Places(w) \cap Places(k) = {}
    PROVE  Compatible(w, k)
BY Zenon DEF Compatible, Reader, In, Del, Loose, Rel

\* A reader takes the lock of its place: no other relies on it.
LEMMA LockSpares ==
    ASSUME Sane(row, canon, tomb, sess), NEW s \in Sessions, Reader(sess[s]),
           LockFree(sess[s].at), NEW t \in Sessions, t # s
    PROVE  Spares(sess[t], row, row, {sess[s].at}) /\ sess[t].lock # sess[s].at
           /\ (Loose(sess[t]) => Places(sess[t]) \cap {sess[s].at} = {})
<1>. Sound(sess[t]) /\ Compatible(sess[t], sess[s]) /\ Fits(sess[t], row, canon, tomb)
  BY Member, Zenon
<1>. Places(sess[s]) = {sess[s].at} /\ sess[s].pc # "idle"
  BY Zenon DEF Reader, Rel, Places
<1>. Firm(sess[t]) => sess[t].pc # "idle"
  BY Zenon DEF Firm, Holder, Loose, In, Del, Rel
<1>. Loose(sess[t]) => Firm(sess[t]) /\ Places(sess[t]) \cap {sess[s].at} = {}
  BY Zenon DEF Compatible, Firm
<1>. Firm(sess[t]) /\ ~Loose(sess[t]) => Places(sess[t]) \cap {sess[s].at} = {}
  BY Zenon DEF Firm, Loose, Sound, Places, LockFree
<1>. Reader(sess[t]) => row[sess[t].r].st # "none"
  BY Zenon DEF Fits, Keyed
<1>. QED
  BY Zenon DEF Spares, LockFree

-----------------------------------------------------------------------------
(* When a record fits *)

\* A Create until its transaction ends.
LEMMA FitsCreate ==
    ASSUME NEW k, NEW R, NEW C, NEW T, In(k), R[k.r].st = "none", Vacant(R, k.at),
           k.pc = "createCommit" => C[k.at] = k.r
    PROVE  Fits(k, R, C, T)
BY Zenon DEF Fits, In, Keyed, Reader, Del, Burying, Raising, Rel, Up

\* A Create that is undone.
LEMMA FitsCreateUndo ==
    ASSUME NEW k, NEW R, NEW C, NEW T, k.pc = "createUndo", R[k.r].st = "gone", C[k.at] = k.r
    PROVE  Fits(k, R, C, T)
BY Zenon DEF Fits, In, Keyed, Reader, Del, Burying, Raising, Rel, Up

\* A session that has read.
LEMMA FitsReader ==
    ASSUME NEW k, NEW R, NEW C, NEW T, Reader(k), R[k.r].st # "none", R[k.r].at = k.at
    PROVE  Fits(k, R, C, T)
BY Zenon DEF Fits, In, Keyed, Reader, Del, Burying, Raising, Rel, Up

\* A soft delete that has moved the directory, or found it moved.
LEMMA FitsBurying ==
    ASSUME NEW k, NEW R, NEW C, NEW T, Burying(k), Up(R, k.r), R[k.r].at = k.at,
           Only(R, k.at, k.r), T[Tomb(k.at, k.r)] = k.r, Pure(T, k.r)
    PROVE  Fits(k, R, C, T)
BY Zenon DEF Fits, In, Keyed, Reader, Del, Burying, Raising, Rel, Up

\* So for a restore.
LEMMA FitsRaising ==
    ASSUME NEW k, NEW R, NEW C, NEW T, Raising(k), Up(R, k.r), R[k.r].at = k.at,
           Vacant(R, k.at), C[k.at] = k.r, Pure(T, k.r)
    PROVE  Fits(k, R, C, T)
BY Zenon DEF Fits, In, Keyed, Reader, Del, Burying, Raising, Rel, Up

\* A soft delete of the repository r at p.
LEMMA FitsBuryingOf ==
    ASSUME NEW k, NEW R, NEW C, NEW T, NEW r, NEW p, k.pc = "softDeleteCommit", k.r = r, k.at = p,
           Up(R, r), R[r].at = p, Only(R, p, r), T[Tomb(p, r)] = r, Pure(T, r)
    PROVE  Fits(k, R, C, T)
<1>. Burying(k)
  BY Zenon DEF Burying
<1>. QED  BY FitsBurying, SMTT(40)

\* So for a restore.
LEMMA FitsRaisingOf ==
    ASSUME NEW k, NEW R, NEW C, NEW T, NEW r, NEW p, k.pc = "restoreCommit", k.r = r, k.at = p,
           Up(R, r), R[r].at = p, Vacant(R, p), C[p] = r, Pure(T, r)
    PROVE  Fits(k, R, C, T)
<1>. Raising(k)
  BY Zenon DEF Raising
<1>. QED  BY FitsRaising, SMTT(40)

\* A hard delete with its lock.
LEMMA FitsDel ==
    ASSUME NEW k, NEW R, NEW C, NEW T, Del(k), Up(R, k.r), R[k.r].at = k.at, R[k.r].del >= Grace,
           k.pc = "hardRemove" /\ ~k.active => Vacant(R, k.at)
    PROVE  Fits(k, R, C, T)
BY Zenon DEF Fits, In, Keyed, Reader, Del, Burying, Raising, Rel, Up

\* A relocation that has committed.
LEMMA FitsRel ==
    ASSUME NEW k, NEW R, NEW C, NEW T, Rel(k), On(R, k.r), R[k.r].at = k.to,
           Only(R, k.at, k.r), C[k.at] = k.r
    PROVE  Fits(k, R, C, T)
BY Zenon DEF Fits, In, Keyed, Reader, Del, Burying, Raising, Rel, Up

\* The same, of the repository r.
LEMMA FitsRelOf ==
    ASSUME NEW k, NEW R, NEW C, NEW T, NEW r, NEW p, NEW q, Rel(k), k.r = r, k.at = p, k.to = q,
           On(R, r), R[r].at = q, Only(R, p, r), C[p] = r
    PROVE  Fits(k, R, C, T)
BY FitsRel, SMTT(40)

\* Go.
LEMMA Going ==
    ASSUME TypeInv, NEW s \in Sessions, NEW pc \in Steps, Go(s, pc)
    PROVE  \E w : Become(s, w) /\ Heir(w, sess[s], pc, sess[s].lock)
<1>. sess[s] \in Session
  BY Zenon DEF TypeInv, SessOK
<1>. QED
  BY GoWork, Zenon DEF Go
-----------------------------------------------------------------------------
(* Create *)

\* A Create begins: the place is vacant and nobody without the lock is at it.
LEMMA CreateInsertInv ==
    ASSUME Inv, NEW s \in Sessions, NEW r \in Repos, NEW p \in Place, CreateInsert(s, r, p)
    PROVE  Inv'
<1>. TypeInv
  BY Zenon DEF Inv
<1>. PICK w : Become(s, w) /\ Newborn(w, "createInit", r, p, None, NotDeleted, p)
  BY CreateWork, Zenon DEF CreateInsert
<1>. w \in Session /\ w.pc = "createInit" /\ w.r = r /\ w.at = p /\ w.to = None /\ w.lock = p
  BY Zenon DEF Newborn
<1>. In(w) /\ ~Rel(w) /\ ~Loose(w) /\ ~Del(w) /\ Places(w) = {p} /\ Sound(w)
  BY Zenon DEF In, Holder, Rel, Loose, Del, Places, Sound
<1>. HistOK'
  <2>. clean' \in BOOLEAN
    BY Zenon DEF CreateInsert, Begin
  <2>. QED  BY Hist, Zenon DEF CreateInsert
<1>. ~Rel(sess[s]) /\ sess[s].pc # "createCommit"
  BY Zenon DEF Rel, CreateInsert
<1>. ASSUME clean'
     PROVE  clean /\ Fits(w, row, canon, tomb) /\ \A t \in Sessions : t # s => Compatible(w, sess[t])
  <2>. clean /\ \A t \in Sessions : Loose(sess[t]) => Places(sess[t]) \cap {p} = {}
    BY Avoids, Zenon DEF CreateInsert
  <2>. Vacant(row, p) /\ row[r].st = "none"
    BY Zenon DEF CreateInsert, Vacant, On, NameActive, Live, Exists
  <2>. Fits(w, row, canon, tomb)
    BY FitsCreate, Zenon
  <2>. ASSUME NEW t \in Sessions PROVE w.lock # sess[t].lock /\ (In(sess[t]) => w.r # sess[t].r)
    BY Zenon DEF CreateInsert, LockFree, In, Inserting
  <2>. ASSUME NEW t \in Sessions, t # s PROVE Compatible(w, sess[t])
    BY Takes, Zenon
  <2>. QED  BY Zenon
<1>. QED
  BY Turned, Zenon DEF CreateInsert

\* A Create that goes on has the same lock, row and place.
LEMMA CreateGoes ==
    ASSUME TypeInv, NEW s \in Sessions, In(sess[s]),
           NEW pc \in {"createDisplace", "createReinit", "createCommit"}, Go(s, pc)
    PROVE  \E w \in Session :
              /\ Become(s, w) /\ Sound(w) /\ w.pc = pc /\ w.r = sess[s].r /\ w.at = sess[s].at
              /\ In(w) /\ ~Rel(w)
              /\ \A k : Compatible(sess[s], k) => Compatible(w, k)
<1>. Firm(sess[s]) /\ ~Rel(sess[s]) /\ Holder(sess[s])
  BY Zenon DEF In, Rel, Firm, Holder
<1>. DEFINE w == [sess[s] EXCEPT !.pc = pc]
<1>. Heir(w, sess[s], pc, sess[s].lock)
  <2>. pc \in Steps /\ sess[s] \in Session
    BY AtWork, Zenon DEF Steps
  <2>. QED  BY GoWork, Zenon
<1>. HIDE DEF w
<1>. w \in Session /\ w.pc = pc /\ w.r = sess[s].r /\ w.at = sess[s].at /\ w.to = sess[s].to
      /\ w.lock = sess[s].lock
  BY Zenon DEF Heir
<1>. In(w) /\ ~Rel(w) /\ ~Loose(w) /\ ~Del(w) /\ Places(w) = {w.at}
  BY Zenon DEF In, Rel, Loose, Del, Places
<1>. /\ sess[s].r \in Repos /\ sess[s].at \in Place /\ sess[s].pc # "idle"
     /\ Places(sess[s]) = {sess[s].at} /\ sess[s].to = None /\ sess[s].lock = sess[s].at
  BY AtWork, Zenon DEF In
<1>. Sound(w)
  BY Zenon DEF Sound
<1>. \A k : Compatible(sess[s], k) => Compatible(w, k)
  BY GoesOn, Zenon
<1>. Become(s, w)
  BY Zenon DEF Go, w
<1>. QED
  BY Zenon

\* The directory of the new repository appears where there was none.
LEMMA InitBareInv ==
    ASSUME Inv, NEW s \in Sessions, sess[s].pc \in {"createInit", "createReinit"}, InitBare(s),
           UNCHANGED <<meta, faults, acked, clean>>
    PROVE  Inv'
<1>. DEFINE k == sess[s]
            p == k.at
            r == k.r
<1>. TypeInv
  BY Zenon DEF Inv
<1>. In(k) /\ Firm(k) /\ ~Rel(k) /\ k.pc # "createCommit"
  BY Zenon DEF In, Firm, Holder, Rel
<1>. r \in Repos /\ p \in Place
  BY AtWork, Zenon
<1>. PICK w \in Session :
         /\ Become(s, w) /\ Sound(w) /\ w.pc = "createCommit" /\ w.r = r /\ w.at = p
         /\ In(w) /\ ~Rel(w) /\ \A j : Compatible(k, j) => Compatible(w, j)
  BY CreateGoes, Zenon DEF InitBare
<1>. SessOK' /\ Turns(sess, sess', s, w)
  BY Turning, Zenon
<1>. Puts(canon, canon', p, r) /\ canon[p] = None /\ tomb' = tomb /\ row' = row
  BY PutDisk, Zenon DEF InitBare, TypeInv, Dir
<1>. RowOK' /\ MetaOK' /\ DiskOK' /\ HistOK'
  BY Same, Calm, Zenon DEF meta, TypeInv, DiskOK, Puts
<1>. ASSUME clean' PROVE Good(row, canon', tomb, sess')
  <2>. Sane(row, canon, tomb, sess)
    BY Context, Zenon
  <2>. row[r].st = "none" /\ Vacant(row, p)
    BY MemberIn, Zenon
  <2>. Fits(w, row, canon', tomb) /\ \A t \in Sessions : t # s => Compatible(w, sess[t])
    BY Member, FitsCreate, Zenon DEF Puts
  <2>. ASSUME NEW t \in Sessions, sess[t].pc = "createCommit" PROVE sess[t].r # r /\ t # s
    <3>. t # s /\ In(sess[t])
      BY Zenon DEF In
    <3>. QED  BY Member, Zenon DEF Compatible
  <2>. Unborn(row, canon, tomb, sess) /\ Uniq(canon, tomb) /\ OneLive(row)
    BY Zenon DEF Sane, Good
  <2>. (\A q \in Place : canon[q] # r) /\ (\A t \in Owners \X Repos : tomb[t] # r)
    BY DEF Unborn
  <2>. Uniq(canon', tomb)
    BY UniqPut, Zenon
  <2>. Unborn(row, canon', tomb, sess')
    <3>. ASSUME NEW x \in Repos, row[x].st = "none", NEW q \in Place, canon'[q] = x
         PROVE  \E t \in Sessions : sess'[t].pc = "createCommit" /\ sess'[t].r = x
      <4>. CASE q = p
        BY Zenon DEF Puts, Turns
      <4>. CASE q # p
        <5>. PICK t \in Sessions : sess[t].pc = "createCommit" /\ sess[t].r = x
          BY Zenon DEF Unborn, Puts
        <5>. QED  BY Zenon DEF Turns
      <4>. QED  BY Zenon
    <3>. QED  BY Zenon DEF Unborn
  <2>. /\ Rewrites(k, row, row) /\ Retombs(row, tomb, tomb, p, r) /\ Unless(r, row, canon', tomb, sess')
       /\ \A q \in Place : q # p => canon'[q] = canon[q]
    BY Zenon DEF Rewrites, Retombs, Unless, Up, Puts
  <2>. Others(k, r, row, canon, canon')
    BY LifecycleAssumption, Zenon DEF Others, Leaves, Vacant
  <2>. QED
    BY OnePlace, Zenon
<1>. QED  BY Whole, Zenon

\* The init stops at a directory.
LEMMA CreateInitInv ==
    ASSUME Inv, NEW s \in Sessions, CreateInit(s)
    PROVE  Inv'
<1>. CASE InitBare(s)
  BY InitBareInv, Zenon DEF CreateInit
<1>. CASE Go(s, "createDisplace") /\ UNCHANGED <<row, disk>>
  <2>. TypeInv /\ HistOK' /\ clean' = clean /\ UNCHANGED <<row, meta, disk>>
    BY Calm, Zenon DEF Inv, CreateInit
  <2>. In(sess[s]) /\ ~Rel(sess[s]) /\ sess[s].pc # "createCommit"
    BY Zenon DEF CreateInit, In, Rel
  <2>. PICK w \in Session :
           /\ Become(s, w) /\ Sound(w) /\ w.pc = "createDisplace" /\ w.r = sess[s].r
           /\ w.at = sess[s].at /\ In(w) /\ \A j : Compatible(sess[s], j) => Compatible(w, j)
    BY CreateGoes, Zenon
  <2>. ASSUME clean' PROVE Sane(row, canon, tomb, sess)
    BY Context, Zenon
  <2>. ASSUME clean' PROVE row[sess[s].r].st = "none" /\ Vacant(row, sess[s].at)
    BY MemberIn, Zenon
  <2>. ASSUME clean'
       PROVE  /\ clean /\ Fits(w, row, canon, tomb)
              /\ \A t \in Sessions : t # s => Compatible(w, sess[t])
    BY Member, FitsCreate, Zenon
  <2>. QED  BY Turned, Zenon
<1>. QED  BY Zenon DEF CreateInit

\* A Create that fails spends its id, and may remove the directory it made.
LEMMA SpentInv ==
    ASSUME Inv, NEW s \in Sessions, In(sess[s]), Done(s), Spend(sess[s].r), UNCHANGED <<meta, tomb>>,
           \/ canon' = canon
           \/ sess[s].pc = "createCommit" /\ canon' = [canon EXCEPT ![sess[s].at] = None],
           HistOK', clean' => clean
    PROVE  Inv'
<1>. DEFINE k == sess[s]
            p == k.at
            r == k.r
<1>. TypeInv /\ RowOK /\ DiskOK
  BY Zenon DEF Inv, TypeInv
<1>. Firm(k) /\ ~Rel(k)
  BY Zenon DEF In, Firm, Holder, Rel
<1>. r \in Repos /\ p \in Place
  BY AtWork, Zenon
<1>4. SessOK' /\ Turns(sess, sess', s, Idle)
  BY Resting, Zenon
<1>5. Differs(row, row', r) /\ row'[r].st = "gone"
  BY SpendRow, Zenon DEF Spend, RowOK
<1>6. canon' = canon \/ (k.pc = "createCommit" /\ Puts(canon, canon', p, None))
  BY PutDisk, Zenon DEF Dir
<1>7. RowOK' /\ MetaOK' /\ DiskOK' /\ tomb' = tomb
  BY <1>5, <1>6, RowStep, Same, Zenon DEF meta, DiskOK, Puts
<1>8. ASSUME clean' PROVE Good(row', canon', tomb, sess')
  <2>. Sane(row, canon, tomb, sess)
    BY <1>8, Context, Zenon
  <2>2. OneLive(row) /\ Uniq(canon, tomb)
    BY Zenon DEF Sane, Good
  <2>3. k.pc = "createCommit" => canon[p] = r
    BY MemberMade, SMTT(40)
  <2>4. OneLive(row')
    BY <1>5, <2>2, SMTT(40) DEF OneLive, On, Differs
  <2>5. Uniq(canon', tomb)
    BY <1>6, <2>2, UniqPut, Zenon
  <2>6. /\ Rewrites(k, row, row') /\ Retombs(row, tomb, tomb, p, r) /\ Unless(r, row', canon', tomb, sess')
        /\ row'[r].st # "none"
    BY <1>5, Zenon DEF Rewrites, Retombs, Unless, Up, In
  <2>7. Carries(p, row', canon, tomb, canon', tomb) /\ \A q \in Place : q # p => canon'[q] = canon[q]
    BY <1>6, LifecycleAssumption DEF Carries, Puts
  <2>8. Others(k, r, row, canon, canon')
    BY <1>6, <2>3, Zenon DEF Others, Leaves, Puts
  <2>. QED
    BY <1>4, <2>4, <2>5, <2>6, <2>7, <2>8, OnePlaceDone, Zenon
<1>. QED  BY <1>4, <1>7, <1>8, Whole, Zenon

\* A repository within its grace whose place a session has read or locked has its
\* data there or at its tombstone, and no other's.
LEMMA Located ==
    ASSUME Sane(row, canon, tomb, sess), NEW s \in Sessions, sess[s].pc # "idle", ~Rel(sess[s]),
           NEW x \in Repos, Up(row, x), row[x].at = sess[s].at, row[x].del < Grace
    PROVE  /\ Pure(tomb, x)
           /\ canon[sess[s].at] = x \/ tomb[Tomb(sess[s].at, x)] = x
           /\ On(row, x) => canon[sess[s].at] \in {x, None}
<1>. row[x].at \in Places(sess[s])
  BY Zenon DEF Places
<1>. ~Underway(sess, x)
  BY NotUnderway, Zenon
<1>. Settled(x, row, canon, tomb, sess)
  BY Zenon DEF Sane, Good
<1>. QED
  BY Zenon DEF Settled, Kept, Own

\* What a Create finds at its place is not the data of an id that was not inserted.
LEMMA FoundBorn ==
    ASSUME Sane(row, canon, tomb, sess), NEW s \in Sessions, In(sess[s]), sess[s].pc # "createCommit",
           NEW x \in Repos, row[x].st = "none", sess[s].at \in Place
    PROVE  canon[sess[s].at] # x
<1>. SUFFICES ASSUME canon[sess[s].at] = x PROVE FALSE
  BY Zenon
<1>. PICK t \in Sessions : sess[t].pc = "createCommit" /\ sess[t].r = x
  BY Zenon DEF Sane, Good, Unborn
<1>. t # s /\ Firm(sess[t]) /\ ~Rel(sess[t]) /\ Firm(sess[s]) /\ ~Rel(sess[s]) /\ sess[t].pc # "idle"
  BY Zenon DEF In, Firm, Holder, Rel
<1>. canon[sess[t].at] = x /\ sess[t].at \in Place
  <2>. Sound(sess[t]) /\ canon[sess[t].at] = sess[t].r
    BY Member, MemberMade, SMTT(40)
  <2>. QED  BY Zenon DEF Sound
<1>. sess[t].at = sess[s].at
  BY LifecycleAssumption DEF Sane, Good, Uniq
<1>. Places(sess[s]) \cap Places(sess[t]) = {}
  BY Member, FirmApart
<1>. QED
  BY Zenon DEF Places

\* A Create moves what it finds to the tombstone of the repository deleted last.
LEMMA CreateBuries ==
    ASSUME Inv, NEW s \in Sessions, sess[s].pc = "createDisplace", NEW r1 \in LastDeleted(sess[s].at),
           canon[sess[s].at] # None, tomb[Tomb(sess[s].at, r1)] = None,
           Bury(sess[s].at, Tomb(sess[s].at, r1)), Go(s, "createReinit"),
           UNCHANGED <<row, meta, faults, acked, clean>>
    PROVE  Inv'
<1>. DEFINE k == sess[s]
            p == k.at
            r == k.r
            u == Tomb(p, r1)
<1>. TypeInv /\ DiskOK
  BY Zenon DEF Inv, TypeInv
<1>. In(k) /\ Firm(k) /\ ~Rel(k) /\ k.pc # "createCommit" /\ k.pc # "idle"
  BY Zenon DEF In, Firm, Holder, Rel
<1>. r \in Repos /\ p \in Place
  BY AtWork, Zenon
<1>4. PICK w \in Session :
         /\ Become(s, w) /\ Sound(w) /\ w.pc = "createReinit" /\ w.r = r /\ w.at = p
         /\ In(w) /\ \A j : Compatible(k, j) => Compatible(w, j)
  BY CreateGoes, Zenon
<1>5. SessOK' /\ Turns(sess, sess', s, w)
  BY <1>4, Turning, Zenon
<1>6. r1 \in Repos /\ Up(row, r1) /\ row[r1].at = p
  BY Zenon DEF LastDeleted, Exists, Up
<1>7. u \in Owners \X Repos /\ u[2] = r1 /\ u = <<p[1], r1>> /\ p[1] \in Owners
  BY <1>6, TombPath, SMTT(40)
<1>8. Puts(canon, canon', p, None) /\ Lays(tomb, tomb', u, canon[p])
  BY <1>7, BuryDisk, Zenon
<1>9. RowOK' /\ MetaOK' /\ HistOK' /\ DiskOK' /\ row' = row
  BY <1>8, Same, Calm, Zenon DEF meta, DiskOK, Puts, Lays
<1>10. ASSUME clean' PROVE Good(row, canon', tomb', sess')
  <2>. Sane(row, canon, tomb, sess)
    BY <1>10, Context, Zenon
  <2>. row[r].st = "none" /\ Vacant(row, p)
    BY MemberIn, Zenon
  <2>3. Fits(w, row, canon', tomb') /\ \A t \in Sessions : t # s => Compatible(w, sess[t])
    BY <1>4, Member, FitsCreate, Zenon
  <2>4. Unborn(row, canon, tomb, sess) /\ Uniq(canon, tomb) /\ OneLive(row)
    BY Zenon DEF Sane, Good
  <2>5. Uniq(canon', tomb')
    BY <1>7, <1>8, <2>4, UniqBury, Zenon
  <2>6. ASSUME NEW x \in Repos, row[x].st = "none"
        PROVE  /\ \A q \in Place : canon'[q] = x => canon[q] = x
               /\ \A t \in Owners \X Repos : tomb'[t] = x => tomb[t] = x
               /\ \A o \in Owners : tomb'[<<o, x>>] = tomb[<<o, x>>]
    <3>. canon[p] # x /\ x # None /\ x # r1
      BY <1>6, <2>6, FoundBorn, LifecycleAssumption, Zenon DEF Up
    <3>. QED  BY <1>7, <1>8, <2>6, SMTT(40) DEF Puts, Lays
  <2>7. Unborn(row, canon', tomb', sess')
    <3>. Barren(k, row, canon, tomb, row, canon', tomb')
      BY <2>6, Zenon DEF Barren
    <3>. QED  BY <1>5, <2>4, UnbornStep, Zenon
  <2>8. row[r1].del < Grace => canon[p] = r1 /\ Pure(tomb, r1)
    BY <1>6, Located, LifecycleAssumption
  <2>9. Unless(r1, row, canon', tomb', sess')
    <3>. CASE row[r1].del < Grace
      <4>. tomb'[u] = r1 /\ Pure(tomb', r1) /\ ~On(row, r1)
        BY <1>6, <1>7, <1>8, <2>8, Zenon DEF Lays, Pure, Vacant
      <4>. QED  BY <1>6, Zenon DEF Unless, Settled, Kept, Own
    <3>. CASE ~(row[r1].del < Grace)
      BY PastGrace, Zenon DEF Unless
    <3>. QED  BY Zenon
  <2>10. /\ Rewrites(k, row, row) /\ Retombs(row, tomb, tomb', p, r1) /\ Unless(r, row, canon', tomb', sess')
         /\ \A q \in Place : q # p => canon'[q] = canon[q]
    BY <1>6, <1>7, <1>8, Zenon DEF Rewrites, Retombs, Unless, Up, Puts, Lays
  <2>. ASSUME NEW x \in Repos, x # r1, Up(row, x), row[x].at = p, row[x].del < Grace
       PROVE  Leaves(row, canon, canon', p, x)
    <3>. ~On(row, x)
      BY Zenon DEF Vacant
    <3>. row[r1].del < Grace
      <4>. row[r1].del \in Int /\ row[x].del \in Int
        BY <1>6, SMTT(40) DEF TypeInv, RowOK, Row, Age, NotDeleted
      <4>. row[r1].del < row[x].del \/ row[r1].del = row[x].del
        BY Zenon DEF LastDeleted, Exists, Live, On, Up
      <4>. QED  BY LifecycleAssumption, SMTT(40)
    <3>. QED  BY <2>8, Zenon DEF Leaves
  <2>12. Others(k, r1, row, canon, canon')
    BY Zenon DEF Others
  <2>. QED
    BY <1>5, <1>6, <2>3, <2>4, <2>5, <2>7, <2>9, <2>10, <2>12, OnePlace, Zenon
<1>. QED  BY <1>5, <1>9, <1>10, Whole

\* CreateDisplace and CreateReinit.
LEMMA CreateDisplaceInv ==
    ASSUME Inv, NEW s \in Sessions, CreateDisplace(s) \/ CreateReinit(s)
    PROVE  Inv'
<1>. In(sess[s]) /\ UNCHANGED <<meta, faults, acked, clean>> /\ TypeInv
  BY Zenon DEF CreateDisplace, CreateReinit, In, Inv
<1>. CASE Done(s) /\ Spend(sess[s].r) /\ UNCHANGED disk
  BY Calm, SpentInv, Zenon DEF disk
<1>. CASE CreateDisplace(s) /\ ~(Done(s) /\ Spend(sess[s].r) /\ UNCHANGED disk)
  BY CreateBuries, Zenon DEF CreateDisplace
<1>. CASE CreateReinit(s) /\ ~(Done(s) /\ Spend(sess[s].r) /\ UNCHANGED disk)
  BY InitBareInv, Zenon DEF CreateReinit
<1>. QED  BY Zenon

\* hooks.Install, the initial commit or the seeding fails.
LEMMA CreateFailsInv ==
    ASSUME Inv, NEW s \in Sessions, CreateFails(s)
    PROVE  Inv'
<1>. TypeInv /\ In(sess[s])
  BY Zenon DEF Inv, CreateFails, In
<1>. HistOK'
  BY Hist, Zenon DEF CreateFails, TypeInv, HistOK
<1>. QED
  BY SpentInv, Zenon DEF CreateFails

\* The row of a Create appears, with its data at its place.
LEMMA CreateCommitInv ==
    ASSUME Inv, NEW s \in Sessions, CreateCommit(s)
    PROVE  Inv'
<1>. DEFINE k == sess[s]
            p == k.at
            r == k.r
<1>. TypeInv /\ RowOK
  BY Zenon DEF Inv, TypeInv
<1>. In(k) /\ Firm(k) /\ ~Rel(k) /\ k.pc = "createCommit"
  BY Zenon DEF CreateCommit, In, Firm, Holder, Rel
<1>. r \in Repos /\ p \in Place
  BY AtWork, Zenon
<1>. SessOK' /\ Turns(sess, sess', s, Idle)
  BY Resting, Zenon DEF CreateCommit
<1>. Differs(row, row', r) /\ row'[r].st = "row" /\ row'[r].at = p /\ row'[r].del = NotDeleted
  BY InsertRow, Zenon DEF CreateCommit, Insert, RowOK
<1>. RowOK' /\ MetaOK' /\ DiskOK' /\ canon' = canon /\ tomb' = tomb
  BY RowStep, Same, LifecycleAssumption, Zenon DEF CreateCommit, meta, disk, Place
<1>. HistOK'
  BY Zenon DEF CreateCommit, TypeInv, HistOK
<1>. ASSUME clean' PROVE Good(row', canon, tomb, sess')
  <2>. Sane(row, canon, tomb, sess)
    BY Context, Zenon DEF CreateCommit
  <2>. row[r].st = "none" /\ Vacant(row, p) /\ canon[p] = r
    BY MemberIn, MemberMade, SMTT(40)
  <2>. Unborn(row, canon, tomb, sess) /\ OneLive(row) /\ Uniq(canon, tomb)
    BY Zenon DEF Sane, Good
  <2>. OneLive(row')
    BY SMTT(40) DEF OneLive, On, Differs, Vacant
  <2>. Pure(tomb, r)
    BY Zenon DEF Unborn, Pure
  <2>. Unless(r, row', canon, tomb, sess')
    BY Zenon DEF Unless, Settled, Kept, Own
  <2>. Rewrites(k, row, row') /\ Retombs(row, tomb, tomb, p, r) /\ row'[r].st # "none"
    BY Zenon DEF Rewrites, Retombs
  <2>. Carries(p, row', canon, tomb, canon, tomb) /\ Others(k, r, row, canon, canon)
    BY Zenon DEF Carries, Others, Leaves
  <2>. QED
    BY OnePlaceDone, Zenon
<1>. QED  BY Whole, Zenon

\* A session that gives up its lock is alone at its place.
LEMMA Undone ==
    ASSUME TypeInv, NEW s \in Sessions, Holder(sess[s]),
           NEW pc \in {"createUndo", "softDeleteUndo", "restoreUndo"},
           Become(s, [sess[s] EXCEPT !.pc = pc, !.lock = None]), Undoing(s)
    PROVE  \E w \in Session :
              /\ Become(s, w) /\ Sound(w) /\ w.pc = pc /\ w.r = sess[s].r /\ w.at = sess[s].at
              /\ clean' => clean /\ \A t \in Sessions : t # s => Compatible(w, sess[t])
<1>. Firm(sess[s]) /\ ~Rel(sess[s]) /\ sess[s].pc # "renameCommit"
  BY Zenon DEF Firm, Holder, In, Del, Rel
<1>. sess[s] \in Session /\ sess[s].r \in Repos /\ sess[s].at \in Place /\ sess[s].to = None
  BY AtWork, Zenon
<1>. DEFINE w == [sess[s] EXCEPT !.pc = pc, !.lock = None]
<1>. Heir(w, sess[s], pc, None)
  <2>. pc \in Steps
    BY Zenon DEF Steps
  <2>. QED  BY FreeWork, Zenon
<1>. Become(s, w)
  BY Zenon
<1>. HIDE DEF w
<1>. w \in Session /\ w.pc = pc /\ w.lock = None /\ w.r = sess[s].r /\ w.at = sess[s].at /\ w.to = None
  BY Zenon DEF Heir
<1>. ~In(w) /\ ~Del(w) /\ Sound(w) /\ Places(w) = {sess[s].at}
  BY Zenon DEF In, Del, Rel, Holder, Sound, Places
<1>. ASSUME clean' PROVE clean /\ \A t \in Sessions : t # s => Compatible(w, sess[t])
  <2>. clean /\ Apart(Sessions \ {s}, Touched(s))
    BY Zenon DEF Undoing
  <2>. sess[s].at \in Touched(s)
    BY LifecycleAssumption DEF Touched, Place
  <2>. ASSUME NEW t \in Sessions, t # s PROVE Compatible(w, sess[t])
    <3>. sess[t].pc # "idle" => Places(sess[t]) \cap Touched(s) = {}
      BY Alone, Zenon
    <3>. QED  BY LetsGo, SMTT(40)
  <2>. QED  BY Zenon
<1>. QED
  BY Zenon

\* A failed COMMIT leaves the directory, which the Create will remove.
LEMMA CreateCommitFailsInv ==
    ASSUME Inv, NEW s \in Sessions, CreateCommitFails(s)
    PROVE  Inv'
<1>. DEFINE k == sess[s]
            p == k.at
            r == k.r
<1>. TypeInv /\ RowOK
  BY Zenon DEF Inv, TypeInv
<1>. In(k) /\ Holder(k) /\ Firm(k) /\ ~Rel(k) /\ k.pc = "createCommit"
  BY Zenon DEF CreateCommitFails, In, Firm, Holder, Rel
<1>. r \in Repos /\ p \in Place
  BY AtWork, Zenon
<1>. PICK w \in Session :
         /\ Become(s, w) /\ Sound(w) /\ w.pc = "createUndo" /\ w.r = r /\ w.at = p
         /\ clean' => clean /\ \A t \in Sessions : t # s => Compatible(w, sess[t])
  BY Undone, Zenon DEF CreateCommitFails
<1>. SessOK' /\ Turns(sess, sess', s, w)
  BY Turning, Zenon
<1>. Differs(row, row', r) /\ row'[r].st = "gone"
  BY SpendRow, Zenon DEF CreateCommitFails, Spend, RowOK
<1>. RowOK' /\ MetaOK' /\ DiskOK' /\ canon' = canon /\ tomb' = tomb
  BY RowStep, Same, Zenon DEF CreateCommitFails, meta, disk
<1>. HistOK'
  <2>. clean' \in BOOLEAN
    BY Zenon DEF CreateCommitFails, Undoing
  <2>. QED  BY Hist, Zenon DEF CreateCommitFails
<1>. ASSUME clean' PROVE Good(row', canon, tomb, sess')
  <2>. Sane(row, canon, tomb, sess)
    BY Context, Zenon
  <2>. canon[p] = r
    BY MemberMade, SMTT(40)
  <2>. Fits(w, row', canon, tomb)
    BY FitsCreateUndo, Zenon
  <2>. Unborn(row, canon, tomb, sess) /\ OneLive(row) /\ Uniq(canon, tomb)
    BY Zenon DEF Sane, Good
  <2>. OneLive(row') /\ Barren(k, row, canon, tomb, row', canon, tomb)
    BY DEF OneLive, On, Differs, Barren
  <2>. Unborn(row', canon, tomb, sess')
    BY UnbornStep, Zenon
  <2>. /\ Rewrites(k, row, row') /\ Retombs(row, tomb, tomb, p, r) /\ Unless(r, row', canon, tomb, sess')
       /\ Others(k, r, row, canon, canon)
    BY Zenon DEF Rewrites, Retombs, Unless, Up, Others, Leaves
  <2>. QED
    BY OnePlace, Zenon
<1>. QED  BY Whole, Zenon

\* The Create that failed removes its own directory.
LEMMA CreateUndoInv ==
    ASSUME Inv, NEW s \in Sessions, CreateUndo(s)
    PROVE  Inv'
<1>. DEFINE k == sess[s]
            p == k.at
            r == k.r
<1>. TypeInv /\ DiskOK
  BY Zenon DEF Inv, TypeInv
<1>. Firm(k) /\ ~Rel(k) /\ k.pc = "createUndo"
  BY Zenon DEF CreateUndo, Loose, Firm, Rel
<1>. r \in Repos /\ p \in Place
  BY AtWork, Zenon
<1>. SessOK' /\ Turns(sess, sess', s, Idle)
  BY Resting, Zenon DEF CreateUndo
<1>. Puts(canon, canon', p, None)
  BY PutDisk, Zenon DEF CreateUndo, Dir
<1>. RowOK' /\ MetaOK' /\ DiskOK' /\ HistOK' /\ row' = row /\ tomb' = tomb
  BY Same, Calm, Zenon DEF CreateUndo, meta, DiskOK, Puts
<1>. ASSUME clean' PROVE Good(row, canon', tomb, sess')
  <2>. Sane(row, canon, tomb, sess)
    BY Context, Zenon DEF CreateUndo
  <2>. row[r].st = "gone" /\ canon[p] = r
    BY Member, MemberMade, SMTT(40) DEF Fits
  <2>. OneLive(row) /\ Uniq(canon, tomb)
    BY Zenon DEF Sane, Good
  <2>. Uniq(canon', tomb)
    BY UniqPut, Zenon
  <2>. /\ Rewrites(k, row, row) /\ Retombs(row, tomb, tomb, p, r) /\ Unless(r, row, canon', tomb, sess')
       /\ Carries(p, row, canon, tomb, canon', tomb) /\ \A q \in Place : q # p => canon'[q] = canon[q]
    BY LifecycleAssumption, Zenon DEF Rewrites, Retombs, Unless, Up, Carries, Puts
  <2>. Others(k, r, row, canon, canon') /\ k.pc # "createCommit"
    BY Zenon DEF Others, Leaves, Puts
  <2>. QED
    BY OnePlaceDone, Zenon
<1>. QED  BY Whole, Zenon
=============================================================================
