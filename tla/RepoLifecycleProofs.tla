------------------------ MODULE RepoLifecycleProofs ------------------------
(***************************************************************************)
(* Proofs about RepoLifecycle: deletion, restore, rename, transfer,        *)
(* crashes and time keep the invariant of RepoDataProofs; hence the types, *)
(* and, as long as the history is clean, that the data of a live or        *)
(* restorable repository is where the code looks for it, and that no path  *)
(* serves the data of another repository.                                  *)
(***************************************************************************)
EXTENDS RepoDataProofs

-----------------------------------------------------------------------------
(* Soft delete and restore *)

\* A deletion or a restore reads its row.
LEMMA ReadInv ==
    ASSUME Inv, NEW s \in Sessions, NEW r \in Repos, NEW op \in {"softDelete", "restore", "hardDelete"},
           Read(s, r, op)
    PROVE  Inv'
<1>. TypeInv /\ RowOK
  BY Zenon DEF Inv, TypeInv
<1>. row[r].at \in Place /\ row[r].del \in Age \cup {NotDeleted}
  BY RowPlace, Zenon DEF Read
<1>. PICK w : Become(s, w) /\ Newborn(w, op, r, row[r].at, None, row[r].del, None)
  <2>. op \in Steps
    BY Zenon DEF Steps
  <2>. QED  BY ReadWork, Zenon DEF Read
<1>. w \in Session /\ w.pc = op /\ w.r = r /\ w.at = row[r].at /\ w.to = None /\ w.del = row[r].del /\ w.lock = None
  BY Zenon DEF Newborn
<1>. Reader(w) /\ Places(w) = {row[r].at}
  BY Zenon DEF Reader, Rel, Places
<1>. Sound(w)
  BY Zenon DEF Sound, Rel, Holder, In, Del, Read, Live
<1>. HistOK'
  <2>. clean' \in BOOLEAN
    BY Zenon DEF Read, Begin
  <2>. QED  BY Hist, Zenon DEF Read
<1>. ~Rel(sess[s]) /\ sess[s].pc # "createCommit"
  BY Zenon DEF Rel, Read
<1>. ASSUME clean'
     PROVE  clean /\ Fits(w, row, canon, tomb) /\ \A t \in Sessions : t # s => Compatible(w, sess[t])
  <2>. clean /\ \A t \in Sessions : Loose(sess[t]) => Places(sess[t]) \cap {row[r].at} = {}
    BY Avoids, Zenon DEF Read
  <2>. Fits(w, row, canon, tomb)
    BY FitsReader, Zenon DEF Read, Exists
  <2>. ASSUME NEW t \in Sessions PROVE Compatible(w, sess[t])
    BY Reads
  <2>. QED  BY Zenon
<1>. QED
  BY Turned, Zenon DEF Read

\* Soft delete and restore take the lock of the place they have read.
LEMMA Holds ==
    ASSUME TypeInv, NEW s \in Sessions, sess[s].pc \in {"softDelete", "restore"}, LockFree(sess[s].at),
           NEW pc \in {"softDeleteCommit", "restoreCommit"}, NEW moved \in BOOLEAN, Holding(s, pc, moved)
    PROVE  \E w \in Session :
              /\ Become(s, w) /\ Sound(w) /\ w.pc = pc /\ w.r = sess[s].r /\ w.at = sess[s].at
              /\ Sane(row, canon, tomb, sess) => \A t \in Sessions : t # s => Compatible(w, sess[t])
<1>. Reader(sess[s]) /\ ~Rel(sess[s]) /\ sess[s].pc # "renameCommit"
  BY Zenon DEF Reader, Rel
<1>. sess[s] \in Session /\ sess[s].r \in Repos /\ sess[s].at \in Place /\ sess[s].to = None
  BY AtWork, Zenon
<1>. DEFINE w == [sess[s] EXCEPT !.pc = pc, !.lock = sess[s].at, !.moved = moved]
<1>. Heir(w, sess[s], pc, sess[s].at)
  <2>. pc \in Steps
    BY Zenon DEF Steps
  <2>. QED  BY HoldWork, Zenon
<1>. Become(s, w)
  BY Zenon DEF Holding
<1>. HIDE DEF w
<1>. w \in Session /\ w.pc = pc /\ w.lock = w.at /\ w.r = sess[s].r /\ w.at = sess[s].at /\ w.to = None
  BY Zenon DEF Heir
<1>. ~In(w) /\ ~Del(w) /\ ~Loose(w) /\ Sound(w) /\ Places(w) = {sess[s].at}
  BY Zenon DEF In, Del, Rel, Loose, Holder, Sound, Places
<1>. ASSUME Sane(row, canon, tomb, sess), NEW t \in Sessions, t # s PROVE Compatible(w, sess[t])
  <2>. sess[t].lock # sess[s].at /\ (Loose(sess[t]) => Places(sess[t]) \cap {sess[s].at} = {})
    BY LockSpares, Zenon
  <2>. QED  BY Takes, Zenon
<1>. QED
  BY Zenon

\* The repository a soft delete has read as live is live and at the place it locks.
LEMMA FreshLive ==
    ASSUME TypeInv, Sane(row, canon, tomb, sess), NEW s \in Sessions, sess[s].pc = "softDelete", Fresh(s)
    PROVE  /\ On(row, sess[s].r) /\ Up(row, sess[s].r) /\ row[sess[s].r].at = sess[s].at
           /\ row[sess[s].r].del < Grace
<1>. Reader(sess[s]) /\ sess[s].del = NotDeleted
  BY Zenon DEF TypeInv, SessOK, Sound, Reader
<1>. row[sess[s].r].at = sess[s].at
  BY MemberRead, SMTT(40)
<1>. QED
  BY LifecycleAssumption, SMTT(40) DEF Fresh, Exists, On, Up, NotDeleted

\* The directory of a live repository moves to its tombstone.
LEMMA SoftDeleteBuries ==
    ASSUME Inv, NEW s \in Sessions, SoftDeleteMove(s), canon[sess[s].at] # None,
           tomb[Tomb(sess[s].at, sess[s].r)] = None
    PROVE  Inv'
<1>. DEFINE k == sess[s]
            p == k.at
            r == k.r
            u == Tomb(p, r)
<1>. TypeInv /\ DiskOK
  BY DEF Inv, TypeInv
<1>. Reader(k) /\ ~Rel(k) /\ k.pc = "softDelete" /\ LockFree(p)
  BY Zenon DEF SoftDeleteMove, Reader, Rel
<1>. r \in Repos /\ p \in Place /\ u \in Owners \X Repos /\ Sound(k) /\ k.pc # "idle"
  BY AtWork, Zenon
<1>. PICK w \in Session :
         /\ Become(s, w) /\ Sound(w) /\ w.pc = "softDeleteCommit" /\ w.r = r /\ w.at = p
         /\ Sane(row, canon, tomb, sess) => \A t \in Sessions : t # s => Compatible(w, sess[t])
  BY Holds, Zenon DEF SoftDeleteMove
<1>. SessOK' /\ Turns(sess, sess', s, w)
  BY Turning, Zenon
<1>. Puts(canon, canon', p, None) /\ Lays(tomb, tomb', u, canon[p])
  BY BuryDisk, Zenon DEF SoftDeleteMove
<1>. RowOK' /\ MetaOK' /\ DiskOK' /\ row' = row
  BY Same, Zenon DEF SoftDeleteMove, meta, DiskOK, Puts, Lays
<1>. HistOK' /\ (clean' => clean /\ Fresh(s))
  <2>. clean' \in BOOLEAN /\ (clean' => clean /\ Fresh(s))
    BY Zenon DEF SoftDeleteMove
  <2>. QED  BY Hist, Zenon DEF SoftDeleteMove
<1>. ASSUME clean' PROVE Good(row, canon', tomb', sess')
  <2>. Sane(row, canon, tomb, sess)
    BY Context, Zenon
  <2>. On(row, r) /\ Up(row, r) /\ row[r].at = p /\ row[r].del < Grace
    BY FreshLive, Zenon
  <2>. Pure(tomb, r) /\ canon[p] = r
    BY Located, Zenon
  <2>. Unborn(row, canon, tomb, sess) /\ Uniq(canon, tomb) /\ OneLive(row)
    BY Zenon DEF Sane, Good
  <2>. Only(row, p, r) /\ tomb'[u] = r /\ canon'[p] = None /\ Pure(tomb', r)
    BY Zenon DEF Only, OneLive, Puts, Lays, Pure
  <2>. Fits(w, row, canon', tomb')
    BY FitsBuryingOf, Zenon
  <2>. Uniq(canon', tomb')
    BY UniqBury, Zenon
  <2>. Barren(k, row, canon, tomb, row, canon', tomb')
    <3>1. ASSUME NEW x \in Repos, row[x].st = "none"
          PROVE  /\ \A q \in Place : canon'[q] = x => canon[q] = x
                 /\ \A t \in Owners \X Repos : tomb'[t] = x => tomb[t] = x
                 /\ \A o \in Owners : tomb'[<<o, x>>] = tomb[<<o, x>>]
      BY <3>1, LifecycleAssumption, SMTT(40) DEF Puts, Lays, Up, Tomb
    <3>. QED  BY <3>1, Zenon DEF Barren
  <2>. Unborn(row, canon', tomb', sess')
    BY UnbornStep, Zenon
  <2>. /\ Rewrites(k, row, row) /\ Retombs(row, tomb, tomb', p, r)
       /\ \A q \in Place : q # p => canon'[q] = canon[q]
    BY SMTT(40) DEF Rewrites, Retombs, Puts, Lays, Tomb
  <2>. Unless(r, row, canon', tomb', sess')
    BY Zenon DEF Unless, Settled, Kept, Own
  <2>. Others(k, r, row, canon, canon')
    BY Zenon DEF Others, Leaves, Only
  <2>. Alights(sess, s, row, row)
    BY LockSpares, Zenon DEF Alights
  <2>. QED
    BY OnePlace, Zenon
<1>. QED  BY Whole, Zenon

\* moveCanonicalToDeleted
LEMMA SoftDeleteMoveInv ==
    ASSUME Inv, NEW s \in Sessions, SoftDeleteMove(s)
    PROVE  Inv'
<1>. DEFINE k == sess[s]
            p == k.at
            r == k.r
<1>. TypeInv
  BY DEF Inv
<1>. Reader(k) /\ ~Rel(k) /\ k.pc = "softDelete" /\ LockFree(p) /\ k.pc # "createCommit"
  BY Zenon DEF SoftDeleteMove, Reader, Rel
<1>. r \in Repos /\ r # None /\ p \in Place /\ k.pc # "idle"
  BY AtWork, LifecycleAssumption, Zenon
<1>. HistOK' /\ (clean' => clean /\ Fresh(s))
  <2>. clean' \in BOOLEAN /\ (clean' => clean /\ Fresh(s))
    BY Zenon DEF SoftDeleteMove
  <2>. QED  BY Hist, Zenon DEF SoftDeleteMove
<1>. CASE canon[p] # None /\ tomb[Tomb(p, r)] = None
  BY SoftDeleteBuries, Zenon
<1>. CASE canon[p] = None /\ tomb[Tomb(p, r)] # None
  <2>. UNCHANGED <<row, meta, disk>> /\ Holding(s, "softDeleteCommit", FALSE)
    BY Zenon DEF SoftDeleteMove
  <2>. PICK w \in Session :
           /\ Become(s, w) /\ Sound(w) /\ w.pc = "softDeleteCommit" /\ w.r = r /\ w.at = p
           /\ Sane(row, canon, tomb, sess) => \A t \in Sessions : t # s => Compatible(w, sess[t])
    BY Holds, Zenon
  <2>. ASSUME clean' PROVE clean /\ Fits(w, row, canon, tomb) /\ Sane(row, canon, tomb, sess)
    <3>. Sane(row, canon, tomb, sess)
      BY Context, Zenon
    <3>. On(row, r) /\ Up(row, r) /\ row[r].at = p /\ row[r].del < Grace
      BY FreshLive, Zenon
    <3>. Pure(tomb, r) /\ tomb[Tomb(p, r)] = r
      BY Located, Zenon
    <3>. Only(row, p, r)
      BY Zenon DEF Sane, Good, OneLive, Only
    <3>. QED  BY FitsBuryingOf, Zenon
  <2>. QED  BY Turned, Zenon
<1>. CASE (canon[p] = None) = (tomb[Tomb(p, r)] = None)
  <2>. UNCHANGED <<row, meta, disk>> /\ Done(s)
    BY Zenon DEF SoftDeleteMove
  <2>. QED  BY Quiet, Zenon
<1>. QED  BY Zenon

\* The transaction of a soft delete or a restore fails: the move is to be undone.
LEMMA MoveFailsInv ==
    ASSUME Inv, NEW s \in Sessions, SoftDeleteFails(s) \/ RestoreFails(s)
    PROVE  Inv'
<1>. DEFINE k == sess[s]
<1>. TypeInv
  BY Zenon DEF Inv
<1>. /\ k.pc \in {"softDeleteCommit", "restoreCommit"} /\ Holder(k) /\ ~Rel(k) /\ k.pc # "createCommit"
     /\ UNCHANGED <<row, meta, disk>> /\ Undoing(s)
  BY Zenon DEF SoftDeleteFails, RestoreFails, Holder, Rel
<1>. HistOK' /\ (clean' => clean)
  <2>. clean' \in BOOLEAN /\ (clean' => clean)
    BY Zenon DEF SoftDeleteFails, RestoreFails, Undoing
  <2>. QED  BY Hist, Zenon DEF SoftDeleteFails, RestoreFails
<1>. CASE ~k.moved
  <2>. Done(s)
    BY Zenon DEF SoftDeleteFails, RestoreFails, Undo, Done
  <2>. QED  BY Quiet, Zenon
<1>. CASE k.moved /\ k.pc = "softDeleteCommit"
  <2>. Become(s, [sess[s] EXCEPT !.pc = "softDeleteUndo", !.lock = None])
    BY Zenon DEF SoftDeleteFails, RestoreFails, Undo
  <2>. PICK w \in Session :
           /\ Become(s, w) /\ Sound(w) /\ w.pc = "softDeleteUndo" /\ w.r = k.r /\ w.at = k.at
           /\ clean' => clean /\ \A t \in Sessions : t # s => Compatible(w, sess[t])
    BY Undone, Zenon
  <2>. Burying(k) /\ Burying(w)
    BY Zenon DEF Burying
  <2>. ASSUME clean' PROVE Fits(w, row, canon, tomb)
    BY Context, MemberMoved, MemberBury, FitsBurying, SMTT(40)
  <2>. QED  BY Turned, Zenon
<1>. CASE k.moved /\ k.pc = "restoreCommit"
  <2>. Become(s, [sess[s] EXCEPT !.pc = "restoreUndo", !.lock = None])
    BY Zenon DEF SoftDeleteFails, RestoreFails, Undo
  <2>. PICK w \in Session :
           /\ Become(s, w) /\ Sound(w) /\ w.pc = "restoreUndo" /\ w.r = k.r /\ w.at = k.at
           /\ clean' => clean /\ \A t \in Sessions : t # s => Compatible(w, sess[t])
    BY Undone, Zenon
  <2>. Raising(k) /\ Raising(w)
    BY Zenon DEF Raising
  <2>. ASSUME clean' PROVE Fits(w, row, canon, tomb)
    BY Context, MemberMoved, MemberRaise, FitsRaising, SMTT(40)
  <2>. QED  BY Turned, Zenon
<1>. QED  BY Zenon

\* deleted_at is set, or unset, where the directory has been moved.
LEMMA DeletedInv ==
    ASSUME Inv, NEW s \in Sessions, NEW d \in Age \cup {NotDeleted},
           \/ sess[s].pc = "softDeleteCommit" /\ d = 0
           \/ sess[s].pc = "restoreCommit" /\ d = NotDeleted,
           SetDeleted(sess[s].r, d), Done(s), UNCHANGED <<meta, disk, faults, acked, clean>>
    PROVE  Inv'
<1>. DEFINE k == sess[s]
            p == k.at
            r == k.r
<1>. TypeInv /\ RowOK
  BY Zenon DEF Inv, TypeInv
<1>. Firm(k) /\ ~Rel(k) /\ ~In(k) /\ k.pc # "createCommit" /\ k.pc # "createUndo" /\ (Burying(k) \/ Raising(k))
  BY Zenon DEF Firm, Holder, Rel, In, Burying, Raising
<1>. r \in Repos /\ p \in Place
  BY AtWork, Zenon
<1>4. SessOK' /\ Turns(sess, sess', s, Idle)
  BY Resting, Zenon
<1>5. /\ Differs(row, row', r) /\ row'[r].st = row[r].st /\ row'[r].at = row[r].at
      /\ Up(row, r) => row'[r].del = d
  BY DeletedRow, Zenon DEF Exists, Up
<1>6. RowOK' /\ MetaOK' /\ DiskOK' /\ HistOK' /\ canon' = canon /\ tomb' = tomb
  <2>. row'[r].st = "row" => row'[r].at # None
    BY <1>5, Zenon DEF RowOK, Exists
  <2>. QED  BY <1>5, RowStep, Same, Calm, Zenon DEF meta, disk
<1>7. ASSUME clean' PROVE Good(row', canon, tomb, sess')
  <2>. Sane(row, canon, tomb, sess)
    BY <1>7, Context, Zenon
  <2>. Up(row, r) /\ row[r].at = p /\ Pure(tomb, r)
    BY MemberMoved, Zenon
  <2>. Burying(k) => tomb[Tomb(p, r)] = r
    BY MemberBury, SMTT(40)
  <2>. Raising(k) => canon[p] = r /\ Vacant(row, p)
    BY MemberRaise, SMTT(40)
  <2>. OneLive(row) /\ Uniq(canon, tomb)
    BY Zenon DEF Sane, Good
  <2>. (Burying(k) /\ d = 0) \/ (Raising(k) /\ d = NotDeleted)
    BY Zenon DEF Burying, Raising
  <2>. OneLive(row')
    BY <1>5, SMTT(40) DEF OneLive, On, Up, Differs, Vacant, NotDeleted
  <2>. Unless(r, row', canon, tomb, sess')
    BY <1>5, SMTT(40) DEF Unless, Settled, Kept, Own, On, NotDeleted
  <2>. Rewrites(k, row, row') /\ Retombs(row, tomb, tomb, p, r)
    BY <1>5, Zenon DEF Rewrites, Retombs, Up
  <2>. Carries(p, row', canon, tomb, canon, tomb) /\ Others(k, r, row, canon, canon)
    BY Zenon DEF Carries, Others, Leaves
  <2>. QED
    BY <1>4, OnePlaceDone, Zenon
<1>. QED  BY <1>4, <1>6, <1>7, Whole, Zenon

\* The UPDATE of a soft delete.
LEMMA SoftDeleteCommitInv ==
    ASSUME Inv, NEW s \in Sessions, SoftDeleteCommit(s)
    PROVE  Inv'
<1>. 0 \in Age \cup {NotDeleted}
  BY LifecycleAssumption, SMTT(40) DEF Age
<1>. QED
  BY DeletedInv, Zenon DEF SoftDeleteCommit

\* The UPDATE of a restore: its place is vacant.
LEMMA RestoreCommitInv ==
    ASSUME Inv, NEW s \in Sessions, RestoreCommit(s)
    PROVE  Inv'
<1>. DEFINE k == sess[s]
<1>. TypeInv /\ HistOK' /\ UNCHANGED <<meta, disk, faults, acked, clean>>
  BY Calm, Zenon DEF Inv, RestoreCommit
<1>. Firm(k) /\ Holder(k) /\ ~Rel(k) /\ k.pc = "restoreCommit" /\ k.pc # "createCommit" /\ k.pc # "renameCommit"
  BY Zenon DEF RestoreCommit, Firm, Holder, Rel
<1>. CASE Exists(k.r) /\ Collides(k.r, row[k.r].at)
  <2>. ~clean
    <3>. SUFFICES ASSUME clean PROVE FALSE
      BY Zenon
    <3>. Vacant(row, k.at) /\ row[k.r].at = k.at
      BY Context, MemberMoved, MemberRaise, SMTT(40) DEF Raising
    <3>. QED  BY Zenon DEF Collides, Vacant, Live, Exists, On
  <2>. CASE k.moved
    <3>. k \in Session /\ k.r \in Repos /\ k.at \in Place /\ k.to = None /\ k.lock = k.at
      BY AtWork, Zenon
    <3>. "restoreUndo" \in Steps
      BY Zenon DEF Steps
    <3>. PICK w : Become(s, w) /\ Heir(w, k, "restoreUndo", k.lock)
      BY GoWork, Zenon DEF RestoreCommit, Go
    <3>. w \in Session /\ Sound(w)
      BY Zenon DEF Heir, Sound, Rel, Holder, In, Del
    <3>. UNCHANGED row
      BY Zenon DEF RestoreCommit
    <3>. QED  BY Turned, Zenon
  <2>. CASE ~k.moved
    <3>. Done(s) /\ UNCHANGED row
      BY Zenon DEF RestoreCommit
    <3>. QED  BY Quiet, Zenon
  <2>. QED  BY Zenon
<1>. CASE ~(Exists(k.r) /\ Collides(k.r, row[k.r].at))
  BY DeletedInv, Zenon DEF RestoreCommit
<1>. QED  BY Zenon

\* moveDeletedBackToCanonical and moveCanonicalBackToDeleted
LEMMA UndoMoveInv ==
    ASSUME Inv, NEW s \in Sessions, SoftDeleteUndo(s) \/ RestoreUndo(s)
    PROVE  Inv'
<1>. DEFINE k == sess[s]
            p == k.at
            r == k.r
            u == Tomb(p, r)
<1>. TypeInv /\ DiskOK /\ Done(s) /\ UNCHANGED <<row, meta, faults, acked, clean>>
  BY Zenon DEF Inv, TypeInv, SoftDeleteUndo, RestoreUndo
<1>. Firm(k) /\ ~Rel(k) /\ k.pc # "createCommit"
  BY Zenon DEF SoftDeleteUndo, RestoreUndo, Firm, Loose, Rel
<1>. r \in Repos /\ p \in Place /\ u \in Owners \X Repos /\ u = <<p[1], r>>
  BY AtWork, TombPath, Zenon
<1>4. CASE UNCHANGED disk
  BY <1>4, Calm, Quiet
<1>5. CASE ~UNCHANGED disk
  <2>1. \/ k.pc = "softDeleteUndo" /\ canon[p] = None /\ Unbury(u, p)
        \/ k.pc = "restoreUndo" /\ tomb[u] = None /\ Bury(p, u)
    BY <1>5, Zenon DEF SoftDeleteUndo, RestoreUndo
  <2>2. \/ Burying(k) /\ canon[p] = None /\ Puts(canon, canon', p, tomb[u]) /\ Lays(tomb, tomb', u, None)
        \/ Raising(k) /\ tomb[u] = None /\ Puts(canon, canon', p, None) /\ Lays(tomb, tomb', u, canon[p])
    BY <2>1, UnburyDisk, BuryDisk, Zenon DEF Burying, Raising
  <2>3. SessOK' /\ Turns(sess, sess', s, Idle)
    BY Resting, Zenon
  <2>4. RowOK' /\ MetaOK' /\ HistOK' /\ DiskOK' /\ row' = row
    BY <2>2, Same, Calm, Zenon DEF meta, DiskOK, Puts, Lays
  <2>5. ASSUME clean' PROVE Good(row, canon', tomb', sess')
    <3>. Sane(row, canon, tomb, sess)
      BY <2>5, Context, Zenon
    <3>2. Up(row, r) /\ row[r].at = p /\ Pure(tomb, r)
      BY <2>2, MemberMoved, Zenon
    <3>3. Burying(k) => tomb[u] = r /\ Only(row, p, r)
      BY MemberBury, SMTT(40)
    <3>4. Raising(k) => canon[p] = r /\ Vacant(row, p)
      BY MemberRaise, SMTT(40)
    <3>5. OneLive(row) /\ Uniq(canon, tomb)
      BY Zenon DEF Sane, Good
    <3>. Uniq(canon', tomb')
      BY <2>2, <3>5, UniqBury, UniqUnbury
    <3>7. \/ canon[p] = None /\ Only(row, p, r) /\ canon'[p] = r /\ tomb'[u] = None
          \/ canon[p] = r /\ Vacant(row, p) /\ canon'[p] = None /\ tomb'[u] = r
      BY <2>2, <3>3, <3>4, Zenon DEF Puts, Lays
    <3>8. /\ \A q \in Place : q # p => canon'[q] = canon[q]
          /\ \A t \in Owners \X Repos : t # u => tomb'[t] = tomb[t]
      BY <2>2, Zenon DEF Puts, Lays
    <3>. Pure(tomb', r)
      BY <3>2, <3>7, <3>8, Zenon DEF Pure
    <3>. Unless(r, row, canon', tomb', sess')
      BY <3>2, <3>7, Zenon DEF Unless, Settled, Kept, Own, Vacant
    <3>. Rewrites(k, row, row) /\ Retombs(row, tomb, tomb', p, r)
      BY <3>2, <3>8, SMTT(40) DEF Rewrites, Retombs
    <3>. Carries(p, row, canon, tomb, canon', tomb')
      BY <3>2, <3>7, <3>8, LifecycleAssumption, SMTT(40) DEF Carries, Up
    <3>. Others(k, r, row, canon, canon')
      BY <3>7, LifecycleAssumption DEF Others, Leaves, Only
    <3>. QED
      BY <2>3, <3>5, <3>8, OnePlaceDone, Zenon
  <2>. QED  BY <2>3, <2>4, <2>5, Whole, Zenon
<1>. QED  BY <1>4, <1>5, Zenon

\* A restore within the grace, of a repository still as it was read.
LEMMA FreshDeleted ==
    ASSUME TypeInv, Sane(row, canon, tomb, sess), NEW s \in Sessions, sess[s].pc = "restore", Fresh(s),
           ~(sess[s].del > Grace), sess[s].del # Grace
    PROVE  Up(row, sess[s].r) /\ row[sess[s].r].at = sess[s].at /\ row[sess[s].r].del < Grace
<1>. Reader(sess[s]) /\ sess[s].del \in Int
  BY LifecycleAssumption, SMTT(40) DEF TypeInv, SessOK, Session, Age, NotDeleted, Reader
<1>. row[sess[s].r].at = sess[s].at
  BY MemberRead, SMTT(40)
<1>. QED
  BY LifecycleAssumption, SMTT(40) DEF Fresh, Exists, Up

\* The directory of a deleted repository moves back to its place.
LEMMA RestoreRaises ==
    ASSUME Inv, NEW s \in Sessions, RestoreMove(s), ~(sess[s].del > Grace), ~NameActive(sess[s].at),
           canon[sess[s].at] = None, tomb[Tomb(sess[s].at, sess[s].r)] # None
    PROVE  Inv'
<1>. DEFINE k == sess[s]
            p == k.at
            r == k.r
            u == Tomb(p, r)
<1>. TypeInv /\ DiskOK
  BY DEF Inv, TypeInv
<1>. Reader(k) /\ ~Rel(k) /\ k.pc = "restore" /\ LockFree(p)
  BY Zenon DEF RestoreMove, Reader, Rel
<1>. r \in Repos /\ p \in Place /\ u \in Owners \X Repos /\ k.pc # "idle"
  BY AtWork, Zenon
<1>. PICK w \in Session :
         /\ Become(s, w) /\ Sound(w) /\ w.pc = "restoreCommit" /\ w.r = r /\ w.at = p
         /\ Sane(row, canon, tomb, sess) => \A t \in Sessions : t # s => Compatible(w, sess[t])
  BY Holds, Zenon DEF RestoreMove
<1>. SessOK' /\ Turns(sess, sess', s, w)
  BY Turning, Zenon
<1>. Puts(canon, canon', p, tomb[u]) /\ Lays(tomb, tomb', u, None)
  BY UnburyDisk, Zenon DEF RestoreMove
<1>. RowOK' /\ MetaOK' /\ DiskOK' /\ row' = row
  BY Same, Zenon DEF RestoreMove, meta, DiskOK, Puts, Lays
<1>. HistOK' /\ (clean' => clean /\ Fresh(s) /\ k.del # Grace)
  <2>. clean' \in BOOLEAN /\ (clean' => clean /\ Fresh(s) /\ k.del # Grace)
    BY Zenon DEF RestoreMove
  <2>. QED  BY Hist, Zenon DEF RestoreMove
<1>. ASSUME clean' PROVE Good(row, canon', tomb', sess')
  <2>. Sane(row, canon, tomb, sess)
    BY Context, Zenon
  <2>. Up(row, r) /\ row[r].at = p /\ row[r].del < Grace
    BY FreshDeleted, Zenon
  <2>. None # r
    BY LifecycleAssumption, Zenon
  <2>. Pure(tomb, r) /\ tomb[u] = r
    BY Located, Zenon
  <2>. Unborn(row, canon, tomb, sess) /\ Uniq(canon, tomb) /\ OneLive(row)
    BY Zenon DEF Sane, Good
  <2>. Vacant(row, p) /\ canon'[p] = r /\ Pure(tomb', r)
    BY Zenon DEF Vacant, NameActive, Live, Exists, On, Puts, Lays, Pure
  <2>. Fits(w, row, canon', tomb')
    BY FitsRaisingOf, Zenon
  <2>. Uniq(canon', tomb')
    BY UniqUnbury, Zenon
  <2>. Barren(k, row, canon, tomb, row, canon', tomb')
    <3>. ASSUME NEW x \in Repos, row[x].st = "none"
         PROVE  /\ \A q \in Place : canon'[q] = x => canon[q] = x
                /\ \A t \in Owners \X Repos : tomb'[t] = x => tomb[t] = x
                /\ \A o \in Owners : tomb'[<<o, x>>] = tomb[<<o, x>>]
      BY LifecycleAssumption, SMTT(40) DEF Puts, Lays, Up, Tomb
    <3>. QED  BY Zenon DEF Barren
  <2>. Unborn(row, canon', tomb', sess')
    BY UnbornStep, Zenon
  <2>. /\ Rewrites(k, row, row) /\ Retombs(row, tomb, tomb', p, r)
       /\ \A q \in Place : q # p => canon'[q] = canon[q]
    BY SMTT(40) DEF Rewrites, Retombs, Puts, Lays, Tomb
  <2>. Unless(r, row, canon', tomb', sess')
    BY Zenon DEF Unless, Settled, Kept, Own
  <2>. Others(k, r, row, canon, canon')
    BY LifecycleAssumption, Zenon DEF Others, Leaves, Vacant
  <2>. Alights(sess, s, row, row)
    BY LockSpares, Zenon DEF Alights
  <2>. QED
    BY OnePlace, Zenon
<1>. QED  BY Whole, Zenon

\* moveDeletedToCanonical
LEMMA RestoreMoveInv ==
    ASSUME Inv, NEW s \in Sessions, RestoreMove(s)
    PROVE  Inv'
<1>. DEFINE k == sess[s]
            p == k.at
            r == k.r
            refused == k.del > Grace \/ NameActive(p)
<1>. TypeInv
  BY DEF Inv
<1>. Reader(k) /\ ~Rel(k) /\ k.pc = "restore" /\ LockFree(p) /\ k.pc # "createCommit"
  BY Zenon DEF RestoreMove, Reader, Rel
<1>. r \in Repos /\ r # None /\ p \in Place /\ k.pc # "idle"
  BY AtWork, LifecycleAssumption, Zenon
<1>. HistOK' /\ (clean' => clean /\ Fresh(s) /\ k.del # Grace)
  <2>. clean' \in BOOLEAN /\ (clean' => clean /\ Fresh(s) /\ k.del # Grace)
    BY Zenon DEF RestoreMove
  <2>. QED  BY Hist, Zenon DEF RestoreMove
<1>. CASE ~refused /\ canon[p] = None /\ tomb[Tomb(p, r)] # None
  BY RestoreRaises, Zenon
<1>. CASE ~refused /\ canon[p] # None /\ tomb[Tomb(p, r)] = None
  <2>. UNCHANGED <<row, meta, disk>> /\ Holding(s, "restoreCommit", FALSE)
    BY Zenon DEF RestoreMove
  <2>. PICK w \in Session :
           /\ Become(s, w) /\ Sound(w) /\ w.pc = "restoreCommit" /\ w.r = r /\ w.at = p
           /\ Sane(row, canon, tomb, sess) => \A t \in Sessions : t # s => Compatible(w, sess[t])
    BY Holds, Zenon
  <2>. ASSUME clean' PROVE clean /\ Fits(w, row, canon, tomb) /\ Sane(row, canon, tomb, sess)
    <3>. Sane(row, canon, tomb, sess)
      BY Context, Zenon
    <3>. Up(row, r) /\ row[r].at = p /\ row[r].del < Grace
      BY FreshDeleted, Zenon
    <3>. Pure(tomb, r) /\ canon[p] = r
      BY Located, Zenon
    <3>. Vacant(row, p)
      BY Zenon DEF Vacant, NameActive, Live, Exists, On
    <3>. QED  BY FitsRaisingOf, Zenon
  <2>. QED  BY Turned, Zenon
<1>. CASE refused \/ (canon[p] = None) = (tomb[Tomb(p, r)] = None)
  <2>. UNCHANGED <<row, meta, disk>> /\ Done(s)
    BY Zenon DEF RestoreMove
  <2>. QED  BY Quiet, Zenon
<1>. QED  BY Zenon

-----------------------------------------------------------------------------
(* Hard delete *)

\* A hard delete takes the lock of the place it has read.
LEMMA Erases ==
    ASSUME TypeInv, NEW s \in Sessions, HardDeleteRow(s), ~(sess[s].del < Grace)
    PROVE  \E w \in Session :
              /\ Become(s, w) /\ Sound(w) /\ w.pc = "hardRemove" /\ w.r = sess[s].r /\ w.at = sess[s].at
              /\ ~w.active => ~NameActive(sess[s].at)
              /\ Sane(row, canon, tomb, sess) => \A t \in Sessions : t # s => Compatible(w, sess[t])
<1>. Reader(sess[s]) /\ ~Rel(sess[s]) /\ sess[s].pc # "renameCommit" /\ LockFree(sess[s].at) /\ RowFree(sess[s].r)
  BY Zenon DEF HardDeleteRow, Reader, Rel
<1>. sess[s] \in Session /\ sess[s].r \in Repos /\ sess[s].at \in Place /\ sess[s].to = None
  BY AtWork, Zenon
<1>. DEFINE w == [sess[s] EXCEPT !.pc = "hardRemove", !.lock = sess[s].at, !.active = NameActive(sess[s].at)]
<1>. Heir(w, sess[s], "hardRemove", sess[s].at) /\ w.active = NameActive(sess[s].at)
  <2>. "hardRemove" \in Steps
    BY Zenon DEF Steps
  <2>. NameActive(sess[s].at) \in BOOLEAN
    BY Zenon DEF NameActive
  <2>. QED  BY EraseWork, Zenon
<1>. Become(s, w)
  BY DEF HardDeleteRow
<1>. HIDE DEF w
<1>. ~w.active => ~NameActive(sess[s].at)
  BY Zenon
<1>. /\ w \in Session /\ w.pc = "hardRemove" /\ w.lock = w.at /\ w.r = sess[s].r /\ w.at = sess[s].at
     /\ w.to = None
  BY Zenon DEF Heir
<1>. ~In(w) /\ ~Loose(w) /\ Sound(w) /\ Places(w) = {sess[s].at}
  BY Zenon DEF In, Del, Rel, Loose, Holder, Sound, Places
<1>. ASSUME Sane(row, canon, tomb, sess), NEW t \in Sessions, t # s PROVE Compatible(w, sess[t])
  <2>. sess[t].lock # sess[s].at /\ (Loose(sess[t]) => Places(sess[t]) \cap {sess[s].at} = {})
    BY LockSpares, Zenon
  <2>. Del(sess[t]) => sess[t].r # w.r
    BY Zenon DEF Del, Deleting, RowFree
  <2>. QED  BY Takes, Zenon
<1>. QED
  BY Zenon

\* The grace, activeRepoNameExists and the DELETE.
LEMMA HardDeleteRowInv ==
    ASSUME Inv, NEW s \in Sessions, HardDeleteRow(s)
    PROVE  Inv'
<1>. TypeInv
  BY DEF Inv
<1>. Reader(sess[s]) /\ ~Rel(sess[s]) /\ sess[s].pc # "createCommit" /\ UNCHANGED <<row, meta, disk>>
  BY Zenon DEF HardDeleteRow, Reader, Rel
<1>. HistOK' /\ (clean' => clean /\ Fresh(s))
  <2>. clean' \in BOOLEAN /\ (clean' => clean /\ Fresh(s))
    BY Zenon DEF HardDeleteRow
  <2>. QED  BY Hist, Zenon DEF HardDeleteRow
<1>. CASE sess[s].del < Grace
  <2>. Done(s)
    BY DEF HardDeleteRow
  <2>. QED  BY Quiet, Zenon
<1>. CASE ~(sess[s].del < Grace)
  <2>. PICK w \in Session :
           /\ Become(s, w) /\ Sound(w) /\ w.pc = "hardRemove" /\ w.r = sess[s].r /\ w.at = sess[s].at
           /\ ~w.active => ~NameActive(sess[s].at)
           /\ Sane(row, canon, tomb, sess) => \A t \in Sessions : t # s => Compatible(w, sess[t])
    BY Erases, Zenon
  <2>. sess[s].del \in Int
    BY SMTT(40) DEF TypeInv, SessOK, Session, Age, NotDeleted
  <2>. ~w.active => Vacant(row, w.at)
    BY Zenon DEF Vacant, NameActive, Live, Exists, On
  <2>. ASSUME clean' PROVE clean /\ Fits(w, row, canon, tomb) /\ Sane(row, canon, tomb, sess)
    <3>. Sane(row, canon, tomb, sess)
      BY Context
    <3>. row[sess[s].r].at = sess[s].at
      BY MemberRead, SMTT(40)
    <3>. Up(row, w.r) /\ row[w.r].at = w.at /\ row[w.r].del >= Grace
      BY LifecycleAssumption, SMTT(40) DEF Fresh, Exists, Up
    <3>. QED  BY FitsDel, SMTT(40) DEF Del
  <2>. QED  BY Turned, Zenon
<1>. QED  BY Zenon

\* A hard delete goes on to its COMMIT, past the grace.
LEMMA Removes ==
    ASSUME TypeInv, NEW s \in Sessions, sess[s].pc = "hardRemove", Go(s, "hardCommit")
    PROVE  \E w \in Session :
              /\ Become(s, w) /\ Sound(w) /\ ~Rel(w)
              /\ \A C, T : Sane(row, canon, tomb, sess) => Fits(w, row, C, T)
              /\ Sane(row, canon, tomb, sess) => \A t \in Sessions : t # s => Compatible(w, sess[t])
<1>. Del(sess[s]) /\ Firm(sess[s]) /\ Holder(sess[s]) /\ ~Rel(sess[s]) /\ sess[s].pc # "renameCommit"
  BY Zenon DEF Del, Firm, Holder, Rel
<1>. /\ sess[s] \in Session /\ sess[s].r \in Repos /\ sess[s].at \in Place /\ sess[s].to = None
     /\ sess[s].lock = sess[s].at /\ sess[s].pc # "idle" /\ Places(sess[s]) = {sess[s].at}
  BY AtWork, Zenon
<1>. PICK w : Become(s, w) /\ Heir(w, sess[s], "hardCommit", sess[s].lock)
  <2>. "hardCommit" \in Steps
    BY Zenon DEF Steps
  <2>. QED  BY Going, Zenon
<1>. /\ w \in Session /\ w.pc = "hardCommit" /\ w.r = sess[s].r /\ w.at = sess[s].at /\ w.to = None
     /\ w.lock = sess[s].at
  BY Zenon DEF Heir
<1>. Sound(w) /\ ~In(w) /\ ~Rel(w) /\ ~Loose(w) /\ Del(w) /\ Places(w) = {sess[s].at} /\ w.pc # "hardRemove"
  BY Zenon DEF Sound, In, Rel, Loose, Del, Holder, Places
<1>. ASSUME Sane(row, canon, tomb, sess), NEW C, NEW T PROVE Fits(w, row, C, T)
  BY MemberDel, FitsDel, SMTT(40)
<1>. ASSUME Sane(row, canon, tomb, sess), NEW t \in Sessions, t # s PROVE Compatible(w, sess[t])
  <2>. Compatible(sess[s], sess[t])
    BY Member, Zenon
  <2>. QED  BY GoesOn, Zenon
<1>. QED
  BY Zenon

\* The directory that is removed is that of no other repository within its grace.
LEMMA HardDeleteErases ==
    ASSUME Inv, NEW s \in Sessions, sess[s].pc = "hardRemove", Go(s, "hardCommit"),
           \/ canon' = canon /\ tomb' = [tomb EXCEPT ![Tomb(sess[s].at, sess[s].r)] = None]
           \/ /\ tomb[Tomb(sess[s].at, sess[s].r)] = None /\ ~sess[s].active
              /\ canon' = [canon EXCEPT ![sess[s].at] = None] /\ tomb' = tomb,
           UNCHANGED <<row, meta>>, HistOK', clean' => clean /\ ~Mistakes(s)
    PROVE  Inv'
<1>. DEFINE k == sess[s]
            p == k.at
            r == k.r
            u == Tomb(p, r)
<1>. TypeInv /\ DiskOK
  BY Zenon DEF Inv, TypeInv
<1>. Del(k) /\ Firm(k) /\ ~Rel(k)
  BY Zenon DEF Del, Firm, Holder, Rel
<1>. r \in Repos /\ p \in Place /\ u \in Owners \X Repos
  BY AtWork, Zenon
<1>4. PICK w \in Session :
         /\ Become(s, w) /\ Sound(w)
         /\ \A C, T : Sane(row, canon, tomb, sess) => Fits(w, row, C, T)
         /\ Sane(row, canon, tomb, sess) => \A t \in Sessions : t # s => Compatible(w, sess[t])
  BY Removes, Zenon
<1>5. SessOK' /\ Turns(sess, sess', s, w)
  BY <1>4, Turning, Zenon
<1>6. \/ canon' = canon /\ Lays(tomb, tomb', u, None)
      \/ tomb[u] = None /\ ~k.active /\ Puts(canon, canon', p, None) /\ tomb' = tomb
  BY PutDisk, LayDisk, Zenon DEF Dir
<1>7. RowOK' /\ MetaOK' /\ DiskOK' /\ row' = row
  BY <1>6, Same, Zenon DEF meta, DiskOK, Puts, Lays
<1>8. ASSUME clean' PROVE Good(row, canon', tomb', sess')
  <2>. Sane(row, canon, tomb, sess)
    BY <1>8, Context, Zenon
  <2>1. Fits(w, row, canon', tomb') /\ \A t \in Sessions : t # s => Compatible(w, sess[t])
    BY <1>4, Zenon
  <2>2. Up(row, r) /\ row[r].at = p /\ row[r].del >= Grace
    BY MemberDel, Zenon
  <2>3. Unborn(row, canon, tomb, sess) /\ Uniq(canon, tomb) /\ OneLive(row)
    BY Zenon DEF Sane, Good
  <2>4. Uniq(canon', tomb')
    BY <1>6, <2>3, UniqPut, UniqLay, Zenon
  <2>5. /\ \A q \in Place : canon'[q] = canon[q] \/ (q = p /\ canon'[q] = None)
        /\ \A t \in Owners \X Repos : tomb'[t] = tomb[t] \/ (t = u /\ tomb'[t] = None)
    BY <1>6, Zenon DEF Puts, Lays
  <2>6. Barren(k, row, canon, tomb, row, canon', tomb')
    <3>. ASSUME NEW x \in Repos, row[x].st = "none"
         PROVE  /\ \A q \in Place : canon'[q] = x => canon[q] = x
                /\ \A t \in Owners \X Repos : tomb'[t] = x => tomb[t] = x
                /\ \A o \in Owners : tomb'[<<o, x>>] = tomb[<<o, x>>]
      BY <2>2, <2>5, LifecycleAssumption DEF Up, Tomb
    <3>. QED  BY Zenon DEF Barren
  <2>7. Unborn(row, canon', tomb', sess')
    BY <1>5, <2>3, <2>6, UnbornStep, Zenon
  <2>8. /\ Rewrites(k, row, row) /\ Retombs(row, tomb, tomb', p, r)
        /\ \A q \in Place : q # p => canon'[q] = canon[q]
    BY <2>2, <2>5, SMTT(40) DEF Rewrites, Retombs, Tomb
  <2>9. Unless(r, row, canon', tomb', sess')
    <3>. row[r].del \in Int
      BY SMTT(40) DEF TypeInv, RowOK, Row, Age, NotDeleted
    <3>. QED  BY <2>2, PastGrace, LifecycleAssumption, SMTT(40) DEF Unless
  <2>10. ASSUME NEW x \in Repos, x # r, Up(row, x), row[x].at = p PROVE Leaves(row, canon, canon', p, x)
    <3>. CASE canon' = canon
      BY Zenon DEF Leaves
    <3>. CASE tomb[u] = None /\ ~k.active /\ canon'[p] = None
      <4>. Vacant(row, p)
        BY Member, Zenon DEF Fits
      <4>. canon[p] # x
        BY <1>8, <2>10, LifecycleAssumption, Zenon DEF Mistakes, Live, Exists, Vacant, On
      <4>. QED  BY Zenon DEF Leaves
    <3>. QED  BY <1>6, Zenon DEF Puts
  <2>11. Others(k, r, row, canon, canon')
    BY <2>10, Zenon DEF Others
  <2>. QED
    BY <1>5, <2>1, <2>3, <2>4, <2>7, <2>8, <2>9, <2>11, OnePlace, Zenon
<1>. QED  BY <1>5, <1>7, <1>8, Whole, Zenon

\* removeDeletedRepoPath
LEMMA HardDeleteRemoveInv ==
    ASSUME Inv, NEW s \in Sessions, HardDeleteRemove(s)
    PROVE  Inv'
<1>. TypeInv
  BY DEF Inv
<1>. sess[s].pc = "hardRemove" /\ Go(s, "hardCommit") /\ UNCHANGED <<row, meta>> /\ ~Rel(sess[s]) /\ sess[s].pc # "createCommit"
  BY Zenon DEF HardDeleteRemove, Rel
<1>. HistOK' /\ (clean' => clean)
  <2>. clean' = clean \/ clean' = (clean /\ ~Mistakes(s))
    BY Zenon DEF HardDeleteRemove
  <2>. clean \in BOOLEAN
    BY Zenon DEF TypeInv, HistOK
  <2>. clean' \in BOOLEAN /\ (clean' => clean)
    <3>. CASE clean' = clean
      BY Zenon
    <3>. CASE clean' = (clean /\ ~Mistakes(s))
      BY Zenon
    <3>. QED  BY Zenon
  <2>. QED  BY Hist, Zenon DEF HardDeleteRemove
<1>. CASE UNCHANGED disk
  <2>. PICK w \in Session :
           /\ Become(s, w) /\ Sound(w) /\ ~Rel(w)
           /\ \A C, T : Sane(row, canon, tomb, sess) => Fits(w, row, C, T)
           /\ Sane(row, canon, tomb, sess) => \A t \in Sessions : t # s => Compatible(w, sess[t])
    BY Removes, Zenon
  <2>. ASSUME clean'
       PROVE  clean /\ Fits(w, row, canon, tomb) /\ \A t \in Sessions : t # s => Compatible(w, sess[t])
    BY Context, Zenon
  <2>. QED  BY Turned, Zenon
<1>. CASE ~UNCHANGED disk
  <2>. \/ canon' = canon /\ tomb' = [tomb EXCEPT ![Tomb(sess[s].at, sess[s].r)] = None]
       \/ /\ tomb[Tomb(sess[s].at, sess[s].r)] = None /\ ~sess[s].active
          /\ canon' = [canon EXCEPT ![sess[s].at] = None] /\ tomb' = tomb
    BY Zenon DEF HardDeleteRemove, disk
  <2>. clean' => clean /\ ~Mistakes(s)
    BY Zenon DEF HardDeleteRemove, disk
  <2>. QED  BY HardDeleteErases, Zenon
<1>. QED  BY Zenon

\* ON DELETE CASCADE.
LEMMA Cascade ==
    ASSUME MetaOK, NEW r \in Repos,
           redirect' = [p \in Place |-> IF redirect[p] = r THEN None ELSE redirect[p]],
           xfer' = [t \in Transfers |-> IF xfer[t].r = r THEN [xfer[t] EXCEPT !.st = "gone"] ELSE xfer[t]]
    PROVE  MetaOK'
<1>. redirect' \in [Place -> Dir]
  BY Zenon DEF MetaOK, Dir
<1>. ASSUME NEW t \in Transfers PROVE xfer'[t] \in Transfer /\ Meant(xfer'[t])
  <2>. xfer[t] \in Transfer /\ Meant(xfer[t])
    BY Zenon DEF MetaOK
  <2>. [xfer[t] EXCEPT !.st = "gone"] \in Transfer /\ Meant([xfer[t] EXCEPT !.st = "gone"])
    BY Zenon DEF Transfer, Meant
  <2>. QED  BY Zenon
<1>. QED  BY Zenon DEF MetaOK

\* The row is gone.
LEMMA HardDeleteCommitInv ==
    ASSUME Inv, NEW s \in Sessions, HardDeleteCommit(s)
    PROVE  Inv'
<1>. DEFINE k == sess[s]
            p == k.at
            r == k.r
<1>. TypeInv /\ RowOK /\ MetaOK
  BY Zenon DEF Inv, TypeInv
<1>. Del(k) /\ Firm(k) /\ ~Rel(k) /\ ~In(k) /\ k.pc # "createCommit" /\ k.pc # "createUndo"
  BY Zenon DEF HardDeleteCommit, Del, Firm, Holder, Rel, In
<1>. r \in Repos /\ p \in Place
  BY AtWork, Zenon
<1>. SessOK' /\ Turns(sess, sess', s, Idle)
  BY Resting, Zenon DEF HardDeleteCommit
<1>. Differs(row, row', r) /\ row'[r].st = "gone" /\ row'[r].at = row[r].at
  BY SpendRow, Zenon DEF HardDeleteCommit, RowOK
<1>. RowOK' /\ DiskOK' /\ HistOK' /\ canon' = canon /\ tomb' = tomb
  BY RowStep, Same, Calm, Zenon DEF HardDeleteCommit, disk
<1>. MetaOK'
  BY Cascade, Zenon DEF HardDeleteCommit
<1>. ASSUME clean' PROVE Good(row', canon, tomb, sess')
  <2>. Sane(row, canon, tomb, sess)
    BY Context, Zenon DEF HardDeleteCommit
  <2>. row[r].at = p
    BY MemberDel, SMTT(40)
  <2>. OneLive(row) /\ Uniq(canon, tomb)
    BY Zenon DEF Sane, Good
  <2>. OneLive(row')
    BY DEF OneLive, On, Differs
  <2>. /\ Rewrites(k, row, row') /\ Retombs(row, tomb, tomb, p, r) /\ Unless(r, row', canon, tomb, sess')
       /\ Carries(p, row', canon, tomb, canon, tomb) /\ Others(k, r, row, canon, canon)
    BY Zenon DEF Rewrites, Retombs, Unless, Up, Carries, Others, Leaves
  <2>. QED
    BY OnePlaceDone, Zenon
<1>. QED  BY Whole, Zenon

\* The sweep meets the row again.
LEMMA HardDeleteFailsInv ==
    ASSUME Inv, NEW s \in Sessions, HardDeleteFails(s)
    PROVE  Inv'
<1>. TypeInv /\ ~Rel(sess[s]) /\ sess[s].pc # "createCommit"
  BY DEF Inv, HardDeleteFails, Rel
<1>. HistOK'
  BY Hist, Zenon DEF HardDeleteFails, TypeInv, HistOK
<1>. QED
  BY Quiet, Zenon DEF HardDeleteFails

-----------------------------------------------------------------------------
(* Rename and transfer *)

\* A rename reads its row.
LEMMA RenameReadInv ==
    ASSUME Inv, NEW s \in Sessions, NEW r \in Repos, NEW n \in Names, RenameRead(s, r, n)
    PROVE  Inv'
<1>. DEFINE q == <<row[r].at[1], n>>
<1>. TypeInv /\ RowOK
  BY Zenon DEF Inv, TypeInv
<1>. row[r].at \in Place /\ Exists(r)
  BY RowPlace, Zenon DEF RenameRead, Live
<1>. q \in Place /\ q[1] = row[r].at[1]
  BY Zenon DEF Place
<1>. HIDE DEF q
<1>. PICK w : Become(s, w) /\ Newborn(w, "renameCommit", r, row[r].at, q, NotDeleted, None)
  <2>. "renameCommit" \in Steps
    BY Zenon DEF Steps
  <2>. DEFINE w == [Idle EXCEPT !.pc = "renameCommit", !.r = r, !.at = row[r].at, !.to = q]
  <2>. Newborn(w, "renameCommit", r, row[r].at, q, NotDeleted, None)
    BY MoveWork, Zenon
  <2>. Become(s, w)
    BY Zenon DEF RenameRead, q
  <2>. HIDE DEF w
  <2>. QED  BY Zenon
<1>. /\ w \in Session /\ w.pc = "renameCommit" /\ w.r = r /\ w.at = row[r].at /\ w.to = q
     /\ w.lock = None
  BY Zenon DEF Newborn
<1>. Reader(w) /\ Places(w) = {row[r].at} /\ Sound(w)
  BY Zenon DEF Reader, Rel, Places, Sound, Holder, In, Del
<1>. HistOK'
  <2>. clean' \in BOOLEAN
    BY Zenon DEF RenameRead, Begin
  <2>. QED  BY Hist, Zenon DEF RenameRead
<1>. ~Rel(sess[s]) /\ sess[s].pc # "createCommit"
  BY Zenon DEF Rel, RenameRead
<1>. ASSUME clean'
     PROVE  clean /\ Fits(w, row, canon, tomb) /\ \A t \in Sessions : t # s => Compatible(w, sess[t])
  <2>. clean /\ \A t \in Sessions : Loose(sess[t]) => Places(sess[t]) \cap {row[r].at} = {}
    BY Avoids, Zenon DEF RenameRead
  <2>. Fits(w, row, canon, tomb)
    BY FitsReader, Zenon DEF Exists
  <2>. ASSUME NEW t \in Sessions PROVE Compatible(w, sess[t])
    BY Reads
  <2>. QED  BY Zenon
<1>. QED
  BY Turned, Zenon DEF RenameRead

\* The row of r is at q, its data still at p, and nobody else is at either.
LEMMA Relocated ==
    ASSUME NEW R, NEW C, NEW T, NEW S, Sane(R, C, T, S), NEW s \in Sessions,
           ~Rel(S[s]), S[s].pc # "createCommit",
           NEW p \in Place, NEW q \in Place,
           \A t \in Sessions : t # s /\ S[t].pc # "idle" => Places(S[t]) \cap {p, q} = {},
           NEW r \in Repos, On(R, r), R[r].at = p, C[p] = r,
           \A x \in Repos : On(R, x) /\ R[x].at = q => x = r,
           NEW R2, Differs(R, R2, r), R2[r].st = R[r].st, R2[r].at = q, R2[r].del = R[r].del,
           NEW S2, NEW w, Turns(S, S2, s, w), Rel(w), w.r = r, w.at = p, w.to = q, w.lock = None
    PROVE  Good(R2, C, T, S2)
<1>1. OneLive(R) /\ Uniq(C, T) /\ Unborn(R, C, T, S) /\ \A x \in Repos : Settled(x, R, C, T, S)
  BY Zenon DEF Sane, Good
<1>2. On(R2, r) /\ Up(R, r) /\ R[r].del < Grace /\ \A x \in Repos : x # r => R2[x] = R[x]
  BY LifecycleAssumption, SMTT(40) DEF On, Up, Differs, NotDeleted
<1>3. Local(R, C, T, R2, C, T, S[s], {p, q})
  BY <1>2, Zenon DEF Local
<1>. ~In(w) /\ ~Del(w) /\ Places(w) = {p, q}
  BY DEF Rel, In, Del, Places
<1>5. ASSUME NEW t \in Sessions, t # s PROVE Spares(S[t], R, R2, {p, q}) /\ Compatible(w, S[t])
  <2>. Compatible(w, S[t])
    BY <1>5, LetsGo, Zenon
  <2>. Firm(S[t]) => Places(S[t]) \cap {p, q} = {}
    BY <1>5, Zenon DEF Firm, Holder, Loose, In, Del, Rel
  <2>. ASSUME Reader(S[t]) PROVE R2[S[t].r].st # "none" /\ R2[S[t].r].at = R[S[t].r].at
    <3>. R[S[t].r].st # "none" /\ R[S[t].r].at = S[t].at
      BY MemberRead, SMTT(40)
    <3>. S[t].pc # "idle" /\ S[t].at \in Places(S[t])
      BY Zenon DEF Reader, Rel, Places
    <3>. S[t].r \in Repos
      BY Member, Zenon DEF Sound
    <3>. S[t].r # r
      BY <1>5, Zenon
    <3>. QED  BY <1>2, Zenon
  <2>. QED  BY Zenon DEF Spares
<1>. Fits(w, R2, C, T)
  <2>. Only(R2, p, r)
    BY <1>1, <1>2 DEF Only, OneLive, On
  <2>. QED  BY <1>2, FitsRel
<1>. OneLive(R2)
  BY <1>1, <1>2, SMTT(40) DEF OneLive, On
<1>. Unborn(R2, C, T, S2)
  <2>. Barren(S[s], R, C, T, R2, C, T)
    BY <1>2 DEF Barren
  <2>. QED  BY <1>1, UnbornStep, Zenon
<1>. ASSUME NEW x \in Repos PROVE Settled(x, R2, C, T, S2)
  <2>. CASE x = r
    <3>. Underway(S2, r)
      BY Zenon DEF Underway, Turns
    <3>. Pure(T, r)
      BY <1>1, <1>2, Zenon DEF Settled, Kept
    <3>. QED  BY Zenon DEF Settled, Kept, Own
  <2>. CASE x # r
    <3>. Underway(S, x) => Underway(S2, x)
      BY UnderwayStep, Zenon
    <3>. R2[x] = R[x] /\ Settled(x, R, C, T, S)
      BY <1>1, <1>2, Zenon
    <3>. QED  BY Zenon DEF Settled, Kept, Own, Up, On
  <2>. QED  BY Zenon
<1>. QED
  BY <1>1, <1>3, <1>5, Framed, Zenon

\* A relocation commits.
LEMMA RelocateInv ==
    ASSUME Inv, NEW s \in Sessions, ~Rel(sess[s]), sess[s].pc # "createCommit",
           NEW r \in Repos, Exists(r), NEW q \in Place, Live(r) => ~Collides(r, q),
           row' = [row EXCEPT ![r].at = q], Relocate(s, r, q),
           NEW w \in Session, Sound(w), Become(s, w), Rel(w), w.r = r, w.lock = None,
           clean' => w.at = row[r].at /\ w.to = q,
           MetaOK', UNCHANGED <<disk, faults, acked>>
    PROVE  Inv'
<1>. TypeInv /\ RowOK
  BY Zenon DEF Inv, TypeInv
<1>. SessOK' /\ Turns(sess, sess', s, w)
  BY Turning, Zenon
<1>. /\ Differs(row, row', r) /\ row'[r].st = row[r].st /\ row'[r].at = q /\ row'[r].del = row[r].del
     /\ row[r].at \in Place /\ q # None
  BY PlaceRow, RowPlace, Zenon
<1>. RowOK' /\ DiskOK' /\ canon' = canon /\ tomb' = tomb
  BY RowStep, Same, Zenon DEF disk
<1>. HistOK'
  <2>. clean' \in BOOLEAN
    BY Zenon DEF Relocate
  <2>. QED  BY Hist, Zenon
<1>. ASSUME clean' PROVE Good(row', canon, tomb, sess')
  <2>. clean /\ Live(r) /\ canon[row[r].at] = r /\ Apart(Sessions \ {s}, {row[r].at, q})
    BY Zenon DEF Relocate
  <2>. Sane(row, canon, tomb, sess)
    BY Context, Zenon
  <2>. \A t \in Sessions : t # s /\ sess[t].pc # "idle" => Places(sess[t]) \cap {row[r].at, q} = {}
    BY Alone, Zenon
  <2>. On(row, r) /\ \A x \in Repos : On(row, x) /\ row[x].at = q => x = r
    BY Zenon DEF On, Live, Exists, Collides
  <2>. QED
    BY Relocated, Zenon
<1>. QED  BY Whole

\* The redirect of the old place.
LEMMA Redirects ==
    ASSUME MetaOK, NEW p \in Place, NEW d \in Dir, redirect' = [redirect EXCEPT ![p] = d]
    PROVE  redirect' \in [Place -> Dir]
BY Zenon DEF MetaOK

\* RenameRepo
LEMMA RenameCommitInv ==
    ASSUME Inv, NEW s \in Sessions, RenameCommit(s)
    PROVE  Inv'
<1>. DEFINE k == sess[s]
            r == k.r
            q == NewPlace(s)
<1>. TypeInv /\ RowOK /\ MetaOK
  BY Zenon DEF Inv, TypeInv
<1>. Reader(k) /\ ~Rel(k) /\ k.pc = "renameCommit" /\ k.pc # "createCommit"
  BY Zenon DEF RenameCommit, Reader, Rel
<1>. k \in Session /\ Sound(k) /\ r \in Repos /\ k.at \in Place /\ k.pc # "idle"
  BY AtWork, Zenon
<1>. k.to \in Place /\ k.to[1] = k.at[1] /\ k.lock = None
  BY Zenon DEF Sound
<1>. Exists(r) /\ row[r].at \in Place
  BY RowPlace, Zenon DEF RenameCommit
<1>. q \in Place /\ (row[r].at = k.at => q = k.to)
  BY SMTT(40) DEF NewPlace, Place
<1>. PICK w : Become(s, w) /\ Heir(w, k, "renameMove", k.lock)
  <2>. "renameMove" \in Steps
    BY Zenon DEF Steps
  <2>. QED  BY Going, Zenon DEF RenameCommit
<1>. w \in Session /\ w.pc = "renameMove" /\ w.r = r /\ w.at = k.at /\ w.to = k.to /\ w.lock = None
  BY Zenon DEF Heir
<1>. Rel(w) /\ Sound(w)
  BY Zenon DEF Rel, Sound, Holder, In, Del
<1>. ASSUME clean' PROVE w.at = row[r].at /\ w.to = q
  <2>. clean
    BY Zenon DEF RenameCommit, Relocate
  <2>. row[r].at = k.at
    BY Context, MemberRead, SMTT(40)
  <2>. QED  BY Zenon
<1>. MetaOK'
  <2>. redirect' \in [Place -> Dir]
    BY Redirects, Zenon DEF RenameCommit, MetaOK, Dir
  <2>. QED  BY Zenon DEF MetaOK, RenameCommit
<1>. QED
  BY RelocateInv, Zenon DEF RenameCommit

\* AcceptTransfer
LEMMA AcceptTransferInv ==
    ASSUME Inv, NEW s \in Sessions, NEW t \in Transfers, AcceptTransfer(s, t)
    PROVE  Inv'
<1>. DEFINE r == xfer[t].r
            p == row[r].at
            q == <<xfer[t].to, p[2]>>
<1>. TypeInv /\ RowOK /\ MetaOK
  BY DEF Inv, TypeInv
<1>. ~Rel(sess[s]) /\ sess[s].pc # "createCommit" /\ Exists(r)
  BY Zenon DEF AcceptTransfer, Rel
<1>. r \in Repos /\ xfer[t].to \in Owners /\ xfer[t] \in Transfer
  BY Zenon DEF MetaOK, Meant, AcceptTransfer
<1>. p \in Place /\ q \in Place
  BY RowPlace, Zenon DEF Place
<1>. HIDE DEF q
<1>. PICK w : Become(s, w) /\ Newborn(w, "transferMove", r, p, q, NotDeleted, None)
  <2>. "transferMove" \in Steps
    BY Zenon DEF Steps
  <2>. DEFINE w == [Idle EXCEPT !.pc = "transferMove", !.r = r, !.at = p, !.to = q]
  <2>. Newborn(w, "transferMove", r, p, q, NotDeleted, None)
    BY MoveWork, Zenon
  <2>. Become(s, w)
    BY Zenon DEF AcceptTransfer, q
  <2>. HIDE DEF w
  <2>. QED  BY Zenon
<1>. w \in Session /\ w.pc = "transferMove" /\ w.r = r /\ w.at = p /\ w.to = q /\ w.lock = None
  BY Zenon DEF Newborn
<1>. Rel(w) /\ Sound(w)
  BY Zenon DEF Rel, Sound, Holder, In, Del
<1>. MetaOK'
  <2>. redirect' \in [Place -> Dir]
    BY Redirects, Zenon DEF AcceptTransfer, MetaOK, Dir
  <2>. xfer' \in [Transfers -> Transfer] /\ \A x \in Transfers : Meant(xfer'[x])
    BY Zenon DEF AcceptTransfer, MetaOK, Transfer, Meant
  <2>. QED  BY Zenon DEF MetaOK
<1>. Live(r) => ~Collides(r, q)
  BY Zenon DEF AcceptTransfer, q
<1>. row' = [row EXCEPT ![r].at = q] /\ Relocate(s, r, q) /\ UNCHANGED <<disk, faults, acked>>
  BY Zenon DEF AcceptTransfer, q
<1>. QED
  BY RelocateInv, Zenon

\* ErrNameTaken, a row that is gone, or a failed COMMIT.
LEMMA RenameFailsInv ==
    ASSUME Inv, NEW s \in Sessions, RenameFails(s)
    PROVE  Inv'
<1>. TypeInv /\ ~Rel(sess[s]) /\ sess[s].pc # "createCommit"
  BY Zenon DEF Inv, RenameFails, Rel
<1>. HistOK'
  <2>. clean' \in BOOLEAN
    BY Zenon DEF RenameFails, TypeInv, HistOK
  <2>. QED  BY Hist, Zenon DEF RenameFails
<1>. QED
  BY Quiet, Zenon DEF RenameFails

\* Once the history is not clean, only the types matter.
LEMMA Dirty ==
    ASSUME TypeInv, NEW s \in Sessions, NEW w \in Session, Sound(w), Become(s, w),
           UNCHANGED <<row, meta, disk>>, HistOK', ~clean'
    PROVE  Inv'
<1>. SessOK'
  BY Turning, Zenon
<1>. RowOK' /\ MetaOK' /\ DiskOK'
  BY Same DEF meta, disk
<1>. QED  BY Whole, Zenon

\* The directory follows the row.
LEMMA ShiftInv ==
    ASSUME Inv, NEW s \in Sessions, Rel(sess[s]), canon[sess[s].at] # None, canon[sess[s].to] = None,
           Shift(sess[s].at, sess[s].to), Done(s), UNCHANGED <<row, meta, tomb, faults, acked, clean>>
    PROVE  Inv'
<1>. DEFINE k == sess[s]
            p == k.at
            q == k.to
            r == k.r
<1>. TypeInv /\ DiskOK
  BY Zenon DEF Inv, TypeInv
<1>. r \in Repos /\ p \in Place /\ q \in Place /\ Places(k) = {p, q} /\ Loose(k) /\ k.pc # "idle"
  BY Relocating, Zenon
<1>1. SessOK' /\ Turns(sess, sess', s, Idle)
  BY Resting, Zenon
<1>2. Shifts(canon, canon', p, q)
  BY ShiftDisk, Zenon
<1>3. RowOK' /\ MetaOK' /\ DiskOK' /\ HistOK' /\ row' = row /\ tomb' = tomb
  BY <1>2, Same, Calm, Zenon DEF meta, DiskOK, Shifts
<1>4. ASSUME clean' PROVE Good(row, canon', tomb, sess')
  <2>. Sane(row, canon, tomb, sess)
    BY <1>4, Context, Zenon
  <2>. On(row, r) /\ row[r].at = q /\ Only(row, p, r) /\ canon[p] = r
    BY Relocates, Zenon
  <2>. OneLive(row) /\ Uniq(canon, tomb) /\ Unborn(row, canon, tomb, sess) /\ Settled(r, row, canon, tomb, sess)
    BY Zenon DEF Sane, Good
  <2>. Fits(Idle, row, canon', tomb) /\ \A t \in Sessions : Compatible(Idle, sess[t])
    BY IdleFits, Zenon
  <2>. Local(row, canon, tomb, row, canon', tomb, k, {p, q})
    BY <1>2, Zenon DEF Local, Shifts
  <2>. \A t \in Sessions : t # s => Spares(sess[t], row, row, {p, q})
    BY LooseSpares, Zenon
  <2>. Uniq(canon', tomb)
    BY <1>2, UniqShift, Zenon
  <2>. Unborn(row, canon', tomb, sess')
    <3>. Barren(k, row, canon, tomb, row, canon', tomb)
      BY <1>2, LifecycleAssumption, SMTT(40) DEF Barren, Shifts, On, Rel
    <3>. QED  BY <1>1, UnbornStep, Zenon
  <2>. Settled(r, row, canon', tomb, sess')
    <3>. Up(row, r) /\ row[r].del < Grace
      BY OnGrace, Zenon
    <3>. Pure(tomb, r)
      BY Zenon DEF Settled, Kept
    <3>. QED  BY <1>2, Zenon DEF Shifts, Settled, Kept, Own
  <2>. ASSUME NEW x \in Repos, x # r, row[x].at \in {p, q} PROVE Settled(x, row, canon', tomb, sess')
    <3>. ~Underway(sess, x)
      BY NotUnderway, Zenon
    <3>. ~On(row, x) /\ canon[row[x].at] # x
      BY LifecycleAssumption, Zenon DEF OneLive, Only
    <3>. QED  BY SettledAside, Zenon
  <2>. \A t \in Sessions : t # s => Spares(sess[t], row, row, {p, q}) /\ Compatible(Idle, sess[t])
    BY Zenon
  <2>. Rel(k) => k.to \in {p, q}
    BY Zenon
  <2>. \A x \in Repos : Up(row, x) /\ row[x].at \in {p, q} => Settled(x, row, canon', tomb, sess')
    BY Zenon
  <2>. QED
    BY <1>1, Framed, Zenon
<1>. QED  BY <1>1, <1>3, <1>4, Whole

\* The move of a rename, or its failure.
LEMMA RenameMoveInv ==
    ASSUME Inv, NEW s \in Sessions, RenameMove(s)
    PROVE  Inv'
<1>. DEFINE k == sess[s]
<1>. TypeInv
  BY DEF Inv
<1>. k.pc = "renameMove" /\ Rel(k) /\ k.pc # "createCommit" /\ UNCHANGED <<row, meta, tomb, acked, clean>>
  BY Zenon DEF RenameMove, Rel
<1>. HistOK'
  <2>. clean' \in BOOLEAN
    BY Zenon DEF TypeInv, HistOK
  <2>. QED  BY Hist, Zenon DEF RenameMove
<1>. /\ k \in Session /\ Sound(k) /\ k.r \in Repos /\ k.at \in Place /\ k.to \in Place /\ k.pc # "idle"
     /\ Places(k) = {k.at, k.to} /\ Loose(k)
  BY Relocating, Zenon
<1>. CASE canon[k.at] # None /\ canon[k.to] = None /\ Shift(k.at, k.to) /\ Done(s) /\ UNCHANGED faults
  BY ShiftInv, Zenon
<1>. CASE canon[k.at] = None /\ Done(s) /\ UNCHANGED canon
  <2>. ~clean
    <3>. SUFFICES ASSUME clean PROVE FALSE
      OBVIOUS
    <3>. Sane(row, canon, tomb, sess)
      BY Context, Zenon
    <3>. canon[k.at] = k.r /\ k.r \in Repos
      BY Relocates, Relocating, Zenon
    <3>. QED  BY LifecycleAssumption, Zenon
  <2>. QED  BY Dirty, IdleWork DEF Done, disk
<1>. CASE Go(s, "renameUndo") /\ UNCHANGED canon
  <2>. PICK w : Become(s, w) /\ Heir(w, k, "renameUndo", k.lock)
    <3>. "renameUndo" \in Steps
      BY Zenon DEF Steps
    <3>. QED  BY Going, Zenon
  <2>. /\ w \in Session /\ w.pc = "renameUndo" /\ w.r = k.r /\ w.at = k.at /\ w.to = k.to
       /\ w.lock = k.lock
    BY Zenon DEF Heir
  <2>. Rel(w) /\ Sound(w) /\ ~In(w) /\ ~Del(w) /\ Places(w) = Places(k)
    BY Zenon DEF Rel, Sound, Holder, In, Del, Places
  <2>. ASSUME clean PROVE Fits(w, row, canon, tomb)
    <3>. Sane(row, canon, tomb, sess)
      BY Context, Zenon
    <3>. /\ On(row, k.r) /\ row[k.r].at = k.to /\ Only(row, k.at, k.r) /\ canon[k.at] = k.r
      BY Relocates, Zenon
    <3>. QED  BY FitsRelOf, Zenon
  <2>. ASSUME clean, NEW t \in Sessions, t # s PROVE Compatible(w, sess[t])
    <3>. Compatible(k, sess[t])
      BY Context, Member, Zenon
    <3>. QED  BY GoesOn, Zenon
  <2>. QED  BY Turned, Zenon DEF disk
<1>. QED  BY Zenon DEF RenameMove

\* The move of a transfer: best effort.
LEMMA TransferMoveInv ==
    ASSUME Inv, NEW s \in Sessions, TransferMove(s)
    PROVE  Inv'
<1>. TypeInv /\ Rel(sess[s]) /\ Done(s) /\ UNCHANGED <<row, meta, tomb, acked>>
  BY Zenon DEF Inv, TransferMove, Rel
<1>. HistOK'
  <2>. clean' \in BOOLEAN
    BY Zenon DEF TypeInv, HistOK, TransferMove
  <2>. QED  BY Hist, Zenon DEF TransferMove
<1>. CASE /\ canon[sess[s].at] # None /\ canon[sess[s].to] = None
          /\ Shift(sess[s].at, sess[s].to) /\ UNCHANGED <<faults, clean>>
  BY ShiftInv
<1>. CASE clean' = FALSE /\ UNCHANGED canon
  BY Dirty, IdleWork, Zenon DEF Done, disk
<1>. QED  BY Zenon DEF TransferMove

\* compensateRename
LEMMA RenameUndoInv ==
    ASSUME Inv, NEW s \in Sessions, RenameUndo(s)
    PROVE  Inv'
<1>. DEFINE k == sess[s]
            p == k.at
            q == k.to
            r == k.r
            p2 == <<row[r].at[1], p[2]>>
<1>. TypeInv /\ RowOK /\ MetaOK /\ Rel(k) /\ k.pc = "renameUndo" /\ UNCHANGED <<xfer, disk, faults, acked, clean>>
  BY Zenon DEF Inv, TypeInv, RenameUndo, Rel
<1>. r \in Repos /\ p \in Place /\ q \in Place /\ Places(k) = {p, q} /\ Loose(k) /\ k.pc # "idle"
  BY Relocating, Zenon
<1>1. SessOK' /\ Turns(sess, sess', s, Idle)
  BY Resting, Zenon DEF RenameUndo
<1>2. row' = row \/ (Exists(r) /\ row' = [row EXCEPT ![r].at = p2])
  BY Zenon DEF RenameUndo
<1>3. ASSUME Exists(r) PROVE p2 \in Place
  <2>. row[r].at \in Place
    BY <1>3, RowPlace, Zenon
  <2>. QED  BY Zenon DEF Place
<1>. HIDE DEF p2
<1>4. RowOK'
  <2>. CASE row' = row
    BY Same, Zenon
  <2>. CASE Exists(r) /\ row' = [row EXCEPT ![r].at = p2]
    BY <1>3, PlaceRow, RowStep, Zenon
  <2>. QED  BY <1>2
<1>5. MetaOK' /\ DiskOK' /\ HistOK' /\ canon' = canon /\ tomb' = tomb
  <2>. redirect' \in [Place -> Dir]
    BY Redirects, Zenon DEF RenameUndo, MetaOK, Dir
  <2>. MetaOK'
    BY Zenon DEF MetaOK
  <2>. QED  BY Same, Calm, Zenon DEF disk
<1>6. ASSUME clean' PROVE Good(row', canon, tomb, sess')
  <2>. Sane(row, canon, tomb, sess)
    BY <1>6, Context, Zenon
  <2>. On(row, r) /\ row[r].at = q /\ Only(row, p, r) /\ canon[p] = r /\ Exists(r)
    BY Relocates, Zenon DEF On, Exists
  <2>. p2 = p
    <3>. q[1] = p[1]
      BY Member, Zenon DEF Sound
    <3>. QED  BY SMTT(40) DEF Place, p2
  <2>. ~Collides(r, p)
    BY Zenon DEF Collides, Only, Live, Exists, On
  <2>. Differs(row, row', r) /\ row'[r].st = row[r].st /\ row'[r].at = p /\ row'[r].del = row[r].del
    <3>. row' = [row EXCEPT ![r].at = p]
      BY Zenon DEF RenameUndo, p2
    <3>. QED  BY PlaceRow, Zenon
  <2>. OneLive(row) /\ Uniq(canon, tomb) /\ Unborn(row, canon, tomb, sess) /\ \A x \in Repos : Settled(x, row, canon, tomb, sess)
    BY Zenon DEF Sane, Good
  <2>. Fits(Idle, row', canon, tomb) /\ \A t \in Sessions : Compatible(Idle, sess[t])
    BY IdleFits, Zenon
  <2>. Local(row, canon, tomb, row', canon, tomb, k, {p, q})
    BY Zenon DEF Local, Differs, On, Up
  <2>. \A t \in Sessions : t # s => Spares(sess[t], row, row', {p, q})
    <3>. \A x \in Repos : row[x].st # "none" =>
              row'[x].st # "none" /\ (row'[x].at = row[x].at \/ row[x].at \in Places(k))
      BY Zenon DEF Differs
    <3>. QED  BY LooseSpares, Zenon
  <2>. OneLive(row')
    <3>. SUFFICES ASSUME NEW x \in Repos, NEW y \in Repos, On(row', x), On(row', y),
                         row'[x].at = row'[y].at
                  PROVE  x = y
      BY Zenon DEF OneLive
    <3>. CASE x # r /\ y # r
      BY Zenon DEF OneLive, On, Differs
    <3>. CASE x # r /\ y = r
      BY Zenon DEF Only, On, Differs
    <3>. CASE x = r /\ y # r
      BY Zenon DEF Only, On, Differs
    <3>. QED  BY Zenon
  <2>. Unborn(row', canon, tomb, sess')
    <3>. Barren(k, row, canon, tomb, row', canon, tomb)
      BY Zenon DEF Barren, Differs
    <3>. QED  BY <1>1, UnbornStep, Zenon
  <2>. Settled(r, row', canon, tomb, sess')
    <3>. Up(row, r) /\ row[r].del < Grace
      BY OnGrace, Zenon
    <3>. Pure(tomb, r)
      BY Zenon DEF Settled, Kept
    <3>. QED  BY Zenon DEF Settled, Kept, Own
  <2>. ASSUME NEW x \in Repos, x # r PROVE Settled(x, row', canon, tomb, sess')
    <3>. Underway(sess, x) => Underway(sess', x)
      BY <1>1, UnderwayStep, Zenon
    <3>. row'[x] = row[x] /\ Settled(x, row, canon, tomb, sess)
      BY Zenon DEF Differs
    <3>. QED  BY Zenon DEF Settled, Kept, Own, Up, On
  <2>. \A t \in Sessions : t # s => Spares(sess[t], row, row', {p, q}) /\ Compatible(Idle, sess[t])
    BY Zenon
  <2>. Rel(k) => k.to \in {p, q}
    BY Zenon
  <2>. \A x \in Repos : Up(row', x) /\ row'[x].at \in {p, q} => Settled(x, row', canon, tomb, sess')
    BY Zenon
  <2>. QED
    BY <1>1, Framed, Zenon
<1>. QED  BY <1>1, <1>4, <1>5, <1>6, Whole

-----------------------------------------------------------------------------
(* Steps of no session, crashes and time *)

\* R2 is R with some of its rows deleted or grown older.
Aged(R, R2) ==
    \A x \in Repos :
        /\ R2[x].st = R[x].st /\ R2[x].at = R[x].at /\ (On(R2, x) => On(R, x))
        /\ R2[x].del < Grace => R[x].del < Grace
        /\ R[x].del >= Grace => R2[x].del >= Grace

\* w is k but for deleted_at as it was read.
Alike(k, w) ==
    w.pc = k.pc /\ w.r = k.r /\ w.at = k.at /\ w.to = k.to /\ w.active = k.active /\ w.lock = k.lock

\* A session fits rows that have grown older.
LEMMA FitsAged ==
    ASSUME NEW R, NEW R2, Aged(R, R2), NEW C, NEW T, NEW k, Sound(k), Fits(k, R, C, T),
           NEW w, Alike(k, w), Rel(k) => On(R2, k.r)
    PROVE  Fits(w, R2, C, T)
<1>1. CASE k.pc = "idle"
  BY <1>1 DEF Alike, Fits, In, Keyed, Reader, Del, Burying, Raising, Rel
<1>2. CASE k.pc # "idle"
  <2>. k.r \in Repos
    BY <1>2, Zenon DEF Sound
  <2>. \A p : Vacant(R, p) => Vacant(R2, p)
    BY DEF Aged, Vacant
  <2>3. \A p, x : Only(R, p, x) => Only(R2, p, x)
    BY Zenon DEF Aged, Only
  <2>4. /\ R2[k.r].st = R[k.r].st /\ R2[k.r].at = R[k.r].at /\ (Up(R, k.r) => Up(R2, k.r))
        /\ R[k.r].del >= Grace => R2[k.r].del >= Grace
    BY Zenon DEF Aged, Up
  <2>5. Fits(k, R2, C, T)
    BY <2>3, <2>4, Zenon DEF Fits
  <2>. QED
    BY <2>5, Zenon DEF Alike, Fits, In, Keyed, Reader, Del, Burying, Raising, Rel
<1>. QED  BY <1>1, <1>2, Zenon

\* The invariant of a clean history does not mind the age of rows.
LEMMA GoodAged ==
    ASSUME NEW R, NEW C, NEW T, NEW S, Sane(R, C, T, S), NEW R2, Aged(R, R2),
           NEW S2, \A s \in Sessions : Alike(S[s], S2[s]),
           \A s \in Sessions : Rel(S[s]) => On(R2, S[s].r)
    PROVE  Good(R2, C, T, S2)
<1>1. OneLive(R) /\ Uniq(C, T) /\ Unborn(R, C, T, S) /\ \A x \in Repos : Settled(x, R, C, T, S)
  BY Zenon DEF Sane, Good
<1>2. Fitting(R2, C, T, S2)
  BY Member, FitsAged, Zenon DEF Fitting
<1>3. Mutual(S2)
  <2>1. SUFFICES ASSUME NEW s \in Sessions, NEW t \in Sessions, s # t PROVE Compatible(S2[s], S2[t])
    BY Zenon DEF Mutual
  <2>2. Alike(S[s], S2[s]) /\ Alike(S[t], S2[t]) /\ Compatible(S[s], S[t])
    BY <2>1, Member, Zenon
  <2>. QED
    BY <2>2, Zenon DEF Alike, Compatible, Loose, Rel, Places, In, Del
<1>4. OneLive(R2)
  BY <1>1, Zenon DEF OneLive, Aged
<1>5. Unborn(R2, C, T, S2)
  BY <1>1, SMTT(40) DEF Unborn, Aged, Alike
<1>6. ASSUME NEW x \in Repos PROVE Settled(x, R2, C, T, S2)
  <2>1. Underway(S, x) => Underway(S2, x)
    BY DEF Underway, Alike, Rel
  <2>2. /\ R2[x].at = R[x].at /\ (On(R2, x) => On(R, x)) /\ (Up(R2, x) => Up(R, x))
        /\ R2[x].del < Grace => R[x].del < Grace
    BY Zenon DEF Aged, Up
  <2>. QED  BY <1>1, <2>1, <2>2, Zenon DEF Settled, Kept, Own
<1>. QED
  BY <1>1, <1>2, <1>3, <1>4, <1>5, <1>6, Zenon DEF Good

\* AdminForceDeleteRepo
LEMMA ForceDeleteInv ==
    ASSUME Inv, NEW r \in Repos, ForceDelete(r)
    PROVE  Inv'
<1>. TypeInv /\ RowOK /\ Exists(r) /\ UNCHANGED <<meta, disk, sess, faults, acked>>
  BY Zenon DEF Inv, TypeInv, ForceDelete
<1>. row[r].at \in Place
  BY RowPlace, Zenon
<1>. Differs(row, row', r) /\ row'[r].st = row[r].st /\ row'[r].at = row[r].at /\ row'[r].del = Grace + 1
  <2>. Grace + 1 \in Age \cup {NotDeleted}
    BY LifecycleAssumption, SMTT(40) DEF Age
  <2>. QED  BY DeletedRow DEF ForceDelete
<1>. RowOK' /\ MetaOK' /\ DiskOK' /\ SessOK' /\ canon' = canon /\ tomb' = tomb /\ sess' = sess
  <2>. row'[r].at # None
    BY LifecycleAssumption, Zenon DEF Place
  <2>. QED  BY RowStep, Same, Zenon DEF meta, disk
<1>. HistOK'
  <2>. clean' \in BOOLEAN
    BY Zenon DEF ForceDelete, Begin
  <2>. QED  BY Hist, Zenon
<1>. ASSUME clean' PROVE Good(row', canon, tomb, sess)
  <2>. clean /\ \A t \in Sessions : Loose(sess[t]) => Places(sess[t]) \cap {row[r].at} = {}
    BY Avoids, Zenon DEF ForceDelete
  <2>. Sane(row, canon, tomb, sess)
    BY Context, Zenon
  <2>. Aged(row, row')
    BY LifecycleAssumption, SMTT(40) DEF Aged, Differs, On, NotDeleted
  <2>. ASSUME NEW s \in Sessions, Rel(sess[s]) PROVE On(row', sess[s].r)
    <3>. On(row, sess[s].r) /\ row[sess[s].r].at = sess[s].to
      BY Relocates, Zenon
    <3>. sess[s].r \in Repos /\ sess[s].r # r
      BY Relocating, Zenon
    <3>. QED  BY DEF Differs, On
  <2>. \A s \in Sessions : Alike(sess[s], sess[s])
    BY Zenon DEF Alike
  <2>. QED
    BY GoodAged, Zenon
<1>. QED  BY Whole

\* Time passes.
LEMMA TickInv ==
    ASSUME Inv, Tick
    PROVE  Inv'
<1>. TypeInv /\ RowOK /\ SessOK /\ MetaOK /\ UNCHANGED <<redirect, disk, faults, acked, clean>>
  BY DEF Inv, TypeInv, Tick
<1>. \A d \in Age \cup {NotDeleted} :
         /\ Older(d) \in Age \cup {NotDeleted} /\ (Older(d) = NotDeleted <=> d = NotDeleted)
         /\ Older(d) >= d
  BY LifecycleAssumption, SMTT(40) DEF Older, Age, NotDeleted
<1>. ASSUME NEW r \in Repos
     PROVE  /\ row'[r] \in Row /\ row'[r].st = row[r].st /\ row'[r].at = row[r].at
            /\ row'[r].del = Older(row[r].del) /\ row[r].del \in Age \cup {NotDeleted}
  <2>. row'[r] = [row[r] EXCEPT !.del = Older(@)] /\ row[r] \in Row
    BY Zenon DEF Tick, RowOK
  <2>. QED  BY Zenon DEF Row
<1>. RowOK'
  <2>. row' \in [Repos -> Row]
    BY Zenon DEF Tick
  <2>. QED  BY Zenon DEF RowOK, Exists
<1>. ASSUME NEW s \in Sessions
     PROVE  /\ sess'[s] \in Session /\ Alike(sess[s], sess'[s])
            /\ sess[s].del = NotDeleted => sess'[s].del = NotDeleted
  <2>. sess'[s] = [sess[s] EXCEPT !.del = Older(@)] /\ sess[s] \in Session
    BY Zenon DEF Tick, SessOK
  <2>. QED  BY DEF Session, Alike
<1>. SessOK'
  <2>. sess' \in [Sessions -> Session]
    BY Zenon DEF Tick
  <2>. ASSUME NEW s \in Sessions PROVE Sound(sess'[s])
    <3>. Sound(sess[s]) /\ Alike(sess[s], sess'[s]) /\ (sess[s].del = NotDeleted => sess'[s].del = NotDeleted)
      BY Zenon DEF SessOK
    <3>. QED  BY Zenon DEF Sound, Alike, Rel, Holder, In, Del
  <2>. QED  BY Zenon DEF SessOK
<1>. MetaOK'
  <2>. ASSUME NEW t \in Transfers PROVE xfer'[t] \in Transfer /\ Meant(xfer'[t])
    <3>. xfer'[t] = [xfer[t] EXCEPT !.late = @ \/ xfer[t].st = "pending"] /\ xfer[t] \in Transfer /\ Meant(xfer[t])
      BY Zenon DEF Tick, MetaOK
    <3>. (xfer[t].late \/ xfer[t].st = "pending") \in BOOLEAN
      BY Zenon DEF Transfer
    <3>. QED  BY Zenon DEF Transfer, Meant
  <2>. xfer' \in [Transfers -> Transfer]
    BY Zenon DEF Tick
  <2>. QED  BY Zenon DEF MetaOK
<1>. DiskOK' /\ HistOK' /\ canon' = canon /\ tomb' = tomb
  BY Same, Calm, Zenon DEF disk
<1>. ASSUME clean' PROVE Good(row', canon, tomb, sess')
  <2>. Sane(row, canon, tomb, sess)
    BY Context, Zenon
  <2>. Aged(row, row') /\ \A x \in Repos : On(row, x) => On(row', x)
    <3>. ASSUME NEW x \in Repos
         PROVE  /\ row'[x].st = row[x].st /\ row'[x].at = row[x].at /\ (On(row', x) <=> On(row, x))
                /\ row'[x].del < Grace => row[x].del < Grace
                /\ row[x].del >= Grace => row'[x].del >= Grace
      BY LifecycleAssumption, SMTT(40) DEF On, Age, NotDeleted
    <3>. QED  BY Zenon DEF Aged
  <2>. ASSUME NEW s \in Sessions, Rel(sess[s]) PROVE On(row', sess[s].r)
    BY MemberRel, Relocating, Zenon
  <2>. QED
    BY GoodAged, Zenon
<1>. QED  BY Whole, Zenon

\* A transfer is requested, declined, canceled or expires.
LEMMA TransferInv ==
    ASSUME Inv, NEW t \in Transfers,
           \/ \E r \in Repos, o \in Owners : RequestTransfer(t, r, o)
           \/ \E st \in {"declined", "canceled", "expired"} : CloseTransfer(t, st)
    PROVE  Inv'
<1>. TypeInv /\ MetaOK /\ UNCHANGED <<row, redirect, disk, sess, faults, acked, clean>>
  BY Zenon DEF Inv, TypeInv, RequestTransfer, CloseTransfer
<1>. MetaOK'
  <2>. CASE \E r \in Repos, o \in Owners : RequestTransfer(t, r, o)
    <3>. PICK r \in Repos, o \in Owners : RequestTransfer(t, r, o)
      BY Zenon
    <3>. [st |-> "pending", r |-> r, to |-> o, late |-> FALSE] \in Transfer
      BY Zenon DEF Transfer, Dir
    <3>. QED  BY Zenon DEF RequestTransfer, MetaOK, Meant
  <2>. CASE \E st \in {"declined", "canceled", "expired"} : CloseTransfer(t, st)
    <3>. PICK st \in {"declined", "canceled", "expired"} : CloseTransfer(t, st)
      OBVIOUS
    <3>. [xfer[t] EXCEPT !.st = st] \in Transfer /\ Meant([xfer[t] EXCEPT !.st = st])
      BY DEF MetaOK, Transfer, Meant
    <3>. QED  BY Zenon DEF CloseTransfer, MetaOK
  <2>. QED  BY Zenon
<1>. RowOK' /\ DiskOK' /\ SessOK' /\ HistOK'
  BY Same, Calm, Zenon DEF disk
<1>. clean' => Good(row', canon', tomb', sess')
  BY Zenon DEF Inv, disk
<1>. QED  BY Whole, Zenon

\* The process of a session is gone.
LEMMA CrashInv ==
    ASSUME Inv, NEW s \in Sessions, Crash(s)
    PROVE  Inv'
<1>. TypeInv /\ Done(s) /\ UNCHANGED <<meta, disk, acked>>
  BY Zenon DEF Inv, Crash
<1>. HistOK' /\ (clean' => clean /\ ~Unlocked(s))
  <2>. clean' \in BOOLEAN /\ (clean' => clean /\ ~Unlocked(s))
    BY Zenon DEF Crash
  <2>. QED  BY Hist, Zenon DEF Crash
<1>. CASE In(sess[s])
  <2>. Spend(sess[s].r)
    BY Zenon DEF Crash, In, Inserting, Spend
  <2>. QED  BY SpentInv, Zenon DEF disk
<1>. CASE Rel(sess[s])
  <2>. row' = row /\ ~clean'
    BY Zenon DEF Crash, Rel, Inserting, Unlocked
  <2>. QED  BY Dirty, IdleWork DEF Done
<1>. CASE ~In(sess[s]) /\ ~Rel(sess[s])
  <2>. row' = row /\ sess[s].pc # "createCommit"
    BY Zenon DEF Crash, In, Inserting
  <2>. QED  BY Quiet, Zenon
<1>. QED  BY Zenon

-----------------------------------------------------------------------------
(* The theorems *)

\* Nothing is there at first.
LEMMA InitInv == Init => Inv
<1>. SUFFICES ASSUME Init PROVE Inv
  BY Zenon
<1>. RowOK /\ DiskOK
  BY Zenon DEF Init, RowOK, Row, DiskOK, Dir, Exists
<1>. MetaOK
  BY Zenon DEF Init, MetaOK, Dir, Transfer, Meant
<1>. SessOK /\ \A s \in Sessions : sess[s] = Idle
  BY IdleWork, Zenon DEF Init, SessOK
<1>. HistOK
  BY LifecycleAssumption, SMTT(40) DEF Init, HistOK
<1>. Fitting(row, canon, tomb, sess) /\ Mutual(sess)
  BY IdleFits, Zenon DEF Fitting, Mutual
<1>. OneLive(row) /\ Uniq(canon, tomb)
  BY Zenon DEF Init, OneLive, Uniq, On
<1>. Unborn(row, canon, tomb, sess)
  BY LifecycleAssumption, Zenon DEF Init, Unborn
<1>. \A r \in Repos : Settled(r, row, canon, tomb, sess)
  BY Zenon DEF Init, Settled, Kept, Own, Up, On
<1>. QED
  BY Zenon DEF Inv, TypeInv, Good

\* A step of a session.
LEMMA StepInv ==
    ASSUME Inv, NEW s \in Sessions, Step(s)
    PROVE  Inv'
<1>. CASE CreateInit(s) \/ CreateDisplace(s) \/ CreateReinit(s) \/ CreateFails(s)
           \/ CreateCommit(s) \/ CreateCommitFails(s) \/ CreateUndo(s)
  BY CreateInitInv, CreateDisplaceInv, CreateFailsInv, CreateCommitInv, CreateCommitFailsInv,
     CreateUndoInv, Zenon
<1>. CASE SoftDeleteMove(s) \/ SoftDeleteCommit(s) \/ SoftDeleteFails(s) \/ SoftDeleteUndo(s)
           \/ RestoreMove(s) \/ RestoreCommit(s) \/ RestoreFails(s) \/ RestoreUndo(s)
  BY SoftDeleteMoveInv, SoftDeleteCommitInv, MoveFailsInv, UndoMoveInv, RestoreMoveInv,
     RestoreCommitInv, Zenon
<1>. CASE HardDeleteRow(s) \/ HardDeleteRemove(s) \/ HardDeleteCommit(s) \/ HardDeleteFails(s)
  BY HardDeleteRowInv, HardDeleteRemoveInv, HardDeleteCommitInv, HardDeleteFailsInv, Zenon
<1>. CASE RenameCommit(s) \/ RenameFails(s) \/ RenameMove(s) \/ RenameUndo(s) \/ TransferMove(s)
  BY RenameCommitInv, RenameFailsInv, RenameMoveInv, RenameUndoInv, TransferMoveInv, Zenon
<1>. CASE Crash(s)
  BY CrashInv, Zenon
<1>. QED  BY Zenon DEF Step

\* Every step.
LEMMA NextInv == Inv /\ [Next]_vars => Inv'
<1>. SUFFICES ASSUME Inv, [Next]_vars PROVE Inv'
  BY Zenon
<1>. CASE UNCHANGED vars
  <2>. TypeInv /\ (clean => Good(row, canon, tomb, sess))
    BY Zenon DEF Inv
  <2>. RowOK' /\ MetaOK' /\ DiskOK' /\ SessOK' /\ HistOK'
    BY Same, Calm, Zenon DEF vars
  <2>. QED  BY Whole, Zenon DEF vars
<1>. CASE \E s \in Sessions : Step(s)
  BY StepInv, Zenon
<1>3. CASE \E s \in Sessions, r \in Repos, p \in Place : CreateInsert(s, r, p)
  BY <1>3, CreateInsertInv, Zenon
<1>4. CASE \E s \in Sessions, r \in Repos, op \in {"softDelete", "restore", "hardDelete"} : Read(s, r, op)
  BY <1>4, ReadInv, Zenon
<1>5. CASE \E s \in Sessions, r \in Repos, n \in Names : RenameRead(s, r, n)
  BY <1>5, RenameReadInv
<1>6. CASE \E s \in Sessions, t \in Transfers : AcceptTransfer(s, t)
  BY <1>6, AcceptTransferInv, Zenon
<1>7. CASE \/ \E t \in Transfers, r \in Repos, o \in Owners : RequestTransfer(t, r, o)
           \/ \E t \in Transfers, st \in {"declined", "canceled", "expired"} : CloseTransfer(t, st)
  BY <1>7, TransferInv, Zenon
<1>8. CASE \E r \in Repos : ForceDelete(r)
  BY <1>8, ForceDeleteInv
<1>9. CASE Tick
  BY <1>9, TickInv, Zenon
<1>. QED
  BY <1>3, <1>4, <1>5, <1>6, <1>7, <1>8, <1>9, Zenon DEF Next

\* Every state has the types and, in a clean history, the data where it belongs.
LEMMA Invariant == Spec => []Inv
BY InitInv, NextInv, PTL DEF Spec

\* Rows, redirects, transfers, directories and sessions always have their types.
THEOREM TypeCorrect == Spec => []TypeOK
<1>. Inv => TypeOK
  BY TypeGroups, Zenon DEF Inv
<1>. QED  BY Invariant, PTL

\* While the history is clean, the data of a repository that is live or within its
\* grace is at its place, at its tombstone, or where its relocation will find it.
THEOREM DataIsKept == Spec => []DataKept
<1>. Inv => DataKept
  <2>. SUFFICES ASSUME Inv, clean, NEW r \in acked, Exists(r), row[r].del < Grace
                PROVE  \/ canon[row[r].at] = r
                       \/ tomb[Tomb(row[r].at, r)] = r
                       \/ \E s \in Between(r) : canon[sess[s].at] = r
    BY Zenon DEF DataKept
  <2>. Sane(row, canon, tomb, sess) /\ r \in Repos
    BY Context, Zenon DEF Inv, TypeInv, HistOK
  <2>. Settled(r, row, canon, tomb, sess)
    BY Zenon DEF Sane, Good
  <2>. CASE Underway(sess, r)
    <3>. PICK s \in Sessions : sess[s].r = r /\ Rel(sess[s])
      BY Zenon DEF Underway
    <3>. canon[sess[s].at] = r
      BY Relocates, Zenon
    <3>. QED  BY Zenon DEF Between, Rel
  <2>. CASE ~Underway(sess, r)
    BY Zenon DEF Settled, Kept, Up, Exists
  <2>. QED  BY Zenon
<1>. QED  BY Invariant, PTL

\* While the history is clean, the path of a live repository and the tombstone of
\* one within its grace hold no other repository's data.
THEOREM OnlyOwnData == Spec => []OwnDataOnly
<1>. Inv => OwnDataOnly
  <2>. SUFFICES ASSUME Inv, clean, NEW r \in acked
                PROVE  /\ Live(r) /\ Between(r) = {} => canon[row[r].at] \in {r, None}
                       /\ Exists(r) /\ row[r].del < Grace => tomb[Tomb(row[r].at, r)] \in {r, None}
    BY Zenon DEF OwnDataOnly
  <2>. Sane(row, canon, tomb, sess) /\ r \in Repos /\ RowOK
    BY Context, Zenon DEF Inv, TypeInv, HistOK
  <2>. Settled(r, row, canon, tomb, sess)
    BY Zenon DEF Sane, Good
  <2>. Between(r) = {} => ~Underway(sess, r)
    BY Zenon DEF Between, Underway, Rel
  <2>. Live(r) /\ Between(r) = {} => canon[row[r].at] \in {r, None}
    BY Zenon DEF Settled, Own, On, Live, Exists
  <2>. ASSUME Exists(r), row[r].del < Grace PROVE tomb[Tomb(row[r].at, r)] \in {r, None}
    <3>. Pure(tomb, r)
      BY Zenon DEF Settled, Kept, Up, Exists
    <3>. QED  BY RowPlace, TombPath, Zenon DEF Pure
  <2>. QED  BY Zenon
<1>. QED  BY Invariant, PTL
=============================================================================
