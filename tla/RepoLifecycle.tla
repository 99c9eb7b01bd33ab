--------------------------- MODULE RepoLifecycle ---------------------------
(***************************************************************************)
(* The life of a repository: a row of table repos and a bare repository on *)
(* disk, changed together by internal/repos/create.go, by                  *)
(* internal/repos/lifecycle/{rename,transfer,soft_delete,hard_delete}.go   *)
(* and by the admin's force delete.                                        *)
(*                                                                         *)
(* The row and the directory cannot change in one step.  Create, soft      *)
(* delete, restore and hard delete run in a transaction that holds an      *)
(* advisory lock on the owner/name; rename and transfer take no lock and   *)
(* move the directory after their commit.  A session is one request or one *)
(* sweep; what it read before it got the lock is in its record.            *)
(*                                                                         *)
(* A directory is the repository whose data is in it.  A place is a path   *)
(* <owner>/<name>.git, a tombstone a path <owner>/.deleted/<id>.git.       *)
(* Time is relative: del is now - deleted_at, clamped past the grace, and  *)
(* NotDeleted where deleted_at is null.                                    *)
(***************************************************************************)
EXTENDS Integers, FiniteSets

CONSTANTS
    Repos,      \* row ids, drawn from a sequence and never used twice
    Owners, Names,
    Transfers,  \* ids of table repo_transfer_requests
    Sessions,   \* requests and sweeps under way
    Grace,      \* softDeleteGrace, in ticks
    RenameMax,  \* renameRateLimitMax
    Ops,        \* the operations that are requested
    FaultKinds, \* which of the faults below happen, and
    MaxFaults,  \* how many
    None

ASSUME LifecycleAssumption ==
    /\ Repos \subseteq Nat
    /\ None \notin Repos /\ None \notin Owners \X Names
    /\ Grace \in Nat \ {0}
    /\ RenameMax \in Nat
    /\ MaxFaults \in Nat
    /\ FaultKinds \subseteq {"crash", "fs", "seed", "commit"}

VARIABLES
    row,        \* table repos
    redirect,   \* table repo_redirects: old place to repository
    xfer,       \* table repo_transfer_requests
    canon,      \* the directory at each place
    tomb,       \* the directory at each tombstone
    sess,       \* the sessions
    faults,     \* faults so far
    acked,      \* history: repositories whose Create answered with success
    clean       \* history: see Clean below

vars == <<row, redirect, xfer, canon, tomb, sess, faults, acked, clean>>
disk == <<canon, tomb>>
meta == <<redirect, xfer>>

Place == Owners \X Names
Dir == Repos \cup {None}
NotDeleted == -1
Age == 0 .. Grace + 1

-----------------------------------------------------------------------------
(* Rows, locks and the unique index *)

Exists(r) == row[r].st = "row"
Live(r) == Exists(r) /\ row[r].del = NotDeleted

\* ExistsRepoForOwnerUser
NameActive(p) == \E r \in Repos : Live(r) /\ row[r].at = p

Idle == [pc |-> "idle", r |-> None, at |-> None, to |-> None,
         del |-> NotDeleted, active |-> FALSE, moved |-> FALSE, lock |-> None]

\* LockRepoOwnerName: held until the transaction ends.
LockFree(p) == \A s \in Sessions : sess[s].lock # p

\* The uncommitted INSERT of a Create and the uncommitted DELETE of a hard
\* delete make others wait: on the row, and on the index entry of its place.
Inserting(s) == sess[s].pc \in {"createInit", "createDisplace", "createReinit", "createCommit"}
Deleting(s) == sess[s].pc \in {"hardRemove", "hardCommit"}
RowFree(r) == \A s \in Sessions : Deleting(s) => sess[s].r # r
IndexFree(p) ==
    /\ \A s \in Sessions : Inserting(s) => sess[s].at # p
    /\ \A r \in Repos : Live(r) /\ row[r].at = p => RowFree(r)

\* A unique violation: another row without deleted_at has the place.
Collides(r, p) == \E q \in Repos \ {r} : Live(q) /\ row[q].at = p

Fault(kind) ==
    /\ kind \in FaultKinds
    /\ faults < MaxFaults
    /\ faults' = faults + 1

Become(s, w) == sess' = [sess EXCEPT ![s] = w]
Go(s, pc) == Become(s, [sess[s] EXCEPT !.pc = pc])
Done(s) == Become(s, Idle)

\* The transaction is over and its lock is gone; the directory is put back.
Undo(s, pc) ==
    Become(s, IF sess[s].moved THEN [sess[s] EXCEPT !.pc = pc, !.lock = None] ELSE Idle)

-----------------------------------------------------------------------------
(* Directories *)

Tomb(p, r) == <<p[1], r>>           \* DeletedRepoPath

\* RepoFS.Move refuses a target that exists.
Bury(p, t) == /\ canon' = [canon EXCEPT ![p] = None]
              /\ tomb' = [tomb EXCEPT ![t] = canon[p]]
Unbury(t, p) == /\ canon' = [canon EXCEPT ![p] = tomb[t]]
                /\ tomb' = [tomb EXCEPT ![t] = None]
Shift(p, q) == canon' = [canon EXCEPT ![p] = None, ![q] = canon[p]]

-----------------------------------------------------------------------------
(* Clean: nothing has overlapped, on the same place, a rename, a transfer or an  *)
(* undo (the steps without the lock); every rename and transfer found a live     *)
(* repository with its directory in place, and moved it or was compensated; every soft   *)
(* or hard delete and restore found, once it had the lock, deleted_at as read; and *)
(* no restore came at the very tick the grace ends, when a hard delete is due too; *)
(* and no hard delete that is tried again takes another deleted repository's data, *)
(* left at the place by a restore that crashed, for that of its own.             *)

Unlocked(s) == sess[s].pc \in {"renameCommit", "renameMove", "renameUndo", "transferMove",
                               "createUndo", "softDeleteUndo", "restoreUndo"}
Touched(s) == {sess[s].at, sess[s].to} \ {None}
Apart(S, P) == \A t \in S : Touched(t) \cap P = {}

\* An operation on the place p begins, or the row there changes.
Begin(p) == clean' = (clean /\ Apart({t \in Sessions : Unlocked(t)}, {p}))

\* A transaction has failed and is to be undone.
Undoing(s) == clean' = (clean /\ Apart(Sessions \ {s}, Touched(s)))

\* The row is still as the session has read it.
Fresh(s) == Exists(sess[s].r) /\ row[sess[s].r].del = sess[s].del

\* A relocation of r to q commits.
Relocate(s, r, q) ==
    clean' = (clean /\ Live(r) /\ canon[row[r].at] = r /\ Apart(Sessions \ {s}, {row[r].at, q}))

-----------------------------------------------------------------------------

Init ==
    /\ row = [r \in Repos |-> [st |-> "none", at |-> None, del |-> NotDeleted]]
    /\ redirect = [p \in Place |-> None]
    /\ xfer = [t \in Transfers |-> [st |-> "none", r |-> None, to |-> None, late |-> FALSE]]
    /\ canon = [p \in Place |-> None]
    /\ tomb = [t \in Owners \X Repos |-> None]
    /\ sess = [s \in Sessions |-> Idle]
    /\ faults = 0
    /\ acked = {}
    /\ clean = TRUE

-----------------------------------------------------------------------------
(* Create *)

\* The lock, then the INSERT; a taken name is ErrTaken and changes nothing.
CreateInsert(s, r, p) ==
    /\ "create" \in Ops
    /\ sess[s].pc = "idle"
    /\ row[r].st = "none" /\ \A t \in Sessions : Inserting(t) => sess[t].r # r
    /\ LockFree(p) /\ IndexFree(p) /\ ~NameActive(p)
    /\ Become(s, [Idle EXCEPT !.pc = "createInit", !.r = r, !.at = p, !.lock = p])
    /\ Begin(p)
    /\ UNCHANGED <<row, meta, disk, faults, acked>>

\* The transaction of a Create rolls back: its id is spent.
Spend(r) == row' = [row EXCEPT ![r].st = "gone"]

\* Mutant: a directory already there is adopted.
InitBareAdopts(s) ==
    /\ canon' = [canon EXCEPT ![sess[s].at] = IF @ = None THEN sess[s].r ELSE @]
    /\ Go(s, "createCommit")
    /\ UNCHANGED <<row, tomb>>

InitBare(s) ==
    /\ canon[sess[s].at] = None
    /\ canon' = [canon EXCEPT ![sess[s].at] = sess[s].r]
    /\ Go(s, "createCommit")
    /\ UNCHANGED <<row, tomb>>

CreateInit(s) ==
    /\ sess[s].pc = "createInit"
    /\ \/ InitBare(s)
       \/ canon[sess[s].at] # None /\ Go(s, "createDisplace") /\ UNCHANGED <<row, disk>>
    /\ UNCHANGED <<meta, faults, acked, clean>>

\* softDeletedRepoForCreate: ORDER BY deleted_at DESC, id DESC.
LastDeleted(p) ==
    {r \in Repos :
        /\ Exists(r) /\ ~Live(r) /\ row[r].at = p
        /\ \A q \in Repos : Exists(q) /\ ~Live(q) /\ row[q].at = p =>
              row[r].del < row[q].del \/ (row[r].del = row[q].del /\ r >= q)}

\* displaceDeletedRepoPath: what is at the place is taken for the data of the
\* last repository deleted from it.
CreateDisplace(s) ==
    LET p == sess[s].at IN
    /\ sess[s].pc = "createDisplace"
    /\ \/ \E r \in LastDeleted(p) :
             /\ canon[p] # None /\ tomb[Tomb(p, r)] = None
             /\ Bury(p, Tomb(p, r))
             /\ Go(s, "createReinit")
             /\ UNCHANGED row
       \/ /\ \A r \in LastDeleted(p) : canon[p] = None \/ tomb[Tomb(p, r)] # None
          /\ Done(s) /\ Spend(sess[s].r) /\ UNCHANGED disk
    /\ UNCHANGED <<meta, faults, acked, clean>>

CreateReinit(s) ==
    /\ sess[s].pc = "createReinit"
    /\ \/ InitBare(s)
       \/ /\ canon[sess[s].at] # None
          /\ Done(s) /\ Spend(sess[s].r) /\ UNCHANGED disk
    /\ UNCHANGED <<meta, faults, acked, clean>>

\* hooks.Install or the initial commit fails, and the directory is removed; or
\* the issue counter or the labels fail, and it is not.
CreateFails(s) ==
    /\ sess[s].pc = "createCommit"
    /\ \/ Fault("fs") /\ canon' = [canon EXCEPT ![sess[s].at] = None]
       \/ Fault("seed") /\ UNCHANGED canon
    /\ Done(s) /\ Spend(sess[s].r)
    /\ UNCHANGED <<meta, tomb, acked, clean>>

Insert(s) == row' = [row EXCEPT ![sess[s].r] =
                       [st |-> "row", at |-> sess[s].at, del |-> NotDeleted]]

CreateCommit(s) ==
    /\ sess[s].pc = "createCommit"
    /\ Insert(s)
    /\ acked' = acked \cup {sess[s].r}
    /\ Done(s)
    /\ UNCHANGED <<meta, disk, faults, clean>>

\* COMMIT fails: the transaction and its lock are gone before the directory is.
CreateCommitFails(s) ==
    /\ sess[s].pc = "createCommit"
    /\ Fault("commit")
    /\ Spend(sess[s].r)
    /\ Become(s, [sess[s] EXCEPT !.pc = "createUndo", !.lock = None])
    /\ Undoing(s)
    /\ UNCHANGED <<meta, disk, acked>>

CreateUndo(s) ==
    /\ sess[s].pc = "createUndo"
    /\ canon' = [canon EXCEPT ![sess[s].at] = None]
    /\ Done(s)
    /\ UNCHANGED <<row, meta, tomb, faults, acked, clean>>

-----------------------------------------------------------------------------
(* Soft delete, restore and hard delete begin with GetRepoByID; the lock is   *)
(* on the place that row had, and deleted_at is judged on that row.  A request *)
(* refused by its own first read changes nothing and is left out.             *)

Read(s, r, op) ==
    /\ op \in Ops
    /\ sess[s].pc = "idle"
    /\ Exists(r)
    /\ IF op = "softDelete" THEN Live(r) ELSE ~Live(r)
    /\ Become(s, [Idle EXCEPT !.pc = op, !.r = r, !.at = row[r].at, !.del = row[r].del])
    /\ Begin(row[r].at)
    /\ UNCHANGED <<row, meta, disk, faults, acked>>

\* The UPDATE of deleted_at, keyed by id.
SetDeleted(r, del) == row' = [row EXCEPT ![r].del = IF Exists(r) THEN del ELSE @]

Holding(s, pc, moved) ==
    Become(s, [sess[s] EXCEPT !.pc = pc, !.lock = sess[s].at, !.moved = moved])

\* moveCanonicalToDeleted
SoftDeleteMove(s) ==
    LET p == sess[s].at
        t == Tomb(p, sess[s].r)
    IN  /\ sess[s].pc = "softDelete"
        /\ LockFree(p)
        /\ \/ /\ canon[p] # None /\ tomb[t] = None
              /\ Bury(p, t) /\ Holding(s, "softDeleteCommit", TRUE)
           \/ /\ canon[p] = None /\ tomb[t] # None
              /\ Holding(s, "softDeleteCommit", FALSE) /\ UNCHANGED disk
           \/ /\ (canon[p] = None) = (tomb[t] = None)
              /\ Done(s) /\ UNCHANGED disk
        /\ clean' = (clean /\ Fresh(s))
        /\ UNCHANGED <<row, meta, faults, acked>>

SoftDeleteCommit(s) ==
    /\ sess[s].pc = "softDeleteCommit"
    /\ RowFree(sess[s].r)
    /\ SetDeleted(sess[s].r, 0)
    /\ Done(s)
    /\ UNCHANGED <<meta, disk, faults, acked, clean>>

SoftDeleteFails(s) ==
    /\ sess[s].pc = "softDeleteCommit"
    /\ Fault("commit")
    /\ Undo(s, "softDeleteUndo")
    /\ Undoing(s)
    /\ UNCHANGED <<row, meta, disk, acked>>

\* moveDeletedBackToCanonical: a failure is logged.
SoftDeleteUndo(s) ==
    LET p == sess[s].at
        t == Tomb(p, sess[s].r)
    IN  /\ sess[s].pc = "softDeleteUndo"
        /\ IF tomb[t] # None /\ canon[p] = None THEN Unbury(t, p) ELSE UNCHANGED disk
        /\ Done(s)
        /\ UNCHANGED <<row, meta, faults, acked, clean>>

\* The grace, then activeRepoNameExists, then moveDeletedToCanonical.
RestoreMove(s) ==
    LET p == sess[s].at
        t == Tomb(p, sess[s].r)
        refused == sess[s].del > Grace \/ NameActive(p)
    IN  /\ sess[s].pc = "restore"
        /\ LockFree(p)
        /\ \/ /\ ~refused /\ tomb[t] # None /\ canon[p] = None
              /\ Unbury(t, p) /\ Holding(s, "restoreCommit", TRUE)
           \/ /\ ~refused /\ tomb[t] = None /\ canon[p] # None
              /\ Holding(s, "restoreCommit", FALSE) /\ UNCHANGED disk
           \/ /\ refused \/ (tomb[t] = None) = (canon[p] = None)
              /\ Done(s) /\ UNCHANGED disk
        /\ clean' = (clean /\ Fresh(s) /\ sess[s].del # Grace)
        /\ UNCHANGED <<row, meta, faults, acked>>

\* A unique violation is undone before the transaction ends, under the lock.
RestoreCommit(s) ==
    LET r == sess[s].r IN
    /\ sess[s].pc = "restoreCommit"
    /\ RowFree(r)
    /\ Exists(r) => IndexFree(row[r].at)
    /\ IF Exists(r) /\ Collides(r, row[r].at)
       THEN IF sess[s].moved THEN Go(s, "restoreUndo") /\ UNCHANGED row
            ELSE Done(s) /\ UNCHANGED row
       ELSE SetDeleted(r, NotDeleted) /\ Done(s)
    /\ UNCHANGED <<meta, disk, faults, acked, clean>>

RestoreFails(s) ==
    /\ sess[s].pc = "restoreCommit"
    /\ Fault("commit")
    /\ Undo(s, "restoreUndo")
    /\ Undoing(s)
    /\ UNCHANGED <<row, meta, disk, acked>>

\* moveCanonicalBackToDeleted
RestoreUndo(s) ==
    LET p == sess[s].at
        t == Tomb(p, sess[s].r)
    IN  /\ sess[s].pc = "restoreUndo"
        /\ IF canon[p] # None /\ tomb[t] = None THEN Bury(p, t) ELSE UNCHANGED disk
        /\ Done(s)
        /\ UNCHANGED <<row, meta, faults, acked, clean>>

\* Mutant: whether the name is in use again is not looked up.
HardDeleteRowBlind(s) ==
    LET p == sess[s].at
        r == sess[s].r
    IN  /\ sess[s].pc = "hardDelete"
        /\ LockFree(p) /\ RowFree(r)
        /\ IF sess[s].del < Grace THEN Done(s)
           ELSE Become(s, [sess[s] EXCEPT !.pc = "hardRemove", !.lock = p])
        /\ clean' = (clean /\ Fresh(s))
        /\ UNCHANGED <<row, meta, disk, faults, acked>>

\* The grace, activeRepoNameExists and the DELETE.
HardDeleteRow(s) ==
    LET p == sess[s].at
        r == sess[s].r
    IN  /\ sess[s].pc = "hardDelete"
        /\ LockFree(p) /\ RowFree(r)
        /\ IF sess[s].del < Grace THEN Done(s)
           ELSE Become(s, [sess[s] EXCEPT !.pc = "hardRemove", !.lock = p,
                                          !.active = NameActive(p)])
        /\ clean' = (clean /\ Fresh(s))
        /\ UNCHANGED <<row, meta, disk, faults, acked>>

\* The tombstone is gone, and what is at the place is another deleted
\* repository's.
Mistakes(s) ==
    LET d == canon[sess[s].at]
    IN  /\ tomb[Tomb(sess[s].at, sess[s].r)] = None /\ ~sess[s].active
        /\ d # None /\ d # sess[s].r /\ ~Live(d)

\* removeDeletedRepoPath: a failure is logged.
HardDeleteRemove(s) ==
    LET p == sess[s].at
        t == Tomb(p, sess[s].r)
    IN  /\ sess[s].pc = "hardRemove"
        /\ \/ /\ IF tomb[t] # None
                 THEN tomb' = [tomb EXCEPT ![t] = None] /\ UNCHANGED canon
                 ELSE /\ canon' = IF sess[s].active THEN canon ELSE [canon EXCEPT ![p] = None]
                      /\ UNCHANGED tomb
              /\ clean' = (clean /\ ~Mistakes(s))
              /\ UNCHANGED faults
           \/ Fault("fs") /\ UNCHANGED <<disk, clean>>
        /\ Go(s, "hardCommit")
        /\ UNCHANGED <<row, meta, acked>>

\* ON DELETE CASCADE takes the redirects and the transfer requests along.
HardDeleteCommit(s) ==
    LET r == sess[s].r IN
    /\ sess[s].pc = "hardCommit"
    /\ row' = [row EXCEPT ![r].st = "gone"]
    /\ redirect' = [p \in Place |-> IF redirect[p] = r THEN None ELSE redirect[p]]
    /\ xfer' = [t \in Transfers |-> IF xfer[t].r = r THEN [xfer[t] EXCEPT !.st = "gone"]
                                    ELSE xfer[t]]
    /\ Done(s)
    /\ UNCHANGED <<disk, faults, acked, clean>>

\* The sweep logs the error and meets the row again on its next pass.
HardDeleteFails(s) ==
    /\ sess[s].pc = "hardCommit"
    /\ Fault("commit")
    /\ Done(s)
    /\ UNCHANGED <<row, meta, disk, acked, clean>>

\* AdminForceDeleteRepo: deleted_at a year ago, the directory untouched.
ForceDelete(r) ==
    /\ "force" \in Ops
    /\ Exists(r) /\ RowFree(r)
    /\ SetDeleted(r, Grace + 1)
    /\ Begin(row[r].at)
    /\ UNCHANGED <<meta, disk, sess, faults, acked>>

-----------------------------------------------------------------------------
(* Rename: the handler's read, one transaction, the move, the compensation *)

RenameRead(s, r, n) ==
    /\ "rename" \in Ops
    /\ sess[s].pc = "idle"
    /\ Live(r) /\ n # row[r].at[2]
    /\ Cardinality({p \in Place : redirect[p] = r}) < RenameMax
    /\ Become(s, [Idle EXCEPT !.pc = "renameCommit", !.r = r,
                              !.at = row[r].at, !.to = <<row[r].at[1], n>>])
    /\ Begin(row[r].at)
    /\ UNCHANGED <<row, meta, disk, faults, acked>>

\* RenameRepo sets the name of whatever the row is by now.
NewPlace(s) == <<row[sess[s].r].at[1], sess[s].to[2]>>

RenameCommit(s) ==
    LET r == sess[s].r IN
    /\ sess[s].pc = "renameCommit"
    /\ Exists(r) /\ RowFree(r)
    /\ Live(r) => IndexFree(NewPlace(s)) /\ ~Collides(r, NewPlace(s))
    /\ row' = [row EXCEPT ![r].at = NewPlace(s)]
    /\ redirect' = [redirect EXCEPT ![sess[s].at] = IF @ = None THEN r ELSE @]
    /\ Relocate(s, r, NewPlace(s))
    /\ Go(s, "renameMove")
    /\ UNCHANGED <<xfer, disk, faults, acked>>

\* ErrNameTaken, a row that is gone, or a failed COMMIT.
RenameFails(s) ==
    LET r == sess[s].r IN
    /\ sess[s].pc = "renameCommit"
    /\ \/ /\ ~Exists(r) \/ (Live(r) /\ IndexFree(NewPlace(s)) /\ Collides(r, NewPlace(s)))
          /\ UNCHANGED faults
       \/ Fault("commit")
    /\ Done(s)
    /\ UNCHANGED <<row, meta, disk, acked, clean>>

RenameMove(s) ==
    LET p == sess[s].at
        q == sess[s].to
    IN  /\ sess[s].pc = "renameMove"
        /\ \/ /\ canon[p] # None /\ canon[q] = None
              /\ Shift(p, q) /\ Done(s) /\ UNCHANGED faults
           \/ canon[p] = None /\ Done(s) /\ UNCHANGED <<canon, faults>>
           \/ /\ canon[p] # None /\ canon[q] # None
              /\ Go(s, "renameUndo") /\ UNCHANGED <<canon, faults>>
           \/ /\ canon[p] # None /\ Fault("fs")
              /\ Go(s, "renameUndo") /\ UNCHANGED canon
        /\ UNCHANGED <<row, meta, tomb, acked, clean>>

\* compensateRename: the UPDATE may fail, the DELETE follows all the same.
RenameUndo(s) ==
    LET r == sess[s].r
        p == <<row[r].at[1], sess[s].at[2]>>
    IN  /\ sess[s].pc = "renameUndo"
        /\ RowFree(r)
        /\ Live(r) => IndexFree(p)
        /\ row' = IF ~Exists(r) \/ (Live(r) /\ Collides(r, p)) THEN row
                  ELSE [row EXCEPT ![r].at = p]
        /\ redirect' = [redirect EXCEPT ![sess[s].at] = IF @ = r THEN None ELSE @]
        /\ Done(s)
        /\ UNCHANGED <<xfer, disk, faults, acked, clean>>

-----------------------------------------------------------------------------
(* Transfers *)

RequestTransfer(t, r, o) ==
    /\ "transfer" \in Ops
    /\ xfer[t].st = "none"
    /\ Live(r) /\ o # row[r].at[1]
    /\ xfer' = [xfer EXCEPT ![t] = [st |-> "pending", r |-> r, to |-> o, late |-> FALSE]]
    /\ UNCHANGED <<row, redirect, disk, sess, faults, acked, clean>>

\* One transaction: the transfer row FOR UPDATE, the redirect, the owner.
AcceptTransfer(s, t) ==
    LET r == xfer[t].r
        p == row[r].at
        q == <<xfer[t].to, p[2]>>
    IN  /\ sess[s].pc = "idle"
        /\ xfer[t].st = "pending" /\ ~xfer[t].late
        /\ Exists(r) /\ RowFree(r)
        /\ Live(r) => IndexFree(q) /\ ~Collides(r, q)
        /\ redirect' = [redirect EXCEPT ![p] = IF @ = None THEN r ELSE @]
        /\ row' = [row EXCEPT ![r].at = q]
        /\ xfer' = [xfer EXCEPT ![t].st = "accepted"]
        /\ Become(s, [Idle EXCEPT !.pc = "transferMove", !.r = r, !.at = p, !.to = q])
        /\ Relocate(s, r, q)
        /\ UNCHANGED <<disk, faults, acked>>

\* Best effort: a move that fails is logged.
TransferMove(s) ==
    LET p == sess[s].at
        q == sess[s].to
    IN  /\ sess[s].pc = "transferMove"
        /\ \/ /\ canon[p] # None /\ canon[q] = None
              /\ Shift(p, q) /\ UNCHANGED <<faults, clean>>
           \/ /\ canon[p] = None \/ canon[q] # None
              /\ clean' = FALSE /\ UNCHANGED <<canon, faults>>
           \/ Fault("fs") /\ clean' = FALSE /\ UNCHANGED canon
        /\ Done(s)
        /\ UNCHANGED <<row, meta, tomb, acked>>

\* DeclineTransfer, CancelTransfer and ExpirePending: WHERE status = 'pending'.
CloseTransfer(t, st) ==
    /\ xfer[t].st = "pending"
    /\ st = "expired" => xfer[t].late
    /\ xfer' = [xfer EXCEPT ![t].st = st]
    /\ UNCHANGED <<row, redirect, disk, sess, faults, acked, clean>>

-----------------------------------------------------------------------------
(* Crashes and time *)

\* The process is gone: the database rolls the transaction back, the disk stays.
Crash(s) ==
    /\ sess[s].pc # "idle"
    /\ Fault("crash")
    /\ row' = IF Inserting(s) THEN [row EXCEPT ![sess[s].r].st = "gone"] ELSE row
    /\ clean' = (clean /\ ~Unlocked(s))
    /\ Done(s)
    /\ UNCHANGED <<meta, disk, acked>>

Older(del) == IF del \in 0 .. Grace THEN del + 1 ELSE del

Tick ==
    /\ row' = [r \in Repos |-> [row[r] EXCEPT !.del = Older(@)]]
    /\ sess' = [s \in Sessions |-> [sess[s] EXCEPT !.del = Older(@)]]
    /\ xfer' = [t \in Transfers |-> [xfer[t] EXCEPT !.late = @ \/ xfer[t].st = "pending"]]
    /\ UNCHANGED <<redirect, disk, faults, acked, clean>>

-----------------------------------------------------------------------------

Step(s) ==
    \/ CreateInit(s) \/ CreateDisplace(s) \/ CreateReinit(s) \/ CreateFails(s)
    \/ CreateCommit(s) \/ CreateCommitFails(s) \/ CreateUndo(s)
    \/ SoftDeleteMove(s) \/ SoftDeleteCommit(s) \/ SoftDeleteFails(s) \/ SoftDeleteUndo(s)
    \/ RestoreMove(s) \/ RestoreCommit(s) \/ RestoreFails(s) \/ RestoreUndo(s)
    \/ HardDeleteRow(s) \/ HardDeleteRemove(s) \/ HardDeleteCommit(s) \/ HardDeleteFails(s)
    \/ RenameCommit(s) \/ RenameFails(s) \/ RenameMove(s) \/ RenameUndo(s)
    \/ TransferMove(s) \/ Crash(s)

Next ==
    \/ \E s \in Sessions : Step(s)
    \/ \E s \in Sessions, r \in Repos, p \in Place : CreateInsert(s, r, p)
    \/ \E s \in Sessions, r \in Repos, op \in {"softDelete", "restore", "hardDelete"} :
          Read(s, r, op)
    \/ \E s \in Sessions, r \in Repos, n \in Names : RenameRead(s, r, n)
    \/ \E s \in Sessions, t \in Transfers : AcceptTransfer(s, t)
    \/ \E t \in Transfers, r \in Repos, o \in Owners : RequestTransfer(t, r, o)
    \/ \E t \in Transfers, st \in {"declined", "canceled", "expired"} : CloseTransfer(t, st)
    \/ \E r \in Repos : ForceDelete(r)
    \/ Tick

Spec == Init /\ [][Next]_vars

-----------------------------------------------------------------------------
(* Properties *)

Steps == {"idle", "createInit", "createDisplace", "createReinit", "createCommit", "createUndo",
          "softDelete", "softDeleteCommit", "softDeleteUndo", "restore", "restoreCommit",
          "restoreUndo", "hardDelete", "hardRemove", "hardCommit", "renameCommit", "renameMove",
          "renameUndo", "transferMove"}
Row == [st : {"none", "row", "gone"}, at : Place \cup {None}, del : Age \cup {NotDeleted}]
Session == [pc : Steps, r : Dir, at : Place \cup {None}, to : Place \cup {None},
            del : Age \cup {NotDeleted}, active : BOOLEAN, moved : BOOLEAN,
            lock : Place \cup {None}]
Transfer == [st : {"none", "pending", "accepted", "declined", "canceled", "expired", "gone"},
             r : Dir, to : Owners \cup {None}, late : BOOLEAN]

\* Rows, redirects, transfers, directories, sessions and history have their types,
\* and a row that exists has a place.
TypeOK ==
    /\ row \in [Repos -> Row]
    /\ \A r \in Repos : Exists(r) => row[r].at # None
    /\ redirect \in [Place -> Dir]
    /\ xfer \in [Transfers -> Transfer]
    /\ canon \in [Place -> Dir]
    /\ tomb \in [Owners \X Repos -> Dir]
    /\ sess \in [Sessions -> Session]
    /\ faults \in 0 .. MaxFaults
    /\ acked \subseteq Repos
    /\ clean \in BOOLEAN

\* A relocation of r that has committed and not yet moved the directory.
Between(r) == {s \in Sessions : sess[s].r = r /\ sess[s].pc \in {"renameMove", "renameUndo", "transferMove"}}

\* docs/internal/repo-lifecycle.md: "Soft-deleted repos keep their bare data for
\* the full grace window".  The data of a repository that was created, and that
\* is live or still within its grace, is where the code looks for it: at its
\* place or at its tombstone.
DataKept ==
    clean => \A r \in acked :
        Exists(r) /\ row[r].del < Grace =>
            \/ canon[row[r].at] = r
            \/ tomb[Tomb(row[r].at, r)] = r
            \/ \E s \in Between(r) : canon[sess[s].at] = r

\* The path of a live repository never serves the data of another one, and the
\* tombstone from which a repository would be restored never holds another's.
OwnDataOnly ==
    clean => \A r \in acked :
        /\ Live(r) /\ Between(r) = {} => canon[row[r].at] \in {r, None}
        /\ Exists(r) /\ row[r].del < Grace => tomb[Tomb(row[r].at, r)] \in {r, None}

\* hard_delete.go: "The op refuses to run on a repo that isn't past its
\* soft-delete grace window".  A row that is deleted for good was, at that
\* moment, soft-deleted for at least the grace.  HardDelete compares the
\* deleted_at it read before it had the lock.
GraceRespected ==
    [][\A r \in Repos :
          Exists(r) /\ row'[r].st = "gone" => row[r].del >= Grace]_vars
=============================================================================
