---------------------------- MODULE PullRequests ----------------------------
(***************************************************************************)
(* Pull requests of one repository: the pull_requests and issues rows, the *)
(* branches in the bare git repository, and the processes that move them   *)
(* out of step.  internal/pulls opens, retargets, updates, merges, closes  *)
(* and reopens; the push:process, pr:synchronize and pr:mergeability jobs  *)
(* bring the rows up to date after a push.                                 *)
(*                                                                         *)
(* A commit is a number.  anc[c] is its history, itself included ({} while *)
(* the commit does not exist), has[c] the pushed changes its tree holds: a *)
(* squash or a rebase carries the changes without the history.  Statements *)
(* on the database that commit by themselves, and the git commands, are    *)
(* atomic; everything between two of them may be overtaken.                *)
(***************************************************************************)
EXTENDS Integers, FiniteSets

CONSTANTS
    PRs,        \* pull request ids
    Branches,   \* branch names
    Default,    \* the repository's default branch
    Start,      \* where the branches start: at 0, or one commit ahead of it
    Rules,      \* what the protection rule of a branch forbids pushes to do
    MaxCommit,  \* bound: commits are 0 .. MaxCommit
    MaxPushed,  \* bound: commits that were pushed, the first ones included
    MaxSyncs,   \* bound: pending pr:synchronize jobs counted per request
    Procs,      \* web requests and worker slots
    Ops,        \* operations the instance exercises
    FaultKinds, \* subset of {"hook", "enqueue", "refresh", "commit", "lost"}
    MaxFaults,  \* bound: number of faults
    MaxRequests,\* bound: number of user requests besides pushes and Create
    None

VARIABLES
    tip,        \* refs/heads: branch -> commit or None
    anc, has,   \* history and content of every commit
    pr,         \* pull_requests joined with issues: id -> row or None
    events,     \* push_events without processed_at, no worker on them
    syncs,      \* pending pr:synchronize jobs
    doid,       \* repos.default_branch_oid
    proc,       \* what every process is in the middle of
    faults, requests,
    landed,     \* history: what merges of a request put on which branch
    torn,       \* history: requests whose git move the database never saw
    moved,      \* history: requests reopened or retargeted
    crossed,    \* history: requests whose head moved unheard, see HeadFresh
    mixed,      \* history: moves of the default branch overlapped
    updated     \* history: commits update-branch put on the default branch

vars == <<tip, anc, has, pr, events, syncs, doid, proc,
          faults, requests, landed, torn, moved, crossed, mixed, updated>>
git == <<tip, anc, has>>
queues == <<events, syncs>>

Commits == 0 .. MaxCommit
Methods == {"merge", "squash", "rebase"}
Verdicts == {"unknown", "behind", "dirty", "blocked", "clean"}
Row == [base: Branches, head: Branches, boid: Commits, hoid: Commits,
        verdict: Verdicts, open: BOOLEAN,
        merged: Commits \cup {None}, mhead: Commits \cup {None}]
Event == [ref: Branches, after: Commits \cup {None}]
Landing == [on: Branches, commit: Commits, head: Commits]
Steps == {"idle", "probe", "insert", "fill", "sync", "reset", "judge", "gate",
          "perform", "close", "state", "base", "update", "record", "delete",
          "list"}
Proc == [step: Steps, p: PRs \cup {None}, base: Branches \cup {None},
         head: Branches \cup {None}, boid: Commits \cup {None},
         hoid: Commits \cup {None}, aim: Methods \cup {"open", "closed", None}]

Idle == [step |-> "idle", p |-> None, base |-> None, head |-> None,
         boid |-> None, hoid |-> None, aim |-> None]

ASSUME PullAssumption ==
    /\ Default \in Branches
    /\ Start \in [Branches -> Commits] /\ Start[Default] = 0
    /\ Rules \in [Branches -> SUBSET {"pr", "force", "delete"}]
    /\ MaxCommit \in Nat /\ MaxPushed \in Nat /\ MaxSyncs \in Nat \ {0}
    /\ MaxFaults \in Nat /\ MaxRequests \in Nat
    /\ None \notin Commits /\ None \notin PRs /\ None \notin Branches /\ None \notin Row

-----------------------------------------------------------------------------
(* Git. *)

Exists(c) == c \in anc[c]
Fresh == {c \in Commits : ~Exists(c) /\ \A d \in Commits : d < c => Exists(d)}

\* n becomes the tip of b, with history a and content h.
Commit(b, n, a, h) ==
    /\ tip' = [tip EXCEPT ![b] = n]
    /\ anc' = [anc EXCEPT ![n] = a \cup {n}]
    /\ has' = [has EXCEPT ![n] = h]

\* git log base..head is empty.
NothingAhead(b, h) == anc[h] \subseteq anc[b]

-----------------------------------------------------------------------------
(* Rows, locks, processes. *)

Row0(b, h, bo, ho) ==
    [base |-> b, head |-> h, boid |-> bo, hoid |-> ho, verdict |-> "unknown",
     open |-> TRUE, merged |-> None, mhead |-> None]

Opened(p) == pr[p] # None
Unmerged(p) == Opened(p) /\ pr[p].merged = None

\* Mutant: Merge reads its row without FOR UPDATE.
LockFreeAlways(p) == TRUE

\* LockPullRequestForMerge: SELECT ... FOR UPDATE until the merge's
\* transaction ends; every other write to the row waits for it.
LockFree(p) ==
    \A s \in Procs : proc[s].p = p => proc[s].step \notin {"gate", "perform", "close"}

\* Mutant: Create probes for a duplicate without the advisory lock.
PairFreeAlways(b, h) == TRUE

\* pg_advisory_xact_lock(createLockKey(repo, base, head)).
PairFree(b, h) ==
    \A s \in Procs : proc[s].step = "insert" => <<proc[s].base, proc[s].head>> # <<b, h>>

At(s, step) == proc[s].step = step
Begin(s, w) == proc' = [proc EXCEPT ![s] = w]
Go(s, step) == Begin(s, [proc[s] EXCEPT !.step = step])
Done(s) == Begin(s, Idle)

\* Work on p, with what is kept of its row and of the arguments.
On(step, p) == [Idle EXCEPT !.step = step, !.p = p]
Keeping(step, p, boid, hoid) == [On(step, p) EXCEPT !.boid = boid, !.hoid = hoid]
Loaded(step, p, aim) ==
    [Keeping(step, p, pr[p].boid, pr[p].hoid) EXCEPT
        !.base = pr[p].base, !.head = pr[p].head, !.aim = aim]

\* A user asks for something.
Request(op) == op \in Ops /\ requests < MaxRequests /\ requests' = requests + 1

Fault(k) == k \in FaultKinds /\ faults < MaxFaults
Spend == faults' = faults + 1

\* Processes that will write the snapshot columns of p.
Writers(p) == {s \in Procs : proc[s].p = p /\ proc[s].step \in {"insert", "fill", "sync", "update", "record"}}
Overlap(p) == crossed' = IF Writers(p) # {} THEN crossed \cup {p} ELSE crossed

\* A merge or an update-branch of p moves b without a push event: every other
\* request with head b, open or being opened, does not hear of it, and the code
\* leaves it as it is.
Unheard(p, b) ==
    crossed' = crossed \cup {q \in PRs \ {p} :
        \/ Opened(q) /\ pr[q].head = b
        \/ \E t \in Procs : proc[t].p = q /\ proc[t].step \in {"probe", "insert"} /\ proc[t].head = b}

\* The default branch moves while an earlier move is not yet accounted for.
Unsettled ==
    \/ \E e \in events : e.ref = Default
    \/ \E s \in Procs : proc[s].step \in {"close", "list"} /\ proc[s].base = Default
Mix(b) == mixed' = (mixed \/ (b = Default /\ Unsettled))

-----------------------------------------------------------------------------
Init ==
    /\ tip = Start
    /\ anc = [c \in Commits |-> IF \E b \in Branches : Start[b] = c THEN {0, c} ELSE {}]
    /\ has = anc
    /\ pr = [p \in PRs |-> None]
    /\ events = {} /\ syncs = [p \in PRs |-> 0]
    /\ doid = 0
    /\ proc = [s \in Procs |-> Idle]
    /\ faults = 0 /\ requests = 0
    /\ landed = [p \in PRs |-> {}] /\ torn = {}
    /\ moved = {} /\ crossed = {} /\ mixed = FALSE /\ updated = {}

-----------------------------------------------------------------------------
(* Pushes. *)

\* The post-receive hook records the push event and its push:process job in one
\* transaction, whose failure is only a warning to the pusher.  Equal events that
\* wait together are one.
Announce(b, after) ==
    \/ events' = events \cup {[ref |-> b, after |-> after]} /\ UNCHANGED faults
    \/ Fault("hook") /\ Spend /\ UNCHANGED events

\* protection.Enforce lets b go to a descendant of c, or to c: without a rule every
\* push passes, with one those it does not forbid.
Accepts(b, c) ==
    /\ "pr" \notin Rules[b]
    /\ tip[b] = None \/ tip[b] \in anc[c] \/ "force" \notin Rules[b]

\* A push (or webedit) of a new commit on c, or of c itself: it fast-forwards b,
\* creates it or, forced, takes it elsewhere.
Push(b) ==
    /\ "push" \in Ops
    /\ \E c \in Commits :
        /\ Exists(c) /\ Accepts(b, c)
        /\ IF c = tip[b] THEN UNCHANGED requests ELSE Request("rewrite")
        /\ \/ /\ Cardinality({d \in Commits : d \in has[d]}) < MaxPushed
              /\ \E n \in Fresh : Commit(b, n, anc[c], has[c] \cup {n}) /\ Announce(b, n)
           \/ /\ c # tip[b] /\ tip' = [tip EXCEPT ![b] = c]
              /\ Announce(b, c)
              /\ UNCHANGED <<anc, has>>
    /\ Mix(b)
    /\ UNCHANGED <<pr, syncs, doid, proc, landed, torn, moved, crossed, updated>>

\* A push that deletes b; git itself keeps the branch HEAD names.
PushDelete(b) ==
    /\ Request("rewrite")
    /\ b # Default /\ tip[b] # None /\ "delete" \notin Rules[b]
    /\ tip' = [tip EXCEPT ![b] = None]
    /\ Announce(b, None)
    /\ UNCHANGED <<anc, has, pr, syncs, doid, proc, landed, torn, moved, crossed, mixed, updated>>

-----------------------------------------------------------------------------
(* push:process. *)

\* Load an unprocessed event; a push to the default branch writes its commit
\* to default_branch_oid, and an error of that statement is dropped.
ProcessPush(s, e) ==
    /\ At(s, "idle") /\ e \in events
    /\ events' = events \ {e}
    /\ \/ doid' = (IF e.ref = Default THEN e.after ELSE doid) /\ UNCHANGED faults
       \/ e.ref = Default /\ Fault("refresh") /\ Spend /\ UNCHANGED doid
    /\ Begin(s, [Idle EXCEPT !.step = "list", !.base = e.ref, !.hoid = e.after])
    /\ UNCHANGED <<git, pr, syncs, requests, landed, torn, moved, crossed, mixed, updated>>

Enqueue(Q) ==
    syncs' = [p \in PRs |-> IF p \in Q /\ syncs[p] < MaxSyncs THEN syncs[p] + 1 ELSE syncs[p]]

\* Mutant: push:process looks for requests by their base.
MatchingBase(b) == {p \in PRs : Unmerged(p) /\ pr[p].open /\ pr[p].base = b}

Matching(b) == {p \in PRs : Unmerged(p) /\ pr[p].open /\ pr[p].head = b}

\* ListOpenPRsForHeadRef, one pr:synchronize job each, then processed_at.  A
\* failed enqueue is only logged; a job that fails before processed_at, or
\* whose worker dies, is handed out again and reruns from the start.
ListPRs(s) ==
    /\ At(s, "list")
    /\ \/ Enqueue(Matching(proc[s].base)) /\ UNCHANGED <<events, faults, mixed>>
       \/ Fault("enqueue") /\ Spend /\ UNCHANGED <<events, syncs, mixed>>
       \/ /\ Fault("lost") /\ Spend
          /\ \/ Enqueue(Matching(proc[s].base))
             \/ UNCHANGED syncs
          /\ events' = events \cup {[ref |-> proc[s].base, after |-> proc[s].hoid]}
          /\ Mix(proc[s].base)
    /\ crossed' = crossed \cup {p \in PRs : \E t \in Procs :
                    /\ proc[t].p = p /\ proc[t].step \in {"probe", "insert"}
                    /\ proc[t].head = proc[s].base}
    /\ Done(s)
    /\ UNCHANGED <<git, pr, doid, requests, landed, torn, moved, updated>>

-----------------------------------------------------------------------------
(* Create. *)

\* Resolve both refs; they must differ and so must their commits.
CreateResolve(s, p, b, h) ==
    /\ "create" \in Ops
    /\ At(s, "idle") /\ ~Opened(p)
    /\ \A t \in Procs : proc[t].p # p
    /\ b # h /\ tip[b] # None /\ tip[h] # None /\ tip[b] # tip[h]
    /\ Begin(s, [Keeping("probe", p, tip[b], tip[h]) EXCEPT !.base = b, !.head = h])
    /\ UNCHANGED <<git, pr, queues, doid, faults, requests, landed, torn, moved,
                   crossed, mixed, updated>>

Duplicate(b, h) ==
    \E q \in PRs : Opened(q) /\ pr[q].open /\ pr[q].base = b /\ pr[q].head = h

\* Begin, take the advisory lock, FindOpenPullRequestByBranches.
CreateProbe(s) ==
    /\ At(s, "probe")
    /\ PairFree(proc[s].base, proc[s].head)
    /\ IF Duplicate(proc[s].base, proc[s].head) THEN Done(s) ELSE Go(s, "insert")
    /\ UNCHANGED <<git, pr, queues, doid, faults, requests, landed, torn, moved,
                   crossed, mixed, updated>>

\* Both inserts become visible with COMMIT, which frees the lock; or it fails.
CreateCommit(s) ==
    /\ At(s, "insert")
    /\ \/ /\ pr' = [pr EXCEPT ![proc[s].p] =
                Row0(proc[s].base, proc[s].head, proc[s].boid, proc[s].hoid)]
          /\ Begin(s, Keeping("fill", proc[s].p, proc[s].boid, proc[s].hoid))
          /\ UNCHANGED faults
       \/ Fault("commit") /\ Spend /\ Done(s) /\ UNCHANGED pr
    /\ UNCHANGED <<git, queues, doid, requests, landed, torn, moved, crossed, mixed, updated>>

\* The initial refreshCommitsAndFiles writes the snapshot resolved at the
\* start once more; best effort.
CreateFill(s) ==
    /\ At(s, "fill")
    /\ \/ /\ LockFree(proc[s].p)
          /\ pr' = [pr EXCEPT ![proc[s].p].boid = proc[s].boid,
                              ![proc[s].p].hoid = proc[s].hoid]
          /\ UNCHANGED faults
       \/ Fault("refresh") /\ Spend /\ UNCHANGED pr
    /\ Done(s)
    /\ UNCHANGED <<git, queues, doid, requests, landed, torn, moved, crossed, mixed, updated>>

-----------------------------------------------------------------------------
(* pr:synchronize and pr:mergeability. *)

\* Read the row, resolve both refs; a missing ref fails the job, until the queue
\* gives it up.
SyncResolve(s, p) ==
    /\ At(s, "idle") /\ syncs[p] > 0
    /\ syncs' = [syncs EXCEPT ![p] = @ - 1]
    /\ IF tip[pr[p].base] = None \/ tip[pr[p].head] = None
       THEN crossed' = crossed \cup {p} /\ UNCHANGED proc
       ELSE /\ Begin(s, Keeping("sync", p, tip[pr[p].base], tip[pr[p].head]))
            /\ Overlap(p)
    /\ UNCHANGED <<git, pr, events, doid, faults, requests, landed, torn, moved, mixed, updated>>

\* refreshCommitsAndFiles: one transaction that ends in SetPullRequestSnapshot.
SyncRefresh(s) ==
    /\ At(s, "sync") /\ LockFree(proc[s].p)
    /\ pr' = [pr EXCEPT ![proc[s].p].boid = proc[s].boid,
                        ![proc[s].p].hoid = proc[s].hoid]
    /\ Begin(s, On("reset", proc[s].p))
    /\ UNCHANGED <<git, queues, doid, faults, requests, landed, torn, moved,
                   crossed, mixed, updated>>

\* A statement of its own: mergeable_state goes back to unknown.
SyncReset(s) ==
    /\ At(s, "reset") /\ LockFree(proc[s].p)
    /\ pr' = [pr EXCEPT ![proc[s].p].verdict = "unknown"]
    /\ Done(s)
    /\ UNCHANGED <<git, queues, doid, faults, requests, landed, torn, moved,
                   crossed, mixed, updated>>

\* The job fails or its worker dies: it is handed out again.
SyncLost(s) ==
    /\ Fault("lost") /\ Spend
    /\ proc[s].step \in {"sync", "reset"}
    /\ syncs[proc[s].p] < MaxSyncs
    /\ syncs' = [syncs EXCEPT ![proc[s].p] = @ + 1]
    /\ Done(s)
    /\ UNCHANGED <<git, pr, events, doid, requests, landed, torn, moved, crossed, mixed, updated>>

\* Mergeability reads the row.  A tick may come at any time: opening the
\* page, a review, a check and every change of the request enqueue one.
Mergeability(s, p) ==
    /\ At(s, "idle") /\ Opened(p)
    /\ Begin(s, Keeping("judge", p, pr[p].boid, pr[p].hoid))
    /\ UNCHANGED <<git, pr, queues, doid, faults, requests, landed, torn, moved,
                   crossed, mixed, updated>>

\* Conflicts are for merge-tree to find, and reviews and checks change at any
\* time: each outcome is possible for a head that is ahead.
Judgement(s) ==
    IF NothingAhead(proc[s].boid, proc[s].hoid) THEN {"behind"}
    ELSE {"dirty", "blocked", "clean"}

\* SetPullRequestMergeability writes whatever snapshot the verdict is about.
Judge(s) ==
    /\ At(s, "judge") /\ LockFree(proc[s].p)
    /\ \E v \in Judgement(s) : pr' = [pr EXCEPT ![proc[s].p].verdict = v]
    /\ Done(s)
    /\ UNCHANGED <<git, queues, doid, faults, requests, landed, torn, moved,
                   crossed, mixed, updated>>

-----------------------------------------------------------------------------
(* Merge: one transaction that holds the row from the first statement on. *)

\* Lock the row; not merged, open, head not in base's history, clean.
MergeLock(s, p, method) ==
    /\ Request("merge")
    /\ At(s, "idle") /\ Unmerged(p) /\ LockFree(p)
    /\ pr[p].open
    /\ pr[p].hoid \notin anc[pr[p].boid]
    /\ pr[p].verdict = "clean"
    /\ Begin(s, Loaded("gate", p, method))
    /\ UNCHANGED <<git, pr, queues, doid, faults, landed, torn, moved,
                   crossed, mixed, updated>>

\* review.Evaluate, which is asked about the request, and EvaluateRequiredChecks,
\* about the locked row's head, again under the lock; reviews and checks change at
\* any time, so either may stop the merge.
MergeGate(s) ==
    /\ At(s, "gate")
    /\ Go(s, "perform") \/ Done(s)
    /\ UNCHANGED <<git, pr, queues, doid, faults, requests, landed, torn, moved,
                   crossed, mixed, updated>>

\* What PerformMerge leaves in the worktree: the commit, its history and its
\* content.  A rebase of changes base already has leaves base itself.
Merged(s, n) ==
    LET b == proc[s].boid h == proc[s].hoid
    IN  IF proc[s].aim = "rebase" /\ has[h] \subseteq has[b]
        THEN [commit |-> b, anc |-> anc[b], has |-> has[b]]
        ELSE [commit |-> n,
              anc |-> IF proc[s].aim = "merge" THEN anc[b] \cup anc[h] ELSE anc[b],
              has |-> has[b] \cup has[h]]

\* Mutant: update-ref without the old commit.
MergePerformForced(s) ==
    /\ At(s, "perform")
    /\ ~(proc[s].aim = "squash" /\ has[proc[s].hoid] \subseteq has[proc[s].boid])
    /\ \E n \in Fresh :
        LET m == Merged(s, n)
        IN  /\ Commit(proc[s].base, m.commit, m.anc, m.has)
            /\ landed' = [landed EXCEPT ![proc[s].p] =
                @ \cup {[on |-> proc[s].base, commit |-> m.commit, head |-> proc[s].hoid]}]
            /\ Begin(s, [proc[s] EXCEPT !.step = "close", !.boid = m.commit, !.aim = None])
    /\ Mix(proc[s].base) /\ Unheard(proc[s].p, proc[s].base)
    /\ UNCHANGED <<pr, queues, doid, faults, requests, torn, moved, updated>>

\* PerformMerge; update-ref moves base only from the commit merged onto, and
\* a squash with nothing to commit fails.
MergePerform(s) ==
    /\ At(s, "perform")
    /\ tip[proc[s].base] = proc[s].boid
    /\ ~(proc[s].aim = "squash" /\ has[proc[s].hoid] \subseteq has[proc[s].boid])
    /\ \E n \in Fresh :
        LET m == Merged(s, n)
        IN  /\ Commit(proc[s].base, m.commit, m.anc, m.has)
            /\ landed' = [landed EXCEPT ![proc[s].p] =
                @ \cup {[on |-> proc[s].base, commit |-> m.commit, head |-> proc[s].hoid]}]
            /\ Begin(s, [proc[s] EXCEPT !.step = "close", !.boid = m.commit, !.aim = None])
    /\ Mix(proc[s].base) /\ Unheard(proc[s].p, proc[s].base)
    /\ UNCHANGED <<pr, queues, doid, faults, requests, torn, moved, updated>>

\* Mutant: PerformMerge's error is dropped and the request marked merged.
MergeFailsRecorded(s) ==
    /\ At(s, "perform")
    /\ pr' = [pr EXCEPT ![proc[s].p].merged = proc[s].boid,
                        ![proc[s].p].mhead = proc[s].hoid,
                        ![proc[s].p].open = FALSE]
    /\ Done(s)
    /\ UNCHANGED <<git, queues, doid, faults, requests, landed, torn, moved,
                   crossed, mixed, updated>>

\* Conflicts, a moved base, any error before update-ref: rollback.
MergeFails(s) ==
    /\ At(s, "perform")
    /\ Done(s)
    /\ UNCHANGED <<git, pr, queues, doid, faults, requests, landed, torn, moved,
                   crossed, mixed, updated>>

\* Mutant: default_branch_oid is left to a push event that never comes.
MergeCommitSilent(s) ==
    /\ At(s, "close")
    /\ pr' = [pr EXCEPT ![proc[s].p].merged = proc[s].boid,
                        ![proc[s].p].mhead = proc[s].hoid,
                        ![proc[s].p].verdict = "clean",
                        ![proc[s].p].open = FALSE]
    /\ Done(s)
    /\ UNCHANGED <<git, queues, doid, faults, requests, landed, torn, moved, crossed, mixed, updated>>

\* SetPullRequestMerged, default_branch_oid, SetIssueState(closed), COMMIT.
MergeCommit(s) ==
    /\ At(s, "close")
    /\ pr' = [pr EXCEPT ![proc[s].p].merged = proc[s].boid,
                        ![proc[s].p].mhead = proc[s].hoid,
                        ![proc[s].p].verdict = "clean",
                        ![proc[s].p].open = FALSE]
    /\ doid' = IF proc[s].base = Default THEN proc[s].boid ELSE doid
    /\ Done(s)
    /\ UNCHANGED <<git, queues, faults, requests, landed, torn, moved, crossed, mixed, updated>>

\* An error or a crash after update-ref: base has moved, the rows have not.
MergeTorn(s) ==
    /\ Fault("commit") /\ Spend
    /\ At(s, "close")
    /\ torn' = torn \cup {proc[s].p}
    /\ Done(s)
    /\ UNCHANGED <<git, pr, queues, doid, requests, landed, moved, crossed, mixed, updated>>

-----------------------------------------------------------------------------
(* Close and reopen, change of base, update-branch, deletion of the head. *)

\* SetState reads the row without a lock: not merged, and for a reopening
\* both refs still there.
StateRead(s, p, state) ==
    /\ Request("state")
    /\ At(s, "idle") /\ Unmerged(p)
    /\ state = "open" => tip[pr[p].base] # None /\ tip[pr[p].head] # None
    /\ Begin(s, [On("state", p) EXCEPT !.aim = state])
    /\ UNCHANGED <<git, pr, queues, doid, faults, landed, torn, moved,
                   crossed, mixed, updated>>

\* issues.SetState updates the issue row, whatever became of the request.
StateWrite(s) ==
    /\ At(s, "state")
    /\ pr' = [pr EXCEPT ![proc[s].p].open = (proc[s].aim = "open")]
    /\ moved' = IF proc[s].aim = "open" THEN moved \cup {proc[s].p} ELSE moved
    /\ Done(s)
    /\ UNCHANGED <<git, queues, doid, faults, requests, landed, torn, crossed, mixed, updated>>

\* SetBase resolves the new base; neither merged nor closed stops it.
BaseResolve(s, p, b) ==
    /\ Request("base")
    /\ At(s, "idle") /\ Opened(p)
    /\ b # pr[p].head /\ tip[b] # None
    /\ Begin(s, [On("base", p) EXCEPT !.base = b, !.boid = tip[b]])
    /\ UNCHANGED <<git, pr, queues, doid, faults, landed, torn, moved,
                   crossed, mixed, updated>>

BaseWrite(s) ==
    /\ At(s, "base") /\ LockFree(proc[s].p)
    /\ pr' = [pr EXCEPT ![proc[s].p].base = proc[s].base, ![proc[s].p].boid = proc[s].boid]
    /\ moved' = moved \cup {proc[s].p}
    /\ Done(s)
    /\ UNCHANGED <<git, queues, doid, faults, requests, landed, torn, crossed, mixed, updated>>

\* UpdateBranch reads an open, unmerged request.
UpdateRead(s, p, method) ==
    /\ Request("update")
    /\ At(s, "idle") /\ Unmerged(p) /\ pr[p].open
    /\ tip[pr[p].base] # None
    /\ Begin(s, Loaded("update", p, method))
    /\ Overlap(p)
    /\ UNCHANGED <<git, pr, queues, doid, faults, landed, torn, moved, mixed, updated>>

\* UpdateBranchFromBase with base's current tip; head already containing it,
\* a conflict or a moved head end the request.
UpdatePerform(s) ==
    /\ At(s, "update")
    /\ LET b == tip[proc[s].base] h == proc[s].hoid
       IN  \/ /\ b # None /\ b \notin anc[h]
              /\ tip[proc[s].head] = h
              /\ \E n \in Fresh :
                  /\ Commit(proc[s].head, n,
                            IF proc[s].aim = "rebase" THEN anc[b] ELSE anc[b] \cup anc[h],
                            has[b] \cup has[h])
                  /\ Begin(s, Keeping("record", proc[s].p, proc[s].boid, n))
                  /\ updated' = IF proc[s].head = Default THEN updated \cup {n} ELSE updated
              /\ Unheard(proc[s].p, proc[s].head)
           \/ Done(s) /\ UNCHANGED <<git, crossed, updated>>
    /\ UNCHANGED <<pr, queues, doid, faults, requests, landed, torn, moved, mixed>>

\* The new head goes into the row with the base commit read at the start.
UpdateRecord(s) ==
    /\ At(s, "record")
    /\ \/ /\ LockFree(proc[s].p)
          /\ pr' = [pr EXCEPT ![proc[s].p].boid = proc[s].boid,
                              ![proc[s].p].hoid = proc[s].hoid]
          /\ UNCHANGED <<faults, torn>>
       \/ Fault("commit") /\ Spend /\ torn' = torn \cup {proc[s].p} /\ UNCHANGED pr
    /\ Done(s)
    /\ UNCHANGED <<git, queues, doid, requests, landed, moved, crossed, mixed, updated>>

\* pullDeleteHeadBranch loads a merged request ...
DeleteRead(s, p) ==
    /\ Request("delete")
    /\ At(s, "idle") /\ Opened(p) /\ pr[p].merged # None
    /\ pr[p].head # Default
    /\ Begin(s, [On("delete", p) EXCEPT !.head = pr[p].head, !.hoid = pr[p].hoid])
    /\ UNCHANGED <<git, pr, queues, doid, faults, landed, torn, moved,
                   crossed, mixed, updated>>

\* ... and deletes its head branch if that is still at head_oid.
DeleteHead(s) ==
    /\ At(s, "delete")
    /\ tip' = IF tip[proc[s].head] = proc[s].hoid THEN [tip EXCEPT ![proc[s].head] = None] ELSE tip
    /\ Done(s)
    /\ UNCHANGED <<anc, has, pr, queues, doid, faults, requests, landed, torn,
                   moved, crossed, mixed, updated>>

-----------------------------------------------------------------------------
Next ==
    \/ \E b \in Branches : Push(b) \/ PushDelete(b)
    \/ \E s \in Procs :
        \/ \E e \in events : ProcessPush(s, e)
        \/ ListPRs(s)
        \/ \E p \in PRs, b, h \in Branches : CreateResolve(s, p, b, h)
        \/ CreateProbe(s) \/ CreateCommit(s) \/ CreateFill(s)
        \/ \E p \in PRs : SyncResolve(s, p) \/ Mergeability(s, p) \/ DeleteRead(s, p)
        \/ SyncRefresh(s) \/ SyncReset(s) \/ SyncLost(s) \/ Judge(s)
        \/ \E p \in PRs, m \in Methods : MergeLock(s, p, m)
        \/ MergeGate(s) \/ MergePerform(s) \/ MergeFails(s) \/ MergeCommit(s) \/ MergeTorn(s)
        \/ \E p \in PRs, o \in {"open", "closed"} : StateRead(s, p, o)
        \/ StateWrite(s)
        \/ \E p \in PRs, b \in Branches : BaseResolve(s, p, b)
        \/ BaseWrite(s)
        \/ \E p \in PRs, m \in {"merge", "rebase"} : UpdateRead(s, p, m)
        \/ UpdatePerform(s) \/ UpdateRecord(s) \/ DeleteHead(s)

Spec == Init /\ [][Next]_vars

-----------------------------------------------------------------------------
(* Properties. *)

\* Every variable stays in its type; a merge commit and a merged head are
\* recorded together.
TypeOK ==
    /\ tip \in [Branches -> Commits \cup {None}]
    /\ anc \in [Commits -> SUBSET Commits] /\ has \in [Commits -> SUBSET Commits]
    /\ pr \in [PRs -> Row \cup {None}]
    /\ \A p \in PRs : Opened(p) => (pr[p].merged = None <=> pr[p].mhead = None)
    /\ events \subseteq Event /\ syncs \in [PRs -> 0 .. MaxSyncs]
    /\ doid \in Commits /\ proc \in [Procs -> Proc]
    /\ faults \in 0 .. MaxFaults /\ requests \in 0 .. MaxRequests
    /\ landed \in [PRs -> SUBSET Landing]
    /\ torn \subseteq PRs /\ moved \subseteq PRs /\ crossed \subseteq PRs
    /\ mixed \in BOOLEAN /\ updated \subseteq Commits

\* Concurrent merges of a request put it on its base at most once, whatever
\* pushes, synchronizations and mergeability ticks run between (the FOR
\* UPDATE of Merge, merge.go:69); only a merge whose transaction was lost
\* after update-ref can be followed by another.
LandsOnce == \A p \in PRs \ torn : \A l, m \in landed[p] : l = m

\* A request the database shows as merged is merged: its merge commit went to a
\* branch, and where that is the default branch and its rule forbids force
\* pushes, the branch still holds every change of the head that was merged; no
\* concurrent merge, update-branch or push took it away (update-ref with the old
\* commit, mergeops.go:373; prevent_force_push, protection.go:97).
MergedTruthful ==
    \A p \in PRs : Opened(p) /\ pr[p].merged # None =>
        \E l \in landed[p] :
            /\ l.commit = pr[p].merged /\ l.head = pr[p].mhead
            /\ l.on = Default /\ "force" \in Rules[Default] =>
                  has[l.head] \subseteq has[tip[Default]]

\* At most one open request per base and head was opened as such: concurrent
\* Create calls serialise on the advisory lock (pulls.go:146-170).  Requests
\* reopened or moved to another base are not checked for duplicates.
OneOpenPerPair ==
    \A p, q \in PRs \ moved :
        /\ p # q /\ Opened(p) /\ Opened(q) /\ pr[p].open /\ pr[q].open
        => <<pr[p].base, pr[p].head>> # <<pr[q].base, pr[q].head>>

Quiet == events = {} /\ \A s \in Procs : At(s, "idle")

\* Once push events and synchronizations have drained, an open request shows the
\* tip of its head branch (push:process, 4b), after pushes, forced ones included,
\* and after its own update-branch, provided both its branches exist and no fault
\* lost a push event, a job or a write.  The code does not see to it, and the
\* requests are left out, when the request was reopened or retargeted (moved) and
\* when, in crossed, another request's merge or update-branch moved its head
\* branch, a push to it was processed while the request was being opened, its
\* synchronization was given up over a missing branch, or two writers of its
\* snapshot overlapped.
HeadFresh ==
    Quiet /\ faults = 0 => \A p \in PRs \ (moved \cup crossed) :
        /\ Unmerged(p) /\ pr[p].open /\ syncs[p] = 0
        /\ tip[pr[p].base] # None /\ tip[pr[p].head] # None
        => pr[p].hoid = tip[pr[p].head]

\* Once push events have drained, default_branch_oid is the tip of the default
\* branch, after pushes (push:process, 2) as after merges, which no hook
\* announces (merge.go:202-209), provided no two of its moves overlapped.  Left
\* out is a tip that update-branch made of a request whose head is the default
\* branch: UpdateBranch never writes the column, so it stays behind.
DefaultFresh ==
    Quiet /\ faults = 0 /\ ~mixed => doid = tip[Default] \/ tip[Default] \in updated

Overwritten(b) == tip[b] # None /\ tip'[b] # None /\ ~(has[tip[b]] \subseteq has'[tip'[b]])

BranchesGrow == \A b \in Branches : Overwritten(b) => "force" \notin Rules[b] /\ UNCHANGED proc

\* No step of the server takes a change off a branch that stays: merge and
\* update-branch move a ref only from the commit they built on, however pushes
\* interleave.  A push does so only where no rule forbids it.
NothingOverwritten == [][BranchesGrow]_vars

DeletedHeadMerged ==
    \A s \in Procs : At(s, "delete") /\ ~At(s, "delete")' =>
        \/ tip'[proc[s].head] = tip[proc[s].head]
        \/ tip[proc[s].head] = pr[proc[s].p].mhead

\* docs/internal/pull-requests.md: deleting the head branch compares with the
\* expected head "so a branch that moved after merge cannot be removed
\* accidentally".  The branch that is deleted is at the commit that was merged.
MovedHeadKept == [][DeletedHeadMerged]_vars
=============================================================================
