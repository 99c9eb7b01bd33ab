---------------------------- MODULE WorkflowRuns ----------------------------
(***************************************************************************)
(* The Actions control plane: how a workflow run, its jobs and their check *)
(* runs move when triggers, runners, users and administrators act at the   *)
(* same time.                                                              *)
(*                                                                         *)
(* Every handler is a database transaction at READ COMMITTED.  A session   *)
(* is one such handler in flight.  Its row updates are kept in the session *)
(* (w for jobs, v for runs) and become visible at its Commit; until then   *)
(* the rows it updated are locked and a second updater waits.  What a      *)
(* handler reads, it reads from the committed rows and its own updates, at *)
(* the step that reads, so what it knows may be old when it commits.       *)
(*                                                                         *)
(* One repository is modelled.  The owner-wide cap has the shape of the    *)
(* repository cap, labels and environments are data the claim filters on;  *)
(* they are left out.                                                      *)
(***************************************************************************)
EXTENDS Naturals, FiniteSets

CONSTANTS
  Runs,               \* workflow_runs the triggers may create
  Jobs,               \* their workflow_jobs; numbers, in insertion order
  Runners,            \* registered runners
  Sessions,           \* handlers that can be in flight at once
  Triggers,           \* the sessions that run the trigger worker
  None,
  RunOf,              \* [Jobs -> Runs]
  Needs,              \* [Jobs -> SUBSET Jobs], the needs: edges
  Gated,              \* runs that need a maintainer's approval
  Grouped,            \* runs of the one concurrency group
  CancelInProgress,   \* runs whose workflow says cancel-in-progress
  Capacity,           \* a runner's capacity
  RepoCap,            \* max_repo_concurrent_jobs
  Outcomes,           \* the conclusions an execution can end with
  Requests,           \* the requests users and administrators make
  MaxTries,           \* attempts the worker makes at one trigger
  FaultKinds,         \* the faults that can happen ...
  MaxFaults           \* ... and how many of them do

VARIABLES
  run,      \* workflow_runs, with their approval request
  job,      \* workflow_jobs
  open,     \* jobs that have open workflow_steps
  check,    \* check_runs, by job
  older,    \* older[r]: the runs whose created_at is before that of r
  tries,    \* attempts made at the trigger of each run
  runner,   \* workflow_runners: active, draining or revoked
  agent,    \* the runner processes
  ses,      \* the handlers in flight
  faults    \* how many faults have happened

vars == <<run, job, open, check, older, tries, runner, agent, ses, faults>>

-----------------------------------------------------------------------------
(* Rows. *)

Failures == {"failure", "timed_out", "action_required"}

Conclusions == Failures \cup {"success", "cancelled"}

Terminal == {"completed", "cancelled", "skipped"}

RunRow ==
  [st : {"absent", "queued", "running", "completed"},
   con : Conclusions \cup {"none"},
   approved : {"no", "yes"},                              \* approved_by_user_id
   request : {"none", "pending", "approved", "rejected"}] \* need_approval, its row

JobRow ==
  [st : {"absent", "queued", "running"} \cup Terminal,
   con : Conclusions \cup {"none"},
   cancel : {"no", "yes"},
   runner : Runners \cup {None}]

CheckRow ==
  [st : {"none", "queued", "in_progress", "completed"}, con : Conclusions \cup {"none"}]

AbsentRun == [st |-> "absent", con |-> "none", approved |-> "no", request |-> "none"]
AbsentJob == [st |-> "absent", con |-> "none", cancel |-> "no", runner |-> None]

NoJobs == [j \in Jobs |-> None]
NoRuns == [r \in Runs |-> None]

\* what a transaction does to a run row once it holds it
Verdicts == {"create", "block", "start", "mark", "reject"} \cup Conclusions

Session ==
  [op : {"none", "enqueue", "reconcile", "recover", "claim", "status", "step", "cancel",
         "approve", "reject"},
   pc : {"free", "begin", "enforce", "update", "commit", "sync"},
   n : Runners \cup {None},
   j : Jobs \cup {None},
   r : Runs \cup {None},
   to : {"none", "running", "cancelled", "ended"} \cup Outcomes,
   w : [Jobs -> JobRow \cup {None}],
   v : [Runs -> Verdicts \cup {None}],
   locks : SUBSET Runs]

Free ==
  [op |-> "none", pc |-> "free", n |-> None, j |-> None, r |-> None, to |-> "none",
   w |-> NoJobs, v |-> NoRuns, locks |-> {}]

Agent ==
  [pc : {"idle", "asking", "holding", "reporting", "working", "stepping", "finishing"},
   job : Jobs \cup {None},
   stop : {"no", "yes"},
   ses : Sessions \cup {None}]

Idle == [pc |-> "idle", job |-> None, stop |-> "no", ses |-> None]

JobsOf(r) == {j \in Jobs : RunOf[j] = r}

\* The shape of the workflows: a job belongs to one run and needs jobs of that
\* run, and a runner reports a conclusion the server knows.
ASSUME ConstantsAssumption ==
  /\ Jobs \subseteq Nat
  /\ RunOf \in [Jobs -> Runs]
  /\ Needs \in [Jobs -> SUBSET Jobs]
  /\ \A j \in Jobs : \A d \in Needs[j] : RunOf[d] = RunOf[j]
  /\ Triggers \subseteq Sessions
  /\ Outcomes \subseteq Conclusions
  /\ None \notin Runs /\ None \notin Jobs /\ None \notin Verdicts
  /\ None \notin Runners /\ None \notin Sessions
  /\ MaxTries \in Nat /\ MaxFaults \in Nat

Init ==
  /\ run = [r \in Runs |-> AbsentRun]
  /\ job = [j \in Jobs |-> AbsentJob]
  /\ open = {}
  /\ check = [j \in Jobs |-> [st |-> "none", con |-> "none"]]
  /\ older = [r \in Runs |-> {}]
  /\ tries = [r \in Runs |-> 0]
  /\ runner = [n \in Runners |-> "active"]
  /\ agent = [n \in Runners |-> Idle]
  /\ ses = [s \in Sessions |-> Free]
  /\ faults = 0

-----------------------------------------------------------------------------
(* Transactions: what a session has locked, and what it waits for. *)

InTx(s) == ses[s].pc \in {"enforce", "commit"}

\* another session has updated job row j and not committed
JobLocked(s, j) == \E t \in Sessions \ {s} : InTx(t) /\ ses[t].w[j] # None

\* another session holds run row r FOR UPDATE
RunLocked(s, r) == \E t \in Sessions \ {s} : InTx(t) /\ r \in ses[t].locks

\* another session has updated the approval request of r and not committed
RequestLocked(s, r) ==
  \E t \in Sessions \ {s} : InTx(t) /\ ses[t].op = "reject" /\ ses[t].r = r

\* mutant of RunnerLocked: the claim does not lock the runner row
RunnerNotLocked(s, n) == FALSE

\* another session holds the row of runner n
RunnerLocked(s, n) ==
  \E t \in Sessions \ {s} : InTx(t) /\ ses[t].op = "claim" /\ ses[t].n = n

Written(w) == {j \in Jobs : w[j] # None}

\* the jobs as a session that wrote w sees them
Seen(w) == [j \in Jobs |-> IF w[j] = None THEN job[j] ELSE w[j]]

-----------------------------------------------------------------------------
(* Rollup of the jobs of a run into the run. *)

FirstFailure(F) == CHOOSE j \in F : \A i \in F : j <= i

DeriveWorkflowRunConclusion(r, rows) ==
  LET failed == {j \in JobsOf(r) : rows[j].st # "cancelled" /\ rows[j].con \in Failures}
  IN  IF failed # {} THEN rows[FirstFailure(failed)].con
      ELSE IF \E j \in JobsOf(r) : rows[j].st = "cancelled" \/ rows[j].con = "cancelled"
           THEN "cancelled"
           ELSE "success"

\* mutant of Rollup: a job that is not queued counts as finished
RollupEager(r, rows, otherwise) ==
  IF \A j \in JobsOf(r) : rows[j].st # "queued"
  THEN DeriveWorkflowRunConclusion(r, rows)
  ELSE otherwise

\* the verdict on r, or what to do with r when some job is not terminal
Rollup(r, rows, otherwise) ==
  IF \A j \in JobsOf(r) : rows[j].st \in Terminal
  THEN DeriveWorkflowRunConclusion(r, rows)
  ELSE otherwise

\* RollupAfterCancel, for every run that has a job in w
RollupAfterCancel(w) ==
  [r \in Runs |-> IF Written(w) \cap JobsOf(r) = {} THEN None ELSE Rollup(r, Seen(w), "mark")]

\* need_approval = false OR approved_by_user_id IS NOT NULL
Dispatchable(row) == row.request = "none" \/ row.approved = "yes"

\* RejectRun acts on runs that are still pending
Rejectable(row) == row.st = "queued" /\ row.approved = "no"

Created(r) ==
  [st |-> "queued", con |-> "none", approved |-> "no",
   request |-> IF r \in Gated THEN "pending" ELSE "none"]

Completed(row, c) == [row EXCEPT !.st = "completed", !.con = c]

\* StartWorkflowRun
Started(row) == IF row.st = "queued" /\ Dispatchable(row) THEN [row EXCEPT !.st = "running"] ELSE row

\* MarkWorkflowRunRunning
Marked(row) == IF row.st = "queued" THEN [row EXCEPT !.st = "running"] ELSE row

Applied(r, verdict) ==
  CASE verdict = "create" -> Created(r)
    [] verdict = "block"  -> Completed(AbsentRun, "action_required")
    [] verdict = "start"  -> Started(run[r])
    [] verdict = "mark"   -> Marked(run[r])
    [] verdict = "reject" -> [Completed(run[r], "action_required") EXCEPT !.request = "rejected"]
    [] verdict \in Conclusions -> Completed(run[r], verdict)

-----------------------------------------------------------------------------
(* Answering the runner that waits for session s. *)

Answer(s, next) == [n \in Runners |-> IF agent[n].ses = s THEN next ELSE agent[n]]

End(s) == ses' = [ses EXCEPT ![s] = Free]

\* created_at of a run that was never committed is forgotten
Forget(r) == [x \in Runs |-> IF x = r THEN {} ELSE older[x] \ {r}]

\* the transaction is rolled back and the client gets an error
Rollback(s) ==
  /\ End(s)
  /\ agent' = Answer(s, Idle)
  /\ older' = IF ses[s].op = "enqueue" /\ ses[s].pc # "sync" THEN Forget(ses[s].r) ELSE older
  /\ UNCHANGED <<run, job, open, check, tries, runner>>

\* mutant of OpenAfter: the steps of a cancelled job stay open
OpenAfterNoClose(s) ==
  {j \in Jobs : j \in open \/ (ses[s].w[j] # None /\ ses[s].w[j].st = "queued")}

\* the jobs with open steps once s has committed: those of a new run, and the
\* others but for the cancelled ones; RejectRun does not touch the steps
OpenAfter(s) ==
  LET w == ses[s].w
  IN  {j \in Jobs : \/ w[j] # None /\ w[j].st = "queued"
                    \/ j \in open /\ (\/ w[j] = None
                                      \/ w[j].st # "cancelled"
                                      \/ ses[s].op = "reject")}

\* the commit of every transaction but the approval, which writes no job
Commit(s) ==
  /\ ses[s].pc = "commit" /\ ses[s].op # "approve"
  /\ \A r \in Runs : ses[s].v[r] # None => ~RunLocked(s, r)
  /\ ses[s].op = "reject" => Rejectable(run[ses[s].r])
  /\ job' = Seen(ses[s].w)
  /\ run' = [r \in Runs |-> IF ses[s].v[r] = None THEN run[r] ELSE Applied(r, ses[s].v[r])]
  /\ open' = OpenAfter(s)
  /\ IF ses[s].op = "claim"
     THEN /\ End(s)
          /\ agent' = Answer(s, [Idle EXCEPT !.pc = "holding", !.job = ses[s].j])
     ELSE /\ ses' = [ses EXCEPT ![s].pc = "sync", ![s].v = NoRuns, ![s].locks = {}]
          /\ UNCHANGED agent
  /\ UNCHANGED <<check, older, tries, runner, faults>>

-----------------------------------------------------------------------------
(* trigger.Enqueue.  A repeated trigger finds the row of its event and     *)
(* changes nothing, so it is not an action.                                *)

\* runs created, or being created
Stamped == {r \in Runs : run[r].st # "absent" \/ \E s \in Sessions : ses[s].op = "enqueue" /\ ses[s].r = r}

\* BEGIN fixes now(), which becomes created_at
EnqueueBegin(s, r) ==
  /\ ses[s] = Free /\ s \in Triggers
  /\ r \notin Stamped
  /\ tries[r] < MaxTries /\ tries' = [tries EXCEPT ![r] = @ + 1]
  /\ older' = [older EXCEPT ![r] = Stamped]
  /\ ses' = [ses EXCEPT ![s] = [Free EXCEPT !.op = "enqueue", !.pc = "begin", !.r = r]]
  /\ UNCHANGED <<run, job, open, check, runner, agent, faults>>

\* older active runs of the group that still hold the slot
Occupies(r) ==
  /\ run[r].st \in {"queued", "running"}
  /\ \E j \in JobsOf(r) : job[j].st \in {"queued", "running"} /\ job[j].cancel = "no"

Blockers(r) == {b \in older[r] : r \in Grouped /\ b \in Grouped /\ Occupies(b)}

\* another trigger has inserted a run of this repository and not committed:
\* it took the run_index this one reads with MAX + 1
IndexTaken(s) == \E t \in Sessions \ {s} : InTx(t) /\ ses[t].op = "enqueue"

QueuedJobs(r) ==
  [j \in Jobs |-> IF RunOf[j] = r THEN [AbsentJob EXCEPT !.st = "queued"] ELSE None]

\* the rows of the run, its approval request, jobs and steps; then the blockers
\* are locked, in created_at order
EnqueueInsert(s) ==
  LET r == ses[s].r IN
  /\ ses[s].op = "enqueue" /\ ses[s].pc = "begin"
  /\ ~IndexTaken(s)
  /\ \A b \in Blockers(r) : ~RunLocked(s, b)
  /\ ses' = [ses EXCEPT ![s].pc = "enforce", ![s].w = QueuedJobs(r),
                        ![s].v = [NoRuns EXCEPT ![r] = "create"],
                        ![s].locks = Blockers(r)]
  /\ UNCHANGED <<run, job, open, check, older, tries, runner, agent, faults>>

\* the Actions minutes quota is used up: the run is born completed and its jobs
\* skipped, outside every group
EnqueueBlocked(s) ==
  LET r == ses[s].r
      skipped == [AbsentJob EXCEPT !.st = "skipped", !.con = "action_required"] IN
  /\ "quota" \in Requests
  /\ ses[s].op = "enqueue" /\ ses[s].pc = "begin"
  /\ ~IndexTaken(s)
  /\ ses' = [ses EXCEPT ![s].pc = "commit",
                        ![s].w = [j \in Jobs |-> IF RunOf[j] = r THEN skipped ELSE None],
                        ![s].v = [NoRuns EXCEPT ![r] = "block"]]
  /\ UNCHANGED <<run, job, open, check, older, tries, runner, agent, faults>>

\* unique violation on (repo_id, run_index): the worker retries the trigger
EnqueueConflict(s) ==
  /\ ses[s].op = "enqueue" /\ ses[s].pc = "begin"
  /\ IndexTaken(s)
  /\ Rollback(s)
  /\ UNCHANGED faults

\* the update of RequestWorkflowRunCancel and RequestWorkflowJobCancel
Cancellable(row) == row.st = "queued" \/ (row.st = "running" /\ row.cancel = "no")

CancelRequested(row) ==
  IF row.st = "queued"
  THEN [row EXCEPT !.st = "cancelled", !.con = "cancelled", !.cancel = "yes"]
  ELSE [row EXCEPT !.cancel = "yes"]

CancelWrites(T) ==
  [j \in Jobs |-> IF j \in T /\ Cancellable(job[j]) THEN CancelRequested(job[j]) ELSE None]

\* jobs that concurrency.Enforce cancels for session s
EnforceTargets(s) ==
  IF ses[s].r \in CancelInProgress THEN {j \in Jobs : RunOf[j] \in ses[s].locks} ELSE {}

EnqueueEnforce(s) ==
  LET w == CancelWrites(EnforceTargets(s))
      v == RollupAfterCancel(w) IN
  /\ ses[s].op = "enqueue" /\ ses[s].pc = "enforce"
  /\ \A j \in Written(w) : ~JobLocked(s, j)
  /\ ses' = [ses EXCEPT ![s].pc = "commit",
                        ![s].w = [j \in Jobs |-> IF w[j] = None THEN ses[s].w[j] ELSE w[j]],
                        ![s].v = [r \in Runs |-> IF v[r] = None THEN ses[s].v[r] ELSE v[r]]]
  /\ UNCHANGED <<run, job, open, check, older, tries, runner, agent, faults>>

-----------------------------------------------------------------------------
(* Requests of users and administrators. *)

\* CancelRun and CancelJob; with nothing to change they change nothing
Cancel(s, r) ==
  \E T \in {JobsOf(r)} \cup {{j} : j \in JobsOf(r)} :
    LET w == CancelWrites(T) IN
    /\ ses[s] = Free
    /\ (IF T = JobsOf(r) THEN "cancelRun" ELSE "cancelJob") \in Requests
    /\ Written(w) # {}
    /\ \A j \in Written(w) : ~JobLocked(s, j)
    /\ ses' = [ses EXCEPT ![s] = [Free EXCEPT !.op = "cancel", !.pc = "commit", !.r = r,
                                              !.w = w, !.v = RollupAfterCancel(w)]]
    /\ UNCHANGED <<run, job, open, check, older, tries, runner, agent, faults>>

\* mutant of Approve: the run is checked but not locked
ApproveUnlocked(s, r) ==
  /\ "approve" \in Requests
  /\ ses[s] = Free
  /\ run[r].st = "queued" /\ run[r].request = "pending" /\ run[r].approved = "no"
  /\ ses' = [ses EXCEPT ![s] = [Free EXCEPT !.op = "approve", !.pc = "commit", !.r = r]]
  /\ UNCHANGED <<run, job, open, check, older, tries, runner, agent, faults>>

\* ApproveRun is one statement that locks the run, then its approval request
Approve(s, r) ==
  /\ "approve" \in Requests
  /\ ses[s] = Free
  /\ run[r].st = "queued" /\ run[r].request = "pending" /\ run[r].approved = "no"
  /\ ~RunLocked(s, r)
  /\ ses' = [ses EXCEPT ![s] = [Free EXCEPT !.op = "approve", !.pc = "commit", !.r = r,
                                            !.locks = {r}]]
  /\ UNCHANGED <<run, job, open, check, older, tries, runner, agent, faults>>

\* the run is approved even when the request is found closed after the wait
ApproveCommit(s) ==
  LET r == ses[s].r IN
  /\ ses[s].op = "approve" /\ ses[s].pc = "commit"
  /\ ~RequestLocked(s, r)
  /\ run' = [run EXCEPT ![r].approved = "yes",
                        ![r].request = IF @ = "pending" THEN "approved" ELSE @]
  /\ End(s)
  /\ UNCHANGED <<job, open, check, older, tries, runner, agent, faults>>

\* RejectRun locks the approval request, then the queued jobs, and the run at Commit
RejectWrites(r) ==
  [j \in Jobs |-> IF RunOf[j] = r /\ job[j].st = "queued"
                  THEN [job[j] EXCEPT !.st = "cancelled", !.con = "action_required", !.cancel = "yes"]
                  ELSE None]

Reject(s, r) ==
  /\ "reject" \in Requests
  /\ ses[s] = Free
  /\ run[r].request = "pending" /\ ~RequestLocked(s, r)
  /\ \A j \in Written(RejectWrites(r)) : ~JobLocked(s, j)
  /\ ses' = [ses EXCEPT ![s] = [Free EXCEPT !.op = "reject", !.pc = "commit", !.r = r,
                                            !.w = RejectWrites(r),
                                            !.v = [NoRuns EXCEPT ![r] = "reject"]]]
  /\ UNCHANGED <<run, job, open, check, older, tries, runner, agent, faults>>

\* the run is no longer pending: everything is rolled back
RejectLost(s) ==
  /\ ses[s].op = "reject" /\ ses[s].pc = "commit"
  /\ ~RunLocked(s, ses[s].r) /\ ~Rejectable(run[ses[s].r])
  /\ Rollback(s)
  /\ UNCHANGED faults

\* SetRunnerDraining, ClearRunnerDraining and RevokeRunner wait for the row that
\* a claim holds
Administer(n) ==
  /\ \A s \in Sessions : ~(InTx(s) /\ ses[s].op = "claim" /\ ses[s].n = n)
  /\ \/ "drain" \in Requests /\ runner[n] = "active" /\ runner' = [runner EXCEPT ![n] = "draining"]
     \/ "drain" \in Requests /\ runner[n] = "draining" /\ runner' = [runner EXCEPT ![n] = "active"]
     \/ "revoke" \in Requests /\ runner[n] # "revoked" /\ runner' = [runner EXCEPT ![n] = "revoked"]
  /\ UNCHANGED <<run, job, open, check, older, agent, ses, faults, tries>>

-----------------------------------------------------------------------------
(* Heartbeat of a runner: reconcile the jobs it no longer has, then claim. *)
(* RunOnce always reports an empty active set: it runs one job at a time.  *)

Heartbeat(n, s) ==
  /\ agent[n].pc = "idle" /\ ses[s] = Free
  /\ runner[n] # "revoked"
  /\ agent' = [agent EXCEPT ![n] = [Idle EXCEPT !.pc = "asking", !.ses = s]]
  /\ ses' = [ses EXCEPT ![s] = [Free EXCEPT !.op = "reconcile", !.pc = "begin", !.n = n]]
  /\ UNCHANGED <<run, job, open, check, older, tries, runner, faults>>

RunningOn(n) == {j \in Jobs : job[j].st = "running" /\ job[j].runner = n}

\* mutant of ReconcileWrites: the heartbeat leaves lost jobs alone
ReconcileNothing(n, active) == NoJobs

\* CancelRunnerJobsMissingFromActiveSet
ReconcileWrites(n, active) ==
  [j \in Jobs |-> IF job[j].st = "running" /\ job[j].runner = n /\ j \notin active
                  THEN [job[j] EXCEPT !.st = "cancelled", !.con = "cancelled", !.cancel = "yes"]
                  ELSE None]

Reconcile(s) ==
  LET w == ReconcileWrites(ses[s].n, {}) IN
  /\ ses[s].op = "reconcile" /\ ses[s].pc = "begin"
  /\ \A j \in Written(w) : ~JobLocked(s, j)
  /\ ses' = IF Written(w) = {}
            THEN [ses EXCEPT ![s].op = "claim"]
            ELSE [ses EXCEPT ![s].pc = "commit", ![s].w = w, ![s].v = RollupAfterCancel(w)]
  /\ UNCHANGED <<run, job, open, check, older, tries, runner, agent, faults>>

Active == {j \in Jobs : job[j].st = "running"}

\* mutants of Claimable: one condition of the WHERE clause is missing
ClaimableUnapproved(j) ==
  /\ job[j].st = "queued" /\ job[j].cancel = "no" /\ job[j].runner = None
  /\ run[RunOf[j]].st \in {"queued", "running"}
  /\ Blockers(RunOf[j]) = {}

ClaimableNeedsDone(j) ==
  /\ job[j].st = "queued" /\ job[j].cancel = "no" /\ job[j].runner = None
  /\ run[RunOf[j]].st \in {"queued", "running"}
  /\ Dispatchable(run[RunOf[j]])
  /\ \A d \in Needs[j] : job[d].st = "completed"

\* the WHERE clause of ClaimQueuedWorkflowJob
Claimable(j) ==
  /\ job[j].st = "queued" /\ job[j].cancel = "no" /\ job[j].runner = None
  /\ run[RunOf[j]].st \in {"queued", "running"}
  /\ Dispatchable(run[RunOf[j]])
  /\ Cardinality(Active) < RepoCap
  /\ \A d \in Needs[j] : job[d].st = "completed" /\ job[d].con = "success"
  /\ Blockers(RunOf[j]) = {}

\* ORDER BY created_at, id
Precedes(i, j) == RunOf[i] \in older[RunOf[j]] \/ (RunOf[i] = RunOf[j] /\ i < j)

\* mutant of Candidates: the claim does not skip locked rows
CandidatesLocked(s) ==
  {j \in Jobs : Claimable(j) /\ \A i \in Jobs : Claimable(i) => ~Precedes(i, j)}

\* the first claimable row that nobody has locked (SKIP LOCKED)
Candidates(s) ==
  LET unlocked == {j \in Jobs : Claimable(j) /\ ~JobLocked(s, j)}
  IN  {j \in unlocked : \A i \in unlocked : ~Precedes(i, j)}

MayClaim(n) == runner[n] = "active" /\ Cardinality(RunningOn(n)) < Capacity

Claim(s) ==
  LET n == ses[s].n IN
  /\ ses[s].op = "claim" /\ ses[s].pc = "begin"
  /\ ~RunnerLocked(s, n)
  /\ MayClaim(n)
  /\ \E j \in Candidates(s) :
       ses' = [ses EXCEPT ![s].pc = "commit", ![s].j = j,
                 ![s].w = [NoJobs EXCEPT ![j] = [job[j] EXCEPT !.st = "running", !.runner = n]],
                 ![s].v = [NoRuns EXCEPT ![RunOf[j]] = "start"]]
  /\ UNCHANGED <<run, job, open, check, older, tries, runner, agent, faults>>

\* revoked, draining, at capacity, or nothing to claim
ClaimNothing(s) ==
  /\ ses[s].op = "claim" /\ ses[s].pc = "begin"
  /\ ~RunnerLocked(s, ses[s].n)
  /\ ~MayClaim(ses[s].n) \/ Candidates(s) = {}
  /\ End(s)
  /\ agent' = Answer(s, Idle)
  /\ UNCHANGED <<run, job, open, check, older, tries, runner, faults>>

-----------------------------------------------------------------------------
(* The runner works on the job it claimed and reports its status. *)

\* RunOnce marks the job running, and after the execution completed or cancelled;
\* when the workspace cannot be prepared it reports the failure at once
Report(n, s) ==
  /\ ses[s] = Free
  /\ \E to \in {"running", "cancelled"} \cup Outcomes :
       /\ \/ agent[n].pc = "holding" /\ to \in {"running"} \cup (Outcomes \cap {"failure"})
          \/ agent[n].pc = "working" /\ agent[n].stop = "yes" /\ to = "cancelled"
          \/ agent[n].pc = "working" /\ agent[n].stop = "no" /\ to \in Outcomes
       /\ ses' = [ses EXCEPT ![s] = [Free EXCEPT !.op = "status", !.pc = "begin", !.n = n,
                                                 !.j = agent[n].job, !.to = to]]
       /\ agent' = [agent EXCEPT ![n].pc = IF to = "running" THEN "reporting" ELSE "finishing",
                                 ![n].ses = s]
  /\ UNCHANGED <<run, job, open, check, older, tries, runner, faults>>

\* the job as the report wants it; cancel_requested and runner_id stay
Reported(row, to) ==
  CASE to = "running"   -> [row EXCEPT !.st = "running", !.con = "none"]
    [] to = "cancelled" -> [row EXCEPT !.st = "cancelled", !.con = "cancelled"]
    [] OTHER            -> [row EXCEPT !.st = "completed", !.con = to]

validWorkflowJobTransition(from, to) ==
  from \in {"queued", "running"} \/ (from = to /\ to \in {"completed", "cancelled"})

\* authenticateRunnerJob reads the job before the transaction begins, and the
\* transition is checked against that row
StatusRead(s) ==
  LET row == job[ses[s].j] IN
  /\ ses[s].op = "status" /\ ses[s].pc = "begin"
  /\ IF /\ runner[ses[s].n] # "revoked"
        /\ row.runner = ses[s].n
        /\ validWorkflowJobTransition(row.st, Reported(row, ses[s].to).st)
     THEN ses' = [ses EXCEPT ![s].pc = "update"] /\ UNCHANGED agent
     ELSE End(s) /\ agent' = Answer(s, Idle)
  /\ UNCHANGED <<run, job, open, check, older, tries, runner, faults>>

\* applyJobStatus: UpdateWorkflowJobStatus by id, whatever the row says by now
StatusUpdate(s) ==
  LET j == ses[s].j
      w == [NoJobs EXCEPT ![j] = Reported(job[j], ses[s].to)] IN
  /\ ses[s].op = "status" /\ ses[s].pc = "update"
  /\ ~JobLocked(s, j)
  /\ ses' = [ses EXCEPT ![s].pc = "commit", ![s].w = w,
               ![s].v = [NoRuns EXCEPT ![RunOf[j]] = Rollup(RunOf[j], Seen(w), "start")]]
  /\ UNCHANGED <<run, job, open, check, older, tries, runner, agent, faults>>

\* watchCancel learns that the job is to be cancelled
CancelCheck(n) ==
  /\ agent[n].pc = "working" /\ agent[n].stop = "no"
  /\ runner[n] # "revoked"
  /\ job[agent[n].job].cancel = "yes"
  /\ agent' = [agent EXCEPT ![n].stop = "yes"]
  /\ UNCHANGED <<run, job, open, check, older, tries, runner, ses, faults>>

\* the runner reports that a step of its job runs or has ended; the one token of
\* the job lets it make one request at a time
StepReport(n, s) ==
  /\ "steps" \in Requests
  /\ ses[s] = Free
  /\ agent[n].pc = "working" /\ agent[n].job \in open
  /\ \E to \in {"running", "ended"} :
       ses' = [ses EXCEPT ![s] = [Free EXCEPT !.op = "step", !.pc = "begin", !.n = n,
                                              !.j = agent[n].job, !.to = to]]
  /\ agent' = [agent EXCEPT ![n].pc = "stepping", ![n].ses = s]
  /\ UNCHANGED <<run, job, open, check, older, tries, runner, faults>>

\* runnerStepStatus checks the transition against the step it reads ...
StepRead(s) ==
  /\ ses[s].op = "step" /\ ses[s].pc = "begin"
  /\ IF /\ runner[ses[s].n] # "revoked"
        /\ job[ses[s].j].runner = ses[s].n
        /\ ses[s].j \in open
     THEN ses' = [ses EXCEPT ![s].pc = "update"] /\ UNCHANGED agent
     ELSE End(s) /\ agent' = Answer(s, Idle)
  /\ UNCHANGED <<run, job, open, check, older, tries, runner, faults>>

\* another session has cancelled the steps of job j and not committed
StepsLocked(s, j) ==
  \E t \in Sessions \ {s} : InTx(t) /\ ses[t].w[j] # None
                            /\ ses[t].w[j].st = "cancelled" /\ ses[t].op # "reject"

\* ... and applyStepStatus updates the step by id, whatever it is by now
StepUpdate(s) ==
  LET j == ses[s].j IN
  /\ ses[s].op = "step" /\ ses[s].pc = "update"
  /\ ~StepsLocked(s, j)
  /\ open' = IF ses[s].to = "running" THEN open \cup {j} ELSE open \ {j}
  /\ End(s)
  /\ agent' = [n \in Runners |-> IF agent[n].ses = s
                                 THEN [agent[n] EXCEPT !.pc = "working", !.job = j, !.ses = None]
                                 ELSE agent[n]]
  /\ UNCHANGED <<run, job, check, older, tries, runner, faults>>

-----------------------------------------------------------------------------
(* After the commit, the check_run of each changed job is brought up to    *)
(* date from the row the transaction returned.  The claim does not do it.  *)

\* mutant of Mirror: a job that was asked to cancel counts as cancelled
MirrorRequested(c, row) ==
  IF c.st # "none" /\ row.cancel = "yes" THEN [st |-> "completed", con |-> "cancelled"] ELSE
  CASE row.st = "queued"  -> IF c.st = "none" THEN [st |-> "queued", con |-> "none"] ELSE c
    [] row.st = "skipped" -> IF c.st = "none" THEN [st |-> "completed", con |-> row.con] ELSE c
    [] row.st = "running" -> IF c.st = "none" THEN c ELSE [c EXCEPT !.st = "in_progress"]
    [] OTHER -> IF c.st = "none" THEN c ELSE [st |-> "completed", con |-> row.con]

Mirror(c, row) ==
  CASE row.st = "queued"  -> IF c.st = "none" THEN [st |-> "queued", con |-> "none"] ELSE c
    [] row.st = "skipped" -> IF c.st = "none" THEN [st |-> "completed", con |-> row.con] ELSE c
    [] row.st = "running" -> IF c.st = "none" THEN c ELSE [c EXCEPT !.st = "in_progress"]
    [] OTHER -> IF c.st = "none" THEN c ELSE [st |-> "completed", con |-> row.con]

Sync(s) ==
  /\ ses[s].pc = "sync"
  /\ \E j \in Written(ses[s].w) :
       /\ check' = [check EXCEPT ![j] = Mirror(@, ses[s].w[j])]
       /\ ses' = [ses EXCEPT ![s].w[j] = None]
  /\ UNCHANGED <<run, job, open, older, tries, runner, agent, faults>>

\* the handler goes on to the claim, or answers
SyncDone(s) ==
  /\ ses[s].pc = "sync" /\ Written(ses[s].w) = {}
  /\ IF ses[s].op = "reconcile"
     THEN ses' = [ses EXCEPT ![s].op = "claim", ![s].pc = "begin"] /\ UNCHANGED agent
     ELSE /\ End(s)
          /\ agent' = Answer(s, IF ses[s].to = "running"
                                THEN [Idle EXCEPT !.pc = "working", !.job = ses[s].j]
                                ELSE Idle)
  /\ UNCHANGED <<run, job, open, check, older, tries, runner, faults>>

-----------------------------------------------------------------------------
(* Faults, and the deadlocks the database resolves. *)

Fault(kind) == kind \in FaultKinds /\ faults < MaxFaults /\ faults' = faults + 1

\* the runner loses the connection, its token or its process; the handler it
\* was waiting for goes on
RunnerLost(n) ==
  /\ Fault("lost")
  /\ agent[n].pc # "idle"
  /\ agent' = [agent EXCEPT ![n] = Idle]
  /\ UNCHANGED <<run, job, open, check, older, tries, runner, ses>>

\* the handler dies: its transaction is rolled back, what it committed stays
HandlerLost(s) ==
  /\ Fault("abort")
  /\ ses[s] # Free
  /\ Rollback(s)

\* shithubd admin runner recover-stale-jobs: the administrator names the runner,
\* in whatever state it is, and with --active-job-id the jobs it is to keep.
\* It is bounded like a fault
RecoverStaleJobs(s, n) ==
  /\ Fault("recover")
  /\ ses[s] = Free
  /\ \E active \in SUBSET RunningOn(n) :
       LET w == ReconcileWrites(n, active) IN
       /\ Written(w) # {}
       /\ \A j \in Written(w) : ~JobLocked(s, j)
       /\ ses' = [ses EXCEPT ![s] = [Free EXCEPT !.op = "recover", !.pc = "commit", !.n = n,
                                                 !.w = w, !.v = RollupAfterCancel(w)]]
  /\ UNCHANGED <<run, job, open, check, older, tries, runner, agent>>

\* one check_run update fails; it is logged and skipped
SyncFails(s) ==
  /\ Fault("sync")
  /\ ses[s].pc = "sync"
  /\ \E j \in Written(ses[s].w) : ses' = [ses EXCEPT ![s].w[j] = None]
  /\ UNCHANGED <<run, job, open, check, older, tries, runner, agent>>

WaitsFor(s, t) ==
  /\ s # t /\ InTx(s) /\ InTx(t)
  /\ \/ ses[s].pc = "commit" /\ \E r \in ses[t].locks : ses[s].v[r] # None
     \/ ses[s].pc = "enforce" /\ \E j \in Written(CancelWrites(EnforceTargets(s))) : ses[t].w[j] # None
     \/ ses[s].op = "approve" /\ ses[t].op = "reject" /\ ses[s].r = ses[t].r

\* two transactions wait for each other: the database aborts one of them
DeadlockAbort(s) ==
  /\ \E t \in Sessions : WaitsFor(s, t) /\ WaitsFor(t, s)
  /\ Rollback(s)
  /\ UNCHANGED faults

-----------------------------------------------------------------------------
(* The steps of a handler once it is called. *)
SessionStep(s) ==
  \/ EnqueueInsert(s) \/ EnqueueBlocked(s) \/ EnqueueConflict(s) \/ EnqueueEnforce(s)
  \/ ApproveCommit(s) \/ RejectLost(s)
  \/ Reconcile(s) \/ Claim(s) \/ ClaimNothing(s)
  \/ StatusRead(s) \/ StatusUpdate(s) \/ StepRead(s) \/ StepUpdate(s)
  \/ Commit(s) \/ Sync(s) \/ SyncDone(s) \/ DeadlockAbort(s)

AgentStep(n) == \E s \in Sessions : Heartbeat(n, s) \/ Report(n, s)

UserStep ==
  \/ \E s \in Sessions, r \in Runs : EnqueueBegin(s, r) \/ Cancel(s, r) \/ Approve(s, r) \/ Reject(s, r)
  \/ \E n \in Runners : Administer(n)

FaultStep ==
  \/ \E n \in Runners : RunnerLost(n) \/ \E s \in Sessions : RecoverStaleJobs(s, n)
  \/ \E s \in Sessions : HandlerLost(s) \/ SyncFails(s)

Next ==
  \/ \E s \in Sessions : SessionStep(s)
  \/ \E n \in Runners : AgentStep(n) \/ CancelCheck(n) \/ \E s \in Sessions : StepReport(n, s)
  \/ UserStep
  \/ FaultStep

Spec == Init /\ [][Next]_vars

\* A handler that is called goes on, and a runner keeps calling; the server has
\* a handler for it again and again.
Fairness ==
  /\ \A s \in Sessions : WF_vars(SessionStep(s))
  /\ \A n \in Runners : SF_vars(AgentStep(n))

FairSpec == Spec /\ Fairness

-----------------------------------------------------------------------------
(* Properties. *)

\* Every row, handler and runner process has its type: in particular a verdict
\* on a run and a write to a job are only pending where the code made one.
TypeOK ==
  /\ run \in [Runs -> RunRow]
  /\ job \in [Jobs -> JobRow]
  /\ open \subseteq Jobs
  /\ check \in [Jobs -> CheckRow]
  /\ older \in [Runs -> SUBSET Runs]
  /\ tries \in [Runs -> 0 .. MaxTries]
  /\ runner \in [Runners -> {"active", "draining", "revoked"}]
  /\ agent \in [Runners -> Agent]
  /\ ses \in [Sessions -> Session]
  /\ faults \in 0 .. MaxFaults

\* However ApproveRun and RejectRun race, with each other and with cancels, a
\* run is approved exactly when its request is recorded as approved.
ApprovalSettled ==
  \A r \in Runs : run[r].approved = "yes" <=> run[r].request = "approved"

\* No runner is ever given a job of a run that needs approval and has none
\* (ClaimQueuedWorkflowJob); a rejected run has never had a runner.
NeverRunsUnapproved ==
  \A j \in Jobs : job[j].runner # None => Dispatchable(run[RunOf[j]])

\* No runner is given a job before every job it needs has succeeded, and those
\* stay succeeded (the needs: clause of ClaimQueuedWorkflowJob).
NeedsMet ==
  \A j \in Jobs : job[j].runner # None =>
    \A d \in Needs[j] : job[d].st = "completed" /\ job[d].con = "success"

\* Two runner processes never work on one job (FOR UPDATE OF j SKIP LOCKED),
\* and the job a process works on is assigned to its runner.
OneAgentPerJob ==
  \A n \in Runners : agent[n].job # None =>
    /\ job[agent[n].job].runner = n
    /\ \A m \in Runners \ {n} : agent[m].job # agent[n].job

\* A runner never has more than Capacity running jobs that nobody asked to
\* cancel, also when it lost the answer to a claim and asks again while the
\* first claim is still in flight (CountRunningJobsForRunner under the lock of
\* the runner row).
CapacityHeld ==
  \A n \in Runners : Cardinality({j \in RunningOn(n) : job[j].cancel = "no"}) <= Capacity

\* The conclusion of a completed run is the one its jobs now derive: no handler
\* completes a run from jobs that have moved since it read them.
ConclusionAgrees ==
  \A r \in Runs : run[r].st = "completed" /\ run[r].request # "rejected" =>
    /\ \A j \in JobsOf(r) : job[j].st \in Terminal
    /\ run[r].con = DeriveWorkflowRunConclusion(r, job)

\* A job that was cancelled has no open step left (CancelOpenWorkflowStepsForJob
\* in the transaction that cancels the job).
CancelClosesSteps ==
  \A j \in Jobs : job[j].st = "cancelled" /\ job[j].con = "cancelled" => j \notin open


\* A check run that says completed gives the verdict of its job, which has
\* ended, although it is written after the commit, from the row the transaction
\* returned and not from the job as it is by then.
CheckTruthful ==
  \A j \in Jobs : check[j].st = "completed" =>
    job[j].st \in Terminal /\ check[j].con = job[j].con

\* Every queued job that needs no other job and no approval ends, and so does
\* every job that was asked to cancel, whatever is lost on the way: in a run of
\* several jobs, in a run that waits for its group, and when an administrator
\* recovers the jobs of a runner that still works.  It says nothing of the run:
\* two reports that commit together leave it running.
JobsEnd ==
  \A j \in Jobs :
    (\/ job[j].st = "queued" /\ Needs[j] = {} /\ run[RunOf[j]].request = "none"
     \/ job[j].cancel = "yes")
      ~> (job[j].st \in Terminal)

=============================================================================
