------------------------- MODULE WorkflowRunsProofs -------------------------
(***************************************************************************)
(* Proofs about WorkflowRuns for any runs, jobs, needs, runners, handlers  *)
(* and requests, and any number of faults: type correctness, the agreement *)
(* of a run with its approval request, and that no runner is given a job   *)
(* of a run that needs an approval it does not have.                       *)
(***************************************************************************)
EXTENDS WorkflowRuns, WellFoundedInduction, TLAPS

-----------------------------------------------------------------------------
(* The inductive invariants. *)

\* The arguments a handler carries are those its operation is called with.
ArgsOf(e) ==
  /\ e.op \in {"enqueue", "approve", "reject"} => e.r \in Runs
  /\ e.op \in {"reconcile", "recover", "claim", "status", "step"} => e.n \in Runners
  /\ e.op \in {"status", "step"} => e.j \in Jobs
  /\ e.op = "claim" /\ e.pc = "commit" => e.j \in Jobs
  /\ e.to # "none" => e.op \in {"status", "step"}
  /\ e.to = "ended" => e.op = "step"

\* A runner process that was given a job has it.
HasJob(a) == a.pc \in {"holding", "working", "stepping"} => a.job \in Jobs

Args == (\A s \in Sessions : ArgsOf(ses[s])) /\ (\A n \in Runners : HasJob(agent[n]))

TypeInv == TypeOK /\ Args

Present(r) == run[r].st # "absent"

\* The transaction of the handler is open.
InFlight(e) == e.pc \in {"enforce", "commit"}

Approving(e) == InFlight(e) /\ e.op = "approve"

\* The handler is the trigger of a run that is not committed yet.
Creating(e) == e.op = "enqueue" /\ e.pc \in {"begin", "enforce", "commit"}

\* A pending verdict creates the handler's own run or is about a run that
\* exists; a rejection is of the handler's own run, which needs approval.
SoundVerdicts(e) ==
  \A r \in Runs :
    /\ e.v[r] \in {"create", "block"} => e.op = "enqueue" /\ e.r = r
    /\ e.v[r] \notin {"create", "block", None} => Present(r)
    /\ e.v[r] = "reject" => e.op = "reject" /\ e.r = r /\ run[r].request # "none"

\* A pending write to a job is of a run that exists or that the handler creates,
\* and if it names a runner the run may be dispatched.
SoundWrites(e) ==
  \A j \in Jobs : e.w[j] # None =>
    /\ Present(RunOf[j]) \/ e.v[RunOf[j]] \in {"create", "block"}
    /\ e.w[j].runner # None => Present(RunOf[j]) /\ Dispatchable(run[RunOf[j]])

\* A status report that passed authenticateRunnerJob is about a job that exists.
SoundReport(e) == e.op = "status" /\ e.pc = "update" => Present(RunOf[e.j])

Sound(e) == (InFlight(e) => SoundVerdicts(e) /\ SoundWrites(e)) /\ SoundReport(e)

\* An approval in flight holds the row of its run, which stays pending, and no
\* other approval in flight is of that run.
ApprovesAlone ==
  \A s \in Sessions : Approving(ses[s]) =>
    /\ run[ses[s].r].request = "pending"
    /\ ses[s].r \in ses[s].locks
    /\ \A t \in Sessions \ {s} : Approving(ses[t]) => ses[t].r # ses[s].r

\* A run is created by one trigger at a time, and only once.
CreatedOnce ==
  \A s \in Sessions : Creating(ses[s]) =>
    /\ ~Present(ses[s].r)
    /\ \A t \in Sessions \ {s} : Creating(ses[t]) => ses[t].r # ses[s].r

\* A job that exists, or has a runner, has a run that exists, and so has an
\* approval request.
RowsHaveRun ==
  /\ \A j \in Jobs : job[j].st # "absent" \/ job[j].runner # None => Present(RunOf[j])
  /\ \A r \in Runs : run[r].request # "none" => Present(r)

\* What the two safety properties need to be inductive: the locks of approvals
\* in flight, and what every handler in flight is about to commit.
ApprovalInv ==
  /\ ApprovesAlone /\ CreatedOnce /\ RowsHaveRun
  /\ \A s \in Sessions : Sound(ses[s])
  /\ ApprovalSettled /\ NeverRunsUnapproved

-----------------------------------------------------------------------------
(* Rows keep their types. *)

\* A non-empty set of jobs has a first one.
LEMMA FirstFailureIn ==
  ASSUME NEW F \in SUBSET Nat, F # {}
  PROVE  FirstFailure(F) \in F
<1>. DEFINE R == {p \in Nat \X Nat : p[1] < p[2]}
<1>1. IsWellFoundedOn(R, Nat)
  BY NatLessThanWellFounded, Zenon DEF OpToRel
<1>2. PICK x \in F : \A y \in F : ~(<<y, x>> \in R)
  <2>. HIDE DEF R
  <2>. QED
    BY <1>1, WFMin, Zenon
<1>3. ASSUME NEW y \in F PROVE x <= y
  <2>1. <<y, x>> \in Nat \X Nat
    BY Zenon
  <2>2. ~(y < x)
    BY <1>2, <2>1, Zenon
  <2>. QED
    BY <2>2, SMTT(40)
<1>. QED
  BY <1>3, Zenon DEF FirstFailure

\* The conclusion derived from typed rows is a conclusion.
LEMMA DerivedType ==
  ASSUME NEW r \in Runs, NEW rows \in [Jobs -> JobRow]
  PROVE  DeriveWorkflowRunConclusion(r, rows) \in Conclusions
<1>. DEFINE failed == {j \in JobsOf(r) : rows[j].st # "cancelled" /\ rows[j].con \in Failures}
<1>1. CASE failed # {}
  <2>1. failed \in SUBSET Nat
    BY ConstantsAssumption, Zenon DEF JobsOf
  <2>2. FirstFailure(failed) \in failed
    <3>. HIDE DEF failed
    <3>. QED
      BY <1>1, <2>1, FirstFailureIn, Zenon
  <2>. QED
    BY <1>1, <2>2, Zenon DEF DeriveWorkflowRunConclusion, Conclusions
<1>2. CASE failed = {}
  BY <1>2, Zenon DEF DeriveWorkflowRunConclusion, Conclusions
<1>. QED
  BY <1>1, <1>2, Zenon

\* A roll-up is a verdict a report or a cancel may leave on a run.
LEMMA RollupType ==
  ASSUME NEW r \in Runs, NEW rows \in [Jobs -> JobRow], NEW otherwise \in {"mark", "start"}
  PROVE  /\ Rollup(r, rows, otherwise) \in Verdicts
         /\ Rollup(r, rows, otherwise) \notin {"create", "block", "reject"}
<1>1. DeriveWorkflowRunConclusion(r, rows) \in Conclusions
  BY DerivedType, Zenon
<1>. QED
  BY <1>1, Zenon DEF Rollup, Verdicts, Conclusions, Failures

\* The jobs a session sees are typed, and so are its verdicts.
LEMMA SeenType ==
  ASSUME job \in [Jobs -> JobRow], NEW w \in [Jobs -> JobRow \cup {None}]
  PROVE  /\ Seen(w) \in [Jobs -> JobRow]
         /\ RollupAfterCancel(w) \in [Runs -> Verdicts \cup {None}]
         /\ \A r \in Runs : RollupAfterCancel(w)[r] \notin {"create", "block", "reject"}
<1>1. Seen(w) \in [Jobs -> JobRow]
  BY Zenon DEF Seen
<1>2. \A r \in Runs : /\ Rollup(r, Seen(w), "mark") \in Verdicts
                      /\ Rollup(r, Seen(w), "mark") \notin {"create", "block", "reject"}
  BY <1>1, RollupType, Zenon
<1>3. None \notin {"create", "block", "reject"}
  BY ConstantsAssumption, Zenon DEF Verdicts
<1>. QED
  BY <1>1, <1>2, <1>3, Zenon DEF RollupAfterCancel

\* The functions that write a run row return run rows.
LEMMA RunRecords ==
  /\ AbsentRun \in RunRow
  /\ \A r \in Runs : Created(r) \in RunRow
  /\ \A row \in RunRow : Started(row) \in RunRow /\ Marked(row) \in RunRow
  /\ \A row \in RunRow, c \in Conclusions : Completed(row, c) \in RunRow
<1>1. AbsentRun \in RunRow
  BY Zenon DEF AbsentRun, RunRow
<1>2. ASSUME NEW r \in Runs PROVE Created(r) \in RunRow
  BY Zenon DEF Created, RunRow
<1>3. ASSUME NEW row \in RunRow PROVE Started(row) \in RunRow /\ Marked(row) \in RunRow
  BY Zenon DEF Started, Marked, RunRow
<1>4. ASSUME NEW row \in RunRow, NEW c \in Conclusions PROVE Completed(row, c) \in RunRow
  BY Zenon DEF Completed, RunRow
<1>. QED
  BY <1>1, <1>2, <1>3, <1>4, Zenon

\* What each verdict does to the fields that the proofs are about.
LEMMA AppliedType ==
  ASSUME run \in [Runs -> RunRow], NEW r \in Runs, NEW c \in Verdicts
  PROVE  Applied(r, c) \in RunRow
<1>1. run[r] \in RunRow /\ "action_required" \in Conclusions
  BY Zenon DEF Conclusions, Failures
<1>2. Completed(AbsentRun, "action_required") \in RunRow
  BY <1>1, RunRecords, Zenon
<1>3. [Completed(run[r], "action_required") EXCEPT !.request = "rejected"] \in RunRow
  <2>1. Completed(run[r], "action_required") \in RunRow
    BY <1>1, RunRecords, Zenon
  <2>. QED
    BY <2>1, Zenon DEF RunRow
<1>4. c \in Conclusions => Completed(run[r], c) \in RunRow
  BY <1>1, RunRecords, Zenon
<1>5. /\ Created(r) \in RunRow /\ Started(run[r]) \in RunRow /\ Marked(run[r]) \in RunRow
  BY <1>1, RunRecords, Zenon
<1>. QED
  BY <1>2, <1>3, <1>4, <1>5, Zenon DEF Applied, Verdicts

\* The functions that write a job row return job rows; a report does not reassign it.
LEMMA JobRecords ==
  /\ AbsentJob \in JobRow
  /\ \A row \in JobRow : CancelRequested(row) \in JobRow
  /\ \A row \in JobRow, to \in {"running", "cancelled"} \cup Outcomes :
        /\ Reported(row, to) \in JobRow
        /\ Reported(row, to).runner = row.runner
<1>1. AbsentJob \in JobRow
  BY Zenon DEF AbsentJob, JobRow
<1>2. ASSUME NEW row \in JobRow PROVE CancelRequested(row) \in JobRow
  BY Zenon DEF CancelRequested, JobRow, Terminal, Conclusions
<1>3. ASSUME NEW row \in JobRow, NEW to \in {"running", "cancelled"} \cup Outcomes
      PROVE  Reported(row, to) \in JobRow /\ Reported(row, to).runner = row.runner
  <2>1. to \in Conclusions \cup {"running"}
    BY ConstantsAssumption, Zenon DEF Conclusions
  <2>2. CASE to = "running"
    BY <2>2, Zenon DEF Reported, JobRow
  <2>3. CASE to = "cancelled"
    BY <2>3, Zenon DEF Reported, JobRow, Terminal, Conclusions
  <2>4. CASE to \notin {"running", "cancelled"}
    BY <2>1, <2>4, Zenon DEF Reported, JobRow, Terminal
  <2>. QED
    BY <2>2, <2>3, <2>4, Zenon
<1>. QED
  BY <1>1, <1>2, <1>3, Zenon

\* The writes of the handlers have the type of a session's w.
LEMMA WritesType ==
  ASSUME job \in [Jobs -> JobRow]
  PROVE  /\ NoJobs \in [Jobs -> JobRow \cup {None}]
         /\ \A r : QueuedJobs(r) \in [Jobs -> JobRow \cup {None}]
         /\ \A T : CancelWrites(T) \in [Jobs -> JobRow \cup {None}]
         /\ \A r : RejectWrites(r) \in [Jobs -> JobRow \cup {None}]
         /\ \A n, active : ReconcileWrites(n, active) \in [Jobs -> JobRow \cup {None}]
<1>1. NoJobs \in [Jobs -> JobRow \cup {None}]
  BY Zenon DEF NoJobs
<1>2. ASSUME NEW r PROVE QueuedJobs(r) \in [Jobs -> JobRow \cup {None}]
  <2>1. [AbsentJob EXCEPT !.st = "queued"] \in JobRow
    BY JobRecords DEF JobRow
  <2>. QED
    BY <2>1, Zenon DEF QueuedJobs
<1>3. ASSUME NEW T PROVE CancelWrites(T) \in [Jobs -> JobRow \cup {None}]
  BY JobRecords, Zenon DEF CancelWrites
<1>4. ASSUME NEW r PROVE RejectWrites(r) \in [Jobs -> JobRow \cup {None}]
  <2>1. ASSUME NEW j \in Jobs
        PROVE  [job[j] EXCEPT !.st = "cancelled", !.con = "action_required", !.cancel = "yes"]
                 \in JobRow
    BY Zenon DEF JobRow, Terminal, Conclusions, Failures
  <2>. QED
    BY <2>1, Zenon DEF RejectWrites
<1>5. ASSUME NEW n, NEW active PROVE ReconcileWrites(n, active) \in [Jobs -> JobRow \cup {None}]
  <2>1. ASSUME NEW j \in Jobs
        PROVE  [job[j] EXCEPT !.st = "cancelled", !.con = "cancelled", !.cancel = "yes"] \in JobRow
    BY Zenon DEF JobRow, Terminal, Conclusions
  <2>. QED
    BY <2>1, Zenon DEF ReconcileWrites
<1>. QED
  BY <1>1, <1>2, <1>3, <1>4, <1>5

\* A check update writes a check row.
LEMMA MirrorType ==
  ASSUME NEW c \in CheckRow, NEW row \in JobRow
  PROVE  Mirror(c, row) \in CheckRow
<1>1. CASE row.st = "queued"
  BY <1>1, Zenon DEF Mirror, CheckRow
<1>2. CASE row.st = "skipped"
  BY <1>2, Zenon DEF Mirror, CheckRow, JobRow
<1>3. CASE row.st = "running"
  BY <1>3, Zenon DEF Mirror, CheckRow
<1>4. CASE row.st \notin {"queued", "skipped", "running"}
  BY <1>4, Zenon DEF Mirror, CheckRow, JobRow
<1>. QED
  BY <1>1, <1>2, <1>3, <1>4, Zenon

\* A free handler, an idle runner process and an empty set of verdicts are typed.
LEMMA IdleTypes ==
  /\ NoRuns \in [Runs -> Verdicts \cup {None}]
  /\ Free \in Session
  /\ Idle \in Agent
<1>1. NoRuns \in [Runs -> Verdicts \cup {None}] /\ NoJobs \in [Jobs -> JobRow \cup {None}]
  BY Zenon DEF NoRuns, NoJobs
<1>2. Free \in Session
  BY <1>1, Zenon DEF Free, Session
<1>3. Idle \in Agent
  BY Zenon DEF Idle, Agent
<1>. QED
  BY <1>1, <1>2, <1>3, Zenon

-----------------------------------------------------------------------------
(* Type correctness. *)

\* A step that only moves one handler.
LEMMA MovesSession ==
  ASSUME TypeInv, NEW s \in Sessions, NEW e \in Session, ArgsOf(e),
         ses' = [ses EXCEPT ![s] = e],
         UNCHANGED <<run, job, open, check, older, tries, runner, agent>>,
         UNCHANGED faults \/ faults' \in 0 .. MaxFaults
  PROVE  TypeInv'
<1>1. TypeOK'
  BY Zenon DEF TypeInv, TypeOK
<1>2. \A t \in Sessions : ArgsOf(ses'[t])
  BY Zenon DEF TypeInv, TypeOK, Args
<1>3. Args'
  BY <1>2, Zenon DEF TypeInv, Args, ArgsOf, HasJob
<1>. QED
  BY <1>1, <1>3, Zenon DEF TypeInv

\* A step that ends a handler and answers its runner.
LEMMA EndsSession ==
  ASSUME TypeInv, NEW s \in Sessions, NEW a \in Agent, HasJob(a),
         End(s), agent' = Answer(s, a), older' \in [Runs -> SUBSET Runs],
         faults' \in 0 .. MaxFaults,
         UNCHANGED <<run, job, open, check, tries, runner>>
  PROVE  TypeInv'
<1>1. ses' \in [Sessions -> Session]
  BY IdleTypes, Zenon DEF TypeInv, TypeOK, End
<1>2. agent' \in [Runners -> Agent]
  BY Zenon DEF TypeInv, TypeOK, Answer
<1>3. TypeOK'
  BY <1>1, <1>2, Zenon DEF TypeInv, TypeOK
<1>4. ArgsOf(Free)
  BY Zenon DEF Free, ArgsOf
<1>5. \A t \in Sessions : ArgsOf(ses'[t])
  BY <1>4, Zenon DEF TypeInv, TypeOK, Args, End
<1>6. \A n \in Runners : HasJob(agent'[n])
  BY Zenon DEF TypeInv, TypeOK, Args, Answer
<1>7. Args'
  BY <1>5, <1>6, Zenon DEF Args, ArgsOf, HasJob
<1>. QED
  BY <1>3, <1>7, Zenon DEF TypeInv

\* A handler that fails leaves everything typed.
LEMMA RollbackType ==
  ASSUME TypeInv, NEW s \in Sessions, Rollback(s), faults' \in 0 .. MaxFaults
  PROVE  TypeInv'
<1>1. Idle \in Agent /\ HasJob(Idle)
  BY IdleTypes, Zenon DEF Idle, HasJob
<1>2. \A r : Forget(r) \in [Runs -> SUBSET Runs]
  BY Zenon DEF Forget, TypeInv, TypeOK
<1>3. older' \in [Runs -> SUBSET Runs]
  BY <1>2, Zenon DEF Rollback, TypeInv, TypeOK
<1>. QED
  BY <1>1, <1>3, EndsSession, Zenon DEF Rollback

\* The trigger's transaction, step by step.
LEMMA EnqueueTypes ==
  ASSUME TypeInv, NEW s \in Sessions
  PROVE  /\ \A r \in Runs : EnqueueBegin(s, r) => TypeInv'
         /\ EnqueueInsert(s) \/ EnqueueBlocked(s) \/ EnqueueConflict(s) \/ EnqueueEnforce(s)
              => TypeInv'
<1>. USE DEF TypeInv
<1>0. ses[s] \in Session /\ ArgsOf(ses[s])
  BY DEF TypeOK, Args
<1>1. ASSUME NEW r \in Runs, EnqueueBegin(s, r) PROVE TypeInv'
  <2>. DEFINE e == [Free EXCEPT !.op = "enqueue", !.pc = "begin", !.r = r]
  <2>1. e \in Session
    BY IdleTypes, Zenon DEF Session
  <2>2. ArgsOf(e)
    BY Zenon DEF ArgsOf, Free
  <2>3. ses' = [ses EXCEPT ![s] = e]
    BY <1>1, Zenon DEF EnqueueBegin
  <2>4. tries' \in [Runs -> 0 .. MaxTries]
    <3>1. tries[r] + 1 \in 0 .. MaxTries
      BY <1>1, ConstantsAssumption, SMTT(40) DEF EnqueueBegin, TypeOK
    <3>. QED
      BY <1>1, <3>1, Zenon DEF EnqueueBegin, TypeOK
  <2>5. older' \in [Runs -> SUBSET Runs]
    BY <1>1, Zenon DEF EnqueueBegin, Stamped, TypeOK
  <2>. HIDE DEF e
  <2>6. TypeOK'
    BY <1>1, <2>1, <2>3, <2>4, <2>5, SMTT(40) DEF EnqueueBegin, TypeOK
  <2>7. \A t \in Sessions : ArgsOf(ses'[t])
    BY <2>2, <2>3, Zenon DEF TypeOK, Args
  <2>8. Args'
    BY <1>1, <2>7, Zenon DEF EnqueueBegin, Args, ArgsOf, HasJob
  <2>. QED
    BY <2>6, <2>8, Zenon
<1>2. ASSUME EnqueueInsert(s) PROVE TypeInv'
  <2>. DEFINE r == ses[s].r
              w == QueuedJobs(r)
              v == [NoRuns EXCEPT ![r] = "create"]
              L == Blockers(r)
              e == [ses[s] EXCEPT !.pc = "enforce", !.w = w, !.v = v, !.locks = L]
  <2>1. r \in Runs
    BY <1>0, <1>2, Zenon DEF EnqueueInsert, ArgsOf
  <2>2. w \in [Jobs -> JobRow \cup {None}]
    BY WritesType, Zenon DEF TypeOK
  <2>3. v \in [Runs -> Verdicts \cup {None}]
    BY <2>1, IdleTypes, Zenon DEF Verdicts
  <2>4. L \in SUBSET Runs
    BY <2>1, Zenon DEF Blockers, TypeOK
  <2>5. ses' = [ses EXCEPT ![s] = e]
    BY <1>2, Zenon DEF EnqueueInsert, TypeOK
  <2>6. e \in Session /\ ArgsOf(e)
    <3>. HIDE DEF w, v, L
    <3>. QED
      BY <1>0, <1>2, <2>1, <2>2, <2>3, <2>4, Zenon DEF EnqueueInsert, Session, ArgsOf
  <2>. HIDE DEF e
  <2>. QED
    BY <1>2, <2>5, <2>6, MovesSession, Zenon DEF EnqueueInsert
<1>3. ASSUME EnqueueBlocked(s) PROVE TypeInv'
  <2>. DEFINE r == ses[s].r
              skipped == [AbsentJob EXCEPT !.st = "skipped", !.con = "action_required"]
              w == [j \in Jobs |-> IF RunOf[j] = r THEN skipped ELSE None]
              v == [NoRuns EXCEPT ![r] = "block"]
              e == [ses[s] EXCEPT !.pc = "commit", !.w = w, !.v = v]
  <2>1. r \in Runs
    BY <1>0, <1>3, Zenon DEF EnqueueBlocked, ArgsOf
  <2>2. skipped \in JobRow
    BY JobRecords, Zenon DEF JobRow, Terminal, Conclusions, Failures
  <2>3. w \in [Jobs -> JobRow \cup {None}]
    <3>. HIDE DEF skipped
    <3>. QED
      BY <2>2, Zenon
  <2>4. v \in [Runs -> Verdicts \cup {None}]
    BY <2>1, IdleTypes, Zenon DEF Verdicts
  <2>5. ses' = [ses EXCEPT ![s] = e]
    BY <1>3, Zenon DEF EnqueueBlocked, TypeOK
  <2>6. e \in Session /\ ArgsOf(e)
    <3>. HIDE DEF w, v
    <3>. QED
      BY <1>0, <1>3, <2>1, <2>3, <2>4, Zenon DEF EnqueueBlocked, Session, ArgsOf
  <2>. HIDE DEF e
  <2>. QED
    BY <1>3, <2>5, <2>6, MovesSession, Zenon DEF EnqueueBlocked
<1>4. ASSUME EnqueueConflict(s) PROVE TypeInv'
  BY <1>4, RollbackType DEF EnqueueConflict, TypeOK
<1>5. ASSUME EnqueueEnforce(s) PROVE TypeInv'
  <2>. DEFINE w == CancelWrites(EnforceTargets(s))
              v == RollupAfterCancel(w)
              ww == [j \in Jobs |-> IF w[j] = None THEN ses[s].w[j] ELSE w[j]]
              vv == [r \in Runs |-> IF v[r] = None THEN ses[s].v[r] ELSE v[r]]
              e == [ses[s] EXCEPT !.pc = "commit", !.w = ww, !.v = vv]
  <2>1. w \in [Jobs -> JobRow \cup {None}]
    BY WritesType, Zenon DEF TypeOK
  <2>2. v \in [Runs -> Verdicts \cup {None}]
    <3>. HIDE DEF w
    <3>. QED
      BY <2>1, SeenType, Zenon DEF TypeOK
  <2>3. ses' = [ses EXCEPT ![s] = e]
    BY <1>5, Zenon DEF EnqueueEnforce, TypeOK
  <2>. HIDE DEF w, v
  <2>4. ww \in [Jobs -> JobRow \cup {None}] /\ vv \in [Runs -> Verdicts \cup {None}]
    BY <1>0, <2>1, <2>2, Zenon DEF Session
  <2>5. e \in Session /\ ArgsOf(e)
    <3>. HIDE DEF ww, vv
    <3>. QED
      BY <1>0, <1>5, <2>4, Zenon DEF EnqueueEnforce, Session, ArgsOf
  <2>. HIDE DEF e
  <2>. QED
    BY <1>5, <2>3, <2>5, MovesSession, Zenon DEF EnqueueEnforce
<1>. QED
  BY <1>1, <1>2, <1>3, <1>4, <1>5, Zenon

\* Cancel, approve, reject and the stale-job sweep.
LEMMA RequestTypes ==
  ASSUME TypeInv, NEW s \in Sessions
  PROVE  /\ \A r \in Runs : Cancel(s, r) \/ Approve(s, r) \/ Reject(s, r) => TypeInv'
         /\ ApproveCommit(s) \/ RejectLost(s) => TypeInv'
         /\ \A n \in Runners : RecoverStaleJobs(s, n) => TypeInv'
<1>. USE DEF TypeInv
<1>0. ses[s] \in Session /\ ArgsOf(ses[s])
  BY Zenon DEF TypeOK, Args
<1>1. ASSUME NEW r \in Runs, Cancel(s, r) PROVE TypeInv'
  <2>1. PICK T : ses' = [ses EXCEPT ![s] = [Free EXCEPT !.op = "cancel", !.pc = "commit",
                                                !.r = r, !.w = CancelWrites(T),
                                                !.v = RollupAfterCancel(CancelWrites(T))]]
    BY <1>1, Zenon DEF Cancel
  <2>. DEFINE w == CancelWrites(T)
              v == RollupAfterCancel(w)
              e == [Free EXCEPT !.op = "cancel", !.pc = "commit", !.r = r, !.w = w, !.v = v]
  <2>2. w \in [Jobs -> JobRow \cup {None}]
    BY WritesType, Zenon DEF TypeOK
  <2>3. v \in [Runs -> Verdicts \cup {None}]
    <3>. HIDE DEF w
    <3>. QED
      BY <2>2, SeenType, Zenon DEF TypeOK
  <2>4. e \in Session /\ ArgsOf(e)
    <3>. HIDE DEF w, v
    <3>. QED
      BY IdleTypes, <2>2, <2>3, Zenon DEF Session, ArgsOf, Free
  <2>5. ses' = [ses EXCEPT ![s] = e]
    BY <2>1
  <2>. HIDE DEF e
  <2>. QED
    BY <1>1, <2>4, <2>5, MovesSession, Zenon DEF Cancel
<1>2. ASSUME NEW r \in Runs, Approve(s, r) PROVE TypeInv'
  <2>. DEFINE e == [Free EXCEPT !.op = "approve", !.pc = "commit", !.r = r, !.locks = {r}]
  <2>1. e \in Session /\ ArgsOf(e)
    BY IdleTypes, Zenon DEF Session, ArgsOf, Free
  <2>2. ses' = [ses EXCEPT ![s] = e]
    BY <1>2, Zenon DEF Approve
  <2>. HIDE DEF e
  <2>. QED
    BY <1>2, <2>1, <2>2, MovesSession, Zenon DEF Approve
<1>3. ASSUME NEW r \in Runs, Reject(s, r) PROVE TypeInv'
  <2>. DEFINE w == RejectWrites(r)
              v == [NoRuns EXCEPT ![r] = "reject"]
              e == [Free EXCEPT !.op = "reject", !.pc = "commit", !.r = r, !.w = w, !.v = v]
  <2>1. w \in [Jobs -> JobRow \cup {None}]
    BY WritesType, Zenon DEF TypeOK
  <2>2. v \in [Runs -> Verdicts \cup {None}]
    BY IdleTypes, Zenon DEF Verdicts
  <2>3. ses' = [ses EXCEPT ![s] = e]
    BY <1>3, Zenon DEF Reject
  <2>4. e \in Session /\ ArgsOf(e)
    <3>. HIDE DEF w, v
    <3>. QED
      BY IdleTypes, <2>1, <2>2, Zenon DEF Session, ArgsOf, Free
  <2>. HIDE DEF e
  <2>. QED
    BY <1>3, <2>3, <2>4, MovesSession, Zenon DEF Reject
<1>4. ASSUME ApproveCommit(s) PROVE TypeInv'
  <2>1. run' \in [Runs -> RunRow]
    <3>. DEFINE r == ses[s].r
                q == IF run[r].request = "pending" THEN "approved" ELSE run[r].request
                row == [run[r] EXCEPT !.approved = "yes", !.request = q]
    <3>1. r \in Runs
      BY <1>0, <1>4, Zenon DEF ApproveCommit, ArgsOf
    <3>2. run' = [run EXCEPT ![r] = row]
      BY <1>4, <3>1, Zenon DEF ApproveCommit, TypeOK
    <3>3. run[r] \in RunRow /\ q \in {"none", "pending", "approved", "rejected"}
      BY <3>1, Zenon DEF TypeOK, RunRow
    <3>4. row \in RunRow
      <4>. HIDE DEF q
      <4>. QED
        BY <3>3, Zenon DEF RunRow
    <3>. HIDE DEF row
    <3>. QED
      BY <3>1, <3>2, <3>4 DEF TypeOK
  <2>2. TypeOK'
    BY <1>4, <2>1, IdleTypes, Zenon DEF ApproveCommit, End, TypeOK
  <2>3. ArgsOf(Free)
    BY Zenon DEF Free, ArgsOf
  <2>4. \A t \in Sessions : ArgsOf(ses'[t])
    BY <1>4, <2>3, Zenon DEF ApproveCommit, End, TypeOK, Args
  <2>5. Args'
    BY <1>4, <2>4, Zenon DEF ApproveCommit, Args, ArgsOf, HasJob
  <2>. QED
    BY <2>2, <2>5, Zenon
<1>5. ASSUME RejectLost(s) PROVE TypeInv'
  BY <1>5, RollbackType, Zenon DEF RejectLost, TypeOK
<1>6. ASSUME NEW n \in Runners, RecoverStaleJobs(s, n) PROVE TypeInv'
  <2>0. PICK active : ses' = [ses EXCEPT ![s] = [Free EXCEPT !.op = "recover", !.pc = "commit", !.n = n,
                                                   !.w = ReconcileWrites(n, active),
                                                   !.v = RollupAfterCancel(ReconcileWrites(n, active))]]
    BY <1>6, Zenon DEF RecoverStaleJobs
  <2>. DEFINE w == ReconcileWrites(n, active)
              v == RollupAfterCancel(w)
              e == [Free EXCEPT !.op = "recover", !.pc = "commit", !.n = n, !.w = w, !.v = v]
  <2>1. w \in [Jobs -> JobRow \cup {None}]
    BY WritesType, Zenon DEF TypeOK
  <2>2. v \in [Runs -> Verdicts \cup {None}]
    <3>. HIDE DEF w
    <3>. QED
      BY <2>1, SeenType, Zenon DEF TypeOK
  <2>3. ses' = [ses EXCEPT ![s] = e]
    BY <2>0, Zenon
  <2>4. e \in Session /\ ArgsOf(e)
    <3>. HIDE DEF w, v
    <3>. QED
      BY IdleTypes, <2>1, <2>2, Zenon DEF Session, ArgsOf, Free
  <2>5. faults' \in 0 .. MaxFaults
    BY <1>6, ConstantsAssumption, SMTT(20) DEF RecoverStaleJobs, Fault, TypeOK
  <2>. HIDE DEF e
  <2>. QED
    BY <1>6, <2>3, <2>4, <2>5, MovesSession, Zenon DEF RecoverStaleJobs
<1>. QED
  BY <1>1, <1>2, <1>3, <1>4, <1>5, <1>6

\* What administrators and the runner processes do.
LEMMA RunnerTypes ==
  ASSUME TypeInv, NEW n \in Runners
  PROVE  /\ Administer(n) \/ CancelCheck(n) \/ RunnerLost(n) => TypeInv'
         /\ \A s \in Sessions : Heartbeat(n, s) \/ Report(n, s) \/ StepReport(n, s) => TypeInv'
<1>. USE DEF TypeInv
<1>0. agent[n] \in Agent /\ HasJob(agent[n])
  BY Zenon DEF TypeOK, Args
<1>1. ASSUME Administer(n) PROVE TypeInv'
  <2>1. runner' \in [Runners -> {"active", "draining", "revoked"}]
    BY <1>1, Zenon DEF Administer, TypeOK
  <2>2. TypeOK'
    BY <1>1, <2>1, Zenon DEF Administer, TypeOK
  <2>3. Args'
    BY <1>1, Zenon DEF Administer, Args, ArgsOf, HasJob
  <2>. QED
    BY <2>2, <2>3
<1>2. ASSUME CancelCheck(n) PROVE TypeInv'
  <2>. DEFINE a == [agent[n] EXCEPT !.stop = "yes"]
  <2>1. agent' = [agent EXCEPT ![n] = a]
    BY <1>2, Zenon DEF CancelCheck, TypeOK
  <2>2. a \in Agent /\ HasJob(a)
    BY <1>0 DEF Agent, HasJob
  <2>. HIDE DEF a
  <2>3. TypeOK'
    BY <1>2, <2>1, <2>2 DEF CancelCheck, TypeOK
  <2>4. \A m \in Runners : HasJob(agent'[m])
    BY <2>1, <2>2, Zenon DEF TypeOK, Args
  <2>5. Args'
    BY <1>2, <2>4, Zenon DEF CancelCheck, Args, ArgsOf, HasJob
  <2>. QED
    BY <2>3, <2>5, Zenon
<1>3. ASSUME NEW s \in Sessions, StepReport(n, s) PROVE TypeInv'
  <2>1. PICK to \in {"running", "ended"} :
          ses' = [ses EXCEPT ![s] = [Free EXCEPT !.op = "step", !.pc = "begin", !.n = n,
                                                 !.j = agent[n].job, !.to = to]]
    BY <1>3, Zenon DEF StepReport
  <2>. DEFINE a == [agent[n] EXCEPT !.pc = "stepping", !.ses = s]
              e == [Free EXCEPT !.op = "step", !.pc = "begin", !.n = n,
                                !.j = agent[n].job, !.to = to]
  <2>2. agent' = [agent EXCEPT ![n] = a] /\ ses' = [ses EXCEPT ![s] = e]
    BY <1>3, <2>1, Zenon DEF StepReport, TypeOK
  <2>3. a \in Agent /\ HasJob(a)
    BY <1>0, <1>3, Zenon DEF StepReport, Agent, HasJob
  <2>4. e \in Session
    BY <1>0, IdleTypes, Zenon DEF Session, Agent
  <2>5. ArgsOf(e)
    BY <1>0, <1>3, Zenon DEF StepReport, ArgsOf, Free, HasJob
  <2>. HIDE DEF a, e
  <2>6. TypeOK'
    <3>1. UNCHANGED <<run, job, open, check, older, tries, runner, faults>>
      BY <1>3, Zenon DEF StepReport
    <3>. QED
      BY <2>2, <2>3, <2>4, <3>1, Zenon DEF TypeOK
  <2>7. \A m \in Runners : HasJob(agent'[m])
    BY <2>2, <2>3, Zenon DEF TypeOK, Args
  <2>8. \A t \in Sessions : ArgsOf(ses'[t])
    BY <2>2, <2>5, Zenon DEF TypeOK, Args
  <2>9. Args'
    BY <2>7, <2>8, Zenon DEF Args, ArgsOf, HasJob
  <2>. QED
    BY <2>6, <2>9, Zenon
<1>4. ASSUME RunnerLost(n) PROVE TypeInv'
  <2>1. faults' \in 0 .. MaxFaults
    BY <1>4, ConstantsAssumption, SMTT(40) DEF RunnerLost, Fault, TypeOK
  <2>2. Idle \in Agent /\ HasJob(Idle)
    BY IdleTypes DEF Idle, HasJob
  <2>3. TypeOK'
    BY <1>4, <2>1, <2>2 DEF RunnerLost, TypeOK
  <2>4. \A m \in Runners : HasJob(agent'[m])
    BY <1>4, <2>2, Zenon DEF RunnerLost, TypeOK, Args
  <2>5. Args'
    BY <1>4, <2>4, Zenon DEF RunnerLost, Args, ArgsOf, HasJob
  <2>. QED
    BY <2>3, <2>5
<1>5. ASSUME NEW s \in Sessions, Heartbeat(n, s) PROVE TypeInv'
  <2>. DEFINE a == [Idle EXCEPT !.pc = "asking", !.ses = s]
              e == [Free EXCEPT !.op = "reconcile", !.pc = "begin", !.n = n]
  <2>1. agent' = [agent EXCEPT ![n] = a] /\ ses' = [ses EXCEPT ![s] = e]
    BY <1>5, Zenon DEF Heartbeat
  <2>2. a \in Agent /\ HasJob(a)
    BY IdleTypes, Zenon DEF Agent, HasJob, Idle
  <2>3. e \in Session /\ ArgsOf(e)
    BY IdleTypes, Zenon DEF Session, ArgsOf, Free
  <2>. HIDE DEF a, e
  <2>4. TypeOK'
    BY <1>5, <2>1, <2>2, <2>3, SMTT(40) DEF Heartbeat, TypeOK
  <2>5. \A m \in Runners : HasJob(agent'[m])
    BY <2>1, <2>2, Zenon DEF TypeOK, Args
  <2>6. \A t \in Sessions : ArgsOf(ses'[t])
    BY <2>1, <2>3 DEF TypeOK, Args
  <2>7. Args'
    BY <2>5, <2>6, Zenon DEF Args, ArgsOf, HasJob
  <2>. QED
    BY <2>4, <2>7, Zenon
<1>6. ASSUME NEW s \in Sessions, Report(n, s) PROVE TypeInv'
  <2>1. PICK to \in {"running", "cancelled"} \cup Outcomes :
          /\ agent[n].pc \in {"holding", "working"}
          /\ ses' = [ses EXCEPT ![s] = [Free EXCEPT !.op = "status", !.pc = "begin", !.n = n,
                                                    !.j = agent[n].job, !.to = to]]
          /\ agent' = [agent EXCEPT ![n].pc = IF to = "running" THEN "reporting" ELSE "finishing",
                                    ![n].ses = s]
    BY <1>6, Zenon DEF Report
  <2>. DEFINE a == [agent[n] EXCEPT !.pc = IF to = "running" THEN "reporting" ELSE "finishing",
                                    !.ses = s]
              e == [Free EXCEPT !.op = "status", !.pc = "begin", !.n = n,
                                !.j = agent[n].job, !.to = to]
  <2>2. agent' = [agent EXCEPT ![n] = a] /\ ses' = [ses EXCEPT ![s] = e]
    BY <2>1, Zenon DEF TypeOK
  <2>3. a \in Agent /\ HasJob(a)
    BY <1>0, Zenon DEF Agent, HasJob
  <2>4. e \in Session
    BY <1>0, IdleTypes, Zenon DEF Session, Agent
  <2>5. ArgsOf(e)
    BY <1>0, <2>1, ConstantsAssumption DEF ArgsOf, Free, HasJob, Conclusions, Failures
  <2>. HIDE DEF a, e
  <2>6. TypeOK'
    BY <1>6, <2>2, <2>3, <2>4, Zenon DEF Report, TypeOK
  <2>7. \A m \in Runners : HasJob(agent'[m])
    BY <2>2, <2>3, Zenon DEF TypeOK, Args
  <2>8. \A t \in Sessions : ArgsOf(ses'[t])
    BY <2>2, <2>5, Zenon DEF TypeOK, Args
  <2>9. Args'
    BY <2>7, <2>8, Zenon DEF Args, ArgsOf, HasJob
  <2>. QED
    BY <2>6, <2>9, Zenon
<1>. QED
  BY <1>1, <1>2, <1>3, <1>4, <1>5, <1>6, Zenon

\* A heartbeat: reconciliation, then the claim.
LEMMA ClaimTypes ==
  ASSUME TypeInv, NEW s \in Sessions
  PROVE  Reconcile(s) \/ Claim(s) \/ ClaimNothing(s) => TypeInv'
<1>. USE DEF TypeInv
<1>0. ses[s] \in Session /\ ArgsOf(ses[s])
  BY Zenon DEF TypeOK, Args
<1>1. ASSUME Reconcile(s) PROVE TypeInv'
  <2>. DEFINE w == ReconcileWrites(ses[s].n, {})
              v == RollupAfterCancel(w)
              e == [ses[s] EXCEPT !.op = "claim"]
              f == [ses[s] EXCEPT !.pc = "commit", !.w = w, !.v = v]
  <2>1. w \in [Jobs -> JobRow \cup {None}]
    BY WritesType, Zenon DEF TypeOK
  <2>2. v \in [Runs -> Verdicts \cup {None}]
    <3>. HIDE DEF w
    <3>. QED
      BY <2>1, SeenType, Zenon DEF TypeOK
  <2>3. ses' = [ses EXCEPT ![s] = e] \/ ses' = [ses EXCEPT ![s] = f]
    BY <1>1, Zenon DEF Reconcile, TypeOK
  <2>. HIDE DEF w, v
  <2>4. e \in Session /\ ArgsOf(e)
    BY <1>0, <1>1, Zenon DEF Reconcile, Session, ArgsOf
  <2>5. f \in Session /\ ArgsOf(f)
    BY <1>0, <1>1, <2>1, <2>2, Zenon DEF Reconcile, Session, ArgsOf
  <2>. HIDE DEF e, f
  <2>. QED
    BY <1>1, <2>3, <2>4, <2>5, MovesSession, Zenon DEF Reconcile
<1>2. ASSUME Claim(s) PROVE TypeInv'
  <2>1. PICK j \in Candidates(s) :
          ses' = [ses EXCEPT ![s].pc = "commit", ![s].j = j,
                    ![s].w = [NoJobs EXCEPT ![j] = [job[j] EXCEPT !.st = "running",
                                                                  !.runner = ses[s].n]],
                    ![s].v = [NoRuns EXCEPT ![RunOf[j]] = "start"]]
    BY <1>2, Zenon DEF Claim
  <2>2. j \in Jobs /\ RunOf[j] \in Runs
    BY ConstantsAssumption, Zenon DEF Candidates
  <2>. DEFINE row == [job[j] EXCEPT !.st = "running", !.runner = ses[s].n]
              w == [NoJobs EXCEPT ![j] = row]
              v == [NoRuns EXCEPT ![RunOf[j]] = "start"]
              e == [ses[s] EXCEPT !.pc = "commit", !.j = j, !.w = w, !.v = v]
  <2>3. job[j] \in JobRow /\ ses[s].n \in Runners
    BY <1>0, <1>2, <2>2, Zenon DEF Claim, TypeOK, ArgsOf
  <2>4. row \in JobRow
    BY <2>3, Zenon DEF JobRow
  <2>5. w \in [Jobs -> JobRow \cup {None}]
    <3>. HIDE DEF row
    <3>. QED
      BY <2>2, <2>4, Zenon DEF NoJobs
  <2>6. v \in [Runs -> Verdicts \cup {None}]
    BY <2>2, IdleTypes, Zenon DEF Verdicts
  <2>7. ses' = [ses EXCEPT ![s] = e]
    BY <2>1, Zenon DEF TypeOK
  <2>8. e \in Session /\ ArgsOf(e)
    <3>. HIDE DEF w, v
    <3>. QED
      BY <1>0, <1>2, <2>2, <2>5, <2>6, Zenon DEF Claim, Session, ArgsOf
  <2>. HIDE DEF e
  <2>. QED
    BY <1>2, <2>7, <2>8, MovesSession, Zenon DEF Claim
<1>3. ASSUME ClaimNothing(s) PROVE TypeInv'
  <2>1. Idle \in Agent /\ HasJob(Idle)
    BY IdleTypes DEF Idle, HasJob
  <2>. QED
    BY <1>3, <2>1, EndsSession, Zenon DEF ClaimNothing, TypeOK
<1>. QED
  BY <1>1, <1>2, <1>3, Zenon

\* A job report.
LEMMA StatusTypes ==
  ASSUME TypeInv, NEW s \in Sessions
  PROVE  StatusRead(s) \/ StatusUpdate(s) => TypeInv'
<1>. USE DEF TypeInv
<1>0. ses[s] \in Session /\ ArgsOf(ses[s])
  BY Zenon DEF TypeOK, Args
<1>1. ASSUME StatusRead(s) PROVE TypeInv'
  <2>. DEFINE e == [ses[s] EXCEPT !.pc = "update"]
  <2>1. e \in Session /\ ArgsOf(e)
    BY <1>0, <1>1, Zenon DEF StatusRead, Session, ArgsOf
  <2>2. Idle \in Agent /\ HasJob(Idle)
    BY IdleTypes, Zenon DEF Idle, HasJob
  <2>3. \/ ses' = [ses EXCEPT ![s] = e] /\ UNCHANGED agent
        \/ End(s) /\ agent' = Answer(s, Idle)
    BY <1>1, Zenon DEF StatusRead, TypeOK
  <2>. HIDE DEF e
  <2>4. ASSUME ses' = [ses EXCEPT ![s] = e], UNCHANGED agent PROVE TypeInv'
    BY <1>1, <2>1, <2>4, MovesSession, Zenon DEF StatusRead
  <2>5. ASSUME End(s), agent' = Answer(s, Idle) PROVE TypeInv'
    BY <1>1, <2>2, <2>5, EndsSession, Zenon DEF StatusRead, TypeOK
  <2>. QED
    BY <2>3, <2>4, <2>5, Zenon
<1>2. ASSUME StatusUpdate(s) PROVE TypeInv'
  <2>. DEFINE j == ses[s].j
              row == Reported(job[j], ses[s].to)
              w == [NoJobs EXCEPT ![j] = row]
              c == Rollup(RunOf[j], Seen(w), "start")
              v == [NoRuns EXCEPT ![RunOf[j]] = c]
              e == [ses[s] EXCEPT !.pc = "commit", !.w = w, !.v = v]
  <2>1. j \in Jobs /\ RunOf[j] \in Runs
    BY <1>0, <1>2, ConstantsAssumption, Zenon DEF StatusUpdate, ArgsOf
  <2>2. row \in JobRow
    <3>1. CASE ses[s].to # "none"
      <4>1. ses[s].to # "ended"
        BY <1>0, <1>2, Zenon DEF StatusUpdate, ArgsOf
      <4>. QED
        BY <1>0, <2>1, <3>1, <4>1, JobRecords, Zenon DEF Session, TypeOK
    <3>2. CASE ses[s].to = "none"
      <4>1. job[j] \in JobRow
        BY <2>1 DEF TypeOK
      <4>. QED
        BY <3>2, <4>1, Zenon DEF Reported, JobRow, Terminal
    <3>. QED
      BY <3>1, <3>2
  <2>3. w \in [Jobs -> JobRow \cup {None}]
    <3>. HIDE DEF row
    <3>. QED
      BY <2>1, <2>2, Zenon DEF NoJobs
  <2>4. c \in Verdicts
    <3>. HIDE DEF w
    <3>1. Seen(w) \in [Jobs -> JobRow]
      BY <2>3, SeenType, Zenon DEF TypeOK
    <3>. QED
      BY <2>1, <3>1, RollupType, Zenon
  <2>5. v \in [Runs -> Verdicts \cup {None}]
    <3>. HIDE DEF c
    <3>. QED
      BY <2>1, <2>4, IdleTypes, Zenon
  <2>6. ses' = [ses EXCEPT ![s] = e]
    BY <1>2, Zenon DEF StatusUpdate, TypeOK
  <2>7. e \in Session /\ ArgsOf(e)
    <3>. HIDE DEF w, v
    <3>. QED
      BY <1>0, <1>2, <2>3, <2>5, Zenon DEF StatusUpdate, Session, ArgsOf
  <2>. HIDE DEF e
  <2>. QED
    BY <1>2, <2>6, <2>7, MovesSession, Zenon DEF StatusUpdate
<1>. QED
  BY <1>1, <1>2, Zenon

\* A step report.
LEMMA StepTypes ==
  ASSUME TypeInv, NEW s \in Sessions
  PROVE  StepRead(s) \/ StepUpdate(s) => TypeInv'
<1>. USE DEF TypeInv
<1>0. ses[s] \in Session /\ ArgsOf(ses[s])
  BY Zenon DEF TypeOK, Args
<1>1. ASSUME StepRead(s) PROVE TypeInv'
  <2>. DEFINE e == [ses[s] EXCEPT !.pc = "update"]
  <2>1. e \in Session /\ ArgsOf(e)
    BY <1>0, <1>1, Zenon DEF StepRead, Session, ArgsOf
  <2>2. Idle \in Agent /\ HasJob(Idle)
    BY IdleTypes, Zenon DEF Idle, HasJob
  <2>3. \/ ses' = [ses EXCEPT ![s] = e] /\ UNCHANGED agent
        \/ End(s) /\ agent' = Answer(s, Idle)
    BY <1>1, Zenon DEF StepRead, TypeOK
  <2>. HIDE DEF e
  <2>4. ASSUME ses' = [ses EXCEPT ![s] = e], UNCHANGED agent PROVE TypeInv'
    BY <1>1, <2>1, <2>4, MovesSession, Zenon DEF StepRead
  <2>5. ASSUME End(s), agent' = Answer(s, Idle) PROVE TypeInv'
    BY <1>1, <2>2, <2>5, EndsSession, Zenon DEF StepRead, TypeOK
  <2>. QED
    BY <2>3, <2>4, <2>5, Zenon
<1>2. ASSUME StepUpdate(s) PROVE TypeInv'
  <2>1. ses[s].j \in Jobs
    BY <1>0, <1>2, Zenon DEF StepUpdate, ArgsOf
  <2>2. open' \subseteq Jobs
    BY <1>2, <2>1, Zenon DEF StepUpdate, TypeOK
  <2>. DEFINE back(n) == [agent[n] EXCEPT !.pc = "working", !.job = ses[s].j, !.ses = None]
  <2>3. \A n \in Runners : agent[n] \in Agent /\ HasJob(agent[n])
    BY Zenon DEF TypeOK, Args
  <2>4. \A n \in Runners : back(n) \in Agent /\ HasJob(back(n))
    BY <2>1, <2>3, Zenon DEF Agent, HasJob
  <2>5. agent' = [n \in Runners |-> IF agent[n].ses = s THEN back(n) ELSE agent[n]]
    BY <1>2, Zenon DEF StepUpdate
  <2>. HIDE DEF back
  <2>6. agent' \in [Runners -> Agent] /\ \A n \in Runners : HasJob(agent'[n])
    BY <2>3, <2>4, <2>5, Zenon
  <2>7. ses' \in [Sessions -> Session] /\ ses' = [ses EXCEPT ![s] = Free]
    BY <1>2, IdleTypes, Zenon DEF StepUpdate, End, TypeOK
  <2>8. TypeOK'
    BY <1>2, <2>2, <2>6, <2>7, Zenon DEF StepUpdate, TypeOK
  <2>9. ArgsOf(Free)
    BY Zenon DEF Free, ArgsOf
  <2>10. \A t \in Sessions : ArgsOf(ses'[t])
    BY <2>7, <2>9, Zenon DEF TypeOK, Args
  <2>11. Args'
    BY <2>6, <2>10, Zenon DEF Args, ArgsOf, HasJob
  <2>. QED
    BY <2>8, <2>11, Zenon
<1>. QED
  BY <1>1, <1>2, Zenon

\* Commits and the check updates after them.
LEMMA CommitTypes ==
  ASSUME TypeInv, NEW s \in Sessions
  PROVE  Commit(s) \/ Sync(s) \/ SyncDone(s) \/ SyncFails(s) => TypeInv'
<1>. USE DEF TypeInv
<1>0. ses[s] \in Session /\ ArgsOf(ses[s])
  BY Zenon DEF TypeOK, Args
<1>1. ASSUME Commit(s) PROVE TypeInv'
  <2>1. job' \in [Jobs -> JobRow]
    BY <1>0, <1>1, SeenType, Zenon DEF Commit, Session, TypeOK
  <2>2. run' \in [Runs -> RunRow]
    <3>1. \A r \in Runs : ses[s].v[r] # None => Applied(r, ses[s].v[r]) \in RunRow
      BY <1>0, AppliedType DEF Session, TypeOK
    <3>. QED
      BY <1>1, <3>1, Zenon DEF Commit, TypeOK
  <2>3. open' \subseteq Jobs
    BY <1>1, Zenon DEF Commit, OpenAfter
  <2>. DEFINE a == [Idle EXCEPT !.pc = "holding", !.job = ses[s].j]
              e == [ses[s] EXCEPT !.pc = "sync", !.v = NoRuns, !.locks = {}]
  <2>4. \/ ses[s].op = "claim" /\ ses' = [ses EXCEPT ![s] = Free] /\ agent' = Answer(s, a)
        \/ ses[s].op # "claim" /\ ses' = [ses EXCEPT ![s] = e] /\ agent' = agent
    BY <1>1, Zenon DEF Commit, End, TypeOK
  <2>5. ses[s].op = "claim" => a \in Agent /\ HasJob(a)
    BY <1>0, <1>1, IdleTypes, Zenon DEF Commit, ArgsOf, HasJob, Agent
  <2>6. ses[s].op # "claim" => e \in Session /\ ArgsOf(e)
    BY <1>0, IdleTypes, Zenon DEF Session, ArgsOf
  <2>7. Free \in Session /\ ArgsOf(Free)
    BY IdleTypes, Zenon DEF ArgsOf, Free
  <2>. HIDE DEF a, e
  <2>8. ses' \in [Sessions -> Session] /\ agent' \in [Runners -> Agent]
    BY <2>4, <2>5, <2>6, <2>7 DEF Answer, TypeOK
  <2>9. TypeOK'
    BY <1>1, <2>1, <2>2, <2>3, <2>8, Zenon DEF Commit, TypeOK
  <2>10. \A t \in Sessions : ArgsOf(ses'[t])
    BY <2>4, <2>6, <2>7, Zenon DEF TypeOK, Args
  <2>11. \A n \in Runners : HasJob(agent'[n])
    BY <2>4, <2>5, Zenon DEF TypeOK, Args, Answer
  <2>12. Args'
    BY <2>10, <2>11, Zenon DEF Args, ArgsOf, HasJob
  <2>. QED
    BY <2>9, <2>12, Zenon
<1>2. ASSUME Sync(s) \/ SyncFails(s) PROVE TypeInv'
  <2>1. PICK j \in Written(ses[s].w) :
          /\ ses' = [ses EXCEPT ![s].w[j] = None]
          /\ check' = check \/ check' = [check EXCEPT ![j] = Mirror(@, ses[s].w[j])]
    BY <1>2, Zenon DEF Sync, SyncFails
  <2>2. j \in Jobs /\ ses[s].w[j] \in JobRow
    BY <1>0, Zenon DEF Written, Session
  <2>3. check' \in [Jobs -> CheckRow]
    <3>1. Mirror(check[j], ses[s].w[j]) \in CheckRow
      BY <2>2, MirrorType, Zenon DEF TypeOK
    <3>. QED
      BY <2>1, <2>2, <3>1, Zenon DEF TypeOK
  <2>. DEFINE w == [ses[s].w EXCEPT ![j] = None]
              e == [ses[s] EXCEPT !.w = w]
  <2>4. w \in [Jobs -> JobRow \cup {None}]
    BY <1>0, Zenon DEF Session
  <2>5. ses' = [ses EXCEPT ![s] = e]
    BY <2>1, Zenon DEF TypeOK
  <2>6. e \in Session /\ ArgsOf(e)
    <3>. HIDE DEF w
    <3>. QED
      BY <1>0, <2>4, SMTT(40) DEF Session, ArgsOf
  <2>. HIDE DEF e
  <2>7. faults' \in 0 .. MaxFaults
    BY <1>2, ConstantsAssumption, SMTT(40) DEF Sync, SyncFails, Fault, TypeOK
  <2>8. TypeOK'
    BY <1>2, <2>3, <2>5, <2>6, <2>7, Zenon DEF Sync, SyncFails, TypeOK
  <2>9. \A t \in Sessions : ArgsOf(ses'[t])
    BY <2>5, <2>6, Zenon DEF TypeOK, Args
  <2>10. Args'
    BY <1>2, <2>9, Zenon DEF Sync, SyncFails, Args, ArgsOf, HasJob
  <2>. QED
    BY <2>8, <2>10, Zenon
<1>3. ASSUME SyncDone(s) PROVE TypeInv'
  <2>. DEFINE e == [ses[s] EXCEPT !.op = "claim", !.pc = "begin"]
              a == IF ses[s].to = "running" THEN [Idle EXCEPT !.pc = "working", !.job = ses[s].j]
                                            ELSE Idle
  <2>1. \/ ses[s].op = "reconcile" /\ ses' = [ses EXCEPT ![s] = e] /\ UNCHANGED agent
        \/ End(s) /\ agent' = Answer(s, a)
    BY <1>3, Zenon DEF SyncDone, TypeOK
  <2>2. ses[s].op = "reconcile" => e \in Session /\ ArgsOf(e)
    BY <1>0, Zenon DEF Session, ArgsOf
  <2>3. a \in Agent /\ HasJob(a)
    <3>1. CASE ses[s].to = "running"
      <4>1. ses[s].j \in Jobs
        BY <1>0, <3>1, Zenon DEF ArgsOf
      <4>. QED
        BY <3>1, <4>1, IdleTypes, Zenon DEF HasJob, Agent
    <3>2. CASE ses[s].to # "running"
      BY <3>2, IdleTypes, Zenon DEF HasJob, Idle
    <3>. QED
      BY <3>1, <3>2, Zenon
  <2>. HIDE DEF e, a
  <2>4. ASSUME ses[s].op = "reconcile", ses' = [ses EXCEPT ![s] = e], UNCHANGED agent
        PROVE  TypeInv'
    BY <1>3, <2>2, <2>4, MovesSession, Zenon DEF SyncDone
  <2>5. ASSUME End(s), agent' = Answer(s, a) PROVE TypeInv'
    BY <1>3, <2>3, <2>5, EndsSession, Zenon DEF SyncDone, TypeOK
  <2>. QED
    BY <2>1, <2>4, <2>5, Zenon
<1>. QED
  BY <1>1, <1>2, <1>3, Zenon

\* Type correctness, with what handlers know about their arguments.
LEMMA TypeInvHolds == Spec => []TypeInv
<1>1. Init => TypeInv
  <2>. SUFFICES ASSUME Init PROVE TypeInv
    BY Zenon
  <2>1. TypeOK
    BY IdleTypes, RunRecords, JobRecords, ConstantsAssumption, SMTT(40) DEF Init, TypeOK, CheckRow
  <2>2. ArgsOf(Free) /\ HasJob(Idle)
    BY Zenon DEF ArgsOf, Free, HasJob, Idle
  <2>. QED
    BY <2>1, <2>2, Zenon DEF Init, TypeInv, Args
<1>2. TypeInv /\ [Next]_vars => TypeInv'
  <2>. SUFFICES ASSUME TypeInv, [Next]_vars PROVE TypeInv'
    BY Zenon
  <2>1. ASSUME NEW s \in Sessions, SessionStep(s) PROVE TypeInv'
    <3>1. ASSUME DeadlockAbort(s) PROVE TypeInv'
      BY <3>1, RollbackType, Zenon DEF DeadlockAbort, TypeInv, TypeOK
    <3>. QED
      BY <2>1, <3>1, EnqueueTypes, RequestTypes, ClaimTypes, StatusTypes, StepTypes,
         CommitTypes, Zenon DEF SessionStep
  <2>2. ASSUME NEW n \in Runners,
               AgentStep(n) \/ CancelCheck(n) \/ \E s \in Sessions : StepReport(n, s)
        PROVE  TypeInv'
    BY <2>2, RunnerTypes, Zenon DEF AgentStep
  <2>3. ASSUME UserStep PROVE TypeInv'
    BY <2>3, EnqueueTypes, RequestTypes, RunnerTypes, Zenon DEF UserStep
  <2>4. ASSUME FaultStep PROVE TypeInv'
    <3>1. ASSUME NEW s \in Sessions, HandlerLost(s) PROVE TypeInv'
      <4>1. faults' \in 0 .. MaxFaults
        BY <3>1, ConstantsAssumption, SMTT(20) DEF HandlerLost, Fault, TypeInv, TypeOK
      <4>. QED
        BY <3>1, <4>1, RollbackType, Zenon DEF HandlerLost
    <3>. QED
      BY <2>4, <3>1, RunnerTypes, RequestTypes, CommitTypes, Zenon DEF FaultStep
  <2>5. CASE UNCHANGED vars
    BY <2>5, Zenon DEF vars, TypeInv, TypeOK, Args, ArgsOf, HasJob
  <2>. QED
    BY <2>1, <2>2, <2>3, <2>4, <2>5, Zenon DEF Next
<1>. QED
  BY <1>1, <1>2, PTL DEF Spec

\* Every behaviour of the control plane is type correct: the rows that the
\* handlers write, and the updates they hold back until they commit, are rows
\* of the schema, whatever the workflows, the requests and the faults.
THEOREM TypeCorrect == Spec => []TypeOK
<1>1. TypeInv => TypeOK
  BY Zenon DEF TypeInv
<1>. QED
  BY <1>1, TypeInvHolds, PTL

-----------------------------------------------------------------------------
(* Approvals. *)

\* While the runs stay as they are, what is sound of a handler's new state now
\* is sound of it after the step.
LEMMA SoundStays ==
  ASSUME UNCHANGED run, \A t \in Sessions : Sound(ses'[t])
  PROVE  \A t \in Sessions : Sound(ses[t])'
<1>. SUFFICES ASSUME NEW t \in Sessions PROVE Sound(ses[t])'
  BY Zenon
<1>0. Sound(ses'[t])
  BY Zenon
<1>1. SoundReport(ses[t])'
  BY <1>0, Zenon DEF Sound, SoundReport, Present
<1>2. CASE ~InFlight(ses'[t])
  BY <1>1, <1>2, Zenon DEF Sound, InFlight
<1>3. CASE InFlight(ses'[t])
  <2>1. SoundVerdicts(ses'[t]) /\ SoundWrites(ses'[t])
    BY <1>0, <1>3, Zenon DEF Sound
  <2>2. SoundVerdicts(ses[t])'
    BY <2>1, Zenon DEF SoundVerdicts, Present
  <2>3. SoundWrites(ses[t])'
    BY <2>1, Zenon DEF SoundWrites, Present
  <2>. QED
    BY <1>1, <2>2, <2>3, Zenon DEF Sound
<1>. QED
  BY <1>2, <1>3, Zenon

\* A step that moves one handler and leaves the rows alone.
LEMMA QuietStep ==
  ASSUME TypeInv, ApprovalInv, NEW s \in Sessions, NEW e \in Session,
         ses' = [ses EXCEPT ![s] = e], UNCHANGED <<run, job>>,
         Sound(e), ~Approving(e), Creating(e) => Creating(ses[s]) /\ e.r = ses[s].r
  PROVE  ApprovalInv'
<1>1. \A t \in Sessions : ses'[t] = IF t = s THEN e ELSE ses[t]
  BY Zenon DEF TypeInv, TypeOK
<1>2. ApprovesAlone'
  <2>. SUFFICES ASSUME NEW t \in Sessions, Approving(ses'[t])
                PROVE  /\ run[ses'[t].r].request = "pending"
                       /\ ses'[t].r \in ses'[t].locks
                       /\ \A u \in Sessions \ {t} : Approving(ses'[u]) => ses'[u].r # ses'[t].r
    BY Zenon DEF ApprovesAlone, Approving, InFlight
  <2>1. ses'[t] = ses[t] /\ Approving(ses[t])
    BY <1>1, Zenon
  <2>2. /\ run[ses[t].r].request = "pending"
        /\ ses[t].r \in ses[t].locks
        /\ \A u \in Sessions \ {t} : Approving(ses[u]) => ses[u].r # ses[t].r
    BY <2>1, Zenon DEF ApprovalInv, ApprovesAlone
  <2>. QED
    BY <1>1, <2>1, <2>2
<1>3. CreatedOnce'
  BY <1>1, SMTT(40) DEF ApprovalInv, CreatedOnce, Present
<1>4. \A t \in Sessions : Sound(ses'[t])
  BY <1>1, Zenon DEF ApprovalInv
<1>5. \A t \in Sessions : Sound(ses[t])'
  BY <1>4, SoundStays, Zenon
<1>6. RowsHaveRun' /\ ApprovalSettled' /\ NeverRunsUnapproved'
  BY Zenon DEF ApprovalInv, RowsHaveRun, ApprovalSettled, NeverRunsUnapproved, Present
<1>. QED
  BY <1>2, <1>3, <1>5, <1>6, Zenon DEF ApprovalInv

\* A handler with no open transaction that is not a trigger is harmless.
LEMMA SoundOutside ==
  ASSUME NEW e, e.pc \in {"free", "begin", "sync"}
  PROVE  Sound(e) /\ ~Approving(e)
BY Zenon DEF Sound, SoundReport, InFlight, Approving

\* A handler that ends without a write changes nothing about approvals.
LEMMA QuietEnd ==
  ASSUME TypeInv, ApprovalInv, NEW s \in Sessions, End(s), UNCHANGED <<run, job>>
  PROVE  ApprovalInv'
<1>1. Free \in Session /\ Free.pc = "free" /\ ~Creating(Free)
  BY IdleTypes, Zenon DEF Free, Creating
<1>2. ses' = [ses EXCEPT ![s] = Free]
  BY Zenon DEF End
<1>3. Sound(Free) /\ ~Approving(Free)
  BY <1>1, SoundOutside, SMTT(40)
<1>. QED
  BY <1>1, <1>2, <1>3, QuietStep, Zenon

\* The writes of a handler that updates rows it found.
FromRows(w) == \A j \in Jobs : w[j] # None => job[j].st # "absent" /\ w[j].runner = job[j].runner

\* Cancels, rejections and reconciliation write only rows that exist.
LEMMA FoundRows ==
  ASSUME job \in [Jobs -> JobRow]
  PROVE  /\ \A T : FromRows(CancelWrites(T))
         /\ \A r : FromRows(RejectWrites(r))
         /\ \A n, active : FromRows(ReconcileWrites(n, active))
<1>1. ASSUME NEW T PROVE FromRows(CancelWrites(T))
  BY DEF FromRows, CancelWrites, Cancellable, CancelRequested, JobRow
<1>2. ASSUME NEW r PROVE FromRows(RejectWrites(r))
  BY DEF FromRows, RejectWrites, JobRow
<1>3. ASSUME NEW n, NEW active PROVE FromRows(ReconcileWrites(n, active))
  BY DEF FromRows, ReconcileWrites, JobRow
<1>. QED
  BY <1>1, <1>2, <1>3, Zenon

\* Such writes, and the verdicts RollupAfterCancel draws from them, are sound.
LEMMA FoundSound ==
  ASSUME TypeInv, ApprovalInv, NEW w \in [Jobs -> JobRow \cup {None}], FromRows(w)
  PROVE  /\ \A r \in Runs : RollupAfterCancel(w)[r] # None =>
              Present(r) /\ RollupAfterCancel(w)[r] \notin {"create", "block", "reject"}
         /\ \A j \in Jobs : w[j] # None =>
              Present(RunOf[j]) /\ (w[j].runner # None => Dispatchable(run[RunOf[j]]))
<1>1. ASSUME NEW j \in Jobs, w[j] # None
      PROVE  Present(RunOf[j]) /\ (w[j].runner # None => Dispatchable(run[RunOf[j]]))
  BY <1>1, Zenon DEF FromRows, ApprovalInv, RowsHaveRun, NeverRunsUnapproved
<1>2. ASSUME NEW r \in Runs, RollupAfterCancel(w)[r] # None
      PROVE  Present(r) /\ RollupAfterCancel(w)[r] \notin {"create", "block", "reject"}
  <2>1. PICK j \in Jobs : w[j] # None /\ RunOf[j] = r
    BY <1>2, Zenon DEF RollupAfterCancel, Written, JobsOf
  <2>2. RollupAfterCancel(w)[r] \notin {"create", "block", "reject"}
    BY SeenType, Zenon DEF TypeInv, TypeOK
  <2>. QED
    BY <1>1, <2>1, <2>2, Zenon
<1>. QED
  BY <1>1, <1>2, Zenon

\* A handler in flight whose writes come from rows it found.
LEMMA SoundFound ==
  ASSUME TypeInv, ApprovalInv, NEW w \in [Jobs -> JobRow \cup {None}], FromRows(w),
         NEW e, e.pc = "commit", e.w = w, e.v = RollupAfterCancel(w)
  PROVE  Sound(e)
<1>. DEFINE v == RollupAfterCancel(w)
<1>1. \A r \in Runs : v[r] # None => Present(r) /\ v[r] \notin {"create", "block", "reject"}
  BY FoundSound, Zenon
<1>2. \A j \in Jobs : w[j] # None =>
        Present(RunOf[j]) /\ (w[j].runner # None => Dispatchable(run[RunOf[j]]))
  BY FoundSound, Zenon
<1>3. None \notin {"create", "block", "reject"}
  BY ConstantsAssumption, Zenon DEF Verdicts
<1>. HIDE DEF v
<1>4. SoundVerdicts(e)
  BY <1>1, <1>3, Zenon DEF SoundVerdicts, v
<1>5. SoundWrites(e)
  BY <1>2, Zenon DEF SoundWrites
<1>. QED
  BY <1>4, <1>5, Zenon DEF Sound, SoundReport

\* The trigger's transaction.
LEMMA EnqueueApprovals ==
  ASSUME TypeInv, ApprovalInv, TypeInv', NEW s \in Sessions
  PROVE  /\ \A r \in Runs : EnqueueBegin(s, r) => ApprovalInv'
         /\ EnqueueInsert(s) \/ EnqueueBlocked(s) \/ EnqueueEnforce(s) => ApprovalInv'
<1>0. ses[s] \in Session /\ ses'[s] \in Session /\ ArgsOf(ses[s]) /\ Sound(ses[s])
  BY Zenon DEF TypeInv, TypeOK, Args, ApprovalInv
<1>9. None \notin {"create", "block", "reject"}
  BY ConstantsAssumption, Zenon DEF Verdicts
<1>1. ASSUME NEW r \in Runs, EnqueueBegin(s, r) PROVE ApprovalInv'
  <2>. DEFINE e == [Free EXCEPT !.op = "enqueue", !.pc = "begin", !.r = r]
  <2>1. ses' = [ses EXCEPT ![s] = e] /\ UNCHANGED <<run, job>>
    BY <1>1, Zenon DEF EnqueueBegin
  <2>2. e.op = "enqueue" /\ e.pc = "begin" /\ e.r = r
    BY Zenon DEF Free
  <2>. HIDE DEF e
  <2>3. Sound(e) /\ ~Approving(e)
    BY <2>2, SoundOutside, SMTT(40)
  <2>4. \A t \in Sessions : ses'[t] = IF t = s THEN e ELSE ses[t]
    BY <2>1, Zenon DEF TypeInv, TypeOK
  <2>5. ApprovesAlone'
    BY <2>1, <2>3, <2>4, SMTT(40) DEF ApprovalInv, ApprovesAlone
  <2>6. run[r].st = "absent" /\ \A t \in Sessions : ses[t].op = "enqueue" => ses[t].r # r
    BY <1>1, Zenon DEF EnqueueBegin, Stamped
  <2>7. CreatedOnce'
    <3>. SUFFICES ASSUME NEW t \in Sessions, Creating(ses'[t])
                  PROVE  /\ run[ses'[t].r].st = "absent"
                         /\ \A u \in Sessions \ {t} : Creating(ses'[u]) => ses'[u].r # ses'[t].r
      BY <2>1, Zenon DEF CreatedOnce, Present, Creating
    <3>1. CASE t = s
      BY <2>2, <2>4, <2>6, <3>1 DEF Creating
    <3>2. CASE t # s
      BY <2>2, <2>4, <2>6, <3>2 DEF ApprovalInv, CreatedOnce, Present, Creating
    <3>. QED
      BY <3>1, <3>2, Zenon
  <2>8. \A t \in Sessions : Sound(ses'[t])
    BY <2>3, <2>4, Zenon DEF ApprovalInv
  <2>9. \A t \in Sessions : Sound(ses[t])'
    BY <2>1, <2>8, SoundStays, Zenon
  <2>10. RowsHaveRun' /\ ApprovalSettled' /\ NeverRunsUnapproved'
    BY <2>1, Zenon DEF ApprovalInv, RowsHaveRun, ApprovalSettled, NeverRunsUnapproved, Present
  <2>. QED
    BY <2>5, <2>7, <2>9, <2>10, Zenon DEF ApprovalInv
<1>2. ASSUME EnqueueInsert(s) PROVE ApprovalInv'
  <2>. DEFINE r == ses[s].r
              w == QueuedJobs(r)
              v == [NoRuns EXCEPT ![r] = "create"]
              e == [ses[s] EXCEPT !.pc = "enforce", !.w = w, !.v = v, !.locks = Blockers(r)]
  <2>1. ses' = [ses EXCEPT ![s] = e] /\ UNCHANGED <<run, job>>
    BY <1>2, Zenon DEF EnqueueInsert, TypeInv, TypeOK
  <2>2. r \in Runs
    BY <1>0, <1>2, Zenon DEF EnqueueInsert, ArgsOf
  <2>3. e.op = "enqueue" /\ e.pc = "enforce" /\ e.r = r /\ e.w = w /\ e.v = v
    BY <1>0, <1>2, Zenon DEF EnqueueInsert, Session
  <2>4. \A x \in Runs : v[x] = IF x = r THEN "create" ELSE None
    BY <2>2, Zenon DEF NoRuns
  <2>5. \A j \in Jobs : w[j] # None => RunOf[j] = r /\ w[j].runner = None
    BY Zenon DEF QueuedJobs, AbsentJob
  <2>6. e \in Session
    BY <1>0, <2>1, Zenon DEF TypeInv, TypeOK
  <2>. HIDE DEF w, v, e
  <2>7. SoundVerdicts(e)
    BY <1>9, <2>3, <2>4, Zenon DEF SoundVerdicts
  <2>8. SoundWrites(e)
    BY <2>2, <2>3, <2>4, <2>5, Zenon DEF SoundWrites
  <2>9. Sound(e) /\ ~Approving(e) /\ Creating(ses[s])
    BY <1>2, <2>3, <2>7, <2>8, Zenon DEF EnqueueInsert, Sound, SoundReport, Approving, Creating
  <2>. QED
    BY <2>1, <2>3, <2>6, <2>9, QuietStep, Zenon
<1>3. ASSUME EnqueueBlocked(s) PROVE ApprovalInv'
  <2>. DEFINE r == ses[s].r
              skipped == [AbsentJob EXCEPT !.st = "skipped", !.con = "action_required"]
              w == [j \in Jobs |-> IF RunOf[j] = r THEN skipped ELSE None]
              v == [NoRuns EXCEPT ![r] = "block"]
              e == [ses[s] EXCEPT !.pc = "commit", !.w = w, !.v = v]
  <2>1. ses' = [ses EXCEPT ![s] = e] /\ UNCHANGED <<run, job>>
    BY <1>3, Zenon DEF EnqueueBlocked, TypeInv, TypeOK
  <2>2. r \in Runs
    BY <1>0, <1>3, Zenon DEF EnqueueBlocked, ArgsOf
  <2>3. e.op = "enqueue" /\ e.pc = "commit" /\ e.r = r /\ e.w = w /\ e.v = v
    BY <1>0, <1>3, Zenon DEF EnqueueBlocked, Session
  <2>4. \A x \in Runs : v[x] = IF x = r THEN "block" ELSE None
    BY <2>2, Zenon DEF NoRuns
  <2>5. \A j \in Jobs : w[j] # None => RunOf[j] = r /\ w[j].runner = None
    BY Zenon DEF AbsentJob
  <2>6. e \in Session
    BY <1>0, <2>1, Zenon DEF TypeInv, TypeOK
  <2>. HIDE DEF w, v, e
  <2>7. SoundVerdicts(e)
    BY <1>9, <2>3, <2>4, SMTT(20) DEF SoundVerdicts
  <2>8. SoundWrites(e)
    BY <2>2, <2>3, <2>4, <2>5 DEF SoundWrites
  <2>9. Sound(e) /\ ~Approving(e) /\ Creating(ses[s])
    BY <1>3, <2>3, <2>7, <2>8, ZenonT(30) DEF EnqueueBlocked, Sound, SoundReport, Approving, Creating
  <2>. QED
    BY <2>1, <2>3, <2>6, <2>9, QuietStep, Zenon
<1>4. ASSUME EnqueueEnforce(s) PROVE ApprovalInv'
  <2>. DEFINE w == CancelWrites(EnforceTargets(s))
              v == RollupAfterCancel(w)
              ww == [j \in Jobs |-> IF w[j] = None THEN ses[s].w[j] ELSE w[j]]
              vv == [r \in Runs |-> IF v[r] = None THEN ses[s].v[r] ELSE v[r]]
              e == [ses[s] EXCEPT !.pc = "commit", !.w = ww, !.v = vv]
  <2>1. ses' = [ses EXCEPT ![s] = e] /\ UNCHANGED <<run, job>>
    BY <1>4, Zenon DEF EnqueueEnforce, TypeInv, TypeOK
  <2>2. w \in [Jobs -> JobRow \cup {None}] /\ FromRows(w)
    BY WritesType, FoundRows, Zenon DEF TypeInv, TypeOK
  <2>3. e.op = "enqueue" /\ e.pc = "commit" /\ e.r = ses[s].r /\ e.w = ww /\ e.v = vv
    BY <1>0, <1>4, Zenon DEF EnqueueEnforce, Session
  <2>4. SoundVerdicts(ses[s]) /\ SoundWrites(ses[s]) /\ ses[s].op = "enqueue"
    BY <1>0, <1>4, Zenon DEF EnqueueEnforce, Sound, InFlight
  <2>5. e \in Session
    BY <1>0, <2>1, Zenon DEF TypeInv, TypeOK
  <2>. HIDE DEF w, e
  <2>6. /\ \A r \in Runs : v[r] # None =>
             Present(r) /\ v[r] \notin {"create", "block", "reject"}
        /\ \A j \in Jobs : w[j] # None =>
             Present(RunOf[j]) /\ (w[j].runner # None => Dispatchable(run[RunOf[j]]))
    BY <2>2, FoundSound, Zenon
  <2>. HIDE DEF v
  <2>7. SoundVerdicts(e)
    BY <2>3, <2>4, <2>6, SMTT(20) DEF SoundVerdicts
  <2>8. SoundWrites(e)
    <3>. SUFFICES ASSUME NEW j \in Jobs, ww[j] # None
                  PROVE  /\ Present(RunOf[j]) \/ vv[RunOf[j]] \in {"create", "block"}
                         /\ ww[j].runner # None => Present(RunOf[j]) /\ Dispatchable(run[RunOf[j]])
      BY <2>3, Zenon DEF SoundWrites
    <3>0. RunOf[j] \in Runs
      BY ConstantsAssumption, Zenon
    <3>1. CASE w[j] # None
      BY <2>6, <3>1, Zenon
    <3>2. CASE w[j] = None
      BY <2>4, <2>6, <3>0, <3>2, Zenon DEF SoundWrites
    <3>. QED
      BY <3>1, <3>2, Zenon
  <2>9. Sound(e) /\ ~Approving(e) /\ Creating(ses[s])
    BY <1>4, <2>3, <2>7, <2>8, Zenon DEF EnqueueEnforce, Sound, SoundReport, Approving, Creating
  <2>. QED
    BY <2>1, <2>3, <2>5, <2>9, QuietStep, Zenon
<1>. QED
  BY <1>1, <1>2, <1>3, <1>4, Zenon

\* Cancel, approve, reject and the stale-job sweep.
LEMMA RequestApprovals ==
  ASSUME TypeInv, ApprovalInv, TypeInv', NEW s \in Sessions
  PROVE  /\ \A r \in Runs : Cancel(s, r) \/ Approve(s, r) \/ Reject(s, r) => ApprovalInv'
         /\ ApproveCommit(s) => ApprovalInv'
         /\ \A n \in Runners : RecoverStaleJobs(s, n) => ApprovalInv'
<1>0. ses[s] \in Session /\ ses'[s] \in Session /\ ArgsOf(ses[s])
  BY Zenon DEF TypeInv, TypeOK, Args
<1>1. ASSUME NEW r \in Runs, Cancel(s, r) PROVE ApprovalInv'
  <2>1. PICK T : ses' = [ses EXCEPT ![s] = [Free EXCEPT !.op = "cancel", !.pc = "commit",
                                                !.r = r, !.w = CancelWrites(T),
                                                !.v = RollupAfterCancel(CancelWrites(T))]]
    BY <1>1, Zenon DEF Cancel
  <2>. DEFINE w == CancelWrites(T)
              e == [Free EXCEPT !.op = "cancel", !.pc = "commit", !.r = r, !.w = w,
                                !.v = RollupAfterCancel(w)]
  <2>2. ses' = [ses EXCEPT ![s] = e] /\ UNCHANGED <<run, job>>
    BY <1>1, <2>1, Zenon DEF Cancel
  <2>3. w \in [Jobs -> JobRow \cup {None}] /\ FromRows(w)
    BY WritesType, FoundRows, Zenon DEF TypeInv, TypeOK
  <2>. HIDE DEF w
  <2>4. e.op = "cancel" /\ e.pc = "commit" /\ e.w = w /\ e.v = RollupAfterCancel(w)
    BY Zenon DEF Free
  <2>5. e \in Session
    BY <1>0, <2>2, Zenon DEF TypeInv, TypeOK
  <2>. HIDE DEF e
  <2>6. Sound(e)
    BY <2>3, <2>4, SoundFound, Zenon
  <2>7. ~Approving(e) /\ ~Creating(e)
    BY <2>4, Zenon DEF Approving, Creating
  <2>. QED
    BY <2>2, <2>5, <2>6, <2>7, QuietStep, Zenon
<1>2. ASSUME NEW r \in Runs, Approve(s, r) PROVE ApprovalInv'
  <2>. DEFINE e == [Free EXCEPT !.op = "approve", !.pc = "commit", !.r = r, !.locks = {r}]
  <2>1. ses' = [ses EXCEPT ![s] = e] /\ UNCHANGED <<run, job>>
    BY <1>2, Zenon DEF Approve
  <2>2. /\ e.op = "approve" /\ e.pc = "commit" /\ e.r = r /\ e.locks = {r}
        /\ e.w = NoJobs /\ e.v = NoRuns
    BY Zenon DEF Free
  <2>. HIDE DEF e
  <2>3. Sound(e)
    <3>1. None \notin {"create", "block", "reject"}
      BY ConstantsAssumption, Zenon DEF Verdicts
    <3>2. SoundVerdicts(e)
      BY <2>2, <3>1, Zenon DEF SoundVerdicts, NoRuns
    <3>3. SoundWrites(e)
      BY <2>2, Zenon DEF SoundWrites, NoJobs
    <3>. QED
      BY <2>2, <3>2, <3>3, Zenon DEF Sound, SoundReport
  <2>4. \A t \in Sessions : ses'[t] = IF t = s THEN e ELSE ses[t]
    BY <2>1, Zenon DEF TypeInv, TypeOK
  <2>5. \A t \in Sessions \ {s} : Approving(ses[t]) => ses[t].r # r
    BY <1>2, Zenon DEF Approve, RunLocked, InTx, ApprovalInv, ApprovesAlone, Approving, InFlight
  <2>6. ApprovesAlone'
    <3>. SUFFICES ASSUME NEW t \in Sessions, Approving(ses'[t])
                  PROVE  /\ run[ses'[t].r].request = "pending"
                         /\ ses'[t].r \in ses'[t].locks
                         /\ \A u \in Sessions \ {t} : Approving(ses'[u]) => ses'[u].r # ses'[t].r
      BY <2>1, Zenon DEF ApprovesAlone, Approving, InFlight
    <3>1. CASE t = s
      BY <1>2, <2>2, <2>4, <2>5, <3>1 DEF Approve
    <3>2. CASE t # s
      <4>1. ses'[t] = ses[t] /\ Approving(ses[t]) /\ ses[t].r # r
        BY <2>4, <2>5, <3>2, Zenon
      <4>2. /\ run[ses[t].r].request = "pending"
            /\ ses[t].r \in ses[t].locks
            /\ \A u \in Sessions \ {t} : Approving(ses[u]) => ses[u].r # ses[t].r
        BY <4>1, Zenon DEF ApprovalInv, ApprovesAlone
      <4>. QED
        BY <2>2, <2>4, <4>1, <4>2, Zenon
    <3>. QED
      BY <3>1, <3>2, Zenon
  <2>7. CreatedOnce'
    <3>1. ~Creating(e)
      BY <2>2, Zenon DEF Creating
    <3>2. CreatedOnce
      BY Zenon DEF ApprovalInv
    <3>. QED
      BY <2>1, <2>4, <3>1, <3>2, SMTT(40) DEF CreatedOnce, Present, Creating
  <2>8. \A t \in Sessions : Sound(ses'[t])
    BY <2>3, <2>4, Zenon DEF ApprovalInv
  <2>9. \A t \in Sessions : Sound(ses[t])'
    BY <2>1, <2>8, SoundStays, Zenon
  <2>10. RowsHaveRun' /\ ApprovalSettled' /\ NeverRunsUnapproved'
    BY <2>1, Zenon DEF ApprovalInv, RowsHaveRun, ApprovalSettled, NeverRunsUnapproved, Present
  <2>. QED
    BY <2>6, <2>7, <2>9, <2>10, Zenon DEF ApprovalInv
<1>3. ASSUME NEW r \in Runs, Reject(s, r) PROVE ApprovalInv'
  <2>. DEFINE w == RejectWrites(r)
              v == [NoRuns EXCEPT ![r] = "reject"]
              e == [Free EXCEPT !.op = "reject", !.pc = "commit", !.r = r, !.w = w, !.v = v]
  <2>1. ses' = [ses EXCEPT ![s] = e] /\ UNCHANGED <<run, job>>
    BY <1>3, Zenon DEF Reject
  <2>2. w \in [Jobs -> JobRow \cup {None}] /\ FromRows(w)
    BY WritesType, FoundRows, Zenon DEF TypeInv, TypeOK
  <2>3. \A x \in Runs : v[x] = IF x = r THEN "reject" ELSE None
    BY Zenon DEF NoRuns
  <2>. HIDE DEF w, v
  <2>4. e.op = "reject" /\ e.pc = "commit" /\ e.r = r /\ e.w = w /\ e.v = v
    BY Zenon DEF Free
  <2>5. e \in Session
    BY <1>0, <2>1, Zenon DEF TypeInv, TypeOK
  <2>. HIDE DEF e
  <2>6. run[r].request = "pending" /\ Present(r)
    <3>1. run[r].request = "pending"
      BY <1>3, Zenon DEF Reject
    <3>. QED
      BY <3>1 DEF ApprovalInv, RowsHaveRun
  <2>7. SoundVerdicts(e)
    <3>1. None \notin {"create", "block", "reject"}
      BY ConstantsAssumption, Zenon DEF Verdicts
    <3>. QED
      BY <2>3, <2>4, <2>6, <3>1, Zenon DEF SoundVerdicts
  <2>8. SoundWrites(e)
    BY <2>2, <2>4, FoundSound, Zenon DEF SoundWrites
  <2>9. Sound(e) /\ ~Approving(e) /\ ~Creating(e)
    BY <2>4, <2>7, <2>8, Zenon DEF Sound, SoundReport, Approving, Creating
  <2>. QED
    BY <2>1, <2>5, <2>9, QuietStep, Zenon
<1>4. ASSUME ApproveCommit(s) PROVE ApprovalInv'
  <2>. DEFINE r == ses[s].r
  <2>0. r \in Runs /\ Approving(ses[s])
    BY <1>0, <1>4, Zenon DEF ApproveCommit, ArgsOf, Approving, InFlight
  <2>1. run[r].request = "pending"
    BY <2>0, Zenon DEF ApprovalInv, ApprovesAlone
  <2>2. /\ run'[r].st = run[r].st /\ run'[r].approved = "yes" /\ run'[r].request = "approved"
        /\ \A x \in Runs : x # r => run'[x] = run[x]
    BY <1>4, <2>0, <2>1, SMTT(40) DEF ApproveCommit, TypeInv, TypeOK, RunRow
  <2>3. job' = job /\ ses' = [ses EXCEPT ![s] = Free]
    BY <1>4, Zenon DEF ApproveCommit, End
  <2>4. \A t \in Sessions : ses'[t] = IF t = s THEN Free ELSE ses[t]
    BY <2>3, Zenon DEF TypeInv, TypeOK
  <2>5. ~Approving(Free) /\ ~Creating(Free) /\ Free.pc = "free"
    BY Zenon DEF Approving, InFlight, Creating, Free
  <2>6. \A x \in Runs : /\ run'[x].st = run[x].st
                        /\ Dispatchable(run[x]) => Dispatchable(run'[x])
                        /\ run[x].request # "none" => run'[x].request # "none"
    BY <2>1, <2>2, Zenon DEF Dispatchable
  <2>7. ApprovesAlone'
    <3>. SUFFICES ASSUME NEW t \in Sessions, Approving(ses'[t])
                  PROVE  /\ run'[ses'[t].r].request = "pending"
                         /\ ses'[t].r \in ses'[t].locks
                         /\ \A u \in Sessions \ {t} : Approving(ses'[u]) => ses'[u].r # ses'[t].r
      BY Zenon DEF ApprovesAlone, Approving, InFlight
    <3>1. t # s /\ ses'[t] = ses[t] /\ Approving(ses[t])
      BY <2>4, <2>5
    <3>2. ses[t].r # r /\ run[ses[t].r].request = "pending" /\ ses[t].r \in ses[t].locks
      BY <2>0, <3>1, Zenon DEF ApprovalInv, ApprovesAlone
    <3>3. ses[t].r \in Runs
      BY <3>1, Zenon DEF TypeInv, Args, ArgsOf, Approving
    <3>4. \A u \in Sessions \ {t} : Approving(ses'[u]) => ses'[u].r # ses[t].r
      BY <2>4, <2>5, <3>1, Zenon DEF ApprovalInv, ApprovesAlone
    <3>. QED
      BY <2>2, <3>1, <3>2, <3>3, <3>4, Zenon
  <2>8. CreatedOnce'
    <3>. SUFFICES ASSUME NEW t \in Sessions, Creating(ses'[t])
                  PROVE  /\ run'[ses'[t].r].st = "absent"
                         /\ \A u \in Sessions \ {t} : Creating(ses'[u]) => ses'[u].r # ses'[t].r
      BY Zenon DEF CreatedOnce, Present, Creating
    <3>1. t # s /\ ses'[t] = ses[t] /\ Creating(ses[t])
      BY <2>4, <2>5, Zenon
    <3>2. ses[t].r \in Runs
      BY <3>1, Zenon DEF TypeInv, Args, ArgsOf, Creating
    <3>3. run[ses[t].r].st = "absent"
      BY <3>1, Zenon DEF ApprovalInv, CreatedOnce, Present
    <3>4. \A u \in Sessions \ {t} : Creating(ses'[u]) => ses'[u].r # ses[t].r
      BY <2>4, <2>5, <3>1, Zenon DEF ApprovalInv, CreatedOnce
    <3>. QED
      BY <2>6, <3>1, <3>2, <3>3, <3>4, Zenon
  <2>9. \A t \in Sessions : Sound(ses[t])'
    <3>. SUFFICES ASSUME NEW t \in Sessions, t # s PROVE Sound(ses[t])'
      BY <2>4, <2>5, Zenon DEF Sound, InFlight, SoundReport
    <3>1. Sound(ses[t]) /\ ses'[t] = ses[t]
      BY <2>4, Zenon DEF ApprovalInv
    <3>2. InFlight(ses[t]) => SoundVerdicts(ses[t])'
      BY <2>6, <3>1, SMTT(20) DEF Sound, SoundVerdicts, Present
    <3>3. InFlight(ses[t]) => SoundWrites(ses[t])'
      BY <2>6, <3>1, ConstantsAssumption, Zenon DEF Sound, SoundWrites, Present
    <3>4. SoundReport(ses[t])'
      <4>1. ses[t].op = "status" => RunOf[ses[t].j] \in Runs
        BY ConstantsAssumption, Zenon DEF TypeInv, Args, ArgsOf
      <4>. QED
        BY <2>6, <3>1, <4>1, Zenon DEF Sound, SoundReport, Present
    <3>. QED
      BY <3>1, <3>2, <3>3, <3>4, Zenon DEF Sound, InFlight
  <2>10. RowsHaveRun' /\ ApprovalSettled' /\ NeverRunsUnapproved'
    <3>1. RowsHaveRun'
      <4>1. \A x \in Runs : Present(x) => Present(x)'
        BY <2>6, Zenon DEF Present
      <4>2. RowsHaveRun
        BY Zenon DEF ApprovalInv
      <4>3. \A x \in Runs : run'[x].request # "none" => run[x].request # "none"
        BY <2>1, <2>2, Zenon
      <4>. QED
        BY <2>3, <4>1, <4>2, <4>3, ConstantsAssumption, Zenon DEF RowsHaveRun
    <3>2. ApprovalSettled'
      BY <2>2, SMTT(20) DEF ApprovalInv, ApprovalSettled
    <3>3. NeverRunsUnapproved'
      BY <2>3, <2>6, ConstantsAssumption DEF ApprovalInv, NeverRunsUnapproved
    <3>. QED
      BY <3>1, <3>2, <3>3
  <2>. QED
    BY <2>7, <2>8, <2>9, <2>10, Zenon DEF ApprovalInv
<1>5. ASSUME NEW n \in Runners, RecoverStaleJobs(s, n) PROVE ApprovalInv'
  <2>0. PICK active : ses' = [ses EXCEPT ![s] = [Free EXCEPT !.op = "recover", !.pc = "commit", !.n = n,
                                                   !.w = ReconcileWrites(n, active),
                                                   !.v = RollupAfterCancel(ReconcileWrites(n, active))]]
    BY <1>5, Zenon DEF RecoverStaleJobs
  <2>. DEFINE w == ReconcileWrites(n, active)
              e == [Free EXCEPT !.op = "recover", !.pc = "commit", !.n = n, !.w = w,
                                !.v = RollupAfterCancel(w)]
  <2>1. ses' = [ses EXCEPT ![s] = e] /\ UNCHANGED <<run, job>>
    BY <1>5, <2>0, Zenon DEF RecoverStaleJobs
  <2>2. w \in [Jobs -> JobRow \cup {None}] /\ FromRows(w)
    BY WritesType, FoundRows, Zenon DEF TypeInv, TypeOK
  <2>. HIDE DEF w
  <2>3. e.op = "recover" /\ e.pc = "commit" /\ e.w = w /\ e.v = RollupAfterCancel(w)
    BY Zenon DEF Free
  <2>4. e \in Session
    BY <1>0, <2>1, Zenon DEF TypeInv, TypeOK
  <2>. HIDE DEF e
  <2>5. Sound(e)
    BY <2>2, <2>3, SoundFound, Zenon
  <2>6. ~Approving(e) /\ ~Creating(e)
    BY <2>3, Zenon DEF Approving, Creating
  <2>. QED
    BY <2>1, <2>4, <2>5, <2>6, QuietStep, Zenon
<1>. QED
  BY <1>1, <1>2, <1>3, <1>4, <1>5, Zenon

\* Heartbeats and job reports.
LEMMA RunnerApprovals ==
  ASSUME TypeInv, ApprovalInv, TypeInv', NEW s \in Sessions
  PROVE  Reconcile(s) \/ Claim(s) \/ StatusRead(s) \/ StatusUpdate(s) => ApprovalInv'
<1>0. ses[s] \in Session /\ ses'[s] \in Session /\ ArgsOf(ses[s]) /\ Sound(ses[s])
  BY Zenon DEF TypeInv, TypeOK, Args, ApprovalInv
<1>9. None \notin {"create", "block", "reject"}
  BY ConstantsAssumption DEF Verdicts
<1>1. ASSUME Reconcile(s) PROVE ApprovalInv'
  <2>. DEFINE w == ReconcileWrites(ses[s].n, {})
              e == [ses[s] EXCEPT !.op = "claim"]
              f == [ses[s] EXCEPT !.pc = "commit", !.w = w, !.v = RollupAfterCancel(w)]
  <2>1. UNCHANGED <<run, job>> /\ (ses' = [ses EXCEPT ![s] = e] \/ ses' = [ses EXCEPT ![s] = f])
    BY <1>1, Zenon DEF Reconcile, TypeInv, TypeOK
  <2>2. w \in [Jobs -> JobRow \cup {None}] /\ FromRows(w)
    BY WritesType, FoundRows, Zenon DEF TypeInv, TypeOK
  <2>. HIDE DEF w
  <2>3. e.op = "claim" /\ e.pc = "begin"
    BY <1>0, <1>1, Zenon DEF Reconcile, Session
  <2>4. f.op = "reconcile" /\ f.pc = "commit" /\ f.w = w /\ f.v = RollupAfterCancel(w)
    BY <1>0, <1>1, Zenon DEF Reconcile, Session
  <2>. HIDE DEF e, f
  <2>5. ASSUME ses' = [ses EXCEPT ![s] = e] PROVE ApprovalInv'
    <3>1. e \in Session
      BY <1>0, <2>5, Zenon DEF TypeInv, TypeOK
    <3>2. Sound(e) /\ ~Approving(e)
      BY <2>3, SoundOutside, SMTT(40)
    <3>3. ~Creating(e)
      BY <2>3, Zenon DEF Creating
    <3>. QED
      BY <2>1, <2>5, <3>1, <3>2, <3>3, QuietStep, Zenon
  <2>6. ASSUME ses' = [ses EXCEPT ![s] = f] PROVE ApprovalInv'
    <3>1. f \in Session
      BY <1>0, <2>6 DEF TypeInv, TypeOK
    <3>2. Sound(f)
      BY <2>2, <2>4, SoundFound, Zenon
    <3>3. ~Approving(f) /\ ~Creating(f)
      BY <2>4, Zenon DEF Approving, Creating
    <3>. QED
      BY <2>1, <2>6, <3>1, <3>2, <3>3, QuietStep, Zenon
  <2>. QED
    BY <2>1, <2>5, <2>6, Zenon
<1>2. ASSUME Claim(s) PROVE ApprovalInv'
  <2>1. PICK j \in Candidates(s) :
          ses' = [ses EXCEPT ![s].pc = "commit", ![s].j = j,
                    ![s].w = [NoJobs EXCEPT ![j] = [job[j] EXCEPT !.st = "running",
                                                                  !.runner = ses[s].n]],
                    ![s].v = [NoRuns EXCEPT ![RunOf[j]] = "start"]]
    BY <1>2, Zenon DEF Claim
  <2>. DEFINE r == RunOf[j]
              w == [NoJobs EXCEPT ![j] = [job[j] EXCEPT !.st = "running", !.runner = ses[s].n]]
              v == [NoRuns EXCEPT ![r] = "start"]
              e == [ses[s] EXCEPT !.pc = "commit", !.j = j, !.w = w, !.v = v]
  <2>2. j \in Jobs /\ r \in Runs /\ Claimable(j)
    BY ConstantsAssumption, Zenon DEF Candidates
  <2>3. Present(r) /\ Dispatchable(run[r])
    BY <2>2, Zenon DEF Claimable, Present
  <2>4. ses' = [ses EXCEPT ![s] = e] /\ UNCHANGED <<run, job>>
    BY <1>2, <2>1, Zenon DEF Claim, TypeInv, TypeOK
  <2>5. \A i \in Jobs : i # j => w[i] = None
    BY Zenon DEF NoJobs
  <2>6. \A x \in Runs : v[x] = IF x = r THEN "start" ELSE None
    BY <2>2, Zenon DEF NoRuns
  <2>. HIDE DEF w, v
  <2>7. e.op = "claim" /\ e.pc = "commit" /\ e.w = w /\ e.v = v
    BY <1>0, <1>2, Zenon DEF Claim, Session
  <2>8. e \in Session
    BY <1>0, <2>4, Zenon DEF TypeInv, TypeOK
  <2>. HIDE DEF e
  <2>9. SoundVerdicts(e)
    BY <1>9, <2>3, <2>6, <2>7, Zenon DEF SoundVerdicts
  <2>10. SoundWrites(e)
    BY <2>3, <2>5, <2>7, Zenon DEF SoundWrites
  <2>11. Sound(e) /\ ~Approving(e) /\ ~Creating(e)
    BY <2>7, <2>9, <2>10 DEF Sound, SoundReport, Approving, Creating
  <2>. QED
    BY <2>4, <2>8, <2>11, QuietStep, Zenon
<1>3. ASSUME StatusRead(s) PROVE ApprovalInv'
  <2>. DEFINE e == [ses[s] EXCEPT !.pc = "update"]
  <2>1. \/ ses' = [ses EXCEPT ![s] = e] /\ job[ses[s].j].runner = ses[s].n
        \/ End(s)
    BY <1>3, Zenon DEF StatusRead, TypeInv, TypeOK
  <2>2. UNCHANGED <<run, job>>
    BY <1>3, Zenon DEF StatusRead
  <2>3. e.op = "status" /\ e.pc = "update" /\ e.j = ses[s].j
    BY <1>0, <1>3, Zenon DEF StatusRead, Session
  <2>. HIDE DEF e
  <2>4. ASSUME ses' = [ses EXCEPT ![s] = e], job[ses[s].j].runner = ses[s].n PROVE ApprovalInv'
    <3>1. e \in Session
      BY <1>0, <2>4, Zenon DEF TypeInv, TypeOK
    <3>2. ses[s].j \in Jobs /\ ses[s].n \in Runners
      BY <1>0, <1>3, Zenon DEF StatusRead, ArgsOf
    <3>3. Present(RunOf[ses[s].j])
      <4>1. job[ses[s].j].runner # None
        BY <2>4, <3>2, ConstantsAssumption, Zenon
      <4>. QED
        BY <3>2, <4>1, Zenon DEF ApprovalInv, RowsHaveRun
    <3>4. Sound(e) /\ ~Approving(e) /\ ~Creating(e)
      BY <2>3, <3>3, Zenon DEF Sound, SoundReport, InFlight, Approving, Creating
    <3>. QED
      BY <2>2, <2>4, <3>1, <3>4, QuietStep, Zenon
  <2>. QED
    BY <2>1, <2>2, <2>4, QuietEnd, Zenon
<1>4. ASSUME StatusUpdate(s) PROVE ApprovalInv'
  <2>. DEFINE j == ses[s].j
              r == RunOf[j]
              row == Reported(job[j], ses[s].to)
              w == [NoJobs EXCEPT ![j] = row]
              c == Rollup(r, Seen(w), "start")
              v == [NoRuns EXCEPT ![r] = c]
              e == [ses[s] EXCEPT !.pc = "commit", !.w = w, !.v = v]
  <2>1. j \in Jobs /\ r \in Runs
    BY <1>0, <1>4, ConstantsAssumption, Zenon DEF StatusUpdate, ArgsOf
  <2>2. ses' = [ses EXCEPT ![s] = e] /\ UNCHANGED <<run, job>>
    BY <1>4, Zenon DEF StatusUpdate, TypeInv, TypeOK
  <2>3. Present(r)
    BY <1>0, <1>4, Zenon DEF StatusUpdate, Sound, SoundReport
  <2>4. row.runner = job[j].runner
    BY <2>1, SMTT(40) DEF Reported, TypeInv, TypeOK, JobRow
  <2>5. e.op = "status" /\ e.pc = "commit" /\ e.w = w /\ e.v = v
    BY <1>0, <1>4, Zenon DEF StatusUpdate, Session
  <2>6. e \in Session
    BY <1>0, <2>2, Zenon DEF TypeInv, TypeOK
  <2>. HIDE DEF row, c
  <2>7. w[j] = row /\ \A i \in Jobs : i # j => w[i] = None
    BY <2>1, Zenon DEF NoJobs
  <2>8. w \in [Jobs -> JobRow \cup {None}]
    BY <2>5, <2>6, Zenon DEF Session
  <2>9. c \notin {"create", "block", "reject"}
    <3>. HIDE DEF w
    <3>1. Seen(w) \in [Jobs -> JobRow]
      BY <2>8, SeenType, Zenon DEF TypeInv, TypeOK
    <3>. QED
      BY <2>1, <3>1, RollupType, Zenon DEF c
  <2>10. \A x \in Runs : v[x] = IF x = r THEN c ELSE None
    BY <2>1, Zenon DEF NoRuns
  <2>. HIDE DEF w, v, e
  <2>11. SoundVerdicts(e)
    BY <1>9, <2>3, <2>5, <2>9, <2>10, Zenon DEF SoundVerdicts
  <2>12. SoundWrites(e)
    BY <2>1, <2>3, <2>4, <2>5, <2>7, Zenon DEF SoundWrites, ApprovalInv, NeverRunsUnapproved
  <2>13. Sound(e) /\ ~Approving(e) /\ ~Creating(e)
    BY <2>5, <2>11, <2>12, Zenon DEF Sound, SoundReport, Approving, Creating
  <2>. QED
    BY <2>2, <2>6, <2>13, QuietStep, Zenon
<1>. QED
  BY <1>1, <1>2, <1>3, <1>4, Zenon

\* What a commit does to the runs: one that exists stays, keeps its approval
\* and stays dispatchable; one that does not exist is created by its trigger.
LEMMA CommittedRuns ==
  ASSUME TypeInv, ApprovalInv, NEW s \in Sessions, Commit(s), NEW r \in Runs
  PROVE  /\ Present(r) => Present(r)'
         /\ Present(r) /\ Dispatchable(run[r]) => Dispatchable(run'[r])
         /\ run[r].request # "none" => run'[r].request # "none"
         /\ run'[r].request # "none" => Present(r)'
         /\ ses[s].v[r] \in {"create", "block"} => Creating(ses[s]) /\ r = ses[s].r /\ Present(r)'
         /\ ses[s].v[r] \notin {"create", "block"} => (Present(r)' => Present(r))
         /\ run'[r].approved = "yes" <=> run'[r].request = "approved"
<1>. DEFINE c == ses[s].v[r]
<1>0. /\ ses[s] \in Session /\ InFlight(ses[s]) /\ ses[s].pc = "commit"
      /\ SoundVerdicts(ses[s]) /\ c \in Verdicts \cup {None}
      /\ run[r] \in RunRow
  BY DEF TypeInv, TypeOK, ApprovalInv, Sound, Commit, InFlight, Session
<1>1. /\ run[r].approved = "yes" <=> run[r].request = "approved"
      /\ run[r].request # "none" => Present(r)
  BY Zenon DEF ApprovalInv, ApprovalSettled, RowsHaveRun
<1>2. None \notin {"create", "block", "reject"}
  BY ConstantsAssumption, Zenon DEF Verdicts
<1>3. run'[r] = IF c = None THEN run[r] ELSE Applied(r, c)
  BY Zenon DEF Commit
<1>4. CASE c = None
  BY <1>1, <1>2, <1>3, <1>4, ZenonT(30) DEF Present
<1>5. CASE c \in {"create", "block"}
  <2>1. ses[s].op = "enqueue" /\ ses[s].r = r /\ Creating(ses[s])
    BY <1>0, <1>5, ZenonT(30) DEF SoundVerdicts, Creating
  <2>2. ~Present(r)
    BY <2>1, Zenon DEF ApprovalInv, CreatedOnce
  <2>3. /\ run'[r].st \in {"queued", "completed"} /\ run'[r].approved = "no"
        /\ run'[r].request \in {"none", "pending"}
    <3>1. run'[r] = Applied(r, c)
      BY <1>2, <1>3, <1>5, Zenon
    <3>2. Applied(r, c) \in {Created(r), Completed(AbsentRun, "action_required")}
      BY <1>5, Zenon DEF Applied, Conclusions, Failures
    <3>3. CASE run'[r] = Created(r)
      BY <3>3, SMTT(40) DEF Created
    <3>4. CASE run'[r] = Completed(AbsentRun, "action_required")
      BY <3>4, Zenon DEF Completed, AbsentRun
    <3>. QED
      BY <3>1, <3>2, <3>3, <3>4, Zenon
  <2>. QED
    BY <1>1, <1>5, <2>1, <2>2, <2>3, Zenon DEF Present
<1>6. CASE c = "reject"
  <2>1. /\ ses[s].op = "reject" /\ ses[s].r = r
        /\ run[r].request # "none" /\ Present(r)
    BY <1>0, <1>1, <1>6, Zenon DEF SoundVerdicts
  <2>2. Rejectable(run[r])
    BY <2>1, Zenon DEF Commit
  <2>3. /\ run'[r].st = "completed" /\ run'[r].approved = run[r].approved
        /\ run'[r].request = "rejected"
    <3>1. run'[r] = Applied(r, c)
      BY <1>2, <1>3, <1>6, Zenon
    <3>2. Applied(r, c) = [Completed(run[r], "action_required") EXCEPT !.request = "rejected"]
      BY <1>6, Zenon DEF Applied, Conclusions, Failures
    <3>. HIDE DEF c
    <3>. QED
      BY <1>0, <3>1, <3>2 DEF Completed, RunRow
  <2>. QED
    BY <1>6, <2>1, <2>2, <2>3, Zenon DEF Present, Rejectable, Dispatchable
<1>7. CASE c \in {"start", "mark"} \cup Conclusions /\ c # None
  <2>1. Present(r)
    BY <1>0, <1>2, <1>7, Zenon DEF SoundVerdicts, Conclusions, Failures
  <2>2. Applied(r, c) \in {Started(run[r]), Marked(run[r]), Completed(run[r], c)}
    BY <1>7, Zenon DEF Applied, Conclusions, Failures
  <2>3. /\ run'[r].st \in {run[r].st, "running", "completed"}
        /\ run'[r].approved = run[r].approved /\ run'[r].request = run[r].request
    BY <1>0, <1>3, <1>7, <2>2, ZenonT(40) DEF Started, Marked, Completed, RunRow
  <2>. QED
    BY <1>1, <1>7, <2>1, <2>3, Zenon DEF Present, Dispatchable, Conclusions, Failures
<1>. QED
  BY <1>0, <1>4, <1>5, <1>6, <1>7, Zenon DEF Verdicts

\* Commits.
LEMMA CommitApprovals ==
  ASSUME TypeInv, ApprovalInv, NEW s \in Sessions, Commit(s)
  PROVE  ApprovalInv'
<1>0. ses[s] \in Session /\ ses[s].pc = "commit" /\ ses[s].op # "approve" /\ Sound(ses[s])
  BY Zenon DEF TypeInv, TypeOK, ApprovalInv, Commit
<1>1. PICK e : /\ ses' = [ses EXCEPT ![s] = e]
               /\ e.pc \in {"free", "sync"}
  <2>1. CASE ses[s].op = "claim"
    <3>1. ses' = [ses EXCEPT ![s] = Free] /\ Free.pc = "free"
      BY <2>1, Zenon DEF Commit, End, Free
    <3>. QED
      BY <3>1, Zenon
  <2>2. CASE ses[s].op # "claim"
    <3>. DEFINE e == [ses[s] EXCEPT !.pc = "sync", !.v = NoRuns, !.locks = {}]
    <3>1. ses' = [ses EXCEPT ![s] = e]
      BY <2>2, Zenon DEF Commit, TypeInv, TypeOK
    <3>2. e.pc = "sync"
      BY <1>0, Zenon DEF Session
    <3>. HIDE DEF e
    <3>. QED
      BY <3>1, <3>2, Zenon
  <2>. QED
    BY <2>1, <2>2, Zenon
<1>2. \A t \in Sessions : ses'[t] = IF t = s THEN e ELSE ses[t]
  BY <1>1, Zenon DEF TypeInv, TypeOK
<1>3. ~Approving(e) /\ ~Creating(e) /\ ~InFlight(e) /\ e.pc # "update"
  BY <1>1, Zenon DEF Approving, Creating, InFlight
<1>4. \A j \in Jobs : job'[j] = IF ses[s].w[j] = None THEN job[j] ELSE ses[s].w[j]
  BY Zenon DEF Commit, Seen
<1>5. ApprovesAlone'
  <2>. SUFFICES ASSUME NEW t \in Sessions, Approving(ses'[t])
                PROVE  /\ run'[ses'[t].r].request = "pending"
                       /\ ses'[t].r \in ses'[t].locks
                       /\ \A u \in Sessions \ {t} : Approving(ses'[u]) => ses'[u].r # ses'[t].r
    BY Zenon DEF ApprovesAlone, Approving, InFlight
  <2>1. t # s /\ ses'[t] = ses[t] /\ Approving(ses[t])
    BY <1>2, <1>3, Zenon
  <2>2. /\ ses[t].r \in Runs /\ run[ses[t].r].request = "pending" /\ ses[t].r \in ses[t].locks
        /\ \A u \in Sessions \ {t} : Approving(ses[u]) => ses[u].r # ses[t].r
    BY <2>1, Zenon DEF ApprovalInv, ApprovesAlone, TypeInv, Args, ArgsOf, Approving
  <2>3. RunLocked(s, ses[t].r)
    BY <2>1, <2>2, Zenon DEF RunLocked, InTx, Approving, InFlight
  <2>4. run'[ses[t].r] = run[ses[t].r]
    BY <2>2, <2>3, Zenon DEF Commit
  <2>. QED
    BY <1>2, <1>3, <2>1, <2>2, <2>4, Zenon
<1>6. CreatedOnce'
  <2>. SUFFICES ASSUME NEW t \in Sessions, Creating(ses'[t])
                PROVE  /\ run'[ses'[t].r].st = "absent"
                       /\ \A u \in Sessions \ {t} : Creating(ses'[u]) => ses'[u].r # ses'[t].r
    BY Zenon DEF CreatedOnce, Present, Creating
  <2>1. t # s /\ ses'[t] = ses[t] /\ Creating(ses[t])
    BY <1>2, <1>3, Zenon
  <2>2. /\ ses[t].r \in Runs /\ ~Present(ses[t].r)
        /\ \A u \in Sessions \ {t} : Creating(ses[u]) => ses[u].r # ses[t].r
    BY <2>1, Zenon DEF ApprovalInv, CreatedOnce, TypeInv, Args, ArgsOf, Creating
  <2>3. PICK r \in Runs : r = ses[t].r
    BY <2>2, Zenon
  <2>4. ses[s].v[r] \notin {"create", "block"}
    BY <2>1, <2>2, <2>3, CommittedRuns, Zenon
  <2>5. ~Present(r)'
    BY <2>2, <2>3, <2>4, CommittedRuns, Zenon
  <2>6. run'[ses[t].r].st = "absent"
    BY <2>3, <2>5, Zenon DEF Present
  <2>. QED
    BY <1>2, <1>3, <2>1, <2>2, <2>6, Zenon
<1>7. \A r \in Runs : /\ Present(r) => Present(r)'
                      /\ Present(r) /\ Dispatchable(run[r]) => Dispatchable(run'[r])
                      /\ run[r].request # "none" => run'[r].request # "none"
                      /\ run'[r].request # "none" => Present(r)'
                      /\ ses[s].v[r] \in {"create", "block"} => Present(r)'
                      /\ run'[r].approved = "yes" <=> run'[r].request = "approved"
  BY CommittedRuns, Zenon
<1>8. \A t \in Sessions : Sound(ses[t])'
  <2>. SUFFICES ASSUME NEW t \in Sessions, t # s PROVE Sound(ses[t])'
    BY <1>2, <1>3, Zenon DEF Sound, InFlight, SoundReport
  <2>1. Sound(ses[t]) /\ ses'[t] = ses[t]
    BY <1>2, Zenon DEF ApprovalInv
  <2>2. InFlight(ses[t]) => SoundVerdicts(ses[t])'
    BY <1>7, <2>1, Zenon DEF Sound, SoundVerdicts, Present
  <2>3. InFlight(ses[t]) => SoundWrites(ses[t])'
    BY <1>7, <2>1, ConstantsAssumption, Zenon DEF Sound, SoundWrites, Present
  <2>4. SoundReport(ses[t])'
    <3>1. ses[t].op = "status" => RunOf[ses[t].j] \in Runs
      BY ConstantsAssumption, Zenon DEF TypeInv, Args, ArgsOf
    <3>. QED
      BY <1>7, <2>1, <3>1, Zenon DEF Sound, SoundReport, Present
  <2>. QED
    BY <2>1, <2>2, <2>3, <2>4, Zenon DEF Sound, InFlight
<1>9. SoundWrites(ses[s])
  BY <1>0, Zenon DEF Sound, InFlight
<1>10. RowsHaveRun'
  <2>1. ASSUME NEW j \in Jobs, job'[j].st # "absent" \/ job'[j].runner # None
        PROVE  Present(RunOf[j])'
    <3>0. RunOf[j] \in Runs
      BY ConstantsAssumption, Zenon
    <3>1. CASE ses[s].w[j] = None
      BY <1>4, <1>7, <2>1, <3>0, <3>1, Zenon DEF ApprovalInv, RowsHaveRun
    <3>2. CASE ses[s].w[j] # None
      BY <1>7, <1>9, <3>0, <3>2, Zenon DEF SoundWrites
    <3>. QED
      BY <3>1, <3>2, Zenon
  <2>. QED
    BY <1>7, <2>1, Zenon DEF RowsHaveRun, Present
<1>11. NeverRunsUnapproved'
  <2>. SUFFICES ASSUME NEW j \in Jobs, job'[j].runner # None
                PROVE  Dispatchable(run'[RunOf[j]])
    BY Zenon DEF NeverRunsUnapproved
  <2>0. RunOf[j] \in Runs
    BY ConstantsAssumption, Zenon
  <2>1. CASE ses[s].w[j] = None
    BY <1>4, <1>7, <2>0, <2>1, Zenon DEF ApprovalInv, RowsHaveRun, NeverRunsUnapproved
  <2>2. CASE ses[s].w[j] # None
    BY <1>4, <1>7, <1>9, <2>0, <2>2, Zenon DEF SoundWrites
  <2>. QED
    BY <2>1, <2>2, Zenon
<1>12. ApprovalSettled'
  BY <1>7, Zenon DEF ApprovalSettled
<1>. QED
  BY <1>5, <1>6, <1>8, <1>10, <1>11, <1>12, Zenon DEF ApprovalInv

\* Check updates.
LEMMA SyncApprovals ==
  ASSUME TypeInv, ApprovalInv, TypeInv', NEW s \in Sessions
  PROVE  Sync(s) \/ SyncFails(s) \/ SyncDone(s) => ApprovalInv'
<1>0. ses[s] \in Session /\ ses'[s] \in Session
  BY Zenon DEF TypeInv, TypeOK
<1>1. ASSUME Sync(s) \/ SyncFails(s) PROVE ApprovalInv'
  <2>1. PICK j \in Jobs : ses' = [ses EXCEPT ![s].w[j] = None]
    BY <1>1, Zenon DEF Sync, SyncFails, Written
  <2>. DEFINE e == [ses[s] EXCEPT !.w = [ses[s].w EXCEPT ![j] = None]]
  <2>2. ses' = [ses EXCEPT ![s] = e]
    BY <2>1, Zenon DEF TypeInv, TypeOK
  <2>3. e.pc = "sync"
    BY <1>0, <1>1, Zenon DEF Sync, SyncFails, Session
  <2>. HIDE DEF e
  <2>4. e \in Session
    BY <1>0, <2>2, Zenon DEF TypeInv, TypeOK
  <2>5. Sound(e) /\ ~Approving(e)
    BY <2>3, SoundOutside, SMTT(40)
  <2>6. ~Creating(e) /\ UNCHANGED <<run, job>>
    BY <1>1, <2>3, Zenon DEF Sync, SyncFails, Creating
  <2>. QED
    BY <2>2, <2>4, <2>5, <2>6, QuietStep, Zenon
<1>2. ASSUME SyncDone(s) PROVE ApprovalInv'
  <2>. DEFINE e == [ses[s] EXCEPT !.op = "claim", !.pc = "begin"]
  <2>1. ses' = [ses EXCEPT ![s] = e] \/ End(s)
    BY <1>2, Zenon DEF SyncDone, TypeInv, TypeOK
  <2>2. e.op = "claim" /\ e.pc = "begin"
    BY <1>0, Zenon DEF Session
  <2>3. UNCHANGED <<run, job>>
    BY <1>2, Zenon DEF SyncDone
  <2>. HIDE DEF e
  <2>4. ASSUME ses' = [ses EXCEPT ![s] = e] PROVE ApprovalInv'
    <3>1. e \in Session
      BY <1>0, <2>4, Zenon DEF TypeInv, TypeOK
    <3>2. Sound(e) /\ ~Approving(e)
      BY <2>2, SoundOutside, SMTT(40)
    <3>3. ~Creating(e)
      BY <2>2, Zenon DEF Creating
    <3>. QED
      BY <2>3, <2>4, <3>1, <3>2, <3>3, QuietStep, Zenon
  <2>. QED
    BY <2>1, <2>3, <2>4, QuietEnd
<1>. QED
  BY <1>1, <1>2, Zenon

\* The runner processes' requests.
LEMMA AgentApprovals ==
  ASSUME TypeInv, ApprovalInv, TypeInv', NEW n \in Runners, NEW s \in Sessions
  PROVE  Heartbeat(n, s) \/ Report(n, s) \/ StepReport(n, s) => ApprovalInv'
<1>. SUFFICES ASSUME Heartbeat(n, s) \/ Report(n, s) \/ StepReport(n, s) PROVE ApprovalInv'
  BY Zenon
<1>1. PICK e : ses' = [ses EXCEPT ![s] = e] /\ e.pc = "begin"
                 /\ e.op \in {"reconcile", "status", "step"}
  <2>1. CASE Heartbeat(n, s)
    <3>. DEFINE e == [Free EXCEPT !.op = "reconcile", !.pc = "begin", !.n = n]
    <3>1. ses' = [ses EXCEPT ![s] = e] /\ e.pc = "begin" /\ e.op = "reconcile"
      BY <2>1, Zenon DEF Heartbeat, Free
    <3>. HIDE DEF e
    <3>. QED
      BY <3>1, Zenon
  <2>2. CASE Report(n, s)
    <3>1. PICK to : ses' = [ses EXCEPT ![s] = [Free EXCEPT !.op = "status", !.pc = "begin",
                                                  !.n = n, !.j = agent[n].job, !.to = to]]
      BY <2>2, Zenon DEF Report
    <3>. DEFINE e == [Free EXCEPT !.op = "status", !.pc = "begin", !.n = n,
                                  !.j = agent[n].job, !.to = to]
    <3>2. ses' = [ses EXCEPT ![s] = e] /\ e.pc = "begin" /\ e.op = "status"
      BY <3>1, Zenon DEF Free
    <3>. HIDE DEF e
    <3>. QED
      BY <3>2, Zenon
  <2>3. CASE StepReport(n, s)
    <3>1. PICK to : ses' = [ses EXCEPT ![s] = [Free EXCEPT !.op = "step", !.pc = "begin",
                                                  !.n = n, !.j = agent[n].job, !.to = to]]
      BY <2>3, Zenon DEF StepReport
    <3>. DEFINE e == [Free EXCEPT !.op = "step", !.pc = "begin", !.n = n,
                                  !.j = agent[n].job, !.to = to]
    <3>2. ses' = [ses EXCEPT ![s] = e] /\ e.pc = "begin" /\ e.op = "step"
      BY <3>1 DEF Free
    <3>. HIDE DEF e
    <3>. QED
      BY <3>2, Zenon
  <2>. QED
    BY <2>1, <2>2, <2>3, Zenon
<1>2. e \in Session
  BY <1>1, Zenon DEF TypeInv, TypeOK
<1>3. Sound(e) /\ ~Approving(e)
  BY <1>1, SoundOutside, SMTT(40)
<1>4. ~Creating(e) /\ UNCHANGED <<run, job>>
  BY <1>1, Zenon DEF Creating, Heartbeat, Report, StepReport
<1>. QED
  BY <1>1, <1>2, <1>3, <1>4, QuietStep, Zenon

\* What a report about a step does is no concern of approvals.
LEMMA StepApprovals ==
  ASSUME TypeInv, ApprovalInv, TypeInv', NEW s \in Sessions
  PROVE  StepRead(s) \/ StepUpdate(s) => ApprovalInv'
<1>1. ASSUME StepUpdate(s) PROVE ApprovalInv'
  BY <1>1, QuietEnd, Zenon DEF StepUpdate
<1>2. ASSUME StepRead(s) PROVE ApprovalInv'
  <2>. DEFINE e == [ses[s] EXCEPT !.pc = "update"]
  <2>1. ses' = [ses EXCEPT ![s] = e] \/ End(s)
    BY <1>2, Zenon DEF StepRead, TypeInv, TypeOK
  <2>2. UNCHANGED <<run, job>>
    BY <1>2, Zenon DEF StepRead
  <2>3. ses[s] \in Session
    BY Zenon DEF TypeInv, TypeOK
  <2>4. e.op = "step" /\ e.pc = "update"
    BY <1>2, <2>3, Zenon DEF StepRead, Session
  <2>. HIDE DEF e
  <2>5. ASSUME ses' = [ses EXCEPT ![s] = e] PROVE ApprovalInv'
    <3>1. e \in Session
      BY <2>5 DEF TypeInv, TypeOK
    <3>2. Sound(e) /\ ~Approving(e) /\ ~Creating(e)
      BY <2>4, Zenon DEF Sound, SoundReport, InFlight, Approving, Creating
    <3>. QED
      BY <2>2, <2>5, <3>1, <3>2, QuietStep, Zenon
  <2>. QED
    BY <2>1, <2>2, <2>5, QuietEnd, Zenon
<1>. QED
  BY <1>1, <1>2, Zenon

\* The inductive invariant of the approvals.
LEMMA ApprovalInvHolds == Spec => []ApprovalInv
<1>1. Init => ApprovalInv
  <2>. SUFFICES ASSUME Init PROVE ApprovalInv
    BY Zenon
  <2>1. \A s \in Sessions : ses[s] = Free /\ ~Approving(Free) /\ ~Creating(Free) /\ Sound(Free)
    BY SoundOutside, Zenon DEF Init, Free, Approving, InFlight, Creating, Sound, SoundReport
  <2>2. \A r \in Runs : run[r].request = "none" /\ run[r].approved = "no"
    BY Zenon DEF Init, AbsentRun
  <2>3. \A j \in Jobs : job[j].st = "absent" /\ job[j].runner = None
    BY Zenon DEF Init, AbsentJob
  <2>. QED
    BY <2>1, <2>2, <2>3
    DEF ApprovalInv, ApprovesAlone, CreatedOnce, RowsHaveRun, ApprovalSettled, NeverRunsUnapproved
<1>2. TypeInv /\ TypeInv' /\ ApprovalInv /\ [Next]_vars => ApprovalInv'
  <2>. SUFFICES ASSUME TypeInv, TypeInv', ApprovalInv, [Next]_vars PROVE ApprovalInv'
    BY Zenon
  <2>1. ASSUME NEW s \in Sessions, SessionStep(s) PROVE ApprovalInv'
    <3>1. ASSUME EnqueueConflict(s) \/ RejectLost(s) \/ ClaimNothing(s) \/ DeadlockAbort(s)
          PROVE  ApprovalInv'
      BY <3>1, QuietEnd, Zenon DEF EnqueueConflict, RejectLost, ClaimNothing, DeadlockAbort, Rollback
    <3>. QED
      BY <2>1, <3>1, EnqueueApprovals, RequestApprovals, RunnerApprovals, CommitApprovals,
         SyncApprovals, StepApprovals, Zenon DEF SessionStep
  <2>2. ASSUME NEW n \in Runners, AgentStep(n) \/ \E s \in Sessions : StepReport(n, s)
        PROVE  ApprovalInv'
    BY <2>2, AgentApprovals, Zenon DEF AgentStep
  <2>3. ASSUME UNCHANGED <<run, job, ses>> PROVE ApprovalInv'
    <3>1. \A t \in Sessions : Sound(ses[t])'
      BY <2>3, SoundStays, Zenon DEF ApprovalInv
    <3>2. ApprovesAlone' /\ CreatedOnce'
      BY <2>3, Zenon DEF ApprovalInv, ApprovesAlone, CreatedOnce, Present, Approving, InFlight, Creating
    <3>3. RowsHaveRun' /\ ApprovalSettled' /\ NeverRunsUnapproved'
      BY <2>3, Zenon DEF ApprovalInv, RowsHaveRun, ApprovalSettled, NeverRunsUnapproved, Present
    <3>. QED
      BY <3>1, <3>2, <3>3, Zenon DEF ApprovalInv
  <2>4. ASSUME NEW n \in Runners, CancelCheck(n) \/ Administer(n) \/ RunnerLost(n)
        PROVE  ApprovalInv'
    BY <2>3, <2>4, Zenon DEF CancelCheck, Administer, RunnerLost
  <2>5. ASSUME UserStep PROVE ApprovalInv'
    BY <2>4, <2>5, EnqueueApprovals, RequestApprovals, Zenon DEF UserStep
  <2>6. ASSUME NEW s \in Sessions, HandlerLost(s) PROVE ApprovalInv'
    BY <2>6, QuietEnd, Zenon DEF HandlerLost, Rollback
  <2>7. ASSUME FaultStep PROVE ApprovalInv'
    BY <2>4, <2>6, <2>7, RequestApprovals, SyncApprovals, Zenon DEF FaultStep
  <2>8. CASE UNCHANGED vars
    BY <2>3, <2>8, Zenon DEF vars
  <2>. QED
    BY <2>1, <2>2, <2>4, <2>5, <2>7, <2>8, Zenon DEF Next
<1>. QED
  BY <1>1, <1>2, TypeInvHolds, PTL DEF Spec

\* However approvals, rejections, cancels, triggers, claims and faults
\* interleave, a run is approved exactly when its approval request says so
\* (ApproveWorkflowRun, RejectRun).
THEOREM ApprovalsAgree == Spec => []ApprovalSettled
<1>1. ApprovalInv => ApprovalSettled
  BY Zenon DEF ApprovalInv
<1>. QED
  BY <1>1, ApprovalInvHolds, PTL

\* No runner is ever given a job of a run that needs an approval and does not
\* have it (ClaimQueuedWorkflowJob), although the claim reads the run without
\* locking it and commits later.
THEOREM UnapprovedNeverRuns == Spec => []NeverRunsUnapproved
<1>1. ApprovalInv => NeverRunsUnapproved
  BY Zenon DEF ApprovalInv
<1>. QED
  BY <1>1, ApprovalInvHolds, PTL

=============================================================================
