------------------------------ MODULE JobQueue ------------------------------
(***************************************************************************)
(* The Postgres-backed job queue (table jobs) and the worker pool that     *)
(* drains it: internal/worker/{pool,enqueue,types}.go and                  *)
(* internal/worker/queries/jobs.sql.                                       *)
(*                                                                         *)
(* A row is leased, not owned: ClaimJob stamps locked_by and locked_at,    *)
(* and a row whose stamp is older than five minutes is claimable again.    *)
(* The three statements that end an attempt are keyed by the row's id      *)
(* alone, so nothing but the age of the lease keeps two workers apart.     *)
(*                                                                         *)
(* Time is relative.  due is run_at - now (claimable at 0 or below),       *)
(* lockAge is now - locked_at and elapsed is the time a worker has spent   *)
(* on its job since the claim.  Tick advances all of them; values past     *)
(* the last one that any guard tells apart are clamped.                    *)
(***************************************************************************)
EXTENDS Integers, FiniteSets

CONSTANTS
    Procs,          \* `shithubd worker` processes; locked_by is their InstanceID
    Slots,          \* the worker goroutines of one process (PoolConfig.Workers)
    Jobs,           \* row ids; an id is never used twice
    Kinds,          \* the kinds with a registered handler
    KindOf,         \* the kind column of each row
    MaxAttempts,    \* jobs.max_attempts
    StaleWindow,    \* the five minutes of ClaimJob, in ticks
    JobTimeout,     \* PoolConfig.JobTimeout, in ticks
    Overrun,        \* ticks a handler and its mark may take past JobTimeout
    BaseDelay,      \* Backoff's base and cap, in ticks
    MaxDelay,
    MaxOverdue,     \* clamp on how overdue a row is remembered to be
    MaxFaults,      \* how many crashes, shutdowns and database errors happen
    FaultKinds,     \* which of them happen
    NULL

Workers == Procs \X Slots

ASSUME ConstantsAssumption ==
    /\ IsFiniteSet(Slots)
    /\ NULL \notin Procs
    /\ NULL \notin Jobs
    /\ KindOf \in [Jobs -> Kinds]
    /\ MaxAttempts \in Nat \ {0}
    /\ StaleWindow \in Nat
    /\ JobTimeout \in Nat
    /\ Overrun \in Nat
    /\ BaseDelay \in Nat
    /\ MaxDelay \in Nat
    /\ MaxOverdue \in Nat
    /\ MaxFaults \in Nat
    /\ FaultKinds \subseteq {"crash", "shutdown", "dberror"}

VARIABLES
    row,        \* table jobs
    proc,       \* the processes: running, told to stop (ctx cancelled), gone
    wake,       \* tokens in each process's wake channel
    wk,         \* the worker goroutines
    faults,     \* faults so far
    lost        \* history: claims of each row whose attempt never reported back

vars == <<row, proc, wake, wk, faults, lost>>

-----------------------------------------------------------------------------
(* Rows *)

\* No jittered delay is longer than this.
MaxDue == 2 * MaxDelay

Row == [st        : {"none", "live", "purged"},
        attempts  : Nat,
        lockedBy  : Procs \cup {NULL},
        lockAge   : 0 .. StaleWindow + 1,
        due       : -MaxOverdue .. MaxDue,
        ended     : SUBSET {"completed", "failed"}]  \* completed_at, failed_at set

NoRow == [st |-> "none", attempts |-> 0, lockedBy |-> NULL, lockAge |-> 0,
          due |-> 0, ended |-> {}]

Finished(r) == r.ended # {}

\* Variants of Claimable: a lease that ends a tick early, no lease at all, a
\* lease that never ends, and finished rows taken for unfinished ones.
ClaimableEarly(r) ==
    /\ r.st = "live" /\ ~Finished(r) /\ r.due <= 0
    /\ r.lockedBy = NULL \/ r.lockAge >= StaleWindow

ClaimableNeverStale(r) ==
    r.st = "live" /\ ~Finished(r) /\ r.due <= 0 /\ r.lockedBy = NULL

ClaimableCompleted(r) ==
    /\ r.st = "live" /\ "failed" \notin r.ended /\ r.due <= 0
    /\ r.lockedBy = NULL \/ r.lockAge > StaleWindow

ClaimableFailed(r) ==
    /\ r.st = "live" /\ "completed" \notin r.ended /\ r.due <= 0
    /\ r.lockedBy = NULL \/ r.lockAge > StaleWindow

\* The WHERE clause of ClaimJob, the kind apart.
Claimable(r) ==
    /\ r.st = "live"
    /\ ~Finished(r)
    /\ r.due <= 0
    /\ r.lockedBy = NULL \/ r.lockAge > StaleWindow

\* ORDER BY run_at, id ... LIMIT 1.  Rows equally overdue, as far as MaxOverdue
\* remembers, are left in either order.
Oldest(k) ==
    {j \in Jobs :
        /\ KindOf[j] = k
        /\ Claimable(row[j])
        /\ \A i \in Jobs :
              KindOf[i] = k /\ Claimable(row[i]) => row[j].due <= row[i].due}

\* Backoff: base * 2^(attempts-1) capped at the maximum, times a factor in
\* [0.8, 1.2), to the whole ticks around it.
BackoffDelays(attempts) ==
    LET full == BaseDelay * 2^(attempts - 1)
        d    == IF full < MaxDelay THEN full ELSE MaxDelay
    IN  {t \in 0 .. MaxDue : 10 * t > 8 * d - 10 /\ 10 * t < 12 * d + 10}

ClaimedRow(r, p) ==
    [r EXCEPT !.lockedBy = p, !.lockAge = 0, !.attempts = @ + 1]

CompletedRow(r) ==
    [r EXCEPT !.ended = @ \cup {"completed"}, !.lockedBy = NULL, !.lockAge = 0]

FailedRow(r) ==
    [r EXCEPT !.ended = @ \cup {"failed"}, !.lockedBy = NULL, !.lockAge = 0]

RescheduledRow(r, delay) ==
    [r EXCEPT !.lockedBy = NULL, !.lockAge = 0, !.due = delay]

\* UPDATE ... WHERE id = j: nothing happens to a row that has been purged.
Update(j, r) == row' = IF row[j].st = "live" THEN [row EXCEPT ![j] = r] ELSE row

-----------------------------------------------------------------------------
(* Worker goroutines *)

Worker == [pc      : {"idle", "drain", "running", "marking", "stopped"},
           todo    : SUBSET Kinds,       \* kinds left in this pass
           ran     : SUBSET Kinds,       \* kinds that had a job in this pass
           job     : Jobs \cup {NULL},
           att     : Nat,                \* attempts in the claimed row
           elapsed : 0 .. JobTimeout + Overrun,
           out     : {"ok", "err", "poison"}]

Idle == [pc |-> "idle", todo |-> {}, ran |-> {}, job |-> NULL, att |-> 0,
         elapsed |-> 0, out |-> "ok"]

Draining(todo, ran) == [Idle EXCEPT !.pc = "drain", !.todo = todo, !.ran = ran]

Running(r, k, j) ==
    [r EXCEPT !.pc = "running", !.todo = @ \ {k}, !.ran = @ \cup {k},
              !.job = j, !.att = row[j].attempts + 1, !.elapsed = 0]

Stopped == [Idle EXCEPT !.pc = "stopped"]

\* After one kind: the next kind of the pass, another pass if this one ran a
\* job, or back to the select.
NextKind(todo, ran) ==
    IF todo # {} THEN Draining(todo, ran)
    ELSE IF ran # {} THEN Draining(Kinds, {})
    ELSE Idle

Executing(w) == wk[w].pc \in {"running", "marking"}

Holds(w, j) == Executing(w) /\ wk[w].job = j

Fault(kind) ==
    /\ kind \in FaultKinds
    /\ faults < MaxFaults
    /\ faults' = faults + 1

-----------------------------------------------------------------------------

Init ==
    /\ row = [j \in Jobs |-> NoRow]
    /\ proc = [p \in Procs |-> "up"]
    /\ wake = [p \in Procs |-> 0]
    /\ wk = [w \in Workers |-> Idle]
    /\ faults = 0
    /\ lost = [j \in Jobs |-> 0]

\* Enqueue: run_at is now, or a later time the caller asks for.
Enqueue(j, delay) ==
    /\ row[j].st = "none"
    /\ row' = [row EXCEPT ![j].st = "live", ![j].due = delay]
    /\ UNCHANGED <<proc, wake, wk, faults, lost>>

\* listenOnce receives a NOTIFY and fills the wake channel with non-blocking
\* sends.  A notification that is never delivered is this action not taken.
Wake(p) ==
    /\ proc[p] = "up"
    /\ wake' = [wake EXCEPT ![p] = Cardinality(Slots)]
    /\ UNCHANGED <<row, proc, wk, faults, lost>>

\* The select of workerLoop: a wake token, the ticker, or ctx.Done.
Receive(w) ==
    /\ wk[w].pc = "idle"
    /\ wake[w[1]] > 0
    /\ wake' = [wake EXCEPT ![w[1]] = @ - 1]
    /\ wk' = [wk EXCEPT ![w] = Draining(Kinds, {})]
    /\ UNCHANGED <<row, proc, faults, lost>>

Poll(w) ==
    /\ wk[w].pc = "idle"
    /\ wk' = [wk EXCEPT ![w] = Draining(Kinds, {})]
    /\ UNCHANGED <<row, proc, wake, faults, lost>>

Stop(w) ==
    /\ wk[w].pc = "idle"
    /\ proc[w[1]] = "stopping"
    /\ wk' = [wk EXCEPT ![w] = Stopped]
    /\ UNCHANGED <<row, proc, wake, faults, lost>>

-----------------------------------------------------------------------------
(* tryClaimAndRun and the claim of runOne *)

ClaimNone(w, k) ==
    /\ wk[w].pc = "drain"
    /\ proc[w[1]] = "up"
    /\ k \in wk[w].todo
    /\ Oldest(k) = {}
    /\ wk' = [wk EXCEPT ![w] = NextKind(@.todo \ {k}, @.ran)]
    /\ UNCHANGED <<row, proc, wake, faults, lost>>

Claim(w, k, j) ==
    /\ wk[w].pc = "drain"
    /\ proc[w[1]] = "up"
    /\ k \in wk[w].todo
    /\ j \in Oldest(k)
    /\ row' = [row EXCEPT ![j] = ClaimedRow(@, w[1])]
    /\ wk' = [wk EXCEPT ![w] = Running(@, k, j)]
    /\ UNCHANGED <<proc, wake, faults, lost>>

\* The UPDATE commits but its answer is lost with the connection.  The error
\* ends the drain loop and the row stays leased to nobody.  (A claim cut off by
\* a shutdown does to the row what Claim, Shutdown and MarkFails do.)
ClaimLost(w, k, j) ==
    /\ wk[w].pc = "drain"
    /\ proc[w[1]] = "up"
    /\ k \in wk[w].todo
    /\ j \in Oldest(k)
    /\ Fault("dberror")
    /\ row' = [row EXCEPT ![j] = ClaimedRow(@, w[1])]
    /\ lost' = [lost EXCEPT ![j] = @ + 1]
    /\ wk' = [wk EXCEPT ![w] = Idle]
    /\ UNCHANGED <<proc, wake>>

\* ctx.Err() at the top of a kind, or a ClaimJob that fails without effect.
ClaimError(w) ==
    /\ wk[w].pc = "drain"
    /\ \/ proc[w[1]] = "stopping" /\ UNCHANGED faults
       \/ proc[w[1]] = "up" /\ Fault("dberror")
    /\ wk' = [wk EXCEPT ![w] = Idle]
    /\ UNCHANGED <<row, proc, wake, lost>>

-----------------------------------------------------------------------------
(* safeRun and the marks of runOne.  The job's context is a child of the      *)
(* process's context, and the marks run on the process's context itself.      *)

HandlerReturns(w, out) ==
    /\ wk[w].pc = "running"
    /\ wk' = [wk EXCEPT ![w].pc = "marking", ![w].out = out]
    /\ UNCHANGED <<row, proc, wake, faults, lost>>

Marked(w) == wk' = [wk EXCEPT ![w] = NextKind(@.todo, @.ran)]

MarkJobCompleted(w) ==
    /\ wk[w].pc = "marking"
    /\ proc[w[1]] = "up"
    /\ wk[w].out = "ok"
    /\ Update(wk[w].job, CompletedRow(row[wk[w].job]))
    /\ Marked(w)
    /\ UNCHANGED <<proc, wake, faults, lost>>

MarkJobFailed(w) ==
    /\ wk[w].pc = "marking"
    /\ proc[w[1]] = "up"
    /\ wk[w].out = "poison" \/ (wk[w].out = "err" /\ wk[w].att >= MaxAttempts)
    /\ Update(wk[w].job, FailedRow(row[wk[w].job]))
    /\ Marked(w)
    /\ UNCHANGED <<proc, wake, faults, lost>>

\* Variant of RescheduleJob: one attempt too many.
RescheduleAtLimit(w, delay) ==
    /\ wk[w].pc = "marking"
    /\ proc[w[1]] = "up"
    /\ wk[w].out = "err"
    /\ wk[w].att <= MaxAttempts
    /\ delay \in BackoffDelays(wk[w].att)
    /\ Update(wk[w].job, RescheduledRow(row[wk[w].job], delay))
    /\ Marked(w)
    /\ UNCHANGED <<proc, wake, faults, lost>>

RescheduleJob(w, delay) ==
    /\ wk[w].pc = "marking"
    /\ proc[w[1]] = "up"
    /\ wk[w].out = "err"
    /\ wk[w].att < MaxAttempts
    /\ delay \in BackoffDelays(wk[w].att)
    /\ Update(wk[w].job, RescheduledRow(row[wk[w].job], delay))
    /\ Marked(w)
    /\ UNCHANGED <<proc, wake, faults, lost>>

\* The mark's error is logged or dropped and the worker goes on.  Once the
\* process's context is cancelled every mark fails this way.
MarkFails(w) ==
    /\ wk[w].pc = "marking"
    /\ \/ proc[w[1]] = "stopping" /\ UNCHANGED faults
       \/ proc[w[1]] = "up" /\ Fault("dberror")
    /\ lost' = [lost EXCEPT ![wk[w].job] = @ + 1]
    /\ Marked(w)
    /\ UNCHANGED <<row, proc, wake>>

-----------------------------------------------------------------------------
(* Processes, time and maintenance *)

\* SIGINT or SIGTERM cancels the root context.
Shutdown(p) ==
    /\ proc[p] = "up"
    /\ Fault("shutdown")
    /\ proc' = [proc EXCEPT ![p] = "stopping"]
    /\ UNCHANGED <<row, wake, wk, lost>>

Exit(p) ==
    /\ proc[p] = "stopping"
    /\ \A s \in Slots : wk[<<p, s>>].pc = "stopped"
    /\ proc' = [proc EXCEPT ![p] = "down"]
    /\ UNCHANGED <<row, wake, wk, faults, lost>>

Crash(p) ==
    /\ proc[p] # "down"
    /\ Fault("crash")
    /\ proc' = [proc EXCEPT ![p] = "down"]
    /\ lost' = [j \in Jobs |->
                  lost[j] + Cardinality({s \in Slots : Holds(<<p, s>>, j)})]
    /\ wk' = [w \in Workers |-> IF w[1] = p THEN Stopped ELSE wk[w]]
    /\ UNCHANGED <<row, wake>>

\* A new process: NewPool and Run, with an empty wake channel.
Start(p) ==
    /\ proc[p] = "down"
    /\ proc' = [proc EXCEPT ![p] = "up"]
    /\ wake' = [wake EXCEPT ![p] = 0]
    /\ wk' = [w \in Workers |-> IF w[1] = p THEN Idle ELSE wk[w]]
    /\ UNCHANGED <<row, faults, lost>>

\* Time passes for everyone at once, but never past the moment by which a
\* handler whose context has expired is back and has marked its row.
Tick ==
    /\ \A w \in Workers : Executing(w) => wk[w].elapsed < JobTimeout + Overrun
    /\ row' = [j \in Jobs |->
                 [row[j] EXCEPT
                    !.lockAge = IF row[j].lockedBy # NULL /\ @ <= StaleWindow
                                THEN @ + 1 ELSE @,
                    !.due = IF row[j].st = "live" /\ @ > -MaxOverdue
                            THEN @ - 1 ELSE @]]
    /\ wk' = [w \in Workers |->
                IF Executing(w) THEN [wk[w] EXCEPT !.elapsed = @ + 1] ELSE wk[w]]
    /\ UNCHANGED <<proc, wake, faults, lost>>

\* Variant of Purge: by age alone.
PurgeByAge(j) ==
    /\ row[j].st = "live"
    /\ row' = [row EXCEPT ![j].st = "purged"]
    /\ UNCHANGED <<proc, wake, wk, faults, lost>>

\* PurgeCompletedJobs and PurgeFailedJobs; the retention cutoff is any time.
Purge(j) ==
    /\ row[j].st = "live"
    /\ Finished(row[j])
    /\ row' = [row EXCEPT ![j].st = "purged"]
    /\ UNCHANGED <<proc, wake, wk, faults, lost>>

-----------------------------------------------------------------------------

WorkerStep(w) ==
    \/ Receive(w) \/ Poll(w) \/ Stop(w) \/ ClaimError(w)
    \/ \E k \in Kinds : ClaimNone(w, k)
    \/ \E k \in Kinds, j \in Jobs : Claim(w, k, j) \/ ClaimLost(w, k, j)
    \/ \E out \in {"ok", "err", "poison"} : HandlerReturns(w, out)
    \/ MarkJobCompleted(w) \/ MarkJobFailed(w) \/ MarkFails(w)
    \/ \E delay \in 0 .. MaxDue : RescheduleJob(w, delay)

Next ==
    \/ \E j \in Jobs, delay \in 0 .. MaxDelay : Enqueue(j, delay)
    \/ \E j \in Jobs : Purge(j)
    \/ \E p \in Procs : Wake(p) \/ Shutdown(p) \/ Exit(p) \/ Crash(p) \/ Start(p)
    \/ \E w \in Workers : WorkerStep(w)
    \/ Tick

Spec == Init /\ [][Next]_vars

\* The runtime schedules every goroutine, handlers return once their context
\* has expired, time passes, and the service manager restarts the process.  A
\* select picks among its ready cases at random, so ctx.Done is not passed
\* over for ever.
Fairness ==
    /\ WF_vars(Tick)
    /\ \A w \in Workers : WF_vars(WorkerStep(w)) /\ SF_vars(Stop(w))
    /\ \A p \in Procs : WF_vars(Exit(p)) /\ WF_vars(Start(p))

FairSpec == Spec /\ Fairness

-----------------------------------------------------------------------------
(* The queue that callers and handlers are promised *)

Status(r) ==
    CASE r.st = "none" -> "none"
      [] r.st = "purged" -> "forgotten"
      [] r.st = "live" /\ ~Finished(r) -> "open"
      [] OTHER -> IF "completed" \in r.ended THEN "completed" ELSE "failed"

InHand(w) == IF Executing(w) THEN wk[w].job ELSE NULL

Queue == INSTANCE WorkQueue WITH
            status <- [j \in Jobs |-> Status(row[j])],
            hand   <- [w \in Workers |-> InHand(w)]

-----------------------------------------------------------------------------
(* Properties *)

TypeOK ==
    /\ row \in [Jobs -> Row]
    /\ proc \in [Procs -> {"up", "stopping", "down"}]
    /\ wake \in [Procs -> 0 .. Cardinality(Slots)]
    /\ wk \in [Workers -> Worker]
    /\ faults \in 0 .. MaxFaults
    /\ lost \in [Jobs -> Nat]

\* docs/internal/worker.md: "Each row is processed exactly once across the
\* cluster".  No two goroutines are between the claim and the mark of the same
\* row at the same time.
SingleRunner ==
    \A v, w \in Workers, j \in Jobs : Holds(v, j) /\ Holds(w, j) => v = w

\* The unfenced UPDATE ... WHERE id = $1 of the three marks is safe only if the
\* row a goroutine is working on is still unfinished and still carries the very
\* lease its own ClaimJob took: same process, same age, same attempt.
HolderHasLease ==
    \A w \in Workers : Executing(w) =>
        LET r == row[wk[w].job] IN
        /\ wk[w].job \in Jobs
        /\ r.st = "live" /\ ~Finished(r)
        /\ r.lockedBy = w[1]
        /\ r.lockAge = wk[w].elapsed
        /\ r.attempts = wk[w].att

\* A row ends either in completed_at or in failed_at, never in both: a late
\* mark does not contradict an earlier one.
OneOutcome == \A j \in Jobs : row[j].ended # {"completed", "failed"}

\* ClaimJob increments attempts without looking at max_attempts; runOne looks
\* afterwards.  Attempts past the limit are exactly accounted for by claims
\* that never reported back.
AttemptBudget == \A j \in Jobs : row[j].attempts <= MaxAttempts + lost[j]

\* Why AttemptBudget is inductive: a row nobody has leased is below the limit,
\* because runOne reschedules only below it, and a lease without a goroutine
\* behind it has its lost claim to its account.
Accounted ==
    \A j \in Jobs :
        /\ row[j].attempts <= MaxAttempts + lost[j]
        /\ row[j].lockedBy = NULL /\ ~Finished(row[j]) =>
              row[j].attempts < MaxAttempts
        /\ row[j].lockedBy # NULL /\ (\A w \in Workers : ~Holds(w, j)) =>
              row[j].attempts < MaxAttempts + lost[j]

\* A process that is gone has no goroutine left.
DownIsStopped ==
    \A w \in Workers : proc[w[1]] = "down" => wk[w].pc = "stopped"

\* ClaimJob, the marks and the purges, with their leases, retries, lost answers
\* and dead processes, implement the queue in which a job is in one worker's
\* hands at a time and is finished once, by the worker that has it.
ImplementsQueue == Queue!Spec

\* A finished row is never claimed again, whatever late marks do to it.
FinishedIsFinal ==
    [][\A j \in Jobs : Finished(row[j]) =>
          /\ row'[j].attempts = row[j].attempts
          /\ row[j].ended \subseteq row'[j].ended]_vars

\* Every row that is enqueued is eventually completed or failed, through
\* retries, lost wake-ups, crashes and shutdowns.
EveryJobFinishes ==
    \A j \in Jobs : (row[j].st = "live") ~> Finished(row[j])
=============================================================================
