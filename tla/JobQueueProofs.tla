--------------------------- MODULE JobQueueProofs ---------------------------
(***************************************************************************)
(* Proofs about JobQueue for any number of processes, goroutines, rows and *)
(* kinds.  Type correctness is unconditional.  The safety results assume   *)
(* what the stale-lock window of ClaimJob assumes without saying so: that  *)
(* a handler is back, and its mark committed, before the lease runs out.   *)
(***************************************************************************)
EXTENDS JobQueue, FiniteSetTheorems, TLAPS

\* A worker's record after each of its steps has the right type.
LEMMA WorkerRecords ==
    /\ Idle \in Worker
    /\ Stopped \in Worker
    /\ \A todo \in SUBSET Kinds, ran \in SUBSET Kinds :
          /\ Draining(todo, ran) \in Worker
          /\ NextKind(todo, ran) \in Worker
<1>1. 0 \in 0 .. JobTimeout + Overrun
  BY ConstantsAssumption, SMTT(40)
<1>2. Idle \in Worker /\ Stopped \in Worker
  BY <1>1, Zenon DEF Idle, Stopped, Worker
<1>3. ASSUME NEW todo \in SUBSET Kinds, NEW ran \in SUBSET Kinds
      PROVE  Draining(todo, ran) \in Worker
  BY <1>1, Zenon DEF Draining, Idle, Worker
<1>4. ASSUME NEW todo \in SUBSET Kinds, NEW ran \in SUBSET Kinds
      PROVE  NextKind(todo, ran) \in Worker
  BY <1>2, <1>3, Zenon DEF NextKind
<1>. QED
  BY <1>2, <1>3, <1>4, Zenon

\* So has a row after each of the statements of jobs.sql.
LEMMA RowRecords ==
    /\ NoRow \in Row
    /\ \A r \in Row, p \in Procs : ClaimedRow(r, p) \in Row
    /\ \A r \in Row : CompletedRow(r) \in Row /\ FailedRow(r) \in Row
    /\ \A r \in Row, d \in 0 .. MaxDue : RescheduledRow(r, d) \in Row
<1>1. 0 \in 0 .. StaleWindow + 1 /\ 0 .. MaxDue \subseteq -MaxOverdue .. MaxDue
  BY ConstantsAssumption, SMTT(40) DEF MaxDue
<1>2. 0 \in -MaxOverdue .. MaxDue
  BY ConstantsAssumption, SMTT(40) DEF MaxDue
<1>3. NoRow \in Row
  BY <1>1, <1>2, Zenon DEF NoRow, Row
<1>4. ASSUME NEW r \in Row, NEW p \in Procs PROVE ClaimedRow(r, p) \in Row
  <2>1. r.attempts + 1 \in Nat
    BY SMTT(40) DEF Row
  <2>. QED
    BY <1>1, <2>1, Zenon DEF ClaimedRow, Row
<1>5. ASSUME NEW r \in Row PROVE CompletedRow(r) \in Row
  BY <1>1, Zenon DEF CompletedRow, Row
<1>6. ASSUME NEW r \in Row PROVE FailedRow(r) \in Row
  BY <1>1, Zenon DEF FailedRow, Row
<1>7. ASSUME NEW r \in Row, NEW d \in 0 .. MaxDue
      PROVE  RescheduledRow(r, d) \in Row
  BY <1>1, Zenon DEF RescheduledRow, Row
<1>. QED
  BY <1>3, <1>4, <1>5, <1>6, <1>7, Zenon

\* Every behaviour of the queue is type correct.
THEOREM TypeCorrect == Spec => []TypeOK
<1>1. Init => TypeOK
  <2>1. Cardinality(Slots) \in Nat
    BY ConstantsAssumption, FS_CardinalityType, Zenon
  <2>. QED
    BY <2>1, WorkerRecords, RowRecords, ConstantsAssumption, SMTT(40) DEF Init, TypeOK
<1>2. TypeOK /\ [Next]_vars => TypeOK'
  <2>. SUFFICES ASSUME TypeOK, [Next]_vars PROVE TypeOK'
    BY Zenon
  <2>. USE DEF TypeOK
  <2>1. Cardinality(Slots) \in Nat
    BY ConstantsAssumption, FS_CardinalityType, Zenon
  <2>2. ASSUME NEW j \in Jobs, NEW d \in 0 .. MaxDelay, Enqueue(j, d)
        PROVE  TypeOK'
    <3>1. d \in -MaxOverdue .. MaxDue
      BY ConstantsAssumption, SMTT(40) DEF MaxDue
    <3>2. [row[j] EXCEPT !.st = "live", !.due = d] \in Row
      BY <3>1, Zenon DEF Row
    <3>3. row' = [row EXCEPT ![j] = [row[j] EXCEPT !.st = "live", !.due = d]]
      BY <2>2, Zenon DEF Enqueue
    <3>. QED
      BY <2>2, <3>2, <3>3 DEF Enqueue
  <2>3. ASSUME NEW j \in Jobs, Purge(j) PROVE TypeOK'
    <3>1. [row[j] EXCEPT !.st = "purged"] \in Row
      BY DEF Row
    <3>2. row' = [row EXCEPT ![j] = [row[j] EXCEPT !.st = "purged"]]
      BY <2>3, Zenon DEF Purge
    <3>. QED
      BY <2>3, <3>1, <3>2, Zenon DEF Purge
  <2>4. ASSUME NEW p \in Procs, Wake(p) PROVE TypeOK'
    BY <2>1, <2>4, SMTT(40) DEF Wake
  <2>5. ASSUME NEW p \in Procs, Shutdown(p) PROVE TypeOK'
    BY <2>5, ConstantsAssumption, SMTT(40) DEF Shutdown, Fault
  <2>6. ASSUME NEW p \in Procs, Exit(p) PROVE TypeOK'
    BY <2>6, Zenon DEF Exit
  <2>7. ASSUME NEW p \in Procs, Crash(p) PROVE TypeOK'
    <3>1. \A j \in Jobs :
             lost[j] + Cardinality({s \in Slots : Holds(<<p, s>>, j)}) \in Nat
      <4>. SUFFICES ASSUME NEW j \in Jobs
                    PROVE  Cardinality({s \in Slots : Holds(<<p, s>>, j)}) \in Nat
        BY SMTT(40)
      <4>1. IsFiniteSet({s \in Slots : Holds(<<p, s>>, j)})
        BY ConstantsAssumption, FS_Subset, Zenon
      <4>. QED
        BY <4>1, FS_CardinalityType, Zenon
    <3>. QED
      BY <2>7, <3>1, WorkerRecords, ConstantsAssumption, SMTT(40) DEF Crash, Fault
  <2>8. ASSUME NEW p \in Procs, Start(p) PROVE TypeOK'
    BY <2>1, <2>8, WorkerRecords, SMTT(40) DEF Start
  <2>9. ASSUME NEW w \in Workers, WorkerStep(w) PROVE TypeOK'
    <3>. w[1] \in Procs /\ w \in DOMAIN wk
      BY Zenon DEF Workers
    <3>1. CASE Receive(w)
      BY <2>1, <3>1, WorkerRecords, SMTT(40) DEF Receive
    <3>2. CASE Poll(w) \/ Stop(w)
      BY <3>2, WorkerRecords, SMTT(40) DEF Poll, Stop
    <3>3. CASE ClaimError(w)
      BY <3>3, WorkerRecords, ConstantsAssumption, SMTT(40) DEF ClaimError, Fault
    <3>4. ASSUME NEW k \in Kinds, ClaimNone(w, k) PROVE TypeOK'
      BY <3>4, WorkerRecords, Zenon DEF ClaimNone, Worker
    <3>5. ASSUME NEW k \in Kinds, NEW j \in Jobs, Claim(w, k, j) PROVE TypeOK'
      <4>1. row' \in [Jobs -> Row]
        BY <3>5, RowRecords, Zenon DEF Claim
      <4>2. wk' \in [Workers -> Worker]
        <5>1. row[j].attempts + 1 \in Nat
          BY SMTT(40) DEF Row
        <5>2. 0 \in 0 .. JobTimeout + Overrun
          BY ConstantsAssumption, SMTT(40)
        <5>3. Running(wk[w], k, j) \in Worker
          <6>. HIDE DEF TypeOK
          <6>1. wk[w] \in Worker
            BY Zenon DEF TypeOK
          <6>2. wk[w].todo \ {k} \in SUBSET Kinds /\ wk[w].ran \cup {k} \in SUBSET Kinds
            BY <6>1, Zenon DEF Worker
          <6>. QED
            BY <5>1, <5>2, <6>1, <6>2, Zenon DEF Running, Worker
        <5>. QED
          BY <3>5, <5>3, Zenon DEF Claim
      <4>. QED
        BY <3>5, <4>1, <4>2 DEF Claim
    <3>6. ASSUME NEW k \in Kinds, NEW j \in Jobs, ClaimLost(w, k, j)
          PROVE  TypeOK'
      BY <3>6, RowRecords, WorkerRecords, ConstantsAssumption, SMTT(40) DEF ClaimLost, Fault
    <3>7. ASSUME NEW out \in {"ok", "err", "poison"}, HandlerReturns(w, out)
          PROVE  TypeOK'
      BY <3>7, SMTT(40) DEF HandlerReturns, Worker
    <3>8. Marked(w) => wk' \in [Workers -> Worker]
      <4>1. wk[w].todo \in SUBSET Kinds /\ wk[w].ran \in SUBSET Kinds
        BY Zenon DEF Worker
      <4>2. NextKind(wk[w].todo, wk[w].ran) \in Worker
        BY <4>1, WorkerRecords, Zenon
      <4>. QED
        BY <4>2, Zenon DEF Marked
    <3>9. \A j \in Jobs, r \in Row : Update(j, r) => row' \in [Jobs -> Row]
      BY Zenon DEF Update
    <3>11. CASE MarkJobCompleted(w)
      <4>1. row' \in [Jobs -> Row]
        BY <3>11, RowRecords, <3>9, Zenon DEF MarkJobCompleted, Update
      <4>. QED
        BY <3>8, <3>11, <4>1, Zenon DEF MarkJobCompleted
    <3>12. CASE MarkJobFailed(w)
      <4>1. row' \in [Jobs -> Row]
        BY <3>12, RowRecords, <3>9, Zenon DEF MarkJobFailed, Update
      <4>. QED
        BY <3>8, <3>12, <4>1, Zenon DEF MarkJobFailed
    <3>13. ASSUME NEW d \in 0 .. MaxDue, RescheduleJob(w, d) PROVE TypeOK'
      <4>1. row' \in [Jobs -> Row]
        BY <3>13, RowRecords, <3>9, Zenon DEF RescheduleJob, Update
      <4>. QED
        BY <3>8, <3>13, <4>1, Zenon DEF RescheduleJob
    <3>14. CASE MarkFails(w)
      <4>1. lost' \in [Jobs -> Nat]
        <5>1. lost' = [lost EXCEPT ![wk[w].job] = lost[wk[w].job] + 1]
          BY <3>14, Zenon DEF MarkFails
        <5>2. wk[w].job \in Jobs => lost[wk[w].job] + 1 \in Nat
          BY SMTT(40)
        <5>3. lost \in [Jobs -> Nat]
          BY Zenon
        <5>. HIDE DEF TypeOK
        <5>. QED
          BY <5>1, <5>2, <5>3, Zenon
      <4>2. faults' \in 0 .. MaxFaults
        BY <3>14, ConstantsAssumption, SMTT(40) DEF MarkFails, Fault
      <4>. QED
        BY <3>8, <3>14, <4>1, <4>2, Zenon DEF MarkFails
    <3>. QED
      BY <2>9, <3>1, <3>2, <3>3, <3>4, <3>5, <3>6, <3>7, <3>11, <3>12, <3>13, <3>14, Zenon DEF WorkerStep
  <2>10. CASE Tick
    <3>1. row' \in [Jobs -> Row]
      <4>. SUFFICES ASSUME NEW j \in Jobs PROVE row'[j] \in Row
        BY <2>10, Zenon DEF Tick
      <4>. DEFINE age == IF row[j].lockedBy # NULL /\ row[j].lockAge <= StaleWindow
                         THEN row[j].lockAge + 1 ELSE row[j].lockAge
                  due == IF row[j].st = "live" /\ row[j].due > -MaxOverdue
                         THEN row[j].due - 1 ELSE row[j].due
      <4>1. age \in 0 .. StaleWindow + 1 /\ due \in -MaxOverdue .. MaxDue
        BY ConstantsAssumption, SMTT(40) DEF Row, MaxDue
      <4>2. row'[j] = [row[j] EXCEPT !.lockAge = age, !.due = due]
        BY <2>10, Zenon DEF Tick
      <4>. HIDE DEF age, due
      <4>. QED
        <5>1. row[j] \in Row
          BY Zenon
        <5>. QED
          BY <4>1, <4>2, <5>1, Zenon DEF Row
    <3>2. wk' \in [Workers -> Worker]
      <4>. SUFFICES ASSUME NEW w \in Workers, Executing(w)
                    PROVE  [wk[w] EXCEPT !.elapsed = @ + 1] \in Worker
        BY <2>10, Zenon DEF Tick
      <4>1. wk[w].elapsed + 1 \in 0 .. JobTimeout + Overrun
        <5>1. wk[w].elapsed < JobTimeout + Overrun
          BY <2>10, Zenon DEF Tick
        <5>2. wk[w].elapsed \in 0 .. JobTimeout + Overrun
          BY Zenon DEF Worker
        <5>. QED
          BY <5>1, <5>2, ConstantsAssumption, SMTT(40)
      <4>. QED
        BY <4>1 DEF Worker
    <3>. QED
      BY <2>10, <3>1, <3>2, Zenon DEF Tick
  <2>11. CASE UNCHANGED vars
    BY <2>11, Zenon DEF vars
  <2>. QED
    BY <2>2, <2>3, <2>4, <2>5, <2>6, <2>7, <2>8, <2>9, <2>10, <2>11, Zenon DEF Next
<1>. QED
  BY <1>1, <1>2, PTL DEF Spec

-----------------------------------------------------------------------------
(* Safety while handlers stay inside the lease *)

LeaseInv == TypeOK /\ HolderHasLease /\ SingleRunner

\* A leased row with a goroutine behind it is not claimable: its lease is as old
\* as the goroutine's work, which ends inside the stale-lock window.
LEMMA HeldNotClaimable ==
    ASSUME JobTimeout + Overrun <= StaleWindow, TypeOK, HolderHasLease,
           NEW w \in Workers, NEW j \in Jobs, Holds(w, j)
    PROVE  ~Claimable(row[j])
<1>1. row[j].lockedBy = w[1] /\ row[j].lockAge = wk[w].elapsed
  BY Zenon DEF Holds, HolderHasLease
<1>2. w[1] # NULL
  BY ConstantsAssumption, Zenon DEF Workers
<1>3. wk[w].elapsed \in 0 .. JobTimeout + Overrun
  BY Zenon DEF TypeOK, Worker
<1>. QED
  BY <1>1, <1>2, <1>3, ConstantsAssumption, SMTT(40) DEF Claimable

\* No step breaks the lease invariant.
LEMMA LeaseStep ==
    ASSUME JobTimeout + Overrun <= StaleWindow, LeaseInv, TypeOK', Next
    PROVE  HolderHasLease' /\ SingleRunner'
<1>. USE DEF LeaseInv
<1>. DEFINE Quiet ==
        \A w \in Workers : Executing(w)' =>
            /\ Executing(w)
            /\ wk'[w].job = wk[w].job
            /\ wk'[w].att = wk[w].att
            /\ wk'[w].elapsed = wk[w].elapsed
<1>1. ASSUME Quiet, row' = row
      PROVE  HolderHasLease' /\ SingleRunner'
  BY <1>1, SMTT(40) DEF HolderHasLease, SingleRunner, Holds, Finished
<1>2. ASSUME Quiet, NEW j \in Jobs, \A i \in Jobs \ {j} : row'[i] = row[i],
             \A w \in Workers : ~Holds(w, j)'
      PROVE  HolderHasLease' /\ SingleRunner'
  BY <1>2, SMTT(40) DEF HolderHasLease, SingleRunner, Holds, Finished
<1>3. ASSUME NEW j \in Jobs, NEW d, Enqueue(j, d)
      PROVE  HolderHasLease' /\ SingleRunner'
  <2>1. \A w \in Workers : ~Holds(w, j)
    BY <1>3, Zenon DEF Enqueue, Holds, HolderHasLease
  <2>2. Quiet /\ \A w \in Workers : ~Holds(w, j)'
    BY <1>3, <2>1, Zenon DEF Enqueue, Holds, Executing
  <2>3. \A i \in Jobs \ {j} : row'[i] = row[i]
    BY <1>3, Zenon DEF Enqueue, TypeOK
  <2>. QED
    BY <1>2, <2>2, <2>3, Zenon
<1>4. ASSUME NEW j \in Jobs, Purge(j)
      PROVE  HolderHasLease' /\ SingleRunner'
  <2>1. \A w \in Workers : ~Holds(w, j)
    BY <1>4, Zenon DEF Purge, Holds, HolderHasLease
  <2>2. Quiet /\ \A w \in Workers : ~Holds(w, j)'
    BY <1>4, <2>1, Zenon DEF Purge, Holds, Executing
  <2>3. \A i \in Jobs \ {j} : row'[i] = row[i]
    BY <1>4, Zenon DEF Purge, TypeOK
  <2>. QED
    BY <1>2, <2>2, <2>3, Zenon
<1>5. ASSUME NEW p \in Procs, Wake(p) \/ Shutdown(p) \/ Exit(p)
      PROVE  HolderHasLease' /\ SingleRunner'
  <2>1. Quiet /\ row' = row
    BY <1>5, Zenon DEF Wake, Shutdown, Exit, Executing
  <2>. QED
    BY <1>1, <2>1, Zenon
<1>6. ASSUME NEW p \in Procs, Crash(p) \/ Start(p)
      PROVE  HolderHasLease' /\ SingleRunner'
  <2>1. Quiet /\ row' = row
    BY <1>6, SMTT(40) DEF Crash, Start, Executing, Stopped, Idle
  <2>. QED
    BY <1>1, <2>1, Zenon
<1>7. ASSUME NEW w \in Workers, WorkerStep(w)
      PROVE  HolderHasLease' /\ SingleRunner'
  <2>1. CASE Receive(w) \/ Poll(w) \/ Stop(w) \/ ClaimError(w)
    <3>1. row' = row /\ \A v \in Workers \ {w} : wk'[v] = wk[v]
      BY <2>1, Zenon DEF Receive, Poll, Stop, ClaimError, TypeOK
    <3>2. wk'[w] \in {Idle, Stopped, Draining(Kinds, {})}
      BY <2>1, Zenon DEF Receive, Poll, Stop, ClaimError, TypeOK
    <3>3. ~Executing(w)'
      <4>1. /\ Idle.pc = "idle"
            /\ Stopped.pc = "stopped"
            /\ Draining(Kinds, {}).pc = "drain"
        BY Zenon DEF Stopped, Draining, Idle
      <4>. QED
        BY <3>2, <4>1, Zenon DEF Executing
    <3>4. Quiet
      BY <3>1, <3>3, Zenon DEF Executing
    <3>. QED
      BY <1>1, <3>1, <3>4, Zenon
  <2>2. ASSUME NEW k \in Kinds, ClaimNone(w, k)
        PROVE  HolderHasLease' /\ SingleRunner'
    <3>1. Quiet /\ row' = row
      BY <2>2, Zenon DEF ClaimNone, Executing, NextKind, Draining, Idle, TypeOK
    <3>. QED
      BY <1>1, <3>1, Zenon
  <2>3. ASSUME NEW k \in Kinds, NEW j \in Jobs, Claim(w, k, j)
        PROVE  HolderHasLease' /\ SingleRunner'
    <3>1. \A v \in Workers : ~Holds(v, j)
      BY <2>3, HeldNotClaimable, Zenon DEF Claim, Oldest
    <3>2. /\ wk'[w] = Running(wk[w], k, j)
          /\ \A v \in Workers \ {w} : wk'[v] = wk[v]
          /\ row'[j] = ClaimedRow(row[j], w[1])
          /\ \A i \in Jobs \ {j} : row'[i] = row[i]
      BY <2>3, Zenon DEF Claim, TypeOK
    <3>3. /\ wk'[w].job = j
          /\ wk'[w].att = row[j].attempts + 1
          /\ wk'[w].elapsed = 0
      BY <3>2, SMTT(40) DEF Running, TypeOK, Worker
    <3>4. /\ row'[j].lockedBy = w[1] /\ row'[j].lockAge = 0
          /\ row'[j].attempts = row[j].attempts + 1
          /\ row'[j].st = "live" /\ ~Finished(row'[j])
      BY <2>3, <3>2, SMTT(40) DEF Claim, Oldest, Claimable, ClaimedRow, Finished, TypeOK, Row
    <3>5. HolderHasLease'
      <4>. SUFFICES ASSUME NEW v \in Workers, Executing(v)'
                    PROVE  LET r == row'[wk'[v].job] IN
                           /\ wk'[v].job \in Jobs
                           /\ r.st = "live" /\ ~Finished(r)
                           /\ r.lockedBy = v[1]
                           /\ r.lockAge = wk'[v].elapsed
                           /\ r.attempts = wk'[v].att
        BY Zenon DEF HolderHasLease, Finished
      <4>1. CASE v = w
        BY <3>3, <3>4, <4>1, Zenon
      <4>2. CASE v # w
        <5>1. wk'[v] = wk[v] /\ Executing(v) /\ wk[v].job # j
          BY <3>1, <3>2, <4>2, Zenon DEF Executing, Holds
        <5>. QED
          BY <3>2, <5>1, SMTT(40) DEF HolderHasLease
      <4>. QED
        BY <4>1, <4>2, Zenon
    <3>6. SingleRunner'
      BY <3>1, <3>2, <3>3, SMTT(40) DEF SingleRunner, Holds, Executing
    <3>. QED
      BY <3>5, <3>6, Zenon
  <2>4. ASSUME NEW k \in Kinds, NEW j \in Jobs, ClaimLost(w, k, j)
        PROVE  HolderHasLease' /\ SingleRunner'
    <3>1. \A v \in Workers : ~Holds(v, j)
      BY <2>4, HeldNotClaimable, Zenon DEF ClaimLost, Oldest
    <3>2. \A v \in Workers : wk'[v] = wk[v] \/ wk'[v] = Idle
      BY <2>4, Zenon DEF ClaimLost, TypeOK
    <3>3. Quiet /\ \A v \in Workers : ~Holds(v, j)'
      BY <3>1, <3>2, SMTT(40) DEF Holds, Executing, Idle
    <3>4. \A i \in Jobs \ {j} : row'[i] = row[i]
      BY <2>4, Zenon DEF ClaimLost, TypeOK
    <3>. QED
      BY <1>2, <3>3, <3>4, Zenon
  <2>5. ASSUME NEW out \in {"ok", "err", "poison"}, HandlerReturns(w, out)
        PROVE  HolderHasLease' /\ SingleRunner'
    <3>1. Quiet /\ row' = row
      BY <2>5 DEF HandlerReturns, Executing, TypeOK, Worker
    <3>. QED
      BY <1>1, <3>1, Zenon
  <2>6. ASSUME wk[w].pc = "marking", Marked(w),
               \A i \in Jobs \ {wk[w].job} : row'[i] = row[i]
        PROVE  HolderHasLease' /\ SingleRunner'
    <3>1. Holds(w, wk[w].job) /\ wk[w].job \in Jobs
      BY <2>6, Zenon DEF Holds, Executing, HolderHasLease
    <3>2. ~Executing(w)' /\ \A v \in Workers \ {w} : wk'[v] = wk[v]
      BY <2>6, Zenon DEF Marked, NextKind, Draining, Idle, Executing, TypeOK
    <3>3. Quiet
      BY <3>2, Zenon DEF Executing
    <3>. DEFINE j == wk[w].job
    <3>4. \A v \in Workers \ {w} : ~Holds(v, j)
      BY <3>1, Zenon DEF SingleRunner
    <3>5. ASSUME NEW v \in Workers, Executing(v)' PROVE wk'[v].job # j
      BY <3>2, <3>4, <3>5, Zenon DEF Holds, Executing
    <3>6. row' \in [Jobs -> Row] /\ \A i \in Jobs \ {j} : row'[i] = row[i]
      BY <2>6, Zenon DEF TypeOK
    <3>. HIDE DEF j
    <3>7. HolderHasLease'
      BY <3>3, <3>5, <3>6, SMTT(40) DEF HolderHasLease, Finished
    <3>8. SingleRunner'
      BY <3>3 DEF SingleRunner, Holds
    <3>. QED
      BY <3>7, <3>8, Zenon
  <2>7. CASE MarkJobCompleted(w)
    BY <2>6, <2>7, Zenon DEF MarkJobCompleted, Update, TypeOK
  <2>8. CASE MarkJobFailed(w)
    BY <2>6, <2>8, Zenon DEF MarkJobFailed, Update, TypeOK
  <2>9. ASSUME NEW d, RescheduleJob(w, d)
        PROVE  HolderHasLease' /\ SingleRunner'
    BY <2>6, <2>9, Zenon DEF RescheduleJob, Update, TypeOK
  <2>10. CASE MarkFails(w)
    BY <2>6, <2>10, Zenon DEF MarkFails
  <2>. QED
    BY <1>7, <2>1, <2>2, <2>3, <2>4, <2>5, <2>7, <2>8, <2>9, <2>10, Zenon DEF WorkerStep
<1>8. CASE Tick
  <2>1. \A w \in Workers :
           /\ Executing(w)' <=> Executing(w)
           /\ wk'[w].job = wk[w].job
           /\ wk'[w].att = wk[w].att
           /\ Executing(w) => wk'[w].elapsed = wk[w].elapsed + 1
    BY <1>8, Zenon DEF Tick, Executing, TypeOK, Worker
  <2>2. \A j \in Jobs :
           /\ row'[j].st = row[j].st
           /\ row'[j].ended = row[j].ended
           /\ row'[j].lockedBy = row[j].lockedBy
           /\ row'[j].attempts = row[j].attempts
           /\ row[j].lockedBy # NULL /\ row[j].lockAge <= StaleWindow =>
                 row'[j].lockAge = row[j].lockAge + 1
    <3>. SUFFICES ASSUME NEW j \in Jobs
                  PROVE  /\ row'[j].st = row[j].st
                         /\ row'[j].ended = row[j].ended
                         /\ row'[j].lockedBy = row[j].lockedBy
                         /\ row'[j].attempts = row[j].attempts
                         /\ row[j].lockedBy # NULL /\ row[j].lockAge <= StaleWindow
                              => row'[j].lockAge = row[j].lockAge + 1
      BY Zenon
    <3>1. PICK due :
            row'[j] = [row[j] EXCEPT
                         !.lockAge = IF row[j].lockedBy # NULL /\ @ <= StaleWindow
                                     THEN @ + 1 ELSE @,
                         !.due = due]
      BY <1>8, Zenon DEF Tick
    <3>2. row[j] \in Row
      BY Zenon DEF TypeOK
    <3>. QED
      BY <3>1, <3>2, Zenon DEF Row
  <2>3. \A w \in Workers : Executing(w) => wk[w].elapsed <= StaleWindow
    BY ConstantsAssumption, SMTT(40) DEF TypeOK, Worker
  <2>4. \A w \in Workers : w[1] # NULL
    BY ConstantsAssumption, Zenon DEF Workers
  <2>5. HolderHasLease'
    BY <2>1, <2>2, <2>3, <2>4, SMTT(40) DEF HolderHasLease, Finished
  <2>6. SingleRunner'
    BY <2>1 DEF SingleRunner, Holds
  <2>. QED
    BY <2>5, <2>6, Zenon
<1>. QED
  BY <1>3, <1>4, <1>5, <1>6, <1>7, <1>8, Zenon DEF Next

\* The lease invariant holds while handlers stay inside the lease.
THEOREM LeaseKept ==
    ASSUME JobTimeout + Overrun <= StaleWindow
    PROVE  Spec => []LeaseInv
<1>1. Init => HolderHasLease /\ SingleRunner
  BY SMTT(40) DEF Init, HolderHasLease, SingleRunner, Holds, Executing, Idle
<1>2. LeaseInv /\ TypeOK' /\ [Next]_vars => HolderHasLease' /\ SingleRunner'
  <2>1. CASE UNCHANGED vars
    BY <2>1, Zenon DEF LeaseInv, vars, HolderHasLease, SingleRunner, Holds, Executing, Finished
  <2>. QED
    BY <2>1, LeaseStep, Zenon
<1>. QED
  BY <1>1, <1>2, TypeCorrect, PTL DEF Spec, LeaseInv

\* Then every goroutine between its claim and its mark holds the lease its own
\* ClaimJob took, whatever crashes, shutdowns and database errors happen: the
\* marks, keyed by id alone, never touch another worker's attempt.
THEOREM LeaseHeld ==
    ASSUME JobTimeout + Overrun <= StaleWindow
    PROVE  Spec => []HolderHasLease
BY LeaseKept, PTL DEF LeaseInv

\* And no row is ever worked on by two goroutines at once.
THEOREM OneRunnerPerRow ==
    ASSUME JobTimeout + Overrun <= StaleWindow
    PROVE  Spec => []SingleRunner
BY LeaseKept, PTL DEF LeaseInv

-----------------------------------------------------------------------------
(* Attempts and outcomes *)

AccountInv == LeaseInv /\ DownIsStopped /\ Accounted /\ OneOutcome

\* No step breaks the accounting.
LEMMA AccountStep ==
    ASSUME JobTimeout + Overrun <= StaleWindow, AccountInv, TypeOK', Next
    PROVE  DownIsStopped' /\ Accounted' /\ OneOutcome'
<1>. USE DEF AccountInv, LeaseInv
<1>. DEFINE Done == Accounted' /\ OneOutcome'
            SameHolders == \A w \in Workers, j \in Jobs : Holds(w, j)' <=> Holds(w, j)
            SameRow(j) == /\ row'[j].attempts = row[j].attempts
                          /\ row'[j].lockedBy = row[j].lockedBy
                          /\ row'[j].ended = row[j].ended
                          /\ lost'[j] = lost[j]
<1>1. ASSUME SameHolders, \A j \in Jobs : SameRow(j) PROVE Done
  BY <1>1, Zenon DEF Accounted, OneOutcome, Finished
<1>2. ASSUME NEW j \in Jobs, NEW d, Enqueue(j, d) PROVE Done
  <2>1. SameHolders /\ \A i \in Jobs : SameRow(i)
    BY <1>2 DEF Enqueue, Holds, Executing, TypeOK, Row
  <2>. QED
    BY <1>1, <2>1, Zenon
<1>3. ASSUME NEW j \in Jobs, Purge(j) PROVE Done
  <2>1. SameHolders /\ \A i \in Jobs : SameRow(i)
    BY <1>3 DEF Purge, Holds, Executing, TypeOK, Row
  <2>. QED
    BY <1>1, <2>1, Zenon
<1>4. ASSUME NEW p \in Procs, Wake(p) \/ Shutdown(p) \/ Exit(p) PROVE Done
  <2>1. SameHolders /\ \A i \in Jobs : SameRow(i)
    BY <1>4, Zenon DEF Wake, Shutdown, Exit, Holds, Executing
  <2>. QED
    BY <1>1, <2>1, Zenon
<1>5. ASSUME NEW p \in Procs, Start(p) PROVE Done
  <2>1. SameHolders
    BY <1>5, Zenon DEF Start, DownIsStopped, Holds, Executing, Idle
  <2>. QED
    BY <1>1, <1>5, <2>1, Zenon DEF Start
<1>6. ASSUME NEW p \in Procs, Crash(p) PROVE Done
  <2>1. \A j \in Jobs : lost'[j] \in Nat /\ lost[j] \in Nat /\ row[j].attempts \in Nat
    BY Zenon DEF TypeOK, Row
  <2>2. ASSUME NEW j \in Jobs
        PROVE  /\ lost'[j] >= lost[j]
               /\ (\E s \in Slots : Holds(<<p, s>>, j)) => lost'[j] > lost[j]
    <3>. DEFINE held == {s \in Slots : Holds(<<p, s>>, j)}
    <3>1. lost'[j] = lost[j] + Cardinality(held)
      BY <1>6, Zenon DEF Crash
    <3>2. IsFiniteSet(held) /\ Cardinality(held) \in Nat
      BY ConstantsAssumption, FS_Subset, FS_CardinalityType, Zenon
    <3>3. (\E s \in Slots : Holds(<<p, s>>, j)) => Cardinality(held) # 0
      BY <3>2, FS_EmptySet
    <3>. QED
      BY <2>1, <3>1, <3>2, <3>3, SMTT(40)
  <2>3. row' = row
    BY <1>6, Zenon DEF Crash
  <2>4. ASSUME NEW w \in Workers, NEW j \in Jobs, Holds(w, j), ~Holds(w, j)'
        PROVE  \E s \in Slots : Holds(<<p, s>>, j)
    <3>1. w[1] = p
      BY <1>6, <2>4, Zenon DEF Crash, Holds, Executing
    <3>. QED
      BY <2>4, <3>1, SMTT(40) DEF Workers
  <2>. QED
    BY <2>1, <2>2, <2>3, <2>4, ConstantsAssumption, SMTT(40) DEF Accounted, OneOutcome, Finished
<1>7. ASSUME NEW w \in Workers, WorkerStep(w) PROVE Done
  <2>1. CASE Receive(w) \/ Poll(w) \/ Stop(w) \/ ClaimError(w)
    <3>1. /\ row' = row /\ lost' = lost
          /\ ~Executing(w)
          /\ \A v \in Workers \ {w} : wk'[v] = wk[v]
      BY <2>1, Zenon DEF Receive, Poll, Stop, ClaimError, TypeOK, Executing
    <3>2. wk'[w] \in {Idle, Stopped, Draining(Kinds, {})}
      BY <2>1, Zenon DEF Receive, Poll, Stop, ClaimError, TypeOK
    <3>3. /\ Idle.pc = "idle"
          /\ Stopped.pc = "stopped"
          /\ Draining(Kinds, {}).pc = "drain"
      BY Zenon DEF Stopped, Draining, Idle
    <3>4. ~Executing(w)'
      BY <3>2, <3>3, Zenon DEF Executing
    <3>. QED
      BY <1>1, <3>1, <3>4, Zenon DEF Holds, Executing
  <2>2. ASSUME NEW k \in Kinds, ClaimNone(w, k) PROVE Done
    <3>1. SameHolders
      BY <2>2, Zenon DEF ClaimNone, Holds, Executing, NextKind, Draining, Idle, TypeOK
    <3>. QED
      BY <1>1, <2>2, <3>1, Zenon DEF ClaimNone
  <2>3. ASSUME NEW k \in Kinds, NEW j \in Jobs, Claim(w, k, j) \/ ClaimLost(w, k, j)
        PROVE  Done
    <3>. DEFINE r == row[j]
    <3>1. r \in Row /\ Claimable(r) /\ \A v \in Workers : ~Holds(v, j)
      BY <2>3, HeldNotClaimable, Zenon DEF Claim, ClaimLost, Oldest, TypeOK
    <3>2. /\ row'[j] = ClaimedRow(r, w[1])
          /\ \A i \in Jobs \ {j} : row'[i] = row[i] /\ lost'[i] = lost[i]
          /\ ~Executing(w)
          /\ \A v \in Workers \ {w} : wk'[v] = wk[v]
      BY <2>3 DEF Claim, ClaimLost, TypeOK, Executing
    <3>3. \A i \in Jobs \ {j}, v \in Workers : Holds(v, i)' <=> Holds(v, i)
      <4>1. CASE Claim(w, k, j)
        <5>1. wk'[w].job = j
          BY <4>1, SMTT(40) DEF Claim, Running, TypeOK, Worker
        <5>. QED
          BY <3>2, <5>1 DEF Holds, Executing
      <4>2. CASE ClaimLost(w, k, j)
        BY <3>2, <4>2 DEF ClaimLost, Holds, Executing, Idle, TypeOK
      <4>. QED
        BY <2>3, <4>1, <4>2, Zenon
    <3>4. /\ row'[j].attempts = r.attempts + 1
          /\ row'[j].lockedBy = w[1]
          /\ row'[j].ended = {} /\ r.ended = {}
      BY <3>1, <3>2 DEF ClaimedRow, Claimable, Finished, Row
    <3>5. w[1] # NULL
      BY ConstantsAssumption, Zenon DEF Workers
    <3>6. r.attempts \in Nat /\ lost[j] \in Nat /\ MaxAttempts \in Nat
      BY <3>1, ConstantsAssumption, Zenon DEF Row, TypeOK
    <3>7. r.attempts < MaxAttempts + lost[j]
      <4>1. ~Finished(row[j])
        BY <3>4, Zenon DEF Finished
      <4>2. /\ row[j].lockedBy = NULL => row[j].attempts < MaxAttempts
            /\ row[j].lockedBy # NULL /\ (\A v \in Workers : ~Holds(v, j)) =>
                  row[j].attempts < MaxAttempts + lost[j]
        BY <4>1, Zenon DEF Accounted
      <4>. QED
        BY <3>1, <3>6, <4>2, SMTT(40)
    <3>8. /\ row'[j].attempts <= MaxAttempts + lost'[j]
          /\ (\A v \in Workers : ~Holds(v, j)') =>
                row'[j].attempts < MaxAttempts + lost'[j]
      <4>1. CASE Claim(w, k, j)
        <5>1. Holds(w, j)' /\ lost' = lost
          BY <4>1, SMTT(40) DEF Claim, Running, TypeOK, Worker, Holds, Executing
        <5>. QED
          BY <3>4, <3>6, <3>7, <5>1, SMTT(40)
      <4>2. CASE ClaimLost(w, k, j)
        <5>1. lost'[j] = lost[j] + 1
          BY <4>2, Zenon DEF ClaimLost, TypeOK
        <5>. QED
          BY <3>4, <3>6, <3>7, <5>1, SMTT(40)
      <4>. QED
        BY <2>3, <4>1, <4>2, Zenon
    <3>. HIDE DEF r
    <3>. QED
      BY <3>2, <3>3, <3>4, <3>5, <3>8 DEF Accounted, OneOutcome, Finished
  <2>5. ASSUME NEW out \in {"ok", "err", "poison"}, HandlerReturns(w, out)
        PROVE  Done
    <3>1. SameHolders
      BY <2>5, SMTT(40) DEF HandlerReturns, Holds, Executing, TypeOK, Worker
    <3>. QED
      BY <1>1, <2>5, <3>1, Zenon DEF HandlerReturns
  <2>6. ASSUME wk[w].pc = "marking", Marked(w),
               \A i \in Jobs \ {wk[w].job} : row'[i] = row[i] /\ lost'[i] = lost[i],
               LET j == wk[w].job IN
               /\ row'[j].attempts = row[j].attempts
               /\ row'[j].ended # {"completed", "failed"}
               /\ \/ /\ row'[j].lockedBy = NULL
                     /\ row'[j].ended # {} \/ row[j].attempts < MaxAttempts
                     /\ lost'[j] = lost[j]
                  \/ /\ row'[j].lockedBy # NULL
                     /\ lost'[j] = lost[j] + 1
        PROVE  Done
    <3>. DEFINE j == wk[w].job
    <3>1. j \in Jobs
      BY <2>6, Zenon DEF Executing, HolderHasLease
    <3>2. ~Executing(w)' /\ \A v \in Workers \ {w} : wk'[v] = wk[v]
      BY <2>6, Zenon DEF Marked, NextKind, Draining, Idle, Executing, TypeOK
    <3>3. \A i \in Jobs \ {j}, v \in Workers : Holds(v, i)' <=> Holds(v, i)
      BY <2>6, <3>2, Zenon DEF Holds, Executing
    <3>4. row[j].attempts \in Nat /\ lost[j] \in Nat /\ MaxAttempts \in Nat
      BY <3>1, ConstantsAssumption, Zenon DEF Row, TypeOK
    <3>5. row[j].attempts <= MaxAttempts + lost[j]
      BY <3>1, Zenon DEF Accounted
    <3>. HIDE DEF j
    <3>6. /\ row'[j].attempts = row[j].attempts
          /\ row'[j].ended # {"completed", "failed"}
          /\ \/ /\ row'[j].lockedBy = NULL
                /\ row'[j].ended # {} \/ row[j].attempts < MaxAttempts
                /\ lost'[j] = lost[j]
             \/ /\ row'[j].lockedBy # NULL
                /\ lost'[j] = lost[j] + 1
      BY <2>6, Zenon DEF j
    <3>7. \A i \in Jobs \ {j} : row'[i] = row[i] /\ lost'[i] = lost[i]
      BY <2>6, Zenon DEF j
    <3>. QED
      BY <3>1, <3>3, <3>4, <3>5, <3>6, <3>7, SMTT(20) DEF Accounted, OneOutcome, Finished
  <2>7. ASSUME wk[w].pc = "marking"
        PROVE  LET r == row[wk[w].job] IN
               /\ wk[w].job \in Jobs
               /\ r \in Row
               /\ r.st = "live" /\ r.ended = {}
               /\ r.lockedBy # NULL
               /\ r.attempts = wk[w].att
    BY <2>7, ConstantsAssumption, SMTT(40) DEF HolderHasLease, Executing, Finished, TypeOK, Workers
  <2>8. CASE MarkJobCompleted(w)
    <3>1. /\ wk[w].pc = "marking" /\ Marked(w) /\ lost' = lost
          /\ row' = [row EXCEPT ![wk[w].job] = CompletedRow(row[wk[w].job])]
      BY <2>7, <2>8, Zenon DEF MarkJobCompleted, Update
    <3>2. LET r == CompletedRow(row[wk[w].job]) IN
          /\ r.attempts = row[wk[w].job].attempts
          /\ r.ended = {"completed"} /\ r.lockedBy = NULL
      BY <2>7, <3>1, Zenon DEF CompletedRow, Row
    <3>3. row'[wk[w].job] = CompletedRow(row[wk[w].job])
      BY <2>7, <3>1, Zenon DEF TypeOK
    <3>4. {"completed"} # {} /\ {"completed"} # {"completed", "failed"}
      BY SMTT(40)
    <3>. QED
      BY <2>6, <3>1, <3>2, <3>3, <3>4, Zenon DEF TypeOK
  <2>9. CASE MarkJobFailed(w)
    <3>1. /\ wk[w].pc = "marking" /\ Marked(w) /\ lost' = lost
          /\ row' = [row EXCEPT ![wk[w].job] = FailedRow(row[wk[w].job])]
      BY <2>7, <2>9, Zenon DEF MarkJobFailed, Update
    <3>2. LET r == FailedRow(row[wk[w].job]) IN
          /\ r.attempts = row[wk[w].job].attempts
          /\ r.ended = {"failed"} /\ r.lockedBy = NULL
      BY <2>7, <3>1, Zenon DEF FailedRow, Row
    <3>3. row'[wk[w].job] = FailedRow(row[wk[w].job])
      BY <2>7, <3>1, Zenon DEF TypeOK
    <3>4. {"failed"} # {} /\ {"failed"} # {"completed", "failed"}
      BY SMTT(20)
    <3>. QED
      BY <2>6, <3>1, <3>2, <3>3, <3>4, Zenon DEF TypeOK
  <2>10. ASSUME NEW d, RescheduleJob(w, d) PROVE Done
    <3>1. /\ wk[w].pc = "marking" /\ Marked(w) /\ lost' = lost
          /\ wk[w].att < MaxAttempts
          /\ row' = [row EXCEPT ![wk[w].job] = RescheduledRow(row[wk[w].job], d)]
      BY <2>7, <2>10, Zenon DEF RescheduleJob, Update
    <3>2. LET r == RescheduledRow(row[wk[w].job], d) IN
          /\ r.attempts = row[wk[w].job].attempts
          /\ r.ended = {} /\ r.lockedBy = NULL
      BY <2>7, <3>1, Zenon DEF RescheduledRow, Row
    <3>3. row'[wk[w].job] = RescheduledRow(row[wk[w].job], d)
      BY <2>7, <3>1, Zenon DEF TypeOK
    <3>. QED
      BY <2>6, <2>7, <3>1, <3>2, <3>3, Zenon DEF TypeOK
  <2>11. CASE MarkFails(w)
    <3>1. wk[w].pc = "marking" /\ Marked(w) /\ row' = row
      BY <2>11, Zenon DEF MarkFails
    <3>2. /\ lost'[wk[w].job] = lost[wk[w].job] + 1
          /\ \A i \in Jobs \ {wk[w].job} : lost'[i] = lost[i]
      BY <2>7, <2>11, <3>1, Zenon DEF MarkFails, TypeOK
    <3>. QED
      BY <2>6, <2>7, <3>1, <3>2, Zenon
  <2>. QED
    BY <1>7, <2>1, <2>2, <2>3, <2>5, <2>8, <2>9, <2>10, <2>11, Zenon DEF WorkerStep
<1>8. ASSUME Tick PROVE Done
  <2>1. SameHolders
    <3>1. \A w \in Workers : wk'[w].pc = wk[w].pc /\ wk'[w].job = wk[w].job
      <4>. SUFFICES ASSUME NEW w \in Workers
                    PROVE  wk'[w].pc = wk[w].pc /\ wk'[w].job = wk[w].job
        BY Zenon
      <4>1. wk[w] \in Worker
        BY Zenon DEF TypeOK
      <4>2. wk'[w] = wk[w] \/ wk'[w] = [wk[w] EXCEPT !.elapsed = @ + 1]
        BY <1>8, Zenon DEF Tick
      <4>. QED
        BY <4>1, <4>2, Zenon DEF Worker
    <3>. QED
      BY <3>1, Zenon DEF Holds, Executing
  <2>2. \A j \in Jobs : SameRow(j)
    <3>. SUFFICES ASSUME NEW j \in Jobs PROVE SameRow(j)
      BY Zenon
    <3>1. PICK age, due : row'[j] = [row[j] EXCEPT !.lockAge = age, !.due = due]
      BY <1>8, Zenon DEF Tick
    <3>2. row[j] \in Row /\ lost' = lost
      BY <1>8, Zenon DEF TypeOK, Tick
    <3>. QED
      BY <3>1, <3>2, Zenon DEF Row
  <2>. QED
    BY <1>1, <2>1, <2>2, Zenon
<1>9. DownIsStopped'
  <2>. SUFFICES ASSUME NEW w \in Workers, proc'[w[1]] = "down"
                PROVE  wk'[w].pc = "stopped"
    BY Zenon DEF DownIsStopped
  <2>1. w[1] \in Procs /\ w = <<w[1], w[2]>> /\ w[2] \in Slots
    BY SMTT(40) DEF Workers
  <2>2. ASSUME proc' = proc, wk'[w] = wk[w] PROVE wk'[w].pc = "stopped"
    BY <2>2, Zenon DEF DownIsStopped
  <2>3. ASSUME NEW j \in Jobs, NEW d, Enqueue(j, d) \/ Purge(j)
        PROVE  wk'[w].pc = "stopped"
    BY <2>2, <2>3, Zenon DEF Enqueue, Purge
  <2>4. ASSUME NEW p \in Procs,
               Wake(p) \/ Shutdown(p) \/ Exit(p) \/ Crash(p) \/ Start(p)
        PROVE  wk'[w].pc = "stopped"
    BY <2>1, <2>4, SMTT(40) DEF Wake, Shutdown, Exit, Crash, Start, DownIsStopped,
                      Stopped, Idle, TypeOK
  <2>5. ASSUME NEW v \in Workers, WorkerStep(v) PROVE wk'[w].pc = "stopped"
    <3>1. /\ wk[v].pc # "stopped"
          /\ \A u \in Workers \ {v} : wk'[u] = wk[u]
          /\ proc' = proc
      BY <2>5, Zenon DEF WorkerStep, Receive, Poll, Stop, ClaimError, ClaimNone, Claim,
                  ClaimLost, HandlerReturns, MarkJobCompleted, MarkJobFailed,
                  MarkFails, RescheduleJob, Marked, TypeOK
    <3>. QED
      BY <3>1, Zenon DEF DownIsStopped
  <2>6. CASE Tick
    <3>1. proc' = proc /\ wk[w].pc = "stopped"
      BY <2>6, Zenon DEF Tick, DownIsStopped
    <3>. QED
      BY <2>2, <2>6, <3>1, Zenon DEF Tick, Executing
  <2>. QED
    BY <2>3, <2>4, <2>5, <2>6, Zenon DEF Next
<1>. QED
  BY <1>2, <1>3, <1>4, <1>5, <1>6, <1>7, <1>8, <1>9, Zenon DEF Next

\* The accounting holds while handlers stay inside the lease.
THEOREM AttemptsAccounted ==
    ASSUME JobTimeout + Overrun <= StaleWindow
    PROVE  Spec => [](DownIsStopped /\ Accounted /\ OneOutcome)
<1>1. Init => DownIsStopped /\ Accounted /\ OneOutcome
  <2>. SUFFICES ASSUME Init PROVE DownIsStopped /\ Accounted /\ OneOutcome
    BY Zenon
  <2>1. \A j \in Jobs : /\ row[j].attempts = 0 /\ row[j].lockedBy = NULL
                        /\ row[j].ended = {} /\ lost[j] = 0
    BY Zenon DEF Init, NoRow
  <2>2. DownIsStopped
    BY Zenon DEF Init, DownIsStopped, Workers
  <2>3. {} # {"completed", "failed"}
    BY Zenon
  <2>. QED
    BY <2>1, <2>2, <2>3, ConstantsAssumption, SMTT(40) DEF Accounted, OneOutcome, Finished
<1>2. /\ LeaseInv /\ TypeOK' /\ [Next]_vars
      /\ DownIsStopped /\ Accounted /\ OneOutcome
      => (DownIsStopped /\ Accounted /\ OneOutcome)'
  <2>1. CASE UNCHANGED vars
    BY <2>1, Zenon DEF vars, DownIsStopped, Accounted, OneOutcome, Holds, Executing, Finished
  <2>. QED
    BY <2>1, AccountStep, Zenon DEF AccountInv
<1>. QED
  BY <1>1, <1>2, LeaseKept, TypeCorrect, PTL DEF Spec

\* A row is attempted more than max_attempts times only on account of claims
\* whose outcome was lost: ClaimJob's unguarded attempts + 1 and the check that
\* runOne makes afterwards add up.
THEOREM AttemptsBounded ==
    ASSUME JobTimeout + Overrun <= StaleWindow
    PROVE  Spec => []AttemptBudget
<1>1. Accounted => AttemptBudget
  BY Zenon DEF Accounted, AttemptBudget
<1>. QED
  BY <1>1, AttemptsAccounted, PTL

\* completed_at and failed_at are never both set.
THEOREM OutcomesExclude ==
    ASSUME JobTimeout + Overrun <= StaleWindow
    PROVE  Spec => []OneOutcome
BY AttemptsAccounted, PTL

-----------------------------------------------------------------------------
(* The refinement *)

\* What the three marks do to the columns the status depends on.
LEMMA MarkedRows ==
    ASSUME NEW r \in Row
    PROVE  /\ CompletedRow(r).st = r.st
           /\ CompletedRow(r).ended = r.ended \cup {"completed"}
           /\ FailedRow(r).st = r.st
           /\ FailedRow(r).ended = r.ended \cup {"failed"}
           /\ \A d : RescheduledRow(r, d).st = r.st /\ RescheduledRow(r, d).ended = r.ended
BY Zenon DEF CompletedRow, FailedRow, RescheduledRow, Row

\* Time changes neither.
LEMMA TickKeeps ==
    ASSUME TypeOK, Tick, NEW j \in Jobs
    PROVE  row'[j].st = row[j].st /\ row'[j].ended = row[j].ended
BY Zenon DEF Tick, TypeOK, Row

Fresh == \A j \in Jobs : row[j].st = "none" => row[j].ended = {}

\* A row that has not been enqueued has not ended either.
LEMMA FreshStays == Spec => []Fresh
<1>1. Init => Fresh
  BY SMTT(40) DEF Init, Fresh, NoRow
<1>2. TypeOK /\ Fresh /\ [Next]_vars => Fresh'
  <2>. SUFFICES ASSUME TypeOK, Fresh, [Next]_vars, NEW j \in Jobs,
                       row'[j].st = "none"
                PROVE  row'[j].ended = {}
    BY Zenon DEF Fresh
  <2>. DEFINE Kept == row'[j] = row[j] \/ row'[j].st # "none"
  <2>1. ASSUME NEW i \in Jobs, NEW d, Enqueue(i, d) PROVE Kept
    BY <2>1 DEF Enqueue, TypeOK, Row
  <2>2. ASSUME NEW i \in Jobs, Purge(i) PROVE Kept
    BY <2>2 DEF Purge, TypeOK, Row
  <2>3. ASSUME NEW p \in Procs,
               Wake(p) \/ Shutdown(p) \/ Exit(p) \/ Crash(p) \/ Start(p)
        PROVE  Kept
    BY <2>3, Zenon DEF Wake, Shutdown, Exit, Crash, Start
  <2>4. ASSUME NEW w \in Workers, NEW k \in Kinds, NEW i \in Jobs,
               Claim(w, k, i) \/ ClaimLost(w, k, i)
        PROVE  Kept
    <3>1. row[i].st = "live" /\ row' = [row EXCEPT ![i] = ClaimedRow(row[i], w[1])]
      BY <2>4, Zenon DEF Claim, ClaimLost, Oldest, Claimable
    <3>. QED
      BY <3>1, SMTT(20) DEF ClaimedRow, TypeOK, Row
  <2>5. ASSUME NEW w \in Workers,
               \/ MarkJobCompleted(w) \/ MarkJobFailed(w)
               \/ \E d \in 0 .. MaxDue : RescheduleJob(w, d)
        PROVE  Kept
    <3>1. row[j] \in Row
      BY Zenon DEF TypeOK
    <3>2. PICK r : /\ Update(wk[w].job, r)
                   /\ \/ r = CompletedRow(row[wk[w].job])
                      \/ r = FailedRow(row[wk[w].job])
                      \/ \E d : r = RescheduledRow(row[wk[w].job], d)
      BY <2>5, Zenon DEF MarkJobCompleted, MarkJobFailed, RescheduleJob
    <3>3. CASE wk[w].job = j
      <4>1. r.st = row[j].st
        BY <3>1, <3>2, <3>3, MarkedRows, SMTT(40)
      <4>. QED
        BY <3>2, <3>3, <4>1 DEF Update, TypeOK
    <3>4. CASE wk[w].job # j
      BY <3>2, <3>4, Zenon DEF Update, TypeOK
    <3>. QED
      BY <3>3, <3>4, Zenon
  <2>6. ASSUME NEW w \in Workers,
               \/ Receive(w) \/ Poll(w) \/ Stop(w) \/ ClaimError(w) \/ MarkFails(w)
               \/ \E k \in Kinds : ClaimNone(w, k)
               \/ \E out \in {"ok", "err", "poison"} : HandlerReturns(w, out)
        PROVE  Kept
    BY <2>6, Zenon DEF Receive, Poll, Stop, ClaimError, MarkFails, ClaimNone, HandlerReturns
  <2>7. ASSUME Tick PROVE row'[j].st = row[j].st /\ row'[j].ended = row[j].ended
    BY <2>7, TickKeeps, Zenon
  <2>8. CASE UNCHANGED vars
    BY <2>8 DEF vars, Fresh
  <2>. QED
    BY <2>1, <2>2, <2>3, <2>4, <2>5, <2>6, <2>7, <2>8, Zenon DEF Next, WorkerStep, Fresh
<1>. QED
  BY <1>1, <1>2, TypeCorrect, PTL DEF Spec

\* The status of a row, one case at a time.
LEMMA StatusOf ==
    ASSUME NEW r
    PROVE  /\ r.st = "none" => Status(r) = "none"
           /\ r.st = "purged" => Status(r) = "forgotten"
           /\ r.st = "live" /\ r.ended = {} => Status(r) = "open"
           /\ r.st = "live" /\ "completed" \in r.ended => Status(r) = "completed"
           /\ r.st = "live" /\ r.ended = {"failed"} => Status(r) = "failed"
BY Zenon DEF Status, Finished

\* Rows that agree on st and ended have the same status.
LEMMA SameStatusOf ==
    ASSUME NEW r, NEW q, r.st = q.st, r.ended = q.ended
    PROVE  Status(r) = Status(q)
BY Zenon DEF Status, Finished

\* A step that changes no row's status and nobody's hands is a stutter of the
\* abstract queue.
LEMMA QueueStutters ==
    ASSUME \A j \in Jobs : Status(row[j])' = Status(row[j]),
           \A w \in Workers : InHand(w)' = InHand(w)
    PROVE  UNCHANGED <<[j \in Jobs |-> Status(row[j])],
                       [w \in Workers |-> InHand(w)]>>
BY Zenon

\* A step that changes no row's status and at most empties hands is a PutBack.
LEMMA QueuePutsBack ==
    ASSUME \A j \in Jobs : Status(row[j])' = Status(row[j]),
           \A w \in Workers : InHand(w)' \in {InHand(w), NULL}
    PROVE  Queue!Next
<1>. DEFINE some == {w \in Workers : InHand(w)' = NULL}
<1>1. [w \in Workers |-> InHand(w)]' =
        [w \in Workers |-> IF w \in some THEN NULL ELSE InHand(w)]
  BY Zenon
<1>2. Queue!PutBack(some)
  BY <1>1, Zenon DEF Queue!PutBack
<1>. QED
  BY <1>2, Zenon DEF Queue!Next

\* A step that changes the status of one row and nobody's hands.
LEMMA QueueMoves ==
    ASSUME NEW j \in Jobs,
           \/ Status(row[j]) = "none" /\ Status(row[j])' = "open"
           \/ Status(row[j]) \in {"completed", "failed"} /\ Status(row[j])' = "forgotten",
           \A i \in Jobs \ {j} : Status(row[i])' = Status(row[i]),
           \A w \in Workers : InHand(w)' = InHand(w)
    PROVE  Queue!Next
<1>1. [i \in Jobs |-> Status(row[i])]' =
        [[i \in Jobs |-> Status(row[i])] EXCEPT ![j] = Status(row[j])']
  BY Zenon
<1>2. Queue!Submit(j) \/ Queue!Forget(j)
  BY <1>1, Zenon DEF Queue!Submit, Queue!Forget
<1>. QED
  BY <1>2, Zenon DEF Queue!Next

\* A step that puts an open row nobody has into an empty hand.
LEMMA QueueTakes ==
    ASSUME NEW w \in Workers, NEW j \in Jobs,
           Status(row[j]) = "open",
           InHand(w) = NULL, InHand(w)' = j,
           \A v \in Workers : InHand(v) # j,
           \A v \in Workers \ {w} : InHand(v)' = InHand(v),
           \A i \in Jobs : Status(row[i])' = Status(row[i])
    PROVE  Queue!Next
<1>1. [v \in Workers |-> InHand(v)]' =
        [[v \in Workers |-> InHand(v)] EXCEPT ![w] = j]
  BY Zenon
<1>2. Queue!Take(w, j)
  BY <1>1, Zenon DEF Queue!Take
<1>. QED
  BY <1>2, Zenon DEF Queue!Next

\* A step that ends the row a worker has and empties its hand.
LEMMA QueueFinishes ==
    ASSUME NEW w \in Workers, NEW j \in Jobs, NEW outcome \in {"completed", "failed"},
           InHand(w) = j, InHand(w)' = NULL,
           Status(row[j]) = "open", Status(row[j])' = outcome,
           \A i \in Jobs \ {j} : Status(row[i])' = Status(row[i]),
           \A v \in Workers \ {w} : InHand(v)' = InHand(v)
    PROVE  Queue!Next
<1>1. [v \in Workers |-> InHand(v)]' =
        [[v \in Workers |-> InHand(v)] EXCEPT ![w] = NULL]
  BY Zenon
<1>2. [i \in Jobs |-> Status(row[i])]' =
        [[i \in Jobs |-> Status(row[i])] EXCEPT ![j] = outcome]
  BY Zenon
<1>3. Queue!Finish(w, outcome)
  BY <1>1, <1>2, Zenon DEF Queue!Finish
<1>. QED
  BY <1>3, Zenon DEF Queue!Next

\* Where a worker is between two jobs, it has none.
LEMMA HandsEmpty ==
    /\ Idle.pc = "idle" /\ Stopped.pc = "stopped"
    /\ \A todo, ran : NextKind(todo, ran).pc \in {"idle", "drain"}
BY Zenon DEF Idle, Stopped, NextKind, Draining

\* Every step of the queue is a step of the abstract queue or a stutter.
LEMMA QueueStep ==
    ASSUME JobTimeout + Overrun <= StaleWindow, AccountInv, Fresh, AccountInv', Next
    PROVE  \/ Queue!Next
           \/ UNCHANGED <<[j \in Jobs |-> Status(row[j])],
                          [w \in Workers |-> InHand(w)]>>
<1>. USE DEF AccountInv, LeaseInv
<1>. DEFINE SameStatus == \A j \in Jobs : Status(row[j])' = Status(row[j])
            SameHands == \A w \in Workers : InHand(w)' = InHand(w)
            Goal == \/ Queue!Next
                    \/ UNCHANGED <<[j \in Jobs |-> Status(row[j])],
                                   [w \in Workers |-> InHand(w)]>>
<1>1. ASSUME NEW j \in Jobs, NEW d, Enqueue(j, d) PROVE Goal
  <2>1. /\ row[j].st = "none" /\ row'[j].st = "live"
        /\ row'[j].ended = {}
    BY <1>1, SMTT(40) DEF Enqueue, TypeOK, Row, Fresh
  <2>2. Status(row[j]) = "none" /\ Status(row'[j]) = "open"
    BY <2>1, StatusOf, Zenon
  <2>3. \A i \in Jobs \ {j} : row'[i] = row[i]
    BY <1>1, Zenon DEF Enqueue, TypeOK
  <2>4. SameHands
    BY <1>1, Zenon DEF Enqueue, InHand, Executing
  <2>. QED
    BY <2>2, <2>3, <2>4, QueueMoves, Zenon
<1>2. ASSUME NEW j \in Jobs, Purge(j) PROVE Goal
  <2>1. /\ row[j].st = "live" /\ row[j].ended \in {{"completed"}, {"failed"}}
        /\ row'[j].st = "purged"
    BY <1>2, SMTT(40) DEF Purge, TypeOK, Row, Finished, OneOutcome
  <2>2. Status(row[j]) \in {"completed", "failed"} /\ Status(row'[j]) = "forgotten"
    BY <2>1, StatusOf, Zenon
  <2>3. \A i \in Jobs \ {j} : row'[i] = row[i]
    BY <1>2, Zenon DEF Purge, TypeOK
  <2>4. SameHands
    BY <1>2, Zenon DEF Purge, InHand, Executing
  <2>. QED
    BY <2>2, <2>3, <2>4, QueueMoves, Zenon
<1>3. ASSUME NEW p \in Procs, Wake(p) \/ Shutdown(p) \/ Exit(p) PROVE Goal
  <2>1. SameStatus /\ SameHands
    BY <1>3, Zenon DEF Wake, Shutdown, Exit, InHand, Executing
  <2>. QED
    BY <2>1, QueueStutters, Zenon
<1>4. ASSUME NEW p \in Procs, Start(p) PROVE Goal
  <2>1. SameHands
    BY <1>4, HandsEmpty, Zenon DEF Start, DownIsStopped, InHand, Executing
  <2>. QED
    BY <1>4, <2>1, QueueStutters, Zenon DEF Start
<1>5. ASSUME NEW p \in Procs, Crash(p) PROVE Goal
  <2>1. \A w \in Workers : InHand(w)' \in {InHand(w), NULL}
    BY <1>5, HandsEmpty, Zenon DEF Crash, InHand, Executing
  <2>. QED
    BY <1>5, <2>1, QueuePutsBack, Zenon DEF Crash
<1>6. ASSUME NEW w \in Workers,
             \/ Receive(w) \/ Poll(w) \/ Stop(w) \/ ClaimError(w)
             \/ \E k \in Kinds : ClaimNone(w, k)
             \/ \E out \in {"ok", "err", "poison"} : HandlerReturns(w, out)
      PROVE  Goal
  <2>1. SameStatus
    BY <1>6, Zenon DEF Receive, Poll, Stop, ClaimError, ClaimNone, HandlerReturns
  <2>2. SameHands
    <3>1. CASE \E out \in {"ok", "err", "poison"} : HandlerReturns(w, out)
      BY <3>1, SMTT(40) DEF HandlerReturns, InHand, Executing, TypeOK, Worker
    <3>2. CASE \/ Receive(w) \/ Poll(w) \/ Stop(w) \/ ClaimError(w)
               \/ \E k \in Kinds : ClaimNone(w, k)
      <4>1. /\ wk[w].pc \in {"idle", "drain"}
            /\ wk'[w].pc \in {"idle", "drain", "stopped"}
            /\ \A v \in Workers \ {w} : wk'[v] = wk[v]
        <5>1. CASE Receive(w) \/ Poll(w)
          BY <5>1, Zenon DEF Receive, Poll, TypeOK, Draining, Idle
        <5>2. CASE Stop(w) \/ ClaimError(w)
          BY <5>2, HandsEmpty, Zenon DEF Stop, ClaimError, TypeOK
        <5>3. CASE \E k \in Kinds : ClaimNone(w, k)
          BY <5>3, HandsEmpty, SMTT(40) DEF ClaimNone, TypeOK
        <5>. QED
          BY <3>2, <5>1, <5>2, <5>3, Zenon
      <4>. QED
        BY <4>1, Zenon DEF InHand, Executing
    <3>. QED
      BY <1>6, <3>1, <3>2
  <2>. QED
    BY <2>1, <2>2, QueueStutters, Zenon
<1>7. ASSUME NEW w \in Workers, NEW k \in Kinds, NEW j \in Jobs,
             Claim(w, k, j) \/ ClaimLost(w, k, j)
      PROVE  Goal
  <2>1. /\ Claimable(row[j])
        /\ wk[w].pc = "drain"
        /\ row' = [row EXCEPT ![j] = ClaimedRow(row[j], w[1])]
    BY <1>7, Zenon DEF Claim, ClaimLost, Oldest
  <2>2. Status(row[j]) = "open"
    BY <2>1, StatusOf, Zenon DEF Claimable, Finished
  <2>3. \A i \in Jobs : row'[i].st = row[i].st /\ row'[i].ended = row[i].ended
    BY <2>1, SMTT(40) DEF ClaimedRow, TypeOK, Row
  <2>4. SameStatus
    BY <2>3, SameStatusOf, Zenon
  <2>5. CASE Claim(w, k, j)
    <3>1. \A v \in Workers : InHand(v) # j
      BY <2>1, HeldNotClaimable, ConstantsAssumption, Zenon DEF InHand, Holds
    <3>2. InHand(w) = NULL
      BY <2>1, Zenon DEF InHand, Executing
    <3>3. wk'[w].pc = "running" /\ wk'[w].job = j
      BY <2>5, SMTT(40) DEF Claim, Running, TypeOK, Worker
    <3>4. InHand(w)' = j
      BY <3>3, Zenon DEF InHand, Executing
    <3>5. \A v \in Workers \ {w} : InHand(v)' = InHand(v)
      BY <2>5, Zenon DEF Claim, InHand, Executing, TypeOK
    <3>. QED
      BY <2>2, <2>4, <3>1, <3>2, <3>4, <3>5, QueueTakes, Zenon
  <2>6. CASE ClaimLost(w, k, j)
    <3>1. wk'[w].pc = "idle" /\ \A v \in Workers \ {w} : wk'[v] = wk[v]
      BY <2>6, HandsEmpty, Zenon DEF ClaimLost, TypeOK
    <3>2. SameHands
      BY <2>1, <3>1, Zenon DEF InHand, Executing
    <3>. QED
      BY <2>4, <3>2, QueueStutters, Zenon
  <2>. QED
    BY <1>7, <2>5, <2>6, Zenon
<1>8. ASSUME NEW w \in Workers, wk[w].pc = "marking", Marked(w)
      PROVE  /\ wk[w].job \in Jobs /\ InHand(w) = wk[w].job
             /\ row[wk[w].job].st = "live" /\ row[wk[w].job].ended = {}
             /\ Status(row[wk[w].job]) = "open"
             /\ InHand(w)' = NULL
             /\ \A v \in Workers \ {w} : InHand(v)' = InHand(v)
  <2>1. /\ wk[w].job \in Jobs
        /\ row[wk[w].job].st = "live" /\ row[wk[w].job].ended = {}
    BY <1>8, Zenon DEF HolderHasLease, Executing, Finished
  <2>2. InHand(w) = wk[w].job
    BY <1>8, Zenon DEF InHand, Executing
  <2>3. wk'[w].pc \in {"idle", "drain"} /\ \A v \in Workers \ {w} : wk'[v] = wk[v]
    BY <1>8, HandsEmpty, Zenon DEF Marked, TypeOK
  <2>4. InHand(w)' = NULL /\ \A v \in Workers \ {w} : InHand(v)' = InHand(v)
    BY <2>3, Zenon DEF InHand, Executing
  <2>. QED
    BY <2>1, <2>2, <2>4, StatusOf, Zenon
<1>9. ASSUME NEW w \in Workers, MarkJobCompleted(w) \/ MarkJobFailed(w) PROVE Goal
  <2>. DEFINE j == wk[w].job
  <2>1. wk[w].pc = "marking" /\ Marked(w)
    BY <1>9, Zenon DEF MarkJobCompleted, MarkJobFailed
  <2>2. j \in Jobs /\ row[j].st = "live" /\ row[j].ended = {}
    BY <1>8, <2>1, Zenon
  <2>3. /\ row'[j].st = "live" /\ row'[j].ended \in {{"completed"}, {"failed"}}
        /\ \A i \in Jobs \ {j} : row'[i] = row[i]
    <3>1. row[j] \in Row
      BY <2>2, Zenon DEF TypeOK
    <3>2. PICK r : /\ row' = [row EXCEPT ![j] = r]
                   /\ r = CompletedRow(row[j]) \/ r = FailedRow(row[j])
      BY <1>9, <2>2, Zenon DEF MarkJobCompleted, MarkJobFailed, Update
    <3>3. r.st = "live" /\ r.ended \in {{"completed"}, {"failed"}}
      BY <2>2, <3>1, <3>2, MarkedRows, Zenon
    <3>. QED
      BY <2>2, <3>2, <3>3, Zenon DEF TypeOK
  <2>4. Status(row'[j]) \in {"completed", "failed"}
    BY <2>3, StatusOf, Zenon
  <2>. HIDE DEF j
  <2>5. InHand(w) = j /\ InHand(w)' = NULL /\ Status(row[j]) = "open"
    BY <1>8, <2>1, Zenon DEF j
  <2>6. \A v \in Workers \ {w} : InHand(v)' = InHand(v)
    BY <1>8, <2>1, Zenon
  <2>. QED
    BY <2>2, <2>3, <2>4, <2>5, <2>6, QueueFinishes, Zenon
<1>10. ASSUME NEW w \in Workers,
              MarkFails(w) \/ \E d \in 0 .. MaxDue : RescheduleJob(w, d)
       PROVE  Goal
  <2>1. wk[w].pc = "marking" /\ Marked(w)
    BY <1>10, Zenon DEF MarkFails, RescheduleJob
  <2>2. \A i \in Jobs : row'[i].st = row[i].st /\ row'[i].ended = row[i].ended
    <3>1. CASE MarkFails(w)
      BY <3>1, Zenon DEF MarkFails
    <3>2. ASSUME NEW d \in 0 .. MaxDue, RescheduleJob(w, d)
          PROVE  \A i \in Jobs : row'[i].st = row[i].st /\ row'[i].ended = row[i].ended
      <4>0. wk[w].job \in Jobs /\ row \in [Jobs -> Row]
        <5>1. wk[w].job \in Jobs
          BY <1>8, <2>1, Zenon
        <5>2. row \in [Jobs -> Row]
          BY Zenon DEF TypeOK
        <5>. QED
          BY <5>1, <5>2, Zenon
      <4>1. row[wk[w].job] \in Row
        BY <4>0, Zenon
      <4>2. row' = row \/ row' = [row EXCEPT ![wk[w].job] =
                                       RescheduledRow(row[wk[w].job], d)]
        BY <3>2, Zenon DEF RescheduleJob, Update
      <4>3. /\ RescheduledRow(row[wk[w].job], d).st = row[wk[w].job].st
            /\ RescheduledRow(row[wk[w].job], d).ended = row[wk[w].job].ended
        BY <4>1, MarkedRows, Zenon
      <4>. QED
        BY <4>0, <4>2, <4>3, Zenon
    <3>. QED
      BY <1>10, <3>1, <3>2, Zenon
  <2>3. SameStatus
    BY <2>2, SameStatusOf, Zenon
  <2>4. \A v \in Workers : InHand(v)' \in {InHand(v), NULL}
    BY <1>8, <2>1, Zenon
  <2>. QED
    BY <2>3, <2>4, QueuePutsBack, Zenon
<1>11. ASSUME Tick PROVE Goal
  <2>1. \A i \in Jobs : row'[i].st = row[i].st /\ row'[i].ended = row[i].ended
    BY <1>11, TickKeeps, Zenon
  <2>2. SameStatus
    BY <2>1, SameStatusOf, Zenon
  <2>3. SameHands
    <3>1. ASSUME NEW w \in Workers PROVE wk'[w].pc = wk[w].pc /\ wk'[w].job = wk[w].job
      <4>1. wk[w] \in Worker
        BY Zenon DEF TypeOK
      <4>2. wk'[w] = IF Executing(w) THEN [wk[w] EXCEPT !.elapsed = @ + 1] ELSE wk[w]
        BY <1>11, Zenon DEF Tick
      <4>. QED
        BY <4>1, <4>2, Zenon DEF Worker
    <3>. QED
      BY <3>1, Zenon DEF InHand, Executing
  <2>. QED
    BY <2>2, <2>3, QueueStutters, Zenon
<1>. QED
  BY <1>1, <1>2, <1>3, <1>4, <1>5, <1>6, <1>7, <1>9, <1>10, <1>11, ZenonT(30) DEF Next, WorkerStep

\* As long as handlers and their marks finish inside the lease, the table, its
\* statements and the pool implement the abstract queue: a job is in the hands
\* of one worker at a time and is finished once, by the worker that has it.
THEOREM QueueImplemented ==
    ASSUME JobTimeout + Overrun <= StaleWindow
    PROVE  Spec => ImplementsQueue
<1>1. Init => Queue!Init
  <2>. SUFFICES ASSUME Init PROVE Queue!Init
    BY Zenon
  <2>1. \A j \in Jobs : Status(row[j]) = "none"
    BY StatusOf, Zenon DEF Init, NoRow
  <2>2. \A w \in Workers : InHand(w) = NULL
    BY HandsEmpty, Zenon DEF Init, InHand, Executing
  <2>. QED
    BY <2>1, <2>2, Zenon DEF Queue!Init
<1>2. ASSUME AccountInv, AccountInv', Fresh, [Next]_vars
      PROVE  [Queue!Next]_<<[j \in Jobs |-> Status(row[j])],
                            [w \in Workers |-> InHand(w)]>>
  <2>1. CASE UNCHANGED vars
    BY <2>1, QueueStutters, Zenon DEF vars, InHand, Executing
  <2>. QED
    BY <1>2, <2>1, QueueStep, Zenon
<1>. QED
  BY <1>1, <1>2, FreshStays, LeaseKept, AttemptsAccounted, PTL
  DEF Spec, AccountInv, ImplementsQueue, Queue!Spec

-----------------------------------------------------------------------------
(* What holds with or without the lease *)

\* The marks leave attempts alone.
LEMMA MarksKeepAttempts ==
    ASSUME NEW r \in Row
    PROVE  /\ CompletedRow(r).attempts = r.attempts
           /\ FailedRow(r).attempts = r.attempts
           /\ \A d : RescheduledRow(r, d).attempts = r.attempts
BY Zenon DEF CompletedRow, FailedRow, RescheduledRow, Row

\* Even where handlers outlive their lease and two of them mark one row, a row
\* that has ended is not claimed again and does not lose how it ended.
THEOREM FinishedForGood == Spec => FinishedIsFinal
<1>1. ASSUME TypeOK, [Next]_vars, NEW j \in Jobs, Finished(row[j])
      PROVE  /\ row'[j].attempts = row[j].attempts
             /\ row[j].ended \subseteq row'[j].ended
  <2>. DEFINE Kept == /\ row'[j].attempts = row[j].attempts
                      /\ row[j].ended \subseteq row'[j].ended
  <2>1. ASSUME NEW i \in Jobs, NEW d, Enqueue(i, d) PROVE Kept
    BY <1>1, <2>1 DEF Enqueue, TypeOK, Row
  <2>2. ASSUME NEW i \in Jobs, Purge(i) PROVE Kept
    BY <1>1, <2>2 DEF Purge, TypeOK, Row
  <2>3. ASSUME NEW p \in Procs,
               Wake(p) \/ Shutdown(p) \/ Exit(p) \/ Crash(p) \/ Start(p)
        PROVE  Kept
    BY <2>3, Zenon DEF Wake, Shutdown, Exit, Crash, Start
  <2>4. ASSUME NEW w \in Workers, NEW k \in Kinds, NEW i \in Jobs,
               Claim(w, k, i) \/ ClaimLost(w, k, i)
        PROVE  Kept
    <3>1. ~Finished(row[i]) /\ row' = [row EXCEPT ![i] = ClaimedRow(row[i], w[1])]
      BY <2>4, Zenon DEF Claim, ClaimLost, Oldest, Claimable
    <3>. QED
      BY <1>1, <3>1, Zenon DEF TypeOK
  <2>5. ASSUME NEW w \in Workers,
               \/ MarkJobCompleted(w) \/ MarkJobFailed(w)
               \/ \E d \in 0 .. MaxDue : RescheduleJob(w, d)
        PROVE  Kept
    <3>1. row[j] \in Row
      BY <1>1, Zenon DEF TypeOK
    <3>2. PICK r : /\ Update(wk[w].job, r)
                   /\ \/ r = CompletedRow(row[wk[w].job])
                      \/ r = FailedRow(row[wk[w].job])
                      \/ \E d : r = RescheduledRow(row[wk[w].job], d)
      BY <2>5, Zenon DEF MarkJobCompleted, MarkJobFailed, RescheduleJob
    <3>3. CASE wk[w].job = j
      <4>1. r.attempts = row[j].attempts /\ row[j].ended \subseteq r.ended
        BY <3>1, <3>2, <3>3, MarkedRows, MarksKeepAttempts, SMTT(40)
      <4>. QED
        BY <1>1, <3>2, <3>3, <4>1, Zenon DEF Update, TypeOK
    <3>4. CASE wk[w].job # j
      BY <1>1, <3>2, <3>4, Zenon DEF Update, TypeOK
    <3>. QED
      BY <3>3, <3>4, Zenon
  <2>6. ASSUME NEW w \in Workers,
               \/ Receive(w) \/ Poll(w) \/ Stop(w) \/ ClaimError(w) \/ MarkFails(w)
               \/ \E k \in Kinds : ClaimNone(w, k)
               \/ \E out \in {"ok", "err", "poison"} : HandlerReturns(w, out)
        PROVE  Kept
    BY <2>6, Zenon DEF Receive, Poll, Stop, ClaimError, MarkFails, ClaimNone, HandlerReturns
  <2>7. ASSUME Tick PROVE Kept
    BY <1>1, <2>7, Zenon DEF Tick, TypeOK, Row
  <2>8. CASE UNCHANGED vars
    BY <2>8, Zenon DEF vars
  <2>. QED
    BY <1>1, <2>1, <2>2, <2>3, <2>4, <2>5, <2>6, <2>7, <2>8, Zenon DEF Next, WorkerStep
<1>2. TypeOK /\ [Next]_vars =>
        [\A j \in Jobs : Finished(row[j]) =>
            /\ row'[j].attempts = row[j].attempts
            /\ row[j].ended \subseteq row'[j].ended]_vars
  BY <1>1, Zenon
<1>. QED
  BY <1>2, TypeCorrect, PTL DEF Spec, FinishedIsFinal
=============================================================================
