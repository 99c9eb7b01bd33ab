----------------------------- MODULE WorkQueue ------------------------------
(***************************************************************************)
(* What docs/internal/worker.md promises of the job queue, with no leases, *)
(* clocks, processes or retries in it: a job is open from the moment it is *)
(* submitted, is in at most one worker's hands at a time, goes back to the *)
(* queue when a worker loses it or gives it up, and ends once, completed   *)
(* or failed, by the hand of the worker that has it.                       *)
(***************************************************************************)
CONSTANTS Jobs, Workers, NULL

VARIABLES
    status,     \* of each job
    hand        \* the job each worker has, or NULL

Init ==
    /\ status = [j \in Jobs |-> "none"]
    /\ hand = [w \in Workers |-> NULL]

Submit(j) ==
    /\ status[j] = "none"
    /\ status' = [status EXCEPT ![j] = "open"]
    /\ UNCHANGED hand

Take(w, j) ==
    /\ status[j] = "open"
    /\ hand[w] = NULL
    /\ \A v \in Workers : hand[v] # j
    /\ hand' = [hand EXCEPT ![w] = j]
    /\ UNCHANGED status

\* The worker has nothing in its hands afterwards, and nobody else had the job.
Finish(w, outcome) ==
    /\ hand[w] \in Jobs
    /\ status[hand[w]] = "open"
    /\ status' = [status EXCEPT ![hand[w]] = outcome]
    /\ hand' = [hand EXCEPT ![w] = NULL]

\* Some workers at once: a process that dies has many.
PutBack(some) ==
    /\ hand' = [w \in Workers |-> IF w \in some THEN NULL ELSE hand[w]]
    /\ UNCHANGED status

Forget(j) ==
    /\ status[j] \in {"completed", "failed"}
    /\ status' = [status EXCEPT ![j] = "forgotten"]
    /\ UNCHANGED hand

Next ==
    \/ \E j \in Jobs : Submit(j) \/ Forget(j)
    \/ \E w \in Workers, j \in Jobs : Take(w, j)
    \/ \E w \in Workers, outcome \in {"completed", "failed"} : Finish(w, outcome)
    \/ \E some \in SUBSET Workers : PutBack(some)

Spec == Init /\ [][Next]_<<status, hand>>
=============================================================================
