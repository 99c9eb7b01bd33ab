-------------------------- MODULE MCWorkflowRuns --------------------------
(* Instances of WorkflowRuns for TLC: which jobs make up which run. *)
EXTENDS WorkflowRuns, TLC

\* one job per run
Single == [j \in Jobs |-> j]

\* two jobs in run 1, one in run 2
Pair == [j \in Jobs |-> IF j = 3 THEN 2 ELSE 1]

\* all jobs in run 1
Together == [j \in Jobs |-> 1]

NoNeeds == [j \in Jobs |-> {}]

\* the last job needs all the others
Join == [j \in Jobs |-> IF j = Cardinality(Jobs) THEN Jobs \ {j} ELSE {}]

Symmetric == Permutations(Sessions) \cup Permutations(Runners)

\* one runner at a time is drained or revoked
OneAdministered == Cardinality({n \in Runners : runner[n] # "active"}) <= 1
=============================================================================
