----------------------------- MODULE MCJobQueue -----------------------------
(* Small instances of JobQueue for TLC. *)
EXTENDS JobQueue

CONSTANTS p1, p2, s1, s2, k1, k2, j1, j2

\* Both rows compete for the same claim query.
OneKind == [j \in Jobs |-> k1]

\* One row per kind, so that a pass of tryClaimAndRun visits several kinds.
TwoKinds == [j \in Jobs |-> IF j = j1 THEN k1 ELSE k2]
=============================================================================
