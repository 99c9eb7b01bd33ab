--------------------------- MODULE MCPullRequests ---------------------------
(* Pull requests on small instances. *)
EXTENDS PullRequests, TLC

Symmetric == Permutations(Procs) \cup Permutations(PRs)

CONSTANTS topic, fix

\* topic and fix are one commit ahead of the default branch.
Ahead == [b \in Branches |-> IF b = topic THEN 1 ELSE IF b = fix THEN 2 ELSE 0]

\* The default branch is protected from force pushes, the others are not.
Protected == [b \in Branches |-> IF b = Default THEN {"force"} ELSE {}]

\* Requests are for the default branch to begin with, and one that is from the
\* default branch is alone.  Faults count against the user's requests.
Opening(s) == proc[s].step \in {"probe", "insert"}
Relevant ==
    /\ requests + faults <= MaxRequests
    /\ \A p, q \in PRs : p # q /\ Opened(p) /\ Opened(q) => pr[p].head # Default
    /\ \A s \in Procs : Opening(s) /\ proc[s].head = Default =>
          (\A p \in PRs : ~Opened(p)) /\ \A t \in Procs \ {s} : ~Opening(t)
    /\ \A s \in Procs, p \in PRs : Opening(s) /\ Opened(p) => pr[p].head # Default

\* States are explored once when they differ only in what nothing reads any
\* more: which verdict other than clean a row shows, default_branch_oid once
\* its moves overlapped, and the overlaps once a fault has happened.
Spoilt == mixed \/ faults > 0
View == <<[p \in PRs |-> IF Opened(p) /\ pr[p].verdict # "clean"
                         THEN [pr[p] EXCEPT !.verdict = "unknown"] ELSE pr[p]],
          tip, anc, has, events, syncs, proc, faults, requests,
          landed, torn, moved, Spoilt, updated,
          IF Spoilt THEN 0 ELSE doid, IF faults > 0 THEN {} ELSE crossed>>
=============================================================================
