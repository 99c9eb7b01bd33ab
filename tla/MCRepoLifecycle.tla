-------------------------- MODULE MCRepoLifecycle --------------------------
(* Small instances of RepoLifecycle for TLC. *)
EXTENDS RepoLifecycle, TLC

CONSTANTS o1, o2, n1, n2, s1, s2

\* States no property speaks of are not extended.  Repositories are created at
\* one place and reach the others by rename and transfer, of which there are at
\* most MaxRedirects that leave a redirect.
MaxRedirects == 1
Home == <<o1, n1>>
Relevant ==
    /\ clean
    /\ \A s \in Sessions : Inserting(s) => sess[s].at = Home
    /\ Cardinality({p \in Place : redirect[p] # None}) <= MaxRedirects

Symmetric == Permutations(Sessions)
=============================================================================
