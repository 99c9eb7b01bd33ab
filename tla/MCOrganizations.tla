-------------------------- MODULE MCOrganizations --------------------------
(* Accounts and organizations on small instances. *)
EXTENDS Organizations, TLC

CONSTANTS u1, u2, o1, a, b, m1, m2, s1, s2

\* The users are told apart by their addresses, the two addresses by nothing.
Symmetric == Permutations(Addresses) \cup Permutations(Slugs) \cup Permutations(Procs)

\* Both addresses are verified by the second user, who is invited by name as a
\* member and through either address as an owner.
Second == [m \in Addresses |-> u2]
ThreeLetters == {<<u2, "member">>, <<m1, "owner">>, <<m2, "owner">>}

\* Bound: an instance explores either renamed and deleted accounts or
\* invitations and changes of members, with organizations in both.
Apart ==
    \/ issued = 0 /\ \A s \in Procs : proc[s].at \notin {"count", "change", "invite"}
    \/ redirects = {} /\ usurped = {} /\ \A u \in Users : ~Fallen(user[u])
=============================================================================
