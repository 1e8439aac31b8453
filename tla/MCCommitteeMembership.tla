------------------------ MODULE MCCommitteeMembership ------------------------
(* A small instance of CommitteeMembership for TLC: three people, two open *)
(* transactions, role sets with and without the co-chair role.             *)
EXTENDS CommitteeMembership, TLC

CONSTANTS u1, u2, u3, t1, t2

MCUsers == {u1, u2, u3}
MCTxs == {t1, t2}
MCRoleSets == {{}, {"worker_member"}, {"worker_co_chair"}}
MCSymmetry == Permutations(MCUsers \ {Founder}) \cup Permutations(MCTxs)
=============================================================================
