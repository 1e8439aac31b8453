------------------------ MODULE MCCommitteeKeyServer ------------------------
(* A small instance of CommitteeKeyServer for TLC. *)
EXTENDS CommitteeKeyServer, TLC

CONSTANTS a, b, k1, k2, m1, m2

MCUsers == {a, b}
MCKeyIds == {k1, k2}
MCMaterials == {m1, m2}
MCCounts == {1}
MCMembers == {a, b}
MCChairs == {a}
Symmetry == Permutations(MCKeyIds) \cup Permutations(MCMaterials)

(* The history tables only grow; what the properties need is a few rows:   *)
(* two wraps, one archived or in flight with a purge, one completion.      *)
Bounded ==
  /\ Cardinality(wraps) <= 2
  /\ Cardinality(archive) + Cardinality(granting) + Cardinality(purging) <= 2
  /\ Cardinality(completed) <= 1
  /\ enrolled # Users => Minted = {}
=============================================================================
