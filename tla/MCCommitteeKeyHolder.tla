------------------------ MODULE MCCommitteeKeyHolder ------------------------
(* A small instance of CommitteeKeyHolder for TLC. *)
EXTENDS CommitteeKeyHolder, TLC

CONSTANTS k1, k2, k3, b1, b2, b3, b4

MCKeyIds == {k1, k2, k3}
MCBuffers == {b1, b2, b3, b4}
MCEpochOf == k1 :> 1 @@ k2 :> 2 @@ k3 :> 3
BufferSymmetry == Permutations(MCBuffers)

=============================================================================
