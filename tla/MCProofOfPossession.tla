------------------------ MODULE MCProofOfPossession ------------------------
(* Instances of ProofOfPossession for TLC. *)
EXTENDS ProofOfPossession, TLC

CONSTANTS p1, p2, p3, n1, n2

\* p1 and p2 carry the same nonce, with different timestamps.
MCnonce == [p \in Proofs |-> IF p = p3 THEN n2 ELSE n1]
MCts == [p \in Proofs |-> CASE p = p1 -> 1 [] p = p2 -> 6 [] p = p3 -> 3]
WorkerSymmetry == Permutations(Workers)
=============================================================================
