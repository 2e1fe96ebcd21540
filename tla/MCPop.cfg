SPECIFICATION Spec
CONSTANTS
    p1 = p1
    p2 = p2
    p3 = p3
    n1 = n1
    n2 = n2
    Workers = {w1, w2}
    Proofs = {p1, p2, p3}
    NoProof = none
    Nonces = {n1, n2}
    nonce <- MCnonce
    ts <- MCts
    NonceTTL = 3
    ClockSkew = 1
    MaxStall = 1
    MaxTime = 12
SYMMETRY WorkerSymmetry
INVARIANTS ReplayRejected
CHECK_DEADLOCK FALSE
