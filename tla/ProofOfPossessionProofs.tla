---------------------- MODULE ProofOfPossessionProofs ----------------------
(* No proof is accepted twice, for every set of workers, proofs and nonces. *)
EXTENDS ProofOfPossession, TLAPS

\* Either the nonce of an accepted proof is still cached, with an entry young
\* enough to outlive the proof's freshness, or the proof is stale already.
Guarded(p) ==
    \/ nonce[p] \in DOMAIN entries /\ ts[p] <= entries[nonce[p]] + MaxStall + ClockSkew
    \/ now > ts[p] + ClockSkew

\* A handler between the two steps holds the only claim on its nonce.
Holds(w) ==
    LET p == pending[w].proof IN
    /\ nonce[p] \in DOMAIN entries
    /\ entries[nonce[p]] = pending[w].since
    /\ pending[w].since <= now /\ now <= pending[w].since + MaxStall
    /\ uses[p] > 0 => now > ts[p] + ClockSkew
    /\ \A v \in Pending : v # w => nonce[pending[v].proof] # nonce[p]

\* The inductive invariant.
PopInv ==
    /\ TypeOK
    /\ ReplayRejected
    /\ \A p \in Proofs : uses[p] > 0 => Guarded(p)
    /\ \A w \in Pending : Holds(w)

LEMMA PopInit == Init => PopInv
  BY PopAssumption DEF Init, PopInv, TypeOK, ReplayRejected, Pending

LEMMA StoreStep ==
    ASSUME PopInv, NEW w \in Workers, NEW p \in Proofs, CheckAndStore(w, p)
    PROVE  PopInv'
  <1>1. /\ DOMAIN entries' = DOMAIN entries \cup {nonce[p]} /\ entries'[nonce[p]] = now
        /\ \A k \in DOMAIN entries : entries'[k] = entries[k]
        /\ now' = now /\ uses' = uses /\ nonce[p] \in Nonces /\ nonce[p] \notin DOMAIN entries
    BY PopAssumption DEF CheckAndStore
  <1>2. /\ pending'[w] = [proof |-> p, since |-> now]
        /\ \A v \in Workers : v # w => pending'[v] = pending[v]
        /\ Pending' = Pending \cup {w} /\ w \notin Pending
    BY PopAssumption DEF CheckAndStore, PopInv, TypeOK, Pending
  <1>3. TypeOK'
    <2>1. entries' \in [DOMAIN entries' -> Nat] /\ DOMAIN entries' \subseteq Nonces
      BY PopAssumption DEF CheckAndStore, PopInv, TypeOK
    <2>2. pending' \in [Workers -> [proof : Proofs \cup {NoProof}, since : Nat]]
      BY DEF CheckAndStore, PopInv, TypeOK
    <2> QED BY <1>1, <2>1, <2>2 DEF PopInv, TypeOK
  <1>4. \A q \in Proofs : uses'[q] > 0 => Guarded(q)'
    BY <1>1 DEF PopInv, Guarded
  <1>5. ASSUME NEW v \in Pending' PROVE Holds(v)'
    <2>1. CASE v = w
      <3>1. uses[p] > 0 => now > ts[p] + ClockSkew
        BY <1>1 DEF PopInv, Guarded
      <3>2. \A u \in Pending : nonce[pending[u].proof] # nonce[p]
        BY <1>1 DEF PopInv, Holds
      <3>3. now <= now + MaxStall /\ now <= now
        BY PopAssumption DEF PopInv, TypeOK
      <3> QED BY <1>1, <1>2, <2>1, <3>1, <3>2, <3>3 DEF Holds, Pending
    <2>2. CASE v # w
      <3>1. v \in Pending /\ Holds(v) /\ pending'[v] = pending[v]
        BY <1>2, <1>5, <2>2 DEF PopInv, Pending
      <3>2. nonce[pending[v].proof] \in DOMAIN entries
        BY <3>1 DEF Holds
      <3> QED BY <1>1, <1>2, <3>1, <3>2 DEF Holds, Pending
    <2> QED BY <2>1, <2>2
  <1> QED BY <1>1, <1>3, <1>4, <1>5 DEF PopInv, ReplayRejected

LEMMA TimestampStep ==
    ASSUME PopInv, NEW w \in Workers, CheckTimestamp(w)
    PROVE  PopInv'
  <1> DEFINE p == pending[w].proof
  <1>1. p \in Proofs /\ Holds(w) /\ w \in Pending /\ now \in Nat /\ uses[p] \in Nat /\ ts[p] \in Nat
    BY PopAssumption DEF CheckTimestamp, PopInv, TypeOK, Pending
  <1>2. /\ pending' = [pending EXCEPT ![w] = [proof |-> NoProof, since |-> 0]]
        /\ now' = now /\ entries' = entries
        /\ uses' = IF Fresh(p) THEN [uses EXCEPT ![p] = @ + 1] ELSE uses
    BY DEF CheckTimestamp
  <1>3. /\ \A v \in Workers : v # w => pending'[v] = pending[v]
        /\ Pending' = Pending \ {w}
    BY <1>2, PopAssumption DEF PopInv, TypeOK, Pending
  <1>4. Fresh(p) => uses[p] = 0
    BY <1>1, PopAssumption DEF Holds, Fresh
  <1>5. TypeOK'
    BY <1>1, <1>2 DEF PopInv, TypeOK
  <1>6. \A q \in Proofs : q # p => uses'[q] = uses[q]
    BY <1>2 DEF PopInv, TypeOK
  <1>7. uses'[p] <= 1 /\ (uses'[p] > 0 => Guarded(p))
    <2>1. CASE Fresh(p)
      <3>1. uses'[p] = 1
        BY <1>1, <1>2, <1>4, <2>1 DEF PopInv, TypeOK
      <3>2. pending[w].since \in Nat
        BY DEF PopInv, TypeOK
      <3>3. ts[p] <= entries[nonce[p]] + MaxStall + ClockSkew
        BY <1>1, <2>1, <3>2, PopAssumption DEF Fresh, Holds
      <3> QED BY <1>1, <3>1, <3>3 DEF Guarded, Holds
    <2>2. CASE ~Fresh(p)
      BY <1>1, <1>2, <2>2 DEF PopInv, ReplayRejected
    <2> QED BY <2>1, <2>2
  <1>8. \A q \in Proofs : uses'[q] <= 1 /\ (uses'[q] > 0 => Guarded(q)')
    BY <1>2, <1>6, <1>7 DEF PopInv, ReplayRejected, Guarded
  <1>9. ASSUME NEW v \in Pending' PROVE Holds(v)'
    <2>1. v # w /\ v \in Pending /\ v \in Workers /\ Holds(v) /\ pending'[v] = pending[v]
      BY <1>3, <1>9 DEF PopInv, Pending
    <2>2. pending[v].proof \in Proofs /\ nonce[pending[v].proof] # nonce[p]
      BY <1>1, <2>1 DEF Holds, Pending
    <2>3. uses'[pending[v].proof] = uses[pending[v].proof]
      BY <1>6, <2>2
    <2>4. \A u \in Pending' : u \in Pending /\ pending'[u] = pending[u]
      BY <1>3 DEF Pending
    <2> QED BY <1>2, <2>1, <2>3, <2>4 DEF Holds
  <1> QED BY <1>5, <1>8, <1>9 DEF PopInv, ReplayRejected

LEMMA CleanupStep ==
    ASSUME PopInv, SkewFits, Cleanup
    PROVE  PopInv'
  <1>1. /\ DOMAIN entries' = DOMAIN entries \ Old
        /\ \A k \in DOMAIN entries' : entries'[k] = entries[k]
        /\ now' = now /\ pending' = pending /\ uses' = uses
    BY DEF Cleanup
  <1>t. /\ now \in Nat /\ \A k \in DOMAIN entries : entries[k] \in Nat
        /\ NonceTTL \in Nat /\ ClockSkew \in Nat /\ MaxStall \in Nat
        /\ NonceTTL >= 2 * ClockSkew + MaxStall
        /\ \A p \in Proofs : ts[p] \in Nat
    BY PopAssumption DEF PopInv, TypeOK, SkewFits
  <1>2. TypeOK'
    <2>1. entries' \in [DOMAIN entries' -> Nat] /\ DOMAIN entries' \subseteq Nonces
      BY DEF Cleanup, PopInv, TypeOK
    <2> QED BY <1>1, <2>1 DEF PopInv, TypeOK
  <1>3. ASSUME NEW p \in Proofs, uses[p] > 0 PROVE Guarded(p)'
    <2>1. Guarded(p)
      BY <1>3 DEF PopInv
    <2>2. CASE nonce[p] \in Old
      <3>1. nonce[p] \in DOMAIN entries /\ entries[nonce[p]] < now - NonceTTL
        BY <2>2 DEF Old
      <3>2. now > ts[p] + ClockSkew
        BY <1>t, <2>1, <3>1 DEF Guarded
      <3> QED BY <1>1, <3>2 DEF Guarded
    <2>3. CASE nonce[p] \notin Old
      BY <1>1, <2>1, <2>3 DEF Guarded
    <2> QED BY <2>2, <2>3
  <1>4. ASSUME NEW w \in Pending PROVE Holds(w)'
    <2>1. Holds(w) /\ pending[w].since \in Nat
      BY DEF PopInv, TypeOK, Pending
    <2>2. nonce[pending[w].proof] \notin Old
      BY <1>t, <2>1 DEF Holds, Old
    <2> QED BY <1>1, <2>1, <2>2 DEF Holds, Pending
  <1>5. Pending' = Pending
    BY <1>1 DEF Pending
  <1> QED BY <1>1, <1>2, <1>3, <1>4, <1>5 DEF PopInv, ReplayRejected

LEMMA TickStep ==
    ASSUME PopInv, Tick
    PROVE  PopInv'
  <1>1. now' = now + 1 /\ now \in Nat /\ UNCHANGED <<entries, pending, uses>> /\ Pending' = Pending
    BY DEF Tick, PopInv, TypeOK, Pending
  <1>2. TypeOK' /\ ReplayRejected'
    BY <1>1 DEF PopInv, TypeOK, ReplayRejected
  <1>3. ASSUME NEW p \in Proofs, uses[p] > 0 PROVE Guarded(p)'
    BY <1>1, <1>3, PopAssumption DEF PopInv, Guarded
  <1>4. ASSUME NEW w \in Pending PROVE Holds(w)'
    <2>1. /\ Holds(w) /\ pending[w].since \in Nat /\ pending[w].proof \in Proofs
          /\ now < pending[w].since + MaxStall
      BY DEF PopInv, TypeOK, Pending, Tick
    <2>2. ts[pending[w].proof] \in Nat
      BY <2>1, PopAssumption
    <2> QED BY <1>1, <2>1, <2>2, PopAssumption DEF Holds
  <1> QED BY <1>1, <1>2, <1>3, <1>4 DEF PopInv

LEMMA TypeNext == TypeOK /\ [Next]_vars => TypeOK'
  <1> SUFFICES ASSUME TypeOK, [Next]_vars PROVE TypeOK'
    OBVIOUS
  <1>1. ASSUME NEW w \in Workers, NEW p \in Proofs, CheckAndStore(w, p) PROVE TypeOK'
    <2>1. entries' \in [DOMAIN entries' -> Nat] /\ DOMAIN entries' \subseteq Nonces
      BY <1>1, PopAssumption DEF CheckAndStore, TypeOK
    <2>2. pending' \in [Workers -> [proof : Proofs \cup {NoProof}, since : Nat]]
      BY <1>1 DEF CheckAndStore, TypeOK
    <2> QED BY <1>1, <2>1, <2>2 DEF CheckAndStore, TypeOK
  <1>2. ASSUME NEW w \in Workers, CheckTimestamp(w) PROVE TypeOK'
    <2>1. pending' \in [Workers -> [proof : Proofs \cup {NoProof}, since : Nat]]
      BY <1>2 DEF CheckTimestamp, TypeOK
    <2>2. uses' \in [Proofs -> Nat]
      <3>1. PICK p \in Proofs : p = pending[w].proof
        BY <1>2 DEF CheckTimestamp, Pending
      <3>2. uses' = IF Fresh(p) THEN [uses EXCEPT ![p] = @ + 1] ELSE uses
        BY <1>2, <3>1 DEF CheckTimestamp
      <3>3. uses[p] + 1 \in Nat
        BY DEF TypeOK
      <3> QED BY <3>2, <3>3 DEF TypeOK
    <2> QED BY <1>2, <2>1, <2>2 DEF CheckTimestamp, TypeOK
  <1>3. ASSUME Cleanup PROVE TypeOK'
    BY <1>3 DEF Cleanup, TypeOK
  <1>4. ASSUME Tick PROVE TypeOK'
    BY <1>4 DEF Tick, TypeOK
  <1>5. ASSUME UNCHANGED vars PROVE TypeOK'
    BY <1>5 DEF vars, TypeOK
  <1> QED BY <1>1, <1>2, <1>3, <1>4, <1>5 DEF Next

\* The nonce cache, the handlers between their two checks and the counts of accepted
\* proofs are well typed, whatever the lifetimes are (NonceCache, VerifyPoP).
THEOREM TypeCorrect == Spec => []TypeOK
  <1>1. Init => TypeOK
    BY PopAssumption DEF Init, TypeOK
  <1> QED BY <1>1, TypeNext, PTL DEF Spec

\* If a nonce is cached for longer than its proof can be fresh, no proof is
\* accepted twice (VerifyPoP, CheckAndStore, Cleanup).  The broker's defaults
\* are 5 minutes and 30 seconds, which leaves a handler four minutes between
\* storing the nonce and reading the clock.
THEOREM NoReplay ==
    ASSUME SkewFits
    PROVE  Spec => []ReplayRejected
  <1>1. PopInv /\ [Next]_vars => PopInv'
    <2> SUFFICES ASSUME PopInv, [Next]_vars PROVE PopInv'
      OBVIOUS
    <2>1. CASE UNCHANGED vars
      BY <2>1 DEF vars, PopInv, TypeOK, ReplayRejected, Guarded, Holds, Pending
    <2> QED BY <2>1, StoreStep, TimestampStep, CleanupStep, TickStep DEF Next
  <1>2. PopInv => ReplayRejected
    BY DEF PopInv
  <1> QED BY <1>1, <1>2, PopInit, PTL DEF Spec

=============================================================================
