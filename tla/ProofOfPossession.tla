------------------------- MODULE ProofOfPossession -------------------------
(***************************************************************************)
(* Proof-of-possession (internal/broker/pop.go): VerifyPoP and the         *)
(* NonceCache.                                                             *)
(*                                                                         *)
(* A proof is a signed payload; its signature, mac_digest and body_hash    *)
(* are checked first and without state, so the proofs here are the ones    *)
(* that pass.  VerifyPoP stores the nonce under the cache's lock and reads *)
(* the clock for the timestamp check afterwards: two steps, with other     *)
(* handlers, the cleanup loop and the clock in between.                    *)
(***************************************************************************)
EXTENDS Integers

CONSTANTS Workers,   \* handler goroutines
          Proofs,    \* signed payloads
          NoProof,   \* no proof in hand
          Nonces,    \* "taskID:nonce" keys
          nonce,     \* proof -> its key
          ts,        \* proof -> its signed timestamp
          NonceTTL,  \* NonceCache.ttl
          ClockSkew, \* popClockSkew
          MaxStall,  \* bound: how long a handler is between the two steps
          MaxTime    \* bound: the clock stops here

ASSUME PopAssumption ==
    /\ NoProof \notin Proofs
    /\ nonce \in [Proofs -> Nonces]
    /\ ts \in [Proofs -> Nat]
    /\ NonceTTL \in Nat /\ ClockSkew \in Nat /\ MaxStall \in Nat /\ MaxTime \in Nat

VARIABLES now,
          entries,  \* NonceCache.entries: key -> first seen
          pending,  \* worker -> the proof whose timestamp it has yet to check
          uses      \* history: proof -> how often it was accepted

vars == <<now, entries, pending, uses>>

Pending == {w \in Workers : pending[w].proof \in Proofs}

Init ==
    /\ now = 0
    /\ entries = [k \in {} |-> 0]
    /\ pending = [w \in Workers |-> [proof |-> NoProof, since |-> 0]]
    /\ uses = [p \in Proofs |-> 0]

\* NonceCache.CheckAndStore; a nonce that is there already ends the request.
CheckAndStore(w, p) ==
    /\ w \notin Pending
    /\ nonce[p] \notin DOMAIN entries
    /\ entries' = [k \in DOMAIN entries \cup {nonce[p]} |->
                      IF k = nonce[p] THEN now ELSE entries[k]]
    /\ pending' = [pending EXCEPT ![w] = [proof |-> p, since |-> now]]
    /\ UNCHANGED <<now, uses>>

\* The timestamp is within the skew of the clock, bounds included.
Fresh(p) == now - ClockSkew <= ts[p] /\ ts[p] <= now + ClockSkew

\* The last check of VerifyPoP; the nonce stays used either way.
CheckTimestamp(w) ==
    /\ w \in Pending
    /\ LET p == pending[w].proof IN
       uses' = IF Fresh(p) THEN [uses EXCEPT ![p] = @ + 1] ELSE uses
    /\ pending' = [pending EXCEPT ![w] = [proof |-> NoProof, since |-> 0]]
    /\ UNCHANGED <<now, entries>>

\* Mutant of Old: entries go as soon as they are past the skew.
OldAfterSkew == {k \in DOMAIN entries : entries[k] < now - ClockSkew}

\* The entries before the cutoff of NonceCache.Cleanup.
Old == {k \in DOMAIN entries : entries[k] < now - NonceTTL}

Cleanup ==
    /\ Old # {}
    /\ entries' = [k \in DOMAIN entries \ Old |-> entries[k]]
    /\ UNCHANGED <<now, pending, uses>>

Tick ==
    /\ now < MaxTime
    /\ \A w \in Pending : now < pending[w].since + MaxStall
    /\ now' = now + 1
    /\ UNCHANGED <<entries, pending, uses>>

Next == \/ \E w \in Workers : CheckTimestamp(w) \/ \E p \in Proofs : CheckAndStore(w, p)
        \/ Cleanup
        \/ Tick

Spec == Init /\ [][Next]_vars

-----------------------------------------------------------------------------

TypeOK ==
    /\ now \in Nat
    /\ DOMAIN entries \subseteq Nonces /\ entries \in [DOMAIN entries -> Nat]
    /\ pending \in [Workers -> [proof : Proofs \cup {NoProof}, since : Nat]]
    /\ uses \in [Proofs -> Nat]

\* A cached nonce outlives the time in which its proof is fresh.
SkewFits == NonceTTL >= 2 * ClockSkew + MaxStall

\* "The NonceCache rejects any previously seen nonce, preventing PoP signature
\* replay" (docs/whitepapers/task-identity.md:1409): no signed proof is
\* accepted twice, however handlers, Cleanup and the clock interleave.
ReplayRejected == \A p \in Proofs : uses[p] <= 1

=============================================================================
