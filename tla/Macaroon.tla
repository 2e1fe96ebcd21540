------------------------------ MODULE Macaroon ------------------------------
(***************************************************************************)
(* Macaroon tokens (internal/macaroon), with an ideal HMAC.                *)
(*                                                                         *)
(* A macaroon is its root task id, the generation of the root key it was   *)
(* minted under, the agent caveat (first value wins, so only MintRoot's    *)
(* counts) and one block of caveats per minting, and per group of caveats  *)
(* that a holder appended.  The HMAC chain determines and is determined by *)
(* exactly these, so the SHA-256 digest of the signature, which the broker *)
(* indexes tasks by, is the macaroon itself.  initiated_by and the byte    *)
(* encoding are left out.                                                  *)
(***************************************************************************)
EXTENDS Envelope, Integers, Sequences

CONSTANTS Agents,          \* agent names
          NoAgent,         \* no agent: the "" of an empty request
          UnitsPerSecond   \* clock units in a second: RFC 3339 keeps seconds

ASSUME AgentAssumption == NoAgent \notin Agents
ASSUME UnitsAssumption == UnitsPerSecond \in Nat \ {0}

NoTask == 0

\* time.Format(time.RFC3339) drops the fraction of a second.
RFC3339(t) == t - (t % UnitsPerSecond)

\* One addEnvelopeCaveats or addDelegationCaveats, or what a holder added.  An empty dimension adds
\* no caveat, delegation_depth only comes with can_delegate.
Block == [expiresBefore : Int, envelope : Envelopes,
          canDelegate : BOOLEAN, depth : Int]

Macaroons == [id : Nat, gen : Nat, agent : Agents \cup {NoAgent},
              chain : Seq(Block)]

\* No token: the zero value of RawMacaroon and of MacaroonSigDigest.
NoMac == [id |-> NoTask, gen |-> 0, agent |-> NoAgent, chain |-> <<>>]

Caveats(env, canDelegate, depth, expires) ==
    [expiresBefore |-> RFC3339(expires), envelope |-> env,
     canDelegate |-> canDelegate, depth |-> IF canDelegate THEN depth ELSE 0]

MintRoot(root, gen, agent, block) ==
    [id |-> root, gen |-> gen, agent |-> agent, chain |-> <<block>>]

MintDelegated(parent, block) ==
    [parent EXCEPT !.chain = Append(parent.chain, block)]

\* The blocks that carry an "IN" caveat for dimension d.
Constraining(mac, d) ==
    {i \in DOMAIN mac.chain : mac.chain[i].envelope[d] # {}}

\* Mutant of Reduce: a dimension without caveats is unrestricted.
ReduceOpen(mac) ==
    [d \in Dims |->
        {x \in Items : \A i \in Constraining(mac, d) : x \in mac.chain[i].envelope[d]}]

\* Reduce: the first caveat of a dimension sets it and every later one is
\* intersected literally (intersectSets knows no wildcard); a dimension
\* without caveats stays nil, which permits nothing.
Reduce(mac) ==
    [d \in Dims |->
        {x \in Items :
            /\ Constraining(mac, d) # {}
            /\ \A i \in Constraining(mac, d) : x \in mac.chain[i].envelope[d]}]

\* Reduce keeps the earliest expires_before; Verify rejects once it is past.
Expired(mac, t) == \E i \in DOMAIN mac.chain : t > mac.chain[i].expiresBefore

=============================================================================
