------------------------------- MODULE MCGate -------------------------------
(* An instance of Gate: two policies that differ in the key of the agent,  *)
(* the limit (two requests, none) and a target, and one that does not load;*)
(* the agent inherits two templates that overlap.                          *)
EXTENDS Gate

CONSTANTS a1, a2, k1, k2, t1, t2, r1, r2, T1, T2, h1, h2, login1, u1, u2

Target(host, roles) == [host |-> host, port |-> 22, roles |-> roles, ttl |-> 0, hostkey |-> "print"]
Templates == T1 :> (<<"ssh", t1>> :> {r1}) @@ T2 :> (<<"ssh", t1>> :> {r2} @@ <<"ssh", Star>> :> {})

File(key, max, targets, inherits) ==
    [maxTTL |-> 0, defaultTTL |-> 0, limit |-> [max |-> max, window |-> 0], strict |-> TRUE,
     roles |-> r1 :> "ok" @@ r2 :> "ok", targets |-> targets, templates |-> Templates,
     agents |-> a1 :> [uid |-> 1, key |-> key, inherits |-> inherits, dashboard |-> FALSE,
                       entries |-> <<"services", Star>> :> {}]]

First == File(k1, 0, t1 :> Target(h1, {r1, r2}), <<T1, T2>>)
Second == File(k2, -1, t1 :> Target(h1, {r2}) @@ t2 :> [Target(h2, {r1}) EXCEPT !.port = 0], <<T2, T1>>)
Dangling == File(k2, 0, t1 :> Target(h1, {r1}), <<T1, h1>>)

MCFiles == {First, Second, Dangling}
\* Second with every combination of what can be wrong with a target, a role or the agents;
\* the hash of the agent's key is bad or good.
MCCandidates ==
    {[Second EXCEPT !.defaultTTL = default, !.strict = strict, !.roles[r2] = role,
                    !.targets[t2] = [host |-> host, port |-> port, roles |-> {r}, ttl |-> ttl, hostkey |-> hostkey],
                    !.agents = (a1 :> [@[a1] EXCEPT !.key = key])
                               @@ (IF uid = 0 THEN <<>> ELSE a2 :> [@[a1] EXCEPT !.uid = uid])] :
        default \in {0, 3}, key \in {k2, BadHash}, strict \in BOOLEAN, role \in {"ok", "empty", "malformed"},
        host \in {h1, h2, NoHost}, port \in {0, 22, 70000}, r \in {r1, T1}, ttl \in {0, 2, 3},
        hostkey \in {"none", "key", "badkey", "mismatch", "print", "badprint"}, uid \in 0..2}
MCDefaults == [port |-> 22, maxTTL |-> 2, defaultTTL |-> 1, limit |-> [max |-> 2, window |-> 2]]
\* Callers are interchangeable.
Symmetry == Permutations(Uids)
MCUpdates == {[core |-> None, login |-> login1], [core |-> <<h2, 22, {r1}, 0>>, login |-> None]}

=============================================================================
