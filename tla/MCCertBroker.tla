---------------------------- MODULE MCCertBroker ----------------------------
(* Instances of CertBroker for TLC. *)
EXTENDS CertBroker, TLC

CONSTANTS a1, web, db, op

MCAgents == {a1}
MCTargets == {web, db}
MCRoles == {op}

\* web is approved by policy, db by an admin; both may live for two units, and one
\* certificate is the agent's limit.
Strict == [limit |-> [a \in MCAgents |-> 1], maxActive |-> 2,
           roles |-> [t \in MCTargets |-> MCRoles],
           maxTTL |-> [t \in MCTargets |-> IF t = web THEN 2 ELSE 1],
           globalMax |-> 2, default |-> 2, auto |-> {web}]

\* Two certificates per agent, but no more than one in all.
Scarce == [Strict EXCEPT !.limit = [a \in MCAgents |-> 2], !.maxActive = 1]

\* Both hosts are approved by policy, for one unit.
Open == [Scarce EXCEPT !.maxActive = 3, !.auto = MCTargets, !.default = 1, !.globalMax = 1]

OnePolicy == {Strict}
TwoPolicies == {Scarce, Open}

\* Handlers are interchangeable.
SymmetricWorkers == Permutations(Workers)

=============================================================================
