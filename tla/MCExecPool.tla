----------------------------- MODULE MCExecPool -----------------------------
(***************************************************************************)
(* ExecPool for TLC: alice may use both hosts, bob only h1.                *)
(***************************************************************************)
EXTENDS ExecPool, TLC

CONSTANTS alice, bob, h1, h2, r1, good, bad

MCAccess == (Agents \X Targets \X Roles) \cap {<<alice, h1, r1>>, <<alice, h2, r1>>, <<bob, h1, r1>>}

\* h1 filters commands and suspends access; h2 takes everything.
Filtering == [roles |-> [t \in Targets |-> {r1}], deny |-> {h1} \X ({bad} \cap Commands), auto |-> {h1}]
\* h2 has left the policy.
Smaller == [roles |-> [t \in {h1} |-> {r1}], deny |-> {h1} \X ({bad} \cap Commands), auto |-> {}]

OnePolicy == {Filtering}
TwoPolicies == {Filtering, Smaller}

Legacy == {Targets \X Roles}
\* Tasks that may reach every host, and tasks that may reach none.
WideOrEmpty == {Targets \X Roles, {}}

Symmetric == Permutations(Workers)
=============================================================================
