--------------------------- MODULE MCTaskIdentity ---------------------------
(* Instances of TaskIdentity for TLC. *)
EXTENDS TaskIdentity, TLC

CONSTANTS alice, bob

\* Everything is permitted, by the wildcard.
MCOpenPolicy == [a \in Agents |-> [d \in Dims |-> {Wild}]]

\* alice is a legacy agent with the wildcard, bob is given explicit names.
MCMixedPolicy == [a \in Agents |-> [d \in Dims |->
                     IF a = alice THEN {Wild} ELSE Items \ {Wild}]]

MCNoEnvs == {}

\* Per dimension: nothing, the names, the wildcard.
MCSomeEnvs == [Dims -> {{}, Items \ {Wild}, {Wild}}]

\* The caveats that permit the most.
MCHolderEnvs == {[d \in Dims |-> {Wild}]}

\* Holder keys are interchangeable.
KeySymmetry == Permutations(HolderKeys)

=============================================================================
