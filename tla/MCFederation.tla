---------------------------- MODULE MCFederation ----------------------------
(* Instances of Federation: one name, a good configuration of either of two    *)
(* servers (one with an argument filter that suspends) and one that is refused.*)
EXTENDS Federation

CONSTANTS n1, a1, u1, u2, good, bad, d1, d2, c1, c2, b1

Config(u, valid, deny) == [url |-> u, prefix |-> n1, valid |-> valid, closed |-> FALSE, deny |-> deny,
                           auto |-> TRUE, grant |-> "default", enabled |-> TRUE]

MCConfigs == {Config(u1, TRUE, {bad}), Config(u2, TRUE, {}),
              [Config(u2, FALSE, {}) EXCEPT !.closed = TRUE]}
MCAllowed == {<<a1, n1>>}
MCBackoffs == <<1, 2>>
MCTables == UNION {[S -> [cfg : Configs, enabled : BOOLEAN]] : S \in SUBSET Names}

=============================================================================
