------------------------------ MODULE MCProxy ------------------------------
(* An instance of Proxy: a wide and a narrow prefix that both match one URL,   *)
(* one of the two services outside the envelope or filtered.                 *)
EXTENDS Proxy, TLC

CONSTANTS s1, s2, a1, short, long, u1, get, i1, i2, d1, d2, c1, c2

Service(p, verify, deny) ==
    [prefix |-> p, valid |-> TRUE, closed |-> FALSE, auto |-> TRUE, verify |-> verify, enabled |-> TRUE,
     methods |-> {<<get, u1>>}, deny |-> deny, grant |-> "default"]

MCConfigs == {Service(short, FALSE, {}), Service(long, TRUE, {}), Service(long, TRUE, {u1})}
MCLength == short :> 1 @@ long :> 2
MCMatching == {<<u1, short>>, <<u1, long>>}
MCAllowed == {<<a1, s1, get>>, <<a1, s2, get>>}
MCEnvelope == {<<a1, s1, get>>}
MCAnswers == {{i1}, {i1, i2}, {}}
MCNetwork == [deny |-> {i2}, private |-> {i1, i2}, allow |-> {}, external |-> "deny", hosts |-> {}]
MCTables == UNION {[S -> [cfg : Configs, enabled : BOOLEAN]] : S \in SUBSET Services}

=============================================================================
