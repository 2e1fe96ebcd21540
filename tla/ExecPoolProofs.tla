--------------------------- MODULE ExecPoolProofs ---------------------------
(***************************************************************************)
(* Theorems about ExecPool, for any agents, hosts, policies, handlers and  *)
(* bounds.                                                                 *)
(***************************************************************************)
EXTENDS ExecPool, FiniteSetTheorems, SequenceTheorems, TLAPS

USE BoundAssumption

-----------------------------------------------------------------------------
(* Types. *)

\* Changing fields of a connection that do not identify it.
LEMMA ConnUpdate ==
    ASSUME TablesOK, NEW k \in Drawn, NEW t \in Nat,
           \/ conns' = [conns EXCEPT ![k].lastUsed = t]
           \/ conns' = [conns EXCEPT ![k].client = FALSE]
           \/ conns' = [conns EXCEPT ![k].open = FALSE]
    PROVE  /\ conns' \in Seq(Connections) /\ Len(conns') = Len(conns)
           /\ \A c \in Drawn : conns'[c].agent = conns[c].agent
           /\ \A c \in Drawn : conns'[c].open => conns[c].open
           /\ conns' = [conns EXCEPT ![k].open = FALSE] => ~conns'[k].open
<1>1. /\ conns \in Seq(Connections) /\ conns[k] \in Connections
      /\ Len(conns) \in Nat /\ DOMAIN conns = 1..Len(conns)
  BY DEF TablesOK, Drawn
<1>2. PICK e \in Connections : /\ conns' = [conns EXCEPT ![k] = e]
                               /\ e.agent = conns[k].agent
                               /\ e.open => conns[k].open
                               /\ conns' = [conns EXCEPT ![k].open = FALSE] => ~e.open
  <2>1. CASE conns' = [conns EXCEPT ![k].lastUsed = t]
    <3> DEFINE e == [conns[k] EXCEPT !.lastUsed = t]
    <3>1. e \in Connections /\ e.agent = conns[k].agent /\ e.open = conns[k].open
      BY <1>1 DEF Connections
    <3>2. conns' = [conns EXCEPT ![k] = e]
      BY <2>1
    <3>3. conns' = [conns EXCEPT ![k].open = FALSE] => ~e.open
      BY <1>1, <3>2 DEF Drawn, Connections
    <3> QED
      BY <3>1, <3>2, <3>3
  <2>2. CASE conns' = [conns EXCEPT ![k].client = FALSE]
    <3> DEFINE e == [conns[k] EXCEPT !.client = FALSE]
    <3>1. e \in Connections /\ e.agent = conns[k].agent /\ e.open = conns[k].open
      BY <1>1 DEF Connections
    <3>2. conns' = [conns EXCEPT ![k] = e]
      BY <2>2
    <3>3. conns' = [conns EXCEPT ![k].open = FALSE] => ~e.open
      BY <1>1, <3>2 DEF Drawn, Connections
    <3> QED
      BY <3>1, <3>2, <3>3
  <2>3. CASE conns' = [conns EXCEPT ![k].open = FALSE]
    <3> DEFINE e == [conns[k] EXCEPT !.open = FALSE]
    <3>1. e \in Connections /\ e.agent = conns[k].agent /\ ~e.open
      BY <1>1 DEF Connections
    <3>2. conns' = [conns EXCEPT ![k] = e]
      BY <2>3
    <3> QED
      BY <3>1, <3>2
  <2> QED
    BY <2>1, <2>2, <2>3
<1>3. /\ conns' \in Seq(Connections) /\ Len(conns') = Len(conns)
      /\ \A c \in Drawn : conns'[c] = IF c = k THEN e ELSE conns[c]
  BY <1>1, <1>2, ExceptSeq DEF Drawn
<1> QED
  BY <1>2, <1>3

\* What Goto does to the control state.
LEMMA GotoEffect ==
    ASSUME pc \in [Procs -> PCs], req \in [Procs -> Locals],
           NEW w \in Procs, NEW next \in PCs, NEW l \in Locals, Goto(w, next, l)
    PROVE  /\ pc' \in [Procs -> PCs] /\ req' \in [Procs -> Locals]
           /\ pc'[w] = next /\ req'[w] = l
           /\ \A v \in Procs : v # w => pc'[v] = pc[v] /\ req'[v] = req[v]
  BY DEF Goto

LEMMA NoLocalsTyped == NoLocals \in Locals /\ NoLocals.todo = {} /\ NoLocals.kind = "close"
  BY DEF NoLocals, Locals, Kinds

LEMMA ReplyFits == ASSUME NEW n \in Nat PROVE Fits("idle", NoLocals, n)
  BY NoLocalsTyped DEF Fits

\* A step of one process keeps the types when its tables are in order and its new
\* locals fit.
LEMMA ControlStep ==
    ASSUME TypeOK, NEW w \in Procs, NEW next \in PCs, NEW l \in Locals, Goto(w, next, l),
           TablesOK', Len(conns) <= Len(conns'), Fits(next, l, Len(conns'))
    PROVE  TypeOK'
<1>1. /\ pc' \in [Procs -> PCs] /\ req' \in [Procs -> Locals]
      /\ pc'[w] = next /\ req'[w] = l
      /\ \A v \in Procs : v # w => pc'[v] = pc[v] /\ req'[v] = req[v]
  BY GotoEffect DEF TypeOK
<1>2. Len(conns) \in Nat /\ Len(conns') \in Nat /\ 1..Len(conns) \subseteq 1..Len(conns')
  BY DEF TypeOK, TablesOK
<1>3. \A v \in Procs : v # w => Fits(pc'[v], req'[v], Len(conns'))
  BY <1>1, <1>2 DEF TypeOK, Fits
<1>4. \A v \in Procs : Fits(pc'[v], req'[v], Len(conns'))
  BY <1>1, <1>3
<1> QED
  BY <1>1, <1>4 DEF TypeOK

\* The locals of a new call.
LEMMA CallTyped ==
    ASSUME NEW kind \in Kinds, NEW a \in Agents, NEW t \in Targets, NEW r \in Roles, NEW e \in Envelopes
    PROVE  LET l == CallOf(kind, a, t, r, e) IN
           /\ l \in Locals /\ l.kind = kind /\ l.agent = a /\ l.target = t /\ l.role = r
           /\ l.conn = 0 /\ l.todo = {}
           /\ \A s \in Numbers : LET m == [l EXCEPT !.conn = s] IN
                 /\ m \in Locals /\ m.kind = kind /\ m.agent = a /\ m.target = t /\ m.role = r
                 /\ m.conn = s /\ m.todo = {}
  BY DEF CallOf, NoLocals, Locals

\* The tables, when a step of a process leaves them alone.
LEMMA TablesKept ==
    ASSUME TypeOK, UNCHANGED <<now, policy, disabled, silent, conns, pool, certs>>
    PROVE  TablesOK' /\ Len(conns) <= Len(conns') /\ Len(conns') = Len(conns) /\ Len(conns) \in Nat
  BY DEF TypeOK, TablesOK, Drawn

LEMMA TypeCall ==
    ASSUME TypeOK, NEW w \in Workers, Call(w)
    PROVE  TypeOK'
<1>0. w \in Procs /\ Len(conns) \in Nat /\ Drawn \subseteq Numbers
  BY DEF Procs, TypeOK, TablesOK, Drawn, Numbers
<1>1. ASSUME NEW a \in Agents, NEW t \in Targets, NEW r \in Roles, NEW e \in Envelopes,
             NEW c \in Commands, NEW s \in Drawn \cup {0}, toolExec(w, a, t, r, e, c, s)
      PROVE  TypeOK'
  <2> DEFINE one == CallOf("oneshot", a, t, r, e)
             ses == [CallOf("session", a, t, r, e) EXCEPT !.conn = s]
  <2>1. UNCHANGED <<now, policy, disabled, silent, conns, pool, certs>>
    BY <1>1 DEF toolExec
  <2>2. one \in Locals /\ Fits("dial", one, Len(conns)) /\ Fits("suspend", one, Len(conns))
    BY <1>0, CallTyped DEF Fits, Kinds
  <2>3. s # 0 => ses \in Locals /\ Fits("lookup", ses, Len(conns))
    BY <1>0, CallTyped DEF Fits, Kinds, Drawn
  <2>4. \/ Goto(w, "suspend", one) \/ Goto(w, "dial", one)
        \/ s # 0 /\ Goto(w, "lookup", ses)
    BY <1>1 DEF toolExec
  <2> HIDE DEF one, ses
  <2> QED
    BY <1>0, <2>1, <2>2, <2>3, <2>4, TablesKept, ControlStep DEF PCs
<1>2. ASSUME NEW a \in Agents, NEW t \in Targets, NEW r \in Roles, NEW e \in Envelopes,
             toolSessionCreate(w, a, t, r, e)
      PROVE  TypeOK'
  <2> DEFINE l == CallOf("create", a, t, r, e)
  <2>1. UNCHANGED <<now, policy, disabled, silent, conns, pool, certs>> /\ Goto(w, "count", l)
    BY <1>2 DEF toolSessionCreate
  <2>2. l \in Locals /\ Fits("count", l, Len(conns))
    BY <1>0, CallTyped DEF Fits, Kinds
  <2> HIDE DEF l
  <2> QED
    BY <1>0, <2>1, <2>2, TablesKept, ControlStep DEF PCs
<1>3. ASSUME NEW a \in Agents, NEW s \in Drawn, toolSessionClose(w, a, s)
      PROVE  TypeOK'
  <2> DEFINE l == [NoLocals EXCEPT !.agent = a, !.todo = {s}]
  <2>1. UNCHANGED <<now, policy, disabled, silent, conns, pool, certs>> /\ Goto(w, "next", l)
    BY <1>3 DEF toolSessionClose
  <2>2. l \in Locals /\ l.kind = "close" /\ l.todo = {s}
    BY <1>0 DEF NoLocals, Locals, Kinds
  <2>3. Fits("next", l, Len(conns))
    BY <2>2 DEF Fits, Drawn
  <2> HIDE DEF l
  <2> QED
    BY <1>0, <2>1, <2>2, <2>3, TablesKept, ControlStep DEF PCs
<1> QED
  BY <1>1, <1>2, <1>3 DEF Call

\* The steps of a handler that change no table.
Quiet(w) == \/ CountSessions(w) \/ dialTarget(w) \/ signFails(w) \/ handshakeFails(w)
            \/ sessionIDFails(w) \/ FindSession(w) \/ TakeClient(w) \/ StartCommand(w) \/ EndCommand(w)

LEMMA QuietEffect ==
    ASSUME NEW w, Quiet(w)
    PROVE  /\ UNCHANGED <<now, policy, disabled, silent, conns, pool, certs>>
           /\ \/ Goto(w, "idle", NoLocals)
              \/ \E next : Goto(w, next, req[w]) /\ <<pc[w], next>> \in
                    {<<"count", "dial">>, <<"dial", "handshake">>, <<"insert", "close">>,
                     <<"lookup", "take">>, <<"take", "start">>}
              \/ \E next : Goto(w, next, req[w]) /\ <<pc[w], next>> \in
                    {<<"start", "running">>, <<"start", "touch">>, <<"running", "touch">>,
                     <<"start", "uncert">>, <<"running", "uncert">>}
                 /\ (next = "uncert" => req[w].kind = "oneshot")
                 /\ (next = "touch" => req[w].kind # "oneshot")
                 /\ (next = "running" => conns[req[w].conn].open)
<1>1. CASE CountSessions(w) \/ sessionIDFails(w) \/ FindSession(w) \/ TakeClient(w)
  BY <1>1 DEF CountSessions, sessionIDFails, FindSession, TakeClient, Reply
<1>4. CASE dialTarget(w) \/ signFails(w) \/ handshakeFails(w)
  BY <1>4 DEF dialTarget, signFails, handshakeFails, Reply
<1>2. CASE StartCommand(w)
  BY <1>2 DEF StartCommand, Executed
<1>3. CASE EndCommand(w)
  BY <1>3 DEF EndCommand, Executed
<1> QED
  BY <1>1, <1>2, <1>3, <1>4 DEF Quiet

LEMMA TypeQuiet ==
    ASSUME TypeOK, NEW w \in Workers, Quiet(w)
    PROVE  TypeOK'
<1>0. /\ w \in Procs /\ Len(conns) \in Nat /\ req[w] \in Locals /\ Fits(pc[w], req[w], Len(conns))
      /\ TablesOK' /\ Len(conns) <= Len(conns') /\ Len(conns') = Len(conns)
  BY QuietEffect, TablesKept DEF Procs, TypeOK, TablesOK
<1>1. CASE Goto(w, "idle", NoLocals)
  BY <1>0, <1>1, NoLocalsTyped, ReplyFits, ControlStep DEF PCs
<1>2. ASSUME NEW next, Goto(w, next, req[w]), <<pc[w], next>> \in
                    {<<"count", "dial">>, <<"dial", "handshake">>, <<"insert", "close">>,
                     <<"lookup", "take">>, <<"take", "start">>}
      PROVE  TypeOK'
  <2>1. next \in PCs /\ Fits(next, req[w], Len(conns))
    BY <1>0, <1>2 DEF PCs, Fits
  <2> QED
    BY <1>0, <1>2, <2>1, ControlStep
<1>3. ASSUME NEW next, Goto(w, next, req[w]), <<pc[w], next>> \in
                    {<<"start", "running">>, <<"start", "touch">>, <<"running", "touch">>,
                     <<"start", "uncert">>, <<"running", "uncert">>},
             next = "uncert" => req[w].kind = "oneshot", next = "touch" => req[w].kind # "oneshot"
      PROVE  TypeOK'
  <2>1. next \in PCs /\ Fits(next, req[w], Len(conns))
    BY <1>0, <1>3 DEF PCs, Fits
  <2> QED
    BY <1>0, <1>3, <2>1, ControlStep
<1> QED
  BY <1>1, <1>2, <1>3, QuietEffect

LEMMA TypeStep ==
    ASSUME TypeOK, NEW w \in Workers, Step(w)
    PROVE  TypeOK'
<1> DEFINE n == Len(conns)
           k == req[w].conn
<1>0. /\ w \in Procs /\ n \in Nat /\ req[w] \in Locals /\ Fits(pc[w], req[w], n)
      /\ TablesOK /\ now \in Nat /\ req[w].conn \in Numbers \cup {0}
  BY DEF Procs, TypeOK, TablesOK, Locals
<1>1. CASE AutoRevoke(w)
  <2>1. disabled' \subseteq Targets
    BY <1>0, <1>1 DEF AutoRevoke, TablesOK, Fits
  <2>2. TablesOK' /\ n <= Len(conns') /\ Len(conns') = n
    BY <1>0, <1>1, <2>1 DEF AutoRevoke, TablesOK, Drawn
  <2> QED
    BY <1>0, <1>1, <2>2, NoLocalsTyped, ReplyFits, ControlStep DEF PCs, AutoRevoke, Reply
<1>2. CASE signAndConnect(w)
  <2> DEFINE r == req[w]
             c == [agent |-> r.agent, target |-> r.target, role |-> r.role,
                   open |-> TRUE, client |-> TRUE, lastUsed |-> now]
             l == [r EXCEPT !.conn = n + 1]
  <2>1. /\ pc[w] = "handshake" /\ n < MaxConns /\ conns' = Append(conns, c) /\ Goto(w, "add", l)
        /\ UNCHANGED <<now, policy, disabled, silent, pool, certs>>
    BY <1>2 DEF signAndConnect
  <2>2. c \in Connections
    BY <1>0, <2>1 DEF Connections, Fits
  <2>3. conns' \in Seq(Connections) /\ Len(conns') = n + 1
    BY <1>0, <2>1, <2>2 DEF TablesOK
  <2>4. TablesOK'
    BY <1>0, <2>1, <2>3 DEF TablesOK, Drawn
  <2>5. l \in Locals /\ l.conn = n + 1 /\ l.kind = r.kind /\ l.agent = r.agent
        /\ l.target = r.target /\ l.role = r.role /\ l.todo = r.todo
    <3>1. n + 1 \in Numbers
      BY <1>0, <2>1 DEF Numbers
    <3> QED
      BY <1>0, <3>1 DEF Locals
  <2>6. Fits("add", l, n + 1)
    BY <1>0, <2>1, <2>5 DEF Fits
  <2> HIDE DEF l, c
  <2> QED
    BY <1>0, <2>1, <2>3, <2>4, <2>5, <2>6, ControlStep DEF PCs
<1>3. CASE AddCert(w)
  <2>1. k \in Drawn
    BY <1>0, <1>3 DEF AddCert, Fits, Drawn
  <2>2. TablesOK' /\ Len(conns') = n
    BY <1>0, <1>3, <2>1 DEF AddCert, TablesOK, Drawn
  <2>3. PICK next \in {"start", "insert"} :
           Goto(w, next, req[w]) /\ next = IF req[w].kind = "oneshot" THEN "start" ELSE "insert"
    BY <1>3 DEF AddCert
  <2>4. Fits(next, req[w], n)
    BY <1>0, <1>3, <2>3 DEF AddCert, Fits
  <2>5. next \in PCs /\ n <= Len(conns') /\ Fits(next, req[w], Len(conns'))
    BY <1>0, <2>2, <2>3, <2>4 DEF PCs
  <2> QED
    BY <1>0, <2>2, <2>3, <2>5, ControlStep
<1>4. CASE InsertSession(w) \/ TouchSession(w)
  <2>1. k \in Drawn
    BY <1>0, <1>4 DEF InsertSession, TouchSession, Fits, Drawn
  <2>2. conns' = [conns EXCEPT ![k].lastUsed = now]
    BY <1>4 DEF InsertSession, TouchSession
  <2>3. conns' \in Seq(Connections) /\ Len(conns') = n
    BY <1>0, <2>1, <2>2, ConnUpdate
  <2>4. TablesOK'
    BY <1>0, <1>4, <2>1, <2>3 DEF InsertSession, TouchSession, TablesOK, Drawn
  <2> QED
    BY <1>0, <1>4, <2>3, <2>4, NoLocalsTyped, ReplyFits, ControlStep
       DEF PCs, InsertSession, TouchSession, Reply
<1> QED
  BY <1>1, <1>2, <1>3, <1>4, TypeQuiet DEF Step, Quiet

LEMMA TypeRelease ==
    ASSUME TypeOK, NEW w \in Procs, Release(w)
    PROVE  TypeOK'
<1> DEFINE n == Len(conns)
           k == req[w].conn
<1>0. /\ n \in Nat /\ req[w] \in Locals /\ Fits(pc[w], req[w], n)
      /\ TablesOK /\ now \in Nat /\ Drawn \subseteq Numbers
  BY DEF TypeOK, TablesOK, Drawn, Numbers
<1>1. ASSUME NEW s \in req[w].todo, DeleteSession(w, s)
      PROVE  TypeOK'
  <2> DEFINE rest == req[w].todo \ {s}
             del == [req[w] EXCEPT !.conn = s, !.todo = rest]
             skip == [req[w] EXCEPT !.todo = rest]
  <2>1. pc[w] = "next" /\ UNCHANGED <<now, policy, disabled, silent, conns, certs>> /\ pool' \subseteq pool
    BY <1>1 DEF DeleteSession
  <2>2. s \in Drawn /\ rest \subseteq Drawn /\ req[w].kind = "close"
    BY <1>0, <2>1 DEF Fits, Drawn
  <2>3. del \in Locals /\ del.conn = s /\ del.todo = rest /\ del.kind = "close"
    BY <1>0, <2>2 DEF Locals
  <2>4. skip \in Locals /\ skip.todo = rest /\ skip.kind = "close"
    BY <1>0, <2>2 DEF Locals
  <2>5. Fits("nil", del, n) /\ Fits("next", skip, n) /\ Fits("idle", NoLocals, n)
    BY <1>0, <2>2, <2>3, <2>4, ReplyFits DEF Fits, Drawn
  <2>6. TablesOK' /\ Len(conns') = n
    BY <1>0, <2>1 DEF TablesOK, Drawn
  <2>7. Goto(w, "nil", del) \/ Goto(w, "next", skip) \/ Goto(w, "idle", NoLocals)
    BY <1>1 DEF DeleteSession, Reply
  <2> HIDE DEF del, skip
  <2> QED
    BY <1>0, <2>3, <2>4, <2>5, <2>6, <2>7, NoLocalsTyped, ControlStep DEF PCs
<1>2. CASE ClearClient(w) \/ CloseClient(w)
  <2>1. k \in Drawn
    BY <1>0, <1>2 DEF ClearClient, CloseClient, Fits, Drawn
  <2>2. \/ conns' = [conns EXCEPT ![k].client = FALSE]
        \/ conns' = [conns EXCEPT ![k].open = FALSE]
    BY <1>2 DEF ClearClient, CloseClient
  <2>3. conns' \in Seq(Connections) /\ Len(conns') = n
    BY <1>0, <2>1, <2>2, ConnUpdate
  <2>4. TablesOK'
    BY <1>0, <1>2, <2>1, <2>3 DEF ClearClient, CloseClient, TablesOK, Drawn
  <2>5. \/ Goto(w, "close", req[w]) /\ Fits("close", req[w], n)
        \/ Goto(w, "uncert", req[w]) /\ Fits("uncert", req[w], n)
        \/ Goto(w, "idle", NoLocals)
    BY <1>0, <1>2 DEF ClearClient, CloseClient, Reply, Fits
  <2> QED
    BY <1>0, <2>3, <2>4, <2>5, NoLocalsTyped, ReplyFits, ControlStep DEF PCs
<1>3. CASE RemoveCert(w)
  <2>1. TablesOK' /\ Len(conns') = n
    BY <1>0, <1>3 DEF RemoveCert, TablesOK, Drawn
  <2>2. \/ Goto(w, "close", req[w]) /\ Fits("close", req[w], n)
        \/ Goto(w, "next", req[w]) /\ Fits("next", req[w], n)
        \/ Goto(w, "idle", NoLocals)
    BY <1>0, <1>3 DEF RemoveCert, Closed, Reply, Fits
  <2> QED
    BY <1>0, <2>1, <2>2, NoLocalsTyped, ReplyFits, ControlStep DEF PCs
<1> QED
  BY <1>1, <1>2, <1>3 DEF Release

\* The sweep's look at the pool.
LEMMA TypeFindIdle == ASSUME TypeOK, FindIdle PROVE TypeOK'
<1> DEFINE idle == {s \in pool : now - conns[s].lastUsed > MaxIdle}
           l == [NoLocals EXCEPT !.todo = idle]
<1>1. UNCHANGED <<now, policy, disabled, silent, conns, pool, certs>> /\ Goto(Cleaner, "next", l)
  BY DEF FindIdle
<1>2. Cleaner \in Procs /\ idle \subseteq Drawn /\ Drawn \subseteq Numbers
  <2>1. Len(conns) \in Nat /\ Len(conns) <= MaxConns /\ pool \subseteq Drawn
    BY DEF TypeOK, TablesOK
  <2>2. Drawn \subseteq Numbers
    BY <2>1 DEF Drawn, Numbers
  <2> QED
    BY <2>1, <2>2 DEF Procs
<1>3. l \in Locals /\ l.kind = "close" /\ l.todo = idle
  <2>1. idle \in SUBSET Numbers
    BY <1>2
  <2> HIDE DEF idle
  <2> QED
    BY <2>1 DEF NoLocals, Locals, Kinds
<1>4. Fits("next", l, Len(conns))
  BY <1>2, <1>3 DEF Fits, Drawn
<1> HIDE DEF l
<1> QED
  BY <1>1, <1>2, <1>3, <1>4, TablesKept, ControlStep DEF PCs

\* The steps of the rest of the world.
Outside == \/ \E t \in Toggled : ToggleHost(t)
           \/ \E t \in MaySilence : HostSilence(t)
           \/ \E c \in certs : CertLeaves(c)
           \/ \E c \in Drawn : ConnectionLost(c)
           \/ \E p \in Policies : ReloadPolicy(p)
           \/ Tick

LEMMA OutsideEffect ==
    ASSUME TypeOK, Outside
    PROVE  /\ TablesOK' /\ pc' = pc /\ req' = req /\ pool' = pool /\ certs' \subseteq certs
           /\ Len(conns') = Len(conns)
           /\ \A c \in Drawn : conns'[c].agent = conns[c].agent /\ (conns'[c].open => conns[c].open)
<1>0. TablesOK /\ now \in Nat /\ Len(conns) \in Nat
  BY DEF TypeOK, TablesOK
<1>1. ASSUME NEW t \in Toggled, ToggleHost(t) PROVE disabled' \subseteq Targets
  BY <1>0, <1>1 DEF ToggleHost, TablesOK
<1>3. ASSUME NEW t \in MaySilence, HostSilence(t) PROVE silent' \subseteq Targets
  BY <1>0, <1>3 DEF HostSilence, TablesOK
<1>2. ASSUME NEW k \in Drawn, ConnectionLost(k)
      PROVE  /\ conns' \in Seq(Connections) /\ Len(conns') = Len(conns)
             /\ \A c \in Drawn : conns'[c].agent = conns[c].agent /\ (conns'[c].open => conns[c].open)
  BY <1>0, <1>2, ConnUpdate DEF ConnectionLost
<1> QED
  BY <1>0, <1>1, <1>2, <1>3
     DEF Outside, ToggleHost, HostSilence, CertLeaves, ConnectionLost, ReloadPolicy, Tick, TablesOK, Drawn

LEMMA TypeNext == ASSUME TypeOK, [Next]_vars PROVE TypeOK'
<1>1. CASE Outside
  BY <1>1, OutsideEffect DEF TypeOK
<1>2. CASE UNCHANGED vars
  BY <1>2 DEF vars, TypeOK, TablesOK, Drawn
<1> QED
  BY <1>1, <1>2, TypeCall, TypeStep, TypeRelease, TypeFindIdle DEF Next, Outside

LEMMA TypeInit == ASSUME Init PROVE TypeOK
<1>1. conns \in Seq(Connections) /\ Len(conns) = 0 /\ 0 \in Nat
  BY DEF Init
<1>2. "idle" \in PCs
  BY DEF PCs
<1> QED
  BY <1>1, <1>2, NoLocalsTyped, ReplyFits DEF Init, TypeOK, TablesOK, Drawn

\* Tables name only connections that exist and handlers have their locals.
THEOREM TypeCorrect == Spec => []TypeOK
  BY TypeInit, TypeNext, PTL DEF Spec

-----------------------------------------------------------------------------
(* Connections in hand. *)

\* What a process has in hand is not in the pool and in nobody else's hands; a
\* session's client is closed before its certificate is removed, a one-shot
\* command's after.
HandInv ==
    /\ \A w \in Procs, c \in Drawn : InHand(w, c) => c \notin pool
    /\ \A w, v \in Procs, c \in Drawn : InHand(w, c) /\ InHand(v, c) => w = v
    /\ \A w \in Procs : /\ pc[w] = "uncert" /\ req[w].kind # "oneshot" => ~conns[req[w].conn].open
                        /\ pc[w] = "close" /\ req[w].kind = "oneshot" => req[w].conn \notin certs

IInv == TypeOK /\ HandInv /\ NothingLeaks

\* A step of w, or of nobody, that takes only what nobody else has, puts into the
\* tables only what w had, and lets go only of what is released.
LEMMA HandStep ==
    ASSUME IInv, TypeOK', NEW w \in Procs,
           \A v \in Procs : v # w => pc'[v] = pc[v] /\ req'[v] = req[v],
           Len(conns) <= Len(conns'),
           \A c \in Drawn : conns'[c].open => conns[c].open,
           \A c \in Drawn' : InHand(w, c)' => c \notin pool' /\ \A v \in Procs : v # w => ~InHand(v, c),
           \A c \in Drawn : c \in pool' => c \in pool \/ InHand(w, c),
           \A c \in Drawn : c \in certs' => c \in certs \/ InHand(w, c),
           \A c \in Drawn : c \in pool \/ InHand(w, c) =>
               c \in pool' \/ InHand(w, c)' \/ (~conns'[c].open /\ c \notin certs'),
           \A c \in Drawn' : c \notin Drawn => InHand(w, c)',
           pc'[w] = "uncert" /\ req'[w].kind # "oneshot" => ~conns'[req'[w].conn].open,
           pc'[w] = "close" /\ req'[w].kind = "oneshot" => req'[w].conn \notin certs'
    PROVE  IInv'
<1>0. /\ Len(conns) \in Nat /\ Len(conns') \in Nat /\ Drawn \subseteq Drawn'
      /\ \A v \in Procs : Fits(pc[v], req[v], Len(conns))
  BY DEF IInv, TypeOK, TablesOK, Drawn
<1>1. \A v \in Procs, c \in Drawn' : v # w => (InHand(v, c)' <=> InHand(v, c))
  BY DEF InHand
<1>2. \A v \in Procs : \A c : InHand(v, c) => c \in Drawn
  BY <1>0 DEF InHand, Fits, Drawn
<1>3. \A v \in Procs, c \in Drawn' : InHand(v, c)' => c \notin pool'
  BY <1>1, <1>2 DEF IInv, HandInv
<1>4. \A v, u \in Procs, c \in Drawn' : InHand(v, c)' /\ InHand(u, c)' => v = u
  BY <1>1, <1>2 DEF IInv, HandInv
<1>5. ASSUME NEW v \in Procs
      PROVE  /\ pc'[v] = "uncert" /\ req'[v].kind # "oneshot" => ~conns'[req'[v].conn].open
             /\ pc'[v] = "close" /\ req'[v].kind = "oneshot" => req'[v].conn \notin certs'
  <2>1. CASE v = w
    BY <2>1
  <2>2. CASE v # w
    <3>1. pc'[v] = pc[v] /\ req'[v] = req[v]
      BY <2>2
    <3>2. pc[v] \in {"uncert", "close"} => InHand(v, req[v].conn) /\ req[v].conn \in Drawn
      BY <1>2 DEF InHand
    <3> QED
      BY <2>2, <3>1, <3>2 DEF IInv, HandInv
  <2> QED
    BY <2>1, <2>2
<1>6. ASSUME NEW c \in Drawn', conns'[c].open \/ c \in certs'
      PROVE  c \in pool' \/ \E v \in Procs : InHand(v, c)'
  <2>1. CASE c \notin Drawn
    BY <2>1
  <2>2. CASE c \in Drawn
    <3>1. conns[c].open \/ c \in certs \/ InHand(w, c)
      BY <1>6, <2>2
    <3>2. c \in pool \/ \E v \in Procs : InHand(v, c)
      BY <2>2, <3>1 DEF IInv, NothingLeaks
    <3> QED
      BY <1>1, <1>6, <2>2, <3>2
  <2> QED
    BY <2>1, <2>2
<1>7. HandInv'
  BY <1>3, <1>4, <1>5 DEF HandInv
<1>8. NothingLeaks'
  BY <1>6 DEF NothingLeaks
<1> QED
  BY <1>7, <1>8 DEF IInv

\* A step that changes neither the tables, LastUsed aside, nor what w has in hand.
LEMMA HandSame ==
    ASSUME IInv, TypeOK', NEW w \in Procs, NEW next \in PCs, NEW l \in Locals, Goto(w, next, l),
           pool' = pool, certs' = certs, Len(conns') = Len(conns),
           \A c \in Drawn : conns'[c].open = conns[c].open,
           \/ ~(\E c \in Drawn : InHand(w, c)) /\ next \in {"idle", "suspend", "count", "dial", "handshake",
                                                        "lookup", "take", "touch", "next"}
           \/ ~(\E c \in Drawn : InHand(w, c)) /\ next \in {"start", "running"} /\ l.kind # "oneshot"
           \/ /\ InHand(w, req[w].conn) /\ l = req[w]
              /\ next \in {"running", "uncert"} /\ l.kind = "oneshot"
           \/ /\ InHand(w, req[w].conn) /\ l = req[w]
              /\ next = "close" /\ l.kind # "oneshot"
    PROVE  IInv'
<1>1. /\ pc'[w] = next /\ req'[w] = l
      /\ \A v \in Procs : v # w => pc'[v] = pc[v] /\ req'[v] = req[v]
  BY GotoEffect DEF IInv, TypeOK
<1>2. Len(conns) <= Len(conns') /\ Drawn' = Drawn
  BY DEF IInv, TypeOK, TablesOK, Drawn
<1>3. \A c \in Drawn : InHand(w, c)' <=> InHand(w, c)
  BY <1>1 DEF InHand
<1>4. \A c \in Drawn : InHand(w, c)' => c \notin pool' /\ \A v \in Procs : v # w => ~InHand(v, c)
  BY <1>3 DEF IInv, HandInv
<1>5. /\ pc'[w] = "uncert" /\ req'[w].kind # "oneshot" => ~conns'[req'[w].conn].open
      /\ pc'[w] = "close" /\ req'[w].kind = "oneshot" => req'[w].conn \notin certs'
  BY <1>1
<1> QED
  BY <1>1, <1>2, <1>3, <1>4, <1>5, HandStep

\* Where nothing is in hand.
LEMMA EmptyHands ==
    ASSUME NEW w \in Procs,
           \/ pc[w] \in {"idle", "suspend", "count", "dial", "handshake", "lookup", "take", "touch", "next"}
           \/ pc[w] \in {"start", "running"} /\ req[w].kind # "oneshot"
    PROVE  ~(\E c \in Drawn : InHand(w, c))
  BY DEF InHand

LEMMA CallEffect ==
    ASSUME TypeOK, NEW w \in Workers, Call(w)
    PROVE  /\ UNCHANGED <<conns, pool, certs>> /\ pc[w] = "idle"
           /\ \E next \in {"suspend", "count", "dial", "lookup", "next"}, l \in Locals :
                 /\ Goto(w, next, l)
                 /\ next \in {"suspend", "dial"} => l.kind = "oneshot"
<1> DEFINE Moves == \E next \in {"suspend", "count", "dial", "lookup", "next"}, l \in Locals :
                       /\ Goto(w, next, l)
                       /\ next \in {"suspend", "dial"} => l.kind = "oneshot"
<1>0. w \in Procs /\ Len(conns) \in Nat /\ Drawn \subseteq Numbers
  BY DEF Procs, TypeOK, TablesOK, Drawn, Numbers
<1>1. ASSUME NEW a \in Agents, NEW t \in Targets, NEW r \in Roles, NEW e \in Envelopes,
             NEW c \in Commands, NEW s \in Drawn \cup {0}, toolExec(w, a, t, r, e, c, s)
      PROVE  UNCHANGED <<conns, pool, certs>> /\ pc[w] = "idle" /\ Moves
  BY <1>0, <1>1, CallTyped DEF toolExec, Kinds
<1>2. ASSUME NEW a \in Agents, NEW t \in Targets, NEW r \in Roles, NEW e \in Envelopes,
             toolSessionCreate(w, a, t, r, e)
      PROVE  UNCHANGED <<conns, pool, certs>> /\ pc[w] = "idle" /\ Moves
  BY <1>2, CallTyped DEF toolSessionCreate, Kinds
<1>3. ASSUME NEW a \in Agents, NEW s \in Drawn, toolSessionClose(w, a, s)
      PROVE  UNCHANGED <<conns, pool, certs>> /\ pc[w] = "idle" /\ Moves
  <2>1. [NoLocals EXCEPT !.agent = a, !.todo = {s}] \in Locals
    BY <1>0 DEF NoLocals, Locals, Kinds
  <2> QED
    BY <1>3, <2>1 DEF toolSessionClose
<1> HIDE DEF Moves
<1>4. UNCHANGED <<conns, pool, certs>> /\ pc[w] = "idle" /\ Moves
  BY <1>1, <1>2, <1>3 DEF Call
<1> QED
  BY <1>4 DEF Moves

LEMMA HandCall ==
    ASSUME IInv, TypeOK', NEW w \in Workers, Call(w)
    PROVE  IInv'
<1>0. w \in Procs /\ TypeOK
  BY DEF Procs, IInv
<1>1. UNCHANGED <<conns, pool, certs>> /\ pc[w] = "idle"
  BY <1>0, CallEffect
<1>2. PICK next \in {"suspend", "count", "dial", "lookup", "next"}, l \in Locals : Goto(w, next, l)
  BY <1>0, CallEffect
<1>3. ~(\E c \in Drawn : InHand(w, c))
  BY <1>0, <1>1, EmptyHands
<1> QED
  BY <1>0, <1>1, <1>2, <1>3, HandSame DEF PCs

LEMMA HandQuiet ==
    ASSUME IInv, TypeOK', NEW w \in Workers, Quiet(w)
    PROVE  IInv'
<1>0. /\ w \in Procs /\ req[w] \in Locals /\ NoLocals \in Locals
      /\ Fits(pc[w], req[w], Len(conns)) /\ UNCHANGED <<conns, pool, certs>>
  BY QuietEffect, NoLocalsTyped DEF Procs, IInv, TypeOK
<1>1. CASE /\ Goto(w, "idle", NoLocals)
           /\ CountSessions(w) \/ signFails(w) \/ handshakeFails(w) \/ FindSession(w) \/ TakeClient(w)
  <2>1. pc[w] \in {"count", "dial", "handshake", "lookup", "take"}
    BY <1>1 DEF CountSessions, signFails, handshakeFails, FindSession, TakeClient
  <2> QED
    BY <1>0, <1>1, <2>1, EmptyHands, HandSame DEF PCs
<1>2. ASSUME NEW next, Goto(w, next, req[w]), <<pc[w], next>> \in
                    {<<"count", "dial">>, <<"dial", "handshake">>, <<"lookup", "take">>, <<"take", "start">>}
      PROVE  IInv'
  <2>1. next = "start" => req[w].kind # "oneshot"
    BY <1>0, <1>2 DEF Fits
  <2> QED
    BY <1>0, <1>2, <2>1, EmptyHands, HandSame DEF PCs
<1>3. ASSUME Goto(w, "close", req[w]), pc[w] = "insert"
      PROVE  IInv'
  BY <1>0, <1>3, HandSame DEF PCs, InHand, Fits
<1>4. ASSUME NEW next, Goto(w, next, req[w]), <<pc[w], next>> \in
                    {<<"start", "running">>, <<"start", "touch">>, <<"running", "touch">>,
                     <<"start", "uncert">>, <<"running", "uncert">>},
             next = "uncert" => req[w].kind = "oneshot", next = "touch" => req[w].kind # "oneshot"
      PROVE  IInv'
  <2>1. CASE req[w].kind = "oneshot"
    BY <1>0, <1>4, <2>1, HandSame DEF PCs, InHand
  <2>2. CASE req[w].kind # "oneshot"
    BY <1>0, <1>4, <2>2, EmptyHands, HandSame DEF PCs
  <2> QED
    BY <2>1, <2>2
<1> QED
  <2>1. CASE CountSessions(w) \/ signFails(w) \/ FindSession(w) \/ TakeClient(w)
    BY <1>1, <1>2, <2>1 DEF CountSessions, signFails, FindSession, TakeClient, Reply
  <2>4. CASE dialTarget(w) \/ handshakeFails(w)
    BY <1>1, <1>2, <2>4 DEF dialTarget, handshakeFails, Reply
  <2>2. CASE sessionIDFails(w)
    BY <1>3, <2>2 DEF sessionIDFails
  <2>3. CASE StartCommand(w) \/ EndCommand(w)
    BY <1>4, <2>3 DEF StartCommand, EndCommand, Executed
  <2> QED
    BY <2>1, <2>2, <2>3, <2>4 DEF Quiet

LEMMA HandWorker ==
    ASSUME IInv, TypeOK', NEW w \in Workers, Step(w)
    PROVE  IInv'
<1> DEFINE n == Len(conns)
           k == req[w].conn
<1>0. /\ w \in Procs /\ n \in Nat /\ req[w] \in Locals /\ Fits(pc[w], req[w], n)
      /\ TablesOK /\ now \in Nat /\ pc \in [Procs -> PCs] /\ req \in [Procs -> Locals]
      /\ NoLocals \in Locals
  BY NoLocalsTyped DEF Procs, IInv, TypeOK, TablesOK
<1>1. CASE AutoRevoke(w)
  <2>1. pc[w] = "suspend" /\ Goto(w, "idle", NoLocals) /\ UNCHANGED <<conns, pool, certs>>
    BY <1>1 DEF AutoRevoke, Reply
  <2> QED
    BY <1>0, <2>1, EmptyHands, HandSame DEF PCs
<1>2. CASE TouchSession(w)
  <2>1. /\ pc[w] = "touch" /\ Goto(w, "idle", NoLocals) /\ UNCHANGED <<pool, certs>>
        /\ conns' = [conns EXCEPT ![k].lastUsed = now] /\ k \in Drawn
    BY <1>0, <1>2 DEF TouchSession, Reply, Fits, Drawn
  <2>2. Len(conns') = n /\ \A c \in Drawn : conns'[c].open = conns[c].open
    <3>1. conns \in Seq(Connections) /\ DOMAIN conns = 1..n /\ \A c \in Drawn : conns[c] \in Connections
      BY <1>0 DEF TablesOK, Drawn
    <3>2. Len(conns') = n
      BY <1>0, <2>1, ConnUpdate
    <3> QED
      BY <2>1, <3>1, <3>2 DEF Drawn, Connections
  <2> QED
    BY <1>0, <2>1, <2>2, EmptyHands, HandSame DEF PCs
<1>3. CASE signAndConnect(w)
  <2> DEFINE r == req[w]
             x == [agent |-> r.agent, target |-> r.target, role |-> r.role,
                   open |-> TRUE, client |-> TRUE, lastUsed |-> now]
             l == [r EXCEPT !.conn = n + 1]
  <2>1. /\ pc[w] = "handshake" /\ n < MaxConns /\ conns' = Append(conns, x) /\ Goto(w, "add", l)
        /\ UNCHANGED <<pool, certs>>
    BY <1>3 DEF signAndConnect
  <2>2. l \in Locals /\ l.conn = n + 1
    <3>1. n + 1 \in Numbers
      BY <1>0, <2>1 DEF Numbers
    <3> QED
      BY <1>0, <3>1 DEF Locals
  <2>3. /\ pc'[w] = "add" /\ req'[w].conn = n + 1
        /\ \A v \in Procs : v # w => pc'[v] = pc[v] /\ req'[v] = req[v]
    BY <1>0, <2>1, <2>2, GotoEffect DEF PCs
  <2>4. x \in Connections
    BY <1>0, <2>1 DEF Connections, Fits
  <2>5. Len(conns') = n + 1 /\ \A c \in Drawn : conns'[c] = conns[c]
    BY <1>0, <2>1, <2>4 DEF TablesOK, Drawn
  <2>6. \A c : InHand(w, c)' <=> c = n + 1
    BY <2>3 DEF InHand
  <2>7. n + 1 \notin pool /\ \A v \in Procs : ~InHand(v, n + 1)
    BY <1>0 DEF IInv, TypeOK, TablesOK, Drawn, InHand, Fits
  <2>8. \A c \in Drawn : ~InHand(w, c)
    BY <1>0, <2>1, EmptyHands
  <2>9. \A c \in Drawn' : c \notin Drawn => c = n + 1
    BY <1>0, <2>5 DEF Drawn
  <2>10. \A c \in Drawn' : InHand(w, c)' => c \notin pool' /\ \A v \in Procs : v # w => ~InHand(v, c)
    BY <2>1, <2>6, <2>7
  <2>11. n <= Len(conns') /\ pool' = pool /\ certs' = certs /\ pc'[w] = "add"
    BY <1>0, <2>1, <2>3, <2>5
  <2>12. \A c \in Drawn' : c \notin Drawn => InHand(w, c)'
    BY <2>6, <2>9
  <2>13. \A c \in Drawn : conns'[c].open => conns[c].open
    BY <2>5
  <2> HIDE DEF x, l
  <2> QED
    BY <1>0, <2>3, <2>8, <2>10, <2>11, <2>12, <2>13, HandStep
<1>4. CASE AddCert(w)
  <2>1. /\ pc[w] = "add" /\ certs' = certs \cup {k} /\ UNCHANGED <<conns, pool>>
        /\ Goto(w, IF req[w].kind = "oneshot" THEN "start" ELSE "insert", req[w])
    BY <1>4 DEF AddCert
  <2>2. /\ pc'[w] = IF req[w].kind = "oneshot" THEN "start" ELSE "insert"
        /\ req'[w] = req[w]
        /\ \A v \in Procs : v # w => pc'[v] = pc[v] /\ req'[v] = req[v]
    BY <1>0, <2>1, GotoEffect DEF PCs
  <2>3. \A c : (InHand(w, c) <=> c = k) /\ (InHand(w, c)' <=> c = k)
    BY <2>1, <2>2 DEF InHand
  <2>4. k \in Drawn /\ Drawn' = Drawn
    BY <1>0, <2>1 DEF Fits, Drawn
  <2>5. k \notin pool /\ \A v \in Procs : v # w => ~InHand(v, k)
    BY <1>0, <2>3, <2>4 DEF IInv, HandInv
  <2> QED
    BY <1>0, <2>1, <2>2, <2>3, <2>4, <2>5, HandStep
<1>5. CASE InsertSession(w)
  <2>1. /\ pc[w] = "insert" /\ pool' = pool \cup {k} /\ certs' = certs
        /\ conns' = [conns EXCEPT ![k].lastUsed = now] /\ Goto(w, "idle", NoLocals)
    BY <1>5 DEF InsertSession, Reply
  <2>2. /\ pc'[w] = "idle"
        /\ \A v \in Procs : v # w => pc'[v] = pc[v] /\ req'[v] = req[v]
    BY <1>0, <2>1, GotoEffect DEF PCs
  <2>3. \A c : (InHand(w, c) <=> c = k) /\ ~InHand(w, c)'
    BY <2>1, <2>2 DEF InHand
  <2>4. k \in Drawn
    BY <1>0, <2>1 DEF Fits, Drawn
  <2>5. Len(conns') = n /\ \A c \in Drawn : conns'[c].open => conns[c].open
    BY <1>0, <2>1, <2>4, ConnUpdate
  <2>6. Drawn' = Drawn
    BY <2>5 DEF Drawn
  <2> QED
    BY <1>0, <2>1, <2>2, <2>3, <2>4, <2>5, <2>6, HandStep
<1> QED
  BY <1>1, <1>2, <1>3, <1>4, <1>5, HandQuiet DEF Step, Quiet

LEMMA HandRelease ==
    ASSUME IInv, TypeOK', NEW w \in Procs, Release(w)
    PROVE  IInv'
<1> DEFINE n == Len(conns)
           k == req[w].conn
<1>0. /\ n \in Nat /\ req[w] \in Locals /\ Fits(pc[w], req[w], n) /\ Drawn \subseteq Numbers
      /\ TablesOK /\ now \in Nat /\ pc \in [Procs -> PCs] /\ req \in [Procs -> Locals]
      /\ NoLocals \in Locals
  BY NoLocalsTyped DEF IInv, TypeOK, TablesOK, Drawn, Numbers
<1>1. ASSUME NEW s \in req[w].todo, DeleteSession(w, s)
      PROVE  IInv'
  <2> DEFINE rest == req[w].todo \ {s}
             del == [req[w] EXCEPT !.conn = s, !.todo = rest]
             skip == [req[w] EXCEPT !.todo = rest]
  <2>1. pc[w] = "next" /\ UNCHANGED <<conns, certs>>
    BY <1>1 DEF DeleteSession
  <2>2. s \in Drawn /\ rest \in SUBSET Numbers
    BY <1>0, <2>1 DEF Fits, Drawn, Locals
  <2>3. del \in Locals /\ del.conn = s /\ skip \in Locals
    BY <1>0, <2>2 DEF Locals
  <2>4. ~(\E c \in Drawn : InHand(w, c))
    BY <2>1, EmptyHands
  <2>5. CASE MayClose(w, s)
    <3>1. s \in pool /\ pool' = pool \ {s} /\ Goto(w, "nil", del)
      BY <1>1, <2>5 DEF DeleteSession, MayClose
    <3>2. /\ pc'[w] = "nil" /\ req'[w].conn = s
          /\ \A v \in Procs : v # w => pc'[v] = pc[v] /\ req'[v] = req[v]
      <4>1. "nil" \in PCs  BY DEF PCs
      <4> HIDE DEF del
      <4> QED  BY <1>0, <2>3, <3>1, <4>1, GotoEffect
    <3>3. \A c : InHand(w, c)' <=> c = s
      BY <3>2 DEF InHand
    <3>4. \A v \in Procs : ~InHand(v, s)
      BY <2>2, <3>1 DEF IInv, HandInv
    <3>5. Drawn' = Drawn /\ n <= Len(conns')
      BY <1>0, <2>1 DEF Drawn
    <3> QED
      BY <1>0, <2>1, <2>2, <2>4, <3>1, <3>2, <3>3, <3>4, <3>5, HandStep
  <2>6. CASE ~MayClose(w, s)
    <3>1. pool' = pool /\ (Goto(w, "next", skip) \/ Goto(w, "idle", NoLocals))
      BY <1>1, <2>6 DEF DeleteSession, Reply
    <3> HIDE DEF skip
    <3> QED
      BY <1>0, <2>1, <2>3, <2>4, <3>1, HandSame DEF PCs
  <2> QED
    BY <2>5, <2>6
<1>2. CASE ClearClient(w)
  <2>1. /\ pc[w] = "nil" /\ Goto(w, "close", req[w]) /\ UNCHANGED <<pool, certs>>
        /\ conns' = [conns EXCEPT ![k].client = FALSE] /\ k \in Drawn
    BY <1>0, <1>2 DEF ClearClient, Fits, Drawn
  <2>2. Len(conns') = n /\ \A c \in Drawn : conns'[c].open = conns[c].open
    <3>1. conns \in Seq(Connections) /\ DOMAIN conns = 1..n /\ \A c \in Drawn : conns[c] \in Connections
      BY <1>0 DEF TablesOK, Drawn
    <3>2. Len(conns') = n
      BY <1>0, <2>1, ConnUpdate
    <3> QED
      BY <2>1, <3>1, <3>2 DEF Drawn, Connections
  <2>3. InHand(w, k) /\ req[w].kind # "oneshot"
    BY <1>0, <2>1 DEF InHand, Fits
  <2> QED
    BY <1>0, <2>1, <2>2, <2>3, HandSame DEF PCs
<1>3. CASE CloseClient(w)
  <2>1. /\ pc[w] = "close" /\ UNCHANGED <<pool, certs>>
        /\ conns' = [conns EXCEPT ![k].open = FALSE] /\ k \in Drawn
        /\ IF req[w].kind = "oneshot" THEN Goto(w, "idle", NoLocals) ELSE Goto(w, "uncert", req[w])
    BY <1>0, <1>3 DEF CloseClient, Fits, Drawn, Reply
  <2>2. /\ pc'[w] = IF req[w].kind = "oneshot" THEN "idle" ELSE "uncert"
        /\ req[w].kind # "oneshot" => req'[w] = req[w]
        /\ \A v \in Procs : v # w => pc'[v] = pc[v] /\ req'[v] = req[v]
    BY <1>0, <2>1, GotoEffect DEF PCs
  <2>3. \A c : (InHand(w, c) <=> c = k) /\ (InHand(w, c)' <=> c = k /\ req[w].kind # "oneshot")
    BY <2>1, <2>2 DEF InHand
  <2>4. Len(conns') = n /\ ~conns'[k].open /\ \A c \in Drawn : conns'[c].open => conns[c].open
    BY <1>0, <2>1, ConnUpdate
  <2>5. Drawn' = Drawn
    BY <2>4 DEF Drawn
  <2>6. k \notin pool /\ \A v \in Procs : v # w => ~InHand(v, k)
    BY <1>0, <2>1, <2>3 DEF IInv, HandInv
  <2>7. req[w].kind = "oneshot" => k \notin certs
    BY <2>1 DEF IInv, HandInv
  <2> QED
    BY <1>0, <2>1, <2>2, <2>3, <2>4, <2>5, <2>6, <2>7, HandStep
<1>4. CASE RemoveCert(w)
  <2>1. /\ pc[w] = "uncert" /\ certs' = certs \ {k} /\ UNCHANGED <<conns, pool>> /\ k \in Drawn
        /\ \/ req[w].kind = "oneshot" /\ Goto(w, "close", req[w])
           \/ req[w].kind # "oneshot" /\ (Goto(w, "idle", NoLocals) \/ Goto(w, "next", req[w]))
    BY <1>0, <1>4 DEF RemoveCert, Closed, Fits, Drawn, Reply
  <2>2. /\ req[w].kind = "oneshot" => pc'[w] = "close" /\ req'[w] = req[w]
        /\ req[w].kind # "oneshot" => pc'[w] \in {"idle", "next"}
        /\ \A v \in Procs : v # w => pc'[v] = pc[v] /\ req'[v] = req[v]
    BY <1>0, <2>1, GotoEffect DEF PCs
  <2>3. \A c : (InHand(w, c) <=> c = k) /\ (InHand(w, c)' <=> c = k /\ req[w].kind = "oneshot")
    BY <2>1, <2>2 DEF InHand
  <2>4. Drawn' = Drawn /\ n <= Len(conns')
    BY <1>0, <2>1 DEF Drawn
  <2>5. k \notin pool /\ \A v \in Procs : v # w => ~InHand(v, k)
    BY <1>0, <2>1, <2>3 DEF IInv, HandInv
  <2>6. req[w].kind # "oneshot" => ~conns[k].open
    BY <2>1 DEF IInv, HandInv
  <2> QED
    BY <1>0, <2>1, <2>2, <2>3, <2>4, <2>5, <2>6, HandStep
<1> QED
  BY <1>1, <1>2, <1>3, <1>4 DEF Release

LEMMA HandNext == ASSUME IInv, [Next]_vars PROVE IInv'
<1>0. TypeOK'
  BY TypeNext DEF IInv
<1>1. CASE Outside
  <2>1. /\ pc' = pc /\ req' = req /\ pool' = pool /\ certs' \subseteq certs /\ Drawn' = Drawn
        /\ \A c \in Drawn : conns'[c].open => conns[c].open
    BY <1>1, OutsideEffect DEF IInv, Drawn
  <2>2. \A w \in Procs, c \in Drawn : InHand(w, c)' <=> InHand(w, c)
    BY <2>1 DEF InHand
  <2>3. HandInv'
    <3>1. \A w \in Procs : pc[w] = "uncert" => req[w].conn \in Drawn
      BY DEF IInv, TypeOK, Fits, Drawn
    <3> QED
      BY <2>1, <2>2, <3>1 DEF IInv, HandInv
  <2>4. NothingLeaks'
    BY <2>1, <2>2 DEF IInv, NothingLeaks
  <2> QED
    BY <1>0, <2>3, <2>4 DEF IInv
<1>2. CASE FindIdle
  <2>1. /\ pc[Cleaner] = "idle" /\ UNCHANGED <<conns, pool, certs>>
        /\ \E l : Goto(Cleaner, "next", l)
    BY <1>2 DEF FindIdle
  <2>2. Cleaner \in Procs
    BY DEF Procs
  <2>3. PICK l : Goto(Cleaner, "next", l)
    BY <2>1
  <2>4. req'[Cleaner] = l /\ req'[Cleaner] \in Locals
    BY <1>0, <2>2, <2>3 DEF Goto, IInv, TypeOK
  <2> QED
    BY <1>0, <2>1, <2>2, <2>3, <2>4, EmptyHands, HandSame DEF PCs
<1>3. CASE UNCHANGED vars
  BY <1>3, <1>0 DEF vars, IInv, HandInv, NothingLeaks, InHand, Drawn
<1> QED
  BY <1>0, <1>1, <1>2, <1>3, HandCall, HandWorker, HandRelease DEF Next, Outside

LEMMA HandInit == ASSUME Init PROVE IInv
  BY TypeInit DEF Init, IInv, HandInv, NothingLeaks, InHand, Drawn

\* Every connection and certificate is in the pool or in the hands of a process
\* that releases it, whatever fails on the way.
THEOREM ConnectionsAreReleased == Spec => []NothingLeaks
  BY HandInit, HandNext, PTL DEF Spec, IInv

\* A session that was closed does not come back, and no command is started on it.
THEOREM ClosingIsFinal == Spec => ClosedIsFinal
<1> DEFINE Final(c) ==
      c \notin pool /\ ~(\E w \in Procs : InHand(w, c)) =>
          /\ c \notin pool'
          /\ \A w \in Workers : pc[w] # "running" /\ pc'[w] = "running" => req[w].conn # c
<1>1. ASSUME IInv, [Next]_vars, NEW c \in Drawn PROVE Final(c)
  <2> SUFFICES ASSUME c \notin pool, ~(\E w \in Procs : InHand(w, c))
               PROVE  /\ c \notin pool'
                      /\ \A w \in Workers : pc[w] # "running" /\ pc'[w] = "running" => req[w].conn # c
    OBVIOUS
  <2>0. /\ pc \in [Procs -> PCs] /\ Workers \subseteq Procs /\ ~conns[c].open
        /\ pc' \in [Procs -> PCs]
    BY <1>1, TypeNext DEF IInv, NothingLeaks, TypeOK, Procs
  <2>1. c \notin pool'
    <3>1. \A w \in Workers : InsertSession(w) => pool' = pool \cup {req[w].conn} /\ InHand(w, req[w].conn)
      BY DEF InsertSession, InHand
    <3>2. \A w \in Workers : Step(w) /\ ~InsertSession(w) => pool' = pool
      BY DEF Step, AutoRevoke, CountSessions, dialTarget, signFails, signAndConnect, handshakeFails,
             AddCert, sessionIDFails, FindSession, TakeClient, StartCommand, EndCommand, TouchSession
    <3>3. \A w \in Workers : Call(w) => pool' = pool
      BY <1>1, CallEffect DEF IInv
    <3>4. \A w \in Procs : Release(w) => pool' \subseteq pool
      BY DEF Release, DeleteSession, ClearClient, CloseClient, RemoveCert
    <3>5. FindIdle \/ Outside \/ UNCHANGED vars => pool' = pool
      BY DEF FindIdle, Outside, ToggleHost, HostSilence, CertLeaves, ConnectionLost, ReloadPolicy,
             Tick, vars
    <3>6. ASSUME NEW w \in Workers, InsertSession(w) PROVE c \notin pool'
      BY <2>0, <3>1, <3>6
    <3> QED
      BY <1>1, <3>2, <3>3, <3>4, <3>5, <3>6 DEF Next, Outside
  <2>2. ASSUME NEW w \in Workers, pc[w] # "running", pc'[w] = "running" PROVE req[w].conn # c
    <3>1. \A v \in Procs : \A next, l : Goto(v, next, l) => (v = w /\ next = "running")
      BY <2>0, <2>2 DEF Goto
    <3>2. ~FindIdle /\ ~Outside /\ ~UNCHANGED vars
      BY <2>0, <2>2, <3>1 DEF FindIdle, Outside, ToggleHost, HostSilence, CertLeaves, ConnectionLost,
             ReloadPolicy, Tick, vars, Procs
    <3>3. ASSUME NEW v \in Procs, Release(v) PROVE FALSE
      <4>1. \A s : ~DeleteSession(v, s)
        BY <3>1 DEF DeleteSession, Reply
      <4>2. ~ClearClient(v) /\ ~CloseClient(v)
        BY <3>1 DEF ClearClient, CloseClient, Reply
      <4>3. ~RemoveCert(v)
        BY <3>1 DEF RemoveCert, Closed, Reply
      <4> QED
        BY <3>3, <4>1, <4>2, <4>3 DEF Release
    <3>4. ASSUME NEW v \in Workers, Call(v) PROVE FALSE
      BY <1>1, <2>0, <3>1, <3>4, CallEffect DEF IInv
    <3>5. PICK v \in Workers : Step(v)
      BY <1>1, <3>2, <3>3, <3>4 DEF Next, Outside
    <3>6. v \in Procs
      BY <2>0
    <3>7. StartCommand(v) \/ EndCommand(v)
      BY <3>1, <3>5, <3>6 DEF Step, AutoRevoke, CountSessions, dialTarget, signFails, signAndConnect, handshakeFails,
             AddCert, InsertSession, sessionIDFails, FindSession, TakeClient, TouchSession, Reply
    <3>8. v = w /\ StartCommand(w) /\ conns[req[w].conn].open
      BY <3>1, <3>6, <3>7 DEF StartCommand, EndCommand, Executed
    <3> QED
      BY <2>0, <3>8
  <2> QED
    BY <2>1, <2>2
<1>2. IInv /\ [Next]_vars => [\A c \in Drawn : Final(c)]_vars
  BY <1>1
<1> QED
  BY <1>2, HandInit, HandNext, PTL DEF Spec, ClosedIsFinal

-----------------------------------------------------------------------------
(* Whose connections. *)

\* No step changes the agent of a connection.
LEMMA AgentsKept ==
    ASSUME TypeOK, [Next]_vars
    PROVE  \A c \in Drawn : conns'[c].agent = conns[c].agent
<1>0. TablesOK /\ now \in Nat /\ Workers \subseteq Procs /\ Len(conns) \in Nat
      /\ \A w \in Procs : Fits(pc[w], req[w], Len(conns))
  BY DEF TypeOK, TablesOK, Procs
<1>1. ASSUME NEW w \in Workers, Step(w) PROVE \A c \in Drawn : conns'[c].agent = conns[c].agent
  <2>1. CASE signAndConnect(w)
    <3>1. PICK x : conns' = Append(conns, x)
      BY <2>1 DEF signAndConnect
    <3> QED
      BY <1>0, <3>1 DEF TablesOK, Drawn
  <2>2. CASE InsertSession(w) \/ TouchSession(w)
    <3>1. req[w].conn \in Drawn /\ conns' = [conns EXCEPT ![req[w].conn].lastUsed = now]
      BY <1>0, <2>2 DEF InsertSession, TouchSession, Fits, Drawn
    <3> QED
      BY <1>0, <3>1, ConnUpdate
  <2>3. CASE ~signAndConnect(w) /\ ~InsertSession(w) /\ ~TouchSession(w)
    BY <1>1, <2>3, QuietEffect DEF Step, Quiet, AutoRevoke, AddCert
  <2> QED
    BY <2>1, <2>2, <2>3
<1>2. ASSUME NEW w \in Procs, Release(w) PROVE \A c \in Drawn : conns'[c].agent = conns[c].agent
  <2>1. CASE ClearClient(w) \/ CloseClient(w)
    <3>1. /\ req[w].conn \in Drawn
          /\ \/ conns' = [conns EXCEPT ![req[w].conn].client = FALSE]
             \/ conns' = [conns EXCEPT ![req[w].conn].open = FALSE]
      BY <1>0, <2>1 DEF ClearClient, CloseClient, Fits, Drawn
    <3> QED
      BY <1>0, <3>1, ConnUpdate
  <2>2. CASE ~ClearClient(w) /\ ~CloseClient(w)
    BY <1>2, <2>2 DEF Release, DeleteSession, RemoveCert
  <2> QED
    BY <2>1, <2>2
<1>3. CASE Outside
  BY <1>3, OutsideEffect
<1>4. CASE FindIdle \/ UNCHANGED vars
  BY <1>4 DEF FindIdle, vars
<1> QED
  BY <1>1, <1>2, <1>3, <1>4, CallEffect DEF Next, Outside

\* Where a handler works on a connection of its caller.
Working == {"add", "insert", "take", "start", "running", "touch"}

OwnInv == \A w \in Workers : pc[w] \in Working => conns[req[w].conn].agent = req[w].agent

\* How a handler gets to such a place.
LEMMA WorkingStep ==
    ASSUME TypeOK, [Next]_vars, NEW w \in Workers, pc'[w] \in Working
    PROVE  \/ pc[w] \in Working /\ req'[w] = req[w]
           \/ FindSession(w) /\ conns[req[w].conn].agent = req[w].agent /\ req'[w] = req[w]
              /\ pc[w] = "lookup" /\ conns' = conns
           \/ signAndConnect(w)
<1>0. /\ pc \in [Procs -> PCs] /\ req \in [Procs -> Locals] /\ Workers \subseteq Procs
  BY DEF TypeOK, Procs
<1>1. \A v \in Procs : \A next, l : Goto(v, next, l) =>
         \/ v = w /\ next \in Working /\ req'[w] = l
         \/ v # w /\ pc'[w] = pc[w] /\ req'[w] = req[w]
  BY <1>0 DEF Goto
<1>2. CASE Outside \/ UNCHANGED vars
  BY <1>2, OutsideEffect DEF vars
<1>3. CASE FindIdle
  <2>1. \E l : Goto(Cleaner, "next", l)
    BY <1>3 DEF FindIdle
  <2> QED
    BY <1>1, <2>1 DEF Procs, Working
<1>4. ASSUME NEW v \in Procs, Release(v)
      PROVE  pc[w] \in Working /\ req'[w] = req[w]
  <2>1. \E next \in {"idle", "next", "nil", "close", "uncert"} : \E l : Goto(v, next, l)
    <3>1. ASSUME NEW s, DeleteSession(v, s)
          PROVE  \E next \in {"idle", "next", "nil", "close", "uncert"} : \E l : Goto(v, next, l)
      BY <3>1 DEF DeleteSession, Reply
    <3>2. CASE ClearClient(v) \/ CloseClient(v)
      BY <3>2 DEF ClearClient, CloseClient, Reply
    <3>3. CASE RemoveCert(v)
      BY <3>3 DEF RemoveCert, Closed, Reply
    <3> QED
      BY <1>4, <3>1, <3>2, <3>3 DEF Release
  <2> QED
    BY <1>1, <2>1 DEF Working
<1>5. ASSUME NEW v \in Workers, Call(v)
      PROVE  pc[w] \in Working /\ req'[w] = req[w]
  BY <1>0, <1>1, <1>5, CallEffect DEF Working
<1>6. ASSUME NEW v \in Workers, Step(v), v # w
      PROVE  pc[w] \in Working /\ req'[w] = req[w]
  <2>1. \E next, l : Goto(v, next, l)
    <3>1. CASE Quiet(v)
      BY <3>1, QuietEffect
    <3>2. CASE ~Quiet(v)
      BY <1>6, <3>2 DEF Step, Quiet, AutoRevoke, signAndConnect, AddCert, InsertSession, TouchSession, Reply
    <3> QED
      BY <3>1, <3>2
  <2> QED
    BY <1>0, <1>1, <1>6, <2>1
<1>7. ASSUME Step(w), ~signAndConnect(w), ~FindSession(w)
      PROVE  pc[w] \in Working /\ req'[w] = req[w]
  <2>1. ~AutoRevoke(w) /\ ~InsertSession(w) /\ ~TouchSession(w)
    BY <1>0, <1>1 DEF AutoRevoke, InsertSession, TouchSession, Reply, Working
  <2>5. ~dialTarget(w) /\ ~signFails(w) /\ ~handshakeFails(w)
    BY <1>0, <1>1 DEF dialTarget, signFails, handshakeFails, Reply, Working
  <2>2. CASE AddCert(w)
    BY <1>0, <1>1, <2>2 DEF AddCert, Working
  <2>3. CASE CountSessions(w) \/ sessionIDFails(w) \/ TakeClient(w)
    BY <1>0, <1>1, <2>3 DEF CountSessions, sessionIDFails, TakeClient, Reply, Working
  <2>4. CASE StartCommand(w) \/ EndCommand(w)
    BY <1>0, <1>1, <2>4 DEF StartCommand, EndCommand, Executed, Working
  <2> QED
    BY <1>7, <2>1, <2>2, <2>3, <2>4, <2>5 DEF Step
<1>8. CASE FindSession(w)
  BY <1>0, <1>1, <1>8 DEF FindSession, Reply, Working
<1> QED
  BY <1>2, <1>3, <1>4, <1>5, <1>6, <1>7, <1>8 DEF Next, Outside

LEMMA OwnNext == ASSUME TypeOK, OwnInv, [Next]_vars PROVE OwnInv'
<1> SUFFICES ASSUME NEW w \in Workers, pc'[w] \in Working
             PROVE  conns'[req'[w].conn].agent = req'[w].agent
  BY DEF OwnInv
<1>0. /\ w \in Procs /\ req[w] \in Locals /\ Fits(pc[w], req[w], Len(conns))
      /\ pc \in [Procs -> PCs] /\ req \in [Procs -> Locals] /\ Len(conns) \in Nat
      /\ TablesOK /\ now \in Nat
  BY DEF TypeOK, TablesOK, Procs
<1>1. CASE pc[w] \in Working /\ req'[w] = req[w]
  <2>1. req[w].conn \in Drawn
    BY <1>0, <1>1 DEF Working, Fits, Drawn
  <2> QED
    BY <1>1, <2>1, AgentsKept DEF OwnInv
<1>2. CASE signAndConnect(w)
  <2> DEFINE l == [req[w] EXCEPT !.conn = Len(conns) + 1]
  <2>1. Goto(w, "add", l) /\ \E x : conns' = Append(conns, x) /\ x.agent = req[w].agent
    BY <1>2 DEF signAndConnect
  <2>2. req'[w] = l
    BY <1>0, <2>1 DEF Goto
  <2>3. l.conn = Len(conns) + 1 /\ l.agent = req[w].agent
    BY <1>0 DEF Locals
  <2>4. conns'[Len(conns) + 1].agent = req[w].agent
    BY <1>0, <2>1 DEF TablesOK
  <2> QED
    BY <2>2, <2>3, <2>4
<1> QED
  BY <1>1, <1>2, WorkingStep

\* A command runs over a connection of the agent that sent it, for as long as it
\* runs.
THEOREM ConnectionsAreOwn == Spec => []OwnConnections
<1>1. Init => OwnInv
  BY DEF Init, OwnInv, Working, Procs
<1>2. OwnInv => OwnConnections
  BY DEF OwnInv, OwnConnections, Working
<1> QED
  BY <1>1, <1>2, TypeInit, TypeNext, OwnNext, PTL DEF Spec

-----------------------------------------------------------------------------
(* The limit on sessions. *)

Bounded(a) == Cardinality(Held(a)) + Cardinality(Creating(a)) <= MaxPerAgent - 1 + Cardinality(Workers)

LEMMA HeldFinite ==
    ASSUME TypeOK, NEW a
    PROVE  /\ IsFiniteSet(Held(a)) /\ Cardinality(Held(a)) \in Nat
           /\ IsFiniteSet(Creating(a)) /\ Cardinality(Creating(a)) \in Nat
           /\ Cardinality(Creating(a)) <= Cardinality(Workers) /\ Cardinality(Workers) \in Nat
<1>1. IsFiniteSet(1..Len(conns))
  BY FS_Interval DEF TypeOK, TablesOK
<1>2. Held(a) \subseteq 1..Len(conns) /\ Creating(a) \subseteq Workers
  BY DEF TypeOK, TablesOK, Held, Creating, Drawn
<1> QED
  BY <1>1, <1>2, FS_Subset, FS_CardinalityType

\* Fewer sessions and fewer creators keep the bound.
LEMMA BoundedKept ==
    ASSUME TypeOK, TypeOK', NEW a \in Agents, Bounded(a),
           Held(a)' \subseteq Held(a), Creating(a)' \subseteq Creating(a)
    PROVE  Bounded(a)'
<1>1. /\ IsFiniteSet(Held(a)) /\ IsFiniteSet(Creating(a))
      /\ Cardinality(Held(a)) \in Nat /\ Cardinality(Creating(a)) \in Nat /\ Cardinality(Workers) \in Nat
  BY HeldFinite
<1>2. /\ Cardinality(Held(a)') \in Nat /\ Cardinality(Held(a)') <= Cardinality(Held(a))
      /\ Cardinality(Creating(a)') \in Nat /\ Cardinality(Creating(a)') <= Cardinality(Creating(a))
  BY <1>1, FS_Subset, FS_CardinalityType
<1> QED
  BY <1>1, <1>2 DEF Bounded

\* How a handler becomes or stays a creator: CountSessions is the only way in.
LEMMA CreatorStep ==
    ASSUME TypeOK, [Next]_vars, NEW w \in Workers, pc'[w] \in {"dial", "handshake", "add", "insert"},
           req'[w].kind = "create", ~CountSessions(w)
    PROVE  \/ pc[w] \in {"dial", "handshake", "add"} /\ req[w].kind = "create" /\ req'[w].agent = req[w].agent
           \/ pc'[w] = pc[w] /\ req'[w] = req[w]
<1>0. /\ pc \in [Procs -> PCs] /\ req \in [Procs -> Locals] /\ Workers \subseteq Procs /\ w \in Procs
      /\ req[w] \in Locals
  BY DEF TypeOK, Procs
<1>1. \A v \in Procs : \A next, l : Goto(v, next, l) =>
         \/ v = w /\ next = pc'[w] /\ req'[w] = l
         \/ v # w /\ pc'[w] = pc[w] /\ req'[w] = req[w]
  BY <1>0 DEF Goto
<1>2. CASE Outside \/ UNCHANGED vars
  BY <1>2, OutsideEffect DEF vars
<1>3. CASE FindIdle
  <2>1. \E l : Goto(Cleaner, "next", l)
    BY <1>3 DEF FindIdle
  <2> QED
    BY <1>1, <2>1 DEF Procs
<1>4. ASSUME NEW v \in Procs, Release(v)
      PROVE  pc'[w] = pc[w] /\ req'[w] = req[w]
  <2>1. \E next \in {"idle", "next", "nil", "close", "uncert"} : \E l : Goto(v, next, l)
    <3>1. ASSUME NEW s, DeleteSession(v, s)
          PROVE  \E next \in {"idle", "next", "nil", "close", "uncert"} : \E l : Goto(v, next, l)
      BY <3>1 DEF DeleteSession, Reply
    <3>2. CASE ClearClient(v) \/ CloseClient(v)
      BY <3>2 DEF ClearClient, CloseClient, Reply
    <3>3. CASE RemoveCert(v)
      BY <3>3 DEF RemoveCert, Closed, Reply
    <3> QED
      BY <1>4, <3>1, <3>2, <3>3 DEF Release
  <2> QED
    BY <1>1, <2>1
<1>5. ASSUME NEW v \in Workers, Call(v)
      PROVE  pc'[w] = pc[w] /\ req'[w] = req[w]
  <2>1. PICK next \in {"suspend", "count", "dial", "lookup", "next"}, l \in Locals :
            Goto(v, next, l) /\ (next \in {"suspend", "dial"} => l.kind = "oneshot")
    BY <1>5, CallEffect
  <2> QED
    BY <1>0, <1>1, <2>1
<1>6. ASSUME NEW v \in Workers, Step(v), v # w
      PROVE  pc'[w] = pc[w] /\ req'[w] = req[w]
  <2>1. \E next, l : Goto(v, next, l)
    <3>1. CASE Quiet(v)
      BY <3>1, QuietEffect
    <3>2. CASE ~Quiet(v)
      BY <1>6, <3>2 DEF Step, Quiet, AutoRevoke, signAndConnect, AddCert, InsertSession, TouchSession, Reply
    <3> QED
      BY <3>1, <3>2
  <2> QED
    BY <1>0, <1>1, <1>6, <2>1
<1>7. ASSUME Step(w)
      PROVE  pc[w] \in {"dial", "handshake", "add"} /\ req[w].kind = "create" /\ req'[w].agent = req[w].agent
  <2>1. Quiet(w) => dialTarget(w)
    <3>3. ~handshakeFails(w)
      BY <1>0, <1>1 DEF handshakeFails, Reply
    <3>1. ~signFails(w) /\ ~sessionIDFails(w) /\ ~FindSession(w) /\ ~TakeClient(w)
      BY <1>0, <1>1 DEF signFails, sessionIDFails, FindSession, TakeClient, Reply
    <3>2. ~StartCommand(w) /\ ~EndCommand(w)
      BY <1>0, <1>1 DEF StartCommand, EndCommand, Executed
    <3> QED
      BY <3>1, <3>2, <3>3 DEF Quiet
  <2>5. CASE dialTarget(w)
    BY <1>0, <1>1, <2>5 DEF dialTarget
  <2>2. ~AutoRevoke(w) /\ ~InsertSession(w) /\ ~TouchSession(w)
    BY <1>0, <1>1 DEF AutoRevoke, InsertSession, TouchSession, Reply
  <2>3. CASE AddCert(w)
    BY <1>0, <1>1, <2>3 DEF AddCert
  <2>4. CASE signAndConnect(w)
    <3>1. pc[w] = "handshake" /\ req'[w] = [req[w] EXCEPT !.conn = Len(conns) + 1]
      BY <1>0, <1>1, <2>4 DEF signAndConnect
    <3>2. req'[w].kind = req[w].kind /\ req'[w].agent = req[w].agent
      BY <1>0, <3>1 DEF Locals
    <3> QED
      BY <3>1, <3>2
  <2> QED
    BY <1>7, <2>1, <2>2, <2>3, <2>4, <2>5 DEF Step, Quiet
<1>8. \/ Outside \/ UNCHANGED vars \/ FindIdle
      \/ \E v \in Procs : Release(v)
      \/ \E v \in Workers : Step(v) \/ Call(v)
  BY DEF Next, Outside
<1> QED
  BY <1>2, <1>3, <1>4, <1>5, <1>6, <1>7, <1>8

LEMMA OverrunNext ==
    ASSUME TypeOK, OwnInv, [Next]_vars, NEW a \in Agents, Bounded(a)
    PROVE  Bounded(a)'
<1>0. /\ TypeOK' /\ pc \in [Procs -> PCs] /\ req \in [Procs -> Locals] /\ Workers \subseteq Procs
      /\ pool \subseteq Drawn
      /\ \A w \in Procs : req[w] \in Locals /\ Fits(pc[w], req[w], Len(conns))
  BY TypeNext DEF TypeOK, TablesOK, Procs
<1>1. /\ IsFiniteSet(Held(a)) /\ IsFiniteSet(Creating(a))
      /\ Cardinality(Held(a)) \in Nat /\ Cardinality(Creating(a)) \in Nat /\ Cardinality(Workers) \in Nat
  BY HeldFinite
<1>2. /\ Cardinality(Held(a)') \in Nat /\ Cardinality(Creating(a)') \in Nat
      /\ Cardinality(Creating(a)') <= Cardinality(Workers)
  <2>1. IsFiniteSet(1..Len(conns'))
    BY <1>0, FS_Interval DEF TypeOK, TablesOK
  <2>2. Held(a)' \subseteq 1..Len(conns') /\ Creating(a)' \subseteq Workers
    BY <1>0 DEF TypeOK, TablesOK, Held, Creating, Drawn
  <2> QED
    BY <2>1, <2>2, FS_Subset, FS_CardinalityType
<1>3. ASSUME NEW w \in Workers, CountSessions(w) PROVE Bounded(a)'
  <2>1. UNCHANGED <<conns, pool>>
    BY <1>3 DEF CountSessions
  <2>2. Held(a)' = Held(a)
    BY <2>1 DEF Held
  <2>3. CASE AtLimit(a) \/ req[w].agent # a
    <3>1. \/ Goto(w, "idle", NoLocals)
          \/ Goto(w, "dial", req[w]) /\ req[w].agent # a
      BY <1>3, <2>3 DEF CountSessions, Reply
    <3>2. \A v \in Workers : v # w => pc'[v] = pc[v] /\ req'[v] = req[v]
      BY <1>0, <3>1 DEF Goto
    <3>3. pc'[w] = "idle" \/ req'[w].agent # a
      BY <1>0, <3>1 DEF Goto
    <3>4. Creating(a)' \subseteq Creating(a)
      BY <3>2, <3>3 DEF Creating
    <3> QED
      BY <1>0, <2>2, <3>4, BoundedKept
  <2>4. CASE ~AtLimit(a)
    <3>1. Cardinality(Held(a)) <= MaxPerAgent - 1
      BY <1>1, <2>4 DEF AtLimit
    <3> QED
      BY <1>1, <1>2, <2>2, <3>1 DEF Bounded
  <2> QED
    BY <2>3, <2>4
<1>4. ASSUME \A w \in Workers : ~CountSessions(w) PROVE Creating(a)' \subseteq Creating(a)
  <2>1. \A w \in Workers : pc'[w] \in {"dial", "handshake", "add", "insert"} /\ req'[w].kind = "create" =>
            pc[w] \in {"dial", "handshake", "add", "insert"} /\ req[w].kind = "create" /\ req'[w].agent = req[w].agent
    BY <1>4, CreatorStep
  <2> QED
    BY <2>1 DEF Creating
<1>5. ASSUME NEW w \in Workers, InsertSession(w) PROVE Bounded(a)'
  <2> DEFINE k == req[w].conn
  <2>1. /\ pc[w] = "insert" /\ req[w].kind = "create" /\ k \in Drawn /\ conns[k].agent = req[w].agent
        /\ pool' = pool \cup {k} /\ Goto(w, "idle", NoLocals)
    BY <1>0, <1>5 DEF InsertSession, Fits, OwnInv, Working, Drawn, Reply
  <2>2. \A v \in Workers : ~CountSessions(v)
    BY <1>0, <2>1 DEF CountSessions, Reply, Goto
  <2>3. Creating(a)' \subseteq Creating(a) /\ w \notin Creating(a)'
    BY <1>0, <1>4, <2>1, <2>2 DEF Creating, Goto
  <2>4. Held(a)' \subseteq Held(a) \cup {k} /\ (req[w].agent # a => Held(a)' \subseteq Held(a))
    BY <1>0, <2>1, AgentsKept DEF Held
  <2>5. CASE req[w].agent # a
    BY <1>0, <2>3, <2>4, <2>5, BoundedKept
  <2>6. CASE req[w].agent = a
    <3>1. w \in Creating(a) /\ Creating(a)' \subseteq Creating(a) \ {w}
      BY <2>1, <2>3, <2>6 DEF Creating
    <3>2. /\ IsFiniteSet(Creating(a) \ {w})
          /\ Cardinality(Creating(a) \ {w}) = Cardinality(Creating(a)) - 1
      BY <1>1, <3>1, FS_RemoveElement
    <3>3. Cardinality(Creating(a)') <= Cardinality(Creating(a)) - 1
      BY <3>1, <3>2, FS_Subset
    <3>4. /\ IsFiniteSet(Held(a) \cup {k})
          /\ Cardinality(Held(a) \cup {k}) <= Cardinality(Held(a)) + 1
      <4>1. /\ IsFiniteSet(Held(a) \cup {k})
            /\ Cardinality(Held(a) \cup {k}) = IF k \in Held(a) THEN Cardinality(Held(a))
                                               ELSE Cardinality(Held(a)) + 1
        BY <1>1, FS_AddElement
      <4> QED
        BY <1>1, <4>1
    <3>5. Cardinality(Held(a)') <= Cardinality(Held(a)) + 1
      <4>1. Cardinality(Held(a)') <= Cardinality(Held(a) \cup {k})
        BY <2>4, <3>4, FS_Subset
      <4> QED
        BY <1>1, <1>2, <3>4, <4>1, FS_CardinalityType
    <3> QED
      BY <1>1, <1>2, <3>3, <3>5 DEF Bounded
  <2> QED
    BY <2>5, <2>6
<1>6. ASSUME \A w \in Workers : ~CountSessions(w) /\ ~InsertSession(w) PROVE Bounded(a)'
  <2>1. pool' \subseteq pool
    <3>1. \A w \in Workers : Step(w) => pool' = pool
      BY <1>6 DEF Step, AutoRevoke, dialTarget, signFails, signAndConnect, handshakeFails, AddCert,
             sessionIDFails, FindSession, TakeClient, StartCommand, EndCommand, TouchSession
    <3>2. \A w \in Procs : Release(w) => pool' \subseteq pool
      BY DEF Release, DeleteSession, ClearClient, CloseClient, RemoveCert
    <3>3. FindIdle \/ Outside \/ UNCHANGED vars => pool' = pool
      BY DEF FindIdle, Outside, ToggleHost, HostSilence, CertLeaves, ConnectionLost, ReloadPolicy,
             Tick, vars
    <3> QED
      BY <3>1, <3>2, <3>3, CallEffect DEF Next, Outside
  <2>2. Held(a)' \subseteq Held(a)
    BY <1>0, <2>1, AgentsKept DEF Held
  <2> QED
    BY <1>0, <1>4, <1>6, <2>2, BoundedKept
<1> QED
  BY <1>3, <1>5, <1>6

\* However many session_create calls race, an agent has fewer sessions above the
\* limit than there are handlers.
THEOREM OverrunIsBounded == Spec => []OverrunBounded
<1>1. Init => OwnInv
  BY DEF Init, OwnInv, Working, Procs
<1>2. ASSUME Init PROVE OverrunBounded
  <2>1. ASSUME NEW a \in Agents
        PROVE  Cardinality(Held(a)) + Cardinality(Creating(a)) <= MaxPerAgent - 1 + Cardinality(Workers)
    <3>1. Held(a) = {} /\ Creating(a) = {}
      BY <1>2 DEF Init, Held, Creating, Procs
    <3>2. Cardinality({}) = 0 /\ Cardinality(Workers) \in Nat
      BY FS_EmptySet, FS_CardinalityType
    <3> QED
      BY <3>1, <3>2
  <2> QED
    BY <2>1 DEF OverrunBounded
<1>3. ASSUME TypeOK, OwnInv, [Next]_vars, OverrunBounded PROVE OverrunBounded'
  BY <1>3, OverrunNext DEF OverrunBounded, Bounded
<1> QED
  BY <1>1, <1>2, <1>3, TypeInit, TypeNext, OwnNext, PTL DEF Spec

=============================================================================
