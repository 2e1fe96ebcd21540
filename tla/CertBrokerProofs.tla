-------------------------- MODULE CertBrokerProofs --------------------------
(***************************************************************************)
(* Theorems about CertBroker, for any agents, targets, policies, handlers  *)
(* and bounds.                                                             *)
(***************************************************************************)
EXTENDS CertBroker, FiniteSetTheorems, TLAPS

USE BoundAssumption

-----------------------------------------------------------------------------
(* The engine's operators. *)

\* What Held selects of a set of serials is finite when the set is.
LEMMA HeldFinite ==
    ASSUME NEW n \in Nat, NEW S \in SUBSET (1..n), NEW a
    PROVE  /\ IsFiniteSet(S) /\ IsFiniteSet(Held(S, a))
           /\ Cardinality(S) \in Nat /\ Cardinality(Held(S, a)) \in Nat
<1>1. IsFiniteSet(S)
  <2>1. IsFiniteSet(1..n)
    BY FS_Interval
  <2> QED
    BY <2>1, FS_Subset
<1>2. Held(S, a) \subseteq S
  BY DEF Held
<1> QED
  BY <1>1, <1>2, FS_Subset, FS_CardinalityType

\* removeCertLocked keeps the engine's tables well formed and in agreement.
LEMMA RemoveKeepsConsistent ==
    ASSUME NEW n \in Nat, n <= MaxCerts, NEW e \in Engines, e.tracked \subseteq 1..n,
           Consistent(e), NEW S
    PROVE  LET f == removeCertLocked(e, S) IN
           /\ f \in Engines
           /\ f.tracked = e.tracked \ S
           /\ Consistent(f)
<1> DEFINE f == removeCertLocked(e, S)
           gone == S \cap e.tracked
           Left(a) == e.counts[a] - Cardinality(Held(gone, a))
<1>1. /\ f.tracked = e.tracked \ gone
      /\ f.counts = [a \in Agents |-> IF Left(a) > 0 THEN Left(a) ELSE 0]
      /\ f.sigs = [x \in Sigs |-> IF e.sigs[x] \in gone /\ SigOf(signed[e.sigs[x]]) = x
                                  THEN 0 ELSE e.sigs[x]]
      /\ f = [tracked |-> f.tracked, counts |-> f.counts, sigs |-> f.sigs]
  BY DEF removeCertLocked
<1>2. e.tracked \in SUBSET Serials /\ e.counts \in [Agents -> Nat] /\ e.sigs \in [Sigs -> Serials \cup {0}]
  BY DEF Engines
<1>3. \A a \in Agents : f.counts[a] = Cardinality(Held(f.tracked, a)) /\ f.counts[a] \in Nat
  <2> TAKE a \in Agents
  <2>1. e.tracked \in SUBSET (1..n) /\ gone \in SUBSET (1..n) /\ f.tracked \in SUBSET (1..n)
    BY <1>1
  <2>2. /\ IsFiniteSet(Held(e.tracked, a))
        /\ Cardinality(Held(e.tracked, a)) \in Nat
        /\ Cardinality(Held(gone, a)) \in Nat
        /\ Cardinality(Held(f.tracked, a)) \in Nat
    BY <2>1, HeldFinite
  <2>3. Held(f.tracked, a) = Held(e.tracked, a) \ Held(gone, a)
    BY <1>1 DEF Held
  <2>4. Held(e.tracked, a) \cap Held(gone, a) = Held(gone, a)
    BY DEF Held
  <2>5. Cardinality(Held(f.tracked, a)) = Cardinality(Held(e.tracked, a)) - Cardinality(Held(gone, a))
    <3>1. IsFiniteSet(Held(e.tracked, a)) /\ IsFiniteSet(Held(gone, a))
      BY <2>1, HeldFinite
    <3> HIDE DEF gone
    <3>2. PICK A, B : A = Held(e.tracked, a) /\ B = Held(gone, a)
      OBVIOUS
    <3>3. Cardinality(A \ B) = Cardinality(A) - Cardinality(A \cap B)
      BY ONLY <3>1, <3>2, FS_Difference
    <3> QED
      BY <2>3, <2>4, <3>2, <3>3
  <2>6. e.counts[a] = Cardinality(Held(e.tracked, a))
    BY DEF Consistent
  <2>7. f.counts[a] = IF Left(a) > 0 THEN Left(a) ELSE 0
    BY <1>1
  <2> QED
    BY <2>2, <2>5, <2>6, <2>7
<1>4. \A x \in Sigs : /\ f.sigs[x] \in Serials \cup {0}
                      /\ f.sigs[x] # 0 => f.sigs[x] \in f.tracked /\ SigOf(signed[f.sigs[x]]) = x
  <2> TAKE x \in Sigs
  <2>1. e.sigs[x] \in Serials \cup {0}
    BY <1>2
  <2>2. e.sigs[x] # 0 => e.sigs[x] \in e.tracked /\ SigOf(signed[e.sigs[x]]) = x
    BY DEF Consistent
  <2>3. f.sigs[x] = IF e.sigs[x] \in gone /\ SigOf(signed[e.sigs[x]]) = x THEN 0 ELSE e.sigs[x]
    BY <1>1
  <2> QED
    BY <2>1, <2>2, <2>3, <1>1
<1>5. f.counts \in [Agents -> Nat] /\ f.sigs \in [Sigs -> Serials \cup {0}]
  BY <1>1, <1>3, <1>4
<1>6. f \in Engines
  BY <1>1, <1>2, <1>5 DEF Engines
<1>7. Consistent(f)
  BY <1>3, <1>4 DEF Consistent
<1> QED
  BY <1>1, <1>6, <1>7
-----------------------------------------------------------------------------
(* The inductive invariant. *)

InFlight(w) == pc[w] \in {"add", "track"}

\* A certificate that is signed but not tracked yet belongs to one handler, whose
\* request it answers.  Without this TrackCert could count a certificate twice.
FlightInv ==
    /\ \A w \in Workers : InFlight(w) =>
          /\ req[w].serial \notin engine.tracked
          /\ SigOf(signed[req[w].serial]) = SigOf(req[w].cert)
          /\ signed[req[w].serial].request = req[w].cert.request
    /\ \A w, v \in Workers : InFlight(w) /\ InFlight(v) /\ w # v => req[w].serial # req[v].serial

IInv == TypeOK /\ CountsMatch /\ FlightInv

\* What Goto does to the handlers' control state.
LEMMA GotoEffect ==
    ASSUME TypeOK, NEW w \in Workers, NEW next \in PCs, NEW l \in Locals, Goto(w, next, l)
    PROVE  /\ pc' \in [Workers -> PCs] /\ req' \in [Workers -> Locals]
           /\ pc'[w] = next /\ req'[w] = l
           /\ \A v \in Workers : v # w => pc'[v] = pc[v] /\ req'[v] = req[v]
  BY DEF Goto, TypeOK

LEMMA NoLocalsTyped == NoLocals \in Locals /\ NoLocals.todo = {}
  BY DEF NoLocals, Locals

\* A step of one handler that signs nothing, tracks nothing new and does not bring
\* the handler to "add" keeps FlightInv.
LEMMA FlightKept ==
    ASSUME TypeOK, FlightInv, NEW w \in Workers, signed' = signed,
           engine'.tracked \subseteq engine.tracked,
           pc'[w] \notin {"add", "track"} \/ (InFlight(w) /\ req'[w] = req[w]),
           \A v \in Workers : v # w => pc'[v] = pc[v] /\ req'[v] = req[v]
    PROVE  FlightInv'
  BY DEF FlightInv, InFlight

\* A step of one handler that leaves the tables of serials alone keeps LocalsOK for
\* the others.
LEMMA OthersTyped ==
    ASSUME TypeOK, NEW w \in Workers, Len(signed) <= Len(signed)', Len(signed)' \in Nat,
           \A v \in Workers : v # w => pc'[v] = pc[v] /\ req'[v] = req[v]
    PROVE  \A v \in Workers : v # w => LocalsOK(v)'
<1>1. Len(signed) \in Nat
  BY DEF TypeOK, TablesOK
<1> QED
  BY <1>1 DEF TypeOK, LocalsOK
\* The locals l fit step next.
Fits(next, l) ==
    /\ next \in {"evaluate", "sign", "add", "track", "unpend"} => l.cert \in Requests
    /\ next \in {"add", "track", "untrack"} => l.serial \in 1..Len(signed)
    /\ next = "list" => l.host \in Targets
    /\ l.todo \subseteq 1..Len(signed)

\* A handler's step that signs and tracks nothing keeps IInv when the tables it
\* leaves are in order and its new locals fit.
LEMMA ControlStep ==
    ASSUME IInv, NEW w \in Workers, NEW next \in PCs, NEW l \in Locals, Goto(w, next, l),
           signed' = signed, TablesOK', CountsMatch', engine'.tracked \subseteq engine.tracked,
           next \notin {"add", "track"} \/ (InFlight(w) /\ l = req[w]), Fits(next, l)
    PROVE  IInv'
<1>1. /\ pc' \in [Workers -> PCs] /\ req' \in [Workers -> Locals]
      /\ pc'[w] = next /\ req'[w] = l
      /\ \A v \in Workers : v # w => pc'[v] = pc[v] /\ req'[v] = req[v]
  BY GotoEffect DEF IInv
<1>2. Len(signed)' = Len(signed) /\ Len(signed) \in Nat
  BY DEF IInv, TypeOK, TablesOK
<1>3. \A v \in Workers : v # w => LocalsOK(v)'
  BY <1>1, <1>2, OthersTyped DEF IInv
<1>4. LocalsOK(w)'
  BY <1>1, <1>2 DEF LocalsOK, Fits
<1>5. FlightInv'
  BY <1>1, FlightKept DEF IInv
<1> QED
  BY <1>1, <1>3, <1>4, <1>5 DEF IInv, TypeOK

\* The common case: the tables of serials do not change either.
LEMMA TablesKept ==
    ASSUME IInv, UNCHANGED <<engine, signed, lost>>
    PROVE  CountsMatch' /\ engine'.tracked \subseteq engine.tracked
  BY DEF IInv, CountsMatch, Consistent, Held

LEMMA ReplyFits == NoLocals \in Locals /\ Fits("idle", NoLocals)
  BY DEF NoLocals, Locals, Fits

\* Evaluate's two rounds of clean-up.
LEMMA EvaluateEffect ==
    ASSUME IInv, NEW r \in Requests
    PROVE  /\ Swept \in Engines /\ Swept.tracked = Counted /\ Consistent(Swept)
           /\ Deduplicated(r) \in Engines
           /\ Deduplicated(r).tracked = Swept.tracked \ {Swept.sigs[SigOf(r)]}
           /\ Consistent(Deduplicated(r))
<1> DEFINE n == Len(signed)
           E == {s \in engine.tracked : Expired(s)}
<1>1. n \in Nat /\ n <= MaxCerts /\ engine \in Engines /\ engine.tracked \subseteq 1..n
  BY DEF IInv, TypeOK, TablesOK
<1>2. Swept \in Engines /\ Swept.tracked = engine.tracked \ E /\ Consistent(Swept)
  BY <1>1, RemoveKeepsConsistent DEF IInv, CountsMatch, Swept
<1>3. engine.tracked \ E = Counted
  BY DEF Counted
<1>4. Swept.tracked \subseteq 1..n
  BY <1>1, <1>2
<1> QED
  BY <1>1, <1>2, <1>3, <1>4, RemoveKeepsConsistent DEF Deduplicated

\* An engine that is in order stays so when signed does not change.
LEMMA ConsistentKept ==
    ASSUME NEW e, Consistent(e), signed' = signed, engine' = e
    PROVE  CountsMatch'
  BY DEF CountsMatch, Consistent, Held
-----------------------------------------------------------------------------
(* Every action keeps it. *)

LEMMA RequestInv ==
    ASSUME IInv, NEW w \in Workers, NEW a \in Agents, NEW t \in Targets, NEW r \in Roles,
           NEW d \in Durations, handleRequest(w, a, t, r, d)
    PROVE  IInv'
<1> DEFINE c == [agent |-> a, target |-> t, role |-> r, ttl |-> d, under |-> policy, request |-> 0]
           l == [NoLocals EXCEPT !.cert = c]
<1>1. c \in Requests
  BY DEF IInv, TypeOK, TablesOK, Requests
<1>2. l \in Locals /\ l.cert = c /\ l.todo = {}
  BY <1>1 DEF NoLocals, Locals
<1>3. Fits("evaluate", l)
  BY <1>1, <1>2 DEF Fits
<1>4. Goto(w, "evaluate", l) /\ UNCHANGED <<now, policy, engine, sessions, disabled, signed, lost, certs, pending, asked>>
  BY DEF handleRequest
<1>5. TablesOK'
  BY <1>4 DEF IInv, TypeOK, TablesOK
<1> HIDE DEF l
<1> QED
  BY <1>2, <1>3, <1>4, <1>5, TablesKept, ControlStep DEF PCs

LEMMA DenyInv ==
    ASSUME IInv, NEW w \in Workers, EvaluateDeny(w)
    PROVE  IInv'
<1> DEFINE r == req[w].cert
<1>1. r \in Requests
  BY DEF IInv, TypeOK, LocalsOK, EvaluateDeny
<1>2. /\ engine' \in {Swept, Deduplicated(r)}
      /\ Goto(w, "idle", NoLocals)
      /\ UNCHANGED <<now, policy, sessions, disabled, signed, lost, certs, pending, asked>>
  BY DEF EvaluateDeny, Reply
<1>3. /\ engine' \in Engines /\ Consistent(engine') /\ engine'.tracked \subseteq engine.tracked
  BY <1>1, <1>2, EvaluateEffect DEF Counted
<1>4. CountsMatch'
  BY <1>1, <1>2, EvaluateEffect, ConsistentKept
<1>5. TablesOK'
  BY <1>2, <1>3 DEF IInv, TypeOK, TablesOK
<1> QED
  BY <1>2, <1>3, <1>4, <1>5, ReplyFits, ControlStep DEF PCs

\* What a granted request is.
LEMMA GrantedTyped ==
    ASSUME IInv, NEW r \in Requests, Permitted(r)
    PROVE  /\ Granted(r) \in Requests
           /\ \A id \in RequestIds : [Granted(r) EXCEPT !.request = id] \in Requests
<1>1. policy \in Policies
  BY DEF IInv, TypeOK, TablesOK
<1>2. ClampedDuration(r) \in Int
  BY <1>1, PolicyAssumption DEF ClampedDuration, Least, Permitted, Requests
<1> QED
  BY <1>1, <1>2 DEF Granted, Requests

LEMMA PendingInv ==
    ASSUME IInv, NEW w \in Workers, EvaluatePending(w)
    PROVE  IInv'
<1> DEFINE r == req[w].cert
<1>1. r \in Requests
  BY DEF IInv, TypeOK, LocalsOK, EvaluatePending
<1>2. /\ engine' = Deduplicated(r)
      /\ Goto(w, "idle", NoLocals)
      /\ asked < MaxPending /\ asked' = asked + 1
      /\ pending' = [id \in DOMAIN pending \cup {asked'} |->
                       IF id = asked' THEN [Granted(r) EXCEPT !.request = asked'] ELSE pending[id]]
      /\ UNCHANGED <<now, policy, sessions, disabled, signed, lost, certs>>
      /\ Permitted(r)
  BY DEF EvaluatePending, Reply, Passes
<1>3. /\ engine' \in Engines /\ engine'.tracked \subseteq engine.tracked
  BY <1>1, <1>2, EvaluateEffect DEF Counted
<1>4. CountsMatch'
  BY <1>1, <1>2, EvaluateEffect, ConsistentKept
<1>5. asked \in 0..MaxPending /\ asked' \in RequestIds /\ asked' \in 0..MaxPending
  BY <1>2 DEF IInv, TypeOK, TablesOK, RequestIds
<1>6. \A id \in DOMAIN pending' : pending'[id] \in Requests
  BY <1>1, <1>2, <1>5, GrantedTyped DEF IInv, TypeOK, TablesOK
<1>7. DOMAIN pending' \subseteq 1..asked'
  BY <1>2, <1>5 DEF IInv, TypeOK, TablesOK
<1>8. TablesOK'
  BY <1>2, <1>3, <1>5, <1>6, <1>7 DEF IInv, TypeOK, TablesOK
<1> QED
  BY <1>2, <1>3, <1>4, <1>8, ReplyFits, ControlStep DEF PCs

LEMMA ApproveInv ==
    ASSUME IInv, NEW w \in Workers, EvaluateApprove(w)
    PROVE  IInv'
<1> DEFINE r == req[w].cert
           l == [req[w] EXCEPT !.cert = Granted(r)]
<1>1. r \in Requests /\ req[w] \in Locals /\ req[w].todo \subseteq 1..Len(signed)
  BY DEF IInv, TypeOK, LocalsOK, EvaluateApprove
<1>2. /\ engine' = Deduplicated(r)
      /\ Goto(w, "sign", l)
      /\ UNCHANGED <<now, policy, sessions, disabled, signed, lost, certs, pending, asked>>
      /\ Permitted(r)
  BY DEF EvaluateApprove, Passes
<1>3. Granted(r) \in Requests
  BY <1>1, <1>2, GrantedTyped
<1>4. l \in Locals /\ l.cert = Granted(r) /\ l.todo = req[w].todo
  BY <1>1, <1>3 DEF Locals
<1>5. /\ engine' \in Engines /\ engine'.tracked \subseteq engine.tracked
  BY <1>1, <1>2, EvaluateEffect DEF Counted
<1>6. CountsMatch'
  BY <1>1, <1>2, EvaluateEffect, ConsistentKept
<1>7. TablesOK'
  BY <1>2, <1>5 DEF IInv, TypeOK, TablesOK
<1>8. Fits("sign", l)
  BY <1>1, <1>3, <1>4 DEF Fits
<1> HIDE DEF l
<1> QED
  BY <1>2, <1>4, <1>5, <1>6, <1>7, <1>8, ControlStep DEF PCs

LEMMA SignInv ==
    ASSUME IInv, NEW w \in Workers, SignCert(w)
    PROVE  IInv'
<1> DEFINE r == req[w].cert
           n == Len(signed)
           c == [agent |-> r.agent, target |-> r.target, role |-> r.role, ttl |-> r.ttl,
                 under |-> r.under, request |-> r.request, expires |-> now + r.ttl]
           l == [req[w] EXCEPT !.serial = n + 1]
<1>1. /\ r \in Requests /\ req[w] \in Locals /\ req[w].todo \subseteq 1..n
      /\ n \in Nat /\ n < MaxCerts /\ now \in Nat /\ signed \in Seq(Certificates)
      /\ engine.tracked \subseteq 1..n
  BY DEF IInv, TypeOK, TablesOK, LocalsOK, SignCert, Sign
<1>2. /\ signed' = Append(signed, c)
      /\ Goto(w, "add", l)
      /\ UNCHANGED <<now, policy, engine, sessions, disabled, lost, certs, pending, asked>>
  BY DEF SignCert, Sign
<1>3. c \in Certificates
  BY <1>1 DEF Requests, Certificates
<1>4. /\ signed' \in Seq(Certificates) /\ Len(signed') = n + 1 /\ signed'[n + 1] = c
      /\ \A s \in 1..n : signed'[s] = signed[s]
  BY <1>1, <1>2, <1>3
<1>5. l \in Locals /\ l.serial = n + 1 /\ l.cert = r /\ l.todo = req[w].todo
  BY <1>1 DEF Locals, Serials
<1> HIDE DEF c, l
<1>6. /\ pc' \in [Workers -> PCs] /\ req' \in [Workers -> Locals]
      /\ pc'[w] = "add" /\ req'[w] = l
      /\ \A v \in Workers : v # w => pc'[v] = pc[v] /\ req'[v] = req[v]
  BY <1>2, <1>5, GotoEffect DEF IInv, PCs
<1>7. TablesOK'
  BY <1>1, <1>2, <1>4 DEF IInv, TypeOK, TablesOK
<1>8. \A v \in Workers : LocalsOK(v)'
  <2>1. \A v \in Workers : v # w => LocalsOK(v)'
    BY <1>1, <1>4, <1>6, OthersTyped DEF IInv
  <2>2. LocalsOK(w)'
    BY <1>1, <1>4, <1>5, <1>6 DEF LocalsOK
  <2> QED
    BY <2>1, <2>2
<1>9. CountsMatch'
  <2>1. \A a : Held(engine.tracked, a)' = Held(engine.tracked, a)
    BY <1>1, <1>2, <1>4 DEF Held
  <2>2. \A x \in Sigs : engine.sigs[x] # 0 => signed'[engine.sigs[x]] = signed[engine.sigs[x]]
    BY <1>1, <1>4 DEF IInv, CountsMatch, Consistent
  <2> QED
    BY <1>2, <2>1, <2>2 DEF IInv, CountsMatch, Consistent, SigOf
<1>10. SigOf(c) = SigOf(r) /\ c.request = r.request
  BY DEF SigOf, c
<1>11. \A v \in Workers : InFlight(v) => req[v].serial \in 1..n
  BY DEF IInv, TypeOK, LocalsOK, InFlight
<1>12. FlightInv'
  <2>1. \A v \in Workers : InFlight(v)' =>
            \/ v = w /\ req'[v].serial = n + 1 /\ req'[v].cert = r
            \/ v # w /\ InFlight(v) /\ req'[v] = req[v]
    BY <1>5, <1>6 DEF InFlight
  <2>2. \A v \in Workers : InFlight(v)' =>
            /\ req'[v].serial \notin engine'.tracked
            /\ SigOf(signed'[req'[v].serial]) = SigOf(req'[v].cert)
            /\ signed'[req'[v].serial].request = req'[v].cert.request
    BY <1>1, <1>2, <1>4, <1>10, <1>11, <2>1 DEF IInv, FlightInv
  <2>3. \A u, v \in Workers : InFlight(u)' /\ InFlight(v)' /\ u # v => req'[u].serial # req'[v].serial
    BY <1>1, <1>11, <2>1 DEF IInv, FlightInv
  <2> QED
    BY <2>2, <2>3 DEF FlightInv, SigOf
<1> QED
  BY <1>6, <1>7, <1>8, <1>9, <1>12 DEF IInv, TypeOK

\* A certificate of which no handler hears is in nobody's locals.
LEMMA SignLostInv ==
    ASSUME IInv, NEW w \in Workers, SignLost(w)
    PROVE  IInv'
<1> DEFINE r == req[w].cert
           n == Len(signed)
           c == [agent |-> r.agent, target |-> r.target, role |-> r.role, ttl |-> r.ttl,
                 under |-> r.under, request |-> r.request, expires |-> now + r.ttl]
<1>1. /\ r \in Requests /\ n \in Nat /\ n < MaxCerts /\ now \in Nat
      /\ signed \in Seq(Certificates) /\ engine.tracked \subseteq 1..n
  BY DEF IInv, TypeOK, TablesOK, LocalsOK, SignLost, Sign
<1>2. /\ signed' = Append(signed, c) /\ lost' = lost \cup {n + 1}
      /\ Goto(w, "idle", NoLocals)
      /\ UNCHANGED <<now, policy, engine, sessions, disabled, certs, pending, asked>>
  BY DEF SignLost, Sign, Reply
<1>3. c \in Certificates
  BY <1>1 DEF Requests, Certificates
<1>4. /\ signed' \in Seq(Certificates) /\ Len(signed') = n + 1
      /\ \A s \in 1..n : signed'[s] = signed[s]
  BY <1>1, <1>2, <1>3
<1> HIDE DEF c
<1>5. /\ pc' \in [Workers -> PCs] /\ req' \in [Workers -> Locals]
      /\ pc'[w] = "idle" /\ req'[w] = NoLocals
      /\ \A v \in Workers : v # w => pc'[v] = pc[v] /\ req'[v] = req[v]
  BY <1>2, NoLocalsTyped, GotoEffect DEF IInv, PCs
<1>6. TablesOK'
  BY <1>1, <1>2, <1>4 DEF IInv, TypeOK, TablesOK
<1>7. \A v \in Workers : LocalsOK(v)'
  <2>1. \A v \in Workers : v # w => LocalsOK(v)'
    BY <1>1, <1>4, <1>5, OthersTyped DEF IInv
  <2>2. LocalsOK(w)'
    BY <1>5, NoLocalsTyped DEF LocalsOK
  <2> QED
    BY <2>1, <2>2
<1>8. CountsMatch'
  <2>1. \A a : Held(engine.tracked, a)' = Held(engine.tracked, a)
    BY <1>1, <1>2, <1>4 DEF Held
  <2>2. \A x \in Sigs : engine.sigs[x] # 0 => signed'[engine.sigs[x]] = signed[engine.sigs[x]]
    BY <1>1, <1>4 DEF IInv, CountsMatch, Consistent
  <2> QED
    BY <1>2, <2>1, <2>2 DEF IInv, CountsMatch, Consistent, SigOf
<1>9. FlightInv'
  <2>1. \A v \in Workers : InFlight(v)' => InFlight(v) /\ req'[v] = req[v]
    BY <1>5 DEF InFlight
  <2>2. \A v \in Workers : InFlight(v) => req[v].serial \in 1..n
    BY DEF IInv, TypeOK, LocalsOK, InFlight
  <2> QED
    BY <1>2, <1>4, <2>1, <2>2 DEF IInv, FlightInv, SigOf
<1> QED
  BY <1>5, <1>6, <1>7, <1>8, <1>9 DEF IInv, TypeOK

LEMMA SignFailsInv ==
    ASSUME IInv, NEW w \in Workers, SignFails(w)
    PROVE  IInv'
<1>1. /\ Goto(w, "idle", NoLocals)
      /\ UNCHANGED <<now, policy, engine, sessions, disabled, signed, lost, certs, pending, asked>>
  BY DEF SignFails, Reply
<1>2. TablesOK'
  BY <1>1 DEF IInv, TypeOK, TablesOK
<1> QED
  BY <1>1, <1>2, TablesKept, ReplyFits, ControlStep DEF PCs

LEMMA AddInv ==
    ASSUME IInv, NEW w \in Workers, AddCert(w)
    PROVE  IInv'
<1>1. /\ req[w] \in Locals /\ Fits("track", req[w]) /\ InFlight(w)
  BY DEF IInv, TypeOK, LocalsOK, AddCert, Fits, InFlight
<1>2. /\ Goto(w, "track", req[w]) /\ certs' = certs \cup {req[w].serial}
      /\ UNCHANGED <<now, policy, engine, sessions, disabled, signed, lost, pending, asked>>
  BY DEF AddCert
<1>3. TablesOK'
  BY <1>1, <1>2 DEF IInv, TypeOK, TablesOK, Fits
<1> QED
  BY <1>1, <1>2, <1>3, TablesKept, ControlStep DEF PCs

LEMMA TrackInv ==
    ASSUME IInv, NEW w \in Workers, TrackCert(w)
    PROVE  IInv'
<1> DEFINE s == req[w].serial
           r == req[w].cert
           n == Len(signed)
<1>1. /\ r \in Requests /\ s \in 1..n /\ req[w] \in Locals /\ req[w].todo \subseteq 1..n
      /\ n \in Nat /\ n <= MaxCerts /\ engine.tracked \in SUBSET (1..n) /\ engine \in Engines
      /\ s \notin engine.tracked /\ SigOf(signed[s]) = SigOf(r) /\ InFlight(w)
  BY DEF IInv, TypeOK, TablesOK, LocalsOK, TrackCert, FlightInv, InFlight
<1>2. PICK next \in {"idle", "unpend"}, l \in {NoLocals, req[w]} :
        /\ Goto(w, next, l)
        /\ next = "unpend" => l = req[w]
  BY DEF TrackCert, Reply
<1>3. /\ engine' = [tracked |-> engine.tracked \cup {s},
                    counts  |-> [engine.counts EXCEPT ![r.agent] = @ + 1],
                    sigs    |-> [engine.sigs EXCEPT ![SigOf(r)] = s]]
      /\ UNCHANGED <<now, policy, sessions, disabled, signed, lost, certs, pending, asked>>
  BY DEF TrackCert
<1>4. l \in Locals /\ Fits(next, l)
  BY <1>1, <1>2, ReplyFits DEF Fits
<1>5. /\ pc' \in [Workers -> PCs] /\ req' \in [Workers -> Locals]
      /\ pc'[w] = next /\ req'[w] = l
      /\ \A v \in Workers : v # w => pc'[v] = pc[v] /\ req'[v] = req[v]
  BY <1>2, <1>4, GotoEffect DEF IInv, PCs
<1>6. r.agent \in Agents /\ SigOf(r) \in Sigs /\ signed[s].agent = r.agent /\ s \in Serials
  BY <1>1 DEF Requests, SigOf, Sigs, Serials
<1>7. engine' \in Engines /\ engine'.tracked = engine.tracked \cup {s}
  BY <1>1, <1>3, <1>6 DEF Engines
<1>8. TablesOK'
  BY <1>1, <1>3, <1>7 DEF IInv, TypeOK, TablesOK
<1>9. \A v \in Workers : LocalsOK(v)'
  <2>1. \A v \in Workers : v # w => LocalsOK(v)'
    BY <1>1, <1>3, <1>5, OthersTyped DEF IInv
  <2>2. LocalsOK(w)'
    BY <1>3, <1>4, <1>5 DEF LocalsOK, Fits
  <2> QED
    BY <2>1, <2>2
<1>10. CountsMatch'
  <2>1. \A a \in Agents : engine'.counts[a] = Cardinality(Held(engine'.tracked, a))
    <3> TAKE a \in Agents
    <3>1. /\ IsFiniteSet(Held(engine.tracked, a)) /\ Cardinality(Held(engine.tracked, a)) \in Nat
          /\ engine.counts[a] = Cardinality(Held(engine.tracked, a))
          /\ engine.counts \in [Agents -> Nat]
      BY <1>1, HeldFinite DEF IInv, CountsMatch, Consistent, Engines
    <3>2. Held(engine'.tracked, a) = IF a = r.agent THEN Held(engine.tracked, a) \cup {s}
                                     ELSE Held(engine.tracked, a)
      BY <1>6, <1>7 DEF Held
    <3>3. s \notin Held(engine.tracked, a)
      BY <1>1 DEF Held
    <3>4. Cardinality(Held(engine.tracked, a) \cup {s}) = Cardinality(Held(engine.tracked, a)) + 1
      BY <3>1, <3>3, FS_AddElement
    <3>5. engine'.counts[a] = IF a = r.agent THEN engine.counts[a] + 1 ELSE engine.counts[a]
      BY <1>3, <1>6, <3>1
    <3> QED
      BY <3>1, <3>2, <3>4, <3>5
  <2>2. \A x \in Sigs : engine'.sigs[x] # 0 =>
            engine'.sigs[x] \in engine'.tracked /\ SigOf(signed[engine'.sigs[x]]) = x
    <3> TAKE x \in Sigs
    <3>1. engine'.sigs[x] = IF x = SigOf(r) THEN s ELSE engine.sigs[x]
      BY <1>1, <1>3, <1>6 DEF Engines
    <3>2. engine.sigs[x] # 0 => engine.sigs[x] \in engine.tracked /\ SigOf(signed[engine.sigs[x]]) = x
      BY DEF IInv, CountsMatch, Consistent
    <3> QED
      BY <1>1, <1>7, <3>1, <3>2
  <2>3. Consistent(engine')
    BY <2>1, <2>2 DEF Consistent
  <2> QED
    BY <1>3, <2>3, ConsistentKept
<1>11. FlightInv'
  <2>1. \A v \in Workers : InFlight(v)' => v # w /\ InFlight(v) /\ req'[v] = req[v]
    BY <1>2, <1>5 DEF InFlight
  <2>2. \A v \in Workers : InFlight(v)' =>
            /\ req'[v].serial \notin engine'.tracked
            /\ SigOf(signed'[req'[v].serial]) = SigOf(req'[v].cert)
            /\ signed'[req'[v].serial].request = req'[v].cert.request
    BY <1>1, <1>3, <1>7, <2>1 DEF IInv, FlightInv
  <2>3. \A u, v \in Workers : InFlight(u)' /\ InFlight(v)' /\ u # v => req'[u].serial # req'[v].serial
    BY <2>1 DEF IInv, FlightInv
  <2> QED
    BY <2>2, <2>3 DEF FlightInv, SigOf
<1> QED
  BY <1>5, <1>8, <1>9, <1>10, <1>11 DEF IInv, TypeOK

\* handleApprove and handleDeny start from a queued request.
LEMMA DecideInv ==
    ASSUME IInv, NEW w \in Workers, NEW id \in DOMAIN pending,
           handleApprove(w, id) \/ handleDeny(w, id)
    PROVE  IInv'
<1> DEFINE l == [NoLocals EXCEPT !.cert = pending[id]]
<1>1. pending[id] \in Requests
  BY DEF IInv, TypeOK, TablesOK
<1>2. l \in Locals /\ l.cert = pending[id] /\ l.todo = {}
  BY <1>1 DEF NoLocals, Locals
<1>3. PICK next \in {"sign", "unpend"} :
        /\ Goto(w, next, l)
        /\ UNCHANGED <<now, policy, engine, sessions, disabled, signed, lost, certs, pending, asked>>
  BY DEF handleApprove, handleDeny
<1>4. TablesOK'
  BY <1>3 DEF IInv, TypeOK, TablesOK
<1>5. Fits(next, l)
  BY <1>1, <1>2 DEF Fits
<1> HIDE DEF l
<1> QED
  BY <1>2, <1>3, <1>4, <1>5, TablesKept, ControlStep DEF PCs

LEMMA RemovePendingInv ==
    ASSUME IInv, NEW w \in Workers, RemovePending(w)
    PROVE  IInv'
<1>1. /\ Goto(w, "idle", NoLocals)
      /\ pending' = [id \in DOMAIN pending \ {req[w].cert.request} |-> pending[id]]
      /\ UNCHANGED <<now, policy, engine, sessions, disabled, signed, lost, certs, asked>>
  BY DEF RemovePending, Reply
<1>2. TablesOK'
  BY <1>1 DEF IInv, TypeOK, TablesOK
<1> QED
  BY <1>1, <1>2, TablesKept, ReplyFits, ControlStep DEF PCs
LEMMA RevokeInv ==
    ASSUME IInv, NEW w \in Workers, NEW s \in certs, handleRevokeCert(w, s)
    PROVE  IInv'
<1> DEFINE l == [NoLocals EXCEPT !.todo = {s}]
<1>1. s \in 1..Len(signed) /\ s \in Serials
  BY DEF IInv, TypeOK, TablesOK, Serials
<1>2. l \in Locals /\ l.todo = {s}
  BY <1>1 DEF NoLocals, Locals
<1>3. /\ Goto(w, "uncert", l)
      /\ UNCHANGED <<now, policy, engine, sessions, disabled, signed, lost, certs, pending, asked>>
  BY DEF handleRevokeCert
<1>4. TablesOK'
  BY <1>3 DEF IInv, TypeOK, TablesOK
<1>5. Fits("uncert", l)
  BY <1>1, <1>2 DEF Fits
<1> HIDE DEF l
<1> QED
  BY <1>2, <1>3, <1>4, <1>5, TablesKept, ControlStep DEF PCs

LEMMA RemoveCertInv ==
    ASSUME IInv, NEW w \in Workers, NEW s \in req[w].todo, RemoveCert(w, s)
    PROVE  IInv'
<1> DEFINE l == [req[w] EXCEPT !.serial = s, !.todo = req[w].todo \ {s}]
<1>1. /\ req[w] \in Locals /\ req[w].todo \subseteq 1..Len(signed)
      /\ s \in 1..Len(signed) /\ s \in Serials
  BY DEF IInv, TypeOK, TablesOK, LocalsOK, Serials
<1>2. l \in Locals /\ l.serial = s /\ l.todo \subseteq 1..Len(signed)
  BY <1>1 DEF Locals
<1>3. /\ Goto(w, "untrack", l) /\ certs' = certs \ {s}
      /\ UNCHANGED <<now, policy, engine, sessions, disabled, signed, lost, pending, asked>>
  BY DEF RemoveCert
<1>4. TablesOK'
  BY <1>3 DEF IInv, TypeOK, TablesOK
<1>5. Fits("untrack", l)
  BY <1>1, <1>2 DEF Fits
<1> HIDE DEF l
<1> QED
  BY <1>2, <1>3, <1>4, <1>5, TablesKept, ControlStep DEF PCs

LEMMA UntrackInv ==
    ASSUME IInv, NEW w \in Workers, UntrackCert(w)
    PROVE  IInv'
<1> DEFINE e == removeCertLocked(engine, {req[w].serial})
<1>1. /\ req[w] \in Locals /\ req[w].todo \subseteq 1..Len(signed)
      /\ Len(signed) \in Nat /\ Len(signed) <= MaxCerts
      /\ engine \in Engines /\ engine.tracked \subseteq 1..Len(signed) /\ Consistent(engine)
  BY DEF IInv, TypeOK, TablesOK, LocalsOK, CountsMatch
<1>2. e \in Engines /\ e.tracked = engine.tracked \ {req[w].serial} /\ Consistent(e)
  BY <1>1, RemoveKeepsConsistent
<1>3. PICK next \in {"idle", "uncert"}, l \in {NoLocals, req[w]} : Goto(w, next, l)
  BY DEF UntrackCert, Reply
<1>4. /\ engine' = e
      /\ UNCHANGED <<now, policy, sessions, disabled, signed, lost, certs, pending, asked>>
  BY DEF UntrackCert
<1>5. l \in Locals /\ Fits(next, l)
  BY <1>1, <1>3, ReplyFits DEF Fits
<1>6. TablesOK'
  BY <1>1, <1>2, <1>4 DEF IInv, TypeOK, TablesOK
<1>7. CountsMatch' /\ engine'.tracked \subseteq engine.tracked
  BY <1>2, <1>4, ConsistentKept
<1> QED
  BY <1>3, <1>4, <1>5, <1>6, <1>7, ControlStep DEF PCs

LEMMA DashboardToggleInv ==
    ASSUME IInv, NEW w \in Workers, NEW t \in Toggled, handleDashboardToggleHost(w, t)
    PROVE  IInv'
<1> DEFINE k == [NoLocals EXCEPT !.host = t]
<1>1. k \in Locals /\ k.host \in Targets /\ k.todo = {}
  BY DEF NoLocals, Locals
<1>2. PICK next \in {"idle", "list"}, l \in {NoLocals, k} : Goto(w, next, l) /\ (next = "list" => l = k)
  BY DEF handleDashboardToggleHost, Reply
<1>3. /\ disabled' \subseteq disabled \cup {t}
      /\ UNCHANGED <<now, policy, engine, sessions, signed, lost, certs, pending, asked>>
  BY DEF handleDashboardToggleHost, Toggle
<1>4. TablesOK'
  BY <1>3 DEF IInv, TypeOK, TablesOK
<1>5. l \in Locals /\ Fits(next, l)
  BY <1>1, <1>2, ReplyFits DEF Fits
<1> QED
  BY <1>2, <1>3, <1>4, <1>5, TablesKept, ControlStep DEF PCs

LEMMA ListInv ==
    ASSUME IInv, NEW w \in Workers, ListHostCerts(w)
    PROVE  IInv'
<1> DEFINE found == {s \in certs : signed[s].target = req[w].host}
           k == [req[w] EXCEPT !.todo = found]
<1>1. req[w] \in Locals /\ found \subseteq 1..Len(signed) /\ found \subseteq Serials
  <2>1. Len(signed) \in Nat /\ Len(signed) <= MaxCerts /\ certs \subseteq 1..Len(signed)
    BY DEF IInv, TypeOK, TablesOK
  <2>2. found \subseteq certs /\ 1..Len(signed) \subseteq Serials
    BY <2>1 DEF Serials
  <2> QED
    BY <2>1, <2>2 DEF IInv, TypeOK
<1>2. k \in Locals /\ k.todo = found
  BY <1>1 DEF Locals
<1> HIDE DEF found
<1>3. PICK next \in {"idle", "uncert"}, l \in {NoLocals, k} : Goto(w, next, l)
  BY DEF ListHostCerts, Reply, found
<1>4. UNCHANGED <<now, policy, engine, sessions, disabled, signed, lost, certs, pending, asked>>
  BY DEF ListHostCerts
<1>5. TablesOK'
  BY <1>4 DEF IInv, TypeOK, TablesOK
<1>6. l \in Locals /\ Fits(next, l)
  BY <1>1, <1>2, <1>3, ReplyFits DEF Fits
<1> QED
  BY <1>3, <1>4, <1>5, <1>6, TablesKept, ControlStep DEF PCs

\* Steps outside the handlers.
LEMMA BackgroundInv ==
    ASSUME IInv,
           \/ \E a \in Agents : handleCreateSession(a)
           \/ \E t \in Toggled : handleAdminToggleHost(t)
           \/ \E p \in Policies : ReloadPolicy(p)
           \/ CleanExpired
           \/ Tick
    PROVE  IInv'
<1>1. UNCHANGED <<signed, lost, pc, req, pending, asked>>
  BY DEF handleCreateSession, handleAdminToggleHost, ReloadPolicy, CleanExpired, Tick
<1>2. /\ now' \in Nat /\ policy' \in Policies /\ sessions' \subseteq Agents
      /\ disabled' \subseteq Targets /\ certs' \subseteq certs
  BY DEF IInv, TypeOK, TablesOK, handleCreateSession, handleAdminToggleHost, Toggle,
         ReloadPolicy, CleanExpired, Tick
<1>3. engine' = engine \/ engine' = NewEngine
  BY DEF handleCreateSession, handleAdminToggleHost, ReloadPolicy, CleanExpired, Tick
<1>4. NewEngine \in Engines /\ NewEngine.tracked = {} /\ Consistent(NewEngine)
  <2>1. \A a : Held({}, a) = {}
    BY DEF Held
  <2> QED
    BY <2>1, FS_EmptySet DEF NewEngine, Engines, Consistent
<1>5. CountsMatch'
  BY <1>1, <1>3, <1>4, ConsistentKept DEF IInv, CountsMatch
<1>6. TablesOK'
  BY <1>1, <1>2, <1>3, <1>4 DEF IInv, TypeOK, TablesOK
<1>7. \A w \in Workers : LocalsOK(w)'
  BY <1>1 DEF IInv, TypeOK, LocalsOK
<1>8. FlightInv'
  BY <1>1, <1>3, <1>4 DEF IInv, FlightInv, InFlight
<1> QED
  BY <1>1, <1>5, <1>6, <1>7, <1>8 DEF IInv, TypeOK

-----------------------------------------------------------------------------
(* The theorems. *)

LEMMA InitInv == Init => IInv
<1> SUFFICES ASSUME Init PROVE IInv
  OBVIOUS
<1>1. NewEngine \in Engines /\ NewEngine.tracked = {} /\ Consistent(NewEngine)
  <2>1. \A a : Held({}, a) = {}
    BY DEF Held
  <2> QED
    BY <2>1, FS_EmptySet DEF NewEngine, Engines, Consistent
<1>2. signed = <<>> /\ Len(signed) = 0 /\ signed \in Seq(Certificates)
  BY DEF Init
<1>3. TablesOK
  BY <1>1, <1>2 DEF Init, TablesOK
<1>4. TypeOK
  BY <1>3, ReplyFits, NoLocalsTyped DEF Init, TypeOK, LocalsOK, PCs
<1> QED
  BY <1>1, <1>4 DEF Init, IInv, CountsMatch, FlightInv, InFlight

LEMMA NextInv == IInv /\ [Next]_vars => IInv'
<1> SUFFICES ASSUME IInv, [Next]_vars PROVE IInv'
  OBVIOUS
<1>1. CASE \E w \in Workers : Step(w)
  <2>1. PICK w \in Workers : Step(w)
    BY <1>1
  <2> QED
    BY <2>1, DenyInv, PendingInv, ApproveInv, SignInv, SignLostInv, SignFailsInv, AddInv, TrackInv,
       RemovePendingInv, RemoveCertInv, UntrackInv, ListInv DEF Step
<1>2. CASE \E w \in Workers : Call(w)
  <2>1. PICK w \in Workers : Call(w)
    BY <1>2
  <2> QED
    BY <2>1, RequestInv, DecideInv, RevokeInv, DashboardToggleInv DEF Call
<1>3. CASE UNCHANGED vars
  <2>1. TablesOK' /\ CountsMatch'
    BY <1>3, TablesKept DEF vars, IInv, TypeOK, TablesOK
  <2>2. \A w \in Workers : LocalsOK(w)'
    BY <1>3 DEF vars, IInv, TypeOK, LocalsOK
  <2>3. FlightInv'
    BY <1>3 DEF vars, IInv, FlightInv, InFlight
  <2> QED
    BY <1>3, <2>1, <2>2, <2>3 DEF vars, IInv, TypeOK
<1> QED
  BY <1>1, <1>2, <1>3, BackgroundInv DEF Next

\* Every serial that a table or a handler of the certificate broker names was signed
\* and every handler has the locals its step needs, whatever the handlers' order.
THEOREM TypeCorrect == Spec => []TypeOK
<1>1. IInv => TypeOK
  BY DEF IInv
<1> QED
  BY <1>1, InitInv, NextInv, PTL DEF Spec

\* The policy engine's count of an agent's certificates, the certificates it tracks
\* and its signatures always agree.
THEOREM CountsAreRight == Spec => []CountsMatch
<1>1. IInv => CountsMatch
  BY DEF IInv
<1> QED
  BY <1>1, InitInv, NextInv, PTL DEF Spec
-----------------------------------------------------------------------------
(* What is issued. *)

\* The policy that a queued request, a request being issued and a certificate were
\* evaluated with allows them; a queued request is told from others by its id.
IssueInv ==
    /\ \A id \in DOMAIN pending : pending[id].request # 0 /\ AsEvaluated(pending[id])
    /\ \A w \in Workers : pc[w] \in {"sign", "add", "track"} => AsEvaluated(req[w].cert)
    /\ \A w \in Workers : pc[w] = "evaluate" => req[w].cert.request = 0
    /\ IssuedAsEvaluated

\* Evaluation grants only what the current policy allows.
LEMMA GrantedAsEvaluated ==
    ASSUME IInv, NEW r \in Requests, Permitted(r)
    PROVE  /\ r.request = 0 /\ r.target \in policy.auto => AsEvaluated(Granted(r))
           /\ \A id \in RequestIds : LET g == [Granted(r) EXCEPT !.request = id] IN
                 AsEvaluated(g) /\ g.request # 0
<1>1. policy \in Policies
  BY DEF IInv, TypeOK, TablesOK
<1> DEFINE d == ClampedDuration(r)
<1>2. d <= policy.maxTTL[r.target] /\ d <= policy.globalMax
  BY <1>1, PolicyAssumption DEF ClampedDuration, Least, Permitted, Requests
<1> HIDE DEF d
<1>3. /\ Granted(r).agent = r.agent /\ Granted(r).target = r.target /\ Granted(r).role = r.role
      /\ Granted(r).ttl = d /\ Granted(r).under = policy /\ Granted(r).request = r.request
  BY DEF Granted, Requests, d
<1>4. \A id \in RequestIds : LET g == [Granted(r) EXCEPT !.request = id] IN
        /\ g.agent = r.agent /\ g.target = r.target /\ g.role = r.role
        /\ g.ttl = d /\ g.under = policy /\ g.request = id /\ id # 0
  BY DEF Granted, Requests, RequestIds, d
<1>5. r.agent \in DOMAIN policy.limit /\ r.target \in DOMAIN policy.roles
      /\ r.role \in policy.roles[r.target]
  BY DEF Permitted
<1> QED
  BY <1>2, <1>3, <1>4, <1>5 DEF AsEvaluated

\* A step that starts no issue and queues and signs nothing keeps IssueInv.
LEMMA IssueKept ==
    ASSUME IssueInv, UNCHANGED signed,
           DOMAIN pending' \subseteq DOMAIN pending,
           \A id \in DOMAIN pending' : pending'[id] = pending[id],
           \A w \in Workers : pc'[w] \in {"sign", "add", "track"} =>
               pc[w] \in {"sign", "add", "track"} /\ req'[w].cert = req[w].cert,
           \A w \in Workers : pc'[w] = "evaluate" => pc[w] = "evaluate" /\ req'[w] = req[w]
    PROVE  IssueInv'
<1>1. /\ \A id \in DOMAIN pending' : pending'[id].request # 0 /\ AsEvaluated(pending'[id])
      /\ \A w \in Workers : pc'[w] \in {"sign", "add", "track"} => AsEvaluated(req'[w].cert)
      /\ \A w \in Workers : pc'[w] = "evaluate" => req'[w].cert.request = 0
  BY DEF IssueInv
<1>2. IssuedAsEvaluated'
  BY DEF IssueInv, IssuedAsEvaluated, AsEvaluated
<1> QED
  BY <1>1, <1>2 DEF IssueInv, AsEvaluated

LEMMA IssueNext == IInv /\ IssueInv /\ [Next]_vars => IssueInv'
<1> SUFFICES ASSUME IInv, IssueInv, [Next]_vars PROVE IssueInv'
  OBVIOUS
<1> DEFINE Busy == {"sign", "add", "track"}
<1>0. /\ pc \in [Workers -> PCs] /\ req \in [Workers -> Locals]
      /\ \A w \in Workers : pc[w] \in {"evaluate", "sign", "add", "track", "unpend"} => req[w].cert \in Requests
  BY DEF IInv, TypeOK, LocalsOK
<1>1. ASSUME NEW w \in Workers, EvaluatePending(w) PROVE IssueInv'
  <2> DEFINE r == req[w].cert
  <2>1. /\ r \in Requests /\ Permitted(r) /\ asked' \in RequestIds /\ signed' = signed
        /\ pending' = [id \in DOMAIN pending \cup {asked'} |->
                         IF id = asked' THEN [Granted(r) EXCEPT !.request = asked'] ELSE pending[id]]
    BY <1>0, <1>1 DEF EvaluatePending, Passes, IInv, TypeOK, TablesOK, RequestIds
  <2>2. \A v \in Workers : pc'[v] \in Busy \cup {"evaluate"} => pc'[v] = pc[v] /\ req'[v] = req[v]
    BY <1>0, <1>1 DEF EvaluatePending, Reply, Goto
  <2> DEFINE g == [Granted(r) EXCEPT !.request = asked']
  <2>3. AsEvaluated(g) /\ g.request # 0
    BY <2>1, GrantedAsEvaluated
  <2> HIDE DEF g
  <2>4. \A id \in DOMAIN pending' : pending'[id] = g \/ (id \in DOMAIN pending /\ pending'[id] = pending[id])
    BY <2>1 DEF g
  <2>5. \A id \in DOMAIN pending' : pending'[id].request # 0 /\ AsEvaluated(pending'[id])
    BY <2>3, <2>4 DEF IssueInv
  <2>6. signed' = signed
    BY <2>1
  <2>7. \A v \in Workers : /\ pc'[v] \in Busy => AsEvaluated(req'[v].cert)
                           /\ pc'[v] = "evaluate" => req'[v].cert.request = 0
    BY <2>2 DEF IssueInv
  <2>8. IssuedAsEvaluated'
    BY <2>6 DEF IssueInv, IssuedAsEvaluated, AsEvaluated
  <2> QED
    BY <2>5, <2>7, <2>8 DEF IssueInv, AsEvaluated
<1>2. ASSUME NEW w \in Workers, EvaluateApprove(w) PROVE IssueInv'
  <2> DEFINE r == req[w].cert
  <2>1. /\ r \in Requests /\ Permitted(r) /\ r.target \in policy.auto /\ r.request = 0
        /\ UNCHANGED <<signed, lost, pending>>
    BY <1>0, <1>2 DEF EvaluateApprove, Passes, IssueInv
  <2>2. /\ pc'[w] = "sign" /\ req'[w].cert = Granted(r)
        /\ \A v \in Workers : v # w => pc'[v] = pc[v] /\ req'[v] = req[v]
    BY <1>0, <1>2 DEF EvaluateApprove, Goto, Locals
  <2>3. AsEvaluated(Granted(r))
    BY <2>1, GrantedAsEvaluated
  <2>4. \A v \in Workers : /\ pc'[v] \in Busy => AsEvaluated(req'[v].cert)
                           /\ pc'[v] = "evaluate" => req'[v].cert.request = 0
    BY <2>2, <2>3 DEF IssueInv
  <2>5. IssuedAsEvaluated'
    BY <2>1 DEF IssueInv, IssuedAsEvaluated, AsEvaluated
  <2> QED
    BY <2>1, <2>4, <2>5 DEF IssueInv, AsEvaluated
<1>3. ASSUME NEW w \in Workers, SignCert(w) \/ SignLost(w) PROVE IssueInv'
  <2> DEFINE r == req[w].cert
             c == [agent |-> r.agent, target |-> r.target, role |-> r.role, ttl |-> r.ttl,
                   under |-> r.under, request |-> r.request, expires |-> now + r.ttl]
  <2>1. /\ signed' = Append(signed, c) /\ pending' = pending /\ AsEvaluated(r)
        /\ signed \in Seq(Certificates)
    BY <1>3 DEF SignCert, SignLost, Sign, IssueInv, IInv, TypeOK, TablesOK
  <2>2. AsEvaluated(c)
    BY <2>1 DEF AsEvaluated
  <2> HIDE DEF c
  <2>3. \A s \in 1..Len(signed') : signed'[s] = c \/ (s \in 1..Len(signed) /\ signed'[s] = signed[s])
    BY <2>1
  <2>4. \A v \in Workers : /\ pc'[v] \in Busy => pc[v] \in Busy /\ req'[v].cert = req[v].cert
                           /\ pc'[v] = "evaluate" => pc[v] = "evaluate" /\ req'[v] = req[v]
    BY <1>0, <1>3 DEF SignCert, SignLost, Reply, Goto, Locals
  <2>5. IssuedAsEvaluated'
    BY <2>2, <2>3 DEF IssueInv, IssuedAsEvaluated
  <2>6. \A v \in Workers : pc'[v] \in Busy => AsEvaluated(req'[v].cert)
    BY <2>4 DEF IssueInv
  <2>7. \A v \in Workers : pc'[v] = "evaluate" => req'[v].cert.request = 0
    BY <2>4 DEF IssueInv
  <2> QED
    BY <2>1, <2>5, <2>6, <2>7 DEF IssueInv
<1>4. ASSUME NEW w \in Workers, NEW id \in DOMAIN pending, handleApprove(w, id) PROVE IssueInv'
  <2>1. /\ pc'[w] = "sign" /\ req'[w].cert = pending[id] /\ UNCHANGED <<signed, lost, pending>>
        /\ \A v \in Workers : v # w => pc'[v] = pc[v] /\ req'[v] = req[v]
    BY <1>0, <1>4 DEF handleApprove, Goto, NoLocals
  <2>2. \A v \in Workers : /\ pc'[v] \in Busy => AsEvaluated(req'[v].cert)
                           /\ pc'[v] = "evaluate" => req'[v].cert.request = 0
    BY <2>1 DEF IssueInv
  <2>3. IssuedAsEvaluated'
    BY <2>1 DEF IssueInv, IssuedAsEvaluated, AsEvaluated
  <2> QED
    BY <2>1, <2>2, <2>3 DEF IssueInv, AsEvaluated
<1>5. ASSUME NEW w \in Workers, NEW a \in Agents, NEW t \in Targets, NEW r \in Roles,
             NEW d \in Durations, handleRequest(w, a, t, r, d)
      PROVE  IssueInv'
  <2>1. /\ pc'[w] = "evaluate" /\ req'[w].cert.request = 0 /\ UNCHANGED <<signed, lost, pending>>
        /\ \A v \in Workers : v # w => pc'[v] = pc[v] /\ req'[v] = req[v]
    BY <1>0, <1>5 DEF handleRequest, Goto, NoLocals
  <2>2. \A v \in Workers : /\ pc'[v] \in Busy => AsEvaluated(req'[v].cert)
                           /\ pc'[v] = "evaluate" => req'[v].cert.request = 0
    BY <2>1 DEF IssueInv
  <2>3. IssuedAsEvaluated'
    BY <2>1 DEF IssueInv, IssuedAsEvaluated, AsEvaluated
  <2> QED
    BY <2>1, <2>2, <2>3 DEF IssueInv, AsEvaluated
<1>6. ASSUME NEW w \in Workers,
             \/ EvaluateDeny(w) \/ SignFails(w) \/ RemovePending(w) \/ ListHostCerts(w)
             \/ AddCert(w) \/ TrackCert(w) \/ UntrackCert(w)
             \/ \E s \in req[w].todo : RemoveCert(w, s)
             \/ \E id \in DOMAIN pending : handleDeny(w, id)
             \/ \E s \in certs : handleRevokeCert(w, s)
             \/ \E t \in Toggled : handleDashboardToggleHost(w, t)
      PROVE  IssueInv'
  <2>1. /\ signed' = signed /\ DOMAIN pending' \subseteq DOMAIN pending
        /\ \A id \in DOMAIN pending' : pending'[id] = pending[id]
    BY <1>6 DEF EvaluateDeny, SignFails, RemovePending, ListHostCerts, AddCert, TrackCert,
           UntrackCert, RemoveCert, handleDeny, handleRevokeCert, handleDashboardToggleHost
  <2>2. PICK next \in {"idle", "unpend", "list", "uncert", "untrack", "track"} : \E l :
            Goto(w, next, l) /\ (next = "track" => pc[w] = "add" /\ l = req[w])
    BY <1>6 DEF EvaluateDeny, SignFails, RemovePending, ListHostCerts, AddCert, TrackCert,
           UntrackCert, RemoveCert, handleDeny, handleRevokeCert, handleDashboardToggleHost, Reply
  <2>3. \A v \in Workers : /\ pc'[v] \in Busy => pc[v] \in Busy /\ req'[v].cert = req[v].cert
                           /\ pc'[v] = "evaluate" => pc[v] = "evaluate" /\ req'[v] = req[v]
    BY <1>0, <2>2 DEF Goto
  <2> QED
    BY <2>1, <2>3, IssueKept
<1>7. CASE UNCHANGED <<signed, lost, pending, pc, req>>
  BY <1>7, IssueKept
<1>8. CASE \/ \E a \in Agents : handleCreateSession(a)
           \/ \E t \in Toggled : handleAdminToggleHost(t)
           \/ \E p \in Policies : ReloadPolicy(p)
           \/ CleanExpired
           \/ Tick
  BY <1>7, <1>8 DEF handleCreateSession, handleAdminToggleHost, ReloadPolicy, CleanExpired, Tick
<1>9. ASSUME NEW w \in Workers, Step(w) \/ Call(w) PROVE IssueInv'
  BY <1>1, <1>2, <1>3, <1>4, <1>5, <1>6, <1>9 DEF Step, Call
<1> QED
  BY <1>7, <1>8, <1>9 DEF Next, vars

\* Whatever is reloaded in between, every certificate is one that the policy it was
\* evaluated with allows, and auto-approved there or approved by an admin.
THEOREM IssuesAreAuthorised == Spec => []IssuedAsEvaluated
<1>1. Init => IssueInv
  BY DEF Init, IssueInv, IssuedAsEvaluated
<1>2. IssueInv => IssuedAsEvaluated
  BY DEF IssueInv
<1> QED
  BY <1>1, <1>2, InitInv, NextInv, IssueNext, PTL DEF Spec
-----------------------------------------------------------------------------
(* Limits. *)

\* Both sets that OverrunBounded counts are finite.
LEMMA OverrunFinite ==
    ASSUME TypeOK, NEW a
    PROVE  /\ IsFiniteSet(AutoHeld(a)) /\ Cardinality(AutoHeld(a)) \in Nat
           /\ IsFiniteSet(Issuing(a)) /\ Cardinality(Issuing(a)) \in Nat
           /\ Cardinality(Workers) \in Nat /\ Cardinality(Issuing(a)) <= Cardinality(Workers)
<1>1. engine.tracked \in SUBSET (1..Len(signed)) /\ Len(signed) \in Nat
  BY DEF TypeOK, TablesOK
<1>2. AutoHeld(a) \subseteq engine.tracked /\ IsFiniteSet(engine.tracked)
  BY <1>1, HeldFinite DEF AutoHeld
<1>3. Issuing(a) \subseteq Workers
  BY DEF Issuing
<1> QED
  BY <1>2, <1>3, FS_Subset, FS_CardinalityType

\* OverrunBounded for one agent.
Bounded(a) ==
    \/ AutoHeld(a) = {} /\ Issuing(a) = {}
    \/ \E p \in Policies :
          /\ a \in DOMAIN p.limit
          /\ Cardinality(AutoHeld(a)) + Cardinality(Issuing(a))
                 <= p.limit[a] - 1 + Cardinality(Workers)

\* An agent for which nothing is added keeps its bound.
LEMMA BoundedKept ==
    ASSUME TypeOK, TypeOK', NEW a \in Agents, Bounded(a),
           AutoHeld(a)' \subseteq AutoHeld(a), Issuing(a)' \subseteq Issuing(a)
    PROVE  Bounded(a)'
<1>1. /\ Cardinality(AutoHeld(a)') <= Cardinality(AutoHeld(a))
      /\ Cardinality(Issuing(a)') <= Cardinality(Issuing(a))
  BY OverrunFinite, FS_Subset
<1>2. Cardinality(AutoHeld(a)') \in Nat /\ Cardinality(Issuing(a)') \in Nat
  <2>1. AutoHeld(a)' \in SUBSET AutoHeld(a) /\ Issuing(a)' \in SUBSET Issuing(a)
    OBVIOUS
  <2> QED
    BY <2>1, OverrunFinite, FS_Subset, FS_CardinalityType
<1>3. CASE AutoHeld(a) = {} /\ Issuing(a) = {}
  BY <1>3 DEF Bounded
<1>4. CASE \E p \in Policies :
             /\ a \in DOMAIN p.limit
             /\ Cardinality(AutoHeld(a)) + Cardinality(Issuing(a)) <= p.limit[a] - 1 + Cardinality(Workers)
  <2>1. PICK p \in Policies :
             /\ a \in DOMAIN p.limit
             /\ Cardinality(AutoHeld(a)) + Cardinality(Issuing(a)) <= p.limit[a] - 1 + Cardinality(Workers)
    BY <1>4
  <2>2. p.limit[a] \in Int
    BY <2>1, PolicyAssumption
  <2>3. Cardinality(AutoHeld(a)') + Cardinality(Issuing(a)') <= p.limit[a] - 1 + Cardinality(Workers)
    BY <1>1, <1>2, <2>1, <2>2, OverrunFinite
  <2> QED
    BY <2>1, <2>3 DEF Bounded
<1> QED
  BY <1>3, <1>4 DEF Bounded

\* A request that is approved finds its agent below the limit.
LEMMA ApproveBounded ==
    ASSUME IInv, IInv', NEW w \in Workers, EvaluateApprove(w), NEW a, a = req[w].cert.agent
    PROVE  Bounded(a)'
<1> DEFINE r == req[w].cert
<1>1. /\ r \in Requests /\ Permitted(r) /\ ~AtAgentLimit(r) /\ engine' = Deduplicated(r)
      /\ signed' = signed /\ policy' = policy /\ policy \in Policies
      /\ a \in Agents /\ a \in DOMAIN policy.limit /\ policy.limit[a] \in Int
  BY PolicyAssumption DEF EvaluateApprove, Passes, IInv, TypeOK, TablesOK, LocalsOK, Permitted, Requests
<1>2. Swept.counts[a] < policy.limit[a] /\ Swept.counts[a] = Cardinality(Held(Swept.tracked, a))
      /\ Swept.counts[a] \in Nat
  BY <1>1, EvaluateEffect DEF AtAgentLimit, Consistent, Engines
<1>3. AutoHeld(a)' \subseteq Held(Swept.tracked, a)
  BY <1>1, EvaluateEffect DEF AutoHeld, Held
<1>4. Swept.tracked \in SUBSET (1..Len(signed)) /\ Len(signed) \in Nat
  BY <1>1, EvaluateEffect DEF Counted, IInv, TypeOK, TablesOK
<1>5. /\ Cardinality(AutoHeld(a)') <= Cardinality(Held(Swept.tracked, a))
      /\ Cardinality(AutoHeld(a)') \in Nat
  <2>1. IsFiniteSet(Held(Swept.tracked, a))
    BY <1>4, HeldFinite
  <2> QED
    BY <1>3, <2>1, FS_Subset, FS_CardinalityType
<1>6. /\ Cardinality(Issuing(a)') <= Cardinality(Workers) /\ Cardinality(Issuing(a)') \in Nat
      /\ Cardinality(Workers) \in Nat
  <2>1. Issuing(a)' \subseteq Workers
    BY DEF Issuing
  <2> QED
    BY <2>1, FS_Subset, FS_CardinalityType
<1>7. Cardinality(AutoHeld(a)') + Cardinality(Issuing(a)') <= policy.limit[a] - 1 + Cardinality(Workers)
  BY <1>1, <1>2, <1>5, <1>6
<1> QED
  BY <1>1, <1>7 DEF Bounded

\* Tracking moves a certificate from one side of the sum to the other.
LEMMA TrackBounded ==
    ASSUME IInv, IInv', NEW w \in Workers, TrackCert(w), NEW a, a = req[w].cert.agent,
           req[w].cert.request = 0, Bounded(a)
    PROVE  Bounded(a)'
<1>0. PICK s : s = req[w].serial
  OBVIOUS
<1>1. /\ pc[w] = "track" /\ pc \in [Workers -> PCs] /\ req \in [Workers -> Locals]
      /\ engine'.tracked = engine.tracked \cup {s} /\ signed' = signed
      /\ pc' = [pc EXCEPT ![w] = "idle"] /\ req' = [req EXCEPT ![w] = NoLocals]
      /\ a \in Agents
  BY <1>0 DEF TrackCert, Reply, Goto, IInv, TypeOK, LocalsOK, Requests
<1>2. AutoHeld(a)' \subseteq AutoHeld(a) \cup {s}
  BY <1>1 DEF AutoHeld
<1>3. Issuing(a)' \subseteq Issuing(a) \ {w} /\ w \in Issuing(a)
  BY <1>1 DEF Issuing
<1>4. /\ IsFiniteSet(AutoHeld(a)) /\ Cardinality(AutoHeld(a)) \in Nat
      /\ IsFiniteSet(Issuing(a)) /\ Cardinality(Issuing(a)) \in Nat
      /\ Cardinality(Workers) \in Nat
  BY OverrunFinite DEF IInv
<1>5. /\ Cardinality(AutoHeld(a)') <= Cardinality(AutoHeld(a)) + 1
      /\ Cardinality(AutoHeld(a)') \in Nat
  <2>1. IsFiniteSet(AutoHeld(a) \cup {s}) /\ Cardinality(AutoHeld(a) \cup {s}) <= Cardinality(AutoHeld(a)) + 1
    <3>1. /\ IsFiniteSet(AutoHeld(a) \cup {s})
          /\ Cardinality(AutoHeld(a) \cup {s}) =
                IF s \in AutoHeld(a) THEN Cardinality(AutoHeld(a)) ELSE Cardinality(AutoHeld(a)) + 1
      BY <1>4, FS_AddElement
    <3> QED
      BY <1>4, <3>1
  <2>2. Cardinality(AutoHeld(a) \cup {s}) \in Nat
    BY <2>1, FS_CardinalityType
  <2>3. IsFiniteSet(AutoHeld(a)') /\ Cardinality(AutoHeld(a)') <= Cardinality(AutoHeld(a) \cup {s})
    BY <1>2, <2>1, FS_Subset
  <2>4. Cardinality(AutoHeld(a)') \in Nat
    BY <2>3, FS_CardinalityType
  <2> QED
    BY <1>4, <2>1, <2>2, <2>3, <2>4
<1>6. /\ Cardinality(Issuing(a)') <= Cardinality(Issuing(a)) - 1
      /\ Cardinality(Issuing(a)') \in Nat
  <2>1. IsFiniteSet(Issuing(a) \ {w}) /\ Cardinality(Issuing(a) \ {w}) = Cardinality(Issuing(a)) - 1
    BY <1>3, <1>4, FS_RemoveElement
  <2>2. IsFiniteSet(Issuing(a)') /\ Cardinality(Issuing(a)') <= Cardinality(Issuing(a) \ {w})
    BY <1>3, <2>1, FS_Subset
  <2>3. Cardinality(Issuing(a)') \in Nat
    BY <2>2, FS_CardinalityType
  <2> QED
    BY <2>1, <2>2, <2>3
<1>7. PICK p \in Policies :
        /\ a \in DOMAIN p.limit
        /\ Cardinality(AutoHeld(a)) + Cardinality(Issuing(a)) <= p.limit[a] - 1 + Cardinality(Workers)
  BY <1>3 DEF Bounded
<1>8. p.limit[a] \in Int
  BY <1>7, PolicyAssumption
<1>9. Cardinality(AutoHeld(a)') + Cardinality(Issuing(a)') <= p.limit[a] - 1 + Cardinality(Workers)
  BY <1>4, <1>5, <1>6, <1>7, <1>8
<1> QED
  BY <1>7, <1>9 DEF Bounded
LEMMA OverrunNext == IInv /\ IInv' /\ IssueInv /\ OverrunBounded /\ [Next]_vars => OverrunBounded'
<1> SUFFICES ASSUME IInv, IInv', IssueInv, OverrunBounded, [Next]_vars, NEW a \in Agents
             PROVE  Bounded(a)'
  BY DEF OverrunBounded, Bounded
<1>0. /\ Bounded(a) /\ TypeOK /\ TypeOK'
      /\ pc \in [Workers -> PCs] /\ req \in [Workers -> Locals]
      /\ engine.tracked \subseteq 1..Len(signed)
  BY DEF OverrunBounded, Bounded, IInv, TypeOK, TablesOK
<1>1. ASSUME NEW w \in Workers, EvaluateApprove(w) PROVE Bounded(a)'
  <2>1. CASE a = req[w].cert.agent
    BY <1>1, <2>1, ApproveBounded
  <2>2. CASE a # req[w].cert.agent
    <3>0. req[w].cert \in Requests
      BY <1>1 DEF IInv, TypeOK, LocalsOK, EvaluateApprove
    <3>1. AutoHeld(a)' \subseteq AutoHeld(a)
      BY <1>1, <3>0, EvaluateEffect DEF EvaluateApprove, AutoHeld, Counted
    <3>2. req'[w].cert.agent # a /\ \A v \in Workers : v # w => pc'[v] = pc[v] /\ req'[v] = req[v]
      BY <1>0, <1>1, <2>2, <3>0 DEF EvaluateApprove, Goto, Granted, Locals, Requests
    <3>3. Issuing(a)' \subseteq Issuing(a)
      BY <3>2 DEF Issuing
    <3> QED
      BY <1>0, <3>1, <3>3, BoundedKept
  <2> QED
    BY <2>1, <2>2
<1>2. ASSUME NEW w \in Workers, TrackCert(w) PROVE Bounded(a)'
  <2>1. CASE a = req[w].cert.agent /\ req[w].cert.request = 0
    BY <1>0, <1>2, <2>1, TrackBounded
  <2>2. CASE ~(a = req[w].cert.agent /\ req[w].cert.request = 0)
    <3>1. SigOf(signed[req[w].serial]) = SigOf(req[w].cert) /\ signed[req[w].serial].request = req[w].cert.request
      BY <1>2 DEF IInv, FlightInv, InFlight, TrackCert
    <3>2. AutoHeld(a)' \subseteq AutoHeld(a)
      BY <1>2, <2>2, <3>1 DEF TrackCert, AutoHeld, SigOf
    <3>3. Issuing(a)' \subseteq Issuing(a)
      BY <1>0, <1>2 DEF TrackCert, Reply, Goto, Issuing
    <3> QED
      BY <1>0, <3>2, <3>3, BoundedKept
  <2> QED
    BY <2>1, <2>2
<1>3. ASSUME NEW w \in Workers, SignCert(w) \/ SignLost(w) PROVE Bounded(a)'
  <2>1. AutoHeld(a)' \subseteq AutoHeld(a)
    BY <1>0, <1>3 DEF SignCert, SignLost, Sign, AutoHeld, IInv, TypeOK, TablesOK
  <2>2. \A v \in Workers : pc'[v] \in {"sign", "add", "track"} =>
            pc[v] \in {"sign", "add", "track"} /\ req'[v].cert = req[v].cert
    BY <1>0, <1>3 DEF SignCert, SignLost, Reply, Goto, Locals
  <2>3. Issuing(a)' \subseteq Issuing(a)
    BY <2>2 DEF Issuing
  <2> QED
    BY <1>0, <2>1, <2>3, BoundedKept
<1>4. ASSUME NEW w \in Workers, NEW id \in DOMAIN pending, handleApprove(w, id) PROVE Bounded(a)'
  <2>1. /\ req'[w].cert.request # 0 /\ UNCHANGED <<engine, signed, lost>>
        /\ \A v \in Workers : v # w => pc'[v] = pc[v] /\ req'[v] = req[v]
    BY <1>0, <1>4 DEF handleApprove, Goto, NoLocals, IssueInv
  <2>2. AutoHeld(a)' \subseteq AutoHeld(a) /\ Issuing(a)' \subseteq Issuing(a)
    BY <2>1 DEF AutoHeld, Issuing
  <2> QED
    BY <1>0, <2>2, BoundedKept
<1>5. ASSUME NEW w \in Workers,
             \/ EvaluateDeny(w) \/ EvaluatePending(w) \/ SignFails(w) \/ RemovePending(w)
             \/ ListHostCerts(w) \/ AddCert(w) \/ UntrackCert(w)
             \/ \E s \in req[w].todo : RemoveCert(w, s)
             \/ \E b \in Agents, t \in Targets, r \in Roles, d \in Durations : handleRequest(w, b, t, r, d)
             \/ \E id \in DOMAIN pending : handleDeny(w, id)
             \/ \E s \in certs : handleRevokeCert(w, s)
             \/ \E t \in Toggled : handleDashboardToggleHost(w, t)
      PROVE  Bounded(a)'
  <2>1. signed' = signed
    BY <1>5 DEF EvaluateDeny, EvaluatePending, SignFails, RemovePending, ListHostCerts, AddCert,
           UntrackCert, RemoveCert, handleRequest, handleDeny, handleRevokeCert, handleDashboardToggleHost
  <2>2. engine'.tracked \subseteq engine.tracked
    <3>1. CASE EvaluateDeny(w) \/ EvaluatePending(w)
      <4>1. req[w].cert \in Requests
        BY <3>1 DEF EvaluateDeny, EvaluatePending, IInv, TypeOK, LocalsOK
      <4>2. engine' \in {Swept, Deduplicated(req[w].cert)}
        BY <3>1 DEF EvaluateDeny, EvaluatePending
      <4> QED
        BY <4>1, <4>2, EvaluateEffect DEF Counted
    <3>2. CASE UntrackCert(w)
      BY <3>2 DEF UntrackCert, removeCertLocked
    <3>3. CASE ~(EvaluateDeny(w) \/ EvaluatePending(w) \/ UntrackCert(w))
      BY <1>5, <3>3 DEF SignFails, RemovePending, ListHostCerts, AddCert, RemoveCert, handleRequest,
             handleDeny, handleRevokeCert, handleDashboardToggleHost
    <3> QED
      BY <3>1, <3>2, <3>3
  <2>3. PICK next \in {"idle", "evaluate", "unpend", "list", "uncert", "untrack", "track"} : \E l :
            Goto(w, next, l) /\ (next = "track" => pc[w] = "add" /\ l = req[w])
    BY <1>5 DEF EvaluateDeny, EvaluatePending, SignFails, RemovePending, ListHostCerts, AddCert,
           UntrackCert, RemoveCert, handleRequest, handleDeny, handleRevokeCert,
           handleDashboardToggleHost, Reply
  <2>4. AutoHeld(a)' \subseteq AutoHeld(a)
    BY <2>1, <2>2 DEF AutoHeld
  <2>5. \A v \in Workers : pc'[v] \in {"sign", "add", "track"} =>
            pc[v] \in {"sign", "add", "track"} /\ req'[v] = req[v]
    BY <1>0, <2>3 DEF Goto
  <2>6. Issuing(a)' \subseteq Issuing(a)
    BY <2>5 DEF Issuing
  <2> QED
    BY <1>0, <2>4, <2>6, BoundedKept
<1>6. CASE engine'.tracked \subseteq engine.tracked /\ UNCHANGED <<signed, lost, pc, req>>
  <2>1. AutoHeld(a)' \subseteq AutoHeld(a) /\ Issuing(a)' \subseteq Issuing(a)
    BY <1>6 DEF AutoHeld, Issuing
  <2> QED
    BY <1>0, <2>1, BoundedKept
<1>7. CASE \/ \E b \in Agents : handleCreateSession(b)
           \/ \E t \in Toggled : handleAdminToggleHost(t)
           \/ \E p \in Policies : ReloadPolicy(p)
           \/ CleanExpired
           \/ Tick
  BY <1>6, <1>7 DEF handleCreateSession, handleAdminToggleHost, ReloadPolicy, NewEngine, CleanExpired, Tick
<1>8. ASSUME NEW w \in Workers, Step(w) \/ Call(w) PROVE Bounded(a)'
  BY <1>1, <1>2, <1>3, <1>4, <1>5, <1>8 DEF Step, Call
<1> QED
  BY <1>6, <1>7, <1>8 DEF Next, vars

\* However many requests race, an agent overruns a limit by fewer certificates than
\* there are handlers, approvals aside.
THEOREM OverrunIsBounded == Spec => []OverrunBounded
<1>1. Init => OverrunBounded
  BY DEF Init, OverrunBounded, AutoHeld, Issuing, NewEngine
<1>2. Init => IssueInv
  BY DEF Init, IssueInv, IssuedAsEvaluated
<1> QED
  BY <1>1, <1>2, InitInv, NextInv, IssueNext, OverrunNext, PTL DEF Spec

-----------------------------------------------------------------------------
(* Approvals. *)

\* The handlers that are to remove request id from the queue.
Removing(id) == {w \in Workers : pc[w] \in {"add", "track", "unpend"} /\ req[w].cert.request = id}

\* One request: while it is queued, each certificate handed out has its own handler that
\* has yet to remove it.
Answered(id) ==
    /\ Cardinality(HandedOut(id)) + Cardinality(Approving(id)) <= Cardinality(Workers)
    /\ id \in DOMAIN pending => Cardinality(HandedOut(id)) <= Cardinality(Removing(id))

\* Request ids are drawn before anything carries them, and stay with their request.
DrawnInv ==
    /\ \A id \in DOMAIN pending : pending[id].request = id
    /\ \A s \in 1..Len(signed) : signed[s].request <= asked
    /\ \A w \in Workers : pc[w] \in {"evaluate", "sign", "add", "track", "unpend"} =>
                              req[w].cert.request <= asked

QueueInv == DrawnInv /\ \A id \in RequestIds : Answered(id)

\* The sets that Answered counts are finite.
LEMMA AnsweredFinite ==
    ASSUME TypeOK, NEW id
    PROVE  /\ IsFiniteSet(HandedOut(id)) /\ Cardinality(HandedOut(id)) \in Nat
           /\ IsFiniteSet(Approving(id)) /\ Cardinality(Approving(id)) \in Nat
           /\ IsFiniteSet(Removing(id)) /\ Cardinality(Removing(id)) \in Nat
           /\ Cardinality(Workers) \in Nat
<1>1. Len(signed) \in Nat
  BY DEF TypeOK, TablesOK
<1>2. IsFiniteSet(1..Len(signed))
  BY <1>1, FS_Interval
<1>3. HandedOut(id) \subseteq 1..Len(signed) /\ Approving(id) \subseteq Workers /\ Removing(id) \subseteq Workers
  BY DEF HandedOut, Approving, Removing
<1> QED
  BY <1>2, <1>3, FS_Subset, FS_CardinalityType

\* A subset of a finite set is no larger.
LEMMA SmallerSet ==
    ASSUME NEW S, NEW T, IsFiniteSet(T), S \subseteq T
    PROVE  Cardinality(S) <= Cardinality(T)
  BY FS_Subset

\* Handlers are finitely many, in the next state as well.
LEMMA HandlersFinite ==
    ASSUME NEW S, S \subseteq Workers
    PROVE  IsFiniteSet(S) /\ Cardinality(S) \in Nat /\ Cardinality(S) <= Cardinality(Workers)
  BY FS_Subset, FS_CardinalityType

LEMMA NextFinite ==
    ASSUME NEW id
    PROVE  /\ IsFiniteSet(Approving(id)') /\ Cardinality(Approving(id)') \in Nat
           /\ IsFiniteSet(Removing(id)') /\ Cardinality(Removing(id)') \in Nat
<1>1. PICK A, B : A = Approving(id)' /\ B = Removing(id)'
  OBVIOUS
<1>2. A \subseteq Workers /\ B \subseteq Workers
  BY <1>1 DEF Approving, Removing
<1> QED
  BY <1>1, <1>2, HandlersFinite

\* A step that signs nothing, begins no issue for id and queues nothing, and that
\* leaves id in the queue only if nobody stops removing it.
LEMMA AnsweredKept ==
    ASSUME TypeOK, TypeOK', NEW id, Answered(id),
           signed' = signed, lost' = lost, Approving(id)' \subseteq Approving(id),
           id \in DOMAIN pending' => id \in DOMAIN pending /\ Removing(id) \subseteq Removing(id)'
    PROVE  Answered(id)'
<1>1. HandedOut(id)' = HandedOut(id)
  BY DEF HandedOut
<1>2. Cardinality(Approving(id)') <= Cardinality(Approving(id)) /\ Cardinality(Approving(id)') \in Nat
  BY AnsweredFinite, NextFinite, SmallerSet
<1>3. CASE id \in DOMAIN pending'
  <2>1. Cardinality(Removing(id)) <= Cardinality(Removing(id)') /\ Cardinality(Removing(id)') \in Nat
    BY <1>3, NextFinite, SmallerSet
  <2>2. Cardinality(HandedOut(id)) <= Cardinality(Removing(id)')
    BY <1>3, <2>1, AnsweredFinite DEF Answered
  <2> QED
    BY <1>1, <1>2, <2>2, AnsweredFinite DEF Answered
<1>4. CASE id \notin DOMAIN pending'
  BY <1>1, <1>2, <1>4, AnsweredFinite DEF Answered
<1> QED
  BY <1>3, <1>4

\* One handler goes from where it is to next with locals l.
LEMMA AnsweredMoves ==
    ASSUME TypeOK, TypeOK', NEW id \in RequestIds, Answered(id), signed' = signed, lost' = lost,
           DOMAIN pending' \subseteq DOMAIN pending,
           NEW w \in Workers, NEW next \in PCs, NEW l \in Locals, Goto(w, next, l),
           next = "sign" => l.cert.request # id,
           \/ pc[w] \notin {"add", "track", "unpend"}
           \/ req[w].cert.request # id
           \/ id \notin DOMAIN pending'
           \/ next \in {"add", "track", "unpend"} /\ l = req[w]
    PROVE  Answered(id)'
<1>1. /\ pc'[w] = next /\ req'[w] = l
      /\ \A v \in Workers : v # w => pc'[v] = pc[v] /\ req'[v] = req[v]
  BY GotoEffect
<1>2. Approving(id)' \subseteq Approving(id)
  BY <1>1 DEF Approving
<1>3. id \in DOMAIN pending' => Removing(id) \subseteq Removing(id)'
  BY <1>1 DEF Removing
<1> QED
  BY <1>2, <1>3, AnsweredKept

\* An approval has a handler of its own, next to those that have signed.
LEMMA ApproveAnswered ==
    ASSUME TypeOK, TypeOK', QueueInv, NEW w \in Workers, NEW k \in DOMAIN pending,
           handleApprove(w, k), NEW id \in RequestIds
    PROVE  Answered(id)'
<1>0. pending[k] \in Requests /\ pending[k].request = k /\ k \in RequestIds
  BY DEF QueueInv, DrawnInv, TypeOK, TablesOK, RequestIds
<1>1. /\ pc[w] = "idle" /\ pc'[w] = "sign" /\ req'[w].cert = pending[k]
      /\ \A v \in Workers : v # w => pc'[v] = pc[v] /\ req'[v] = req[v]
      /\ signed' = signed /\ lost' = lost /\ pending' = pending
  BY <1>0 DEF handleApprove, Goto, NoLocals, TypeOK, Locals
<1>2. Removing(id)' = Removing(id) /\ w \notin Removing(id) /\ w \notin Approving(id)
  BY <1>1 DEF Removing, Approving
<1>3. Answered(id)
  BY DEF QueueInv
<1>4. CASE id # k
  <2>1. Approving(id)' \subseteq Approving(id)
    BY <1>0, <1>1, <1>4 DEF Approving
  <2> QED
    BY <1>1, <1>2, <1>3, <2>1, AnsweredKept
<1>5. CASE id = k
  <2>1. Approving(id)' = Approving(id) \cup {w}
    BY <1>0, <1>1, <1>5 DEF Approving
  <2>2. Cardinality(Approving(id)') = Cardinality(Approving(id)) + 1
    BY <1>2, <2>1, AnsweredFinite, FS_AddElement
  <2>3. Cardinality(Removing(id)) + Cardinality(Approving(id)') <= Cardinality(Workers)
    <3>1. Removing(id) \cap Approving(id)' = {}
      BY <1>2, <2>1 DEF Removing, Approving
    <3>2. PICK A, B : A = Removing(id) /\ B = Approving(id)'
      OBVIOUS
    <3>3. IsFiniteSet(A) /\ IsFiniteSet(B) /\ A \cap B = {} /\ Cardinality(A) \in Nat /\ Cardinality(B) \in Nat
      BY <3>1, <3>2, AnsweredFinite, NextFinite
    <3>4. Cardinality(A \cup B) = Cardinality(A) + Cardinality(B) - Cardinality(A \cap B)
      BY ONLY <3>3, FS_Union
    <3>5. A \cup B \subseteq Workers
      BY <3>2 DEF Removing, Approving
    <3>6. Cardinality(A \cup B) <= Cardinality(Workers)
      BY <3>5, SmallerSet
    <3>7. Cardinality(A \cap B) = 0
      BY <3>3, FS_EmptySet
    <3> QED
      BY <3>2, <3>3, <3>4, <3>6, <3>7
  <2>4. HandedOut(id)' = HandedOut(id) /\ pending' = pending
    BY <1>1 DEF HandedOut
  <2>5. Cardinality(HandedOut(id)) <= Cardinality(Removing(id))
    BY <1>3, <1>5 DEF Answered
  <2>6. Cardinality(HandedOut(id)') + Cardinality(Approving(id)') <= Cardinality(Workers)
    BY <2>2, <2>3, <2>4, <2>5, AnsweredFinite
  <2> QED
    BY <1>2, <2>4, <2>5, <2>6 DEF Answered
<1> QED
  BY <1>4, <1>5

\* Signing turns an approval into a certificate and a removal.
LEMMA SignAnswered ==
    ASSUME TypeOK, TypeOK', NEW w \in Workers, SignCert(w), NEW id, Answered(id)
    PROVE  Answered(id)'
<1> DEFINE n == Len(signed)
<1>1. /\ pc[w] = "sign" /\ pc'[w] = "add" /\ req'[w].cert = req[w].cert
      /\ \A v \in Workers : v # w => pc'[v] = pc[v] /\ req'[v] = req[v]
      /\ pending' = pending /\ lost' = lost
  BY DEF SignCert, Goto, TypeOK, Locals
<1>2. /\ n \in Nat /\ Len(signed') = n + 1
      /\ signed'[n + 1].request = req[w].cert.request
      /\ \A s \in 1..n : signed'[s] = signed[s]
  BY DEF SignCert, Sign, TypeOK, TablesOK
<1>3. CASE req[w].cert.request # id
  <2>1. HandedOut(id)' = HandedOut(id)
    BY <1>1, <1>2, <1>3 DEF HandedOut
  <2>2. Approving(id)' = Approving(id) /\ Removing(id)' = Removing(id)
    BY <1>1, <1>3 DEF Approving, Removing
  <2> QED
    BY <1>1, <2>1, <2>2 DEF Answered
<1>4. CASE req[w].cert.request = id
  <2>1. HandedOut(id)' = HandedOut(id) \cup {n + 1} /\ n + 1 \notin HandedOut(id)
    <3>1. n + 1 \notin lost
      BY <1>2 DEF TypeOK, TablesOK
    <3> QED
      BY <1>1, <1>2, <1>4, <3>1 DEF HandedOut
  <2>2. Approving(id)' = Approving(id) \ {w} /\ w \in Approving(id)
    BY <1>1, <1>4 DEF Approving
  <2>3. Removing(id)' = Removing(id) \cup {w} /\ w \notin Removing(id)
    BY <1>1, <1>4 DEF Removing
  <2>4. Cardinality(HandedOut(id)') = Cardinality(HandedOut(id)) + 1
    BY <2>1, AnsweredFinite, FS_AddElement
  <2>5. Cardinality(Approving(id)') = Cardinality(Approving(id)) - 1
    BY <2>2, AnsweredFinite, FS_RemoveElement
  <2>6. Cardinality(Removing(id)') = Cardinality(Removing(id)) + 1
    BY <2>3, AnsweredFinite, FS_AddElement
  <2> QED
    BY <1>1, <2>4, <2>5, <2>6, AnsweredFinite DEF Answered
<1> QED
  BY <1>3, <1>4

\* A lost answer leaves the queue and the certificates handed out as they were.
LEMMA LostAnswered ==
    ASSUME TypeOK, TypeOK', NEW w \in Workers, SignLost(w), NEW id, Answered(id)
    PROVE  Answered(id)'
<1> DEFINE n == Len(signed)
<1>1. /\ pc[w] = "sign" /\ pc'[w] = "idle"
      /\ \A v \in Workers : v # w => pc'[v] = pc[v] /\ req'[v] = req[v]
      /\ pending' = pending /\ lost' = lost \cup {n + 1}
  BY DEF SignLost, Reply, Goto, TypeOK
<1>2. /\ n \in Nat /\ Len(signed') = n + 1
      /\ \A s \in 1..n : signed'[s] = signed[s]
  BY DEF SignLost, Sign, TypeOK, TablesOK
<1>3. HandedOut(id)' = HandedOut(id)
  BY <1>1, <1>2 DEF HandedOut
<1>4. Approving(id)' \subseteq Approving(id) /\ Removing(id)' = Removing(id)
  BY <1>1 DEF Approving, Removing
<1>5. Cardinality(Approving(id)') <= Cardinality(Approving(id)) /\ Cardinality(Approving(id)') \in Nat
  BY <1>4, AnsweredFinite, NextFinite, SmallerSet
<1> QED
  BY <1>1, <1>3, <1>4, <1>5, AnsweredFinite DEF Answered

Carrying == {"evaluate", "sign", "add", "track", "unpend"}

\* A step that draws no id and signs nothing keeps DrawnInv if nobody gets a
\* request that was not there.
LEMMA DrawnKept ==
    ASSUME DrawnInv, UNCHANGED <<signed, lost, asked>>,
           \A id \in DOMAIN pending' : id \in DOMAIN pending /\ pending'[id] = pending[id],
           \A v \in Workers : pc'[v] \in Carrying =>
               \/ pc[v] \in Carrying /\ req'[v].cert = req[v].cert
               \/ req'[v].cert.request <= asked
    PROVE  DrawnInv'
<1>1. \A v \in Workers : pc'[v] \in Carrying => req'[v].cert.request <= asked
  BY DEF DrawnInv, Carrying
<1>2. \A id \in DOMAIN pending' : pending'[id].request = id
  BY DEF DrawnInv
<1>3. \A s \in 1..Len(signed') : signed'[s].request <= asked'
  BY DEF DrawnInv
<1> QED
  BY <1>1, <1>2, <1>3 DEF DrawnInv, Carrying

\* A request that is queued gets an id that nothing carries yet.
LEMMA PendingQueued ==
    ASSUME IInv, IInv', IssueInv, QueueInv, NEW w \in Workers, EvaluatePending(w)
    PROVE  QueueInv'
<1> DEFINE r == req[w].cert
           g == [Granted(r) EXCEPT !.request = asked']
<1>1. /\ TypeOK /\ TypeOK' /\ pc \in [Workers -> PCs] /\ req \in [Workers -> Locals]
      /\ asked \in Nat /\ asked' = asked + 1 /\ signed' = signed /\ lost' = lost
      /\ signed \in Seq(Certificates)
      /\ r \in Requests /\ Goto(w, "idle", NoLocals) /\ NoLocals \in Locals
      /\ pending' = [id \in DOMAIN pending \cup {asked'} |-> IF id = asked' THEN g ELSE pending[id]]
  <2>1. /\ TypeOK /\ TypeOK' /\ pc \in [Workers -> PCs] /\ req \in [Workers -> Locals]
        /\ NoLocals \in Locals
    BY NoLocalsTyped DEF IInv, TypeOK
  <2>2. asked \in Nat /\ signed \in Seq(Certificates)
    BY DEF IInv, TypeOK, TablesOK
  <2>3. pc[w] = "evaluate" /\ r \in Requests
    BY DEF IInv, TypeOK, LocalsOK, EvaluatePending
  <2>4. /\ asked' = asked + 1 /\ signed' = signed /\ lost' = lost /\ Goto(w, "idle", NoLocals)
        /\ pending' = [id \in DOMAIN pending \cup {asked'} |-> IF id = asked' THEN g ELSE pending[id]]
    BY DEF EvaluatePending, Reply
  <2> QED
    BY <2>1, <2>2, <2>3, <2>4
<1>2. g.request = asked'
  BY <1>1 DEF Granted, Requests
<1> HIDE DEF g
<1>3. /\ pc'[w] = "idle"
      /\ \A v \in Workers : v # w => pc'[v] = pc[v] /\ req'[v] = req[v]
  BY <1>1, GotoEffect DEF PCs
<1>4. DrawnInv /\ DOMAIN pending \subseteq 1..asked
  BY DEF QueueInv, IInv, TypeOK, TablesOK
<1>a. \A s \in 1..Len(signed) : signed[s].request \in Int /\ signed[s].request <= asked
  <2> SUFFICES ASSUME NEW s \in 1..Len(signed)
               PROVE  signed[s].request \in Int /\ signed[s].request <= asked
    OBVIOUS
  <2>1. signed[s] \in Certificates
    BY <1>1
  <2> QED
    BY <1>4, <2>1 DEF DrawnInv, Certificates, RequestIds
<1>5. DrawnInv'
  <2>1. \A id \in DOMAIN pending' : pending'[id].request = id
    BY <1>1, <1>2, <1>4 DEF DrawnInv
  <2>2. \A s \in 1..Len(signed') : signed'[s].request <= asked'
    BY <1>1, <1>a
  <2>3. \A v \in Workers : pc'[v] \in Carrying => req'[v].cert.request <= asked'
    <3> SUFFICES ASSUME NEW v \in Workers, pc'[v] \in Carrying PROVE req'[v].cert.request <= asked'
      OBVIOUS
    <3>1. v # w /\ pc[v] \in Carrying /\ req'[v] = req[v]
      BY <1>3 DEF Carrying
    <3>2. req[v].cert.request \in Int /\ req[v].cert.request <= asked
      BY <1>1, <1>4, <3>1 DEF DrawnInv, Carrying, TypeOK, LocalsOK, Requests, RequestIds
    <3> QED
      BY <1>1, <3>1, <3>2
  <2> QED
    BY <2>1, <2>2, <2>3 DEF DrawnInv, Carrying
<1>6. ASSUME NEW id \in RequestIds PROVE Answered(id)'
  <2>1. Answered(id)
    BY DEF QueueInv
  <2>2. Approving(id)' = Approving(id) /\ Removing(id) \subseteq Removing(id)'
    BY <1>3 DEF Approving, Removing, EvaluatePending
  <2>3. CASE id # asked'
    BY <1>1, <2>1, <2>2, <2>3, AnsweredKept
  <2>4. CASE id = asked'
    <3>1. HandedOut(id) = {} /\ HandedOut(id)' = {}
      <4>1. \A s \in 1..Len(signed) : signed[s].request # id
        BY <1>1, <1>a, <2>4
      <4> QED
        BY <1>1, <4>1 DEF HandedOut
    <3>2. Cardinality(HandedOut(id)') = Cardinality(HandedOut(id)) /\ Cardinality(HandedOut(id)') = 0
      BY <3>1, FS_EmptySet
    <3>3. Cardinality(Removing(id)') \in Nat
      BY NextFinite
    <3> QED
      BY <2>1, <2>2, <3>2, <3>3 DEF Answered
  <2> QED
    BY <2>3, <2>4
<1> QED
  BY <1>5, <1>6 DEF QueueInv

LEMMA QueueNext == IInv /\ IInv' /\ IssueInv /\ QueueInv /\ [Next]_vars => QueueInv'
<1> SUFFICES ASSUME IInv, IInv', IssueInv, QueueInv, [Next]_vars PROVE QueueInv'
  OBVIOUS
<1>0. /\ TypeOK /\ TypeOK' /\ pc \in [Workers -> PCs] /\ req \in [Workers -> Locals] /\ DrawnInv
      /\ NoLocals \in Locals /\ asked \in Nat /\ DOMAIN pending \subseteq 1..asked
      /\ \A id \in RequestIds : Answered(id)
      /\ \A w \in Workers : pc[w] \in Carrying => req[w].cert \in Requests
  BY NoLocalsTyped DEF IInv, TypeOK, TablesOK, LocalsOK, QueueInv, Carrying
<1>1. ASSUME NEW w \in Workers, EvaluatePending(w) PROVE QueueInv'
  BY <1>1, PendingQueued
<1>2. ASSUME NEW w \in Workers, SignCert(w) \/ SignLost(w) PROVE QueueInv'
  <2>1. \A id \in RequestIds : Answered(id)'
    BY <1>0, <1>2, SignAnswered, LostAnswered
  <2>2. /\ UNCHANGED <<pending, asked>> /\ signed \in Seq(Certificates)
        /\ Len(signed') = Len(signed) + 1 /\ Len(signed) \in Nat
        /\ signed'[Len(signed) + 1].request = req[w].cert.request
        /\ \A s \in 1..Len(signed) : signed'[s] = signed[s]
    BY <1>0, <1>2 DEF SignCert, SignLost, Sign, TypeOK, TablesOK
  <2>3. pc[w] = "sign" /\ req[w].cert.request <= asked
    BY <1>0, <1>2 DEF SignCert, SignLost, DrawnInv
  <2>4. \A s \in 1..Len(signed') : signed'[s].request <= asked'
    BY <1>0, <2>2, <2>3 DEF DrawnInv
  <2>5. \A v \in Workers : pc'[v] \in Carrying => pc[v] \in Carrying /\ req'[v].cert = req[v].cert
    BY <1>0, <1>2 DEF SignCert, SignLost, Reply, Goto, Locals, Carrying
  <2>6. \A v \in Workers : pc'[v] \in Carrying => req'[v].cert.request <= asked'
    BY <1>0, <2>2, <2>5 DEF DrawnInv, Carrying
  <2>7. \A id \in DOMAIN pending' : pending'[id].request = id
    BY <1>0, <2>2 DEF DrawnInv
  <2> QED
    BY <2>1, <2>4, <2>6, <2>7 DEF QueueInv, DrawnInv, Carrying
<1>3. ASSUME NEW w \in Workers, NEW k \in DOMAIN pending, handleApprove(w, k) PROVE QueueInv'
  <2>1. \A id \in RequestIds : Answered(id)'
    BY <1>0, <1>3, ApproveAnswered
  <2>2. /\ UNCHANGED <<signed, lost, asked, pending>> /\ req'[w].cert = pending[k]
        /\ \A v \in Workers : v # w => pc'[v] = pc[v] /\ req'[v] = req[v]
    BY <1>0, <1>3 DEF handleApprove, Goto, NoLocals
  <2>3. req'[w].cert.request <= asked
    BY <1>0, <2>2 DEF DrawnInv
  <2>4. DrawnInv'
    BY <1>0, <2>2, <2>3, DrawnKept
  <2> QED
    BY <2>1, <2>4 DEF QueueInv
<1>4. ASSUME NEW w \in Workers, NEW next \in PCs, NEW l \in Locals, Goto(w, next, l),
             UNCHANGED <<signed, lost, asked>>,
             \A id \in DOMAIN pending' : id \in DOMAIN pending /\ pending'[id] = pending[id],
             next \in Carrying => l.cert.request <= asked,
             next = "sign" => l.cert.request = 0,
             \/ pc[w] \notin {"add", "track", "unpend"}
             \/ req[w].cert.request \notin DOMAIN pending' \cap RequestIds
             \/ next \in {"add", "track", "unpend"} /\ l = req[w]
      PROVE  QueueInv'
  <2>1. /\ pc'[w] = next /\ req'[w] = l
        /\ \A v \in Workers : v # w => pc'[v] = pc[v] /\ req'[v] = req[v]
    BY <1>0, <1>4, GotoEffect
  <2>2. DrawnInv'
    BY <1>0, <1>4, <2>1, DrawnKept
  <2>3. ASSUME NEW id \in RequestIds PROVE Answered(id)'
    <3>1. DOMAIN pending' \subseteq DOMAIN pending /\ signed' = signed /\ lost' = lost
      BY <1>4
    <3>2. next = "sign" => l.cert.request # id
      BY <1>4 DEF RequestIds
    <3>3. \/ pc[w] \notin {"add", "track", "unpend"}
          \/ req[w].cert.request # id
          \/ id \notin DOMAIN pending'
          \/ next \in {"add", "track", "unpend"} /\ l = req[w]
      BY <1>4
    <3> QED
      BY <1>0, <1>4, <3>1, <3>2, <3>3, AnsweredMoves
  <2> QED
    BY <2>2, <2>3 DEF QueueInv
<1>5. ASSUME NEW w \in Workers, EvaluateDeny(w) \/ SignFails(w) PROVE QueueInv'
  <2>1. Goto(w, "idle", NoLocals) /\ UNCHANGED <<signed, lost, asked, pending>> /\ pc[w] \in {"evaluate", "sign"}
    BY <1>5 DEF EvaluateDeny, SignFails, Reply
  <2> QED
    BY <1>0, <1>4, <2>1 DEF PCs, Carrying
<1>6. ASSUME NEW w \in Workers, EvaluateApprove(w) PROVE QueueInv'
  <2> DEFINE l == [req[w] EXCEPT !.cert = Granted(req[w].cert)]
  <2>1. /\ pc[w] = "evaluate" /\ Goto(w, "sign", l) /\ UNCHANGED <<signed, lost, asked, pending>>
        /\ req[w].cert \in Requests /\ req[w].cert.request = 0 /\ Permitted(req[w].cert)
    BY <1>0, <1>6 DEF EvaluateApprove, Passes, IssueInv, Carrying
  <2>2. l \in Locals /\ l.cert.request = 0
    <3>1. Granted(req[w].cert) \in Requests /\ Granted(req[w].cert).request = 0
      BY <2>1, GrantedTyped DEF Granted, Requests
    <3> QED
      BY <1>0, <3>1 DEF Locals
  <2> HIDE DEF l
  <2> QED
    BY <1>0, <1>4, <2>1, <2>2 DEF PCs
<1>7. ASSUME NEW w \in Workers, AddCert(w) PROVE QueueInv'
  <2>1. pc[w] = "add" /\ Goto(w, "track", req[w]) /\ UNCHANGED <<signed, lost, asked, pending>>
    BY <1>7 DEF AddCert
  <2>2. req[w].cert.request <= asked
    BY <1>0, <2>1 DEF DrawnInv
  <2> QED
    BY <1>0, <1>4, <2>1, <2>2 DEF PCs
<1>8. ASSUME NEW w \in Workers, TrackCert(w) PROVE QueueInv'
  <2>1. /\ pc[w] = "track" /\ UNCHANGED <<signed, lost, asked, pending>>
        /\ IF req[w].cert.request = 0 THEN Goto(w, "idle", NoLocals) ELSE Goto(w, "unpend", req[w])
    BY <1>8 DEF TrackCert, Reply
  <2>2. req[w].cert.request <= asked
    BY <1>0, <2>1 DEF DrawnInv
  <2>3. CASE req[w].cert.request = 0
    BY <1>0, <1>4, <2>1, <2>3 DEF PCs, Carrying, RequestIds
  <2>4. CASE req[w].cert.request # 0
    BY <1>0, <1>4, <2>1, <2>2, <2>4 DEF PCs
  <2> QED
    BY <2>3, <2>4
<1>9. ASSUME NEW w \in Workers, RemovePending(w) PROVE QueueInv'
  <2>1. /\ Goto(w, "idle", NoLocals) /\ UNCHANGED <<signed, lost, asked>>
        /\ pending' = [id \in DOMAIN pending \ {req[w].cert.request} |-> pending[id]]
    BY <1>9 DEF RemovePending, Reply
  <2>2. /\ \A id \in DOMAIN pending' : id \in DOMAIN pending /\ pending'[id] = pending[id]
        /\ req[w].cert.request \notin DOMAIN pending'
    BY <2>1
  <2> QED
    BY <1>0, <1>4, <2>1, <2>2 DEF PCs, Carrying
<1>10. ASSUME NEW w \in Workers,
              \/ \E s \in req[w].todo : RemoveCert(w, s)
              \/ UntrackCert(w) \/ ListHostCerts(w)
              \/ \E s \in certs : handleRevokeCert(w, s)
              \/ \E t \in Toggled : handleDashboardToggleHost(w, t)
       PROVE  QueueInv'
  <2>1. /\ UNCHANGED <<signed, lost, asked, pending>> /\ pc[w] \in {"uncert", "untrack", "list", "idle"}
        /\ \E next \in {"idle", "untrack", "uncert", "list"} : \E l : Goto(w, next, l)
    BY <1>10 DEF RemoveCert, UntrackCert, ListHostCerts, handleRevokeCert, handleDashboardToggleHost, Reply
  <2>2. PICK next \in {"idle", "untrack", "uncert", "list"} : \E l : Goto(w, next, l)
    BY <2>1
  <2>a. PICK l : Goto(w, next, l)
    BY <2>2
  <2>3. l \in Locals
    <3>1. req' \in [Workers -> Locals] /\ req'[w] = l
      BY <1>0, <2>a DEF Goto, TypeOK
    <3> QED
      BY <3>1
  <2> QED
    BY <1>0, <1>4, <2>1, <2>a, <2>3 DEF PCs, Carrying
<1>11. ASSUME NEW w \in Workers, NEW a \in Agents, NEW t \in Targets, NEW r \in Roles,
              NEW d \in Durations, handleRequest(w, a, t, r, d)
       PROVE  QueueInv'
  <2>1. PICK l : /\ Goto(w, "evaluate", l) /\ l.cert.request = 0 /\ pc[w] = "idle"
                 /\ UNCHANGED <<signed, lost, asked, pending>>
    BY <1>11 DEF handleRequest, NoLocals
  <2>2. l \in Locals
    <3>1. req' \in [Workers -> Locals] /\ req'[w] = l
      BY <1>0, <2>1 DEF Goto, TypeOK
    <3> QED
      BY <3>1
  <2> QED
    BY <1>0, <1>4, <2>1, <2>2 DEF PCs
<1>12. ASSUME NEW w \in Workers, NEW k \in DOMAIN pending, handleDeny(w, k) PROVE QueueInv'
  <2>1. PICK l : /\ Goto(w, "unpend", l) /\ l.cert = pending[k] /\ pc[w] = "idle"
                 /\ UNCHANGED <<signed, lost, asked, pending>>
    BY <1>12 DEF handleDeny, NoLocals
  <2>2. l \in Locals
    <3>1. req' \in [Workers -> Locals] /\ req'[w] = l
      BY <1>0, <2>1 DEF Goto, TypeOK
    <3> QED
      BY <3>1
  <2>3. l.cert.request <= asked
    BY <1>0, <2>1 DEF DrawnInv
  <2> QED
    BY <1>0, <1>4, <2>1, <2>2, <2>3 DEF PCs
<1>13. CASE UNCHANGED <<signed, lost, pending, asked, pc, req>>
  <2>1. DrawnInv'
    BY <1>0, <1>13, DrawnKept
  <2>2. \A id \in RequestIds : Answered(id)'
    BY <1>0, <1>13 DEF Answered, HandedOut, Approving, Removing
  <2> QED
    BY <2>1, <2>2 DEF QueueInv
<1>14. CASE \/ \E a \in Agents : handleCreateSession(a)
            \/ \E t \in Toggled : handleAdminToggleHost(t)
            \/ \E p \in Policies : ReloadPolicy(p)
            \/ CleanExpired
            \/ Tick
  BY <1>13, <1>14 DEF handleCreateSession, handleAdminToggleHost, ReloadPolicy, CleanExpired, Tick
<1>15. ASSUME NEW w \in Workers, Step(w) PROVE QueueInv'
  BY <1>1, <1>2, <1>5, <1>6, <1>7, <1>8, <1>9, <1>10, <1>15 DEF Step
<1>16. ASSUME NEW w \in Workers, Call(w) PROVE QueueInv'
  BY <1>3, <1>10, <1>11, <1>12, <1>16 DEF Call
<1> QED
  BY <1>13, <1>14, <1>15, <1>16 DEF Next, vars

\* However admins race and retry, a queued request brings nobody more certificates than
\* there are handlers, those about to be signed included; what the signer signed for a
\* handler that never heard of it is the only thing that is not bounded.
THEOREM ApprovalsAreBounded == Spec => []ApprovalsBounded
<1>1. Init => QueueInv
  <2> SUFFICES ASSUME Init PROVE QueueInv
    OBVIOUS
  <2>1. DrawnInv
    BY DEF Init, DrawnInv
  <2>2. ASSUME NEW id \in RequestIds PROVE Answered(id)
    <3>1. HandedOut(id) = {} /\ Approving(id) = {} /\ id \notin DOMAIN pending
      BY DEF Init, HandedOut, Approving
    <3>2. Cardinality(Workers) \in Nat
      BY FS_CardinalityType
    <3> QED
      BY <3>1, <3>2, FS_EmptySet DEF Answered
  <2> QED
    BY <2>1, <2>2 DEF QueueInv
<1>2. QueueInv => ApprovalsBounded
  BY DEF QueueInv, Answered, ApprovalsBounded
<1>3. Init => IssueInv
  BY DEF Init, IssueInv, IssuedAsEvaluated
<1> QED
  BY <1>1, <1>2, <1>3, InitInv, NextInv, IssueNext, QueueNext, PTL DEF Spec
-----------------------------------------------------------------------------
(* Denials. *)

\* A worker's step moves that worker's program counter and no other.
LEMMA MovesOne ==
    ASSUME pc \in [Workers -> PCs], NEW v \in Workers, NEW w \in Workers, v # w,
           Step(v) \/ Call(v)
    PROVE  pc'[w] = pc[w]
<1>1. \A p, l : Goto(v, p, l) => pc'[w] = pc[w]
  BY DEF Goto
<1>2. Reply(v) => pc'[w] = pc[w]
  BY <1>1 DEF Reply
<1>3. CASE EvaluateDeny(v) \/ EvaluatePending(v) \/ EvaluateApprove(v)
  BY <1>1, <1>2, <1>3 DEF EvaluateDeny, EvaluatePending, EvaluateApprove
<1>4. CASE SignCert(v) \/ SignFails(v) \/ SignLost(v) \/ AddCert(v) \/ TrackCert(v) \/ RemovePending(v)
  BY <1>1, <1>2, <1>4 DEF SignCert, SignFails, SignLost, AddCert, TrackCert, RemovePending
<1>5. CASE (\E s \in req[v].todo : RemoveCert(v, s)) \/ UntrackCert(v) \/ ListHostCerts(v)
  BY <1>1, <1>2, <1>5 DEF RemoveCert, UntrackCert, ListHostCerts
<1>6. CASE Call(v)
  BY <1>1, <1>2, <1>6 DEF Call, handleRequest, handleApprove, handleDeny, handleRevokeCert,
         handleDashboardToggleHost
<1> QED
  BY <1>3, <1>4, <1>5, <1>6 DEF Step

\* A permitted request is denied only when unexpired certificates fill the limits.
THEOREM DenialsAreJustified == Spec => DenialJustified
<1> DEFINE Just(w) ==
      LET r == req[w].cert IN
      pc[w] = "evaluate" /\ pc'[w] = "idle" /\ asked' = asked /\ Permitted(r) =>
          \/ Cardinality(Held(Counted, r.agent)) >= policy.limit[r.agent]
          \/ Cardinality(Counted \ {engine.sigs[SigOf(r)]}) >= policy.maxActive
<1>1. ASSUME IInv, [Next]_vars, NEW w \in Workers PROVE Just(w)
  <2> DEFINE r == req[w].cert
  <2> SUFFICES ASSUME pc[w] = "evaluate", pc'[w] = "idle", asked' = asked, Permitted(r)
               PROVE  \/ Cardinality(Held(Counted, r.agent)) >= policy.limit[r.agent]
                      \/ Cardinality(Counted \ {engine.sigs[SigOf(r)]}) >= policy.maxActive
    OBVIOUS
  <2>0. /\ pc \in [Workers -> PCs] /\ r \in Requests /\ r.agent \in Agents /\ SigOf(r) \in Sigs
        /\ asked \in 0..MaxPending
    BY <1>1 DEF IInv, TypeOK, TablesOK, LocalsOK, Requests, SigOf, Sigs
  <2>1. EvaluateDeny(w)
    <3>1. \A v \in Workers : v # w /\ (Step(v) \/ Call(v)) => pc'[w] = pc[w]
      BY <2>0, MovesOne
    <3>2. Step(w) \/ Call(w)
      BY <1>1, <3>1 DEF Next, vars, handleCreateSession, handleAdminToggleHost, ReloadPolicy,
             CleanExpired, Tick
    <3>3. EvaluateDeny(w) \/ EvaluatePending(w) \/ EvaluateApprove(w)
      BY <3>2 DEF Step, Call, SignCert, SignFails, SignLost, AddCert, TrackCert, RemovePending, RemoveCert,
             UntrackCert, ListHostCerts, handleRequest, handleApprove, handleDeny,
             handleRevokeCert, handleDashboardToggleHost
    <3> QED
      BY <2>0, <3>3 DEF EvaluatePending, EvaluateApprove, Goto
  <2>2. Swept.counts[r.agent] = Cardinality(Held(Counted, r.agent))
    BY <1>1, <2>0, EvaluateEffect DEF Consistent
  <2>3. CASE AtAgentLimit(r)
    BY <2>2, <2>3 DEF AtAgentLimit
  <2>4. CASE AtGlobalLimit(r)
    <3>1. Deduplicated(r).tracked = Counted \ {Swept.sigs[SigOf(r)]}
      BY <1>1, <2>0, EvaluateEffect
    <3>2. 0 \notin Counted
      BY <1>1 DEF Counted, IInv, TypeOK, TablesOK
    <3>3. \/ Swept.sigs[SigOf(r)] = engine.sigs[SigOf(r)]
          \/ Swept.sigs[SigOf(r)] = 0 /\ engine.sigs[SigOf(r)] \notin Counted
      BY <2>0 DEF Swept, removeCertLocked, Counted
    <3>4. Counted \ {Swept.sigs[SigOf(r)]} = Counted \ {engine.sigs[SigOf(r)]}
      BY <3>2, <3>3
    <3> QED
      BY <2>4, <3>1, <3>4 DEF AtGlobalLimit
  <2> QED
    BY <2>1, <2>3, <2>4 DEF EvaluateDeny
<1>2. IInv /\ [Next]_vars => [\A w \in Workers : Just(w)]_vars
  BY <1>1
<1> QED
  BY <1>2, InitInv, NextInv, PTL DEF Spec, DenialJustified
=============================================================================
