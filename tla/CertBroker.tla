----------------------------- MODULE CertBroker -----------------------------
(***************************************************************************)
(* SSH certificates: the request pipeline of the Unix-socket API, manual   *)
(* approval, revocation, host toggles and policy reload.                   *)
(*                                                                         *)
(* The same certificate is recorded twice, in CertState (what the broker   *)
(* lists and revokes) and in the policy engine (what it counts against the *)
(* limits), under different locks, and both after the signer has signed    *)
(* it.  A worker is one handler goroutine; an action is one critical       *)
(* section of its handler.                                                 *)
(***************************************************************************)
EXTENDS Integers, Sequences, FiniteSets

CONSTANTS Agents,      \* agent UIDs
          Targets, Roles,
          Policies,    \* resolved policies a reload may find on disk
          Durations,   \* requested durations; 0 and less mean the default
          Workers,     \* handler goroutines
          Toggled,     \* bound: the hosts that are ever toggled
          MaxSignTTL,  \* the signer's 24h cap
          Grace,       \* CertState keeps a certificate this long after expiry
          MaxTime,     \* bound on the clock
          MaxCerts,    \* bound on certificates signed
          MaxPending,  \* bound on requests queued for approval
          None

\* Signatures that identify duplicates: certSig.
Sigs == Agents \X Targets \X Roles

ASSUME PolicyAssumption ==
    \A p \in Policies :
        /\ DOMAIN p.limit \subseteq Agents        \* max_concurrent_certs
        /\ \A a \in DOMAIN p.limit : p.limit[a] \in Int
        /\ DOMAIN p.roles \subseteq Targets       \* allowed_roles
        /\ \A t \in DOMAIN p.roles : p.maxTTL[t] \in Int
        /\ p.auto \subseteq Targets               \* auto_approve
        /\ p.maxActive \in Int
        /\ p.globalMax \in Int /\ p.default \in Int

ASSUME BoundAssumption ==
    /\ Durations \subseteq Int /\ Toggled \subseteq Targets /\ IsFiniteSet(Workers)
    /\ MaxSignTTL \in Nat /\ Grace \in Nat /\ MaxTime \in Nat
    /\ MaxCerts \in Nat /\ MaxPending \in Nat

VARIABLES now,
          policy,    \* policyCfg
          engine,    \* policyEngine: the certificates it counts
          sessions,  \* SessionManager: agents with a session token
          disabled,  \* HostController: hosts toggled off
          signed,    \* the signer's certificates; a serial is an index
          lost,      \* history: those of which the broker never heard
          certs,     \* CertState.certs: serials
          pending,   \* CertState.pending: request id -> request
          asked,     \* request ids drawn so far
          pc, req    \* per worker: where its handler is, and its locals

vars == <<now, policy, engine, sessions, disabled, signed, lost,
          certs, pending, asked, pc, req>>

Serials == 1..MaxCerts
RequestIds == 1..MaxPending

\* 0 stands for an absent serial or request id.  under is history: the policy
\* the request was evaluated with.
Requests == [agent : Agents, target : Targets, role : Roles, ttl : Int,
             under : Policies, request : RequestIds \cup {0}]

Certificates == [agent : Agents, target : Targets, role : Roles, ttl : Int,
                 under : Policies, request : RequestIds \cup {0}, expires : Int]

PCs == {"idle", "evaluate", "sign", "add", "track", "unpend", "list", "uncert", "untrack"}

\* The locals of a handler: one that issues works on cert, one that revokes on
\* the serials left in todo.
Locals == [cert : Requests \cup {None}, serial : Serials \cup {0},
           todo : SUBSET Serials, host : Targets \cup {None}]

NoLocals == [cert |-> None, serial |-> 0, todo |-> {}, host |-> None]

NewEngine == [tracked |-> {}, counts |-> [a \in Agents |-> 0], sigs |-> [x \in Sigs |-> 0]]

Init ==
    /\ now = 0
    /\ policy \in Policies
    /\ engine = NewEngine
    /\ sessions = {} /\ disabled = {}
    /\ signed = <<>> /\ lost = {}
    /\ certs = {}
    /\ pending = <<>> /\ asked = 0
    /\ pc = [w \in Workers |-> "idle"]
    /\ req = [w \in Workers |-> NoLocals]

Goto(w, next, l) == /\ pc' = [pc EXCEPT ![w] = next]
                    /\ req' = [req EXCEPT ![w] = l]

Reply(w) == Goto(w, "idle", NoLocals)

-----------------------------------------------------------------------------
(* The policy engine. *)

SigOf(c) == <<c.agent, c.target, c.role>>

\* Of the serials S, those of agent a.
Held(S, a) == {s \in S : signed[s].agent = a}

Expired(s) == signed[s].expires < now

\* Mutant of removeCertLocked: the count keeps the removed certificates.
RemoveUncounted(e, S) ==
    [e EXCEPT !.tracked = @ \ S,
              !.sigs = [x \in Sigs |-> IF @[x] \in S THEN 0 ELSE @[x]]]

\* removeCertLocked for each serial of S that is tracked.
removeCertLocked(e, S) ==
    LET gone == S \cap e.tracked
        Left(a) == e.counts[a] - Cardinality(Held(gone, a))
    IN [tracked |-> e.tracked \ gone,
        counts  |-> [a \in Agents |-> IF Left(a) > 0 THEN Left(a) ELSE 0],
        sigs    |-> [x \in Sigs |-> IF e.sigs[x] \in gone /\ SigOf(signed[e.sigs[x]]) = x
                                    THEN 0 ELSE e.sigs[x]]]

\* Mutant of Swept: expired certificates keep their slots.
NotSwept == engine

\* CleanExpired, which Evaluate runs first.
Swept == removeCertLocked(engine, {s \in engine.tracked : Expired(s)})

\* The engine once the certificate that r would duplicate is out.
Deduplicated(r) == removeCertLocked(Swept, {Swept.sigs[SigOf(r)]})

Permitted(r) == /\ r.agent \in DOMAIN policy.limit
                /\ r.target \in DOMAIN policy.roles
                /\ r.role \in policy.roles[r.target]

\* Mutant of AtAgentLimit: off by one.
OverAgentLimit(r) == Swept.counts[r.agent] > policy.limit[r.agent]

AtAgentLimit(r) == Swept.counts[r.agent] >= policy.limit[r.agent]

AtGlobalLimit(r) == Cardinality(Deduplicated(r).tracked) >= policy.maxActive

Least(x, y) == IF x < y THEN x ELSE y

\* Mutant of ClampedDuration: the default is not clamped to the target.
ClampedRequest(r) ==
    IF r.ttl <= 0 THEN policy.default
    ELSE Least(r.ttl, Least(policy.maxTTL[r.target], policy.globalMax))

ClampedDuration(r) ==
    Least(IF r.ttl <= 0 THEN policy.default ELSE r.ttl,
          Least(policy.maxTTL[r.target], policy.globalMax))

-----------------------------------------------------------------------------
(* Requesting a certificate. *)

handleCreateSession(a) ==
    /\ a \in DOMAIN policy.limit
    /\ sessions' = sessions \cup {a}
    /\ UNCHANGED <<now, policy, engine, disabled, signed, lost, certs, pending, asked, pc, req>>

\* Bound: a request that evaluation may queue has a request id left for it.
MayQueue(t) == \/ \A p \in Policies : t \in p.auto
               \/ asked + Cardinality({v \in Workers : pc[v] = "evaluate"}) < MaxPending

\* The checks before Evaluate.  A refused request changes nothing.
handleRequest(w, a, t, r, d) ==
    /\ pc[w] = "idle"
    /\ a \in sessions
    /\ t \notin disabled
    /\ MayQueue(t)
    /\ Goto(w, "evaluate",
            [NoLocals EXCEPT !.cert = [agent |-> a, target |-> t, role |-> r, ttl |-> d,
                                       under |-> policy, request |-> 0]])
    /\ UNCHANGED <<now, policy, engine, sessions, disabled, signed, lost, certs, pending, asked>>

\* Engine.Evaluate has two critical sections, CleanExpired and the limits; what
\* comes between them could as well have come before, so they are one action.
EvaluateDeny(w) ==
    LET r == req[w].cert IN
    /\ pc[w] = "evaluate"
    /\ IF ~Permitted(r) \/ AtAgentLimit(r)
       THEN engine' = Swept
       ELSE AtGlobalLimit(r) /\ engine' = Deduplicated(r)
    /\ Reply(w)
    /\ UNCHANGED <<now, policy, sessions, disabled, signed, lost, certs, pending, asked>>

\* The request passes, and goes on with the duration that policy grants it.
Passes(r) == Permitted(r) /\ ~AtAgentLimit(r) /\ ~AtGlobalLimit(r)

Granted(r) == [r EXCEPT !.ttl = ClampedDuration(r), !.under = policy]

\* Evaluate and AddPending.
EvaluatePending(w) ==
    LET r == req[w].cert IN
    /\ pc[w] = "evaluate"
    /\ Passes(r)
    /\ r.target \notin policy.auto
    /\ asked < MaxPending
    /\ asked' = asked + 1
    /\ pending' = [id \in DOMAIN pending \cup {asked'} |->
                      IF id = asked' THEN [Granted(r) EXCEPT !.request = asked'] ELSE pending[id]]
    /\ engine' = Deduplicated(r)
    /\ Reply(w)
    /\ UNCHANGED <<now, policy, sessions, disabled, signed, lost, certs>>

EvaluateApprove(w) ==
    LET r == req[w].cert IN
    /\ pc[w] = "evaluate"
    /\ Passes(r)
    /\ r.target \in policy.auto
    /\ engine' = Deduplicated(r)
    /\ Goto(w, "sign", [req[w] EXCEPT !.cert = Granted(r)])
    /\ UNCHANGED <<now, policy, sessions, disabled, signed, lost, certs, pending, asked>>

-----------------------------------------------------------------------------
(* Issuing: shared by handleRequest and handleApprove. *)

\* The signer draws a serial and signs, before it answers.
Sign(r) ==
    /\ r.ttl \in 1..MaxSignTTL
    /\ Len(signed) < MaxCerts
    /\ now + r.ttl + Grace < MaxTime   \* bound: every certificate expires in time
    /\ signed' = Append(signed, [agent |-> r.agent, target |-> r.target, role |-> r.role,
                                 ttl |-> r.ttl, under |-> r.under, request |-> r.request,
                                 expires |-> now + r.ttl])

\* issueCert, answered by the signer.
SignCert(w) ==
    /\ pc[w] = "sign"
    /\ Sign(req[w].cert)
    /\ Goto(w, "add", [req[w] EXCEPT !.serial = Len(signed) + 1])
    /\ UNCHANGED <<now, policy, engine, sessions, disabled, lost, certs, pending, asked>>

\* Nothing is signed: no public key, no signer, or a duration that it refuses.  A
\* pending request stays pending.
SignFails(w) ==
    /\ pc[w] = "sign"
    /\ Reply(w)
    /\ UNCHANGED <<now, policy, engine, sessions, disabled, signed, lost, certs, pending, asked>>

\* The signer signs, but its answer is lost or comes after the client's deadline: the
\* same error for the handler, and a pending request stays pending.  A signer slower
\* than the deadline signs a little later than here, which nothing in the broker sees.
SignLost(w) ==
    /\ pc[w] = "sign"
    /\ Sign(req[w].cert)
    /\ lost' = lost \cup {Len(signed) + 1}
    /\ Reply(w)
    /\ UNCHANGED <<now, policy, engine, sessions, disabled, certs, pending, asked>>

AddCert(w) ==
    /\ pc[w] = "add"
    /\ certs' = certs \cup {req[w].serial}
    /\ Goto(w, "track", req[w])
    /\ UNCHANGED <<now, policy, engine, sessions, disabled, signed, lost, pending, asked>>

TrackCert(w) ==
    LET s == req[w].serial
        r == req[w].cert
    IN
    /\ pc[w] = "track"
    /\ engine' = [tracked |-> engine.tracked \cup {s},
                  counts  |-> [engine.counts EXCEPT ![r.agent] = @ + 1],
                  sigs    |-> [engine.sigs EXCEPT ![SigOf(r)] = s]]
    /\ IF r.request = 0 THEN Reply(w) ELSE Goto(w, "unpend", req[w])
    /\ UNCHANGED <<now, policy, sessions, disabled, signed, lost, certs, pending, asked>>

-----------------------------------------------------------------------------
(* Approval by an admin. *)

handleApprove(w, id) ==
    /\ pc[w] = "idle"
    /\ Goto(w, "sign", [NoLocals EXCEPT !.cert = pending[id]])
    /\ UNCHANGED <<now, policy, engine, sessions, disabled, signed, lost, certs, pending, asked>>

handleDeny(w, id) ==
    /\ pc[w] = "idle"
    /\ Goto(w, "unpend", [NoLocals EXCEPT !.cert = pending[id]])
    /\ UNCHANGED <<now, policy, engine, sessions, disabled, signed, lost, certs, pending, asked>>

\* Mutant of RemovePending: the request stays in the queue.
LeavePending(w) ==
    /\ pc[w] = "unpend"
    /\ Reply(w)
    /\ UNCHANGED <<now, policy, engine, sessions, disabled, signed, lost, certs, pending, asked>>

\* RemovePending, the last step of both.
RemovePending(w) ==
    /\ pc[w] = "unpend"
    /\ pending' = [id \in DOMAIN pending \ {req[w].cert.request} |-> pending[id]]
    /\ Reply(w)
    /\ UNCHANGED <<now, policy, engine, sessions, disabled, signed, lost, certs, asked>>

-----------------------------------------------------------------------------
(* Revocation, by owner, admin or dashboard, and host toggles. *)

handleRevokeCert(w, s) ==
    /\ pc[w] = "idle"
    /\ Goto(w, "uncert", [NoLocals EXCEPT !.todo = {s}])
    /\ UNCHANGED <<now, policy, engine, sessions, disabled, signed, lost, certs, pending, asked>>

\* One round of the loop, CertState first, then the engine.
RemoveCert(w, s) ==
    /\ pc[w] = "uncert"
    /\ certs' = certs \ {s}
    /\ Goto(w, "untrack", [req[w] EXCEPT !.serial = s, !.todo = @ \ {s}])
    /\ UNCHANGED <<now, policy, engine, sessions, disabled, signed, lost, pending, asked>>

UntrackCert(w) ==
    /\ pc[w] = "untrack"
    /\ engine' = removeCertLocked(engine, {req[w].serial})
    /\ IF req[w].todo = {} THEN Reply(w) ELSE Goto(w, "uncert", req[w])
    /\ UNCHANGED <<now, policy, sessions, disabled, signed, lost, certs, pending, asked>>

\* HostController.Toggle.
Toggle(t) == disabled' = (disabled \ {t}) \cup ({t} \ disabled)

handleAdminToggleHost(t) ==
    /\ t \in DOMAIN policy.roles
    /\ Toggle(t)
    /\ UNCHANGED <<now, policy, engine, sessions, signed, lost, certs, pending, asked, pc, req>>

handleDashboardToggleHost(w, t) ==
    /\ pc[w] = "idle"
    /\ t \in DOMAIN policy.roles
    /\ Toggle(t)
    /\ IF t \in disabled THEN Reply(w) ELSE Goto(w, "list", [NoLocals EXCEPT !.host = t])
    /\ UNCHANGED <<now, policy, engine, sessions, signed, lost, certs, pending, asked>>

\* ListAllCerts: what the loop of the dashboard's toggle then revokes.
ListHostCerts(w) ==
    LET found == {s \in certs : signed[s].target = req[w].host} IN
    /\ pc[w] = "list"
    /\ IF found = {} THEN Reply(w) ELSE Goto(w, "uncert", [req[w] EXCEPT !.todo = found])
    /\ UNCHANGED <<now, policy, engine, sessions, disabled, signed, lost, certs, pending, asked>>

-----------------------------------------------------------------------------
(* Background. *)

\* SIGHUP: the engine that counted the certificates is replaced as well.
ReloadPolicy(p) ==
    /\ policy' = p
    /\ engine' = NewEngine
    /\ UNCHANGED <<now, sessions, disabled, signed, lost, certs, pending, asked, pc, req>>

\* Mutant of CleanExpired: the comparison is the wrong way round.
CleanUnexpired ==
    /\ certs' = {s \in certs : signed[s].expires + Grace <= now}
    /\ UNCHANGED <<now, policy, engine, sessions, disabled, signed, lost, pending, asked, pc, req>>

\* CertState.CleanExpired, every minute.
CleanExpired ==
    /\ certs' = {s \in certs : signed[s].expires + Grace >= now}
    /\ UNCHANGED <<now, policy, engine, sessions, disabled, signed, lost, pending, asked, pc, req>>

Tick ==
    /\ now < MaxTime
    /\ now' = now + 1
    /\ UNCHANGED <<policy, engine, sessions, disabled, signed, lost, certs, pending, asked, pc, req>>

\* The steps a handler takes without a new call.
Step(w) ==
    \/ EvaluateDeny(w)
    \/ EvaluatePending(w)
    \/ EvaluateApprove(w)
    \/ SignCert(w)
    \/ SignFails(w)
    \/ SignLost(w)
    \/ AddCert(w)
    \/ TrackCert(w)
    \/ RemovePending(w)
    \/ \E s \in req[w].todo : RemoveCert(w, s)
    \/ UntrackCert(w)
    \/ ListHostCerts(w)

Call(w) ==
    \/ \E a \in Agents, t \in Targets, r \in Roles, d \in Durations : handleRequest(w, a, t, r, d)
    \/ \E id \in DOMAIN pending : handleApprove(w, id)
    \/ \E id \in DOMAIN pending : handleDeny(w, id)
    \/ \E s \in certs : handleRevokeCert(w, s)
    \/ \E t \in Toggled : handleDashboardToggleHost(w, t)

Next ==
    \/ \E w \in Workers : Step(w) \/ Call(w)
    \/ \E a \in Agents : handleCreateSession(a)
    \/ \E t \in Toggled : handleAdminToggleHost(t)
    \/ \E p \in Policies : ReloadPolicy(p)
    \/ CleanExpired
    \/ Tick

Spec == Init /\ [][Next]_vars

\* A goroutine that can go on does, the ticker of CertState fires again and
\* again, and time passes.
FairSpec == /\ Spec
            /\ \A w \in Workers : WF_vars(Step(w))
            /\ WF_vars(CleanExpired)
            /\ WF_vars(Tick)

-----------------------------------------------------------------------------
(* Properties. *)

Engines == [tracked : SUBSET Serials, counts : [Agents -> Nat], sigs : [Sigs -> Serials \cup {0}]]

\* Which locals a handler has at which step.
LocalsOK(w) ==
    /\ pc[w] \in {"evaluate", "sign", "add", "track", "unpend"} => req[w].cert \in Requests
    /\ pc[w] \in {"add", "track", "untrack"} => req[w].serial \in 1..Len(signed)
    /\ pc[w] = "list" => req[w].host \in Targets
    /\ req[w].todo \subseteq 1..Len(signed)

TablesOK ==
    /\ now \in Nat
    /\ policy \in Policies
    /\ engine \in Engines /\ engine.tracked \subseteq 1..Len(signed)
    /\ sessions \subseteq Agents /\ disabled \subseteq Targets
    /\ signed \in Seq(Certificates) /\ Len(signed) <= MaxCerts
    /\ certs \cup lost \subseteq 1..Len(signed)
    /\ asked \in 0..MaxPending
    /\ DOMAIN pending \subseteq 1..asked
    /\ \A id \in DOMAIN pending : pending[id] \in Requests

\* Types: every serial in a table was signed, every handler has its locals.
TypeOK ==
    /\ TablesOK
    /\ pc \in [Workers -> PCs]
    /\ req \in [Workers -> Locals]
    /\ \A w \in Workers : LocalsOK(w)

\* An agent's count is the number of tracked certificates it holds, and a
\* signature names a tracked certificate that has it.
Consistent(e) ==
    /\ \A a \in Agents : e.counts[a] = Cardinality(Held(e.tracked, a))
    /\ \A x \in Sigs : e.sigs[x] # 0 =>
          e.sigs[x] \in e.tracked /\ SigOf(signed[e.sigs[x]]) = x

\* The engine's three tables agree.  Counts are decremented with a floor and
\* signatures overwritten, so the code would not notice a lost or doubled step.
CountsMatch == Consistent(engine)

\* Workers that issue a certificate to a that no admin approved.
Issuing(a) == {w \in Workers : /\ pc[w] \in {"sign", "add", "track"}
                               /\ req[w].cert.request = 0
                               /\ req[w].cert.agent = a}

AutoHeld(a) == {s \in engine.tracked : signed[s].agent = a /\ signed[s].request = 0}

\* Concurrent requests may all pass the limit before any is tracked, but never by
\* more than there are handlers: without approvals an agent holds or is about to
\* get at most limit - 1 + |Workers| certificates, for the limit of some policy.
OverrunBounded ==
    \A a \in Agents :
        \/ AutoHeld(a) = {} /\ Issuing(a) = {}
        \/ \E p \in Policies :
              /\ a \in DOMAIN p.limit
              /\ Cardinality(AutoHeld(a)) + Cardinality(Issuing(a))
                     <= p.limit[a] - 1 + Cardinality(Workers)

\* Unexpired certificates the engine counts.
Counted == {s \in engine.tracked : ~Expired(s)}

\* A request that policy permits is refused only because unexpired certificates
\* fill the agent's slots or, the one to be replaced aside, the global ones: stale
\* entries never deny anyone.
DenialJustified ==
    [][\A w \in Workers :
          LET r == req[w].cert IN
          pc[w] = "evaluate" /\ pc'[w] = "idle" /\ asked' = asked /\ Permitted(r) =>
              \/ Cardinality(Held(Counted, r.agent)) >= policy.limit[r.agent]
              \/ Cardinality(Counted \ {engine.sigs[SigOf(r)]}) >= policy.maxActive]_vars

\* What c.under, the policy c was evaluated with, lets c be.
AsEvaluated(c) ==
    /\ c.agent \in DOMAIN c.under.limit
    /\ c.target \in DOMAIN c.under.roles /\ c.role \in c.under.roles[c.target]
    /\ c.ttl <= c.under.maxTTL[c.target] /\ c.ttl <= c.under.globalMax
    /\ c.request = 0 => c.target \in c.under.auto

\* Whatever was reloaded between evaluation, approval and signing, a certificate
\* has a role, and no more lifetime, than the policy it was evaluated with allows,
\* and is one that policy approves by itself or that an admin approved.
IssuedAsEvaluated == \A s \in 1..Len(signed) : AsEvaluated(signed[s])

\* The certificates that a queued request has brought somebody, and the handlers that
\* approved it and have yet to hear from the signer.
HandedOut(id) == {s \in 1..Len(signed) \ lost : signed[s].request = id}
Approving(id) == {w \in Workers : pc[w] = "sign" /\ req[w].cert.request = id}

\* A request leaves the queue only after signing, so admins that race can approve it
\* more than once, and can approve what another one denies.  But it never brings anybody
\* more certificates than there are handlers: who approves it again has done so before
\* the first of them has removed it.  Those whose answer was lost come on top, one for
\* every retry: the signer made them, the request is still queued, nobody has them
\* (issueCert, handleApprove, Client.do).
ApprovalsBounded ==
    \A id \in RequestIds :
        Cardinality(HandedOut(id)) + Cardinality(Approving(id)) <= Cardinality(Workers)

\* A listed certificate leaves the list, revoked or a grace period after its expiry.
ExpiredCertsLeave == \A s \in Serials : s \in certs ~> s \notin certs

=============================================================================
