------------------------------ MODULE ExecPool ------------------------------
(***************************************************************************)
(* The SSH tools of the MCP server: exec, session_create, session_close    *)
(* and the pool of persistent sessions with its idle sweep.                *)
(*                                                                         *)
(* A session is reachable through the pool (under the pool's lock), holds  *)
(* an SSH client (under its own lock) and has a certificate in CertState   *)
(* (under a third); a handler touches these one after the other, and the   *)
(* command itself runs under no lock.  A connection, its session and its   *)
(* certificate share one number.                                           *)
(***************************************************************************)
EXTENDS Integers, Sequences, FiniteSets

CONSTANTS Agents, Targets, Roles, Commands,
          Access,       \* <<agent, target, role>> that an agent's permissions allow
          Policies,     \* what a reload may find on disk
          Envelopes,    \* <<target, role>> that a token's envelope permits
          Workers,      \* handler goroutines
          Cleaner,      \* the goroutine of cleanup
          Toggled,      \* bound: the hosts an admin ever toggles
          MaySilence,   \* bound: the hosts that ever fall silent
          MaxPerAgent,  \* maxPerAgent
          MaxIdle,      \* maxIdleDuration
          MaxTime,      \* bound on the clock
          MaxConns,     \* bound on connections
          None

ASSUME PolicyAssumption ==
    \A p \in Policies : /\ DOMAIN p.roles \subseteq Targets      \* allowed_roles
                        /\ p.deny \subseteq Targets \X Commands  \* what the filters refuse
                        /\ p.auto \subseteq Targets              \* auto_revoke_on_deny

ASSUME BoundAssumption ==
    /\ IsFiniteSet(Workers) /\ Cleaner \notin Workers
    /\ Toggled \subseteq Targets /\ MaySilence \subseteq Targets
    /\ MaxPerAgent \in Nat \ {0} /\ MaxIdle \in Nat /\ MaxTime \in Nat /\ MaxConns \in Nat

Procs == Workers \cup {Cleaner}

VARIABLES now,
          policy,    \* policyCfg
          disabled,  \* HostController: hosts that are off
          silent,    \* hosts that accept connections and then send nothing
          conns,     \* connections, with the ExecSession they belong to, if any
          pool,      \* ExecSessionPool.sessions: connection numbers
          certs,     \* CertState.certs: connection numbers
          pc, req    \* per process: where it is, and its locals

vars == <<now, policy, disabled, silent, conns, pool, certs, pc, req>>

\* open: the SSH connection is up.  client: SSHClient is not nil.
Connections == [agent : Agents, target : Targets, role : Roles,
                open : BOOLEAN, client : BOOLEAN, lastUsed : Nat]

Numbers == 1..MaxConns

\* "count" to "insert": CreateSession, of which ExecOneShot has "dial" to "add".
\* "lookup" to "touch": ExecInSession, which shares "start" and "running" with
\* ExecOneShot.  "next" to "uncert": closing.
PCs == {"idle", "suspend", "count", "dial", "handshake", "add", "insert", "lookup", "take",
        "start", "running", "touch", "next", "nil", "close", "uncert"}

Kinds == {"create", "oneshot", "session", "close"}

\* The locals of a handler.  env is the caller's envelope, conn is 0 until it
\* dialled, todo is what is yet to be closed.
Locals == [kind : Kinds, agent : Agents \cup {None}, target : Targets \cup {None},
           role : Roles \cup {None}, env : Envelopes \cup {{}}, conn : Numbers \cup {0},
           todo : SUBSET Numbers]

NoLocals == [kind |-> "close", agent |-> None, target |-> None, role |-> None,
             env |-> {}, conn |-> 0, todo |-> {}]

Init ==
    /\ now = 0
    /\ policy \in Policies
    /\ disabled = {} /\ silent = {}
    /\ conns = <<>> /\ pool = {} /\ certs = {}
    /\ pc = [w \in Procs |-> "idle"]
    /\ req = [w \in Procs |-> NoLocals]

Goto(w, next, l) == /\ pc' = [pc EXCEPT ![w] = next]
                    /\ req' = [req EXCEPT ![w] = l]

Reply(w) == Goto(w, "idle", NoLocals)

\* The end of CloseSession: cleanup goes on with the next session.
Closed(w) == IF req[w].todo = {} THEN Reply(w) ELSE Goto(w, "next", req[w])

-----------------------------------------------------------------------------
(* Calls.  The checks of a call change nothing when they fail.               *)

\* Known target, the agent's permissions and roles, the target's allowed roles.
Permitted(a, t, r) == /\ t \in DOMAIN policy.roles
                      /\ <<a, t, r>> \in Access
                      /\ r \in policy.roles[t]

\* CheckCommand, for the target the call names.
Denied(t, c) == <<t, c>> \in policy.deny

\* The locals of a call that an agent makes under envelope e.
CallOf(kind, a, t, r, e) ==
    [NoLocals EXCEPT !.kind = kind, !.agent = a, !.target = t, !.role = r, !.env = e]

\* s is 0 for a one-shot command.
toolExec(w, a, t, r, e, c, s) ==
    /\ pc[w] = "idle"
    /\ Permitted(a, t, r) /\ t \notin disabled /\ <<t, r>> \in e
    /\ IF Denied(t, c) THEN t \in policy.auto /\ Goto(w, "suspend", CallOf("oneshot", a, t, r, e))
       ELSE IF s = 0 THEN Goto(w, "dial", CallOf("oneshot", a, t, r, e))
       ELSE Goto(w, "lookup", [CallOf("session", a, t, r, e) EXCEPT !.conn = s])
    /\ UNCHANGED <<now, policy, disabled, silent, conns, pool, certs>>

\* auto_revoke_on_deny: the command was refused, and the host is switched off.
AutoRevoke(w) ==
    /\ pc[w] = "suspend"
    /\ disabled' = disabled \cup {req[w].target}
    /\ Reply(w)
    /\ UNCHANGED <<now, policy, silent, conns, pool, certs>>

\* The envelope e of the caller's token is not looked at.
toolSessionCreate(w, a, t, r, e) ==
    /\ pc[w] = "idle"
    /\ Permitted(a, t, r) /\ t \notin disabled
    /\ Goto(w, "count", CallOf("create", a, t, r, e))
    /\ UNCHANGED <<now, policy, disabled, silent, conns, pool, certs>>

toolSessionClose(w, a, s) ==
    /\ pc[w] = "idle"
    /\ Goto(w, "next", [NoLocals EXCEPT !.agent = a, !.todo = {s}])
    /\ UNCHANGED <<now, policy, disabled, silent, conns, pool, certs>>

-----------------------------------------------------------------------------
(* CreateSession and ExecOneShot. *)

Held(a) == {s \in pool : conns[s].agent = a}

\* Mutant of AtLimit: off by one.
OverLimit(a) == Cardinality(Held(a)) > MaxPerAgent

AtLimit(a) == Cardinality(Held(a)) >= MaxPerAgent

CountSessions(w) ==
    /\ pc[w] = "count"
    /\ IF AtLimit(req[w].agent) THEN Reply(w) ELSE Goto(w, "dial", req[w])
    /\ UNCHANGED <<now, policy, disabled, silent, conns, pool, certs>>

\* The target or role is gone from the policy, the signer refuses or is away, or the
\* host does not take the connection: ClientConfig.Timeout bounds the TCP connect.
signFails(w) ==
    /\ pc[w] = "dial"
    /\ Reply(w)
    /\ UNCHANGED <<now, policy, disabled, silent, conns, pool, certs>>

\* signAndConnect up to the TCP connection.  The target is looked up once, at the start.
dialTarget(w) ==
    /\ pc[w] = "dial"
    /\ req[w].target \in DOMAIN policy.roles
    /\ Goto(w, "handshake", req[w])
    /\ UNCHANGED <<now, policy, disabled, silent, conns, pool, certs>>

\* The SSH handshake, which no timeout bounds: it fails (the host key is not the pinned
\* one, the host refuses the certificate) or ends when the host speaks.
handshakeFails(w) ==
    /\ pc[w] = "handshake"
    /\ req[w].target \notin silent
    /\ Reply(w)
    /\ UNCHANGED <<now, policy, disabled, silent, conns, pool, certs>>

signAndConnect(w) ==
    LET r == req[w] IN
    /\ pc[w] = "handshake"
    /\ r.target \notin silent
    /\ Len(conns) < MaxConns
    /\ conns' = Append(conns, [agent |-> r.agent, target |-> r.target, role |-> r.role,
                               open |-> TRUE, client |-> TRUE, lastUsed |-> now])
    /\ Goto(w, "add", [r EXCEPT !.conn = Len(conns) + 1])
    /\ UNCHANGED <<now, policy, disabled, silent, pool, certs>>

AddCert(w) ==
    /\ pc[w] = "add"
    /\ certs' = certs \cup {req[w].conn}
    /\ Goto(w, IF req[w].kind = "oneshot" THEN "start" ELSE "insert", req[w])
    /\ UNCHANGED <<now, policy, disabled, silent, conns, pool>>

InsertSession(w) ==
    /\ pc[w] = "insert"
    /\ pool' = pool \cup {req[w].conn}
    /\ conns' = [conns EXCEPT ![req[w].conn].lastUsed = now]
    /\ Reply(w)
    /\ UNCHANGED <<now, policy, disabled, silent, certs>>

\* Mutant of sessionIDFails: the error path returns without releasing anything.
SessionIDLeaks(w) ==
    /\ pc[w] = "insert"
    /\ Reply(w)
    /\ UNCHANGED <<now, policy, disabled, silent, conns, pool, certs>>

\* No random session id: the client is closed and the certificate removed.
sessionIDFails(w) ==
    /\ pc[w] = "insert"
    /\ Goto(w, "close", req[w])
    /\ UNCHANGED <<now, policy, disabled, silent, conns, pool, certs>>

-----------------------------------------------------------------------------
(* ExecInSession and execCommand. *)

\* Mutant of FindSession: anybody's session will do.
FindAnySession(w) ==
    /\ pc[w] = "lookup"
    /\ IF req[w].conn \in pool THEN Goto(w, "take", req[w]) ELSE Reply(w)
    /\ UNCHANGED <<now, policy, disabled, silent, conns, pool, certs>>

\* The session is in the pool and the caller's own.
FindSession(w) ==
    LET s == req[w].conn IN
    /\ pc[w] = "lookup"
    /\ IF s \in pool /\ conns[s].agent = req[w].agent THEN Goto(w, "take", req[w]) ELSE Reply(w)
    /\ UNCHANGED <<now, policy, disabled, silent, conns, pool, certs>>

TakeClient(w) ==
    /\ pc[w] = "take"
    /\ IF conns[req[w].conn].client THEN Goto(w, "start", req[w]) ELSE Reply(w)
    /\ UNCHANGED <<now, policy, disabled, silent, conns, pool, certs>>

\* Where execCommand returns to.
Executed(w) == Goto(w, IF req[w].kind = "oneshot" THEN "uncert" ELSE "touch", req[w])

\* client.NewSession waits for the host without a timeout, the command's starts later,
\* and fails on a closed connection.
StartCommand(w) ==
    LET c == conns[req[w].conn] IN
    /\ pc[w] = "start"
    /\ c.open => c.target \notin silent
    /\ IF c.open THEN Goto(w, "running", req[w]) ELSE Executed(w)
    /\ UNCHANGED <<now, policy, disabled, silent, conns, pool, certs>>

\* The command exits, loses its connection, or times out.
EndCommand(w) ==
    /\ pc[w] = "running"
    /\ Executed(w)
    /\ UNCHANGED <<now, policy, disabled, silent, conns, pool, certs>>

\* Mutant of TouchSession: the session is written back to the pool.
TouchRestores(w) ==
    /\ pc[w] = "touch"
    /\ conns' = [conns EXCEPT ![req[w].conn].lastUsed = now]
    /\ pool' = pool \cup {req[w].conn}
    /\ Reply(w)
    /\ UNCHANGED <<now, policy, disabled, silent, certs>>

\* LastUsed, whatever the outcome and even when the session is closed by now.
TouchSession(w) ==
    /\ pc[w] = "touch"
    /\ conns' = [conns EXCEPT ![req[w].conn].lastUsed = now]
    /\ Reply(w)
    /\ UNCHANGED <<now, policy, disabled, silent, pool, certs>>

-----------------------------------------------------------------------------
(* CloseSession and cleanup. *)

\* Mutant of FindIdle: the comparison is the wrong way round.
FindUsed ==
    LET used == {s \in pool : now - conns[s].lastUsed < MaxIdle} IN
    /\ pc[Cleaner] = "idle" /\ used # {}
    /\ Goto(Cleaner, "next", [NoLocals EXCEPT !.todo = used])
    /\ UNCHANGED <<now, policy, disabled, silent, conns, pool, certs>>

\* cleanup's look at the pool; a minute passes between two.
FindIdle ==
    LET idle == {s \in pool : now - conns[s].lastUsed > MaxIdle} IN
    /\ pc[Cleaner] = "idle" /\ idle # {}
    /\ Goto(Cleaner, "next", [NoLocals EXCEPT !.todo = idle])
    /\ UNCHANGED <<now, policy, disabled, silent, conns, pool, certs>>

\* cleanup calls in the name of the owner.
MayClose(w, s) == s \in pool /\ (w = Cleaner \/ conns[s].agent = req[w].agent)

\* Mutant of DeleteSession: the loop does not advance.
DeleteAgain(w, s) ==
    /\ pc[w] = "next"
    /\ IF MayClose(w, s)
       THEN pool' = pool \ {s} /\ Goto(w, "nil", [req[w] EXCEPT !.conn = s])
       ELSE pool' = pool /\ Goto(w, "next", req[w])
    /\ UNCHANGED <<now, policy, disabled, silent, conns, certs>>

\* The critical section of CloseSession under the pool's lock.
DeleteSession(w, s) ==
    LET rest == req[w].todo \ {s} IN
    /\ pc[w] = "next"
    /\ IF MayClose(w, s)
       THEN pool' = pool \ {s} /\ Goto(w, "nil", [req[w] EXCEPT !.conn = s, !.todo = rest])
       ELSE /\ pool' = pool
            /\ IF rest = {} THEN Reply(w) ELSE Goto(w, "next", [req[w] EXCEPT !.todo = rest])
    /\ UNCHANGED <<now, policy, disabled, silent, conns, certs>>

\* The one under the session's lock.
ClearClient(w) ==
    /\ pc[w] = "nil"
    /\ conns' = [conns EXCEPT ![req[w].conn].client = FALSE]
    /\ Goto(w, "close", req[w])
    /\ UNCHANGED <<now, policy, disabled, silent, pool, certs>>

\* A one-shot command removes its certificate first: the last defer runs first.
CloseClient(w) ==
    /\ pc[w] = "close"
    /\ conns' = [conns EXCEPT ![req[w].conn].open = FALSE]
    /\ IF req[w].kind = "oneshot" THEN Reply(w) ELSE Goto(w, "uncert", req[w])
    /\ UNCHANGED <<now, policy, disabled, silent, pool, certs>>

RemoveCert(w) ==
    /\ pc[w] = "uncert"
    /\ certs' = certs \ {req[w].conn}
    /\ IF req[w].kind = "oneshot" THEN Goto(w, "close", req[w]) ELSE Closed(w)
    /\ UNCHANGED <<now, policy, disabled, silent, conns, pool>>

-----------------------------------------------------------------------------
(* The rest of the world. *)

\* An admin's toggle, in the API or the dashboard.
ToggleHost(t) ==
    /\ t \in DOMAIN policy.roles
    /\ disabled' = (disabled \ {t}) \cup ({t} \ disabled)
    /\ UNCHANGED <<now, policy, silent, conns, pool, certs, pc, req>>

\* A certificate leaves CertState: revoked by an admin or by a toggle, or expired.
CertLeaves(c) ==
    /\ certs' = certs \ {c}
    /\ UNCHANGED <<now, policy, disabled, silent, conns, pool, pc, req>>

\* The host or the network drops a connection.
ConnectionLost(c) ==
    /\ conns[c].open
    /\ conns' = [conns EXCEPT ![c].open = FALSE]
    /\ UNCHANGED <<now, policy, disabled, silent, pool, certs, pc, req>>

\* A host falls silent, or speaks again.
HostSilence(t) ==
    /\ silent' = (silent \ {t}) \cup ({t} \ silent)
    /\ UNCHANGED <<now, policy, disabled, conns, pool, certs, pc, req>>

ReloadPolicy(p) ==
    /\ policy' = p
    /\ UNCHANGED <<now, disabled, silent, conns, pool, certs, pc, req>>

Tick ==
    /\ now < MaxTime
    /\ now' = now + 1
    /\ UNCHANGED <<policy, disabled, silent, conns, pool, certs, pc, req>>

\* The steps a handler takes without a new call.
Step(w) ==
    \/ AutoRevoke(w)
    \/ CountSessions(w)
    \/ dialTarget(w)
    \/ signFails(w)
    \/ signAndConnect(w)
    \/ handshakeFails(w)
    \/ AddCert(w)
    \/ InsertSession(w)
    \/ sessionIDFails(w)
    \/ FindSession(w)
    \/ TakeClient(w)
    \/ StartCommand(w)
    \/ EndCommand(w)
    \/ TouchSession(w)

\* Those that a handler or cleanup takes to release a connection.
Release(w) ==
    \/ \E s \in req[w].todo : DeleteSession(w, s)
    \/ ClearClient(w)
    \/ CloseClient(w)
    \/ RemoveCert(w)

Drawn == 1..Len(conns)

Call(w) ==
    \/ \E a \in Agents, t \in Targets, r \in Roles, e \in Envelopes, c \in Commands, s \in Drawn \cup {0} :
          toolExec(w, a, t, r, e, c, s)
    \/ \E a \in Agents, t \in Targets, r \in Roles, e \in Envelopes : toolSessionCreate(w, a, t, r, e)
    \/ \E a \in Agents, s \in Drawn : toolSessionClose(w, a, s)

Next ==
    \/ \E w \in Workers : Step(w) \/ Call(w)
    \/ \E w \in Procs : Release(w)
    \/ FindIdle
    \/ \E t \in Toggled : ToggleHost(t)
    \/ \E t \in MaySilence : HostSilence(t)
    \/ \E c \in certs : CertLeaves(c)
    \/ \E c \in Drawn : ConnectionLost(c)
    \/ \E p \in Policies : ReloadPolicy(p)
    \/ Tick

Spec == Init /\ [][Next]_vars

\* A goroutine that can go on does: the signer's answer, the TCP connect and a started
\* command have timeouts.  A handshake and NewSession have none, and nothing is assumed
\* of the hosts: a handler that waits for a silent one has no step.  The ticker of
\* cleanup fires again and again, and time passes.
FairSpec == /\ Spec
            /\ \A w \in Workers : WF_vars(Step(w))
            /\ \A w \in Procs : WF_vars(Release(w))
            /\ WF_vars(FindIdle)
            /\ WF_vars(Tick)

-----------------------------------------------------------------------------
(* Properties. *)

\* The locals l fit step next, when n connections have been made.
Fits(next, l, n) ==
    /\ next \in {"suspend", "count", "dial", "handshake", "add", "insert", "lookup", "take"} =>
          l.agent \in Agents /\ l.target \in Targets /\ l.role \in Roles
    /\ next \in {"add", "insert", "lookup", "take", "start", "running", "touch",
                 "nil", "close", "uncert"} => l.conn \in 1..n
    /\ next \in {"count", "insert"} => l.kind = "create"
    /\ next \in {"dial", "handshake", "add"} => l.kind \in {"create", "oneshot"}
    /\ next \in {"lookup", "take", "touch"} => l.kind = "session"
    /\ next \in {"start", "running"} => l.kind \in {"session", "oneshot"}
    /\ next \in {"next", "nil"} => l.kind = "close"
    /\ next \in {"close", "uncert"} => l.kind # "session"
    /\ l.todo \subseteq 1..n /\ (l.todo # {} => l.kind = "close")

TablesOK ==
    /\ now \in Nat
    /\ policy \in Policies
    /\ disabled \subseteq Targets /\ silent \subseteq Targets
    /\ conns \in Seq(Connections) /\ Len(conns) <= MaxConns
    /\ pool \subseteq Drawn /\ certs \subseteq Drawn

\* Types: every number in a table is that of a connection that was made, and every
\* process has the locals of the step it is at.
TypeOK ==
    /\ TablesOK
    /\ pc \in [Procs -> PCs]
    /\ req \in [Procs -> Locals]
    /\ \A w \in Procs : Fits(pc[w], req[w], Len(conns))

\* Handlers that are past the count and will add a session of agent a.
Creating(a) == {w \in Workers : /\ pc[w] \in {"dial", "handshake", "add", "insert"}
                                /\ req[w].kind = "create" /\ req[w].agent = a}

\* Racing session_create calls may overrun the limit, since each counts before any
\* inserts, but by fewer sessions than there are handlers.
OverrunBounded ==
    \A a \in Agents :
        Cardinality(Held(a)) + Cardinality(Creating(a)) <= MaxPerAgent - 1 + Cardinality(Workers)

\* w has connection c in hand and is going to release it or to put it in the pool.
InHand(w, c) ==
    /\ req[w].conn = c
    /\ \/ pc[w] \in {"add", "insert", "nil", "close", "uncert"}
       \/ pc[w] \in {"start", "running"} /\ req[w].kind = "oneshot"

\* Nothing leaks, on any error path: an open connection and a listed certificate
\* belong to a session in the pool or to a process that is about to release them.
NothingLeaks ==
    \A c \in Drawn : conns[c].open \/ c \in certs => c \in pool \/ \E w \in Procs : InHand(w, c)

\* Once session_close, or the sweep, is done with a session it is gone for good: it
\* does not come back to the pool and no command is started on it, not even by a
\* call that had found it before.
ClosedIsFinal ==
    [][\A c \in Drawn :
          c \notin pool /\ ~(\E w \in Procs : InHand(w, c)) =>
              /\ c \notin pool'
              /\ \A w \in Workers : pc[w] # "running" /\ pc'[w] = "running" => req[w].conn # c]_vars

\* A command runs over a connection that was made for the agent that sent it.
OwnConnections ==
    \A w \in Workers : pc[w] \in {"take", "start", "running", "touch"} =>
        conns[req[w].conn].agent = req[w].agent

\* A session that is idle for too long is closed, or used again.
Idle(s) == s \in pool /\ now - conns[s].lastUsed > MaxIdle
IdleSessionsClose == \A s \in Numbers : s \in Drawn /\ Idle(s) ~> ~Idle(s)

\* w waits without a timeout for a host that has taken its connection and says nothing.
Waits(w) ==
    \/ pc[w] = "handshake" /\ req[w].target \in silent
    \/ /\ pc[w] = "start" /\ conns[req[w].conn].open
       /\ conns[req[w].conn].target \in silent

\* A call is answered, and a sweep ends, unless its host falls silent again and again or
\* for good: whatever fails, no other step of a call waits for ever, and calls that hang
\* hold up neither others nor the sweep (signAndConnect, execCommand, CloseSession).
CallsAnswered == \A w \in Procs : pc[w] # "idle" ~> pc[w] = "idle" \/ Waits(w)

=============================================================================
