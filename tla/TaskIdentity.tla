---------------------------- MODULE TaskIdentity ----------------------------
(***************************************************************************)
(* Task identity: the MCP task tools, macaroon authentication, epoch       *)
(* revocation and root keys of the broker, served by concurrent HTTP       *)
(* handlers.                                                               *)
(*                                                                         *)
(* A worker is one handler goroutine.  Handlers share the task table       *)
(* (module TaskManager), the watermarks of RevocationMap and the keys of   *)
(* RootKeyStore; each has its own lock, so an action below is one critical *)
(* section of one of them (a few adjacent ones are merged where the text   *)
(* says so) and other workers and the background loops run in between.     *)
(***************************************************************************)
EXTENDS TaskManager

CONSTANTS Workers,       \* handler goroutines
          Policy,        \* agent -> BuildEnvelopeFromPolicy
          RequestEnvs,   \* envelopes a task_delegate call may ask for
          TTLs,          \* ttl arguments
          DelegateFlags, \* can_delegate arguments
          Calls,         \* the tools called, and "dashboard" for its revoke
          MayRestart,    \* whether the broker may restart
          MaxTaskTTL,    \* the 1h limit of task_create
          WatermarkTTL,  \* maxTTL of the RevocationMap
          MayOverflow,   \* outcomes of checkSize: {FALSE}, or {FALSE, TRUE}
          HolderEnvs,    \* envelopes whose caveats a token's holder may append
          MaxExtended    \* bound on tokens with holders' caveats

ASSUME RequestAssumption ==
    /\ Policy \in [Agents -> Envelopes]
    /\ RequestEnvs \subseteq Envelopes
    /\ TTLs \subseteq Nat
    /\ DelegateFlags \subseteq BOOLEAN
    /\ MaxTaskTTL \in Nat /\ WatermarkTTL \in Nat
    /\ MayOverflow \subseteq BOOLEAN
    /\ HolderEnvs \subseteq Envelopes
    /\ MaxExtended \in Nat

VARIABLES watermarks,   \* RevocationMap.watermarks: task id -> revoked-at
          keys,         \* RootKeyStore.keys: root id -> key entry
          generations,  \* root id -> keys generated for it so far
          issued,       \* the tokens clients hold, with the task each is for
          pc, req,      \* per worker: where its handler is, and its locals
          revoked,      \* history: ids revoked since the broker started
          forgotten,    \* history: ids allocated before the last restart
          extended      \* history: the tokens with a holder's caveats in them

tokenVars == <<watermarks, keys, generations, issued>>
historyVars == <<revoked, forgotten, extended>>
vars == <<managerVars, tokenVars, pc, req, historyVars>>

Tools == {"create", "delegate", "bind", "revoke", "resource"}

PCs == Tools \cup
    {"idle", "verified", "resolved", "authed", "mint", "register", "unmint",
     "bindKey", "watermark", "unkey", "snapshot", "cascade",
     "dashWatermark", "dashDelete", "dashCascade"}

\* The locals of a handler.  todo is what a loop over tasks has left; seen is
\* history: the ids revoked when the request was verified.
Requests == [agent : Agents \cup {NoAgent}, claims : Ids \cup {NoTask},
             mac : Macaroons, subject : Ids \cup {NoTask}, todo : SUBSET Ids,
             seen : SUBSET Ids]

NoReq == [agent |-> NoAgent, claims |-> NoTask, mac |-> NoMac,
          subject |-> NoTask, todo |-> {}, seen |-> {}]

KeyEntries == [gen : Nat, maxExpiry : Nat]

Init ==
    /\ ManagerInit
    /\ watermarks = EmptyMap
    /\ keys = EmptyMap
    /\ generations = [r \in Ids |-> 0]
    /\ issued = {}
    /\ pc = [w \in Workers |-> "idle"]
    /\ req = [w \in Workers |-> NoReq]
    /\ revoked = {}
    /\ forgotten = {}
    /\ extended = {}

\* The handler goes on to step next with locals r.
Goto(w, next, r) == /\ pc' = [pc EXCEPT ![w] = next]
                    /\ req' = [req EXCEPT ![w] = r]

\* The handler writes its response and returns.
Reply(w) == Goto(w, "idle", NoReq)

-----------------------------------------------------------------------------
(* Authentication: authenticateRequest. *)

\* MCPAuthenticator.Authenticate with an agent's API key: no task claims, so
\* handleToolsCall passes the call on ungated.
AuthenticateKey(w, a, tool) ==
    /\ pc[w] = "idle"
    /\ Goto(w, tool, [NoReq EXCEPT !.agent = a])
    /\ UNCHANGED <<managerVars, tokenVars, historyVars>>

\* Verifier.Verify: the root key of the macaroon's id is present and is the
\* one the chain was built on, and no expires_before is past.
Verifies(mac) == /\ mac.id \in DOMAIN keys
                 /\ keys[mac.id].gen = mac.gen
                 /\ ~Expired(mac, now)

VerifyMacaroon(w, tok) ==
    /\ pc[w] = "idle"
    /\ Verifies(tok.mac)
    /\ Goto(w, "verified", [NoReq EXCEPT !.agent = tok.mac.agent, !.mac = tok.mac,
                                         !.seen = revoked])
    /\ UNCHANGED <<managerVars, tokenVars, historyVars>>

\* The task a macaroon stands for: the indexed one, else the root task.
Resolve(mac) == IF IsIndexed(mac) THEN sigIndex[mac] ELSE mac.id

\* Mutant of LookupTask: only the task itself is going to be checked.
LookupTaskOnly(w) ==
    LET t == Resolve(req[w].mac) IN
    /\ pc[w] = "verified"
    /\ IF IsTaskActive(t)
       THEN Goto(w, "resolved", [req[w] EXCEPT !.claims = t, !.todo = {t}])
       ELSE Reply(w)
    /\ UNCHANGED <<managerVars, tokenVars, historyVars>>

\* LookupBySignature, then GetTask(mac.Id()).
LookupTask(w) ==
    LET t == Resolve(req[w].mac) IN
    /\ pc[w] = "verified"
    /\ IF IsTaskActive(t)
       THEN Goto(w, "resolved", [req[w] EXCEPT !.claims = t, !.todo = heap[t].lineage])
       ELSE Reply(w)
    /\ UNCHANGED <<managerVars, tokenVars, historyVars>>

\* The next id of a loop over tasks: the shallowest one left.
IsNext(w, c) == /\ c \in req[w].todo
                /\ \A d \in req[w].todo : heap[c].depth <= heap[d].depth

\* IsRevoked for the next id of the lineage, each under its own read lock; the
\* request is authenticated once none is left.
CheckRevocation(w, c) ==
    LET rest == req[w].todo \ {c} IN
    /\ pc[w] = "resolved"
    /\ IsNext(w, c)
    /\ CASE c \in DOMAIN watermarks -> Reply(w)
         [] c \notin DOMAIN watermarks /\ rest # {} ->
                Goto(w, "resolved", [req[w] EXCEPT !.todo = rest])
         [] c \notin DOMAIN watermarks /\ rest = {} ->
                Goto(w, "authed", [req[w] EXCEPT !.todo = {}, !.seen = {}])
    /\ UNCHANGED <<managerVars, tokenVars, historyVars>>

\* The Ephyr Bind gate of handleToolsCall.  A call whose task has left the
\* table is not gated.  key is the holder key the caller can prove possession
\* of.
MayCall(t, tool, key) ==
    IsTaskActive(t) => /\ AwaitsBinding(t) => tool = "bind"
                       /\ heap[t].holder \in {NoKey, key}

handleToolsCall(w, tool, key) ==
    /\ pc[w] = "authed"
    /\ IF MayCall(req[w].claims, tool, key) THEN Goto(w, tool, req[w]) ELSE Reply(w)
    /\ UNCHANGED <<managerVars, tokenVars, historyVars>>

\* Every other tool: envelope_check.go decides on Reduce(mac) what it may
\* touch, and nothing here changes.
ResourceTool(w) ==
    /\ pc[w] = "resource"
    /\ Reply(w)
    /\ UNCHANGED <<managerVars, tokenVars, historyVars>>

-----------------------------------------------------------------------------
(* task_create and task_delegate. *)

\* A task token limits what it may create or delegate to its own envelope.
Constrain(env, w) ==
    IF req[w].claims = NoTask THEN env
    ELSE intersectEnvelopes(env, Reduce(req[w].mac))

toolTaskCreate(w, id, ttl, canDelegate, key) ==
    /\ pc[w] = "create"
    /\ IsNewULID(id)
    /\ ttl \in 1..MaxTaskTTL
    /\ now + ttl < MaxTime   \* bound: every task can expire before the clock stops
    /\ CreateTask(id, req[w].agent, ttl, Constrain(Policy[req[w].agent], w), canDelegate, key)
    /\ Goto(w, "mint", [req[w] EXCEPT !.subject = id])
    /\ UNCHANGED <<now, tokenVars, historyVars>>

\* Mutant of MayDelegateFrom: a task token may delegate from any task.
MayDelegateFromAny(w, p) == req[w].agent = heap[p].agent

\* With a task token only the caller's own task may be the parent.
MayDelegateFrom(w, p) == req[w].claims \in {NoTask, p}

Delegate(w, id, p, ttl, env, canDelegate) ==
    /\ pc[w] = "delegate"
    /\ IsNewULID(id)
    /\ ttl > 0
    /\ MayDelegateFrom(w, p)
    /\ CreateChildTask(id, p, req[w].agent, ttl, env, canDelegate)
    /\ Goto(w, "mint", [req[w] EXCEPT !.subject = id])
    /\ UNCHANGED <<now, tokenVars, historyVars>>

\* task_delegate with an envelope argument.
toolTaskDelegate(w, id, p, ttl, env, canDelegate) ==
    Delegate(w, id, p, ttl, Constrain(env, w), canDelegate)

\* task_delegate without one: the child inherits the stored parent envelope.
toolTaskDelegateInherit(w, id, p, ttl, canDelegate) ==
    p \in live /\ Delegate(w, id, p, ttl, heap[p].envelope, canDelegate)

\* A call whose arguments are refused, and a task_bind that BindHolderKey
\* refuses.
Refuse(w) ==
    /\ pc[w] \in {"create", "delegate", "bind", "bindKey", "revoke"}
    /\ Reply(w)
    /\ UNCHANGED <<managerVars, tokenVars, historyVars>>

CaveatsFor(t) == Caveats(heap[t].envelope, heap[t].canDelegate,
                         MaxChildDepth - heap[t].depth, heap[t].expires)

\* The token is minted; checkSize may still refuse it.  The unlocked write of
\* task.MacaroonSigDigest is part of this step.
Minted(w, mac, oversize) ==
    IF oversize
    THEN Goto(w, "unmint", req[w]) /\ UNCHANGED heap
    ELSE /\ Goto(w, "register", [req[w] EXCEPT !.mac = mac])
         /\ heap' = [heap EXCEPT ![req[w].subject].digest = mac]

\* MintRoot: a fresh key replaces whatever the root had.  Used by task_create,
\* and by task_delegate when the caller has no macaroon.
MintRootToken(w, oversize) ==
    LET t == req[w].subject
        r == heap[t].root
        g == generations[r] + 1
    IN
    /\ pc[w] = "mint"
    /\ heap[t].depth = 0 \/ req[w].mac = NoMac
    /\ generations' = [generations EXCEPT ![r] = g]
    /\ keys' = Put(keys, r, [gen |-> g, maxExpiry |-> heap[t].expires])
    /\ Minted(w, MintRoot(r, g, req[w].agent, CaveatsFor(t)), oversize)
    /\ UNCHANGED <<now, live, sigIndex, watermarks, issued, historyVars>>

\* The new token still has the caveats that holders put into the caller's.
MintDelegatedToken(w, oversize) ==
    LET t == req[w].subject
        mac == MintDelegated(req[w].mac, CaveatsFor(t))
    IN
    /\ pc[w] = "mint"
    /\ heap[t].depth > 0 /\ req[w].mac # NoMac
    /\ Minted(w, mac, oversize)
    /\ extended' = extended \cup {m \in {mac} : req[w].mac \in extended}
    /\ UNCHANGED <<now, live, sigIndex, tokenVars, revoked, forgotten>>

\* RegisterSignature, and the response that hands out the token.
RegisterToken(w) ==
    /\ pc[w] = "register"
    /\ RegisterSignature(req[w].mac, req[w].subject)
    /\ issued' = issued \cup {[mac |-> req[w].mac, task |-> req[w].subject]}
    /\ Reply(w)
    /\ UNCHANGED <<now, heap, live, watermarks, keys, generations, historyVars>>

\* Minting failed: RevokeTask and an error.
AbandonTask(w) ==
    /\ pc[w] = "unmint"
    /\ RevokeTask(req[w].subject)
    /\ Reply(w)
    /\ UNCHANGED <<now, tokenVars, historyVars>>

\* AddFirstPartyCaveat chains on the signature and needs no key, so whoever holds
\* a token can append caveats without the broker.  Those on time and on delegation
\* can only narrow (Reduce takes the least), so only those of an envelope matter.
Attenuate(tok, env) ==
    LET mac == MintDelegated(tok.mac, Caveats(env, FALSE, 0, MaxTime)) IN
    /\ Cardinality(extended) < MaxExtended
    /\ issued' = issued \cup {[tok EXCEPT !.mac = mac]}
    /\ extended' = extended \cup {mac}
    /\ UNCHANGED <<managerVars, watermarks, keys, generations, pc, req, revoked, forgotten>>

-----------------------------------------------------------------------------
(* task_bind. *)

\* GetTask: the task must belong to the caller's agent.
toolTaskBind(w, id) ==
    /\ pc[w] = "bind"
    /\ IsTaskActive(id)
    /\ heap[id].agent = req[w].agent
    /\ Goto(w, "bindKey", [req[w] EXCEPT !.subject = id])
    /\ UNCHANGED <<managerVars, tokenVars, historyVars>>

BindKey(w, key) ==
    /\ pc[w] = "bindKey"
    /\ BindHolderKey(req[w].subject, key)
    /\ Reply(w)
    /\ UNCHANGED <<now, tokenVars, historyVars>>

-----------------------------------------------------------------------------
(* task_revoke, and the dashboard's revoke. *)

Watermark(id) == /\ watermarks' = Put(watermarks, id, now)
                 /\ revoked' = revoked \cup {id}

\* The task exists, is the caller's agent's, and with a task token is the
\* caller's own task or a descendant of it.
toolTaskRevoke(w, id) ==
    /\ pc[w] = "revoke"
    /\ IsTaskActive(id)
    /\ heap[id].agent = req[w].agent
    /\ req[w].claims \in heap[id].lineage \cup {NoTask}
    /\ Goto(w, "watermark", [req[w] EXCEPT !.subject = id])
    /\ UNCHANGED <<managerVars, tokenVars, historyVars>>

RevokeWatermark(w) ==
    /\ pc[w] = "watermark"
    /\ Watermark(req[w].subject)
    /\ Goto(w, "unkey", req[w])
    /\ UNCHANGED <<managerVars, keys, generations, issued, forgotten, extended>>

\* Mutant of RevokeKey: every revocation deletes the key of the tree.
RevokeTreeKey(w) ==
    /\ pc[w] = "unkey"
    /\ keys' = Restrict(keys, DOMAIN keys \ {heap[req[w].subject].root})
    /\ Goto(w, "snapshot", req[w])
    /\ UNCHANGED <<managerVars, watermarks, generations, issued, historyVars>>

\* Only the revocation of a root task deletes the tree's key.
RevokeKey(w) ==
    LET t == req[w].subject IN
    /\ pc[w] = "unkey"
    /\ keys' = Restrict(keys, DOMAIN keys \ {r \in {t} : heap[t].root = r})
    /\ Goto(w, "snapshot", req[w])
    /\ UNCHANGED <<managerVars, watermarks, generations, issued, historyVars>>

RevokeSnapshot(w) ==
    LET t == req[w].subject IN
    /\ pc[w] = "snapshot"
    /\ Goto(w, "cascade", [req[w] EXCEPT !.todo = Descendants(t, heap[t].root)])
    /\ UNCHANGED <<managerVars, tokenVars, historyVars>>

\* The next descendant of the snapshot, which GetTaskTree sorts by depth.  Its
\* watermark and its removal are one step: an ancestor's watermark already
\* stands.
CascadeChild(w, c) ==
    /\ IsNext(w, c)
    /\ Watermark(c)
    /\ RevokeTask(c)
    /\ Goto(w, pc[w], [req[w] EXCEPT !.todo = @ \ {c}])
    /\ UNCHANGED <<now, keys, generations, issued, forgotten, extended>>

RevokeChild(w, c) == pc[w] = "cascade" /\ CascadeChild(w, c)

RevokeFinish(w) ==
    /\ pc[w] = "cascade"
    /\ req[w].todo = {}
    /\ RevokeTask(req[w].subject)
    /\ Reply(w)
    /\ UNCHANGED <<now, tokenVars, historyVars>>

\* The dashboard takes its snapshot first and keeps the key.
handleDashboardRevokeTask(w, id) ==
    /\ pc[w] = "idle"
    /\ IsTaskActive(id)
    /\ Goto(w, "dashWatermark",
            [NoReq EXCEPT !.subject = id, !.todo = Descendants(id, heap[id].root)])
    /\ UNCHANGED <<managerVars, tokenVars, historyVars>>

DashWatermark(w) ==
    /\ pc[w] = "dashWatermark"
    /\ Watermark(req[w].subject)
    /\ Goto(w, "dashDelete", req[w])
    /\ UNCHANGED <<managerVars, keys, generations, issued, forgotten, extended>>

DashDelete(w) ==
    /\ pc[w] = "dashDelete"
    /\ RevokeTask(req[w].subject)
    /\ Goto(w, "dashCascade", req[w])
    /\ UNCHANGED <<now, tokenVars, historyVars>>

DashChild(w, c) == pc[w] = "dashCascade" /\ CascadeChild(w, c)

DashFinish(w) ==
    /\ pc[w] = "dashCascade"
    /\ req[w].todo = {}
    /\ Reply(w)
    /\ UNCHANGED <<managerVars, tokenVars, historyVars>>

-----------------------------------------------------------------------------
(* Background loops, the clock, and a restart of the broker. *)

\* TaskManager.cleanup.
CleanupTasks ==
    /\ cleanup
    /\ UNCHANGED <<now, tokenVars, pc, req, historyVars>>

\* Mutant of Stale: the cutoff itself counts as older.
StaleInclusive == {t \in DOMAIN watermarks : watermarks[t] <= now - WatermarkTTL}

\* RevocationMap.gc.
Stale == {t \in DOMAIN watermarks : watermarks[t] < now - WatermarkTTL}

gc ==
    /\ Stale # {}
    /\ watermarks' = Restrict(watermarks, DOMAIN watermarks \ Stale)
    /\ UNCHANGED <<managerVars, keys, generations, issued, pc, req, historyVars>>

\* RootKeyStore.Cleanup.
ExpiredKeys == {r \in DOMAIN keys : now > keys[r].maxExpiry}

CleanupKeys ==
    /\ ExpiredKeys # {}
    /\ keys' = Restrict(keys, DOMAIN keys \ ExpiredKeys)
    /\ UNCHANGED <<managerVars, watermarks, generations, issued, pc, req, historyVars>>

Clock == Tick /\ UNCHANGED <<heap, live, sigIndex, tokenVars, pc, req, historyVars>>

\* Mutant of Restart: the root keys survive.
RestartKeepingKeys ==
    /\ MayRestart
    /\ DOMAIN heap \ forgotten # {}
    /\ live' = {}
    /\ sigIndex' = EmptyMap
    /\ watermarks' = EmptyMap
    /\ pc' = [w \in Workers |-> "idle"]
    /\ req' = [w \in Workers |-> NoReq]
    /\ revoked' = {}
    /\ forgotten' = DOMAIN heap
    /\ UNCHANGED <<now, heap, generations, issued, extended, keys>>

\* A restart loses every table and every request in flight; clients keep their
\* tokens.  Bounded by the tasks there are to lose.
Restart ==
    /\ MayRestart
    /\ DOMAIN heap \ forgotten # {}
    /\ live' = {}
    /\ sigIndex' = EmptyMap
    /\ watermarks' = EmptyMap
    /\ keys' = EmptyMap
    /\ pc' = [w \in Workers |-> "idle"]
    /\ req' = [w \in Workers |-> NoReq]
    /\ revoked' = {}
    /\ forgotten' = DOMAIN heap
    /\ UNCHANGED <<now, heap, generations, issued, extended>>

-----------------------------------------------------------------------------

Arrive(w) ==
    \/ \E a \in Agents, tool \in Calls \cap Tools : AuthenticateKey(w, a, tool)
    \/ \E tok \in issued : VerifyMacaroon(w, tok)
    \/ "dashboard" \in Calls /\ \E id \in live : handleDashboardRevokeTask(w, id)

Handle(w) ==
    \/ LookupTask(w)
    \/ \E c \in Ids : CheckRevocation(w, c)
    \/ \E tool \in Calls \cap Tools, key \in HolderKeys \cup {NoKey} : handleToolsCall(w, tool, key)
    \/ ResourceTool(w)
    \/ \E id \in Ids, ttl \in TTLs, cd \in DelegateFlags, key \in HolderKeys \cup {NoKey} :
          toolTaskCreate(w, id, ttl, cd, key)
    \/ \E id \in Ids, p \in live, ttl \in TTLs, cd \in DelegateFlags :
          \/ toolTaskDelegateInherit(w, id, p, ttl, cd)
          \/ \E env \in RequestEnvs : toolTaskDelegate(w, id, p, ttl, env, cd)
    \/ Refuse(w)
    \/ \E oversize \in MayOverflow :
          MintRootToken(w, oversize) \/ MintDelegatedToken(w, oversize)
    \/ RegisterToken(w)
    \/ AbandonTask(w)
    \/ \E id \in live : toolTaskBind(w, id)
    \/ \E key \in HolderKeys : BindKey(w, key)
    \/ \E id \in live : toolTaskRevoke(w, id)
    \/ RevokeWatermark(w)
    \/ RevokeKey(w)
    \/ RevokeSnapshot(w)
    \/ \E c \in Ids : RevokeChild(w, c) \/ DashChild(w, c)
    \/ RevokeFinish(w)
    \/ DashWatermark(w)
    \/ DashDelete(w)
    \/ DashFinish(w)

Background == CleanupTasks \/ gc \/ CleanupKeys

Holders == \E tok \in issued, env \in HolderEnvs : Attenuate(tok, env)

Next == \/ \E w \in Workers : Arrive(w) \/ Handle(w)
        \/ Holders
        \/ Background \/ Clock \/ Restart

Spec == Init /\ [][Next]_vars

\* The Go scheduler runs every started handler, tickers fire the background
\* loops, time passes.  Nobody has to send a request or to extend a
\* token, and the broker does not have to restart.
FairSpec == /\ Spec
            /\ \A w \in Workers : WF_vars(Handle(w))
            /\ WF_vars(CleanupTasks) /\ WF_vars(gc) /\ WF_vars(CleanupKeys)
            /\ WF_vars(Clock)

-----------------------------------------------------------------------------
(* Properties. *)

Token == [mac : {m \in Macaroons : m.agent \in Agents}, task : Ids]

\* Every variable has its type, and the tables and the handlers' locals only
\* name allocated tasks.
HeapOK ==
    /\ DOMAIN heap \subseteq Ids /\ heap \in [DOMAIN heap -> Tasks]
    /\ \A t \in DOMAIN heap : heap[t].root \in DOMAIN heap /\ heap[t].lineage \subseteq DOMAIN heap
    /\ live \subseteq DOMAIN heap

TablesOK ==
    /\ DOMAIN sigIndex \subseteq Macaroons /\ sigIndex \in [DOMAIN sigIndex -> DOMAIN heap]
    /\ DOMAIN watermarks \subseteq DOMAIN heap /\ watermarks \in [DOMAIN watermarks -> Nat]
    /\ DOMAIN keys \subseteq DOMAIN heap /\ keys \in [DOMAIN keys -> KeyEntries]
    /\ generations \in [Ids -> Nat]
    /\ issued \subseteq Token /\ \A tok \in issued : tok.task \in DOMAIN heap
    /\ revoked \subseteq DOMAIN heap /\ forgotten \subseteq DOMAIN heap
    /\ extended \subseteq Macaroons

\* A handler in one of these steps has a subject; in one of those, an agent.
HasSubject == {"mint", "register", "unmint", "bindKey", "watermark", "unkey",
               "snapshot", "cascade", "dashWatermark", "dashDelete", "dashCascade"}
HasAgent == Tools \cup {"verified", "resolved", "authed", "mint"}

\* A handler at p with locals r, when the tasks in ids are allocated.
LocalOK(ids, p, r) ==
    /\ p \in PCs /\ r \in Requests
    /\ r.claims \in ids \cup {NoTask}
    /\ r.todo \cup r.seen \subseteq ids
    /\ p = "resolved" => r.claims \in ids
    /\ p \in HasSubject => r.subject \in ids
    /\ p \in HasAgent => r.agent \in Agents
    /\ r.mac # NoMac \/ p = "register" => r.mac.agent \in Agents

LocalsOK ==
    /\ DOMAIN pc = Workers /\ pc = [w \in Workers |-> pc[w]]
    /\ DOMAIN req = Workers /\ req = [w \in Workers |-> req[w]]
    /\ \A w \in Workers : LocalOK(DOMAIN heap, pc[w], req[w])

TypeOK == now \in Nat /\ HeapOK /\ TablesOK /\ LocalsOK

\* Along every delegation chain authority only shrinks: a task has the agent of
\* each of its ancestors, expires no later, and its stored envelope permits
\* nothing an ancestor's does not (CreateChildTask, intersectEnvelopes).
DelegationAttenuates ==
    \A t \in DOMAIN heap : \A a \in heap[t].lineage :
        /\ a \in DOMAIN heap
        /\ heap[a].root = heap[t].root
        /\ heap[a].agent = heap[t].agent
        /\ heap[t].expires <= heap[a].expires
        /\ Within(heap[t].envelope, heap[a].envelope)

\* The task table is a tree of capabilities: a task keeps what it was made with, gets
\* nothing its parent does not have, and has its holder key bound once, whatever
\* handlers, sweeps, revocations and restarts do (CreateTask, CreateChildTask,
\* BindHolderKey against everything else that has the *Task pointers).
Capability(t) ==
    [parent |-> t.parent, agent |-> t.agent, depth |-> t.depth, above |-> t.lineage,
     until |-> t.expires, mayDelegate |-> t.canDelegate,
     permits |-> [d \in Dims |-> Permits(t.envelope[d])], holder |-> t.holder]

Tree == INSTANCE CapabilityTree WITH
            tree <- [t \in DOMAIN heap |-> Capability(heap[t])],
            Keys <- HolderKeys, NoParent <- NoTask, MaxDepth <- MaxChildDepth

TasksFormTree == Tree!TSpec

\* The dimensions in which minting bounds a token: all of them, but once holders
\* added caveats only those its first block constrains.  Any other one is set by
\* the holder's first caveat, to what the holder likes.
MintBounds(mac) == {d \in Dims : mac \in extended => mac.chain[1].envelope[d] # {}}

\* Whatever chain of mintings and of holders' caveats produced it, a token never
\* speaks for another agent than its root task's, and permits nothing outside that
\* task's envelope in a dimension that minting bounds (MintRoot, MintDelegated,
\* AddFirstPartyCaveat and Reduce together).
TokensWithinRoot ==
    \A tok \in issued :
        /\ tok.mac.agent = heap[tok.mac.id].agent
        /\ \A d \in MintBounds(tok.mac) :
              Permits(Reduce(tok.mac)[d]) \subseteq Permits(heap[tok.mac.id].envelope[d])

\* When the watermark of a may be gone while a task below it still lives: it is kept
\* for WatermarkTTL, and task_create grants up to MaxTaskTTL.
MayLapse(a) == /\ heap[a].created + WatermarkTTL < now
               /\ now <= heap[a].created + MaxTaskTTL

\* A task below a revoked one is blocked by that one's watermark while it lives, also
\* one delegated while the revocation was under way, but for the time in which the
\* watermark may have lapsed (RevocationMap.gc against CreateChildTask).
RevokedStaysBlocked ==
    \A t \in DOMAIN heap : \A a \in heap[t].lineage :
        a \in revoked /\ now <= heap[t].expires
            => a \in DOMAIN watermarks \/ MayLapse(a)

\* A key is kept for as long as a token of its latest generation is valid:
\* neither Cleanup nor the revocation of a descendant takes it away
\* (RootKeyStore, and the root-only Delete of toolTaskRevoke).
KeyOutlivesTokens ==
    \A tok \in issued :
        LET r == tok.mac.id IN
        (/\ r \notin revoked \cup forgotten
         /\ tok.mac.gen = generations[r]
         /\ ~Expired(tok.mac, now)) => Verifies(tok.mac)

\* A restart invalidates every token: no request that gets past the HMAC check
\* presents a token of a tree from before the restart (RootKeyStore).
RestartInvalidates ==
    \A w \in Workers : req[w].mac.id \notin forgotten

\* A request whose task has an ancestor that was revoked before the request came in
\* is not authenticated, unless the task expires meanwhile or the ancestor's
\* watermark may have lapsed (authenticateWithMacaroon: lookup and lineage check
\* are separate steps, and gc may run between them).
AcceptedMeansUnrevoked ==
    [][\A w \in Workers : pc[w] = "resolved" /\ pc'[w] = "authed" =>
          \A a \in heap[req[w].claims].lineage \cap req[w].seen :
              now > heap[req[w].claims].expires \/ MayLapse(a)]_vars

\* A token delegated from the token of the caller's own task permits nothing
\* that token does not (toolTaskDelegate, MintDelegated, Reduce).
MintAttenuates ==
    [][\A w \in Workers :
          (/\ pc[w] = "mint" /\ pc'[w] = "register"
           /\ heap[req[w].subject].depth > 0
           /\ req[w].claims # NoTask
           /\ heap[req[w].claims].digest = req[w].mac) =>
              Within(Reduce(req'[w].mac), Reduce(req[w].mac))]_vars

\* No task stays in the table below a revoked one for ever, also not a child
\* delegated behind the back of the cascade (toolTaskRevoke,
\* handleDashboardRevokeTask and cleanup together).
RevokedSubtreeDies ==
    \A t \in Ids : []<>(t \in live => heap[t].lineage \cap revoked = {})

-----------------------------------------------------------------------------
(* What comments and documents say and the code does not do. *)

\* "invalidates all its tokens" (mcp_task.go:305): a token handed out for a
\* task is not accepted when it is presented after the task was revoked.
\* LookupTask falls back to the root task.
RevokedTokensRejected ==
    [][\A w \in Workers : pc[w] = "resolved" /\ pc'[w] = "authed" =>
          \A tok \in issued : tok.mac = req[w].mac => tok.task \notin req[w].seen]_vars

=============================================================================
