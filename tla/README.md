# Verification of the Ephyr broker

Ephyr gives AI agents short-lived, narrowly scoped access to infrastructure.  A
*broker* decides, a *signer* holds the CA key, and agents talk to the broker over a
Unix socket (certificates) or over MCP (tools).  This directory holds TLA+ models of
the broker's stateful parts, TLC configurations for them and TLAPS proofs.

## Inventory

The broker is one Go process.  Every HTTP or MCP request runs on a goroutine of its
own; the parts below are tables behind one mutex each, shared by these goroutines and
by background loops that tickers drive.  A handler takes several of these locks one
after the other and holds no lock across them, so what a handler read in one critical
section may be stale in the next.  That is where the difficulty of this code lies.

| part | state | operations | what makes it correct |
|---|---|---|---|
| capability envelopes (`token/types.go`, `broker/task.go`) | none | contains, subset, intersection with `*` | intersection and delegation never widen |
| macaroon tokens (`internal/macaroon`) | root keys | mint, delegate, append caveats (by whoever holds a token), verify, reduce, key cleanup | in every dimension that minting bounds, a token permits at most what its root task does; a key lives as long as its tokens |
| task manager (`broker/task.go`) | task table, signature index | create, create child, bind key, revoke, look up, sweep | lineage, expiry, envelope of a child within its ancestors'; keys bound once |
| epoch revocation (`broker/revocation.go`) | watermarks | revoke, check lineage, gc | a revoked subtree stays blocked until it is dead |
| task tools (`broker/mcp_task.go`, `mcp_token_auth.go`, `mcp.go`, `dashboard.go`) | request locals | authenticate, create, delegate, bind, revoke | the above under concurrent handlers |
| proof of possession (`broker/pop.go`) | nonce cache | verify, cleanup | no proof is accepted twice |
| JWT delegation (`broker/delegation.go`, `token/sign.go`, `token/validate.go`, `signer/delegation.go`) | current and previous key, issuer, validator's certificates | rotate, sign, validate | what is issued can be checked, also across rotations; outages heal |
| certificates (`broker/handler.go`, `state.go`, `policy/engine.go`, `auth/session.go`, `hostctl.go`) | sessions, active certs, pending requests, tracked counts, host toggles | request, approve, deny, revoke, reload, cleanup | limits hold, counts match the certs, of a queued request the broker receives no more certificates than handlers race for it; the signer signs before it answers, so when its answer is lost there is one more that nobody has |
| exec sessions (`broker/mcp_exec.go`) | SSH session pool | create, exec, close, idle cleanup | per-agent limit, no command on a closed session, certs released; a host that falls silent holds its own call only: TCP connect and commands have timeouts, the SSH handshake and opening a channel have none |
| access grants (`broker/grants.go`) | grants, mode, default lifetimes | issue, validate, revoke, expire | at most one valid grant per agent and target |
| API-key authentication (`broker/mcp_auth.go`) | agents, result cache | register, authenticate | a key opens what the policy gives it, cached or not |
| federation (`broker/federation*.go`) | remotes, their status, file | add, remove, discover, refresh with backoff, save | what is saved is what is configured; errors back off |
| HTTP proxy (`broker/proxy.go`, `mcp_tools.go`) | services, file, network policy | request, add, update, toggle, remove | the connection goes where policy looked, with the credentials that were permitted |
| policy (`internal/policy`) | resolved configuration | load, validate, resolve, reload | inheritance; the two validations agree |
| rate limiters (`broker/middleware.go`, `signer/ratelimit.go`) | time stamps per caller | allow, prune | never more than the limit, no refusal without cause |
| host configuration (`broker/config.go`) | host table, file | update, delete, reconcile with policy | a reload keeps what admins set |
| signer (`internal/signer`, `cmd/signer`) | CA key, limiter, shutdown | sign, delegate, stop | survives and ends as its supervisor expects |
| activity store, event hub, audit log, anomaly detection | ring buffer, clients, files | record, query, broadcast | not modelled |
| CLI, dashboard front end, deployment | none in the broker | | not modelled |

## Modules

| module | models |
|---|---|
| `Envelope` | envelopes and their algebra |
| `Macaroon` | tokens as chains of caveat blocks over an ideal HMAC |
| `TaskManager` | the task table and signature index; an operator per critical section |
| `TaskIdentity` | handlers, watermarks, root keys, background loops, restart |
| `CapabilityTree` | abstract: what tasks promise |
| `ProofOfPossession` | `VerifyPoP` and `NonceCache` |
| `CertBroker` | requests, evaluation, signing, approval, revocation, host toggles, reload |
| `ExecPool` | the SSH session pool, the tools that use it and its idle sweep |
| `ConfigFile` | how a table is saved: copy, write `.tmp`, rename, with failures and death at any point |
| `AccessGrants` | the grant store |
| `Federation` | the federator: remotes, discovery, refresh loop, tool calls; extends the two above |
| `Proxy` | `http_request` and the administration of services; extends the same two |
| `RateLimiter` | a sliding-window log, as operators |
| `WindowLimit` | abstract: what a sliding-window limiter promises |
| `Delegation` | rotation of the broker's signing key with the signer process; extends `RateLimiter` |
| `Policy` | defaults, both validations, templates and permissions, as operators |
| `Gate` | rate limit, API keys, permissions, reload and the host table; extends `Policy` and `RateLimiter`, implements `WindowLimit` |
| `TaskIdentityProofs`, `ProofOfPossessionProofs`, `CertBrokerProofs`, `ExecPoolProofs`, `FederationProofs`, `ProxyProofs`, `DelegationProofs`, `GateProofs` | theorems |
| `MCTaskIdentity`, `MCProofOfPossession`, `MCCertBroker`, `MCExecPool`, `MCFederation`, `MCProxy`, `MCDelegation`, `MCGate` | instances for TLC |

`Envelope` and `Macaroon` are operators only.  `TaskManager` extends both and has the
task table; `TaskIdentity` extends it and adds everything that the task tools touch
besides.  `ProofOfPossession` is called by authentication and shares no state with it; the
certificate broker and the exec pool share only the `HostController`, the policy and
`CertState`, of which each model has the part it uses.

`ConfigFile` and `AccessGrants` are components with variables of their own and no
specification: `Federation` and `Proxy` each extend both, call their operators as the code
calls `save` and the grant store, and take the steps of a save that is under way.  In the
code the two have a file each and share the grant store, with disjoint grants (the type of
a grant is part of the key), so each model has its own copy.

### How the models correspond to the code

*Granularity.*  A handler is a process with a program counter (`pc[w]`) and locals
(`req[w]`).  One action is one critical section of the code, or one call that leaves
the process (the signer, SSH), with everything the code does up to the next lock or
call.  Between two actions of a handler every other handler, ticker and the clock may
run.  Early returns are actions, or disjuncts, that end in `Reply`.  `PROJECT.json`
("map") gives the lines behind every definition.

*Time* is a natural number.  `time.Now()` in the code is `now` in the model, and a
comparison is the one the code makes (`Before`, `After`, `<=`): that is where the
boundaries are.  `Federation`, `Proxy`, `Delegation` and `Gate` have no clock: a deadline is
the time it has left, an instant in the past its age, up to the largest value a comparison
can tell apart, and `Tick` moves all of them.  `Before` and `After` become comparisons with
zero, and runs can go on for ever in finitely many states.  `TaskIdentity` has `UnitsPerSecond`, because tokens carry seconds and
tasks carry nanoseconds.

*Data.*  Names, hosts and agents are model values.  A macaroon is the chain of its
caveat blocks together with the key generation it was minted under: the HMAC is ideal,
so a token verifies exactly when the store has that generation.  A certificate is its
serial and the fields policy decides on.  A command is a model value, and the filters
of a target are the set of commands they refuse.  A remote's configuration and a service
are records of what the code branches on (valid, TLS broken, filter, auto-revoke, grant
mode, enabled); a URL matches a prefix by a given relation, and a name resolves to a set of
addresses that may change at any time.  What a PUT or a save can do wrong (validation,
opening, writing, renaming) is a choice.  A delegation certificate has `same`, whether broker
and signer read the clock in one second: the code reads it twice.

| module | variable | code |
|---|---|---|
| `TaskManager` | `heap`, `live`, `sigIndex` | the `Task` structs, `TaskManager.tasks`, the signature index |
| `TaskIdentity` | `watermarks`, `keys`, `issued` | `RevocationMap`, `RootKeyStore`, the tokens clients hold |
| | `revoked`, `forgotten`, `extended`, `generations` | history, for the properties and for the ideal HMAC |
| `ProofOfPossession` | `entries`, `pending`, `uses` | `NonceCache.entries`, a handler between its two checks, history |
| `CertBroker` | `policy`, `engine` | `policyCfg`, the counters of `policyEngine` |
| | `certs`, `pending`, `disabled`, `sessions` | `CertState`, `HostController`, `SessionManager` |
| | `signed`, `lost` | what the signer has signed; history: those of which the broker never heard |
| `ExecPool` | `conns`, `pool`, `certs` | SSH clients with their `ExecSession`, the pool's map, `CertState` |
| | `silent` | hosts that take connections and say nothing |
| `ConfigFile` | `file`, `tmp`, `saver` | the JSON file, its `.tmp`, the goroutines inside `save` |
| `AccessGrants` | `grants`, `mode`, `ttl` | `GrantStore` |
| `Federation` | `obj`, `table` | the `RemoteMCPState` objects, `MCPFederator.remotes`: a goroutine keeps the pointer it looked up |
| | `admin`, `disc`, `todo`, `call` | dashboard requests (and whether the last one was saved), discoveries, the round of `refreshLoop`, tool calls |
| | `up`, `events` | servers that answer; the bound on what comes from outside |
| `Proxy` | `services`, `version`, `call`, `admin`, `dns` | `ProxyEngine.services`, changes of it (history), requests, dashboard requests, name resolution |
| `Delegation` | `signer`, `stamps`, `mail` | the signer process, its limiter, the connection between the two |
| | `certs`, `dm`, `issuer`, `known`, `pinned` | certificates, `DelegationManager`, `Issuer`, `Validator` and its root |
| | `rot`, `tokens` | `rotationLoop`, the tokens agents hold |
| `Gate` | `disk`, `policy`, `reload` | `policy.yaml`, `policyCfg`, `ReloadPolicy` between its two halves |
| | `limiter`, `logs`, `answer` | the limiter that the middleware captured, its windows, the last answer |
| | `registry`, `cache`, `served` | `MCPAuthenticator`; history: the policy it was started with |
| | `hosts`, `hostFile` | `ConfigManager`, `hosts.json` |

## Runs

| run | what it checks |
|---|---|
| `revocation` | Two handlers create, delegate, use and revoke tasks, from the tools and the dashboard, some with tokens that turn out too large, under fairness.  A revoked subtree stays blocked (`RevokedStaysBlocked`) and a request that is let in had no revoked ancestor when it was verified (`AcceptedMeansUnrevoked`), except in the time in which the watermark of its ancestor may be gone (`MayLapse`); a key lives as long as its tokens (`KeyOutlivesTokens`); a child delegated behind the back of a cascade dies too (`RevokedSubtreeDies`). |
| `lifecycle` | Envelopes of every kind and the wildcard, two holder keys, holders who append caveats to their tokens, expiries within a second, and broker restarts: along chains of delegation tasks and tokens only lose authority (`DelegationAttenuates`, `MintAttenuates`), a token stays within its root task in every dimension but those that minting left without a caveat and a holder then set (`TokensWithinRoot`), no token survives a restart (`RestartInvalidates`), and the task table implements `CapabilityTree` (`TasksFormTree`). |
| `pop` | Two handlers, three proofs on two nonces, the nonce cleanup and the clock: no proof is accepted twice. |
| `certs` | Two handlers, two policies, reloads and toggles, a signer that fails or whose answers are lost: the engine's counts match its certificates, racing requests overrun a limit by no more than the handlers there are, nobody is denied because of dead certificates, nothing is signed that policy or admin did not allow, and of one queued request no more certificates reach the broker than there are handlers, however admins race and retry (`ApprovalsBounded`). |
| `certs_liveness` | Listed certificates leave the list. |
| `exec` | Two handlers and the sweep on sessions of two agents: no connection or certificate leaks on any error path, a closed session stays closed, commands use connections of their own agent, the limit is overrun by no more than the race allows. |
| `exec_liveness` | With filters, suspensions, envelopes, toggles and reloads: idle sessions are closed, and a call is answered unless its host falls silent during the handshake or when a channel is opened (`CallsAnswered`); such a call holds up nobody else. |
| `federation` | One admin puts, toggles, refreshes and deletes remotes, an agent calls tools, the loop refreshes and servers go up and down; every step of a save may fail and the broker may die between any two.  The file is always whole (`FileIsWhole`) and is the table while the last save has succeeded and none is under way (`FileFollows`); tools are offered only as discovered at the address configured now, although discoveries of replaced remotes go on (`OfferedAreOwn`); a remote that can be reached is reconnected, whatever errors it had (`LoopReconnects`). |
| `proxy` | Two requests, an admin, changing name resolution, grants that expire and are revoked.  A connection goes to an address the network policy accepts (`PinnedToPolicy`); while the table stands still the five lookups of a request agree and its credentials are permitted ones (`SentAsConfigured`); racing requests share a grant (`OneValidGrant`). |
| `delegation` | The broker rotates its key against a signer that is slow, limited, killed, shut down or restarted with another CA.  Outside an installation the issuer's key is the current one and checkable (`ReadyCanSign`); rotation cuts no token off (`RotationKeepsTokens`); once the signer serves in time, the broker becomes ready by itself and stays so (`ReadyAgain`). |
| `gate` | Three policy files, two callers, two API keys, reloads, host updates, failing saves, restarts.  The limiter implements `WindowLimit` (`LimiterKeepsPromise`) and the wait it announces suffices (`RetrySuffices`); an agent's entry is its own or that of the first template that has one, the rule of `resolve.go:35` (`PermsAsConfigured`); a key opens what the policy that MCP was started with gives it, whatever is reloaded and cached (`ExecAsConfigured`); each of 23,328 variants of a file loads exactly if the command-line check finds no error in it, but for what only one of the two looks at (`CheckersAgree`: port ranges and key hashes there, duplicate addresses, malformed roles and host keys here); reloads keep logins and hosts (`LoginsSurvive`). |
| `find_revoked_token` | *violated*: the token of a revoked child task authenticates as the root task. |

Every property of a passing run has a mutant of the code it is about (a dropped check,
an off-by-one, a missing release) under which TLC finds it violated.

### Bounds

Bounds are constants that occur in guards only: `MaxTasks`, `MaxTime`, `MaxCerts`,
`MaxPending`, `MaxConns`, `Toggled`, `MaySilence`, `MaxExtended`, `MaxObjects`, `MaxGrants`, `MaxTokens` and, for what
comes from outside (requests, edits, outages, restarts), `MaxEvents`.  Two handlers are
enough for the races in question: every one of them is between one handler that has read and another that writes, or a
background loop.  Two or three tasks make a parent, a child and a grandchild; times are
chosen so that tasks, watermarks, nonces, certificates and idle sessions expire within
the run and something still happens after.  Two certificates against a limit of one, and
two connections against a limit of one session, are one more than the limit.  Every
invariant and every safety property of a passing run is a theorem as well, so for them the
bounds do not matter; they matter for the liveness properties.

`lifecycle` has one agent; that a task stays with its agent is part of `DelegationIsSafe`.  One
token gets a holder's caveats (`MaxExtended`), the wildcard, which permits the most; tokens
delegated from it keep them.  The two holder keys are interchangeable, hence the symmetry.  It
has no oversize tokens, which `revocation` has.

`exec` has no silent hosts, since a handler that waits is one that does not move; `exec_liveness`
has one that may fall silent and speak again at any time.

`revocation`: tasks live as long as watermarks, the longest case in which `MayLapse` excuses
nothing, so the run checks both properties at their strongest.  Longer tasks would double its
states, and the theorems cover them.

`federation`: one name, because remotes only meet when they share one; two objects, the one
in the table and one that was replaced while somebody holds it; three outside events, enough
for put, replace and an outage or a call.  It has one admin, which is part of the
statement: with two, `FileFollows` and `FileIsWhole` fail (see below).  `proxy`: a wide and a narrow prefix for one URL, so that the matching service changes when one is
toggled; two callers, three events.  `delegation`: lifetime 3, timer 2, delay 1, so that one
failed rotation leaves a gap and a rotation falls into the life of a token; three
certificates are the current, the previous and the one being installed.  `gate`: the
limit is two requests in two seconds of two ticks, so a window has an inside and an edge; the
two good files differ in key, limit, target and in the order of two overlapping templates; the
variants combine everything that can be wrong with a target, a role, a key hash or the agents.

Deadlock checking is off where a bound ends the outside events and time may stand still
(`federation`, `proxy`, `delegation`).

### Fairness

Weak fairness of the steps of a handler that has started: the Go scheduler runs
every goroutine that can go on, no lock is held across a call, and these calls end: the
signer's socket has a deadline, the TCP connect to a host the `Timeout` of `mcp_exec.go:217`, a
command that was started a timer.  Two calls need not end: the SSH handshake, which that
`Timeout` does not bound, and `NewSession` (`mcp_exec.go:371`), which comes before the timer.
Their steps are possible only while the host speaks, and fairness says nothing about hosts; a
handler that waits for a silent one has no step that fairness could force.  Weak fairness
of each background loop: its ticker fires for ever and its body is not skipped.  Weak
fairness of the clock.  There is none for arriving requests, reloads, toggles, lost
connections, failing saves, servers that come and go, signals and restarts.  `LoopReconnects`
and `ReadyAgain` assume in their statement that the other side is available from some time
on; that is the environment's part, not the scheduler's.

### Refinement

`TaskIdentity` contains `Tree == INSTANCE CapabilityTree WITH ...`.  The abstract tree only
grows: a node has a parent, an agent, an expiry, permissions and a holder key; a child gets no
more than its parent has; the key is set once; nothing else ever happens to a node.  The
mapping takes these fields from the task objects, envelopes as what they permit, and forgets
the table, the index, tokens, keys, watermarks, handlers and the clock, so sweeps, revocations and restarts
are stutters: they make a task unreachable and never different.  The run has one handler; the
two critical sections of `task_bind` under any number of them are a matter of the proof.

`Gate` contains `Promise == INSTANCE WindowLimit WITH ...`.  The abstract limiter knows at
every moment which requests count; the code keeps stale time stamps and prunes a caller's
log when that caller asks.  The mapping prunes: `recent` is each log without what has left
the window.  `LimiterKeepsPromise` is the whole abstract specification, so it also says that
no request is refused without cause and no caller pays for another.  A reload is a stutter
there, which is the point: the middleware keeps the limiter it captured.

## Proofs

Every safety property that a passing run checks is proved, for any number of handlers,
agents, hosts, tasks, certificates, remotes, services and policy files.  So is the type
correctness of every specification, whether a run checks it or not: a run names `TypeOK` where
the code could break it (dangling pointers, a configuration nobody checked), and leaves it to the
proof elsewhere.

### Assumptions

They are named, stand in the module that declares the constants, and TLC evaluates them on
every run.

- Types of the constants: `RequestAssumption`, `PopAssumption`, `PolicyAssumption`,
  `BoundAssumption`, `ServiceAssumption`, `NetworkAssumption`, `ConfigAssumption`,
  `GrantAssumption`, `DelayAssumption`, `GateAssumption`.  `Tables` is what a saved table can hold:
  any part of the names, each with a configuration and a flag.  A parsed policy file has all
  its sections (the zero value of a Go struct is there), its limits and lifetimes are
  integers of either sign, and the templates of an agent are a list.  The default window is
  60 seconds, hence positive.
- The largest of a set of lifetimes exists (`GrantAssumption`, `DelegationAssumption`): the code
  has finitely many.  For the delays of the refresh loop this is proved (`LongestDelay`).
- `DelegationAssumption`: the refresh comes before the expiry (`RefreshAt`, after 50 of 60
  minutes in the code), and an answer that is still waited for is younger than a
  certificate's lifetime (seconds against an hour).
- `NoReplay` has `SkewFits` as its hypothesis, the two theorems on the file of the remotes
  have `OneAdmin`.  Both are needed: without them the property fails (see below).

### The arguments

- `TaskIdentityProofs`.  An intersection permits nothing that either side does not, wildcards
  included (`IntersectWithinBoth`) and everything that both do (`IntersectIsGreatest`), and `IsSubsetOf`
  decides containment exactly (`SubsetIsExact`); containment is a preorder.  `TypeOK` is inductive; it is
  more than types: all tables, tokens and locals name allocated tasks.  Every step keeps what
  a task was created with, and a step that adds a task adds one child or one root
  (`StepShape`).  From this `DelegationAttenuates` is inductive.  `TasksFormTree` follows step by
  step from `StepShape` and `StepHolders`, which says that only `BindHolderKey` writes a holder.  `RevokedStaysBlocked` needs
  `WatermarkInv`: a watermark is never older than its task, so gc keeps it for `WatermarkTTL`
  from the creation on, whatever the task's lifetime; and no task, nor one below it, outlives its
  creation by more than `MaxTaskTTL` (`Dated`), which is where the exception `MayLapse` ends.
  `AcceptedMeansUnrevoked` is about a
  request that reads the lineage in several steps; `SeenInv` says that an ancestor it has
  passed, and that was revoked before, can only have been passed because the task is expired or
  the watermark may have lapsed.
  The four properties of tokens rest on `TokenInv`: every token, a client's or a handler's,
  names its root's agent, has a first block within the root's envelope, and the key of its
  generation is there for as long as the token could be used (`MacsInv`); what a handler
  learned from a token it verified stays true (`CallersInv`); a task's token and its place in
  the signature index belong to its tree (`TreesInv`); and nothing from before a restart is in
  the table or has a key (`FreshInv`).
  `HeapFrame` and `KeyFrame` say what all steps but a minting and a restart leave alone.
- `ProofOfPossessionProofs`: no replay if `NonceTTL >= 2 * ClockSkew + MaxStall`
  (`SkewFits`).  The invariant says that an accepted proof either has its nonce in the
  cache or is past its skew window, and that two handlers never hold the same nonce.
- `CertBrokerProofs`: `TypeOK`, `CountsMatch` and `FlightInv` together are inductive.  `FlightInv`
  (a certificate between signing and tracking belongs to one handler and is not counted yet)
  is what keeps `TrackCert` from counting twice.  `IssuedAsEvaluated` needs `IssueInv`, which
  carries the policy of the evaluation through queue and handlers; `OverrunBounded` is
  inductive on top of both; `DenialJustified` follows from `CountsMatch`.  `ApprovalsBounded` is
  inductive with `QueueInv`: as long as a request is in the queue, each certificate that it led to
  and that was not lost has a handler of its own that had it signed and has yet to remove the request.  Such a handler is
  not at the signer, so handlers that approve and certificates are together at most the handlers;
  once the request is gone, nobody starts to approve it and the sum does not grow.
- `ExecPoolProofs`: `NothingLeaks` needs `HandInv`: what a process has in hand is in nobody
  else's hand and not in the pool.  `HandStep` states once what a step has to respect.
  `ClosedIsFinal`, `OwnConnections` and `OverrunBounded` build on it.
- `FederationProofs`: steps are those of an admin, a restart, or *calm*: they leave table,
  requests and file alone, no remote comes or goes and none is switched on (`StepKinds`,
  `Tame`).  An object's tools come from its own address, and what a goroutine points to is not
  reused; both are part of the inductive `Types`, and `OfferedAreOwn` follows.  For the file
  and one admin, `DiskInv` follows a save step by step: from the copy to the rename the copy
  holds the table, from the write on the tmp file holds the copy, and a request counts as
  saved only after the rename.  A calm step can only suspend a remote, which `FileFollows` allows.
- `ProxyProofs`: the address of a request was accepted for its URL from the resolution on
  (`Pinned`); as long as the table has not changed since a request came in, each lookup so far has
  found the service that matches, or none (`Agrees`).  `OneGrant` is inductive because
  `Issue` looks and inserts under one lock, although `Validate` came before.
- `DelegationProofs`: `TypeOK` with seven facts about the steps of a rotation is inductive:
  an answer is as young as the wait for it and its key is new (`AnswerIsNew`), a rotation that
  is half installed has set what its step says (`HalfInstalled`), and the keys of the issuer
  and of tokens are known to the validator, but for the one being installed (`IssuerKnown`,
  `TokensKnown`).
- `GateProofs`: `CheckersAgree` is a fact about every file: each check of `ValidatePolicy`, but the two
  the loader lacks, follows from one of the loader's, and each of the loader's, but the three of
  `OnlyLoader`, from one of those.  `PermsAsConfigured` is about a fold over any number of
  templates; the provers have no induction over sequences, so the proof gives the function that
  maps each prefix to "the first template wins", and a first prefix at which the fold differs
  from it, which exists because numbers are well-founded, leads to a contradiction.
  `ExecAsConfigured` needs that a cached answer names an agent the key matches (`CacheInv`) and
  that the registry is that of the policy MCP was started with (`RegistryInv`).  The refinement of
  `WindowLimit` is proved step by step: a log is sorted, so what pruning removes comes first
  (`LimiterInv`), and pruning after a tick is pruning again what was pruned before.
  `RetrySuffices` follows from the same sorted logs.  `LoginsSurvive` is an action property.

For the provers' sake `Pruned` is written as the suffix of a log that starts behind the old
entries, which are the first ones in a sorted log, and `WindowLimit` says what a unit of time does by relating a log
before and after (`Aged`).

### Only model-checked

The liveness properties, since fairness and ENABLED are beyond the provers:
`RevokedSubtreeDies`, `ExpiredCertsLeave`, `IdleSessionsClose`, `CallsAnswered`,
`LoopReconnects`, `ReadyAgain`.

## Where code and documents part

The `find_revoked_token` run and its finding in `PROJECT.json` are kept under check.  While
modelling, these came up as well; a property of a passing run excludes each of them by an
explicit condition, or it lies outside what the properties say.

Tasks and tokens:

- Delegating with an API key calls `MintRoot` for the tree's root and so replaces the tree's
  key: tokens issued before stop verifying (`mcp_task.go:624`; `rootkeys.go:11`).
- A token that was delegated and never bound passes the bind gate once its task has been
  swept, since it then resolves to the root task (`mcp.go:390`; `THREAT_MODEL.md:269`).
- Watermarks are kept for 30 minutes, tasks may live an hour (`server.go:207`), while
  `revocation.go:97` has every token from before a watermark expired when it goes.  `MayLapse` in `RevokedStaysBlocked` and
  `AcceptedMeansUnrevoked` excuses it: from 30 minutes after the revoked task was made until it
  can have no living descendant, whether its watermark is still there or not.
- Whoever holds a token can append caveats to it (`types.go:86`).  A dimension that minting left
  empty has no caveat (`minter.go:80`), so the first one that a holder appends sets it to whatever
  it likes (`reducer.go:89`, whose comment at 35 says "each subsequent caveat can only narrow the
  set, never widen it").  The changed token has a signature of its own, which is in no index, and
  resolves to the root task (`mcp_token_auth.go:96`).  So a token can permit in such a dimension
  what its root task does not; `MintBounds` in `TokensWithinRoot` are the other dimensions.
- A token whose task is gone delegates from the root's envelope (`mcp_task.go:532`;
  `task.go:564`).  A dimension that reduces to nothing is not rejected (`reducer.go:247`;
  `security.md:1070`).
- Any positive `EPHYR_POP_CLOCK_SKEW` is accepted, while nonces live for 5 minutes
  (`server.go:231`; `task-identity.md:1409`).  `NoReplay` gives the condition.

Certificates and sessions:

- A reload starts an engine that counts none of the certificates that are out
  (`server.go:452`; `architecture.md:1164`).
- Racing `session_create` calls exceed the maximum, by fewer than there are handlers
  (`mcp_exec.go:253`; `mcp-integration.md:1337`).
- A request leaves the queue after signing: two admins can both approve it, or one approve and
  the other deny it (`handler.go:635`).  `ApprovalsBounded` says how often at most.
- The signer signs before it answers (`cmd/signer/main.go:195`), and the broker gives up on a late
  answer (`ipc.go:148`): the request stays in the queue, and each retry may have the signer make one
  more certificate.  `ApprovalsBounded` counts those that reach the broker; the others (`lost`)
  nobody has, and no table lists them.
- The 10 seconds of `ClientConfig.Timeout` (`mcp_exec.go:217`) are those of the TCP connect only,
  and opening a channel (`mcp_exec.go:371`) comes before the command's timer: a host that takes
  the connection and falls silent leaves the call unanswered.
- Approval does not look at the limit or at the host's state (`handler.go:589`;
  `configuration.md:104`, `api-reference.md:435`).
- A renewed certificate stays listed next to its successor (`engine.go:142`; `README.md:200`),
  and at the limit a renewal is refused (`engine.go:131`; `configuration.md:104`).
- A certificate revoked between `AddCert` and `TrackCert` keeps its slot (`handler.go:383`;
  `api-reference.md:313`).
- The sweep closes a session that is running a command, `LastUsed` being written when
  commands end (`mcp_exec.go:791`).
- A call past the host check connects to a host that was suspended meanwhile
  (`mcp_exec.go:226`; `target-setup.md:251`), and the check is made for the target argument
  while the command runs on the session's target (`mcp_tools.go:652`).
- `session_create` does not consult the task's envelope (`mcp_tools.go:763`;
  `task-identity.md:827`).

Federation, proxy and grants:

- With two admins the save that copied first may write last: an update is lost from the file
  although both were told it was saved (`FileFollows`).  And one may rename the shared `.tmp`
  just after the other has truncated it: until that one has written, the file is empty, and a
  broker that dies then starts with no remotes (`FileIsWhole`; `federation.go:371`, whose
  comment at 354 says "atomic write (tmp + rename)"; `proxy.go:841` is alike).  The write is not synced before the rename; loss of
  power is not modelled.
- A call with its own timeout swaps the remote's HTTP client and puts back the one it read:
  of two overlapping calls one can leave its timeout behind for good (`federation_client.go:176`
  says "Temporarily").
- A toggle whose save fails is answered 200 (`dashboard.go:1112`): `FileFollows` is about saves
  that succeeded, not about answers.
- PUT of an invalid configuration removes the remote that was there (`dashboard.go:933`).
- A discovery under way when its remote is switched off marks it connected again
  (`federation_client.go:137`).
- Resource reads check neither the agent's permission nor whether the remote is enabled
  (`mcp_resources.go:98`), and the URI they parse keeps its scheme.
- Suspensions by auto-revoke are not saved: a restart lifts them (`mcp.go:625`,
  `mcp_tools.go:947`; `README.md:325` wants a human to).
- Two services with equally long matching prefixes are told apart by the order of a Go map
  (`proxy.go:551`).  A service removed between match and client lookup is called over the
  default client, with the service's credentials (`proxy.go:396`).
- A service with a method list is hidden from listings, which ask for the empty method
  (`resolve.go:172`).

Keys, policy and limits:

- Broker and signer each read the clock for `issued_at`; in different seconds the
  certificate never verifies (`delegation.go:197`).  `RotationKeepsTokens` is about
  certificates that verify.
- A token may outlive its certificate and is then refused; the previous key that is kept for
  that (`delegation.go:27`; `security.md:504`) is never consulted.  The validator's map only
  grows.  The manager reports ready before the issuer has the key.
- The broker pins the root key at its start, so the documented rotation of the root
  (`security.md:577`), which restarts the signer only, stops delegation.
- The signer's accept loop and its signal handler read one channel: it may take two signals
  to stop it (`cmd/signer/main.go:80`).
- The issuer is not used in the shipped wiring: the macaroon minter always exists
  (`server.go:211`).
- A reload neither registers API keys anew (`mcp-integration.md:1299`,
  `THREAT_MODEL.md:250`) nor reaches the middleware's limiter (`server.go:461`;
  `configuration.md:925`): a key that a reload withdrew opens what it did until the broker restarts.
- Where templates overlap, the first in `inherits` wins (`resolve.go:35` and `73`;
  `security.md:943`, `architecture.md:1109`), and of dashboard levels too.  `configuration.md:276`
  says the opposite: "a key defined in a later template overwrites the same key from an earlier
  one", and the last dashboard level wins.  `PermsAsConfigured` states the rule of the code.
- Cutting an agent's roles to those of a target may leave none, and an empty list permits
  all roles (`resolve.go:66`).
- The loader refuses files that `ValidatePolicy` finds no error in: two targets on one host and
  port, malformed fields of a role, host keys that do not parse or match (`loader.go:155`).  The
  other way round it takes ports out of range and key hashes that are none (`validate.go:179` and
  `255`).  `CheckersAgree` says that there is no other difference.
- `Retry-After` is cut to whole seconds, so a caller that waits exactly that may be refused
  (`middleware.go:110`).

## Plan

The modules are written and the safety properties are proved.  What is left:

1. For any number of admins, what the shared tmp path still guarantees: how far the file can
   be from whole when no write fails.
2. The next-step halves of the liveness properties that need no fairness: that a call, a
   discovery or a rotation that has begun can always go on.

## Not modelled

`PROJECT.json` lists every part with its status.  The activity store, the event hub, the audit
log and the anomaly detector record what happened and nothing decides on what they hold.  The
web terminal pipes bytes.  Signing of SSH certificates has no state; it is a call that may fail.
Also outside: the encodings of tokens and certificates and the
cryptography itself, HTTP and JSON, TLS and host keys, log lines and metrics, the command
line client, the dashboard's page and deployment.
