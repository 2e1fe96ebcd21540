-------------------------------- MODULE Gate --------------------------------
(***************************************************************************)
(* What a call passes before the broker works on it, and the policy behind *)
(* that: the rate limit per UID on the Unix socket (middleware.go), the    *)
(* API keys of MCP agents with their cache (mcp_auth.go), the permissions  *)
(* of the agent (package policy), the reload of the policy on SIGHUP       *)
(* (server.go) and the host table it reconciles (config.go).               *)
(*                                                                         *)
(* Time is counted in ages and remaining lives.  A window of the limiter   *)
(* is in seconds of PerSecond ticks each.                                  *)
(***************************************************************************)
EXTENDS Policy, RateLimiter

CONSTANTS
    Uids,           \* callers of the Unix socket
    Files,          \* contents the policy file may have; one that does not parse is NoFile
    Candidates,     \* further contents, for the comparison of the two checkers
    Keys,           \* API keys
    CacheTTL,       \* lifetime of a cached authentication
    PerSecond,      \* ticks in a second
    Updates,        \* what an admin may send for a host: a record with core and login
    None, NoFile,
    MaxEvents       \* bound: edits, host updates and restarts

\* A file that parses has its sections, and numbers and lists where yaml wants them; the
\* default window is positive.
ASSUME GateAssumption ==
    /\ PerSecond \in Nat \ {0} /\ CacheTTL \in Nat /\ MaxEvents \in Nat /\ BadHash \notin Keys
    /\ Defaults.limit.max \in Int /\ Defaults.limit.window \in Nat \ {0}
    /\ Defaults.maxTTL \in Int /\ Defaults.defaultTTL \in Int
    /\ \A f \in (Files \cup Candidates) \ {NoFile} :
          /\ {"maxTTL", "defaultTTL", "limit", "roles", "targets", "agents", "templates"} \subseteq DOMAIN f
          /\ \A r \in DOMAIN f.roles : f.roles[r] \in {"ok", "empty", "malformed"}
          /\ {f.maxTTL, f.defaultTTL, f.limit.max, f.limit.window} \subseteq Int
          /\ \A t \in DOMAIN f.targets : "ttl" \in DOMAIN f.targets[t] /\ f.targets[t].ttl \in Int
          /\ \A a \in DOMAIN f.agents : f.agents[a].inherits \in Seq(ToSet(f.agents[a].inherits))

VARIABLES
    disk,           \* the policy file
    policy,         \* policyCfg: the file the broker runs with, defaults applied
    limiter,        \* limits of the limiter that the middleware captured
    logs,           \* its windows
    answer,         \* what the last caller was told
    registry,       \* MCPAuthenticator.agents, None before startMCPListener has run
    cache,          \* MCPAuthenticator.cache: key -> entry
    served,         \* history: the policy MCP was started with, or None
    hosts,          \* ConfigManager.configs
    hostFile,       \* hosts.json
    reload,         \* ReloadPolicy: "idle" or before its reconciliation
    events

vars == <<disk, policy, limiter, logs, answer, registry, cache, served, hosts, hostFile, reload, events>>
policyVars == <<disk, policy, reload>>
limitVars == <<limiter, logs, answer>>
authVars == <<registry, cache, served>>
hostVars == <<hosts, hostFile>>

Event == events < MaxEvents /\ events' = events + 1

Readable(file) == file # NoFile /\ validate(applyDefaults(file))
Loadable == {applyDefaults(f) : f \in {g \in Files : Readable(g)}}

TicksOf(limit) == [max |-> limit.max, window |-> PerSecond * (IF limit.window <= 0 THEN Defaults.limit.window ELSE limit.window)]

NoEntry == [left |-> 0]

\* The host table ------------------------------------------------------------

\* The fields policy.yaml decides, of one target.
CoreOf(cfg, t) == <<cfg.targets[t].host, cfg.targets[t].port, cfg.targets[t].roles, cfg.targets[t].ttl>>

\* Mutant: the entry is built anew.
ReconciledAfresh(table, cfg) ==
    [t \in DOMAIN table \cup DOMAIN cfg.targets |->
        IF t \in DOMAIN cfg.targets THEN [core |-> CoreOf(cfg, t), login |-> None] ELSE table[t]]

\* InitFromPolicy: the policy wins for its fields, the login stays, nothing is removed.
Reconciled(table, cfg) ==
    [t \in DOMAIN table \cup DOMAIN cfg.targets |->
        IF t \notin DOMAIN cfg.targets THEN table[t]
        ELSE [core |-> CoreOf(cfg, t), login |-> IF t \in DOMAIN table THEN table[t].login ELSE None]]

\* saveLocked runs under the lock: the file is replaced, or stays as it was.
SaveTable(table) ==
    /\ hosts' = table
    /\ hostFile' = table \/ UNCHANGED hostFile

\* A reconciliation that changes nothing does not save.
InitFromPolicy(table, cfg) ==
    IF Reconciled(table, cfg) = table
    THEN hosts' = table /\ UNCHANGED hostFile
    ELSE SaveTable(Reconciled(table, cfg))

\* mergeConfig: what the update leaves out stays.
Merged(update, old) ==
    [field \in DOMAIN update |-> IF update[field] # None THEN update[field] ELSE old[field]]

\* handleUpdateHostConfig, for an update that validateHostConfig takes.
UpdateConfig(t, update) ==
    /\ Event
    /\ SaveTable([u \in DOMAIN hosts \cup {t} |->
                    IF u # t THEN hosts[u]
                    ELSE IF t \in DOMAIN hosts THEN Merged(update, hosts[t]) ELSE update])
    /\ UNCHANGED <<policyVars, limitVars, authVars>>

DeleteConfig(t) ==
    /\ Event
    /\ t \in DOMAIN hosts
    /\ SaveTable([u \in DOMAIN hosts \ {t} |-> hosts[u]])
    /\ UNCHANGED <<policyVars, limitVars, authVars>>

\* The policy ----------------------------------------------------------------

EditPolicy(file) ==
    /\ Event
    /\ disk' = file
    /\ UNCHANGED <<policy, reload, limitVars, authVars, hostVars>>

\* Mutant: the file is taken as it is.
ReloadUnchecked ==
    /\ reload = "idle" /\ disk # NoFile
    /\ policy' = applyDefaults(disk)
    /\ reload' = "reconcile"
    /\ UNCHANGED <<disk, limitVars, authVars, hostVars, events>>

\* ReloadPolicy: a file that does not load changes nothing.  It also builds a limiter, but
\* the middleware keeps the one it got; the agents were registered when MCP started.
ReloadPolicy ==
    /\ reload = "idle"
    /\ Readable(disk)
    /\ policy' = applyDefaults(disk)
    /\ reload' = "reconcile"
    /\ UNCHANGED <<disk, limitVars, authVars, hostVars, events>>

Reconcile ==
    /\ reload = "reconcile"
    /\ InitFromPolicy(hosts, policy)
    /\ reload' = "idle"
    /\ UNCHANGED <<disk, policy, limitVars, authVars, events>>

\* NewBrokerServer; without a readable policy the process does not come up.  A file
\* cfg is read, the host table loaded and reconciled.
Started(cfg, table) ==
    /\ policy' = applyDefaults(cfg)
    /\ limiter' = TicksOf(applyDefaults(cfg).limit)
    /\ logs' = [u \in Uids |-> <<>>] /\ answer' = None
    /\ registry' = None /\ served' = None /\ cache' = [k \in Keys |-> NoEntry]
    /\ InitFromPolicy(table, applyDefaults(cfg))
    /\ reload' = "idle"

Restart ==
    /\ Event
    /\ Readable(disk)
    /\ Started(disk, hostFile)
    /\ UNCHANGED disk

Init ==
    /\ disk \in {f \in Files : Readable(f)}
    /\ policy = applyDefaults(disk)
    /\ limiter = TicksOf(policy.limit)
    /\ logs = [u \in Uids |-> <<>>] /\ answer = None
    /\ registry = None /\ served = None /\ cache = [k \in Keys |-> NoEntry]
    /\ hosts = Reconciled(<<>>, policy) /\ hostFile \in {hosts, <<>>}
    /\ reload = "idle" /\ events = 0

\* API keys --------------------------------------------------------------------

\* The roles of every registered agent: the union over the targets.
AllRoles(cfg) == UNION {cfg.targets[t].roles : t \in DOMAIN cfg.targets}

\* startMCPListener, a goroutine of its own: every agent with a key hash is registered.
StartMCP ==
    /\ registry = None
    /\ registry' = [a \in {b \in DOMAIN policy.agents : policy.agents[b].key # NoKey} |->
                      [key |-> policy.agents[a].key, roles |-> AllRoles(policy), perms |-> resolveAgent(policy, a)]]
    /\ cache' = [k \in Keys |-> NoEntry]
    /\ served' = policy
    /\ UNCHANGED <<disk, policy, reload, limitVars, hostVars, events>>

\* The agents whose hash a key matches; Authenticate takes one of them.
Matching(k) == {a \in DOMAIN registry : registry[a].key = k}

\* Mutant: the entry for the key takes whatever agent comes first.
AuthenticateAny(k) ==
    /\ registry # None /\ cache[k].left = 0
    /\ \E a \in DOMAIN registry :
          cache' = [cache EXCEPT ![k] = IF CacheTTL = 0 THEN NoEntry ELSE [left |-> CacheTTL, agent |-> a]]
    /\ UNCHANGED <<registry, served, policyVars, limitVars, hostVars, events>>

\* A hit changes nothing; a miss compares the hashes and caches what it found.
Authenticate(k) ==
    /\ registry # None /\ cache[k].left = 0
    /\ \E a \in Matching(k) :
          cache' = [cache EXCEPT ![k] = IF CacheTTL = 0 THEN NoEntry ELSE [left |-> CacheTTL, agent |-> a]]
    /\ UNCHANGED <<registry, served, policyVars, limitVars, hostVars, events>>

\* Who a key is taken for now.
Accepted(k) ==
    IF registry = None THEN {} ELSE IF cache[k].left > 0 THEN {cache[k].agent} ELSE Matching(k)

\* What exec and session_create check before the envelope: the permissions and roles
\* are those the agent was registered with, the target is looked up in the policy of now.
MayExec(k, t, role) ==
    /\ t \in DOMAIN policy.targets
    /\ \E a \in Accepted(k) : /\ CanAccess(registry[a].perms, "ssh", t, role)
                              /\ role \in registry[a].roles
    /\ role \in policy.targets[t].roles

\* The rate limit -----------------------------------------------------------------

Request(u) ==
    /\ answer' = <<u, IF Allows(logs[u], limiter.max, limiter.window) THEN "admitted" ELSE "refused">>
    /\ logs' = [logs EXCEPT ![u] = Logged(@, limiter.max, limiter.window)]
    /\ UNCHANGED <<limiter, policyVars, authVars, hostVars, events>>

\* The Retry-After header, in whole seconds.
RetrySeconds(u) == RetryAfter(logs[u], limiter.window, PerSecond) \div PerSecond

Tick ==
    /\ logs' = [u \in Uids |-> AgedLog(logs[u], limiter.window)]
    /\ cache' = [k \in Keys |-> IF cache[k].left <= 1 THEN NoEntry ELSE [cache[k] EXCEPT !.left = @ - 1]]
    /\ UNCHANGED <<limiter, answer, registry, served, policyVars, hostVars, events>>

HostNames == UNION {DOMAIN f.targets : f \in Loadable}

Next ==
    \/ ReloadPolicy \/ Reconcile \/ Restart \/ StartMCP \/ Tick
    \/ \E f \in Files : EditPolicy(f)
    \/ \E t \in HostNames : DeleteConfig(t) \/ \E update \in Updates : UpdateConfig(t, update)
    \/ \E k \in Keys : Authenticate(k)
    \/ \E u \in Uids : Request(u)

Spec == Init /\ [][Next]_vars

-----------------------------------------------------------------------------
\* Every variable keeps its type: the policy in force is one the loader accepts.
TypeOK ==
    /\ disk \in Files \cup {NoFile} /\ policy \in Loadable
    /\ \A u \in Uids : logs[u] \in Logs(limiter.max, limiter.window)
    /\ \A k \in Keys : cache[k] = NoEntry \/ cache[k].left \in 1..CacheTTL
    /\ DOMAIN hosts \subseteq HostNames /\ DOMAIN hostFile \subseteq HostNames
    /\ reload \in {"idle", "reconcile"} /\ served \in Loadable \cup {None} /\ events \in 0..MaxEvents

\* What an agent has an entry for: in its own section or in a template it names.
EntriesOf(cfg, a) ==
    DOMAIN cfg.agents[a].entries \cup UNION {DOMAIN cfg.templates[name] : name \in ToSet(cfg.agents[a].inherits)}

\* The entry an agent should have, by the comment in resolve.go and the whitepapers: its
\* own, else that of the first template it names that has one (docs/configuration.md says
\* the last), and for an SSH target no role that the target does not allow.
Expected(cfg, a, e) ==
    LET agent == cfg.agents[a]
        Has(i) == e \in DOMAIN cfg.templates[agent.inherits[i]]
        first == CHOOSE i \in DOMAIN agent.inherits : Has(i) /\ \A j \in 1..(i - 1) : ~Has(j)
        list == IF e \in DOMAIN agent.entries THEN agent.entries[e]
                ELSE cfg.templates[agent.inherits[first]][e]
    IN  {x \in list : e[1] = "ssh" /\ e[2] \in DOMAIN cfg.targets => x \in cfg.targets[e[2]].roles}

\* resolveAgent gives an agent the entries of the templates it inherits and its own and no
\* other, and where templates overlap the first of them wins: "left-to-right, first-wins
\* per key" (resolve.go).
PermsAsConfigured ==
    \A a \in DOMAIN policy.agents :
        LET perms == resolveAgent(policy, a)
        IN  /\ DOMAIN perms.entries = EntriesOf(policy, a)
            /\ \A e \in DOMAIN perms.entries : perms.entries[e] = Expected(policy, a, e)

\* A key opens a role on a target only if the policy that MCP was started with gives the
\* key to an agent and lets that agent have the role there, or names no role there: an
\* empty list, which the cut to the target's roles may leave, lets all through.  Reloads
\* and cached answers change nothing about that, except that the target has to exist, and
\* to allow the role, in the policy of now.
ExecAsConfigured ==
    registry # None =>
        \A k \in Keys : \A t \in DOMAIN policy.targets : \A role \in DOMAIN policy.roles :
            MayExec(k, t, role) =>
                /\ role \in policy.targets[t].roles
                /\ \E a \in DOMAIN served.agents :
                      /\ served.agents[a].key = k
                      /\ \/ Legacy(served.agents[a])
                         \/ \E e \in EntriesOf(served, a) :
                               /\ e = <<"ssh", t>> \/ (e = <<"ssh", Star>> /\ <<"ssh", t>> \notin EntriesOf(served, a))
                               /\ Expected(served, a, e) = {} \/ role \in Expected(served, a, e)

\* What the loader checks and the command line does not: two targets on one address, a
\* role with a malformed field, a host key that does not parse or match its fingerprint.
OnlyLoader(cfg) ==
    \/ ~Distinct(DOMAIN cfg.targets, LAMBDA t : <<cfg.targets[t].host, cfg.targets[t].port>>)
    \/ \E r \in DOMAIN cfg.roles : cfg.roles[r] = "malformed"
    \/ \E t \in DOMAIN cfg.targets : cfg.targets[t].hostkey \in {"badkey", "mismatch"}

\* What the command line checks and the loader does not: port ranges and key hashes.
OnlyCommandLine == {"E9", "E12"}

\* Files on which the two validations differ otherwise.
Disputed ==
    {f \in (Files \cup Candidates) \ {NoFile} :
        LET cfg == applyDefaults(f)
        IN  ~(validate(cfg) <=> ValidatePolicy(cfg) \subseteq OnlyCommandLine /\ ~OnlyLoader(cfg))}

\* A file loads exactly if the command-line check finds no error in it, but for what only
\* one of the two looks at: whatever the policy file is now and becomes.
CheckersAgree == disk \notin Disputed /\ Disputed = {}

\* A reload leaves the logins of the hosts alone, and removes no host.
LoginsSurvive ==
    [][events' = events => \A t \in DOMAIN hosts : t \in DOMAIN hosts' /\ hosts'[t].login = hosts[t].login]_vars

\* A caller that was refused and comes back after the seconds it was told, and one more
\* for those cut off, less a tick, is admitted.
RetrySuffices ==
    \A u \in Uids :
        ~Allows(logs[u], limiter.max, limiter.window) =>
            LET wait == (RetrySeconds(u) + 1) * PerSecond - 1
                later == [i \in DOMAIN logs[u] |-> logs[u][i] + wait]
            IN  Allows(later, limiter.max, limiter.window)

\* The limiter that prunes late keeps the promise of one that knows every moment which
\* requests count.
Promise == INSTANCE WindowLimit WITH
    Callers <- Uids, Limits <- {TicksOf(f.limit) : f \in Loadable}, NoAnswer <- None,
    recent <- [u \in Uids |-> Pruned(logs[u], limiter.window)], limit <- limiter, answer <- answer
LimiterKeepsPromise == Promise!WSpec

=============================================================================
