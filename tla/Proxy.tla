-------------------------------- MODULE Proxy --------------------------------
(***************************************************************************)
(* The HTTP proxy: services an admin configures, and http_request, which   *)
(* an agent uses to reach an address with the credentials of the service   *)
(* that matches it.                                                        *)
(*                                                                         *)
(* One request looks the service up four times, for the permissions, the   *)
(* envelope, the filter and the request itself, and its HTTP client a      *)
(* fifth; the table may change between any two of them.  The address is    *)
(* resolved once, for the network policy, and the connection goes to the   *)
(* address the policy saw.                                                 *)
(***************************************************************************)
EXTENDS Integers, FiniteSets, ConfigFile, AccessGrants

CONSTANTS
    Configs,       \* service configurations: see ServiceAssumption
    Prefixes,      \* URL prefixes
    PrefixLength,  \* prefix -> length
    Urls, Methods,
    Matching,      \* <<url, prefix>>: the prefix ends at a boundary of the URL
    Allowed,       \* <<agent, service, method>> the agent's permissions let through
    Envelope,      \* <<agent, service, method>> the envelope of its task lets through
    Addresses,     \* IP addresses
    Answers,       \* sets of addresses that the resolver may give for a name
    Network,       \* the network policy: see NetworkAssumption
    Callers,       \* goroutines of http_request
    MaxEvents,     \* bound: requests of admins and agents, changes outside, restarts
    None

ASSUME ServiceAssumption ==
    /\ \A c \in Configs : /\ c.prefix \in Prefixes
                          /\ {c.valid, c.closed, c.auto, c.verify, c.enabled} \subseteq BOOLEAN
                          /\ c.methods \subseteq Methods \X Urls    \* methods and paths allowed
                          /\ c.deny \subseteq Urls                  \* what the filter refuses
                          /\ c.grant \in Modes \cup {"default"}
    /\ PrefixLength \in [Prefixes -> Nat \ {0}]
    /\ Matching \subseteq Urls \X Prefixes
    /\ IsFiniteSet(Resources)
    /\ Tables = UNION {[S -> [cfg : Configs, enabled : BOOLEAN]] : S \in SUBSET Resources}
    /\ None \notin GrantAgents \cup Urls \cup Methods \cup Addresses \cup Resources
    /\ None \notin [name : Resources, svc : [cfg : Configs, enabled : BOOLEAN, made : Nat]]

ASSUME NetworkAssumption ==
    /\ Answers \subseteq SUBSET Addresses
    /\ {Network.deny, Network.private, Network.allow} \subseteq SUBSET Addresses
    /\ Network.external \in {"open", "deny", "restricted"}
    /\ Network.hosts \subseteq Urls                             \* external_allow
    /\ MaxEvents \in Nat

Admins == Savers
Services == Resources

VARIABLES
    services,      \* name -> service
    version,       \* how often the table has changed
    admin,         \* per admin: whether a request is under way, and how the last one ended
    call,          \* per caller: its request
    dns,           \* what the resolver answers
    events         \* events so far

vars == <<services, version, admin, call, dns, events, fileVars, grantVars>>

\* made tells a service from the one it replaced under its name.
ServiceRecords == [cfg : Configs, enabled : BOOLEAN, made : Nat]
Found == [name : Services, svc : ServiceRecords]

Calls == [pc : {"idle", "envelope", "filter", "suspend", "resolve", "match", "validate", "issue", "client", "sent"},
          agent : GrantAgents \cup {None}, url : Urls \cup {None}, method : Methods \cup {None},
          found : Found \cup {None}, ip : Addresses \cup {None},
          client : [verify : BOOLEAN, closed : BOOLEAN], credentials : Services \cup {None}, seen : Nat]

\* The default client accepts any certificate.
DefaultClient == [verify |-> FALSE, closed |-> FALSE]

NoCall == [pc |-> "idle", agent |-> None, url |-> None, method |-> None, found |-> None,
           ip |-> None, client |-> DefaultClient, credentials |-> None, seen |-> 0]

Init ==
    /\ services = <<>> /\ version = 0
    /\ admin = [d \in Admins |-> [busy |-> FALSE, ok |-> TRUE]]
    /\ call = [c \in Callers |-> NoCall]
    /\ dns \in [Urls -> Answers]
    /\ events = 0
    /\ FileInit /\ GrantsInit

\* Something comes from outside the broker.
Event == events < MaxEvents /\ events' = events + 1

-----------------------------------------------------------------------------
(* Lookups.                                                                  *)

matchesServiceURL(u, n) == <<u, services[n].cfg.prefix>> \in Matching

\* matchService: the longest of the prefixes that match, and one of several of that length.
matchService(u) ==
    LET m == {n \in DOMAIN services : matchesServiceURL(u, n)}
        longest == {n \in m : \A o \in m : PrefixLength[services[o].cfg.prefix] <= PrefixLength[services[n].cfg.prefix]}
    IN  IF m = {} THEN {None} ELSE {[name |-> n, svc |-> services[n]] : n \in longest}

isPrivateIP(ip) == ip \in Network.private

\* evaluateIPPolicy: denied networks, then private addresses, then external ones.
evaluateIPPolicy(ip, u) ==
    /\ ip \notin Network.deny
    /\ IF isPrivateIP(ip) THEN Network.allow = {} \/ ip \in Network.allow
       ELSE Network.external = "open" \/ (Network.external = "restricted" /\ u \in Network.hosts)

\* evaluatePolicy: every address must pass; an empty answer is an error.
evaluatePolicy(u) == dns[u] # {} /\ \A ip \in dns[u] : evaluateIPPolicy(ip, u)

-----------------------------------------------------------------------------
(* http_request.  A check that fails ends the request.                       *)

Move(c, l) == /\ call' = [call EXCEPT ![c] = l]
              /\ UNCHANGED <<services, version, admin, dns, fileVars>>
Refuse(c) == Move(c, NoCall)
Step(c, pc) == Move(c, [call[c] EXCEPT !.pc = pc])

\* The arguments, and the permissions for the service that matches now.
toolHTTPRequest(c, a, u, m) ==
    /\ Event /\ call[c].pc = "idle"
    /\ \E f \in matchService(u) : f # None => <<a, f.name, m>> \in Allowed
    /\ Move(c, [NoCall EXCEPT !.pc = "envelope", !.agent = a, !.url = u, !.method = m, !.seen = version])
    /\ UNCHANGED grantVars

\* Mutant: no envelope is looked at.
envelopeSkipped(c) ==
    /\ call[c].pc = "envelope"
    /\ Step(c, "filter")
    /\ UNCHANGED <<events, grantVars>>

enforceProxyEnvelope(c) ==
    /\ call[c].pc = "envelope"
    /\ \E f \in matchService(call[c].url) :
          IF f # None /\ <<call[c].agent, f.name, call[c].method>> \notin Envelope
          THEN Refuse(c) ELSE Step(c, "filter")
    /\ UNCHANGED <<events, grantVars>>

\* Path and body filters; auto_revoke_on_deny acts on the service found here.
RequestFilter(c) ==
    /\ call[c].pc = "filter"
    /\ \E f \in matchService(call[c].url) :
          IF f = None \/ call[c].url \notin f.svc.cfg.deny THEN Step(c, "resolve")
          ELSE IF f.svc.cfg.auto THEN Move(c, [call[c] EXCEPT !.pc = "suspend", !.found = f])
          ELSE Refuse(c)
    /\ UNCHANGED <<events, grantVars>>

\* Enabled is set without a lock and not saved; a service replaced meanwhile is spared.
AutoRevoke(c) ==
    LET f == call[c].found
    IN  /\ call[c].pc = "suspend"
        /\ services' = IF f.name \in DOMAIN services /\ services[f.name].made = f.svc.made
                       THEN [services EXCEPT ![f.name].enabled = FALSE] ELSE services
        /\ call' = [call EXCEPT ![c] = NoCall]
        /\ UNCHANGED <<version, admin, dns, events, fileVars, grantVars>>

\* Do: the network policy; the first of the addresses is the one to connect to.
ResolveHost(c) ==
    /\ call[c].pc = "resolve"
    /\ IF evaluatePolicy(call[c].url)
       THEN \E ip \in dns[call[c].url] : Move(c, [call[c] EXCEPT !.pc = "match", !.ip = ip])
       ELSE Refuse(c)
    /\ UNCHANGED <<events, grantVars>>

\* Without a service the request goes out as it is.  Otherwise the service must be
\* enabled and take the method and the path.
MatchAgain(c) ==
    /\ call[c].pc = "match"
    /\ \E f \in matchService(call[c].url) :
          IF f = None THEN Step(c, "client")
          ELSE IF ~f.svc.enabled \/ <<call[c].method, call[c].url>> \notin f.svc.cfg.methods THEN Refuse(c)
          ELSE Move(c, [call[c] EXCEPT !.pc = "validate", !.found = f])
    /\ UNCHANGED <<events, grantVars>>

grantMode(cfg) == IF cfg.grant = "default" THEN mode ELSE cfg.grant

\* A grant is looked for, and issued in a second step when there was none.
ValidateGrant(c) ==
    /\ call[c].pc = "validate"
    /\ IF grantMode(call[c].found.svc.cfg) = "ttl" /\ Valid(call[c].agent, call[c].found.name) = {}
       THEN Step(c, "issue") ELSE Step(c, "client")
    /\ UNCHANGED <<events, grantVars>>

IssueGrant(c) ==
    /\ call[c].pc = "issue"
    /\ Issue(call[c].agent, call[c].found.name)
    /\ Step(c, "client")
    /\ UNCHANGED <<events, mode, ttl>>

\* tls_verify with broken TLS settings gives a client that only fails.
buildServiceClient(cfg) == [verify |-> cfg.verify, closed |-> cfg.closed /\ cfg.verify]

\* The client under the service's name now; the default one for what is not, or no
\* longer, a service.
serviceClient(f) == IF f = None \/ f.name \notin DOMAIN services THEN DefaultClient
                    ELSE buildServiceClient(services[f.name].cfg)

injectCredentials(f) == IF f = None THEN None ELSE f.name

\* Mutant: the name is resolved again for the connection.
resolvedAgain(c) == dns[call[c].url]

\* The address the request is sent to: the one that was resolved, not a new answer.
pinnedURL(c) == {call[c].ip}

\* The request goes out with the credentials of the service found by MatchAgain.
Send(c) ==
    /\ call[c].pc = "client"
    /\ \E ip \in pinnedURL(c) :
          Move(c, [call[c] EXCEPT !.pc = "sent", !.ip = ip, !.client = serviceClient(call[c].found),
                                  !.credentials = injectCredentials(call[c].found)])
    /\ UNCHANGED <<events, grantVars>>

\* The answer, an error, or the timeout.
Answered(c) ==
    /\ call[c].pc = "sent"
    /\ Refuse(c)
    /\ UNCHANGED <<events, grantVars>>

-----------------------------------------------------------------------------
(* The dashboard.                                                            *)

Accept(d) == /\ Event /\ ~admin[d].busy
             /\ admin' = [admin EXCEPT ![d] = [busy |-> TRUE, ok |-> FALSE]]
             /\ BeginSave(d)
             /\ UNCHANGED <<call, dns, file, tmp, grantVars>>

\* AddService puts the service in and does not take it back when the save fails.
AddService(n, c) ==
    /\ services' = [m \in DOMAIN services \cup {n} |->
                      IF m = n THEN [cfg |-> c, enabled |-> c.enabled, made |-> version + 1] ELSE services[m]]
    /\ version' = version + 1

\* Name, prefix and auth type are there; defaults are in place.
validService(c) == c.valid

\* An invalid configuration is refused before anything changes.
handleUpdateService(d, n, c) == validService(c) /\ AddService(n, c) /\ Accept(d)

RemoveService(n) ==
    /\ n \in DOMAIN services
    /\ services' = [m \in DOMAIN services \ {n} |-> services[m]]
    /\ version' = version + 1

handleDeleteService(d, n) == RemoveService(n) /\ Accept(d)

handleToggleService(d, n) ==
    /\ n \in DOMAIN services
    /\ services' = [services EXCEPT ![n].enabled = ~@]
    /\ version' = version
    /\ Accept(d)

\* What save writes; made is not part of a configuration.
TableNow == [n \in DOMAIN services |-> [cfg |-> services[n].cfg, enabled |-> services[n].enabled]]

save(d) ==
    /\ CopyTable(d, TableNow) \/ SaveStep(d)
    /\ UNCHANGED <<services, version, admin, call, dns, events, grantVars>>

SaveEnded(d) ==
    /\ admin[d].busy /\ saver[d].pc \in {"saved", "failed"}
    /\ admin' = [admin EXCEPT ![d] = [busy |-> FALSE, ok |-> saver[d].pc = "saved"]]
    /\ saver' = [saver EXCEPT ![d] = Resting("idle")]
    /\ UNCHANGED <<services, version, call, dns, events, file, tmp, grantVars>>

-----------------------------------------------------------------------------
(* The environment, time and restarts.                                       *)

ResolverChanges(u, answer) ==
    /\ Event
    /\ dns' = [dns EXCEPT ![u] = answer]
    /\ UNCHANGED <<services, version, admin, call, fileVars, grantVars>>

Tick ==
    /\ grants' = [i \in GrantIds |-> Aged(grants[i])]
    /\ UNCHANGED <<services, version, admin, call, dns, events, fileVars, mode, ttl>>

\* The grant store on its own: revocation and settings in the dashboard, the cleanup loop.
GrantStep ==
    /\ \/ Event /\ \E i \in GrantIds : RevokeGrant(i)
       \/ Event /\ \E m \in Modes, d \in DefaultTTLs : UpdateGrantSettings(m, d)
       \/ cleanExpired /\ UNCHANGED events
    /\ UNCHANGED <<services, version, admin, call, dns, fileVars>>

\* NewProxyEngine loads the file; what was not saved, suspensions too, is undone.
Restart ==
    /\ Event
    /\ services' = [n \in DOMAIN Loaded(<<>>) |-> [cfg |-> Loaded(<<>>)[n].cfg, enabled |-> Loaded(<<>>)[n].enabled,
                                                   made |-> version + 1]]
    /\ version' = version + 1
    /\ admin' = [d \in Admins |-> [busy |-> FALSE, ok |-> TRUE]]
    /\ call' = [c \in Callers |-> NoCall]
    /\ FileRestart
    /\ grants' = [i \in GrantIds |-> NoGrant] /\ mode' = "ttl" /\ ttl' \in DefaultTTLs
    /\ UNCHANGED dns

-----------------------------------------------------------------------------
AdminStep(d) ==
    \/ \E n \in Services, c \in Configs : handleUpdateService(d, n, c)
    \/ \E n \in Services : handleDeleteService(d, n) \/ handleToggleService(d, n)
    \/ save(d) \/ SaveEnded(d)

Serve(c) == \/ enforceProxyEnvelope(c) \/ RequestFilter(c) \/ AutoRevoke(c) \/ ResolveHost(c)
            \/ MatchAgain(c) \/ ValidateGrant(c) \/ IssueGrant(c) \/ Send(c) \/ Answered(c)

Next ==
    \/ \E d \in Admins : AdminStep(d)
    \/ \E c \in Callers : Serve(c)
    \/ \E c \in Callers, a \in GrantAgents, u \in Urls, m \in Methods : toolHTTPRequest(c, a, u, m)
    \/ \E u \in Urls, answer \in Answers : ResolverChanges(u, answer)
    \/ Tick \/ GrantStep \/ Restart

Spec == Init /\ [][Next]_vars

-----------------------------------------------------------------------------
\* Types of the proxy's state; a request that goes out has an address and, if it
\* has a service, the configuration it was matched with.
TypeOK ==
    /\ DOMAIN services \subseteq Services
    /\ \A n \in DOMAIN services : services[n] \in ServiceRecords /\ services[n].made <= version
    /\ version \in Nat /\ events \in 0..MaxEvents
    /\ admin \in [Admins -> [busy : BOOLEAN, ok : BOOLEAN]]
    /\ call \in [Callers -> Calls]
    /\ \A c \in Callers : /\ call[c].pc \in {"match", "validate", "issue", "client", "sent"} => call[c].ip # None
                         /\ call[c].pc \in {"suspend", "validate", "issue"} => call[c].found # None
    /\ dns \in [Urls -> Answers]
    /\ FileTypeOK /\ GrantsTypeOK

\* A request on its way goes to an address the network policy allows, even when
\* the name resolves to another one since the check.
PinnedToPolicy ==
    \A c \in Callers : call[c].pc = "sent" => evaluateIPPolicy(call[c].ip, call[c].url)

\* As long as the table has not changed since a request came in, and no two services
\* tie for its URL, its five lookups agree: it carries the credentials of the service that matches its URL, which its
\* agent and its envelope may use with this method, over the client of that service.
SentAsConfigured ==
    \A c \in Callers : call[c].pc = "sent" /\ call[c].seen = version /\ Cardinality(matchService(call[c].url)) = 1 =>
        \A f \in matchService(call[c].url) :
            IF f = None THEN call[c].credentials = None
            ELSE /\ call[c].credentials = f.name
                 /\ <<call[c].agent, f.name, call[c].method>> \in Allowed \cap Envelope
                 /\ call[c].client = buildServiceClient(f.svc.cfg)

\* Racing requests of one agent for one service share one grant: at any time at
\* most one is valid, so that revoking the one on the dashboard leaves none.
OneValidGrant ==
    \A a \in GrantAgents, t \in Services : Cardinality(Valid(a, t)) <= 1

=============================================================================
