----------------------------- MODULE Federation -----------------------------
(***************************************************************************)
(* The federator: the table of remote MCP servers an admin configures, the *)
(* handshake that discovers their tools, the loop that repeats it with     *)
(* backoff, and the calls that agents make through the broker.             *)
(*                                                                         *)
(* A remote is an object of its own; discoveries and calls keep the        *)
(* pointer they looked up, and go on with it when the table has another    *)
(* object under that name, or none.  Times are kept as ages: how long ago  *)
(* LastRefresh was, counted up to the longest delay the loop compares with.*)
(***************************************************************************)
EXTENDS Integers, Sequences, FiniteSets, ConfigFile, AccessGrants

CONSTANTS
    Configs,       \* what a PUT may carry: see ConfigAssumption
    Allowed,       \* <<agent, name>> that permissions and envelope let through
    Args,          \* arguments of tool calls
    Callers,       \* goroutines of agents' calls
    Loop,          \* the goroutine of refreshLoop
    Background,    \* goroutines for discoveries started by PUT and by refresh
    MaxEvents,     \* bound: requests of admins and agents, servers' changes, restarts
    MaxObjects,    \* bound: remotes in memory, the replaced ones included
    Backoffs,      \* delays of backoffDuration
    RefreshAfter,  \* RefreshSeconds of every configuration
    None

ASSUME ConfigAssumption ==
    /\ \A c \in Configs : /\ c.valid \in BOOLEAN      \* validateConfig accepts it
                          /\ c.closed \in BOOLEAN     \* its TLS settings are broken: fails closed
                          /\ c.deny \subseteq Args    \* arguments the filter refuses
                          /\ c.auto \in BOOLEAN       \* auto_revoke_on_deny
                          /\ c.grant \in Modes \cup {"default"}
                          /\ c.enabled \in BOOLEAN
                          /\ {"url", "prefix"} \subseteq DOMAIN c
    /\ Tables = UNION {[S -> [cfg : Configs, enabled : BOOLEAN]] : S \in SUBSET Resources}

ASSUME DelayAssumption ==
    /\ Backoffs \in Seq(Nat) /\ Len(Backoffs) > 0 /\ RefreshAfter \in Nat
    /\ Loop \notin Background /\ MaxObjects \in Nat /\ MaxEvents \in Nat
    /\ "base" \notin Callers

Admins == Savers
Names == Resources
Discoverers == Background \cup {Loop}
Ids == 1..MaxObjects
Urls == {c.url : c \in Configs}
Prefixes == {c.prefix : c \in Configs}
Delays == {Backoffs[i] : i \in DOMAIN Backoffs} \cup {RefreshAfter}
MaxAge == CHOOSE d \in Delays : \A e \in Delays : e <= d

VARIABLES
    obj,           \* RemoteMCPState by number
    table,         \* remotes: name -> number
    admin,         \* per admin: the request it handles, and whether the last one was saved
    disc,          \* per discoverer: where it is and on which object
    todo,          \* what refreshLoop has still to visit
    call,          \* per caller: its request
    up,            \* addresses at which a server answers
    events         \* events so far

fedVars == <<obj, table, disc, todo>>
vars == <<obj, table, admin, disc, todo, call, up, events, fileVars, grantVars>>

\* client is httpClient: the one built from the configuration or that of a call.
Objects == [cfg : Configs, enabled : BOOLEAN,
            status : {"disconnected", "initializing", "connected", "error"},
            errs : 0..Len(Backoffs), age : 0..MaxAge, tools : Urls \cup {None},
            client : {"base"} \cup Callers]
NoObject == [status |-> "none"]

Requests == [kind : {"none", "replace", "add", "delete", "toggle"}, name : Names \cup {None},
             cfg : Configs \cup {None}, obj : Ids \cup {0}, saved : BOOLEAN]
Calls == [pc : {"idle", "suspend", "admitted", "granted", "sent"}, agent : GrantAgents \cup {None},
          name : Names \cup {None}, obj : Ids \cup {0}, client : {"base", "none"} \cup Callers]
Answered(saved) == [kind |-> "none", name |-> None, cfg |-> None, obj |-> 0, saved |-> saved]
NoCall == [pc |-> "idle", agent |-> None, name |-> None, obj |-> 0, client |-> "none"]
Asleep == [pc |-> "idle", obj |-> 0]

\* A new object: LastRefresh is the zero time.
Fresh(c, enabled, status) ==
    [cfg |-> c, enabled |-> enabled, status |-> status, errs |-> 0, age |-> MaxAge,
     tools |-> None, client |-> "base"]

\* Pointers to an object; what nobody points to is gone.
Referenced(o) == \/ \E n \in DOMAIN table : table[n] = o
                 \/ \E p \in Discoverers : disc[p].obj = o
                 \/ \E c \in Callers : call[c].obj = o
                 \/ \E d \in Admins : admin[d].obj = o
                 \/ o \in todo
Unused == {o \in Ids : obj[o] = NoObject \/ ~Referenced(o)}

\* What save writes: the configurations, and Enabled as it is now.
Saved(n) == [cfg |-> obj[table[n]].cfg, enabled |-> obj[table[n]].enabled]

\* Mutant: only what is enabled is saved.
TableEnabled == [n \in {m \in DOMAIN table : obj[table[m]].enabled} |-> Saved(n)]

TableNow == [n \in DOMAIN table |-> Saved(n)]

Init ==
    /\ obj = [o \in Ids |-> NoObject]
    /\ table = <<>>
    /\ admin = [d \in Admins |-> Answered(TRUE)]
    /\ disc = [p \in Discoverers |-> Asleep]
    /\ todo = {}
    /\ call = [c \in Callers |-> NoCall]
    /\ up = Urls
    /\ events = 0
    /\ FileInit /\ GrantsInit

\* Something comes from outside the broker.
Event == events < MaxEvents /\ events' = events + 1

Without(n) == [m \in DOMAIN table \ {n} |-> table[m]]

Ask(d, kind, n, c, o) ==
    admin' = [admin EXCEPT ![d] = [kind |-> kind, name |-> n, cfg |-> c, obj |-> o, saved |-> FALSE]]

Answer(d, saved) == /\ admin' = [admin EXCEPT ![d] = Answered(saved)]
                    /\ saver' = [saver EXCEPT ![d] = Resting("idle")]

-----------------------------------------------------------------------------
(* The dashboard.                                                            *)

\* RemoveRemote does not put the remote back when its save fails.
RemoveRemote(d, n) ==
    /\ table' = Without(n)
    /\ IF n \in DOMAIN table THEN BeginSave(d) ELSE saver' = [saver EXCEPT ![d] = Resting("failed")]

\* handlePutRemote removes the old remote first and ignores any error, "not found" too.
PutRemote(d, n, c) ==
    /\ Event /\ admin[d].kind = "none"
    /\ Ask(d, "replace", n, c, 0)
    /\ RemoveRemote(d, n)
    /\ UNCHANGED <<obj, disc, todo, call, up, file, tmp, grantVars>>

\* Names, addresses and credentials a configuration must have; defaults are in place.
validateConfig(c) == c.valid

\* AddRemote: an invalid configuration, or a name in use, ends the request.
AddRemote(d) ==
    LET n == admin[d].name   c == admin[d].cfg
    IN  /\ admin[d].kind = "replace" /\ saver[d].pc \in {"saved", "failed"}
        /\ IF ~validateConfig(c) \/ n \in DOMAIN table
           THEN Answer(d, FALSE) /\ UNCHANGED <<obj, table>>
           ELSE /\ Unused # {}
                /\ LET o == CHOOSE o \in Unused : TRUE
                   IN  /\ obj' = [obj EXCEPT ![o] = Fresh(c, c.enabled, "initializing")]
                       /\ table' = [m \in DOMAIN table \cup {n} |-> IF m = n THEN o ELSE table[m]]
                       /\ Ask(d, "add", n, c, o)
                /\ BeginSave(d)
        /\ UNCHANGED <<events, disc, todo, call, up, file, tmp, grantVars>>

\* The save succeeded: the discovery starts in a goroutine of its own, with the object added.
AddSaved(d, p) ==
    /\ admin[d].kind = "add" /\ saver[d].pc = "saved"
    /\ disc[p].pc = "idle"
    /\ disc' = [disc EXCEPT ![p] = [pc |-> "begin", obj |-> admin[d].obj]]
    /\ Answer(d, TRUE)
    /\ UNCHANGED <<events, obj, table, todo, call, up, file, tmp, grantVars>>

\* It failed: the addition is taken back, by name.
AddFailed(d) ==
    /\ admin[d].kind = "add" /\ saver[d].pc = "failed"
    /\ table' = Without(admin[d].name)
    /\ Answer(d, FALSE)
    /\ UNCHANGED <<events, obj, disc, todo, call, up, file, tmp, grantVars>>

\* Mutant: the object is destroyed with its entry.
DeleteFrees(d, n) ==
    /\ Event /\ admin[d].kind = "none" /\ n \in DOMAIN table
    /\ RemoveRemote(d, n)
    /\ obj' = [obj EXCEPT ![table[n]] = NoObject]
    /\ Ask(d, "delete", n, None, 0)
    /\ UNCHANGED <<disc, todo, call, up, file, tmp, grantVars>>

DeleteRemote(d, n) ==
    /\ Event /\ admin[d].kind = "none" /\ n \in DOMAIN table
    /\ RemoveRemote(d, n)
    /\ Ask(d, "delete", n, None, 0)
    /\ UNCHANGED <<obj, disc, todo, call, up, file, tmp, grantVars>>

ToggleRemote(d, n) ==
    /\ Event /\ admin[d].kind = "none" /\ n \in DOMAIN table
    /\ obj' = [obj EXCEPT ![table[n]] =
                 IF @.enabled THEN [@ EXCEPT !.enabled = FALSE, !.status = "disconnected"]
                              ELSE [@ EXCEPT !.enabled = TRUE]]
    /\ Ask(d, "toggle", n, None, 0)
    /\ BeginSave(d)
    /\ UNCHANGED <<table, disc, todo, call, up, file, tmp, grantVars>>

\* A removal or a toggle keeps its effect in memory however its save ended; a toggle
\* is answered 200 even then.  admin keeps whether it was saved, not what was answered.
SaveEnded(d) ==
    /\ admin[d].kind \in {"delete", "toggle"} /\ saver[d].pc \in {"saved", "failed"}
    /\ Answer(d, saver[d].pc = "saved")
    /\ UNCHANGED <<events, obj, table, disc, todo, call, up, file, tmp, grantVars>>

save(d) ==
    /\ CopyTable(d, TableNow) \/ SaveStep(d)
    /\ UNCHANGED <<events, fedVars, admin, call, up, grantVars>>

\* handleRefreshRemote starts a discovery whatever the remote's state.
RefreshRemote(p, n) ==
    /\ Event /\ disc[p].pc = "idle" /\ n \in DOMAIN table
    /\ disc' = [disc EXCEPT ![p] = [pc |-> "begin", obj |-> table[n]]]
    /\ UNCHANGED <<obj, table, admin, todo, call, up, fileVars, grantVars>>

-----------------------------------------------------------------------------
(* Discovery.                                                                *)

\* buildHTTPClient: tls_verify with broken TLS settings gives a client that only fails.
FailsClosed(r) == r.cfg.closed

\* A request sent now is answered.
Reachable(o) == ~FailsClosed(obj[o]) /\ obj[o].cfg.url \in up

BeginDiscovery(p) ==
    /\ disc[p].pc = "begin"
    /\ obj' = [obj EXCEPT ![disc[p].obj].status = "initializing"]
    /\ disc' = [disc EXCEPT ![p].pc = "handshake"]
    /\ UNCHANGED <<events, table, admin, todo, call, up, fileVars, grantVars>>

\* What discoverRemote writes at its end, whatever happened to the remote meanwhile.
Discovered(r) == [r EXCEPT !.status = "connected", !.tools = r.cfg.url, !.errs = 0, !.age = 0]

\* ErrorCount is told apart up to the number of delays.
Bumped(r) == [r EXCEPT !.errs = IF @ < Len(Backoffs) THEN @ + 1 ELSE @]

markError(r) == [Bumped(r) EXCEPT !.status = "error", !.age = 0]

\* Mutant: the result is stored under the name, in whatever object has it now.
EndByName(p) ==
    LET o == disc[p].obj
    IN  /\ disc[p].pc = "handshake"
        /\ obj' = [q \in Ids |-> IF \E n \in DOMAIN table : table[n] = q /\ Reachable(o)
                                  THEN [obj[q] EXCEPT !.status = "connected", !.tools = obj[o].cfg.url, !.errs = 0, !.age = 0]
                                  ELSE obj[q]]
        /\ disc' = [disc EXCEPT ![p] = Asleep]
        /\ UNCHANGED <<events, table, admin, todo, call, up, fileVars, grantVars>>

\* The handshake ends; the first request without an answer ends it early.
EndDiscovery(p) ==
    LET o == disc[p].obj
    IN  /\ disc[p].pc = "handshake"
        /\ obj' = [obj EXCEPT ![o] = IF Reachable(o) THEN Discovered(@) ELSE markError(@)]
        /\ disc' = [disc EXCEPT ![p] = Asleep]
        /\ UNCHANGED <<events, table, admin, todo, call, up, fileVars, grantVars>>

backoffDuration(n) == Backoffs[IF n <= 0 THEN 1 ELSE IF n > Len(Backoffs) THEN Len(Backoffs) ELSE n]

\* Mutant: errors are left to the admin.
refreshNoError(r) == r.enabled /\ (r.status # "error") /\ (r.status = "connected" => r.age >= RefreshAfter)

shouldRefresh(r) ==
    /\ r.enabled
    /\ \/ r.status \in {"disconnected", "initializing"}
       \/ r.status = "error" /\ r.age >= backoffDuration(r.errs)
       \/ r.status = "connected" /\ r.age >= RefreshAfter

\* refreshLoop: a snapshot of the table, then one remote after the other.
LoopTick ==
    /\ disc[Loop].pc = "idle" /\ todo = {} /\ DOMAIN table # {}
    /\ todo' = {table[n] : n \in DOMAIN table}
    /\ UNCHANGED <<events, obj, table, admin, disc, call, up, fileVars, grantVars>>

LoopVisit(o) ==
    /\ disc[Loop].pc = "idle" /\ o \in todo
    /\ todo' = todo \ {o}
    /\ disc' = IF shouldRefresh(obj[o]) THEN [disc EXCEPT ![Loop] = [pc |-> "begin", obj |-> o]] ELSE disc
    /\ UNCHANGED <<events, obj, table, admin, call, up, fileVars, grantVars>>

-----------------------------------------------------------------------------
(* Calls of agents.                                                          *)

Move(c, l) == call' = [call EXCEPT ![c] = l]
Step(c, pc) == Move(c, [call[c] EXCEPT !.pc = pc])

\* ParseFederatedTool: one of the remotes with this prefix, in the order of a Go map.
Named(p) == {n \in DOMAIN table : obj[table[n]].cfg.prefix = p}

\* The agent's permissions and the envelope of its task.
CanAccessRemote(a, n) == <<a, n>> \in Allowed

\* handleFederatedToolCall up to the argument filter.
ToolCall(c, a, n, arg) ==
    /\ Event /\ call[c].pc = "idle"
    /\ obj[table[n]].enabled /\ CanAccessRemote(a, n)
    /\ LET cfg == obj[table[n]].cfg
           l(pc) == [NoCall EXCEPT !.pc = pc, !.agent = a, !.name = n, !.obj = table[n]]
       IN  IF arg \in cfg.deny THEN cfg.auto /\ Move(c, l("suspend")) ELSE Move(c, l("admitted"))
    /\ UNCHANGED <<fedVars, admin, up, fileVars, grantVars>>

\* auto_revoke_on_deny switches the remote off in memory; nothing saves it.
AutoRevoke(c) ==
    /\ call[c].pc = "suspend"
    /\ obj' = [obj EXCEPT ![call[c].obj].enabled = FALSE]
    /\ Move(c, NoCall)
    /\ UNCHANGED <<events, table, admin, disc, todo, up, fileVars, grantVars>>

\* The grant mode of the configuration that has the name by now overrides the store's.
grantMode(n) == IF n \in DOMAIN table /\ obj[table[n]].cfg.grant # "default"
                THEN obj[table[n]].cfg.grant ELSE mode

GrantAccess(c) ==
    /\ call[c].pc = "admitted"
    /\ IF grantMode(call[c].name) = "ttl" THEN Issue(call[c].agent, call[c].name) ELSE UNCHANGED grants
    /\ Step(c, "granted")
    /\ UNCHANGED <<events, fedVars, admin, up, fileVars, mode, ttl>>

\* callRemoteTool puts a client with the call's timeout in place of the one it
\* finds, unless the timeout is not positive.
SendCall(c, own) ==
    /\ call[c].pc = "granted"
    /\ Move(c, [call[c] EXCEPT !.pc = "sent", !.client = IF own THEN obj[call[c].obj].client ELSE "none"])
    /\ obj' = IF own THEN [obj EXCEPT ![call[c].obj].client = c] ELSE obj
    /\ UNCHANGED <<events, table, admin, disc, todo, up, fileVars, grantVars>>

\* The remote after a call: the client found at its start is put back.
Restored(r, client) == IF client = "none" THEN r ELSE [r EXCEPT !.client = client]

\* The answer of a call or a read.  A failure counts, but leaves the status.
EndCall(c) ==
    LET o == call[c].obj
    IN  /\ call[c].pc = "sent"
        /\ obj' = [obj EXCEPT ![o] = Restored(IF Reachable(o) THEN @ ELSE Bumped(@), call[c].client)]
        /\ Move(c, NoCall)
        /\ UNCHANGED <<events, table, admin, disc, todo, up, fileVars, grantVars>>

\* handleResourcesRead asks neither for permission nor whether the remote is enabled.
ReadResource(c, a, n) ==
    /\ Event /\ call[c].pc = "idle"
    /\ Move(c, [NoCall EXCEPT !.pc = "sent", !.agent = a, !.name = n, !.obj = table[n]])
    /\ UNCHANGED <<fedVars, admin, up, fileVars, grantVars>>

\* FederatedToolDefinitions: the servers whose tools are listed under a name.
OfferedTools(n) == IF obj[table[n]].enabled THEN {obj[table[n]].tools} \ {None} ELSE {}

\* FederatedResources lists those of remotes that are off, too.
OfferedResources(n) == {obj[table[n]].tools} \ {None}

\* GetRemoteState and ListRemoteStates: what the dashboard shows.
Shown(n) == obj[table[n]].status

-----------------------------------------------------------------------------
(* The environment, time and restarts.                                       *)

ServerChanges(u) ==
    /\ Event
    /\ up' = IF u \in up THEN up \ {u} ELSE up \cup {u}
    /\ UNCHANGED <<fedVars, admin, call, fileVars, grantVars>>

\* A unit of time passes, for remotes and grants.
Tick ==
    /\ obj' = [o \in Ids |-> IF obj[o] = NoObject \/ obj[o].age = MaxAge THEN obj[o] ELSE [obj[o] EXCEPT !.age = @ + 1]]
    /\ grants' = [i \in GrantIds |-> Aged(grants[i])]
    /\ UNCHANGED <<events, table, admin, disc, todo, call, up, fileVars, mode, ttl>>

\* The grant store on its own: revocation and settings in the dashboard, the cleanup loop.
GrantStep ==
    /\ \/ Event /\ \E i \in GrantIds : RevokeGrant(i)
       \/ cleanExpired /\ UNCHANGED events
       \/ Event /\ \E m \in Modes, d \in DefaultTTLs : UpdateGrantSettings(m, d)
    /\ UNCHANGED <<fedVars, admin, call, up, fileVars>>

\* A restart: the table is what load finds in the file, grants are forgotten.
Restart ==
    LET saved == Loaded(<<>>)
    IN  /\ Event /\ Cardinality(DOMAIN saved) <= MaxObjects
        /\ table' \in {f \in [DOMAIN saved -> Ids] : \A m, n \in DOMAIN saved : m # n => f[m] # f[n]}
        /\ obj' = [o \in Ids |-> IF \E n \in DOMAIN saved : table'[n] = o
                                  THEN LET n == CHOOSE n \in DOMAIN saved : table'[n] = o
                                       IN  Fresh(saved[n].cfg, saved[n].enabled, "disconnected")
                                  ELSE NoObject]
        /\ admin' = [d \in Admins |-> Answered(TRUE)]
        /\ disc' = [p \in Discoverers |-> Asleep] /\ todo' = {}
        /\ call' = [c \in Callers |-> NoCall]
        /\ FileRestart
        /\ grants' = [i \in GrantIds |-> NoGrant] /\ mode' = "ttl" /\ ttl' \in DefaultTTLs
        /\ UNCHANGED up

-----------------------------------------------------------------------------
AdminStep(d) ==
    \/ \E n \in Names, c \in Configs : PutRemote(d, n, c)
    \/ AddRemote(d)
    \/ \E p \in Background : AddSaved(d, p)
    \/ AddFailed(d)
    \/ \E n \in Names : DeleteRemote(d, n) \/ ToggleRemote(d, n)
    \/ SaveEnded(d)
    \/ save(d)

CallerStep(c) ==
    \/ \E a \in GrantAgents, p \in Prefixes : \E n \in Named(p) :
          ReadResource(c, a, n) \/ \E arg \in Args : ToolCall(c, a, n, arg)
    \/ AutoRevoke(c) \/ GrantAccess(c) \/ EndCall(c)
    \/ \E own \in BOOLEAN : SendCall(c, own)

DiscoveryStep(p) == BeginDiscovery(p) \/ EndDiscovery(p)

LoopStep == LoopTick \/ \E o \in Ids : LoopVisit(o)

Next ==
    \/ \E d \in Admins : AdminStep(d)
    \/ \E p \in Background, n \in Names : RefreshRemote(p, n)
    \/ \E p \in Discoverers : DiscoveryStep(p)
    \/ LoopStep
    \/ \E c \in Callers : CallerStep(c)
    \/ \E u \in Urls : ServerChanges(u)
    \/ Tick \/ GrantStep \/ Restart

Spec == Init /\ [][Next]_vars

\* The loop's ticker fires and its goroutine runs; requests end by answer or timeout;
\* time passes.
Fairness == /\ WF_vars(LoopStep)
            /\ \A p \in Discoverers : WF_vars(DiscoveryStep(p))
            /\ WF_vars(Tick)

FairSpec == Spec /\ Fairness

-----------------------------------------------------------------------------
\* Types of the federator's state; what a pointer leads to is there.
TypeOK ==
    /\ obj \in [Ids -> Objects \cup {NoObject}]
    /\ DOMAIN table \subseteq Names
    /\ \A n \in DOMAIN table : table[n] \in Ids /\ obj[table[n]] # NoObject
    /\ admin \in [Admins -> Requests]
    /\ disc \in [Discoverers -> [pc : {"idle", "begin", "handshake"}, obj : Ids \cup {0}]]
    /\ \A p \in Discoverers : disc[p].pc # "idle" => disc[p].obj \in Ids /\ obj[disc[p].obj] # NoObject
    /\ todo \subseteq Ids /\ \A o \in todo : obj[o] # NoObject
    /\ call \in [Callers -> Calls]
    /\ \A c \in Callers : call[c].pc # "idle" => call[c].obj \in Ids /\ obj[call[c].obj] # NoObject
    /\ up \subseteq Urls /\ events \in 0..MaxEvents
    /\ FileTypeOK /\ GrantsTypeOK

\* However a save ended and whenever the broker died, remotes.json is absent or
\* parses: load never starts fresh because of a save it interrupted.
FileIsWhole == file.kind \in {"missing", "whole"}

\* While no admin's request is under way and the last save of each succeeded, the file
\* has the table, whatever failed before: a restart would change nothing but the
\* remotes that were suspended in memory only.
FileFollows ==
    (\A d \in Admins : admin[d].kind = "none" /\ admin[d].saved) =>
    /\ DOMAIN Loaded(<<>>) = DOMAIN table
    /\ \A n \in DOMAIN table : /\ Loaded(<<>>)[n].cfg = obj[table[n]].cfg
                              /\ obj[table[n]].enabled => Loaded(<<>>)[n].enabled

\* Tools and resources are listed under a name only if they were discovered at the address that
\* name stands for now, with discoveries of replaced remotes still under way.
OfferedAreOwn == \A n \in DOMAIN table : OfferedTools(n) \cup OfferedResources(n) \subseteq {obj[table[n]].cfg.url}

\* Ready(n): the remote is enabled and its server answers.
Ready(n) == n \in DOMAIN table /\ obj[table[n]].enabled /\ Reachable(table[n])

\* A remote that stays ready is connected again and again: however many errors it
\* had, the loop comes back to it.
LoopReconnects ==
    \A n \in Names : <>[]Ready(n) => []<>(n \in DOMAIN table /\ Shown(n) = "connected")

=============================================================================
