------------------------------- MODULE Policy -------------------------------
(***************************************************************************)
(* The policy file: what the loader fills in, what it refuses and how it   *)
(* resolves an agent's permissions (policy/loader.go, policy/resolve.go),  *)
(* and the checks `ephyr policy validate` makes (policy/validate.go).      *)
(*                                                                         *)
(* A parsed file is a record:                                              *)
(*   maxTTL, defaultTTL, limit, strict     the global section, 0 for unset *)
(*   roles      name -> "ok", "empty" (no principal) or "malformed"        *)
(*   targets    name -> host, roles, ttl, port and hostkey                 *)
(*   templates  name -> entries                                            *)
(*   agents     name -> uid, key, inherits, entries, dashboard (set or not)*)
(* A key stands for its hash: NoKey where there is none, BadHash for a text*)
(* that is no bcrypt hash and that no key matches.                         *)
(* The entries of an agent or template are its ssh, services and remotes   *)
(* maps in one: <<section, name>> -> roles, methods or tools.  A hostkey   *)
(* is "none", "key", "badkey", "mismatch", "print" or "badprint".          *)
(***************************************************************************)
EXTENDS Integers, Sequences, FiniteSets, TLC, SequencesExt

CONSTANTS Star,       \* the name "*" in an entry
          NoKey, BadHash, NoHost,
          Defaults    \* the values applyDefaults fills in

Or(value, default) == IF value = 0 THEN default ELSE value

WithPort(target) == [target EXCEPT !.port = Or(@, Defaults.port)]

applyDefaults(cfg) ==
    [cfg EXCEPT !.maxTTL = Or(@, Defaults.maxTTL), !.defaultTTL = Or(@, Defaults.defaultTTL),
                !.limit = [max |-> Or(@.max, Defaults.limit.max), window |-> Or(@.window, Defaults.limit.window)],
                !.targets = [t \in DOMAIN cfg.targets |-> WithPort(cfg.targets[t])]]

\* No two members of S have the same field.
Distinct(S, Field(_)) == \A x, y \in S : x # y => Field(x) # Field(y)

\* The conditions under which validate returns no error.
AgentsOK(cfg) ==
    /\ DOMAIN cfg.agents # {}
    /\ Distinct(DOMAIN cfg.agents, LAMBDA a : cfg.agents[a].uid)

\* Mutant: a template that is not defined is let through.
TemplatesUnchecked(cfg) == TRUE

TemplatesOK(cfg) ==
    \A a \in DOMAIN cfg.agents : ToSet(cfg.agents[a].inherits) \subseteq DOMAIN cfg.templates

TargetsOK(cfg) ==
    /\ Distinct(DOMAIN cfg.targets, LAMBDA t : <<cfg.targets[t].host, cfg.targets[t].port>>)
    /\ \A t \in DOMAIN cfg.targets :
          /\ cfg.targets[t].roles \subseteq DOMAIN cfg.roles
          /\ cfg.targets[t].ttl <= cfg.maxTTL
          /\ cfg.targets[t].host # NoHost

HostKeysOK(cfg) ==
    \A t \in DOMAIN cfg.targets :
        /\ cfg.targets[t].hostkey \notin {"badkey", "mismatch", "badprint"}
        /\ cfg.strict => cfg.targets[t].hostkey # "none"

RolesOK(cfg) == \A r \in DOMAIN cfg.roles : cfg.roles[r] = "ok"

validate(cfg) ==
    /\ cfg.defaultTTL <= cfg.maxTTL
    /\ AgentsOK(cfg) /\ TemplatesOK(cfg) /\ TargetsOK(cfg) /\ RolesOK(cfg) /\ HostKeysOK(cfg)

\* The checks of the command line: the codes of the errors they find.  E6, a duration
\* that does not parse, is refused by both and has no place in the record; warnings are
\* left out.
Errors == {"E1", "E2", "E3", "E4", "E5", "E7", "E8", "E9", "E10", "E11", "E12", "E13"}

validateGlobal(cfg) == {e \in Errors : e = "E7" /\ cfg.defaultTTL > cfg.maxTTL}

validateRoles(cfg) == {e \in Errors : e = "E4" /\ \E r \in DOMAIN cfg.roles : cfg.roles[r] = "empty"}

MaxPort == 65535

\* A target without a host is not looked at further.
Hosted(cfg) == {t \in DOMAIN cfg.targets : cfg.targets[t].host # NoHost}

validateTargets(cfg) ==
    {e \in Errors :
      \/ e = "E5" /\ Hosted(cfg) # DOMAIN cfg.targets
      \/ \E t \in Hosted(cfg) :
            \/ e = "E9" /\ cfg.targets[t].port \notin 0..MaxPort
            \/ e = "E3" /\ ~(cfg.targets[t].roles \subseteq DOMAIN cfg.roles)
            \/ e = "E8" /\ cfg.targets[t].ttl > cfg.maxTTL
            \/ e = "E10" /\ cfg.strict /\ cfg.targets[t].hostkey = "none"
            \/ e = "E11" /\ cfg.targets[t].hostkey = "badprint"}

validateAgents(cfg) ==
    {e \in Errors :
      \/ e = "E1" /\ DOMAIN cfg.agents = {}
      \/ e = "E2" /\ \E a \in DOMAIN cfg.agents : \E name \in ToSet(cfg.agents[a].inherits) : name \notin DOMAIN cfg.templates
      \/ e = "E12" /\ \E a \in DOMAIN cfg.agents : cfg.agents[a].key = BadHash
      \/ e = "E13" /\ ~Distinct(DOMAIN cfg.agents, LAMBDA a : cfg.agents[a].uid)}

ValidatePolicy(cfg) == validateGlobal(cfg) \cup validateRoles(cfg) \cup validateTargets(cfg) \cup validateAgents(cfg)

-----------------------------------------------------------------------------
\* The entries of first, and those of second under the keys that first has not.
Over(first, second) ==
    [e \in DOMAIN first \cup DOMAIN second |-> IF e \in DOMAIN first THEN first[e] ELSE second[e]]

\* An agent without entries, templates or dashboard level is not restricted.
Legacy(agent) == agent.entries = <<>> /\ agent.inherits = <<>> /\ ~agent.dashboard

\* Mutant: the last template that has an entry wins, as docs/configuration.md has it.
mergeLast(entries, template) == Over(template, entries)

\* mergeTemplatePerms: an entry that is there already stays.
mergeTemplatePerms(entries, template) == Over(entries, template)

\* The entries of the templates, from left to right.
Inherited(templates, names) ==
    FoldLeft(LAMBDA entries, name : mergeTemplatePerms(entries, templates[name]), <<>>, names)

\* What is inherited, then the agent's own entries over it; the roles of a target that
\* exists are cut down to those it allows.
resolveAgent(cfg, a) ==
    LET agent == cfg.agents[a]
        entries == Over(agent.entries, Inherited(cfg.templates, agent.inherits))
    IN  [legacy |-> Legacy(agent),
         entries |-> [e \in DOMAIN entries |->
                        IF e[1] = "ssh" /\ e[2] \in DOMAIN cfg.targets
                        THEN entries[e] \cap cfg.targets[e[2]].roles ELSE entries[e]]]

\* What applies to a name: the entry for it, or else the one for "*".
Applying(perms, section, name) ==
    IF <<section, name>> \in DOMAIN perms.entries THEN {perms.entries[<<section, name>>]}
    ELSE IF <<section, Star>> \in DOMAIN perms.entries THEN {perms.entries[<<section, Star>>]}
    ELSE {}

\* CanAccessTarget with GetTargetRoles, CanAccessService, CanAccessRemote: an empty list
\* lets everything through, for roles as for methods and tools.
CanAccess(perms, section, name, item) ==
    perms.legacy \/ \E list \in Applying(perms, section, name) : list = {} \/ item \in list

=============================================================================
