---------------------------- MODULE AccessGrants ----------------------------
(***************************************************************************)
(* The grant store of the broker (internal/broker/grants.go): time-limited *)
(* access grants for services of the HTTP proxy and for federated remotes. *)
(* A call through the proxy or to a remote looks for a valid grant and     *)
(* issues one when there is none; an admin may revoke a grant, and a       *)
(* background loop marks and removes the expired ones.                     *)
(*                                                                         *)
(* A grant carries the time it has left, ExpiresAt - now, which Tick       *)
(* counts down: valid while positive, neither valid nor expired at zero    *)
(* (ExpiresAt.After(now) and ExpiresAt.Before(now) are both strict).       *)
(***************************************************************************)
EXTENDS Integers, FiniteSets

CONSTANTS
    GrantAgents,     \* names of the agents that hold grants
    Resources,       \* services or remotes they are granted
    DefaultTTLs,     \* lifetimes the dashboard may configure
    Linger,          \* how long a dead grant is kept for the dashboard
    MaxGrants        \* bound: grants kept at a time

ASSUME GrantAssumption ==
    /\ DefaultTTLs \subseteq Nat \ {0} /\ \E longest \in DefaultTTLs : \A t \in DefaultTTLs : t <= longest
    /\ Linger \in Nat /\ MaxGrants \in Nat

VARIABLES
    grants,          \* id -> grant
    mode,            \* GrantStore.Mode
    ttl              \* GrantStore.DefaultServiceTTL and DefaultMCPTTL

grantVars == <<grants, mode, ttl>>

GrantIds == 1..MaxGrants
Modes == {"ttl", "passthrough"}
MaxTTL == CHOOSE t \in DefaultTTLs : \A u \in DefaultTTLs : u <= t

Grants == [agent : GrantAgents, target : Resources, left : (-(Linger + 1))..MaxTTL,
           status : {"active", "expired", "revoked"}]
NoGrant == [status |-> "none"]

Issued == {i \in GrantIds : grants[i] # NoGrant}

GrantsInit ==
    /\ grants = [i \in GrantIds |-> NoGrant]
    /\ mode = "ttl"
    /\ ttl \in DefaultTTLs

\* Validate: the grants that let agent a use target t now.
Valid(a, t) ==
    {i \in Issued : /\ grants[i].agent = a /\ grants[i].target = t
                    /\ grants[i].status = "active" /\ grants[i].left > 0}

\* Issue returns the valid grant there is, and makes a new one only when it finds none.
IssueNew(a, t) ==
    /\ \E i \in GrantIds : grants[i] = NoGrant
    /\ LET i == CHOOSE i \in GrantIds : grants[i] = NoGrant /\ \A j \in GrantIds : grants[j] = NoGrant => i <= j
       IN  grants' = [grants EXCEPT ![i] = [agent |-> a, target |-> t, left |-> ttl, status |-> "active"]]

\* Mutant: Issue does not look again.
IssueAlways(a, t) == IssueNew(a, t)

Issue(a, t) ==
    IF Valid(a, t) # {} THEN UNCHANGED grants ELSE IssueNew(a, t)

\* A grant that is not revoked yet is, even an expired one.
Revoke(i) ==
    /\ i \in Issued
    /\ grants[i].status # "revoked"
    /\ grants' = [grants EXCEPT ![i].status = "revoked"]

RevokeGrant(i) == Revoke(i) /\ UNCHANGED <<mode, ttl>>

\* One grant under cleanExpired: marked first, then removed once it is old enough.
Cleaned(g) ==
    LET marked == IF g.status = "active" /\ g.left < 0 THEN [g EXCEPT !.status = "expired"] ELSE g
    IN  IF marked.status # "active" /\ marked.left + Linger < 0 THEN NoGrant ELSE marked

cleanExpired ==
    /\ grants' = [i \in GrantIds |-> IF i \in Issued THEN Cleaned(grants[i]) ELSE NoGrant]
    /\ UNCHANGED <<mode, ttl>>

\* handleUpdateGrantSettings: mode and lifetimes change for the grants to come.
UpdateGrantSettings(m, d) ==
    /\ mode' = m
    /\ ttl' = d
    /\ UNCHANGED grants

\* A unit of time passes for every grant; far beyond the removal age it is not counted.
Aged(g) == IF g = NoGrant \/ g.left = -(Linger + 1) THEN g ELSE [g EXCEPT !.left = @ - 1]

GrantsTypeOK ==
    /\ grants \in [GrantIds -> Grants \cup {NoGrant}]
    /\ mode \in Modes
    /\ ttl \in DefaultTTLs

=============================================================================
