---------------------------- MODULE ProxyProofs ----------------------------
(***************************************************************************)
(* The HTTP proxy for every table of services, network policy, number of   *)
(* callers and of admins: a request goes to an address that the policy     *)
(* allows, with the credentials and over the client of the service its     *)
(* agent may use, and racing requests share one grant.                     *)
(***************************************************************************)
EXTENDS Proxy, FiniteSetTheorems, TLAPS

-----------------------------------------------------------------------------
(* The file of the services.                                               *)

\* What is whole holds a table, and so does a save from the copy to the rename.
FileInv ==
    /\ FileTypeOK
    /\ file.kind = "whole" => file.data \in Tables
    /\ tmp.kind = "whole" => tmp.data \in Tables
    /\ \A d \in Savers : saver[d].pc \in {"open", "write", "rename"} => saver[d].data \in Tables

LEMMA RestingType ==
    ASSUME NEW pc \in {"idle", "copy", "saved", "failed"}
    PROVE  Resting(pc) \in SaverLocals /\ Resting(pc).pc = pc
BY DEF Resting, SaverLocals

LEMMA ContentType ==
    /\ \A kind \in {"missing", "empty", "torn"} : Content(kind) \in Contents /\ Content(kind).kind = kind
    /\ \A t \in Tables : Whole(t) \in Contents /\ Whole(t).kind = "whole" /\ Whole(t).data = t
BY DEF Content, Contents, Whole

LEMMA FileInvInit == FileInit => FileInv
BY RestingType, ContentType DEF FileInit, FileInv, FileTypeOK

\* One saver goes to a resting place, or takes its copy.
LEMMA SaverMoves ==
    ASSUME FileInv, UNCHANGED <<file, tmp>>, NEW d \in Savers, NEW l \in SaverLocals,
           l.pc \in {"open", "write", "rename"} => l.data \in Tables,
           saver' = [saver EXCEPT ![d] = l]
    PROVE  FileInv'
BY DEF FileInv, FileTypeOK

LEMMA FileInvRestart == FileInv /\ FileRestart => FileInv'
BY RestingType DEF FileInv, FileTypeOK, FileRestart

LEMMA FileInvSave ==
    ASSUME FileInv, NEW d \in Savers, SaveStep(d)
    PROVE  FileInv'
<1> USE DEF FileInv, FileTypeOK
<1>1. CASE OpenTmp(d)
  <2>1. CASE tmp' = Content("empty") /\ saver' = [saver EXCEPT ![d].pc = "write", ![d].fd = "tmp"]
    <3>1. file' = file /\ saver[d].pc = "open" /\ saver[d].data \in Tables  BY <1>1 DEF OpenTmp
    <3>2. saver' \in [Savers -> SaverLocals] /\ \A e \in Savers : saver'[e].data = saver[e].data /\ (e # d => saver'[e] = saver[e])
      <4> DEFINE l == [saver[d] EXCEPT !.pc = "write", !.fd = "tmp"]
      <4>1. l \in SaverLocals /\ l.data = saver[d].data  BY DEF SaverLocals
      <4>2. saver' = [saver EXCEPT ![d] = l]  BY <2>1
      <4> HIDE DEF l
      <4> QED  BY <4>1, <4>2
    <3> QED  BY <2>1, <3>1, <3>2, ContentType
  <2>2. CASE saver' = [saver EXCEPT ![d] = Resting("failed")] /\ UNCHANGED tmp
    BY <1>1, <2>2, SaverMoves, RestingType DEF OpenTmp
  <2> QED  BY <1>1, <2>1, <2>2 DEF OpenTmp
<1>2. CASE WriteTmp(d)
  <2>1. saver[d].pc = "write" /\ saver[d].data \in Tables  BY <1>2 DEF WriteTmp
  <2>2. \A c \in Contents : \A x \in Overwritten(c, saver[d].data) : x \in Contents /\ (x.kind = "whole" => x.data \in Tables)
    BY <2>1, ContentType DEF Overwritten
  <2>3. /\ tmp' = tmp \/ tmp' \in Overwritten(tmp, saver[d].data) \/ tmp' = Content("torn")
        /\ file' = file \/ file' \in Overwritten(file, saver[d].data) \/ file' = Content("torn")
    BY <1>2 DEF WriteTmp
  <2>4. /\ file' \in Contents /\ tmp' \in Contents
        /\ file'.kind = "whole" => file'.data \in Tables
        /\ tmp'.kind = "whole" => tmp'.data \in Tables
    BY <2>2, <2>3, ContentType
  <2>5. PICK l \in SaverLocals : /\ saver' = [saver EXCEPT ![d] = l]
                                 /\ l.pc = "rename" => l.data = saver[d].data
                                 /\ l.pc \in {"rename", "failed"}
    <3>1. [saver[d] EXCEPT !.pc = "rename", !.fd = "none"] \in SaverLocals  BY DEF SaverLocals
    <3>2. /\ [saver[d] EXCEPT !.pc = "rename", !.fd = "none"].data = saver[d].data
          /\ [saver[d] EXCEPT !.pc = "rename", !.fd = "none"].pc = "rename"
      BY DEF SaverLocals
    <3> QED  BY <1>2, <3>1, <3>2, RestingType DEF WriteTmp
  <2> QED  BY <2>1, <2>4, <2>5
<1>3. CASE RenameTmp(d)
  <2>1. ASSUME NEW pc \in {"saved", "failed"}
        PROVE  /\ Renamed(d, pc) \in [Savers -> SaverLocals]
               /\ \A e \in Savers : Renamed(d, pc)[e].pc \in {"open", "write", "rename"} => Renamed(d, pc)[e].data \in Tables
    <3>1. ASSUME NEW e \in Savers
          PROVE  Renamed(d, pc)[e] \in SaverLocals /\ (Renamed(d, pc)[e].pc \in {"open", "write", "rename"} => Renamed(d, pc)[e].data \in Tables)
      <4>1. CASE e = d  BY <4>1, RestingType DEF Renamed
      <4>2. CASE e # d
        <5>1. ASSUME NEW fd \in {"file", "gone"}
              PROVE  /\ [saver[e] EXCEPT !.fd = fd] \in SaverLocals
                     /\ [saver[e] EXCEPT !.fd = fd].pc = saver[e].pc /\ [saver[e] EXCEPT !.fd = fd].data = saver[e].data
          BY DEF SaverLocals
        <5> QED  BY <4>2, <5>1 DEF Renamed
      <4> QED  BY <4>1, <4>2
    <3>2. Renamed(d, pc) \in [Savers -> SaverLocals]  BY <3>1 DEF Renamed
    <3> QED  BY <3>1, <3>2
  <2>2. tmp' = Content("missing") /\ file' \in {file, tmp} /\ saver' \in {Renamed(d, "saved"), Renamed(d, "failed")}
    BY <1>3 DEF RenameTmp
  <2> QED  BY <2>1, <2>2, ContentType
<1> QED  BY <1>1, <1>2, <1>3 DEF SaveStep

-----------------------------------------------------------------------------
(* The grants.                                                             *)

\* Two valid grants of one agent for one service are the same.
OneGrant ==
    \A a \in GrantAgents, t \in Resources : \A i, j \in Valid(a, t) : i = j

GrantInv == GrantsTypeOK /\ OneGrant

LEMMA GrantConstants ==
    /\ MaxTTL \in Nat /\ \A d \in DefaultTTLs : d \in 1..MaxTTL
    /\ DefaultTTLs # {} /\ Linger \in Nat /\ MaxGrants \in Nat
    /\ NoGrant \notin Grants /\ NoGrant.status = "none"
<1>1. \E longest \in DefaultTTLs : \A t \in DefaultTTLs : t <= longest  BY GrantAssumption
<1>2. MaxTTL \in DefaultTTLs /\ \A d \in DefaultTTLs : d <= MaxTTL  BY <1>1 DEF MaxTTL
<1>3. NoGrant \notin Grants /\ NoGrant.status = "none"  BY DEF NoGrant, Grants
<1> QED  BY <1>2, <1>3, GrantAssumption

LEMMA GrantInvInit == GrantsInit => GrantInv
<1> SUFFICES ASSUME GrantsInit PROVE GrantInv  OBVIOUS
<1>1. GrantsTypeOK  BY DEF GrantsInit, GrantsTypeOK, Modes
<1>2. Issued = {}  BY DEF GrantsInit, Issued
<1> QED  BY <1>1, <1>2 DEF GrantInv, OneGrant, Valid

\* g2 lets through nothing that g1 does not.
Weaker(g1, g2) ==
    g2 # NoGrant /\ g2.status = "active" /\ g2.left > 0 =>
        /\ g1 # NoGrant /\ g1.status = "active" /\ g1.left > 0
        /\ g1.agent = g2.agent /\ g1.target = g2.target

\* A step that only weakens grants leaves at most one valid.
LEMMA WeakerKeepsOne ==
    ASSUME OneGrant, \A i \in GrantIds : Weaker(grants[i], grants'[i])
    PROVE  OneGrant'
<1> SUFFICES ASSUME NEW a \in GrantAgents, NEW t \in Resources, NEW i \in Valid(a, t)', NEW j \in Valid(a, t)'
             PROVE  i = j
  BY DEF OneGrant
<1>1. i \in Valid(a, t) /\ j \in Valid(a, t)  BY DEF Valid, Issued, Weaker
<1> QED  BY <1>1 DEF OneGrant

\* Ageing, cleaning and revoking keep a grant's type and let through nothing new.
LEMMA AgedWeaker ==
    ASSUME NEW g \in Grants \cup {NoGrant}
    PROVE  Aged(g) \in Grants \cup {NoGrant} /\ Weaker(g, Aged(g))
<1>1. CASE g = NoGrant  BY <1>1 DEF Aged, Weaker
<1>2. CASE g \in Grants /\ g.left = -(Linger + 1)
  BY <1>2, GrantConstants DEF Aged, Weaker
<1>3. CASE g \in Grants /\ g.left # -(Linger + 1)
  <2>1. Aged(g) = [g EXCEPT !.left = @ - 1]  BY <1>3, GrantConstants DEF Aged
  <2>2. /\ Aged(g) \in Grants
        /\ Aged(g).left = g.left - 1 /\ Aged(g).status = g.status
        /\ Aged(g).agent = g.agent /\ Aged(g).target = g.target
    BY <1>3, <2>1, GrantConstants DEF Grants
  <2> QED  BY <1>3, <2>2, GrantConstants DEF Weaker, Grants
<1> QED  BY <1>1, <1>2, <1>3

LEMMA RevokedWeaker ==
    ASSUME NEW g \in Grants, NEW status \in {"expired", "revoked"}
    PROVE  /\ [g EXCEPT !.status = status] \in Grants /\ Weaker(g, [g EXCEPT !.status = status])
           /\ [g EXCEPT !.status = status].status = status
BY DEF Grants, Weaker

LEMMA CleanedWeaker ==
    ASSUME NEW g \in Grants
    PROVE  Cleaned(g) \in Grants \cup {NoGrant} /\ Weaker(g, Cleaned(g))
<1> DEFINE marked == IF g.status = "active" /\ g.left < 0 THEN [g EXCEPT !.status = "expired"] ELSE g
<1>1. marked \in Grants /\ Weaker(g, marked)  BY RevokedWeaker DEF Weaker
<1>2. Cleaned(g) = marked \/ Cleaned(g) = NoGrant  BY DEF Cleaned
<1>3. Weaker(g, NoGrant)  BY DEF Weaker
<1> QED  BY <1>1, <1>2, <1>3

LEMMA GrantInvTick ==
    ASSUME GrantInv, grants' = [i \in GrantIds |-> Aged(grants[i])], UNCHANGED <<mode, ttl>>
    PROVE  GrantInv'
<1>1. \A i \in GrantIds : grants'[i] \in Grants \cup {NoGrant} /\ Weaker(grants[i], grants'[i])
  BY AgedWeaker DEF GrantInv, GrantsTypeOK
<1> QED  BY <1>1, WeakerKeepsOne DEF GrantInv, GrantsTypeOK

\* The second look of Issue: a new grant is made only where none is valid.
LEMMA GrantInvIssue ==
    ASSUME GrantInv, NEW a \in GrantAgents, NEW t \in Resources, Issue(a, t), UNCHANGED <<mode, ttl>>
    PROVE  GrantInv'
<1>1. CASE UNCHANGED grants
  BY <1>1 DEF GrantInv, GrantsTypeOK, OneGrant, Valid, Issued
<1>2. CASE Valid(a, t) = {} /\ IssueNew(a, t)
  <2> DEFINE k == CHOOSE i \in GrantIds : grants[i] = NoGrant /\ \A j \in GrantIds : grants[j] = NoGrant => i <= j
             g == [agent |-> a, target |-> t, left |-> ttl, status |-> "active"]
  <2>1. grants' = [grants EXCEPT ![k] = g]  BY <1>2 DEF IssueNew
  <2>2. g \in Grants  BY GrantConstants DEF Grants, GrantInv, GrantsTypeOK
  <2> HIDE DEF k, g
  <2>3. GrantsTypeOK'  BY <2>1, <2>2 DEF GrantInv, GrantsTypeOK
  <2>4. \A i \in GrantIds : i # k => grants'[i] = grants[i]  BY <2>1 DEF GrantInv, GrantsTypeOK
  <2>5. \A i \in GrantIds : i = k => grants'[i] = g  BY <2>1 DEF GrantInv, GrantsTypeOK
  <2>6. ASSUME NEW b \in GrantAgents, NEW s \in Resources, NEW i \in Valid(b, s)', NEW j \in Valid(b, s)'
        PROVE  i = j
    <3>1. i \in GrantIds /\ j \in GrantIds  BY DEF Valid, Issued
    <3>2. i # k => i \in Valid(b, s)  BY <2>4, <3>1 DEF Valid, Issued
    <3>3. j # k => j \in Valid(b, s)  BY <2>4, <3>1 DEF Valid, Issued
    <3>4. i = k \/ j = k => b = a /\ s = t  BY <2>5, <3>1 DEF Valid, g
    <3> QED  BY <1>2, <3>2, <3>3, <3>4 DEF GrantInv, OneGrant
  <2> QED  BY <2>3, <2>6 DEF GrantInv, OneGrant
<1> QED  BY <1>1, <1>2 DEF Issue

LEMMA GrantInvAdmin ==
    ASSUME GrantInv,
           \/ \E i \in GrantIds : RevokeGrant(i)
           \/ \E m \in Modes, d \in DefaultTTLs : UpdateGrantSettings(m, d)
           \/ cleanExpired
    PROVE  GrantInv'
<1>1. ASSUME NEW k \in GrantIds, RevokeGrant(k) PROVE GrantInv'
  <2>1. grants' = [grants EXCEPT ![k].status = "revoked"] /\ grants[k] \in Grants /\ UNCHANGED <<mode, ttl>>
    BY <1>1 DEF RevokeGrant, Revoke, Issued, GrantInv, GrantsTypeOK
  <2>2. \A i \in GrantIds : grants'[i] \in Grants \cup {NoGrant} /\ Weaker(grants[i], grants'[i])
    <3>1. \A i \in GrantIds : i # k => grants'[i] = grants[i]  BY <2>1 DEF GrantInv, GrantsTypeOK
    <3>2. grants'[k] = [grants[k] EXCEPT !.status = "revoked"]  BY <2>1 DEF GrantInv, GrantsTypeOK
    <3>3. grants'[k] \in Grants /\ Weaker(grants[k], grants'[k])  BY <2>1, <3>2, RevokedWeaker
    <3>4. \A i \in GrantIds : i # k => Weaker(grants[i], grants'[i])  BY <3>1 DEF Weaker
    <3> QED  BY <3>1, <3>3, <3>4 DEF GrantInv, GrantsTypeOK
  <2>3. grants' \in [GrantIds -> Grants \cup {NoGrant}]
    BY <2>1, <2>2 DEF GrantInv, GrantsTypeOK
  <2> QED  BY <2>1, <2>2, <2>3, WeakerKeepsOne DEF GrantInv, GrantsTypeOK
<1>2. ASSUME NEW m \in Modes, NEW d \in DefaultTTLs, UpdateGrantSettings(m, d) PROVE GrantInv'
  BY <1>2 DEF UpdateGrantSettings, GrantInv, GrantsTypeOK, OneGrant, Valid, Issued
<1>3. ASSUME cleanExpired PROVE GrantInv'
  <2>1. \A i \in GrantIds : grants'[i] \in Grants \cup {NoGrant} /\ Weaker(grants[i], grants'[i])
    <3> SUFFICES ASSUME NEW i \in GrantIds
                 PROVE  grants'[i] \in Grants \cup {NoGrant} /\ Weaker(grants[i], grants'[i])
      OBVIOUS
    <3>1. CASE i \in Issued
      <4>1. grants[i] \in Grants /\ grants'[i] = Cleaned(grants[i])
        BY <1>3, <3>1 DEF cleanExpired, Issued, GrantInv, GrantsTypeOK
      <4> QED  BY <4>1, CleanedWeaker
    <3>2. CASE i \notin Issued
      <4>1. grants'[i] = NoGrant  BY <1>3, <3>2 DEF cleanExpired
      <4> QED  BY <4>1 DEF Weaker
    <3> QED  BY <3>1, <3>2
  <2>2. grants' \in [GrantIds -> Grants \cup {NoGrant}] /\ UNCHANGED <<mode, ttl>>
    BY <1>3, <2>1 DEF cleanExpired
  <2> QED  BY <2>1, <2>2, WeakerKeepsOne DEF GrantInv, GrantsTypeOK
<1> QED  BY <1>1, <1>2, <1>3

LEMMA AtMostOneGrant == GrantInv => OneValidGrant
<1> SUFFICES ASSUME GrantInv, NEW a \in GrantAgents, NEW t \in Services
             PROVE  Cardinality(Valid(a, t)) <= 1
  BY DEF OneValidGrant
<1>1. CASE Valid(a, t) = {}
  <2>1. Cardinality(Valid(a, t)) = 0  BY <1>1, FS_EmptySet
  <2> QED  BY <2>1
<1>2. CASE Valid(a, t) # {}
  <2>1. PICK i : i \in Valid(a, t)  BY <1>2
  <2>2. Valid(a, t) = {i}  BY <2>1 DEF GrantInv, OneGrant, Services
  <2>3. Cardinality(Valid(a, t)) = 1  BY <2>2, FS_Singleton
  <2> QED  BY <2>3
<1> QED  BY <1>1, <1>2

-----------------------------------------------------------------------------
(* Types of the proxy's own state.                                         *)

ServicesOK ==
    /\ DOMAIN services \subseteq Services
    /\ \A n \in DOMAIN services : services[n] \in ServiceRecords /\ services[n].made <= version
    /\ version \in Nat

\* Where a request is, what it has found out, and that it came in at a table no later
\* than the one of now.
CallsOK ==
    /\ call \in [Callers -> Calls]
    /\ \A c \in Callers :
          /\ call[c].pc # "idle" => call[c].agent # None /\ call[c].url # None /\ call[c].method # None
          /\ call[c].pc \in {"match", "validate", "issue", "client", "sent"} => call[c].ip # None
          /\ call[c].pc \in {"suspend", "validate", "issue"} => call[c].found # None
          /\ call[c].pc \in {"envelope", "filter", "resolve", "match"} => call[c].found = None
          /\ call[c].seen <= version

RestOK ==
    /\ events \in 0..MaxEvents
    /\ admin \in [Admins -> [busy : BOOLEAN, ok : BOOLEAN]]
    /\ dns \in [Urls -> Answers]

Types == ServicesOK /\ CallsOK /\ RestOK /\ FileInv /\ GrantInv

LEMMA ProxyConstants ==
    /\ None \notin GrantAgents /\ None \notin Urls /\ None \notin Methods
    /\ None \notin Addresses /\ None \notin Services /\ None \notin Found
    /\ IsFiniteSet(Services) /\ MaxEvents \in Nat
    /\ Answers \subseteq SUBSET Addresses
    /\ \A c \in Configs : c.verify \in BOOLEAN /\ c.closed \in BOOLEAN /\ c.enabled \in BOOLEAN
    /\ Tables = UNION {[S -> [cfg : Configs, enabled : BOOLEAN]] : S \in SUBSET Services}
BY ServiceAssumption, NetworkAssumption DEF Services, Found, ServiceRecords

LEMMA TypesGiveTypeOK == Types => TypeOK
BY DEF Types, TypeOK, ServicesOK, CallsOK, RestOK, FileInv, GrantInv

LEMMA NoCallType ==
    NoCall \in Calls /\ NoCall.pc = "idle" /\ NoCall.seen = 0
BY DEF NoCall, Calls, DefaultClient

LEMMA TypesInit == Init => Types
<1> SUFFICES ASSUME Init PROVE Types  OBVIOUS
<1>1. ServicesOK  BY DEF Init, ServicesOK
<1>2. CallsOK  BY <1>1, NoCallType DEF Init, CallsOK
<1>3. RestOK  BY ProxyConstants DEF Init, RestOK
<1> QED  BY <1>1, <1>2, <1>3, FileInvInit, GrantInvInit DEF Init, Types

\* What a lookup finds is in the table.
LEMMA MatchedAreServices ==
    ASSUME ServicesOK, NEW u, NEW f \in matchService(u), f # None
    PROVE  /\ f \in Found /\ f.name \in DOMAIN services /\ f.svc = services[f.name]
           /\ matchesServiceURL(u, f.name)
<1>1. PICK n \in DOMAIN services : matchesServiceURL(u, n) /\ f = [name |-> n, svc |-> services[n]]
  BY DEF matchService
<1> QED  BY <1>1 DEF Found, ServicesOK

\* One caller moves: what the others know stays.
LEMMA CallMoves ==
    ASSUME Types, UNCHANGED <<services, version, admin, dns>>, NEW c \in Callers, NEW l \in Calls,
           call' = [call EXCEPT ![c] = l], events' \in 0..MaxEvents, FileInv', GrantInv',
           l.pc # "idle" => l.agent # None /\ l.url # None /\ l.method # None,
           l.pc \in {"match", "validate", "issue", "client", "sent"} => l.ip # None,
           l.pc \in {"suspend", "validate", "issue"} => l.found # None,
           l.pc \in {"envelope", "filter", "resolve", "match"} => l.found = None,
           l.seen <= version
    PROVE  Types'
<1>1. ServicesOK' /\ RestOK'  BY DEF Types, ServicesOK, RestOK
<1>2. CallsOK'  BY DEF Types, CallsOK
<1> QED  BY <1>1, <1>2 DEF Types

LEMMA FileGrantsKept ==
    /\ FileInv /\ UNCHANGED fileVars => FileInv'
    /\ GrantInv /\ UNCHANGED grantVars => GrantInv'
<1>1. FileInv /\ UNCHANGED fileVars => FileInv'  BY DEF FileInv, FileTypeOK, fileVars
<1>2. GrantInv /\ UNCHANGED grantVars => GrantInv'
  BY DEF GrantInv, GrantsTypeOK, OneGrant, Valid, Issued, grantVars
<1> QED  BY <1>1, <1>2

\* A request that is refused or answered is gone.
LEMMA RefuseTypes ==
    ASSUME Types, NEW c \in Callers, Refuse(c), UNCHANGED <<events, grantVars>>
    PROVE  Types'
<1>1. FileInv' /\ GrantInv'  BY FileGrantsKept DEF Types, Refuse, Move
<1>2. NoCall.seen <= version  BY NoCallType DEF Types, ServicesOK
<1> QED  BY <1>1, <1>2, NoCallType, CallMoves DEF Refuse, Move, Types, RestOK

\* A step that only moves the program counter.
LEMMA StepTypes ==
    ASSUME Types, NEW c \in Callers,
           NEW pc \in {"filter", "resolve", "client", "issue"},
           call[c].pc # "idle", Step(c, pc), UNCHANGED events, GrantInv',
           pc \in {"filter", "resolve"} => call[c].found = None,
           pc \in {"client", "issue"} => call[c].ip # None,
           pc = "issue" => call[c].found # None
    PROVE  Types'
<1> DEFINE l == [call[c] EXCEPT !.pc = pc]
<1>1. FileInv'  BY FileGrantsKept DEF Types, Step, Move
<1>2. call[c] \in Calls /\ call[c].agent # None /\ call[c].url # None /\ call[c].method # None /\ call[c].seen <= version
  BY DEF Types, CallsOK
<1>3. l \in Calls /\ l.pc = pc
  BY <1>2 DEF Calls
<1>4. /\ l.agent = call[c].agent /\ l.url = call[c].url /\ l.method = call[c].method
      /\ l.seen = call[c].seen /\ l.ip = call[c].ip /\ l.found = call[c].found
  BY <1>2 DEF Calls
<1>5. call' = [call EXCEPT ![c] = l] /\ UNCHANGED <<services, version, admin, dns>> /\ events' \in 0..MaxEvents
  BY DEF Step, Move, Types, RestOK
<1> HIDE DEF l
<1> QED  BY <1>1, <1>2, <1>3, <1>4, <1>5, CallMoves

LEMMA ClientType ==
    ASSUME ServicesOK, NEW f \in Found \cup {None}
    PROVE  serviceClient(f) \in [verify : BOOLEAN, closed : BOOLEAN]
<1>1. CASE f = None \/ f.name \notin DOMAIN services
  BY <1>1 DEF serviceClient, DefaultClient
<1>2. CASE ~(f = None \/ f.name \notin DOMAIN services)
  <2>1. services[f.name].cfg \in Configs  BY <1>2 DEF ServicesOK, ServiceRecords
  <2>2. buildServiceClient(services[f.name].cfg) \in [verify : BOOLEAN, closed : BOOLEAN]
    BY <2>1, ProxyConstants DEF buildServiceClient
  <2> QED  BY <1>2, <2>2 DEF serviceClient
<1> QED  BY <1>1, <1>2

\* Every step of a request keeps the types.
LEMMA ServeTypes ==
    ASSUME Types, NEW c \in Callers, Serve(c)
    PROVE  Types'
<1>a. /\ call[c] \in Calls
      /\ call[c].pc # "idle" => call[c].agent # None /\ call[c].url # None /\ call[c].method # None
      /\ call[c].pc \in {"match", "validate", "issue", "client", "sent"} => call[c].ip # None
      /\ call[c].pc \in {"suspend", "validate", "issue"} => call[c].found # None
      /\ call[c].pc \in {"envelope", "filter", "resolve", "match"} => call[c].found = None
      /\ call[c].seen <= version
  BY DEF Types, CallsOK
<1>1. CASE enforceProxyEnvelope(c)
  <2>1. GrantInv' /\ UNCHANGED <<events, grantVars>> /\ (Refuse(c) \/ Step(c, "filter")) /\ call[c].pc = "envelope"
    BY <1>1, FileGrantsKept DEF enforceProxyEnvelope, Types
  <2> QED  BY <1>a, <2>1, RefuseTypes, StepTypes
<1>2. CASE RequestFilter(c)
  <2>1. GrantInv' /\ UNCHANGED <<events, grantVars>> /\ call[c].pc = "filter"
    BY <1>2, FileGrantsKept DEF RequestFilter, Types
  <2>2. CASE Refuse(c) \/ Step(c, "resolve")
    BY <1>a, <2>1, <2>2, RefuseTypes, StepTypes
  <2>3. CASE \E f \in matchService(call[c].url) : f # None /\ Move(c, [call[c] EXCEPT !.pc = "suspend", !.found = f])
    <3>1. PICK f \in matchService(call[c].url) : f # None /\ Move(c, [call[c] EXCEPT !.pc = "suspend", !.found = f])
      BY <2>3
    <3> DEFINE l == [call[c] EXCEPT !.pc = "suspend", !.found = f]
    <3>2. f \in Found  BY <3>1, MatchedAreServices DEF Types
    <3>3. /\ l \in Calls /\ l.pc = "suspend" /\ l.found = f
          /\ l.agent = call[c].agent /\ l.url = call[c].url /\ l.method = call[c].method /\ l.seen = call[c].seen
      BY <1>a, <3>2 DEF Calls
    <3>4. FileInv' /\ call' = [call EXCEPT ![c] = l] /\ UNCHANGED <<services, version, admin, dns>> /\ events' \in 0..MaxEvents
      BY <2>1, <3>1, FileGrantsKept DEF Move, Types, RestOK
    <3> HIDE DEF l
    <3> QED  BY <1>a, <2>1, <3>1, <3>3, <3>4, CallMoves
  <2> QED  BY <1>2, <2>2, <2>3 DEF RequestFilter
<1>3. CASE AutoRevoke(c)
  <2>1. /\ call' = [call EXCEPT ![c] = NoCall] /\ UNCHANGED <<version, admin, dns, events, fileVars, grantVars>>
        /\ \/ services' = services
           \/ \E n \in DOMAIN services : services' = [services EXCEPT ![n].enabled = FALSE]
    BY <1>3 DEF AutoRevoke
  <2>2. ServicesOK'
    <3>1. CASE services' = services  BY <2>1, <3>1 DEF Types, ServicesOK
    <3>2. ASSUME NEW n \in DOMAIN services, services' = [services EXCEPT ![n].enabled = FALSE]
          PROVE  ServicesOK'
      <4>1. services[n] \in ServiceRecords /\ services[n].made <= version  BY DEF Types, ServicesOK
      <4>2. ASSUME NEW b \in BOOLEAN
            PROVE  [services[n] EXCEPT !.enabled = b] \in ServiceRecords /\ [services[n] EXCEPT !.enabled = b].made = services[n].made
        BY <4>1 DEF ServiceRecords
      <4>3. /\ services' = [services EXCEPT ![n] = [services[n] EXCEPT !.enabled = FALSE]]
            /\ [services[n] EXCEPT !.enabled = FALSE] \in ServiceRecords
            /\ [services[n] EXCEPT !.enabled = FALSE].made = services[n].made
        BY <3>2, <4>2
      <4> QED  BY <2>1, <4>1, <4>3 DEF Types, ServicesOK
    <3> QED  BY <2>1, <3>1, <3>2
  <2>3. CallsOK'
    <3>1. NoCall.seen <= version  BY NoCallType DEF Types, ServicesOK
    <3> QED  BY <2>1, <3>1, NoCallType DEF Types, CallsOK
  <2> QED  BY <2>1, <2>2, <2>3, FileGrantsKept DEF Types, RestOK
<1>4. CASE ResolveHost(c)
  <2>1. GrantInv' /\ UNCHANGED <<events, grantVars>> /\ call[c].pc = "resolve"
    BY <1>4, FileGrantsKept DEF ResolveHost, Types
  <2>2. CASE Refuse(c)
    BY <2>1, <2>2, RefuseTypes
  <2>3. CASE \E ip \in dns[call[c].url] : Move(c, [call[c] EXCEPT !.pc = "match", !.ip = ip])
    <3>1. PICK ip \in dns[call[c].url] : Move(c, [call[c] EXCEPT !.pc = "match", !.ip = ip])
      BY <2>3
    <3> DEFINE l == [call[c] EXCEPT !.pc = "match", !.ip = ip]
    <3>2. call[c].url \in Urls  BY <1>a, <2>1 DEF Calls
    <3>3. ip \in Addresses /\ ip # None  BY <3>2, ProxyConstants DEF Types, RestOK
    <3>4. /\ l \in Calls /\ l.pc = "match" /\ l.ip = ip /\ l.found = call[c].found
          /\ l.agent = call[c].agent /\ l.url = call[c].url /\ l.method = call[c].method /\ l.seen = call[c].seen
      BY <1>a, <3>3 DEF Calls
    <3>5. FileInv' /\ call' = [call EXCEPT ![c] = l] /\ UNCHANGED <<services, version, admin, dns>> /\ events' \in 0..MaxEvents
      BY <2>1, <3>1, FileGrantsKept DEF Move, Types, RestOK
    <3> HIDE DEF l
    <3> QED  BY <1>a, <2>1, <3>3, <3>4, <3>5, CallMoves
  <2> QED  BY <1>4, <2>2, <2>3 DEF ResolveHost
<1>5. CASE MatchAgain(c)
  <2>1. GrantInv' /\ UNCHANGED <<events, grantVars>> /\ call[c].pc = "match"
    BY <1>5, FileGrantsKept DEF MatchAgain, Types
  <2>2. CASE Refuse(c) \/ Step(c, "client")
    BY <1>a, <2>1, <2>2, RefuseTypes, StepTypes
  <2>3. CASE \E f \in matchService(call[c].url) : f # None /\ Move(c, [call[c] EXCEPT !.pc = "validate", !.found = f])
    <3>1. PICK f \in matchService(call[c].url) : f # None /\ Move(c, [call[c] EXCEPT !.pc = "validate", !.found = f])
      BY <2>3
    <3> DEFINE l == [call[c] EXCEPT !.pc = "validate", !.found = f]
    <3>2. f \in Found  BY <3>1, MatchedAreServices DEF Types
    <3>3. /\ l \in Calls /\ l.pc = "validate" /\ l.found = f /\ l.ip = call[c].ip
          /\ l.agent = call[c].agent /\ l.url = call[c].url /\ l.method = call[c].method /\ l.seen = call[c].seen
      BY <1>a, <3>2 DEF Calls
    <3>4. FileInv' /\ call' = [call EXCEPT ![c] = l] /\ UNCHANGED <<services, version, admin, dns>> /\ events' \in 0..MaxEvents
      BY <2>1, <3>1, FileGrantsKept DEF Move, Types, RestOK
    <3> HIDE DEF l
    <3> QED  BY <1>a, <2>1, <3>1, <3>3, <3>4, CallMoves
  <2> QED  BY <1>5, <2>2, <2>3 DEF MatchAgain
<1>6. CASE ValidateGrant(c)
  <2>1. GrantInv' /\ UNCHANGED <<events, grantVars>> /\ call[c].pc = "validate" /\ (Step(c, "issue") \/ Step(c, "client"))
    BY <1>6, FileGrantsKept DEF ValidateGrant, Types
  <2> QED  BY <1>a, <2>1, StepTypes
<1>7. CASE IssueGrant(c)
  <2>1. /\ call[c].pc = "issue" /\ Step(c, "client") /\ UNCHANGED events
        /\ Issue(call[c].agent, call[c].found.name) /\ UNCHANGED <<mode, ttl>>
    BY <1>7 DEF IssueGrant
  <2>2. call[c].agent \in GrantAgents /\ call[c].found.name \in Resources
    BY <1>a, <2>1 DEF Calls, Found, Services
  <2>3. GrantInv'  BY <2>1, <2>2, GrantInvIssue DEF Types
  <2> QED  BY <1>a, <2>1, <2>3, StepTypes
<1>8. CASE Send(c)
  <2>1. GrantInv' /\ UNCHANGED <<events, grantVars>> /\ call[c].pc = "client"
    BY <1>8, FileGrantsKept DEF Send, Types
  <2> DEFINE f == call[c].found
             l == [call[c] EXCEPT !.pc = "sent", !.ip = call[c].ip, !.client = serviceClient(f),
                                  !.credentials = injectCredentials(f)]
  <2>2. Move(c, l)  BY <1>8 DEF Send, pinnedURL
  <2>3. /\ f \in Found \cup {None} /\ injectCredentials(f) \in Services \cup {None}
        /\ serviceClient(f) \in [verify : BOOLEAN, closed : BOOLEAN]
    <3>1. f \in Found \cup {None}  BY <1>a DEF Calls
    <3>2. injectCredentials(f) \in Services \cup {None}  BY <3>1 DEF injectCredentials, Found
    <3> QED  BY <3>1, <3>2, ClientType DEF Types
  <2>4. /\ l \in Calls /\ l.pc = "sent" /\ l.ip = call[c].ip
        /\ l.agent = call[c].agent /\ l.url = call[c].url /\ l.method = call[c].method /\ l.seen = call[c].seen
    BY <1>a, <2>3 DEF Calls
  <2>5. FileInv' /\ call' = [call EXCEPT ![c] = l] /\ UNCHANGED <<services, version, admin, dns>> /\ events' \in 0..MaxEvents
    BY <2>1, <2>2, FileGrantsKept DEF Move, Types, RestOK
  <2> HIDE DEF l, f
  <2> QED  BY <1>a, <2>1, <2>4, <2>5, CallMoves
<1>9. CASE Answered(c)
  BY <1>9, RefuseTypes DEF Answered
<1> QED  BY <1>1, <1>2, <1>3, <1>4, <1>5, <1>6, <1>7, <1>8, <1>9 DEF Serve

LEMMA RequestTypes ==
    ASSUME Types, NEW c \in Callers, NEW a \in GrantAgents, NEW u \in Urls, NEW m \in Methods,
           toolHTTPRequest(c, a, u, m)
    PROVE  Types'
<1> DEFINE l == [NoCall EXCEPT !.pc = "envelope", !.agent = a, !.url = u, !.method = m, !.seen = version]
<1>1. call' = [call EXCEPT ![c] = l] /\ UNCHANGED <<services, version, admin, dns, fileVars, grantVars>>
  BY DEF toolHTTPRequest, Move
<1>2. events' \in 0..MaxEvents  BY ProxyConstants DEF toolHTTPRequest, Event, Types, RestOK
<1>3. /\ l \in Calls /\ l.pc = "envelope" /\ l.agent = a /\ l.url = u /\ l.method = m /\ l.seen = version
      /\ l.found = None
  BY DEF NoCall, DefaultClient, Calls, Types, ServicesOK
<1>4. FileInv' /\ GrantInv' /\ version <= version  BY <1>1, FileGrantsKept DEF Types, ServicesOK
<1> HIDE DEF l
<1> QED  BY <1>1, <1>2, <1>3, <1>4, ProxyConstants, CallMoves

\* The table changes in the three ways the dashboard has.
LEMMA TableTypes ==
    ASSUME ServicesOK, NEW n \in Services,
           \/ \E c \in Configs : AddService(n, c)
           \/ RemoveService(n)
           \/ n \in DOMAIN services /\ services' = [services EXCEPT ![n].enabled = ~@] /\ version' = version
    PROVE  ServicesOK' /\ version' >= version
<1>1. ASSUME NEW c \in Configs, AddService(n, c) PROVE ServicesOK' /\ version' >= version
  <2> DEFINE new == [cfg |-> c, enabled |-> c.enabled, made |-> version + 1]
  <2>1. /\ version' = version + 1 /\ version \in Nat
        /\ DOMAIN services' = DOMAIN services \cup {n}
        /\ \A m \in DOMAIN services' : services'[m] = IF m = n THEN new ELSE services[m]
    BY <1>1 DEF AddService, ServicesOK
  <2>2. c.enabled \in BOOLEAN  BY ProxyConstants
  <2>3. new \in ServiceRecords /\ new.made = version + 1  BY <2>1, <2>2 DEF ServiceRecords
  <2> HIDE DEF new
  <2>4. ASSUME NEW m \in DOMAIN services' PROVE services'[m] \in ServiceRecords /\ services'[m].made <= version'
    <3>1. CASE m = n  BY <2>1, <2>3, <3>1
    <3>2. CASE m # n
      <4>1. services'[m] = services[m] /\ services[m] \in ServiceRecords /\ services[m].made <= version
        BY <2>1, <3>2 DEF ServicesOK
      <4>2. services[m].made \in Nat  BY <4>1 DEF ServiceRecords
      <4> QED  BY <2>1, <4>1, <4>2
    <3> QED  BY <3>1, <3>2
  <2> QED  BY <2>1, <2>4 DEF ServicesOK
<1>2. ASSUME RemoveService(n) PROVE ServicesOK' /\ version' >= version
  <2>1. /\ version' = version + 1 /\ version \in Nat
        /\ DOMAIN services' = DOMAIN services \ {n}
        /\ \A m \in DOMAIN services' : services'[m] = services[m]
    BY <1>2 DEF RemoveService, ServicesOK
  <2>2. \A m \in DOMAIN services : services[m].made \in Nat  BY DEF ServicesOK, ServiceRecords
  <2> QED  BY <2>1, <2>2 DEF ServicesOK
<1>3. ASSUME n \in DOMAIN services, services' = [services EXCEPT ![n].enabled = ~@], version' = version
      PROVE ServicesOK' /\ version' >= version
  <2>1. services[n] \in ServiceRecords /\ services[n].made <= version /\ version \in Nat  BY <1>3 DEF ServicesOK
  <2>2. ASSUME NEW b \in BOOLEAN
        PROVE  [services[n] EXCEPT !.enabled = b] \in ServiceRecords /\ [services[n] EXCEPT !.enabled = b].made = services[n].made
    BY <2>1 DEF ServiceRecords
  <2>3. (~services[n].enabled) \in BOOLEAN  OBVIOUS
  <2>4. /\ services' = [services EXCEPT ![n] = [services[n] EXCEPT !.enabled = ~services[n].enabled]]
        /\ [services[n] EXCEPT !.enabled = ~services[n].enabled] \in ServiceRecords
        /\ [services[n] EXCEPT !.enabled = ~services[n].enabled].made = services[n].made
    BY <1>3, <2>2, <2>3
  <2> QED  BY <1>3, <2>1, <2>4 DEF ServicesOK
<1> QED  BY <1>1, <1>2, <1>3

\* Requests under way keep their types when the table changes under them.
LEMMA CallsKept ==
    ASSUME CallsOK, call' = call, version \in Nat, version' \in Nat, version' >= version
    PROVE  CallsOK'
<1>1. \A c \in Callers : call[c].seen \in Nat /\ call[c].seen <= version'  BY DEF CallsOK, Calls
<1> QED  BY <1>1 DEF CallsOK

\* What save writes is a table.
LEMMA TableNowType == ServicesOK => TableNow \in Tables
<1> SUFFICES ASSUME ServicesOK PROVE TableNow \in Tables  OBVIOUS
<1>1. \A n \in DOMAIN services : [cfg |-> services[n].cfg, enabled |-> services[n].enabled] \in [cfg : Configs, enabled : BOOLEAN]
  BY DEF ServicesOK, ServiceRecords
<1>2. TableNow \in [DOMAIN services -> [cfg : Configs, enabled : BOOLEAN]]  BY <1>1 DEF TableNow
<1>3. DOMAIN services \in SUBSET Services  BY DEF ServicesOK
<1> QED  BY <1>2, <1>3, ProxyConstants

LEMMA AdminTypes ==
    ASSUME Types, NEW d \in Admins, AdminStep(d)
    PROVE  Types'
<1>a. d \in Savers  BY DEF Admins
<1>1. ASSUME NEW n \in Services, Accept(d),
             \/ \E c \in Configs : AddService(n, c)
             \/ RemoveService(n)
             \/ n \in DOMAIN services /\ services' = [services EXCEPT ![n].enabled = ~@] /\ version' = version
      PROVE  Types'
  <2>1. /\ admin' = [admin EXCEPT ![d] = [busy |-> TRUE, ok |-> FALSE]]
        /\ BeginSave(d) /\ UNCHANGED <<call, dns, file, tmp, grantVars>> /\ Event
    BY <1>1 DEF Accept
  <2>2. ServicesOK' /\ version' >= version  BY <1>1, TableTypes DEF Types
  <2>3. CallsOK'  BY <2>1, <2>2, CallsKept DEF Types, ServicesOK
  <2>4. events' \in 0..MaxEvents  BY <2>1, ProxyConstants DEF Event, Types, RestOK
  <2>5. RestOK'  BY <2>1, <2>4 DEF Types, RestOK
  <2>6. FileInv'  BY <1>a, <2>1, RestingType, SaverMoves DEF Types, BeginSave
  <2> QED  BY <2>1, <2>2, <2>3, <2>5, <2>6, FileGrantsKept DEF Types
<1>2. CASE save(d)
  <2>1. UNCHANGED <<services, version, admin, call, dns, events, grantVars>>  BY <1>2 DEF save
  <2>2. FileInv'
    <3>1. CASE CopyTable(d, TableNow)
      <4>1. TableNow \in Tables  BY TableNowType DEF Types
      <4>2. [pc |-> "open", data |-> TableNow, fd |-> "none"] \in SaverLocals  BY <4>1 DEF SaverLocals
      <4> QED  BY <1>a, <3>1, <4>1, <4>2, SaverMoves DEF CopyTable, Types
    <3>2. CASE SaveStep(d)  BY <1>a, <3>2, FileInvSave DEF Types
    <3> QED  BY <1>2, <3>1, <3>2 DEF save
  <2>3. ServicesOK' /\ CallsOK' /\ RestOK'  BY <2>1 DEF Types, ServicesOK, CallsOK, RestOK
  <2> QED  BY <2>1, <2>2, <2>3, FileGrantsKept DEF Types
<1>3. CASE SaveEnded(d)
  <2>1. UNCHANGED <<services, version, call, dns, events, file, tmp, grantVars>>  BY <1>3 DEF SaveEnded
  <2>2. saver' = [saver EXCEPT ![d] = Resting("idle")]  BY <1>3 DEF SaveEnded
  <2>3. FileInv'  BY <1>a, <2>1, <2>2, RestingType, SaverMoves DEF Types
  <2>4. admin' \in [Admins -> [busy : BOOLEAN, ok : BOOLEAN]]
    <3>1. (saver[d].pc = "saved") \in BOOLEAN  OBVIOUS
    <3>2. [busy |-> FALSE, ok |-> saver[d].pc = "saved"] \in [busy : BOOLEAN, ok : BOOLEAN]  BY <3>1
    <3> QED  BY <1>3, <3>2 DEF SaveEnded, Types, RestOK
  <2>5. ServicesOK' /\ CallsOK'  BY <2>1 DEF Types, ServicesOK, CallsOK
  <2>6. RestOK'  BY <2>1, <2>4 DEF Types, RestOK
  <2> QED  BY <2>1, <2>3, <2>5, <2>6, FileGrantsKept DEF Types
<1> QED
  BY <1>1, <1>2, <1>3 DEF AdminStep, handleUpdateService, handleDeleteService, handleToggleService, RemoveService

LEMMA EnvironmentTypes ==
    ASSUME Types,
           \/ \E u \in Urls, answer \in Answers : ResolverChanges(u, answer)
           \/ Tick \/ GrantStep \/ Restart
    PROVE  Types'
<1>1. CASE \E u \in Urls, answer \in Answers : ResolverChanges(u, answer)
  <2>1. /\ UNCHANGED <<services, version, admin, call, fileVars, grantVars>> /\ Event
        /\ dns' \in [Urls -> Answers]
    BY <1>1 DEF ResolverChanges, Types, RestOK
  <2>2. RestOK'  BY <2>1, ProxyConstants DEF Event, Types, RestOK
  <2>3. ServicesOK' /\ CallsOK'  BY <2>1 DEF Types, ServicesOK, CallsOK
  <2> QED  BY <2>1, <2>2, <2>3, FileGrantsKept DEF Types
<1>2. CASE Tick \/ GrantStep
  <2>1. UNCHANGED <<services, version, admin, call, dns, fileVars>>  BY <1>2 DEF Tick, GrantStep
  <2>2. events' \in 0..MaxEvents
    BY <1>2, ProxyConstants DEF Tick, GrantStep, Event, Types, RestOK
  <2>3. GrantInv'  BY <1>2, GrantInvTick, GrantInvAdmin DEF Tick, GrantStep, Types
  <2>4. ServicesOK' /\ CallsOK' /\ RestOK'  BY <2>1, <2>2 DEF Types, ServicesOK, CallsOK, RestOK
  <2> QED  BY <2>1, <2>3, <2>4, FileGrantsKept DEF Types
<1>3. CASE Restart
  <2> DEFINE t == Loaded(<<>>)
  <2>1. PICK S \in SUBSET Services : DOMAIN t = S /\ \A n \in S : t[n] \in [cfg : Configs, enabled : BOOLEAN]
    <3>1. CASE file.kind = "whole"
      <4>1. t \in Tables  BY <3>1 DEF Loaded, Types, FileInv
      <4> QED  BY <4>1, ProxyConstants
    <3>2. CASE file.kind # "whole"
      <4>1. t = <<>>  BY <3>2 DEF Loaded
      <4> QED  BY <4>1
    <3> QED  BY <3>1, <3>2
  <2>2. /\ services' = [n \in DOMAIN t |-> [cfg |-> t[n].cfg, enabled |-> t[n].enabled, made |-> version + 1]]
        /\ version' = version + 1 /\ version \in Nat
    BY <1>3 DEF Restart, Types, ServicesOK
  <2> HIDE DEF t
  <2>3. ServicesOK'
    <3>1. \A n \in DOMAIN t : [cfg |-> t[n].cfg, enabled |-> t[n].enabled, made |-> version + 1] \in ServiceRecords
      BY <2>1, <2>2 DEF ServiceRecords
    <3> QED  BY <2>1, <2>2, <3>1 DEF ServicesOK
  <2>4. CallsOK'
    <3>1. call' = [c \in Callers |-> NoCall] /\ NoCall.seen <= version'  BY <1>3, <2>2, NoCallType DEF Restart
    <3> QED  BY <3>1, NoCallType DEF CallsOK
  <2>5. RestOK'  BY <1>3, ProxyConstants DEF Restart, Event, Types, RestOK
  <2>6. FileInv'  BY <1>3, FileInvRestart DEF Restart, Types
  <2>7. GrantInv'
    <3>1. Issued' = {} /\ GrantsTypeOK'  BY <1>3 DEF Restart, Issued, GrantsTypeOK, Modes
    <3> QED  BY <3>1 DEF GrantInv, OneGrant, Valid
  <2> QED  BY <2>3, <2>4, <2>5, <2>6, <2>7 DEF Types
<1> QED  BY <1>1, <1>2, <1>3

LEMMA TypesNext == Types /\ [Next]_vars => Types'
<1> SUFFICES ASSUME Types, [Next]_vars PROVE Types'  OBVIOUS
<1>1. CASE UNCHANGED vars
  <2>1. UNCHANGED <<services, version, admin, call, dns, events, fileVars, grantVars>>  BY <1>1 DEF vars
  <2>2. ServicesOK' /\ CallsOK' /\ RestOK'  BY <2>1 DEF Types, ServicesOK, CallsOK, RestOK
  <2> QED  BY <2>1, <2>2, FileGrantsKept DEF Types
<1>2. CASE Next
  BY <1>2, AdminTypes, ServeTypes, RequestTypes, EnvironmentTypes DEF Next
<1> QED  BY <1>1, <1>2

-----------------------------------------------------------------------------
(* What a request knows, and that it stays true.                           *)

\* The services that match a URL, and those of them with the longest prefix.
Matched(u) == {n \in DOMAIN services : matchesServiceURL(u, n)}
Longest(u) ==
    {n \in Matched(u) : \A o \in Matched(u) :
        PrefixLength[services[o].cfg.prefix] <= PrefixLength[services[n].cfg.prefix]}

\* From the resolution on, the address is one the policy allows for the URL.
Pinned(c) ==
    call[c].pc \in {"match", "validate", "issue", "client", "sent"} => evaluateIPPolicy(call[c].ip, call[c].url)

\* What the lookups so far have found out, if one service n is the one for the URL.
AgreesOn(c, n) ==
    /\ <<call[c].agent, n, call[c].method>> \in Allowed
    /\ call[c].pc # "envelope" => <<call[c].agent, n, call[c].method>> \in Envelope
    /\ call[c].pc \in {"validate", "issue", "client", "sent"} => call[c].found # None /\ call[c].found.name = n
    /\ call[c].pc = "sent" => call[c].credentials = n /\ call[c].client = buildServiceClient(services[n].cfg)

\* And if none matches.
AgreesOnNone(c) ==
    /\ call[c].pc \notin {"validate", "issue"}
    /\ call[c].pc \in {"client", "sent"} => call[c].found = None
    /\ call[c].pc = "sent" => call[c].credentials = None

Agrees(c) ==
    call[c].pc # "idle" /\ call[c].seen = version =>
        /\ \A n \in Services : Longest(call[c].url) = {n} => AgreesOn(c, n)
        /\ Matched(call[c].url) = {} => AgreesOnNone(c)

Inv == Types /\ \A c \in Callers : Pinned(c) /\ Agrees(c)

\* What a lookup gives, by the number of services to choose from.
LEMMA Lookup ==
    ASSUME NEW u
    PROVE  /\ Matched(u) = {} => matchService(u) = {None}
           /\ \A n \in Services : Longest(u) = {n} => matchService(u) = {[name |-> n, svc |-> services[n]]} /\ n \in DOMAIN services
<1>1. Matched(u) = {} => matchService(u) = {None}  BY DEF matchService, Matched
<1>2. ASSUME NEW n \in Services, Longest(u) = {n}
      PROVE  matchService(u) = {[name |-> n, svc |-> services[n]]} /\ n \in DOMAIN services
  <2>1. n \in Matched(u)  BY <1>2 DEF Longest
  <2>2. matchService(u) = {[name |-> m, svc |-> services[m]] : m \in Longest(u)}
    BY <2>1 DEF matchService, Matched, Longest
  <2> QED  BY <1>2, <2>1, <2>2 DEF Matched
<1> QED  BY <1>1, <1>2

\* The table is the one it was, but for who is enabled.
SameTable ==
    /\ version' = version
    /\ DOMAIN services' = DOMAIN services
    /\ \A n \in DOMAIN services : services'[n].cfg = services[n].cfg

LEMMA SameMatches ==
    ASSUME SameTable, NEW u
    PROVE  Matched(u)' = Matched(u) /\ Longest(u)' = Longest(u)
<1>1. Matched(u)' = Matched(u)  BY DEF SameTable, Matched, matchesServiceURL
<1>2. \A n \in Matched(u) : services'[n].cfg = services[n].cfg  BY DEF SameTable, Matched
<1> QED  BY <1>1, <1>2 DEF Longest

\* Only a new version of the table has other configurations.
LEMMA TableStep ==
    ASSUME Types, Next
    PROVE  SameTable \/ version' = version + 1
<1>1. ASSUME NEW n \in DOMAIN services, NEW b, services' = [services EXCEPT ![n].enabled = b], version' = version
      PROVE  SameTable
  <2>1. services[n] \in ServiceRecords  BY DEF Types, ServicesOK
  <2>2. [services[n] EXCEPT !.enabled = b].cfg = services[n].cfg  BY <2>1 DEF ServiceRecords
  <2> QED  BY <1>1, <2>2 DEF SameTable
<1>2. UNCHANGED <<services, version>> => SameTable  BY DEF SameTable
<1>3. ASSUME NEW d \in Admins, AdminStep(d) PROVE SameTable \/ version' = version + 1
  <2>1. ASSUME NEW n \in Services, handleToggleService(d, n) PROVE SameTable
    BY <1>1, <2>1 DEF handleToggleService
  <2> QED  BY <1>2, <1>3, <2>1 DEF AdminStep, handleUpdateService, AddService, handleDeleteService, RemoveService, save, SaveEnded
<1>4. ASSUME NEW c \in Callers, Serve(c) PROVE SameTable
  <2>1. CASE AutoRevoke(c)  BY <1>1, <1>2, <2>1 DEF AutoRevoke
  <2>2. CASE ~AutoRevoke(c)
    <3>1. UNCHANGED <<services, version>>
      BY <1>4, <2>2 DEF Serve, enforceProxyEnvelope, RequestFilter, ResolveHost, MatchAgain, ValidateGrant,
                        IssueGrant, Send, Answered, Refuse, Step, Move
    <3> QED  BY <1>2, <3>1
  <2> QED  BY <2>1, <2>2
<1>5. Tick \/ GrantStep => SameTable  BY <1>2 DEF Tick, GrantStep
<1>6. Restart => version' = version + 1  BY DEF Restart
<1> QED  BY <1>2, <1>3, <1>4, <1>5, <1>6 DEF Next, toolHTTPRequest, Move, ResolverChanges

\* A request that does not move keeps what it knows: of a table that has changed it
\* knows nothing.
LEMMA RestingCall ==
    ASSUME Types, SameTable \/ version' = version + 1, NEW c \in Callers, call'[c] = call[c],
           Pinned(c), Agrees(c)
    PROVE  Pinned(c)' /\ Agrees(c)'
<1>1. Pinned(c)'  BY DEF Pinned, evaluateIPPolicy, isPrivateIP
<1>2. CASE version' = version + 1
  <2>1. call[c].seen # version'  BY <1>2 DEF Types, CallsOK, ServicesOK, Calls
  <2> QED  BY <1>1, <2>1 DEF Agrees
<1>3. CASE SameTable
  <2> SUFFICES ASSUME call[c].pc # "idle", call[c].seen = version
               PROVE  /\ \A n \in Services : (Longest(call[c].url) = {n})' => AgreesOn(c, n)'
                      /\ (Matched(call[c].url) = {})' => AgreesOnNone(c)'
    BY <1>1, <1>3 DEF Agrees, SameTable
  <2>1. ASSUME NEW n \in Services, (Longest(call[c].url) = {n})' PROVE AgreesOn(c, n)'
    <3>1. Longest(call[c].url) = {n}  BY <1>3, <2>1, SameMatches
    <3>2. AgreesOn(c, n)  BY <3>1 DEF Agrees
    <3>3. services'[n].cfg = services[n].cfg  BY <1>3, <3>1, Lookup DEF SameTable
    <3> QED  BY <3>2, <3>3 DEF AgreesOn, buildServiceClient
  <2>2. ASSUME (Matched(call[c].url) = {})' PROVE AgreesOnNone(c)'
    <3>1. Matched(call[c].url) = {}  BY <1>3, <2>2, SameMatches
    <3> QED  BY <3>1 DEF Agrees, AgreesOnNone
  <2> QED  BY <2>1, <2>2
<1> QED  BY <1>2, <1>3

\* A request that moves to l while the table stays.
LEMMA MovingCall ==
    ASSUME Types, NEW c \in Callers, NEW l, call' = [call EXCEPT ![c] = l], UNCHANGED <<services, version>>,
           l.pc \in {"match", "validate", "issue", "client", "sent"} => evaluateIPPolicy(l.ip, l.url),
           l.pc # "idle" /\ l.seen = version =>
              /\ \A n \in Services : Longest(l.url) = {n} =>
                    /\ <<l.agent, n, l.method>> \in Allowed
                    /\ l.pc # "envelope" => <<l.agent, n, l.method>> \in Envelope
                    /\ l.pc \in {"validate", "issue", "client", "sent"} => l.found # None /\ l.found.name = n
                    /\ l.pc = "sent" => l.credentials = n /\ l.client = buildServiceClient(services[n].cfg)
              /\ Matched(l.url) = {} =>
                    /\ l.pc \notin {"validate", "issue"}
                    /\ l.pc \in {"client", "sent"} => l.found = None
                    /\ l.pc = "sent" => l.credentials = None
    PROVE  Pinned(c)' /\ Agrees(c)'
<1>1. call'[c] = l  BY DEF Types, CallsOK
<1>2. Pinned(c)'  BY <1>1 DEF Pinned, evaluateIPPolicy, isPrivateIP
<1>3. SameTable  BY DEF SameTable
<1>4. Matched(l.url)' = Matched(l.url) /\ Longest(l.url)' = Longest(l.url)
  <2>1. ASSUME NEW u PROVE Matched(u)' = Matched(u) /\ Longest(u)' = Longest(u)  BY <1>3, SameMatches
  <2> QED  BY <2>1
<1>5. Agrees(c)'  BY <1>1, <1>4 DEF Agrees, AgreesOn, AgreesOnNone, buildServiceClient
<1> QED  BY <1>2, <1>5

\* One that is gone knows nothing.
LEMMA GoneCall ==
    ASSUME NEW c \in Callers, call'[c] = NoCall
    PROVE  Pinned(c)' /\ Agrees(c)'
BY NoCallType DEF Pinned, Agrees

\* The steps of a request, each with what it adds.
LEMMA ServeKeeps ==
    ASSUME Types, NEW c \in Callers, Serve(c), Pinned(c), Agrees(c)
    PROVE  Pinned(c)' /\ Agrees(c)'
<1>a. call[c] \in Calls /\ call \in [Callers -> Calls]  BY DEF Types, CallsOK
<1>b. Refuse(c) => Pinned(c)' /\ Agrees(c)'
  <2>1. Refuse(c) => call'[c] = NoCall  BY <1>a DEF Refuse, Move
  <2> QED  BY <2>1, GoneCall
<1>c. ASSUME NEW pc \in STRING
      PROVE  LET l == [call[c] EXCEPT !.pc = pc]
             IN  /\ l.pc = pc /\ l.agent = call[c].agent /\ l.url = call[c].url /\ l.method = call[c].method
                 /\ l.seen = call[c].seen /\ l.found = call[c].found /\ l.ip = call[c].ip
  BY <1>a DEF Calls
<1>1. CASE enforceProxyEnvelope(c)
  <2>1. call[c].pc = "envelope"  BY <1>1 DEF enforceProxyEnvelope
  <2>2. PICK f \in matchService(call[c].url) :
           IF f # None /\ <<call[c].agent, f.name, call[c].method>> \notin Envelope THEN Refuse(c) ELSE Step(c, "filter")
    BY <1>1 DEF enforceProxyEnvelope
  <2>3. CASE Step(c, "filter") /\ (f # None => <<call[c].agent, f.name, call[c].method>> \in Envelope)
    <3> DEFINE l == [call[c] EXCEPT !.pc = "filter"]
    <3>1. call' = [call EXCEPT ![c] = l] /\ UNCHANGED <<services, version>>  BY <2>3 DEF Step, Move
    <3>2. l.pc = "filter" /\ l.agent = call[c].agent /\ l.url = call[c].url /\ l.method = call[c].method /\ l.seen = call[c].seen
      BY <1>c
    <3> HIDE DEF l
    <3>3. ASSUME NEW n \in Services, Longest(l.url) = {n}, l.seen = version
          PROVE  <<l.agent, n, l.method>> \in Allowed /\ <<l.agent, n, l.method>> \in Envelope
      <4>1. AgreesOn(c, n)  BY <2>1, <3>2, <3>3 DEF Agrees
      <4>2. matchService(call[c].url) = {[name |-> n, svc |-> services[n]]} /\ n \in DOMAIN services
        BY <3>2, <3>3, Lookup
      <4>3. f = [name |-> n, svc |-> services[n]]  BY <2>2, <4>2
      <4>4. f \in Found  BY <4>2, <4>3 DEF Found, Types, ServicesOK
      <4> QED  BY <2>3, <3>2, <4>1, <4>3, <4>4, ProxyConstants DEF AgreesOn
    <3> QED  BY <3>1, <3>2, <3>3, MovingCall
  <2> QED  BY <1>b, <2>2, <2>3
<1>2. CASE RequestFilter(c)
  <2>1. call[c].pc = "filter"  BY <1>2 DEF RequestFilter
  <2>2. CASE Refuse(c)  BY <1>b, <2>2
  <2>3. ASSUME NEW l, Move(c, l), l.pc \in {"resolve", "suspend"},
               l.agent = call[c].agent, l.url = call[c].url, l.method = call[c].method, l.seen = call[c].seen
        PROVE  Pinned(c)' /\ Agrees(c)'
    <3>1. call' = [call EXCEPT ![c] = l] /\ UNCHANGED <<services, version>>  BY <2>3 DEF Move
    <3>2. ASSUME NEW n \in Services, Longest(l.url) = {n}, l.seen = version PROVE AgreesOn(c, n)
      BY <2>1, <2>3, <3>2 DEF Agrees
    <3> QED  BY <2>1, <2>3, <3>1, <3>2, MovingCall DEF AgreesOn
  <2>4. CASE Step(c, "resolve")
    <3> DEFINE l == [call[c] EXCEPT !.pc = "resolve"]
    <3>1. l.pc = "resolve" /\ l.agent = call[c].agent /\ l.url = call[c].url /\ l.method = call[c].method /\ l.seen = call[c].seen
      BY <1>c
    <3> QED  BY <2>3, <2>4, <3>1 DEF Step
  <2>5. ASSUME NEW f, Move(c, [call[c] EXCEPT !.pc = "suspend", !.found = f]) PROVE Pinned(c)' /\ Agrees(c)'
    <3> DEFINE l == [call[c] EXCEPT !.pc = "suspend", !.found = f]
    <3>1. l.pc = "suspend" /\ l.agent = call[c].agent /\ l.url = call[c].url /\ l.method = call[c].method /\ l.seen = call[c].seen
      BY <1>a DEF Calls
    <3> QED  BY <2>3, <2>5, <3>1
  <2> QED  BY <1>2, <2>2, <2>4, <2>5 DEF RequestFilter
<1>3. CASE AutoRevoke(c)
  <2>1. call'[c] = NoCall  BY <1>a, <1>3 DEF AutoRevoke
  <2> QED  BY <2>1, GoneCall
<1>4. CASE ResolveHost(c)
  <2>1. call[c].pc = "resolve"  BY <1>4 DEF ResolveHost
  <2>2. ASSUME evaluatePolicy(call[c].url), NEW ip \in dns[call[c].url], Move(c, [call[c] EXCEPT !.pc = "match", !.ip = ip])
        PROVE  Pinned(c)' /\ Agrees(c)'
    <3> DEFINE l == [call[c] EXCEPT !.pc = "match", !.ip = ip]
    <3>1. call' = [call EXCEPT ![c] = l] /\ UNCHANGED <<services, version>>  BY <2>2 DEF Move
    <3>2. /\ l.pc = "match" /\ l.ip = ip /\ l.agent = call[c].agent /\ l.url = call[c].url
          /\ l.method = call[c].method /\ l.seen = call[c].seen
      BY <1>a DEF Calls
    <3>3. evaluateIPPolicy(ip, call[c].url)  BY <2>2 DEF evaluatePolicy
    <3> HIDE DEF l
    <3>4. ASSUME NEW n \in Services, Longest(l.url) = {n}, l.seen = version PROVE AgreesOn(c, n)
      BY <2>1, <3>2, <3>4 DEF Agrees
    <3> QED  BY <2>1, <3>1, <3>2, <3>3, <3>4, MovingCall DEF AgreesOn
  <2> QED  BY <1>b, <1>4, <2>2 DEF ResolveHost
<1>5. CASE MatchAgain(c)
  <2>1. call[c].pc = "match" /\ call[c].found = None  BY <1>5 DEF MatchAgain, Types, CallsOK
  <2>2. PICK f \in matchService(call[c].url) :
           \/ f = None /\ Step(c, "client")
           \/ Refuse(c)
           \/ f # None /\ Move(c, [call[c] EXCEPT !.pc = "validate", !.found = f])
    BY <1>5 DEF MatchAgain
  <2>3. \A n \in Services : Longest(call[c].url) = {n} => f # None /\ f.name = n
    <3> SUFFICES ASSUME NEW n \in Services, Longest(call[c].url) = {n} PROVE f # None /\ f.name = n
      OBVIOUS
    <3>1. f = [name |-> n, svc |-> services[n]] /\ n \in DOMAIN services  BY <2>2, Lookup
    <3>2. f \in Found  BY <3>1 DEF Found, Types, ServicesOK
    <3> QED  BY <3>1, <3>2, ProxyConstants
  <2>4. Matched(call[c].url) = {} => f = None  BY <2>2, Lookup
  <2>5. ASSUME NEW l, Move(c, l), l.pc \in {"client", "validate"}, l.found = f, l.pc = "client" <=> f = None,
               l.agent = call[c].agent, l.url = call[c].url, l.method = call[c].method, l.seen = call[c].seen, l.ip = call[c].ip
        PROVE  Pinned(c)' /\ Agrees(c)'
    <3>1. call' = [call EXCEPT ![c] = l] /\ UNCHANGED <<services, version>>  BY <2>5 DEF Move
    <3>2. evaluateIPPolicy(l.ip, l.url)  BY <2>1, <2>5 DEF Pinned
    <3>3. ASSUME NEW n \in Services, Longest(l.url) = {n}, l.seen = version PROVE AgreesOn(c, n)
      BY <2>1, <2>5, <3>3 DEF Agrees
    <3> QED  BY <2>1, <2>3, <2>4, <2>5, <3>1, <3>2, <3>3, MovingCall DEF AgreesOn
  <2>6. CASE f = None /\ Step(c, "client")
    <3> DEFINE l == [call[c] EXCEPT !.pc = "client"]
    <3>1. /\ l.pc = "client" /\ l.found = call[c].found /\ l.agent = call[c].agent /\ l.url = call[c].url
          /\ l.method = call[c].method /\ l.seen = call[c].seen /\ l.ip = call[c].ip
      BY <1>c
    <3> QED  BY <2>1, <2>5, <2>6, <3>1 DEF Step
  <2>7. CASE f # None /\ Move(c, [call[c] EXCEPT !.pc = "validate", !.found = f])
    <3> DEFINE l == [call[c] EXCEPT !.pc = "validate", !.found = f]
    <3>1. /\ l.pc = "validate" /\ l.found = f /\ l.agent = call[c].agent /\ l.url = call[c].url
          /\ l.method = call[c].method /\ l.seen = call[c].seen /\ l.ip = call[c].ip
      BY <1>a DEF Calls
    <3> QED  BY <2>5, <2>7, <3>1
  <2> QED  BY <1>b, <2>2, <2>6, <2>7
<1>6. CASE ValidateGrant(c) \/ IssueGrant(c)
  <2>1. PICK pc \in {"issue", "client"} : call[c].pc \in {"validate", "issue"} /\ Step(c, pc)
    BY <1>6 DEF ValidateGrant, IssueGrant
  <2> DEFINE l == [call[c] EXCEPT !.pc = pc]
  <2>2. call' = [call EXCEPT ![c] = l] /\ UNCHANGED <<services, version>>  BY <2>1 DEF Step, Move
  <2>3. /\ l.pc = pc /\ l.agent = call[c].agent /\ l.url = call[c].url /\ l.method = call[c].method
        /\ l.seen = call[c].seen /\ l.found = call[c].found /\ l.ip = call[c].ip
    BY <1>c
  <2> HIDE DEF l
  <2>4. evaluateIPPolicy(l.ip, l.url)  BY <2>1, <2>3 DEF Pinned
  <2>5. ASSUME NEW n \in Services, Longest(l.url) = {n}, l.seen = version PROVE AgreesOn(c, n)
    BY <2>1, <2>3, <2>5 DEF Agrees
  <2>6. l.seen = version => Matched(l.url) # {}
    BY <2>1, <2>3 DEF Agrees, AgreesOnNone
  <2> QED  BY <2>1, <2>2, <2>3, <2>4, <2>5, <2>6, MovingCall DEF AgreesOn
<1>7. CASE Send(c)
  <2> DEFINE f == call[c].found
             l == [call[c] EXCEPT !.pc = "sent", !.ip = call[c].ip, !.client = serviceClient(f),
                                  !.credentials = injectCredentials(f)]
  <2>1. call[c].pc = "client" /\ call' = [call EXCEPT ![c] = l] /\ UNCHANGED <<services, version>>
    BY <1>7 DEF Send, pinnedURL, Move
  <2>2. /\ l.pc = "sent" /\ l.agent = call[c].agent /\ l.url = call[c].url /\ l.method = call[c].method
        /\ l.seen = call[c].seen /\ l.found = f /\ l.ip = call[c].ip
        /\ l.client = serviceClient(f) /\ l.credentials = injectCredentials(f)
    BY <1>a DEF Calls
  <2> HIDE DEF l
  <2>3. evaluateIPPolicy(l.ip, l.url)  BY <2>1, <2>2 DEF Pinned
  <2>4. ASSUME NEW n \in Services, Longest(l.url) = {n}, l.seen = version
        PROVE  /\ <<l.agent, n, l.method>> \in Allowed /\ <<l.agent, n, l.method>> \in Envelope
               /\ l.found # None /\ l.found.name = n
               /\ l.credentials = n /\ l.client = buildServiceClient(services[n].cfg)
    <3>1. AgreesOn(c, n)  BY <2>1, <2>2, <2>4 DEF Agrees
    <3>2. f # None /\ f.name = n  BY <2>1, <3>1 DEF AgreesOn
    <3>3. n \in DOMAIN services  BY <2>4, Lookup
    <3>4. <<l.agent, n, l.method>> \in Allowed /\ <<l.agent, n, l.method>> \in Envelope
      BY <2>1, <2>2, <3>1 DEF AgreesOn
    <3> QED  BY <2>2, <3>2, <3>3, <3>4 DEF serviceClient, injectCredentials
  <2>5. l.seen = version /\ Matched(l.url) = {} => l.found = None /\ l.credentials = None
    BY <2>1, <2>2 DEF Agrees, AgreesOnNone, injectCredentials
  <2> QED  BY <2>1, <2>2, <2>3, <2>4, <2>5, MovingCall
<1>8. CASE Answered(c)  BY <1>b, <1>8 DEF Answered
<1> QED  BY <1>1, <1>2, <1>3, <1>4, <1>5, <1>6, <1>7, <1>8 DEF Serve

LEMMA RequestKeeps ==
    ASSUME Types, NEW c \in Callers, NEW a \in GrantAgents, NEW u \in Urls, NEW m \in Methods,
           toolHTTPRequest(c, a, u, m)
    PROVE  Pinned(c)' /\ Agrees(c)'
<1> DEFINE l == [NoCall EXCEPT !.pc = "envelope", !.agent = a, !.url = u, !.method = m, !.seen = version]
<1>1. call' = [call EXCEPT ![c] = l] /\ UNCHANGED <<services, version>>  BY DEF toolHTTPRequest, Move
<1>2. l.pc = "envelope" /\ l.agent = a /\ l.url = u /\ l.method = m  BY DEF NoCall
<1> HIDE DEF l
<1>3. ASSUME NEW n \in Services, Longest(u) = {n} PROVE <<a, n, m>> \in Allowed
  <2>1. PICK f \in matchService(u) : f # None => <<a, f.name, m>> \in Allowed  BY DEF toolHTTPRequest
  <2>2. f = [name |-> n, svc |-> services[n]] /\ n \in DOMAIN services  BY <1>3, <2>1, Lookup
  <2>3. f \in Found  BY <2>2 DEF Found, Types, ServicesOK
  <2> QED  BY <2>1, <2>2, <2>3, ProxyConstants
<1> QED  BY <1>1, <1>2, <1>3, MovingCall

LEMMA InvInit == Init => Inv
BY TypesInit, NoCallType DEF Init, Inv, Pinned, Agrees

LEMMA InvNext == Inv /\ [Next]_vars => Inv'
<1> SUFFICES ASSUME Inv, [Next]_vars PROVE Inv'  OBVIOUS
<1>1. Types /\ Types'  BY TypesNext DEF Inv
<1>2. SameTable \/ version' = version + 1
  <2>1. CASE UNCHANGED vars  BY <2>1 DEF vars, SameTable
  <2> QED  BY <1>1, <2>1, TableStep
<1>3. ASSUME NEW c \in Callers PROVE Pinned(c)' /\ Agrees(c)'
  <2>1. Pinned(c) /\ Agrees(c)  BY DEF Inv
  <2>2. CASE call'[c] = call[c]  BY <1>1, <1>2, <2>1, <2>2, RestingCall
  <2>3. CASE Serve(c)  BY <1>1, <2>1, <2>3, ServeKeeps
  <2>4. CASE \E a \in GrantAgents, u \in Urls, m \in Methods : toolHTTPRequest(c, a, u, m)
    BY <1>1, <2>4, RequestKeeps
  <2>5. CASE Restart
    <3>1. call'[c] = NoCall  BY <2>5 DEF Restart
    <3> QED  BY <3>1, GoneCall
  <2>6. ASSUME NEW e \in Callers, e # c,
               Serve(e) \/ \E a \in GrantAgents, u \in Urls, m \in Methods : toolHTTPRequest(e, a, u, m)
        PROVE  call'[c] = call[c]
    <3>1. \E l : call' = [call EXCEPT ![e] = l]
      BY <2>6 DEF toolHTTPRequest, Serve, enforceProxyEnvelope, RequestFilter, AutoRevoke, ResolveHost, MatchAgain,
                  ValidateGrant, IssueGrant, Send, Answered, Refuse, Step, Move
    <3> QED  BY <1>1, <2>6, <3>1 DEF Types, CallsOK
  <2>7. ASSUME NEW d \in Admins, AdminStep(d) PROVE call' = call
    BY <2>7 DEF AdminStep, handleUpdateService, handleDeleteService, handleToggleService, Accept, save, SaveEnded
  <2>8. Tick \/ GrantStep \/ (\E u \in Urls, answer \in Answers : ResolverChanges(u, answer)) \/ UNCHANGED vars
           => call' = call
    BY DEF Tick, GrantStep, ResolverChanges, vars
  <2> QED  BY <2>2, <2>3, <2>4, <2>5, <2>6, <2>7, <2>8 DEF Next
<1> QED  BY <1>1, <1>3 DEF Inv

LEMMA Invariance == Spec => []Inv
BY InvInit, InvNext, PTL DEF Spec

-----------------------------------------------------------------------------
\* Types of the table, the requests, the file and the grants; a request on its way has an
\* address and, from MatchAgain to the grant, its service.
THEOREM TypeCorrect == Spec => []TypeOK
<1>1. Inv => TypeOK  BY TypesGiveTypeOK DEF Inv
<1> QED  BY <1>1, Invariance, PTL

\* However names resolve meanwhile, and whatever the network policy is, a request goes to
\* an address that the policy allows for its URL.
THEOREM RequestsArePinned == Spec => []PinnedToPolicy
<1>1. Inv => PinnedToPolicy  BY DEF Inv, Pinned, PinnedToPolicy
<1> QED  BY <1>1, Invariance, PTL

\* The five lookups of a request agree when the table has not changed since it came in,
\* also when services were switched on, off or suspended meanwhile.
THEOREM LookupsAgree == Spec => []SentAsConfigured
<1>1. Inv => SentAsConfigured
  <2> SUFFICES ASSUME Inv, NEW c \in Callers, call[c].pc = "sent", call[c].seen = version,
                      Cardinality(matchService(call[c].url)) = 1, NEW f \in matchService(call[c].url)
               PROVE  IF f = None THEN call[c].credentials = None
                      ELSE /\ call[c].credentials = f.name
                           /\ <<call[c].agent, f.name, call[c].method>> \in Allowed \cap Envelope
                           /\ call[c].client = buildServiceClient(f.svc.cfg)
    BY DEF SentAsConfigured
  <2> DEFINE u == call[c].url
  <2>1. CASE Matched(u) = {}
    BY <2>1, Lookup DEF Inv, Agrees, AgreesOnNone
  <2>2. CASE Matched(u) # {}
    <3>1. matchService(u) = {[name |-> n, svc |-> services[n]] : n \in Longest(u)}
      BY <2>2 DEF matchService, Matched, Longest
    <3>2. IsFiniteSet(matchService(u))
      <4>1. Longest(u) \subseteq Services  BY DEF Longest, Matched, Inv, Types, ServicesOK
      <4>2. IsFiniteSet(Longest(u))  BY <4>1, ProxyConstants, FS_Subset
      <4> DEFINE F == [n \in Longest(u) |-> [name |-> n, svc |-> services[n]]]
      <4>3. F \in Surjection(Longest(u), matchService(u))
        BY <3>1 DEF Surjection
      <4> QED  BY <4>2, <4>3, FS_Surjection
    <3>3. \A g \in matchService(u) : g = f  BY <3>2, FS_Singleton
    <3>4. PICK n \in Longest(u) : f = [name |-> n, svc |-> services[n]]  BY <3>1
    <3>5. Longest(u) = {n}
      <4>1. ASSUME NEW m \in Longest(u) PROVE m = n
        <5>1. [name |-> m, svc |-> services[m]] = f  BY <3>1, <3>3
        <5>2. [name |-> m, svc |-> services[m]].name = m  OBVIOUS
        <5> QED  BY <3>4, <5>1, <5>2
      <4> QED  BY <4>1
    <3>6. n \in Services /\ f \in Found  BY <3>4 DEF Longest, Matched, Found, Inv, Types, ServicesOK
    <3>7. AgreesOn(c, n)  BY <3>5, <3>6 DEF Inv, Agrees
    <3> QED  BY <3>4, <3>6, <3>7, ProxyConstants DEF AgreesOn
  <2> QED  BY <2>1, <2>2
<1> QED  BY <1>1, Invariance, PTL

\* At most one grant of an agent for a service is valid, however many of its requests
\* found none at the same time.
THEOREM GrantsAreShared == Spec => []OneValidGrant
<1>1. Inv => OneValidGrant  BY AtMostOneGrant DEF Inv, Types
<1> QED  BY <1>1, Invariance, PTL

=============================================================================
