-------------------------- MODULE FederationProofs --------------------------
(***************************************************************************)
(* The federator for every table of remotes, number of callers, discoverers*)
(* and admins: pointers lead to objects, tools are listed under the name   *)
(* of the server they came from; and, for one admin at a time, the file is *)
(* always whole and follows the table.                                     *)
(***************************************************************************)
EXTENDS Federation, FiniteSetTheorems, SequenceTheorems, WellFoundedInduction, TLAPS

-----------------------------------------------------------------------------
(* The file of the remotes.                                                *)

\* What is whole holds a table, and so does a save from the copy to the rename.
FileInv ==
    /\ FileTypeOK
    /\ file.kind = "whole" => file.data \in Tables
    /\ tmp.kind = "whole" => tmp.data \in Tables
    /\ \A d \in Savers : saver[d].pc \in {"open", "write", "rename"} => saver[d].data \in Tables

LEMMA RestingType ==
    ASSUME NEW pc \in {"idle", "copy", "saved", "failed"}
    PROVE  Resting(pc) \in SaverLocals /\ Resting(pc).pc = pc
BY DEF Resting, SaverLocals

LEMMA ContentType ==
    /\ \A kind \in {"missing", "empty", "torn"} : Content(kind) \in Contents /\ Content(kind).kind = kind
    /\ \A t \in Tables : Whole(t) \in Contents /\ Whole(t).kind = "whole" /\ Whole(t).data = t
BY DEF Content, Contents, Whole

LEMMA FileInvInit == FileInit => FileInv
BY RestingType, ContentType DEF FileInit, FileInv, FileTypeOK

\* One saver goes to a resting place, or takes its copy.
LEMMA SaverMoves ==
    ASSUME FileInv, UNCHANGED <<file, tmp>>, NEW d \in Savers, NEW l \in SaverLocals,
           l.pc \in {"open", "write", "rename"} => l.data \in Tables,
           saver' = [saver EXCEPT ![d] = l]
    PROVE  FileInv'
BY DEF FileInv, FileTypeOK

LEMMA FileInvRestart == FileInv /\ FileRestart => FileInv'
BY RestingType DEF FileInv, FileTypeOK, FileRestart

LEMMA FileInvSave ==
    ASSUME FileInv, NEW d \in Savers, SaveStep(d)
    PROVE  FileInv'
<1> USE DEF FileInv, FileTypeOK
<1>1. CASE OpenTmp(d)
  <2>1. CASE tmp' = Content("empty") /\ saver' = [saver EXCEPT ![d].pc = "write", ![d].fd = "tmp"]
    <3>1. file' = file /\ saver[d].pc = "open" /\ saver[d].data \in Tables  BY <1>1 DEF OpenTmp
    <3>2. saver' \in [Savers -> SaverLocals] /\ \A e \in Savers : saver'[e].data = saver[e].data /\ (e # d => saver'[e] = saver[e])
      <4> DEFINE l == [saver[d] EXCEPT !.pc = "write", !.fd = "tmp"]
      <4>1. l \in SaverLocals /\ l.data = saver[d].data  BY DEF SaverLocals
      <4>2. saver' = [saver EXCEPT ![d] = l]  BY <2>1
      <4> HIDE DEF l
      <4> QED  BY <4>1, <4>2
    <3> QED  BY <2>1, <3>1, <3>2, ContentType
  <2>2. CASE saver' = [saver EXCEPT ![d] = Resting("failed")] /\ UNCHANGED tmp
    BY <1>1, <2>2, SaverMoves, RestingType DEF OpenTmp
  <2> QED  BY <1>1, <2>1, <2>2 DEF OpenTmp
<1>2. CASE WriteTmp(d)
  <2>1. saver[d].pc = "write" /\ saver[d].data \in Tables  BY <1>2 DEF WriteTmp
  <2>2. \A c \in Contents : \A x \in Overwritten(c, saver[d].data) : x \in Contents /\ (x.kind = "whole" => x.data \in Tables)
    BY <2>1, ContentType DEF Overwritten
  <2>3. /\ tmp' = tmp \/ tmp' \in Overwritten(tmp, saver[d].data) \/ tmp' = Content("torn")
        /\ file' = file \/ file' \in Overwritten(file, saver[d].data) \/ file' = Content("torn")
    BY <1>2 DEF WriteTmp
  <2>4. /\ file' \in Contents /\ tmp' \in Contents
        /\ file'.kind = "whole" => file'.data \in Tables
        /\ tmp'.kind = "whole" => tmp'.data \in Tables
    BY <2>2, <2>3, ContentType
  <2>5. PICK l \in SaverLocals : /\ saver' = [saver EXCEPT ![d] = l]
                                 /\ l.pc = "rename" => l.data = saver[d].data
                                 /\ l.pc \in {"rename", "failed"}
    <3>1. [saver[d] EXCEPT !.pc = "rename", !.fd = "none"] \in SaverLocals  BY DEF SaverLocals
    <3>2. /\ [saver[d] EXCEPT !.pc = "rename", !.fd = "none"].data = saver[d].data
          /\ [saver[d] EXCEPT !.pc = "rename", !.fd = "none"].pc = "rename"
      BY DEF SaverLocals
    <3> QED  BY <1>2, <3>1, <3>2, RestingType DEF WriteTmp
  <2> QED  BY <2>1, <2>4, <2>5
<1>3. CASE RenameTmp(d)
  <2>1. ASSUME NEW pc \in {"saved", "failed"}
        PROVE  /\ Renamed(d, pc) \in [Savers -> SaverLocals]
               /\ \A e \in Savers : Renamed(d, pc)[e].pc \in {"open", "write", "rename"} => Renamed(d, pc)[e].data \in Tables
    <3>1. ASSUME NEW e \in Savers
          PROVE  Renamed(d, pc)[e] \in SaverLocals /\ (Renamed(d, pc)[e].pc \in {"open", "write", "rename"} => Renamed(d, pc)[e].data \in Tables)
      <4>1. CASE e = d  BY <4>1, RestingType DEF Renamed
      <4>2. CASE e # d
        <5>1. ASSUME NEW fd \in {"file", "gone"}
              PROVE  /\ [saver[e] EXCEPT !.fd = fd] \in SaverLocals
                     /\ [saver[e] EXCEPT !.fd = fd].pc = saver[e].pc /\ [saver[e] EXCEPT !.fd = fd].data = saver[e].data
          BY DEF SaverLocals
        <5> QED  BY <4>2, <5>1 DEF Renamed
      <4> QED  BY <4>1, <4>2
    <3>2. Renamed(d, pc) \in [Savers -> SaverLocals]  BY <3>1 DEF Renamed
    <3> QED  BY <3>1, <3>2
  <2>2. tmp' = Content("missing") /\ file' \in {file, tmp} /\ saver' \in {Renamed(d, "saved"), Renamed(d, "failed")}
    BY <1>3 DEF RenameTmp
  <2> QED  BY <2>1, <2>2, ContentType
<1> QED  BY <1>1, <1>2, <1>3 DEF SaveStep

-----------------------------------------------------------------------------
(* The grants.                                                             *)

LEMMA GrantConstants ==
    /\ MaxTTL \in Nat /\ \A d \in DefaultTTLs : d \in 1..MaxTTL
    /\ Linger \in Nat /\ NoGrant \notin Grants
<1>1. \E longest \in DefaultTTLs : \A t \in DefaultTTLs : t <= longest  BY GrantAssumption
<1>2. MaxTTL \in DefaultTTLs /\ \A d \in DefaultTTLs : d <= MaxTTL  BY <1>1 DEF MaxTTL
<1>3. NoGrant \notin Grants  BY DEF NoGrant, Grants
<1> QED  BY <1>2, <1>3, GrantAssumption

\* The steps of the store keep its types.
LEMMA GrantSteps ==
    ASSUME GrantsTypeOK,
           \/ grants' = [i \in GrantIds |-> Aged(grants[i])] /\ UNCHANGED <<mode, ttl>>
           \/ \E a \in GrantAgents, t \in Resources : Issue(a, t) /\ UNCHANGED <<mode, ttl>>
           \/ \E i \in GrantIds : RevokeGrant(i)
           \/ cleanExpired
           \/ \E m \in Modes, d \in DefaultTTLs : UpdateGrantSettings(m, d)
           \/ UNCHANGED grantVars
    PROVE  GrantsTypeOK'
<1> USE DEF GrantsTypeOK
<1>1. CASE grants' = [i \in GrantIds |-> Aged(grants[i])] /\ UNCHANGED <<mode, ttl>>
  <2>1. ASSUME NEW g \in Grants \cup {NoGrant}  PROVE Aged(g) \in Grants \cup {NoGrant}
    <3>1. CASE g = NoGrant \/ g.left = -(Linger + 1)  BY <3>1 DEF Aged
    <3>2. CASE ~(g = NoGrant \/ g.left = -(Linger + 1))
      <4>1. Aged(g) = [g EXCEPT !.left = @ - 1] /\ g \in Grants  BY <3>2 DEF Aged
      <4> QED  BY <3>2, <4>1, GrantConstants DEF Grants
    <3> QED  BY <3>1, <3>2
  <2> QED  BY <1>1, <2>1
<1>2. ASSUME NEW a \in GrantAgents, NEW t \in Resources, Issue(a, t), UNCHANGED <<mode, ttl>>
      PROVE  GrantsTypeOK'
  <2> DEFINE g == [agent |-> a, target |-> t, left |-> ttl, status |-> "active"]
  <2>1. g \in Grants  BY GrantConstants DEF Grants
  <2>2. grants' = grants \/ \E i : grants' = [grants EXCEPT ![i] = g]
    BY <1>2 DEF Issue, IssueNew
  <2> HIDE DEF g
  <2> QED  BY <1>2, <2>1, <2>2
<1>3. ASSUME NEW i \in GrantIds, RevokeGrant(i)  PROVE GrantsTypeOK'
  <2>1. grants[i] \in Grants /\ grants' = [grants EXCEPT ![i].status = "revoked"] /\ UNCHANGED <<mode, ttl>>
    BY <1>3 DEF RevokeGrant, Revoke, Issued
  <2>2. [grants[i] EXCEPT !.status = "revoked"] \in Grants  BY <2>1 DEF Grants
  <2> QED  BY <2>1, <2>2
<1>4. CASE cleanExpired
  <2>1. ASSUME NEW g \in Grants  PROVE Cleaned(g) \in Grants \cup {NoGrant}
    <3> DEFINE marked == IF g.status = "active" /\ g.left < 0 THEN [g EXCEPT !.status = "expired"] ELSE g
    <3>1. marked \in Grants  BY DEF Grants
    <3>2. Cleaned(g) = marked \/ Cleaned(g) = NoGrant  BY DEF Cleaned
    <3> QED  BY <3>1, <3>2
  <2>2. \A i \in Issued : grants[i] \in Grants  BY DEF Issued
  <2> QED  BY <1>4, <2>1, <2>2 DEF cleanExpired
<1>5. ASSUME NEW m \in Modes, NEW d \in DefaultTTLs, UpdateGrantSettings(m, d)  PROVE GrantsTypeOK'
  BY <1>5 DEF UpdateGrantSettings
<1>6. CASE UNCHANGED grantVars  BY <1>6 DEF grantVars
<1> QED  BY <1>1, <1>2, <1>3, <1>4, <1>5, <1>6

-----------------------------------------------------------------------------
(* Constants.                                                              *)

\* A set of numbers that is not empty has a least one.
LEMMA LeastNumber ==
    ASSUME NEW T, T \subseteq Nat, T # {}
    PROVE  \E x \in T : \A y \in T : x <= y
<1>1. IsWellFoundedOn(OpToRel(<, Nat), Nat)  BY NatLessThanWellFounded
<1>2. PICK x \in T : \A y \in T : ~ (<<y, x>> \in OpToRel(<, Nat))  BY <1>1, WFMin
<1>3. \A y \in T : ~(y < x)  BY <1>2 DEF OpToRel
<1>4. \A y \in T : x <= y  BY <1>3
<1> QED  BY <1>4

\* There is a longest delay: a first prefix of the list without one cannot be.
LEMMA LongestDelay ==
    MaxAge \in Delays /\ MaxAge \in Nat /\ \A d \in Delays : d \in Nat /\ d <= MaxAge
<1> DEFINE upto(n) == {Backoffs[i] : i \in 1..n} \cup {RefreshAfter}
           Bounded(n) == \E d \in upto(n) : \A e \in upto(n) : e <= d
           T == {n \in 0..Len(Backoffs) : ~Bounded(n)}
<1>1. /\ Len(Backoffs) \in Nat /\ DOMAIN Backoffs = 1..Len(Backoffs) /\ RefreshAfter \in Nat
      /\ \A i \in 1..Len(Backoffs) : Backoffs[i] \in Nat
  BY DelayAssumption, LenProperties
<1>2. T = {}
  <2> SUFFICES ASSUME T # {} PROVE FALSE  OBVIOUS
  <2>1. T \subseteq Nat  BY <1>1
  <2> HIDE DEF T
  <2>2. PICK n \in T : \A m \in T : n <= m  BY <2>1, LeastNumber
  <2>3. n \in 0..Len(Backoffs) /\ ~Bounded(n)  BY <2>2 DEF T
  <2>4. CASE n = 0
    <3>1. upto(0) = {RefreshAfter}  OBVIOUS
    <3>2. Bounded(0)  BY <1>1, <3>1
    <3> QED  BY <2>3, <2>4, <3>2
  <2>5. CASE n # 0
    <3>1. n - 1 \in 0..Len(Backoffs) /\ n \in 1..Len(Backoffs) /\ ~(n <= n - 1)  BY <1>1, <2>3, <2>5
    <3>2. n - 1 \notin T  BY <2>2, <3>1
    <3>3. Bounded(n - 1)  BY <3>1, <3>2 DEF T
    <3>4. PICK d \in upto(n - 1) : \A e \in upto(n - 1) : e <= d  BY <3>3
    <3>5. upto(n) = upto(n - 1) \cup {Backoffs[n]}
      <4>1. 1..n = 1..(n - 1) \cup {n}  BY <3>1
      <4> QED  BY <4>1
    <3>6. \A e \in upto(n - 1) : e \in Nat  BY <1>1, <3>1
    <3>7. Backoffs[n] \in Nat  BY <1>1, <3>1
    <3> HIDE DEF upto
    <3>8. CASE Backoffs[n] <= d  BY <2>3, <3>4, <3>5, <3>6, <3>8
    <3>9. CASE ~(Backoffs[n] <= d)
      <4>1. d <= Backoffs[n]  BY <3>6, <3>7, <3>9
      <4>2. \A e \in upto(n) : e <= Backoffs[n]  BY <3>4, <3>5, <3>6, <3>7, <4>1
      <4> QED  BY <2>3, <3>5, <4>2
    <3> QED  BY <3>8, <3>9
  <2> QED  BY <2>4, <2>5
<1>3. Len(Backoffs) \in 0..Len(Backoffs)  BY <1>1
<1>4. Bounded(Len(Backoffs))  BY <1>2, <1>3
<1>5. upto(Len(Backoffs)) = Delays  BY <1>1 DEF Delays
<1>6. \E d \in Delays : \A e \in Delays : e <= d  BY <1>4, <1>5
<1>7. MaxAge \in Delays /\ \A e \in Delays : e <= MaxAge  BY <1>6 DEF MaxAge
<1>8. \A d \in Delays : d \in Nat  BY <1>1 DEF Delays
<1> QED  BY <1>7, <1>8

-----------------------------------------------------------------------------
(* Remotes in memory.                                                      *)

Alive == {o \in Ids : obj[o] # NoObject}

\* The tools a remote has were listed by its own server.
Own(r) == r \in Objects /\ r.tools \in {None, r.cfg.url}

ObjectsOK == obj \in [Ids -> Objects \cup {NoObject}] /\ \A o \in Alive : Own(obj[o])

\* s is what became of the remote r while no admin touched it.
Tame(r, s) == Own(s) /\ s.cfg = r.cfg /\ (s.enabled => r.enabled)

\* No remote comes or goes, and none is switched on.
Quiet == /\ obj' \in [Ids -> Objects \cup {NoObject}]
         /\ \A o \in Ids : IF obj[o] = NoObject THEN obj'[o] = NoObject ELSE Tame(obj[o], obj'[o])

LEMMA ObjectFields ==
    /\ NoObject \notin Objects
    /\ \A c \in Configs : c.url \in Urls /\ c.enabled \in BOOLEAN
    /\ Len(Backoffs) \in Nat
    /\ \A r \in Objects : /\ r.cfg \in Configs /\ r.enabled \in BOOLEAN /\ r.errs \in 0..Len(Backoffs)
                          /\ r.age \in 0..MaxAge /\ r.client \in {"base"} \cup Callers
<1>1. NoObject \notin Objects
  <2> SUFFICES ASSUME NoObject \in Objects PROVE FALSE  OBVIOUS
  <2>1. NoObject.status = "none"  BY DEF NoObject
  <2> QED  BY <2>1 DEF Objects
<1>2. \A c \in Configs : c.url \in Urls /\ c.enabled \in BOOLEAN  BY ConfigAssumption DEF Urls
<1>3. Len(Backoffs) \in Nat  BY DelayAssumption, LenProperties
<1> QED  BY <1>1, <1>2, <1>3 DEF Objects

LEMMA FreshIsOwn ==
    ASSUME NEW c \in Configs, NEW e \in BOOLEAN, NEW s \in {"disconnected", "initializing"}
    PROVE  Own(Fresh(c, e, s)) /\ Fresh(c, e, s).cfg = c /\ (Fresh(c, e, s).enabled <=> e)
<1>1. 0 \in 0..Len(Backoffs) /\ MaxAge \in 0..MaxAge  BY ObjectFields, LongestDelay
<1>2. Fresh(c, e, s) \in Objects  BY <1>1 DEF Fresh, Objects
<1> QED  BY <1>2 DEF Fresh, Own

\* What discoveries, calls and time do to a remote, field by field.
LEMMA TameChanges ==
    ASSUME NEW r, Own(r)
    PROVE  /\ Tame(r, r)
           /\ \A st \in {"disconnected", "initializing", "connected", "error"} : Tame(r, [r EXCEPT !.status = st])
           /\ Tame(r, Discovered(r)) /\ Tame(r, Bumped(r)) /\ Tame(r, markError(r))
           /\ Tame(r, [r EXCEPT !.enabled = FALSE])
           /\ \A k \in {"base"} \cup Callers : Tame(r, [r EXCEPT !.client = k])
           /\ r.age # MaxAge => Tame(r, [r EXCEPT !.age = @ + 1])
<1>1. r \in Objects /\ r.cfg.url \in Urls  BY ObjectFields DEF Own
<1>2. 0 \in 0..MaxAge /\ 0 \in 0..Len(Backoffs) /\ MaxAge \in Nat  BY ObjectFields, LongestDelay
<1>3. ASSUME NEW s \in Objects, NEW n \in 0..Len(Backoffs)  PROVE [s EXCEPT !.errs = n] \in Objects
  BY DEF Objects
<1>4. Tame(r, Bumped(r))
  <2> DEFINE n == IF r.errs < Len(Backoffs) THEN r.errs + 1 ELSE r.errs
  <2>1. n \in 0..Len(Backoffs)  BY <1>1, ObjectFields
  <2>2. Bumped(r) = [r EXCEPT !.errs = n]  BY DEF Bumped
  <2> HIDE DEF n
  <2> QED  BY <1>1, <2>1, <2>2 DEF Tame, Own, Objects
<1>5. Tame(r, Discovered(r))  BY <1>1, <1>2 DEF Tame, Own, Objects, Discovered
<1>6. Tame(r, markError(r))
  <2>1. markError(r) = [Bumped(r) EXCEPT !.status = "error", !.age = 0]  BY DEF markError
  <2> QED  BY <1>2, <1>4, <2>1 DEF Tame, Own, Objects
<1>7. r.age # MaxAge => Tame(r, [r EXCEPT !.age = @ + 1])
  <2> SUFFICES ASSUME r.age # MaxAge PROVE Tame(r, [r EXCEPT !.age = r.age + 1])  OBVIOUS
  <2>1. r.age + 1 \in 0..MaxAge  BY <1>1, <1>2, ObjectFields
  <2> QED  BY <1>1, <2>1 DEF Tame, Own, Objects
<1>8. Tame(r, r) /\ Tame(r, [r EXCEPT !.enabled = FALSE])  BY <1>1 DEF Tame, Own, Objects
<1>9. \A st \in {"disconnected", "initializing", "connected", "error"} : Tame(r, [r EXCEPT !.status = st])
  BY <1>1 DEF Tame, Own, Objects
<1>10. \A k \in {"base"} \cup Callers : Tame(r, [r EXCEPT !.client = k])
  BY <1>1 DEF Tame, Own, Objects
<1> QED  BY <1>4, <1>5, <1>6, <1>7, <1>8, <1>9, <1>10

\* One remote changes.
LEMMA OneChanges ==
    ASSUME ObjectsOK, NEW o \in Ids, NEW r, Own(r), obj' = [obj EXCEPT ![o] = r]
    PROVE  ObjectsOK' /\ Alive' = Alive \cup {o} /\ (o \in Alive /\ Tame(obj[o], r) => Quiet)
<1>1. r \in Objects /\ r # NoObject  BY ObjectFields DEF Own
<1>2. obj' \in [Ids -> Objects \cup {NoObject}] /\ obj'[o] = r /\ \A p \in Ids : p # o => obj'[p] = obj[p]
  BY <1>1 DEF ObjectsOK
<1>3. Alive' = Alive \cup {o}  BY <1>1, <1>2 DEF Alive
<1>4. \A p \in Alive' : Own(obj'[p])  BY <1>2, <1>3 DEF ObjectsOK, Alive
<1>5. ASSUME o \in Alive, Tame(obj[o], r)  PROVE Quiet
  <2>1. \A p \in Alive : p # o => Tame(obj[p], obj'[p])  BY <1>2, TameChanges DEF ObjectsOK, Alive
  <2> QED  BY <1>2, <1>5, <2>1 DEF Quiet, Alive
<1> QED  BY <1>2, <1>3, <1>4, <1>5 DEF ObjectsOK

LEMMA QuietKeeps ==
    ASSUME ObjectsOK, Quiet \/ UNCHANGED obj
    PROVE  ObjectsOK' /\ Alive' = Alive /\ Quiet
<1>1. CASE UNCHANGED obj
  <2>1. \A o \in Alive : Tame(obj[o], obj'[o])  BY <1>1, TameChanges DEF ObjectsOK
  <2> QED  BY <1>1, <2>1 DEF ObjectsOK, Quiet, Alive
<1>2. CASE Quiet
  <2>1. \A o \in Ids : obj'[o] = NoObject <=> obj[o] = NoObject  BY <1>2, ObjectFields DEF Quiet, Tame, Own
  <2>2. Alive' = Alive  BY <2>1 DEF Alive
  <2>3. \A o \in Alive : Own(obj'[o])  BY <1>2 DEF Quiet, Tame, Alive
  <2> QED  BY <1>2, <2>2, <2>3 DEF ObjectsOK, Quiet
<1> QED  BY <1>1, <1>2

-----------------------------------------------------------------------------
(* Pointers to remotes.                                                    *)

TableOK == DOMAIN table \subseteq Names /\ \A n \in DOMAIN table : table[n] \in Alive

AdminOK == /\ admin \in [Admins -> Requests]
           /\ \A d \in Admins : /\ admin[d].kind \in {"replace", "add"} => admin[d].name \in Names /\ admin[d].cfg \in Configs
                                /\ admin[d].kind = "add" => admin[d].obj \in Alive

DiscOK == /\ disc \in [Discoverers -> [pc : {"idle", "begin", "handshake"}, obj : Ids \cup {0}]]
          /\ \A p \in Discoverers : disc[p].pc # "idle" => disc[p].obj \in Alive

TodoOK == todo \subseteq Alive

CallOK == /\ call \in [Callers -> Calls]
          /\ \A c \in Callers : call[c].pc # "idle" =>
                /\ call[c].obj \in Alive /\ call[c].agent \in GrantAgents /\ call[c].name \in Names

PointersOK == TableOK /\ AdminOK /\ DiscOK /\ TodoOK /\ CallOK

\* Remotes that come into being disturb no pointer.
LEMMA PointersStay ==
    ASSUME PointersOK, Alive \subseteq Alive'
    PROVE  /\ UNCHANGED table => TableOK'
           /\ UNCHANGED admin => AdminOK'
           /\ UNCHANGED disc => DiscOK'
           /\ UNCHANGED todo => TodoOK'
           /\ UNCHANGED call => CallOK'
<1> USE DEF PointersOK
<1>1. UNCHANGED table => TableOK'  BY DEF TableOK
<1>2. UNCHANGED admin => AdminOK'  BY DEF AdminOK
<1>3. UNCHANGED disc => DiscOK'  BY DEF DiscOK
<1>4. UNCHANGED todo => TodoOK'  BY DEF TodoOK
<1>5. UNCHANGED call => CallOK'  BY DEF CallOK
<1> QED  BY <1>1, <1>2, <1>3, <1>4, <1>5

\* A request of an admin is taken up or answered.
LEMMA AdminMoves ==
    ASSUME AdminOK, Alive \subseteq Alive', NEW d \in Admins,
           \/ \E saved \in BOOLEAN : admin' = [admin EXCEPT ![d] = Answered(saved)]
           \/ \E k \in {"delete", "toggle"}, n \in Names : Ask(d, k, n, None, 0)
           \/ \E n \in Names, c \in Configs : Ask(d, "replace", n, c, 0)
           \/ \E n \in Names, c \in Configs, o \in Alive' : Ask(d, "add", n, c, o)
    PROVE  AdminOK' /\ \A e \in Admins : e # d => admin'[e] = admin[e]
<1>1. PICK r \in Requests : /\ admin' = [admin EXCEPT ![d] = r]
                            /\ r.kind \in {"replace", "add"} => r.name \in Names /\ r.cfg \in Configs
                            /\ r.kind = "add" => r.obj \in Alive'
  <2>1. ASSUME NEW saved \in BOOLEAN  PROVE Answered(saved) \in Requests /\ Answered(saved).kind = "none"
    BY DEF Answered, Requests
  <2>2. ASSUME NEW k \in {"replace", "add", "delete", "toggle"}, NEW n \in Names, NEW c \in Configs \cup {None}, NEW o \in Ids \cup {0}
        PROVE  [kind |-> k, name |-> n, cfg |-> c, obj |-> o, saved |-> FALSE] \in Requests
    BY DEF Requests
  <2>3. \A o \in Alive' : o \in Ids  BY DEF Alive
  <2>4. CASE \E saved \in BOOLEAN : admin' = [admin EXCEPT ![d] = Answered(saved)]  BY <2>1, <2>4
  <2>5. ASSUME NEW k \in {"delete", "toggle"}, NEW n \in Names, Ask(d, k, n, None, 0)
        PROVE  \E r \in Requests : /\ admin' = [admin EXCEPT ![d] = r]
                                   /\ r.kind \in {"replace", "add"} => r.name \in Names /\ r.cfg \in Configs
                                   /\ r.kind = "add" => r.obj \in Alive'
    <3>1. [kind |-> k, name |-> n, cfg |-> None, obj |-> 0, saved |-> FALSE] \in Requests  BY <2>2
    <3> QED  BY <2>5, <3>1 DEF Ask
  <2>6. ASSUME NEW k \in {"replace", "add"}, NEW n \in Names, NEW c \in Configs, NEW o \in Ids \cup {0},
               k = "add" => o \in Alive', Ask(d, k, n, c, o)
        PROVE  \E r \in Requests : /\ admin' = [admin EXCEPT ![d] = r]
                                   /\ r.kind \in {"replace", "add"} => r.name \in Names /\ r.cfg \in Configs
                                   /\ r.kind = "add" => r.obj \in Alive'
    <3>1. [kind |-> k, name |-> n, cfg |-> c, obj |-> o, saved |-> FALSE] \in Requests  BY <2>2
    <3> QED  BY <2>6, <3>1 DEF Ask
  <2>7. CASE \E n \in Names, c \in Configs : Ask(d, "replace", n, c, 0)
    <3>1. PICK n \in Names, c \in Configs : Ask(d, "replace", n, c, 0)  BY <2>7
    <3> QED  BY <2>6, <3>1
  <2>8. CASE \E n \in Names, c \in Configs, o \in Alive' : Ask(d, "add", n, c, o)
    <3>1. PICK n \in Names, c \in Configs, o \in Alive' : Ask(d, "add", n, c, o)  BY <2>8
    <3> QED  BY <2>3, <2>6, <3>1
  <2> QED  BY <2>4, <2>5, <2>7, <2>8
<1> QED  BY <1>1 DEF AdminOK

\* A discoverer is given a remote, goes on, or goes to sleep.
LEMMA DiscMoves ==
    ASSUME DiscOK, Alive' = Alive, NEW p \in Discoverers,
           \/ \E o \in Alive : disc' = [disc EXCEPT ![p] = [pc |-> "begin", obj |-> o]]
           \/ disc[p].pc = "begin" /\ disc' = [disc EXCEPT ![p].pc = "handshake"]
           \/ disc' = [disc EXCEPT ![p] = Asleep]
    PROVE  DiscOK'
<1> DEFINE D == [pc : {"idle", "begin", "handshake"}, obj : Ids \cup {0}]
<1>1. PICK l \in D : disc' = [disc EXCEPT ![p] = l] /\ (l.pc # "idle" => l.obj \in Alive)
  <2>1. CASE \E o \in Alive : disc' = [disc EXCEPT ![p] = [pc |-> "begin", obj |-> o]]
    <3>1. PICK o \in Alive : disc' = [disc EXCEPT ![p] = [pc |-> "begin", obj |-> o]]  BY <2>1
    <3>2. [pc |-> "begin", obj |-> o] \in D  BY DEF Alive
    <3> QED  BY <3>1, <3>2
  <2>2. CASE disc[p].pc = "begin" /\ disc' = [disc EXCEPT ![p].pc = "handshake"]
    <3>1. disc[p] \in D /\ disc[p].obj \in Alive  BY <2>2 DEF DiscOK
    <3>2. [disc[p] EXCEPT !.pc = "handshake"] \in D /\ [disc[p] EXCEPT !.pc = "handshake"].obj = disc[p].obj  BY <3>1
    <3> QED  BY <2>2, <3>1, <3>2
  <2>3. CASE disc' = [disc EXCEPT ![p] = Asleep]
    <3>1. Asleep \in D /\ Asleep.pc = "idle"  BY DEF Asleep
    <3> QED  BY <2>3, <3>1
  <2> QED  BY <2>1, <2>2, <2>3
<1> QED  BY <1>1 DEF DiscOK

\* A call begins, goes on with the remote it found, or ends.
LEMMA CallMoves ==
    ASSUME CallOK, Alive' = Alive, NEW c \in Callers, NEW l \in Calls, Move(c, l),
           l.pc # "idle" => l.obj \in Alive /\ l.agent \in GrantAgents /\ l.name \in Names
    PROVE  CallOK'
BY DEF CallOK, Move

-----------------------------------------------------------------------------
(* The types of the state.                                                 *)

Types == /\ ObjectsOK /\ PointersOK /\ FileInv /\ GrantsTypeOK
         /\ up \subseteq Urls /\ events \in 0..MaxEvents

LEMMA Rests ==
    ASSUME FileInv, UNCHANGED <<file, tmp>>, NEW d \in Savers, NEW pc \in {"idle", "copy", "failed"},
           saver' = [saver EXCEPT ![d] = Resting(pc)]
    PROVE  FileInv'
BY RestingType, SaverMoves

LEMMA EventBound == events \in 0..MaxEvents /\ Event => events' \in 0..MaxEvents
BY DelayAssumption DEF Event

LEMMA TableNowIsTable == ObjectsOK /\ TableOK => TableNow \in Tables
<1> SUFFICES ASSUME ObjectsOK, TableOK PROVE TableNow \in Tables  OBVIOUS
<1> DEFINE D == DOMAIN table   V == [cfg : Configs, enabled : BOOLEAN]
<1>1. ASSUME NEW n \in D  PROVE Saved(n) \in V
  <2>1. obj[table[n]] \in Objects  BY DEF TableOK, ObjectsOK, Own
  <2>2. obj[table[n]].cfg \in Configs /\ obj[table[n]].enabled \in BOOLEAN  BY <2>1, ObjectFields
  <2> QED  BY <2>2 DEF Saved
<1>2. TableNow \in [D -> V]  BY <1>1 DEF TableNow
<1>3. D \in SUBSET Resources  BY DEF TableOK, Names
<1> QED  BY <1>2, <1>3, ConfigAssumption

LEMMA TypesInit == Init => Types
<1> SUFFICES ASSUME Init PROVE Types  OBVIOUS
<1> USE DEF Init
<1>1. ObjectsOK /\ Alive = {}  BY DEF ObjectsOK, Alive
<1>2. TableOK /\ TodoOK  BY DEF TableOK, TodoOK
<1>3. AdminOK
  <2>1. Answered(TRUE) \in Requests /\ Answered(TRUE).kind = "none"  BY DEF Answered, Requests
  <2> QED  BY <2>1 DEF AdminOK
<1>4. DiscOK
  <2>1. Asleep \in [pc : {"idle", "begin", "handshake"}, obj : Ids \cup {0}] /\ Asleep.pc = "idle"  BY DEF Asleep
  <2> QED  BY <2>1 DEF DiscOK
<1>5. CallOK
  <2>1. NoCall \in Calls /\ NoCall.pc = "idle"  BY DEF NoCall, Calls
  <2> QED  BY <2>1 DEF CallOK
<1>6. FileInv /\ GrantsTypeOK  BY FileInvInit DEF GrantsInit, GrantsTypeOK, Modes
<1>7. up \subseteq Urls /\ events \in 0..MaxEvents  BY DelayAssumption
<1> QED  BY <1>1, <1>2, <1>3, <1>4, <1>5, <1>6, <1>7 DEF Types, PointersOK

\* What each operation of an admin does to the types.
LEMMA RemovalTypes ==
    ASSUME Types, NEW d \in Admins, NEW n \in Names, RemoveRemote(d, n), UNCHANGED <<obj, file, tmp>>
    PROVE  TableOK' /\ FileInv' /\ ObjectsOK' /\ Alive' = Alive
<1> USE DEF Types, PointersOK
<1>1. ObjectsOK' /\ Alive' = Alive  BY QuietKeeps
<1>2. TableOK'  BY <1>1 DEF TableOK, RemoveRemote, Without
<1>3. FileInv'  BY Rests DEF RemoveRemote, BeginSave, Admins
<1> QED  BY <1>1, <1>2, <1>3

LEMMA PutTypes ==
    ASSUME Types, NEW d \in Admins, NEW n \in Names, NEW c \in Configs, PutRemote(d, n, c)
    PROVE  Types'
<1> USE DEF Types, PutRemote
<1>1. TableOK' /\ FileInv' /\ ObjectsOK' /\ Alive' = Alive  BY RemovalTypes
<1>2. AdminOK'  BY <1>1, AdminMoves DEF PointersOK
<1>3. DiscOK' /\ TodoOK' /\ CallOK'  BY <1>1, PointersStay
<1>4. GrantsTypeOK' /\ events' \in 0..MaxEvents  BY GrantSteps, EventBound DEF grantVars
<1> QED  BY <1>1, <1>2, <1>3, <1>4 DEF PointersOK

LEMMA DeleteTypes ==
    ASSUME Types, NEW d \in Admins, NEW n \in Names, DeleteRemote(d, n)
    PROVE  Types'
<1> USE DEF Types, DeleteRemote
<1>1. TableOK' /\ FileInv' /\ ObjectsOK' /\ Alive' = Alive  BY RemovalTypes
<1>2. AdminOK'  BY <1>1, AdminMoves DEF PointersOK
<1>3. DiscOK' /\ TodoOK' /\ CallOK'  BY <1>1, PointersStay
<1>4. GrantsTypeOK' /\ events' \in 0..MaxEvents  BY GrantSteps, EventBound DEF grantVars
<1> QED  BY <1>1, <1>2, <1>3, <1>4 DEF PointersOK

LEMMA ToggleTypes ==
    ASSUME Types, NEW d \in Admins, NEW n \in Names, ToggleRemote(d, n)
    PROVE  Types'
<1> USE DEF Types, ToggleRemote
<1> DEFINE o == table[n]
           r == IF obj[o].enabled THEN [obj[o] EXCEPT !.enabled = FALSE, !.status = "disconnected"]
                                  ELSE [obj[o] EXCEPT !.enabled = TRUE]
<1>1. o \in Alive /\ o \in Ids /\ Own(obj[o])  BY DEF PointersOK, TableOK, ObjectsOK, Alive
<1>2. Own(r)  BY <1>1 DEF Own, Objects
<1>3. obj' = [obj EXCEPT ![o] = r]  OBVIOUS
<1> HIDE DEF r, o
<1>4. ObjectsOK' /\ Alive' = Alive
  <2>1. ObjectsOK /\ o \in Ids /\ Own(r) /\ obj' = [obj EXCEPT ![o] = r]  BY <1>1, <1>2, <1>3
  <2>2. ObjectsOK' /\ Alive' = Alive \cup {o}  BY ONLY <2>1, OneChanges
  <2> QED  BY <1>1, <2>2
<1>5. AdminOK'  BY <1>4, AdminMoves DEF PointersOK
<1>6. TableOK' /\ DiscOK' /\ TodoOK' /\ CallOK'  BY <1>4, PointersStay
<1>7. FileInv'  BY Rests DEF BeginSave, Admins
<1>8. GrantsTypeOK' /\ events' \in 0..MaxEvents  BY GrantSteps, EventBound DEF grantVars
<1> QED  BY <1>4, <1>5, <1>6, <1>7, <1>8 DEF PointersOK

\* An addition that is made takes memory nobody points to.
LEMMA AddTypes ==
    ASSUME Types, NEW d \in Admins, AddRemote(d)
    PROVE  Types'
<1> DEFINE n == admin[d].name   c == admin[d].cfg
<1>1. admin[d].kind = "replace" /\ n \in Names /\ c \in Configs
  BY DEF AddRemote, Types, PointersOK, AdminOK
<1>2. GrantsTypeOK' /\ events' \in 0..MaxEvents /\ up' \subseteq Urls
  BY GrantSteps DEF grantVars, AddRemote, Types
<1>3. CASE Answer(d, FALSE) /\ UNCHANGED <<obj, table>>
  <2>1. ObjectsOK' /\ Alive' = Alive  BY <1>3, QuietKeeps DEF Types
  <2>2. AdminOK'  BY <1>3, <2>1, AdminMoves DEF Answer, Types, PointersOK
  <2>3. TableOK' /\ DiscOK' /\ TodoOK' /\ CallOK'  BY <1>3, <2>1, PointersStay DEF AddRemote, Types
  <2>4. FileInv'
    <3>1. saver' = [saver EXCEPT ![d] = Resting("idle")] /\ UNCHANGED <<file, tmp>>  BY <1>3 DEF Answer, AddRemote
    <3> QED  BY <3>1, Rests DEF Admins, Types
  <2> QED  BY <1>2, <2>1, <2>2, <2>3, <2>4 DEF Types, PointersOK
<1>4. CASE ~(Answer(d, FALSE) /\ UNCHANGED <<obj, table>>)
  <2>1. PICK o \in Ids : /\ obj' = [obj EXCEPT ![o] = Fresh(c, c.enabled, "initializing")]
                         /\ table' = [m \in DOMAIN table \cup {n} |-> IF m = n THEN o ELSE table[m]]
                         /\ Ask(d, "add", n, c, o)
                         /\ BeginSave(d)
    BY <1>4 DEF AddRemote, Unused
  <2>2. Own(Fresh(c, c.enabled, "initializing"))  BY <1>1, ObjectFields, FreshIsOwn
  <2>3. ObjectsOK' /\ Alive' = Alive \cup {o}  BY <2>1, <2>2, OneChanges DEF Types
  <2>4. AdminOK'  BY <1>1, <2>1, <2>3, AdminMoves DEF Types, PointersOK
  <2>5. TableOK'  BY <1>1, <2>1, <2>3 DEF TableOK, Types, PointersOK
  <2>6. DiscOK' /\ TodoOK' /\ CallOK'  BY <2>3, PointersStay DEF AddRemote, Types
  <2>7. FileInv'
    <3>1. saver' = [saver EXCEPT ![d] = Resting("copy")] /\ UNCHANGED <<file, tmp>>  BY <2>1 DEF BeginSave, AddRemote
    <3> QED  BY <3>1, Rests DEF Admins, Types
  <2> QED  BY <1>2, <2>3, <2>4, <2>5, <2>6, <2>7 DEF Types, PointersOK
<1> QED  BY <1>3, <1>4

\* Requests end.
LEMMA AnswerTypes ==
    ASSUME Types, NEW d \in Admins,
           \/ \E p \in Background : AddSaved(d, p)
           \/ AddFailed(d)
           \/ SaveEnded(d)
    PROVE  Types'
<1>1. PICK saved \in BOOLEAN : Answer(d, saved)  BY DEF AddSaved, AddFailed, SaveEnded
<1>2. UNCHANGED <<events, obj, todo, call, up, file, tmp, grantVars>>  BY DEF AddSaved, AddFailed, SaveEnded
<1>3. ObjectsOK' /\ Alive' = Alive  BY <1>2, QuietKeeps DEF Types
<1>4. AdminOK'  BY <1>1, <1>3, AdminMoves DEF Answer, Types, PointersOK
<1>5. TableOK'
  <2>1. CASE UNCHANGED table  BY <1>3, <2>1, PointersStay DEF Types
  <2>2. CASE AddFailed(d)  BY <1>3, <2>2 DEF AddFailed, Without, TableOK, Types, PointersOK
  <2> QED  BY <2>1, <2>2 DEF AddSaved, SaveEnded
<1>6. DiscOK'
  <2>1. CASE UNCHANGED disc  BY <1>3, <2>1, PointersStay DEF Types
  <2>2. ASSUME NEW p \in Background, AddSaved(d, p)  PROVE DiscOK'
    <3>1. admin[d].obj \in Alive /\ disc' = [disc EXCEPT ![p] = [pc |-> "begin", obj |-> admin[d].obj]]
      BY <2>2 DEF AddSaved, Types, PointersOK, AdminOK
    <3> QED  BY <1>3, <3>1, DiscMoves DEF Discoverers, Types, PointersOK
  <2> QED  BY <2>1, <2>2 DEF AddFailed, SaveEnded
<1>7. TodoOK' /\ CallOK'  BY <1>2, <1>3, PointersStay DEF Types
<1>8. FileInv'
  <2>1. saver' = [saver EXCEPT ![d] = Resting("idle")] /\ UNCHANGED <<file, tmp>>  BY <1>1, <1>2 DEF Answer
  <2> QED  BY <2>1, Rests DEF Admins, Types
<1>9. GrantsTypeOK' /\ events' \in 0..MaxEvents /\ up' \subseteq Urls
  BY <1>2, GrantSteps DEF Types
<1> QED  BY <1>3, <1>4, <1>5, <1>6, <1>7, <1>8, <1>9 DEF Types, PointersOK

LEMMA SaveTypes ==
    ASSUME Types, NEW d \in Admins, save(d)
    PROVE  Types'
<1>1. UNCHANGED <<events, obj, table, disc, todo, admin, call, up, grantVars>>  BY DEF save, fedVars
<1>2. ObjectsOK' /\ Alive' = Alive  BY <1>1, QuietKeeps DEF Types
<1>3. PointersOK'  BY <1>1, <1>2, PointersStay DEF Types, PointersOK
<1>4. FileInv'
  <2>1. CASE SaveStep(d)  BY <2>1, FileInvSave DEF Types, Admins
  <2>2. CASE CopyTable(d, TableNow)
    <3>1. TableNow \in Tables  BY TableNowIsTable DEF Types, PointersOK
    <3> DEFINE l == [pc |-> "open", data |-> TableNow, fd |-> "none"]
    <3>2. l \in SaverLocals /\ l.data \in Tables  BY <3>1 DEF SaverLocals
    <3>3. saver' = [saver EXCEPT ![d] = l] /\ UNCHANGED <<file, tmp>>  BY <2>2 DEF CopyTable
    <3> HIDE DEF l
    <3> QED  BY <3>2, <3>3, SaverMoves DEF Types, Admins
  <2> QED  BY <2>1, <2>2 DEF save
<1>5. GrantsTypeOK' /\ events' \in 0..MaxEvents /\ up' \subseteq Urls
  BY <1>1, GrantSteps DEF Types
<1> QED  BY <1>2, <1>3, <1>4, <1>5 DEF Types

LEMMA AdminTypes ==
    ASSUME Types, NEW d \in Admins, AdminStep(d)
    PROVE  Types'
BY PutTypes, AddTypes, AnswerTypes, DeleteTypes, ToggleTypes, SaveTypes DEF AdminStep

-----------------------------------------------------------------------------
(* Steps of discoverers, callers, servers and time.                        *)

\* They leave the table, the admins' requests and the file alone.
Calm == Quiet /\ UNCHANGED <<table, admin, file, tmp, saver>>

\* Such a step keeps the types when what it changes beside the remotes has its own.
LEMMA CalmTypes ==
    ASSUME Types, Quiet \/ UNCHANGED obj, UNCHANGED <<table, admin, fileVars>>,
           UNCHANGED disc \/ DiscOK', UNCHANGED todo \/ TodoOK', UNCHANGED call \/ CallOK',
           UNCHANGED grantVars \/ GrantsTypeOK', UNCHANGED up \/ up' \subseteq Urls,
           UNCHANGED events \/ Event
    PROVE  Types' /\ Calm
<1>1. ObjectsOK' /\ Alive' = Alive /\ Quiet  BY QuietKeeps DEF Types
<1>2. PointersOK'  BY <1>1, PointersStay DEF Types, PointersOK
<1>3. FileInv'
  <2>1. UNCHANGED <<file, tmp, saver>>  BY DEF fileVars
  <2> QED  BY <2>1 DEF FileInv, FileTypeOK, Types
<1>4. GrantsTypeOK'  BY GrantSteps DEF Types
<1>5. up' \subseteq Urls /\ events' \in 0..MaxEvents  BY EventBound DEF Types
<1> QED  BY <1>1, <1>2, <1>3, <1>4, <1>5 DEF Types, Calm, fileVars

LEMMA DiscoverySteps ==
    ASSUME Types, NEW p \in Discoverers, DiscoveryStep(p)
    PROVE  Types' /\ Calm
<1> DEFINE o == disc[p].obj
<1>1. o \in Alive /\ o \in Ids /\ Own(obj[o]) /\ ObjectsOK /\ DiscOK
  BY DEF DiscoveryStep, BeginDiscovery, EndDiscovery, Types, PointersOK, DiscOK, ObjectsOK, Alive
<1>2. PICK r : Tame(obj[o], r) /\ obj' = [obj EXCEPT ![o] = r]
  <2>1. CASE BeginDiscovery(p)
    <3>1. obj' = [obj EXCEPT ![o] = [obj[o] EXCEPT !.status = "initializing"]]  BY <2>1 DEF BeginDiscovery
    <3> QED  BY <1>1, <3>1, TameChanges
  <2>2. CASE EndDiscovery(p)
    <3>1. obj' = [obj EXCEPT ![o] = Discovered(obj[o])] \/ obj' = [obj EXCEPT ![o] = markError(obj[o])]
      BY <2>2 DEF EndDiscovery
    <3> QED  BY <1>1, <3>1, TameChanges
  <2> QED  BY <2>1, <2>2 DEF DiscoveryStep
<1>3. UNCHANGED <<events, table, admin, todo, call, up, fileVars, grantVars>>
  BY DEF DiscoveryStep, BeginDiscovery, EndDiscovery
<1>4. (disc[p].pc = "begin" /\ disc' = [disc EXCEPT ![p].pc = "handshake"]) \/ disc' = [disc EXCEPT ![p] = Asleep]
  BY DEF DiscoveryStep, BeginDiscovery, EndDiscovery
<1> HIDE DEF o
<1>5. Quiet /\ Alive' = Alive
  <2>1. Own(r)  BY <1>2 DEF Tame
  <2>2. Quiet  BY <1>1, <1>2, <2>1, OneChanges
  <2> QED  BY <1>1, <2>2, QuietKeeps
<1>6. DiscOK'  BY <1>1, <1>4, <1>5, DiscMoves
<1> QED  BY <1>3, <1>5, <1>6, CalmTypes

LEMMA LoopSteps ==
    ASSUME Types, LoopStep
    PROVE  Types' /\ Calm
<1>1. UNCHANGED <<events, obj, table, admin, call, up, fileVars, grantVars>>
  BY DEF LoopStep, LoopTick, LoopVisit
<1>2. Alive' = Alive  BY <1>1, QuietKeeps DEF Types
<1>3. TodoOK'  BY <1>2 DEF LoopStep, LoopTick, LoopVisit, TodoOK, TableOK, Types, PointersOK
<1>4. UNCHANGED disc \/ DiscOK'
  <2> SUFFICES ASSUME NEW q \in Ids, LoopVisit(q), disc' # disc PROVE DiscOK'
    BY DEF LoopStep, LoopTick
  <2>1. q \in Alive /\ disc' = [disc EXCEPT ![Loop] = [pc |-> "begin", obj |-> q]]
    BY DEF LoopVisit, TodoOK, Types, PointersOK
  <2> QED  BY <1>2, <2>1, DiscMoves DEF Discoverers, Types, PointersOK
<1> QED  BY <1>1, <1>3, <1>4, CalmTypes

LEMMA RefreshSteps ==
    ASSUME Types, NEW p \in Background, NEW n \in Names, RefreshRemote(p, n)
    PROVE  Types' /\ Calm
<1>1. UNCHANGED <<obj, table, admin, todo, call, up, fileVars, grantVars>> /\ Event  BY DEF RefreshRemote
<1>2. Alive' = Alive  BY <1>1, QuietKeeps DEF Types
<1>3. table[n] \in Alive /\ disc' = [disc EXCEPT ![p] = [pc |-> "begin", obj |-> table[n]]]
  BY DEF RefreshRemote, TableOK, Types, PointersOK
<1>4. DiscOK'  BY <1>2, <1>3, DiscMoves DEF Discoverers, Types, PointersOK
<1> QED  BY <1>1, <1>4, CalmTypes

LEMMA CallerSteps ==
    ASSUME Types, NEW c \in Callers, CallerStep(c)
    PROVE  Types' /\ Calm
<1> DEFINE k == call[c]   o == call[c].obj
<1>1. ObjectsOK /\ CallOK /\ TableOK /\ k \in Calls  BY DEF Types, PointersOK, CallOK
<1>2. k.pc # "idle" => /\ o \in Alive /\ o \in Ids /\ Own(obj[o])
                       /\ k.agent \in GrantAgents /\ k.name \in Names
  BY <1>1 DEF CallOK, ObjectsOK, Alive
<1>3. NoCall \in Calls /\ NoCall.pc = "idle"  BY DEF NoCall, Calls
<1>4. ASSUME NEW r, Tame(obj[o], r), obj' = [obj EXCEPT ![o] = r], k.pc # "idle"  PROVE Quiet /\ Alive' = Alive
  <2>1. Own(r)  BY <1>4 DEF Tame
  <2> HIDE DEF o
  <2>2. Quiet  BY <1>1, <1>2, <1>4, <2>1, OneChanges
  <2> QED  BY <1>1, <2>2, QuietKeeps
<1>5. UNCHANGED obj => Alive' = Alive  BY <1>1, QuietKeeps
\* A call or a read begins.
<1>6. ASSUME NEW a \in GrantAgents, NEW n \in DOMAIN table,
             ReadResource(c, a, n) \/ \E arg \in Args : ToolCall(c, a, n, arg)
      PROVE  Types' /\ Calm
  <2>1. UNCHANGED <<obj, table, disc, todo, admin, up, fileVars, grantVars>> /\ Event
    BY <1>6 DEF ReadResource, ToolCall, fedVars
  <2>2. PICK pc \in {"suspend", "admitted", "sent"} :
           Move(c, [NoCall EXCEPT !.pc = pc, !.agent = a, !.name = n, !.obj = table[n]])
    BY <1>6 DEF ReadResource, ToolCall
  <2>3. n \in Names /\ table[n] \in Alive /\ table[n] \in Ids  BY <1>1 DEF TableOK, Alive
  <2>4. PICK q \in Ids : q = table[n]  BY <2>3
  <2> DEFINE first == [NoCall EXCEPT !.pc = pc]
             l == [first EXCEPT !.agent = a, !.name = n, !.obj = q]
  <2>5. Move(c, l)  BY <2>2, <2>4
  <2>6. first = [pc |-> pc, agent |-> None, name |-> None, obj |-> 0, client |-> "none"]  BY DEF NoCall
  <2> HIDE DEF first
  <2>7. l \in Calls /\ l.obj = q /\ l.agent = a /\ l.name = n  BY <2>3, <2>6 DEF Calls
  <2> HIDE DEF l
  <2>8. CallOK'  BY <1>1, <1>5, <2>1, <2>3, <2>4, <2>5, <2>7, CallMoves
  <2> QED  BY <2>1, <2>8, CalmTypes
<1>7. CASE AutoRevoke(c)
  <2>1. /\ UNCHANGED <<events, table, admin, disc, todo, up, fileVars, grantVars>>
        /\ k.pc # "idle" /\ Move(c, NoCall) /\ obj' = [obj EXCEPT ![o] = [obj[o] EXCEPT !.enabled = FALSE]]
    BY <1>7 DEF AutoRevoke
  <2>2. Quiet /\ Alive' = Alive  BY <1>2, <1>4, <2>1, TameChanges
  <2>3. CallOK'  BY <1>1, <1>3, <2>1, <2>2, CallMoves
  <2> QED  BY <2>1, <2>2, <2>3, CalmTypes
<1>8. CASE GrantAccess(c)
  <2>1. /\ UNCHANGED <<events, obj, table, disc, todo, admin, up, fileVars, mode, ttl>>
        /\ k.pc # "idle" /\ Move(c, [k EXCEPT !.pc = "granted"])
    BY <1>8 DEF GrantAccess, fedVars, Step
  <2>2. GrantsTypeOK'
    <3>1. Issue(k.agent, k.name) \/ UNCHANGED grants  BY <1>8 DEF GrantAccess
    <3>2. CASE Issue(k.agent, k.name)  BY <1>2, <2>1, <3>2, GrantSteps DEF Types, Names
    <3>3. CASE UNCHANGED grants  BY <2>1, <3>3, GrantSteps DEF Types, grantVars
    <3> QED  BY <3>1, <3>2, <3>3
  <2> DEFINE l == [k EXCEPT !.pc = "granted"]
  <2>3. l \in Calls /\ l.obj = o /\ l.agent = k.agent /\ l.name = k.name  BY <1>1 DEF Calls
  <2>4. Move(c, l)  BY <2>1
  <2> HIDE DEF l
  <2>5. CallOK'  BY <1>1, <1>2, <1>5, <2>1, <2>3, <2>4, CallMoves
  <2> QED  BY <2>1, <2>2, <2>5, CalmTypes
<1>9. CASE EndCall(c)
  <2> DEFINE q == IF Reachable(o) THEN obj[o] ELSE Bumped(obj[o])
  <2>1. /\ UNCHANGED <<events, table, admin, disc, todo, up, fileVars, grantVars>>
        /\ k.pc # "idle" /\ Move(c, NoCall)
        /\ obj' = [obj EXCEPT ![o] = Restored(q, k.client)]
    BY <1>9 DEF EndCall
  <2>2. Tame(obj[o], q)  BY <1>2, <2>1, TameChanges
  <2> HIDE DEF q
  <2>3. Tame(obj[o], Restored(q, k.client))
    <3>1. k.client \in {"base", "none"} \cup Callers  BY <1>1 DEF Calls
    <3>2. Own(q)  BY <2>2 DEF Tame
    <3>3. CASE k.client = "none"  BY <2>2, <3>3 DEF Restored
    <3>4. CASE k.client # "none"
      <4>1. Restored(q, k.client) = [q EXCEPT !.client = k.client]  BY <3>4 DEF Restored
      <4>2. Tame(q, [q EXCEPT !.client = k.client])  BY <3>1, <3>2, <3>4, TameChanges
      <4> QED  BY <2>2, <4>1, <4>2 DEF Tame
    <3> QED  BY <3>3, <3>4
  <2>4. Quiet /\ Alive' = Alive  BY <1>4, <2>1, <2>3
  <2>5. CallOK'  BY <1>1, <1>3, <2>1, <2>4, CallMoves
  <2> QED  BY <2>1, <2>4, <2>5, CalmTypes
<1>10. ASSUME NEW own \in BOOLEAN, SendCall(c, own)  PROVE Types' /\ Calm
  <2> DEFINE found == IF own THEN obj[o].client ELSE "none"
             l == [k EXCEPT !.pc = "sent", !.client = found]
  <2>1. /\ UNCHANGED <<events, table, admin, disc, todo, up, fileVars, grantVars>>
        /\ k.pc # "idle" /\ Move(c, l)
        /\ UNCHANGED obj \/ obj' = [obj EXCEPT ![o] = [obj[o] EXCEPT !.client = c]]
    BY <1>10 DEF SendCall
  <2>2. found \in {"base", "none"} \cup Callers  BY <1>2, <2>1, ObjectFields DEF Own
  <2> HIDE DEF found
  <2>3. l \in Calls /\ l.obj = o /\ l.agent = k.agent /\ l.name = k.name  BY <1>1, <2>2 DEF Calls
  <2> HIDE DEF l
  <2>4. (Quiet \/ UNCHANGED obj) /\ Alive' = Alive  BY <1>2, <1>4, <1>5, <2>1, TameChanges
  <2>5. CallOK'  BY <1>1, <1>2, <2>1, <2>3, <2>4, CallMoves
  <2> QED  BY <2>1, <2>4, <2>5, CalmTypes
<1> QED  BY <1>6, <1>7, <1>8, <1>9, <1>10 DEF CallerStep, Named

LEMMA OtherSteps ==
    ASSUME Types, (\E u \in Urls : ServerChanges(u)) \/ Tick \/ GrantStep \/ UNCHANGED vars
    PROVE  Types' /\ Calm
<1>1. ASSUME NEW u \in Urls, ServerChanges(u)  PROVE Types' /\ Calm
  <2>1. UNCHANGED <<obj, table, disc, todo, admin, call, fileVars, grantVars>> /\ Event
    BY <1>1 DEF ServerChanges, fedVars
  <2>2. up' \subseteq Urls  BY <1>1 DEF ServerChanges, Types
  <2> QED  BY <2>1, <2>2, CalmTypes
<1>2. CASE Tick
  <2>1. UNCHANGED <<events, table, admin, disc, todo, call, up, fileVars, mode, ttl>>  BY <1>2 DEF Tick
  <2>2. GrantsTypeOK'  BY <1>2, <2>1, GrantSteps DEF Tick, Types
  <2>3. Quiet
    <3>1. ASSUME NEW o \in Ids
          PROVE  /\ obj'[o] \in Objects \cup {NoObject}
                 /\ IF obj[o] = NoObject THEN obj'[o] = NoObject ELSE Tame(obj[o], obj'[o])
      <4>1. obj'[o] = IF obj[o] = NoObject \/ obj[o].age = MaxAge THEN obj[o] ELSE [obj[o] EXCEPT !.age = @ + 1]
        BY <1>2 DEF Tick
      <4>2. CASE obj[o] = NoObject  BY <4>1, <4>2
      <4>3. CASE obj[o] # NoObject
        <5>1. Own(obj[o])  BY <4>3 DEF Types, ObjectsOK, Alive
        <5>2. Tame(obj[o], obj'[o])  BY <4>1, <4>3, <5>1, TameChanges
        <5> QED  BY <4>3, <5>2 DEF Tame, Own
      <4> QED  BY <4>2, <4>3
    <3>2. obj' = [o \in Ids |-> obj'[o]]  BY <1>2 DEF Tick
    <3> QED  BY <3>1, <3>2 DEF Quiet
  <2> QED  BY <2>1, <2>2, <2>3, CalmTypes
<1>3. CASE GrantStep
  <2>1. UNCHANGED <<obj, table, disc, todo, admin, call, up, fileVars>>  BY <1>3 DEF GrantStep, fedVars
  <2>2. UNCHANGED events \/ Event  BY <1>3 DEF GrantStep
  <2>3. GrantsTypeOK'  BY <1>3, GrantSteps DEF GrantStep, Types
  <2> QED  BY <2>1, <2>2, <2>3, CalmTypes
<1>4. CASE UNCHANGED vars  BY <1>4, CalmTypes DEF vars
<1> QED  BY <1>1, <1>2, <1>3, <1>4

-----------------------------------------------------------------------------
(* A restart, and the theorems about memory.                               *)

\* What load finds is a table, perhaps the empty one.
LEMMA LoadedIsTable ==
    ASSUME FileInv
    PROVE  /\ DOMAIN Loaded(<<>>) \subseteq Names
           /\ \A n \in DOMAIN Loaded(<<>>) : Loaded(<<>>)[n].cfg \in Configs /\ Loaded(<<>>)[n].enabled \in BOOLEAN
<1> DEFINE V == [cfg : Configs, enabled : BOOLEAN]
<1>1. CASE file.kind = "whole"
  <2>1. file.data \in Tables /\ Loaded(<<>>) = file.data  BY <1>1 DEF FileInv, Loaded
  <2>2. PICK S \in SUBSET Resources : file.data \in [S -> V]  BY <2>1, ConfigAssumption
  <2>3. DOMAIN file.data = S /\ \A n \in S : file.data[n] \in V  BY <2>2
  <2>4. \A v \in V : v.cfg \in Configs /\ v.enabled \in BOOLEAN  OBVIOUS
  <2> QED  BY <2>1, <2>3, <2>4 DEF Names
<1>2. CASE file.kind # "whole"
  <2>1. Loaded(<<>>) = <<>>  BY <1>2 DEF Loaded
  <2>2. DOMAIN <<>> = {}  OBVIOUS
  <2> QED  BY <2>1, <2>2
<1> QED  BY <1>1, <1>2

\* Every entry of the file has an object of its own again.
LEMMA RestartRestores ==
    ASSUME Types, Restart
    PROVE  LET saved == Loaded(<<>>)
           IN  /\ DOMAIN table' = DOMAIN saved
               /\ \A n \in DOMAIN saved : /\ table'[n] \in Ids
                                          /\ obj'[table'[n]] = Fresh(saved[n].cfg, saved[n].enabled, "disconnected")
<1> DEFINE saved == Loaded(<<>>)
<1>1. table' \in {f \in [DOMAIN saved -> Ids] : \A m, n \in DOMAIN saved : m # n => f[m] # f[n]}  BY DEF Restart
<1>2. obj' = [o \in Ids |-> IF \E n \in DOMAIN saved : table'[n] = o
                             THEN LET n == CHOOSE n \in DOMAIN saved : table'[n] = o
                                  IN  Fresh(saved[n].cfg, saved[n].enabled, "disconnected")
                             ELSE NoObject]
  BY DEF Restart
<1> HIDE DEF saved
<1>3. DOMAIN table' = DOMAIN saved /\ \A n \in DOMAIN saved : table'[n] \in Ids  BY <1>1
<1>4. ASSUME NEW n \in DOMAIN saved  PROVE obj'[table'[n]] = Fresh(saved[n].cfg, saved[n].enabled, "disconnected")
  <2>1. PICK m \in DOMAIN saved : m = CHOOSE x \in DOMAIN saved : table'[x] = table'[n]  OBVIOUS
  <2>2. table'[m] = table'[n]  BY <2>1
  <2>3. m = n  BY <1>1, <2>2
  <2> QED  BY <1>2, <1>3, <2>1, <2>3
<1> QED  BY <1>3, <1>4 DEF saved

LEMMA RestartTypes ==
    ASSUME Types, Restart
    PROVE  Types'
<1> DEFINE saved == Loaded(<<>>)
<1>1. /\ DOMAIN saved \subseteq Names
      /\ \A n \in DOMAIN saved : saved[n].cfg \in Configs /\ saved[n].enabled \in BOOLEAN
  BY LoadedIsTable DEF Types
<1>2. /\ DOMAIN table' = DOMAIN saved
      /\ \A n \in DOMAIN saved : /\ table'[n] \in Ids
                                 /\ obj'[table'[n]] = Fresh(saved[n].cfg, saved[n].enabled, "disconnected")
  BY RestartRestores
<1>3. obj' = [o \in Ids |-> obj'[o]] /\ \A o \in Ids : obj'[o] # NoObject => \E n \in DOMAIN saved : table'[n] = o
  BY DEF Restart
<1> HIDE DEF saved
<1>4. \A n \in DOMAIN saved : Own(obj'[table'[n]])  BY <1>1, <1>2, FreshIsOwn
<1>5. \A o \in Ids : obj'[o] # NoObject => Own(obj'[o])  BY <1>3, <1>4
<1>6. ObjectsOK'
  <2>1. \A o \in Ids : obj'[o] \in Objects \cup {NoObject}  BY <1>5 DEF Own
  <2> QED  BY <1>3, <1>5, <2>1 DEF ObjectsOK, Alive
<1>7. TableOK'  BY <1>1, <1>2, <1>4, ObjectFields DEF TableOK, Alive, Own
<1>8. AdminOK'
  <2>1. Answered(TRUE) \in Requests /\ Answered(TRUE).kind = "none"  BY DEF Answered, Requests
  <2> QED  BY <2>1 DEF AdminOK, Restart
<1>9. DiscOK' /\ TodoOK'
  <2>1. Asleep \in [pc : {"idle", "begin", "handshake"}, obj : Ids \cup {0}] /\ Asleep.pc = "idle"  BY DEF Asleep
  <2> QED  BY <2>1 DEF DiscOK, TodoOK, Restart
<1>10. CallOK'
  <2>1. NoCall \in Calls /\ NoCall.pc = "idle"  BY DEF NoCall, Calls
  <2> QED  BY <2>1 DEF CallOK, Restart
<1>11. FileInv'  BY FileInvRestart DEF Restart, Types
<1>12. GrantsTypeOK'  BY DEF Restart, GrantsTypeOK, Modes
<1>13. up' \subseteq Urls /\ events' \in 0..MaxEvents  BY EventBound DEF Restart, Types
<1> QED  BY <1>6, <1>7, <1>8, <1>9, <1>10, <1>11, <1>12, <1>13 DEF Types, PointersOK

\* Steps are those of an admin, a restart, or calm.
LEMMA StepKinds ==
    ASSUME Types, [Next]_vars
    PROVE  Types' /\ ((\E d \in Admins : AdminStep(d)) \/ Restart \/ Calm)
<1>1. CASE \E d \in Admins : AdminStep(d)  BY <1>1, AdminTypes
<1>2. CASE Restart  BY <1>2, RestartTypes
<1>3. CASE \/ \E p \in Background, n \in Names : RefreshRemote(p, n)
           \/ \E p \in Discoverers : DiscoveryStep(p)
           \/ LoopStep
           \/ \E c \in Callers : CallerStep(c)
           \/ (\E u \in Urls : ServerChanges(u)) \/ Tick \/ GrantStep \/ UNCHANGED vars
  BY <1>3, RefreshSteps, DiscoverySteps, LoopSteps, CallerSteps, OtherSteps
<1> QED  BY <1>1, <1>2, <1>3 DEF Next

LEMMA TypesHold == Spec => []Types
<1>1. Types /\ [Next]_vars => Types'  BY StepKinds
<1> QED  BY TypesInit, <1>1, PTL DEF Spec

\* Every pointer, of the table, a discovery, a call, the loop's list, leads to a
\* remote that is there, however many requests overlap and restarts come between.
THEOREM TypeCorrect == Spec => []TypeOK
<1>1. Types => TypeOK
  <2> SUFFICES ASSUME Types PROVE TypeOK  OBVIOUS
  <2>1. obj \in [Ids -> Objects \cup {NoObject}]  BY DEF Types, ObjectsOK
  <2>2. \A o \in Alive : o \in Ids /\ obj[o] # NoObject  BY DEF Alive
  <2>3. DOMAIN table \subseteq Names /\ \A n \in DOMAIN table : table[n] \in Alive  BY DEF Types, PointersOK, TableOK
  <2>4. admin \in [Admins -> Requests]  BY DEF Types, PointersOK, AdminOK
  <2>5. /\ disc \in [Discoverers -> [pc : {"idle", "begin", "handshake"}, obj : Ids \cup {0}]]
        /\ \A p \in Discoverers : disc[p].pc # "idle" => disc[p].obj \in Alive
    BY DEF Types, PointersOK, DiscOK
  <2>6. todo \subseteq Alive  BY DEF Types, PointersOK, TodoOK
  <2>7. call \in [Callers -> Calls] /\ \A c \in Callers : call[c].pc # "idle" => call[c].obj \in Alive
    BY DEF Types, PointersOK, CallOK
  <2>8. up \subseteq Urls /\ events \in 0..MaxEvents /\ FileTypeOK /\ GrantsTypeOK  BY DEF Types, FileInv
  <2> QED  BY <2>1, <2>2, <2>3, <2>4, <2>5, <2>6, <2>7, <2>8 DEF TypeOK
<1> QED  BY <1>1, TypesHold, PTL

\* Tools and resources listed under a name come from the server that name stands
\* for now: a discovery of a replaced remote stores its result in the old object.
THEOREM ToolsAreOwn == Spec => []OfferedAreOwn
<1>1. Types => OfferedAreOwn
  <2> SUFFICES ASSUME Types, NEW n \in DOMAIN table
               PROVE  OfferedTools(n) \cup OfferedResources(n) \subseteq {obj[table[n]].cfg.url}
    BY DEF OfferedAreOwn
  <2>1. obj[table[n]].tools \in {None, obj[table[n]].cfg.url}
    BY DEF Types, PointersOK, TableOK, ObjectsOK, Own
  <2> QED  BY <2>1 DEF OfferedTools, OfferedResources
<1> QED  BY <1>1, TypesHold, PTL

-----------------------------------------------------------------------------
(* The file, for one admin at a time: overlapping saves share the tmp path *)
(* and may leave a file that is neither table.                             *)

\* Nothing serialises two requests, so this is a hypothesis about the admins.
OneAdmin == \A d, e \in Savers : d = e

\* t holds the table, but for remotes that were suspended since.
Follows(t) ==
    /\ DOMAIN t = DOMAIN table
    /\ \A n \in DOMAIN table : /\ t[n].cfg = obj[table[n]].cfg
                              /\ obj[table[n]].enabled => t[n].enabled

\* Where a save is, and what it has to show for it.
SaveInv(d) ==
    /\ admin[d].kind = "none" <=> saver[d].pc = "idle"
    /\ saver[d].pc = "write" => saver[d].fd = "tmp" /\ tmp.kind = "empty"
    /\ saver[d].pc = "rename" => tmp = Whole(saver[d].data)
    /\ saver[d].pc \in {"open", "write", "rename"} => Follows(saver[d].data)
    /\ saver[d].pc = "saved" => Follows(Loaded(<<>>))

DiskInv ==
    /\ FileIsWhole
    /\ \A d \in Savers : SaveInv(d)
    /\ (\A d \in Savers : admin[d].kind = "none" /\ admin[d].saved) => Follows(Loaded(<<>>))

LEMMA DiskInit == Init => DiskInv
<1> SUFFICES ASSUME Init PROVE DiskInv  OBVIOUS
<1>1. /\ file.kind = "missing" /\ Loaded(<<>>) = <<>>
      /\ \A d \in Savers : saver[d].pc = "idle" /\ admin[d].kind = "none"
  BY DEF Init, FileInit, Content, Loaded, Resting, Answered, Admins
<1>2. Follows(<<>>)  BY DEF Init, Follows
<1> QED  BY <1>1, <1>2 DEF DiskInv, FileIsWhole, SaveInv

\* A table that was right stays so while no admin acts.
LEMMA CalmFollows ==
    ASSUME Types, Calm
    PROVE  \A t : Follows(t) => Follows(t)'
<1> SUFFICES ASSUME NEW t, Follows(t) PROVE Follows(t)'  OBVIOUS
<1>1. table' = table  BY DEF Calm
<1>2. \A n \in DOMAIN table : Tame(obj[table[n]], obj'[table[n]])
  BY DEF Calm, Quiet, Types, PointersOK, TableOK, Alive
<1> QED  BY <1>1, <1>2 DEF Follows, Tame

LEMMA DiskCalm ==
    ASSUME Types, DiskInv, Calm
    PROVE  DiskInv'
<1>1. UNCHANGED <<file, tmp, saver, admin>>  BY DEF Calm
<1>2. Loaded(<<>>)' = Loaded(<<>>)  BY <1>1 DEF Loaded
<1>3. \A t : Follows(t) => Follows(t)'  BY CalmFollows
<1>4. Follows(Loaded(<<>>)) => Follows(Loaded(<<>>))'
  <2>1. PICK t : t = Loaded(<<>>)  OBVIOUS
  <2>2. Follows(t) => Follows(t)'  BY <1>3
  <2> QED  BY <1>2, <2>1, <2>2 DEF Follows
<1>5. ASSUME NEW d \in Savers  PROVE SaveInv(d)'
  <2>1. SaveInv(d)  BY DEF DiskInv
  <2>2. Follows(saver[d].data) => Follows(saver[d].data)'
    <3>1. PICK t : t = saver[d].data  OBVIOUS
    <3>2. Follows(t) => Follows(t)'  BY <1>3
    <3> QED  BY <1>1, <3>1, <3>2 DEF Follows
  <2> QED  BY <1>1, <1>4, <2>1, <2>2 DEF SaveInv
<1> QED  BY <1>1, <1>4, <1>5 DEF DiskInv, FileIsWhole

LEMMA DiskRestart ==
    ASSUME Types, DiskInv, Restart
    PROVE  DiskInv'
<1>1. UNCHANGED <<file, tmp>> /\ \A d \in Savers : saver'[d].pc = "idle" /\ admin'[d].kind = "none"
  BY DEF Restart, FileRestart, Resting, Answered, Admins
<1>2. Follows(Loaded(<<>>))'
  <2> DEFINE saved == Loaded(<<>>)
  <2>1. saved' = saved  BY <1>1 DEF Loaded
  <2>2. /\ DOMAIN table' = DOMAIN saved
        /\ \A n \in DOMAIN saved : obj'[table'[n]] = Fresh(saved[n].cfg, saved[n].enabled, "disconnected")
    BY RestartRestores
  <2>3. \A n \in DOMAIN saved : saved[n].cfg \in Configs /\ saved[n].enabled \in BOOLEAN
    BY LoadedIsTable DEF Types
  <2> HIDE DEF saved
  <2>4. \A n \in DOMAIN saved : obj'[table'[n]].cfg = saved[n].cfg /\ (obj'[table'[n]].enabled <=> saved[n].enabled)
    BY <2>2, <2>3, FreshIsOwn
  <2>5. Follows(saved)'  BY <2>1, <2>2, <2>4 DEF Follows
  <2> QED  BY <2>5 DEF saved
<1> QED  BY <1>1, <1>2 DEF DiskInv, SaveInv, FileIsWhole

\* The copy holds the table, and what is written and renamed is the copy.
LEMMA DiskSave ==
    ASSUME OneAdmin, Types, DiskInv, NEW d \in Savers, save(d)
    PROVE  DiskInv'
<1>1. \A e \in Savers : e = d  BY DEF OneAdmin
<1>2. UNCHANGED <<obj, table, admin>>  BY DEF save, fedVars
<1>3. \A t : Follows(t) <=> Follows(t)'  BY <1>2 DEF Follows
<1>4. saver \in [Savers -> SaverLocals] /\ SaveInv(d) /\ FileIsWhole /\ Savers # {}
  BY DEF Types, FileInv, FileTypeOK, DiskInv
<1>5. SUFFICES saver[d].pc \notin {"idle", "saved"} => FileIsWhole' /\ SaveInv(d)'
  <2>1. saver[d].pc \notin {"idle", "saved"}
    BY DEF save, CopyTable, SaveStep, OpenTmp, WriteTmp, RenameTmp
  <2>2. admin'[d].kind # "none"  BY <1>2, <1>4, <2>1 DEF SaveInv
  <2> QED  BY <1>1, <1>5, <2>1, <2>2 DEF DiskInv
<1> SUFFICES ASSUME saver[d].pc \notin {"idle", "saved"} PROVE FileIsWhole' /\ SaveInv(d)'  OBVIOUS
<1>6. admin'[d].kind # "none"  BY <1>2, <1>4 DEF SaveInv
<1>7. ASSUME NEW l \in SaverLocals, saver' = [saver EXCEPT ![d] = l], l.pc = "failed", FileIsWhole'
      PROVE  FileIsWhole' /\ SaveInv(d)'
  BY <1>4, <1>6, <1>7 DEF SaveInv
<1>8. CASE CopyTable(d, TableNow)
  <2> DEFINE t == TableNow   l == [pc |-> "open", data |-> t, fd |-> "none"]
  <2>1. Follows(t)  BY DEF TableNow, Saved, Follows
  <2> HIDE DEF t
  <2>2. UNCHANGED file /\ saver' = [saver EXCEPT ![d] = l]  BY <1>8 DEF CopyTable, t
  <2>3. saver'[d].pc = "open" /\ saver'[d].data = t  BY <1>4, <2>2
  <2>4. Follows(saver[d].data)'
    <3>1. PICK s : s = t  OBVIOUS
    <3>2. Follows(s)'  BY <1>3, <2>1, <3>1
    <3> QED  BY <2>3, <3>1, <3>2 DEF Follows
  <2> QED  BY <1>4, <1>6, <2>2, <2>3, <2>4 DEF SaveInv, FileIsWhole
<1>9. ASSUME saver[d].pc \in {"open", "write", "rename"}
      PROVE  Follows(saver[d].data) /\ (saver'[d].data = saver[d].data => Follows(saver[d].data)')
  <2>1. PICK s : s = saver[d].data  OBVIOUS
  <2>2. Follows(s)  BY <1>4, <1>9, <2>1 DEF SaveInv
  <2>3. Follows(s)'  BY <1>3, <2>2
  <2> QED  BY <2>1, <2>2, <2>3 DEF Follows
<1>10. CASE OpenTmp(d)
  <2>1. UNCHANGED file /\ saver[d].pc = "open"  BY <1>10 DEF OpenTmp
  <2>2. CASE saver' = [saver EXCEPT ![d] = Resting("failed")]
    BY <1>4, <1>7, <2>1, <2>2, RestingType DEF FileIsWhole
  <2>3. CASE tmp' = Content("empty") /\ saver' = [saver EXCEPT ![d].pc = "write", ![d].fd = "tmp"]
    <3>1. saver'[d].pc = "write" /\ saver'[d].fd = "tmp" /\ saver'[d].data = saver[d].data  BY <1>4, <2>3 DEF SaverLocals
    <3>2. tmp'.kind = "empty"  BY <2>3 DEF Content
    <3> QED  BY <1>4, <1>6, <1>9, <2>1, <3>1, <3>2 DEF SaveInv, FileIsWhole
  <2> QED  BY <1>10, <2>2, <2>3 DEF OpenTmp
<1>11. CASE WriteTmp(d)
  <2>1. saver[d].pc = "write" /\ saver[d].fd = "tmp" /\ tmp.kind = "empty"  BY <1>4, <1>11 DEF WriteTmp, SaveInv
  <2>2. UNCHANGED file  BY <1>11, <2>1 DEF WriteTmp
  <2>3. CASE saver' = [saver EXCEPT ![d] = Resting("failed")]
    BY <1>4, <1>7, <2>2, <2>3, RestingType DEF FileIsWhole
  <2>4. CASE tmp' = Whole(saver[d].data) /\ saver' = [saver EXCEPT ![d] = [saver[d] EXCEPT !.pc = "rename", !.fd = "none"]]
    <3>1. saver'[d].pc = "rename" /\ saver'[d].data = saver[d].data  BY <1>4, <2>4 DEF SaverLocals
    <3> QED  BY <1>4, <1>6, <1>9, <2>1, <2>2, <2>4, <3>1 DEF SaveInv, FileIsWhole
  <2>5. Overwritten(tmp, saver[d].data) = {Whole(saver[d].data)}  BY <2>1 DEF Overwritten
  <2> QED  BY <1>11, <2>1, <2>3, <2>4, <2>5 DEF WriteTmp
<1>12. CASE RenameTmp(d)
  <2>1. saver[d].pc = "rename" /\ tmp = Whole(saver[d].data)  BY <1>4, <1>12 DEF RenameTmp, SaveInv
  <2>2. \A pc \in {"saved", "failed"} : Renamed(d, pc)[d].pc = pc  BY DEF Renamed, Resting
  <2>3. CASE file' = file /\ saver' = Renamed(d, "failed")
    <3>1. saver'[d].pc = "failed"  BY <2>2, <2>3
    <3> QED  BY <1>4, <1>6, <2>3, <3>1 DEF SaveInv, FileIsWhole
  <2>4. CASE file' = tmp /\ saver' = Renamed(d, "saved")
    <3>1. saver'[d].pc = "saved"  BY <2>2, <2>4
    <3>2. file'.kind = "whole" /\ file'.data = saver[d].data  BY <2>1, <2>4 DEF Whole
    <3>3. Loaded(<<>>)' = saver[d].data  BY <3>2 DEF Loaded
    <3>4. Follows(Loaded(<<>>))'
      <4>1. PICK s : s = saver[d].data  OBVIOUS
      <4>2. Follows(s)'  BY <1>3, <1>9, <2>1, <4>1
      <4> QED  BY <3>3, <4>1, <4>2 DEF Follows
    <3> QED  BY <1>6, <3>1, <3>2, <3>4 DEF SaveInv, FileIsWhole
  <2> QED  BY <1>12, <2>3, <2>4 DEF RenameTmp
<1> QED  BY <1>8, <1>10, <1>11, <1>12 DEF save, SaveStep

\* A request is taken up: nothing is claimed until its save has ended.
LEMMA DiskBusy ==
    ASSUME OneAdmin, Types, DiskInv, NEW d \in Savers, UNCHANGED <<file, tmp>>,
           NEW k \in {"replace", "add", "delete", "toggle"}, NEW n, NEW c, NEW o, Ask(d, k, n, c, o),
           NEW pc \in {"copy", "failed"}, saver' = [saver EXCEPT ![d] = Resting(pc)]
    PROVE  DiskInv'
<1>1. \A e \in Savers : e = d  BY DEF OneAdmin
<1>2. saver'[d].pc = pc  BY RestingType DEF Types, FileInv, FileTypeOK
<1>3. admin'[d].kind # "none"  BY DEF Ask, Types, PointersOK, AdminOK, Admins
<1> QED  BY <1>1, <1>2, <1>3 DEF DiskInv, SaveInv, FileIsWhole

\* It is answered: as saved only when the file has the table.
LEMMA DiskAnswer ==
    ASSUME OneAdmin, Types, DiskInv, NEW d \in Savers, UNCHANGED <<file, tmp>>,
           NEW saved \in BOOLEAN, Answer(d, saved),
           saved => saver[d].pc = "saved" /\ UNCHANGED <<obj, table>>
    PROVE  DiskInv'
<1>1. \A e \in Savers : e = d  BY DEF OneAdmin
<1>2. saver'[d].pc = "idle"  BY RestingType DEF Answer, Types, FileInv, FileTypeOK
<1>3. admin'[d].kind = "none" /\ (admin'[d].saved <=> saved)
  BY DEF Answer, Answered, Types, PointersOK, AdminOK, Admins
<1>4. saved => Follows(Loaded(<<>>))'
  <2> SUFFICES ASSUME saved PROVE Follows(Loaded(<<>>))'  OBVIOUS
  <2>1. PICK t : t = Loaded(<<>>)  OBVIOUS
  <2>2. Follows(t)  BY <2>1 DEF DiskInv, SaveInv
  <2>3. Loaded(<<>>)' = t  BY <2>1 DEF Loaded
  <2> QED  BY <2>2, <2>3 DEF Follows
<1> QED  BY <1>1, <1>2, <1>3, <1>4 DEF DiskInv, SaveInv, FileIsWhole

LEMMA DiskAdmin ==
    ASSUME OneAdmin, Types, DiskInv, NEW d \in Savers, AdminStep(d)
    PROVE  DiskInv'
<1>1. ASSUME NEW n \in Names, RemoveRemote(d, n)
      PROVE  \E pc \in {"copy", "failed"} : saver' = [saver EXCEPT ![d] = Resting(pc)]
  BY <1>1 DEF RemoveRemote, BeginSave
<1>2. ASSUME NEW n \in Names, NEW c \in Configs, PutRemote(d, n, c)  PROVE DiskInv'
  <2>1. UNCHANGED <<file, tmp>> /\ Ask(d, "replace", n, c, 0) /\ RemoveRemote(d, n)  BY <1>2 DEF PutRemote
  <2> QED  BY <1>1, <2>1, DiskBusy
<1>3. ASSUME NEW n \in Names, DeleteRemote(d, n)  PROVE DiskInv'
  <2>1. UNCHANGED <<file, tmp>> /\ Ask(d, "delete", n, None, 0) /\ RemoveRemote(d, n)  BY <1>3 DEF DeleteRemote
  <2> QED  BY <1>1, <2>1, DiskBusy
<1>4. ASSUME NEW n \in Names, ToggleRemote(d, n)  PROVE DiskInv'
  <2>1. UNCHANGED <<file, tmp>> /\ Ask(d, "toggle", n, None, 0) /\ saver' = [saver EXCEPT ![d] = Resting("copy")]
    BY <1>4 DEF ToggleRemote, BeginSave
  <2> QED  BY <2>1, DiskBusy
<1>5. CASE AddRemote(d)
  <2>1. UNCHANGED <<file, tmp>>  BY <1>5 DEF AddRemote
  <2>2. CASE Answer(d, FALSE)  BY <2>1, <2>2, DiskAnswer
  <2>3. CASE ~Answer(d, FALSE)
    <3>1. PICK o : Ask(d, "add", admin[d].name, admin[d].cfg, o) /\ BeginSave(d)  BY <1>5, <2>3 DEF AddRemote
    <3>2. PICK n, c : Ask(d, "add", n, c, o)  BY <3>1
    <3>3. saver' = [saver EXCEPT ![d] = Resting("copy")]  BY <3>1 DEF BeginSave
    <3> QED  BY <2>1, <3>2, <3>3, DiskBusy
  <2> QED  BY <2>2, <2>3
<1>6. ASSUME NEW p \in Background, AddSaved(d, p)  PROVE DiskInv'
  <2>1. UNCHANGED <<obj, table, file, tmp>> /\ Answer(d, TRUE) /\ saver[d].pc = "saved"  BY <1>6 DEF AddSaved
  <2> QED  BY <2>1, DiskAnswer
<1>7. CASE AddFailed(d)
  <2>1. UNCHANGED <<file, tmp>> /\ Answer(d, FALSE)  BY <1>7 DEF AddFailed
  <2> QED  BY <2>1, DiskAnswer
<1>8. CASE SaveEnded(d)
  <2>1. UNCHANGED <<obj, table, file, tmp>> /\ Answer(d, saver[d].pc = "saved")  BY <1>8 DEF SaveEnded
  <2>2. PICK saved \in BOOLEAN : saved <=> saver[d].pc = "saved"  OBVIOUS
  <2>3. Answer(d, saved)
    <3>1. CASE saved
      <4>1. (saver[d].pc = "saved") = TRUE  BY <2>2, <3>1
      <4>2. saved = TRUE  BY <3>1
      <4> QED  BY <2>1, <4>1, <4>2
    <3>2. CASE ~saved
      <4>1. (saver[d].pc = "saved") = FALSE  BY <2>2, <3>2
      <4>2. saved = FALSE  BY <3>2
      <4> QED  BY <2>1, <4>1, <4>2
    <3> QED  BY <3>1, <3>2
  <2> QED  BY <2>1, <2>2, <2>3, DiskAnswer
<1>9. CASE save(d)  BY <1>9, DiskSave
<1> QED  BY <1>2, <1>3, <1>4, <1>5, <1>6, <1>7, <1>8, <1>9 DEF AdminStep

LEMMA DiskHolds ==
    ASSUME OneAdmin
    PROVE  Spec => []DiskInv
<1>1. Types /\ DiskInv /\ [Next]_vars => DiskInv'
  BY StepKinds, DiskAdmin, DiskRestart, DiskCalm DEF Admins
<1> QED  BY DiskInit, TypesHold, <1>1, PTL DEF Spec

\* With one admin at a time, whenever the broker dies remotes.json is absent or parses.
THEOREM FileStaysWhole ==
    ASSUME OneAdmin
    PROVE  Spec => []FileIsWhole
<1>1. DiskInv => FileIsWhole  BY DEF DiskInv
<1> QED  BY <1>1, DiskHolds, PTL

\* With one admin at a time, while no request is under way and the last one was saved
\* (which its answer need not tell), the file has the table, whatever failed before
\* and whoever was suspended meanwhile.
THEOREM FileFollowsTable ==
    ASSUME OneAdmin
    PROVE  Spec => []FileFollows
<1>1. DiskInv => FileFollows  BY DEF DiskInv, Follows, FileFollows, Admins
<1> QED  BY <1>1, DiskHolds, PTL

=============================================================================
