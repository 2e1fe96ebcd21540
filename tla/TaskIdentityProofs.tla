------------------------- MODULE TaskIdentityProofs -------------------------
(***************************************************************************)
(* Theorems about TaskIdentity, for all values of its constants: what      *)
(* envelopes guarantee, the types of the state, and the safety of          *)
(* delegation, revocation, restarts and tokens.                            *)
(***************************************************************************)
EXTENDS TaskIdentity, TLAPS

USE DEF NoTask, NoDeadline

-----------------------------------------------------------------------------
(* Envelopes: what the operations on them guarantee, for every set of names. *)

\* token.isSubset is sound: a subset permits no more than its parent.
LEMMA SubsetPermits ==
    ASSUME NEW a \in SUBSET Items, NEW b \in SUBSET Items, isSubset(a, b)
    PROVE  Permits(a) \subseteq Permits(b)
  BY DEF isSubset, Permits, containsString

\* Envelope.IsSubsetOf is sound: what the child permits the parent permits.
LEMMA SubsetWithin ==
    ASSUME NEW e \in Envelopes, NEW f \in Envelopes, IsSubsetOf(e, f)
    PROVE  Within(e, f)
  BY SubsetPermits DEF IsSubsetOf, Within, Envelopes

\* Within is reflexive and transitive.
LEMMA WithinReflexive ==
    ASSUME NEW e PROVE Within(e, e)
  BY DEF Within

LEMMA WithinTransitive ==
    ASSUME NEW e, NEW f, NEW g, Within(e, f), Within(f, g)
    PROVE  Within(e, g)
  BY DEF Within

\* intersectEnvelopes returns an envelope.
LEMMA IntersectIsEnvelope ==
    ASSUME NEW a \in Envelopes, NEW b \in Envelopes
    PROVE  intersectEnvelopes(a, b) \in Envelopes
  BY WildAssumption DEF Envelopes, intersectEnvelopes, intersectSlices

\* intersectSlices permits exactly what both slices permit, wildcards included.
LEMMA IntersectPermits ==
    ASSUME NEW a \in SUBSET Items, NEW b \in SUBSET Items
    PROVE  Permits(intersectSlices(a, b)) = Permits(a) \cap Permits(b)
  BY WildAssumption DEF intersectSlices, Permits, containsString

\* A task token never gets more out of intersectEnvelopes than it had.
THEOREM IntersectWithinBoth ==
    ASSUME NEW a \in Envelopes, NEW b \in Envelopes
    PROVE  Within(intersectEnvelopes(a, b), a) /\ Within(intersectEnvelopes(a, b), b)
  <1> DEFINE c == intersectEnvelopes(a, b)
  <1> SUFFICES ASSUME NEW d \in Dims
               PROVE  Permits(c[d]) \subseteq Permits(a[d]) /\ Permits(c[d]) \subseteq Permits(b[d])
    BY DEF Within
  <1>1. c[d] = intersectSlices(a[d], b[d])
    BY DEF intersectEnvelopes
  <1>2. PICK A, B : A = a[d] /\ B = b[d] /\ A \in SUBSET Items /\ B \in SUBSET Items
    BY DEF Envelopes
  <1>3. Permits(intersectSlices(A, B)) = Permits(A) \cap Permits(B)
    BY <1>2, IntersectPermits
  <1> HIDE DEF c
  <1> QED BY <1>1, <1>2, <1>3

\* Nothing is lost either: what both envelopes permit the intersection permits.
THEOREM IntersectIsGreatest ==
    ASSUME NEW a \in Envelopes, NEW b \in Envelopes, NEW g, Within(g, a), Within(g, b)
    PROVE  Within(g, intersectEnvelopes(a, b))
  <1> DEFINE c == intersectEnvelopes(a, b)
  <1> SUFFICES ASSUME NEW d \in Dims PROVE Permits(g[d]) \subseteq Permits(c[d])
    BY DEF Within
  <1>1. c[d] = intersectSlices(a[d], b[d])
    BY DEF intersectEnvelopes
  <1>2. PICK A, B : A = a[d] /\ B = b[d] /\ A \in SUBSET Items /\ B \in SUBSET Items
    BY DEF Envelopes
  <1>3. Permits(intersectSlices(A, B)) = Permits(A) \cap Permits(B)
    BY <1>2, IntersectPermits
  <1>4. Permits(g[d]) \subseteq Permits(a[d]) /\ Permits(g[d]) \subseteq Permits(b[d])
    BY DEF Within
  <1> HIDE DEF c
  <1> QED BY <1>1, <1>2, <1>3, <1>4

\* token.isSubset refuses no child that permits no more than its parent.
LEMMA PermitsSubset ==
    ASSUME NEW a \in SUBSET Items, NEW b \in SUBSET Items, Permits(a) \subseteq Permits(b)
    PROVE  isSubset(a, b)
  <1>1. CASE Wild \in b
    BY <1>1 DEF isSubset
  <1>2. CASE Wild \notin b
    <2>1. Permits(b) = b
      BY <1>2 DEF Permits, containsString
    <2>2. a \subseteq Permits(a)
      BY DEF Permits, containsString
    <2> QED BY <2>1, <2>2 DEF isSubset
  <1> QED BY <1>1, <1>2

\* Envelope.IsSubsetOf decides containment exactly: it accepts a child when, and only
\* when, the child permits nothing that the parent does not.
THEOREM SubsetIsExact ==
    ASSUME NEW e \in Envelopes, NEW f \in Envelopes
    PROVE  IsSubsetOf(e, f) <=> Within(e, f)
  <1>1. IsSubsetOf(e, f) => Within(e, f)
    BY SubsetWithin
  <1>2. ASSUME Within(e, f) PROVE IsSubsetOf(e, f)
    <2> SUFFICES ASSUME NEW d \in Dims PROVE isSubset(e[d], f[d])
      BY DEF IsSubsetOf
    <2>1. PICK E, F : E = e[d] /\ F = f[d] /\ E \in SUBSET Items /\ F \in SUBSET Items
      BY DEF Envelopes
    <2>2. Permits(e[d]) \subseteq Permits(f[d])
      BY <1>2 DEF Within
    <2> QED BY <2>1, <2>2, PermitsSubset
  <1> QED BY <1>1, <1>2

-----------------------------------------------------------------------------
(* Maps. *)

\* Put extends a map by one entry and leaves the others alone.
LEMMA PutFacts ==
    ASSUME NEW f, NEW k, NEW v, NEW S, f \in [DOMAIN f -> S], v \in S
    PROVE  /\ DOMAIN Put(f, k, v) = DOMAIN f \cup {k}
           /\ Put(f, k, v) \in [DOMAIN f \cup {k} -> S]
           /\ Put(f, k, v)[k] = v
           /\ \A x \in DOMAIN f : x # k => Put(f, k, v)[x] = f[x]
  BY DEF Put

\* Restrict to part of the domain keeps the values there.
LEMMA RestrictFacts ==
    ASSUME NEW f, NEW S, NEW T, f \in [DOMAIN f -> T], S \subseteq DOMAIN f
    PROVE  /\ DOMAIN Restrict(f, S) = S
           /\ Restrict(f, S) \in [S -> T]
           /\ \A x \in S : Restrict(f, S)[x] = f[x]
  BY DEF Restrict

-----------------------------------------------------------------------------
(* Values have their types. *)

\* Reduce yields an envelope whatever chain it is given.
LEMMA ReduceIsEnvelope ==
    ASSUME NEW m PROVE Reduce(m) \in Envelopes
  BY DEF Reduce, Envelopes

LEMMA NoMacType == NoMac \in Macaroons
  <1>1. <<>> \in Seq(Block)
    OBVIOUS
  <1> QED BY <1>1 DEF NoMac, Macaroons

LEMMA CaveatsType ==
    ASSUME NEW env \in Envelopes, NEW cd \in BOOLEAN, NEW d \in Int, NEW e \in Nat
    PROVE  Caveats(env, cd, d, e) \in Block
  BY UnitsAssumption DEF Caveats, Block, RFC3339

\* The block of a holder's caveats.
LEMMA HolderBlockType ==
    ASSUME NEW env \in HolderEnvs
    PROVE  Caveats(env, FALSE, 0, MaxTime) \in Block
  <1>1. env \in Envelopes /\ MaxTime \in Nat
    BY RequestAssumption, BoundsAssumption
  <1>2. FALSE \in BOOLEAN /\ 0 \in Int
    OBVIOUS
  <1> QED BY <1>1, <1>2, CaveatsType

LEMMA MintRootType ==
    ASSUME NEW r \in Ids, NEW g \in Nat, NEW a \in Agents, NEW b \in Block
    PROVE  MintRoot(r, g, a, b) \in Macaroons
  <1>1. <<b>> \in Seq(Block)
    OBVIOUS
  <1>2. r \in Nat
    BY BoundsAssumption DEF Ids
  <1> QED BY <1>1, <1>2 DEF MintRoot, Macaroons

\* A delegated macaroon is its parent with one more block.
LEMMA MintDelegatedType ==
    ASSUME NEW m \in Macaroons, NEW b \in Block
    PROVE  /\ MintDelegated(m, b) \in Macaroons
           /\ MintDelegated(m, b).agent = m.agent
           /\ MintDelegated(m, b).id = m.id
           /\ MintDelegated(m, b).gen = m.gen
           /\ MintDelegated(m, b).chain = Append(m.chain, b)
  <1>1. Append(m.chain, b) \in Seq(Block)
    BY DEF Macaroons
  <1> QED BY <1>1 DEF MintDelegated, Macaroons

LEMMA NoReqType == NoReq \in Requests
  BY NoMacType DEF NoReq, Requests

-----------------------------------------------------------------------------
(* Type correctness. *)

\* One handler moves on: the others keep theirs, also when tasks were added.
LEMMA LocalsStep ==
    ASSUME LocalsOK, DOMAIN heap \subseteq DOMAIN heap',
           NEW w \in Workers, NEW p, NEW r, Goto(w, p, r), LocalOK(DOMAIN heap', p, r)
    PROVE  LocalsOK'
  <1>1. /\ pc' = [pc EXCEPT ![w] = p] /\ req' = [req EXCEPT ![w] = r]
        /\ pc = [v \in Workers |-> pc[v]] /\ req = [v \in Workers |-> req[v]]
    BY DEF Goto, LocalsOK
  <1>2. ASSUME NEW v \in Workers PROVE LocalOK(DOMAIN heap', pc'[v], req'[v])
    <2>1. CASE v = w
      BY <1>1, <2>1
    <2>2. CASE v # w
      <3>1. pc'[v] = pc[v] /\ req'[v] = req[v]
        BY <1>1, <2>2
      <3>2. LocalOK(DOMAIN heap, pc[v], req[v])
        BY DEF LocalsOK
      <3> QED BY <3>1, <3>2 DEF LocalOK
    <2> QED BY <2>1, <2>2
  <1> QED BY <1>1, <1>2 DEF LocalsOK

\* A handler that replies is idle with empty locals.
LEMMA ReplyOK ==
    ASSUME LocalsOK, DOMAIN heap \subseteq DOMAIN heap', NEW w \in Workers, Reply(w)
    PROVE  LocalsOK'
  <1>1. LocalOK(DOMAIN heap', "idle", NoReq)
    BY NoReqType DEF LocalOK, NoReq, PCs, HasSubject, HasAgent, Tools
  <1> QED BY <1>1, LocalsStep DEF Reply

\* A step that only moves one handler.
LEMMA HandlerStep ==
    ASSUME TypeOK, UNCHANGED <<managerVars, tokenVars, historyVars>>, NEW w \in Workers,
           NEW p, NEW r, Goto(w, p, r), LocalOK(DOMAIN heap, p, r)
    PROVE  TypeOK'
  <1>1. LocalsOK'
    BY LocalsStep DEF TypeOK, managerVars
  <1> QED BY <1>1 DEF TypeOK, HeapOK, TablesOK, managerVars, tokenVars, historyVars

LEMMA ReplyStep ==
    ASSUME TypeOK, UNCHANGED <<managerVars, tokenVars, historyVars>>, NEW w \in Workers,
           Reply(w)
    PROVE  TypeOK'
  <1>1. LocalsOK'
    BY ReplyOK DEF TypeOK, managerVars
  <1> QED BY <1>1 DEF TypeOK, HeapOK, TablesOK, managerVars, tokenVars, historyVars

\* The tables stay well typed while tasks are added.
LEMMA TablesGrow ==
    ASSUME TablesOK, UNCHANGED <<sigIndex, tokenVars, historyVars>>,
           DOMAIN heap \subseteq DOMAIN heap'
    PROVE  TablesOK'
  BY DEF TablesOK, tokenVars, historyVars

\* Forgetting tasks keeps both the table and the index well typed.
LEMMA RemoveOK ==
    ASSUME HeapOK, TablesOK, NEW S, Remove(S)
    PROVE  /\ HeapOK'
           /\ DOMAIN sigIndex' \subseteq DOMAIN sigIndex
           /\ sigIndex' \in [DOMAIN sigIndex' -> DOMAIN heap']
           /\ \A m \in DOMAIN sigIndex' : sigIndex'[m] = sigIndex[m]
  <1> DEFINE D == {m \in DOMAIN sigIndex : \A t \in S \cap live : heap[t].digest # m}
  <1>1. sigIndex' = Restrict(sigIndex, D) /\ live' \subseteq live /\ heap' = heap
    BY DEF Remove
  <1>2. sigIndex \in [DOMAIN sigIndex -> DOMAIN heap]
    BY DEF TablesOK
  <1>3. /\ DOMAIN sigIndex' = D
        /\ sigIndex' \in [D -> DOMAIN heap]
        /\ \A m \in D : sigIndex'[m] = sigIndex[m]
    BY <1>1, <1>2 DEF Restrict
  <1>4. HeapOK'
    BY <1>1 DEF HeapOK
  <1> QED BY <1>1, <1>3, <1>4

\* Allocating a task extends the heap by it.
LEMMA AllocateOK ==
    ASSUME HeapOK, NEW id \in Ids, NEW T \in Tasks, T.root \in DOMAIN heap \cup {id},
           T.lineage \subseteq DOMAIN heap \cup {id},
           id \notin DOMAIN heap, heap' = Put(heap, id, T), live' = live \cup {id}
    PROVE  /\ HeapOK'
           /\ DOMAIN heap' = DOMAIN heap \cup {id}
           /\ heap'[id] = T
           /\ \A t \in DOMAIN heap : heap'[t] = heap[t]
  <1>1. heap \in [DOMAIN heap -> Tasks]
    BY DEF HeapOK
  <1>2. /\ DOMAIN heap' = DOMAIN heap \cup {id}
        /\ heap' \in [DOMAIN heap \cup {id} -> Tasks]
        /\ heap'[id] = T
        /\ \A t \in DOMAIN heap : heap'[t] = heap[t]
    BY <1>1 DEF Put
  <1>3. \A t \in DOMAIN heap' :
            heap'[t].root \in DOMAIN heap' /\ heap'[t].lineage \subseteq DOMAIN heap'
    BY <1>2 DEF HeapOK
  <1> QED BY <1>2, <1>3 DEF HeapOK

\* What a token lets its holder ask for is an envelope.
LEMMA ConstrainType ==
    ASSUME NEW env \in Envelopes, NEW w
    PROVE  Constrain(env, w) \in Envelopes
  BY IntersectIsEnvelope, ReduceIsEnvelope DEF Constrain

LEMMA CreateOK ==
    ASSUME TypeOK, NEW w \in Workers, NEW id \in Ids, NEW ttl \in TTLs,
           NEW cd \in BOOLEAN, NEW key \in HolderKeys \cup {NoKey},
           toolTaskCreate(w, id, ttl, cd, key)
    PROVE  TypeOK'
  <1> DEFINE env == Constrain(Policy[req[w].agent], w)
             T == NewRoot(id, req[w].agent, ttl, env, cd, key)
             r == [req[w] EXCEPT !.subject = id]
  <1>0. /\ pc[w] = "create" /\ id \notin DOMAIN heap
        /\ heap' = Put(heap, id, T) /\ live' = live \cup {id}
        /\ Goto(w, "mint", r)
        /\ UNCHANGED <<now, sigIndex, tokenVars, historyVars>>
    BY DEF toolTaskCreate, CreateTask, IsNewULID
  <1>1. LocalOK(DOMAIN heap, pc[w], req[w]) /\ req[w].agent \in Agents
    BY <1>0 DEF TypeOK, LocalsOK, LocalOK, HasAgent, Tools
  <1>2. env \in Envelopes
    BY <1>1, ConstrainType, RequestAssumption
  <1>3. T \in Tasks /\ T.root = id /\ T.lineage = {id}
    BY <1>1, <1>2, NoMacType, RequestAssumption DEF NewRoot, Tasks, TypeOK
  <1>4. HeapOK' /\ DOMAIN heap' = DOMAIN heap \cup {id}
    BY <1>0, <1>3, AllocateOK DEF TypeOK
  <1>5. TablesOK'
    BY <1>0, <1>4, TablesGrow DEF TypeOK
  <1>6. LocalOK(DOMAIN heap', "mint", r)
    BY <1>1, <1>4 DEF LocalOK, Requests, PCs, HasSubject, HasAgent
  <1>7. LocalsOK'
    BY <1>0, <1>4, <1>6, LocalsStep DEF TypeOK
  <1> QED BY <1>0, <1>4, <1>5, <1>7 DEF TypeOK

LEMMA DelegateOK ==
    ASSUME TypeOK, NEW w \in Workers, NEW id \in Ids, NEW p \in live, NEW ttl \in TTLs,
           NEW env \in Envelopes, NEW cd \in BOOLEAN,
           Delegate(w, id, p, ttl, env, cd)
    PROVE  TypeOK'
  <1> DEFINE T == NewChild(id, p, req[w].agent, ttl, env, cd)
             r == [req[w] EXCEPT !.subject = id]
  <1>0. /\ pc[w] = "delegate" /\ id \notin DOMAIN heap
        /\ heap' = Put(heap, id, T) /\ live' = live \cup {id}
        /\ Goto(w, "mint", r)
        /\ UNCHANGED <<now, sigIndex, tokenVars, historyVars>>
    BY DEF Delegate, CreateChildTask, IsNewULID
  <1>1. LocalOK(DOMAIN heap, pc[w], req[w]) /\ req[w].agent \in Agents
    BY <1>0 DEF TypeOK, LocalsOK, LocalOK, HasAgent, Tools
  <1>2. /\ p \in DOMAIN heap /\ p \in Ids /\ heap[p] \in Tasks
        /\ heap[p].root \in DOMAIN heap /\ heap[p].lineage \subseteq DOMAIN heap
    BY DEF TypeOK, HeapOK
  <1>3. T \in Tasks /\ T.root \in DOMAIN heap /\ T.lineage \subseteq DOMAIN heap \cup {id}
    BY <1>1, <1>2, NoMacType, RequestAssumption, ManagerAssumption
       DEF NewChild, Tasks, TypeOK
  <1>4. HeapOK' /\ DOMAIN heap' = DOMAIN heap \cup {id}
    BY <1>0, <1>3, AllocateOK DEF TypeOK
  <1>5. TablesOK'
    BY <1>0, <1>4, TablesGrow DEF TypeOK
  <1>6. LocalOK(DOMAIN heap', "mint", r)
    BY <1>1, <1>4 DEF LocalOK, Requests, PCs, HasSubject, HasAgent
  <1>7. LocalsOK'
    BY <1>0, <1>4, <1>6, LocalsStep DEF TypeOK
  <1> QED BY <1>0, <1>4, <1>5, <1>7 DEF TypeOK

\* Locals of a handler that is at one of the steps that have an agent.
LEMMA LocalsAt ==
    ASSUME TypeOK, NEW w \in Workers
    PROVE  LocalOK(DOMAIN heap, pc[w], req[w])
  BY DEF TypeOK, LocalsOK

LEMMA AuthOK ==
    ASSUME TypeOK, NEW w \in Workers,
           \/ \E a \in Agents, tool \in Calls \cap Tools : AuthenticateKey(w, a, tool)
           \/ \E tok \in issued : VerifyMacaroon(w, tok)
           \/ LookupTask(w)
           \/ \E c \in Ids : CheckRevocation(w, c)
           \/ \E tool \in Calls \cap Tools, key \in HolderKeys \cup {NoKey} :
                 handleToolsCall(w, tool, key)
           \/ ResourceTool(w)
           \/ Refuse(w)
    PROVE  TypeOK'
  <1>0. LocalOK(DOMAIN heap, pc[w], req[w])
    BY LocalsAt
  <1>1. ASSUME NEW a \in Agents, NEW tool \in Calls \cap Tools, AuthenticateKey(w, a, tool)
        PROVE  TypeOK'
    <2> DEFINE r == [NoReq EXCEPT !.agent = a]
    <2>1. LocalOK(DOMAIN heap, tool, r)
      BY NoReqType DEF LocalOK, PCs, Requests, NoReq, HasSubject, Tools
    <2> QED BY <1>1, <2>1, HandlerStep DEF AuthenticateKey
  <1>2. ASSUME NEW tok \in issued, VerifyMacaroon(w, tok)
        PROVE  TypeOK'
    <2> DEFINE r == [NoReq EXCEPT !.agent = tok.mac.agent, !.mac = tok.mac, !.seen = revoked]
    <2>1. tok.mac \in Macaroons /\ tok.mac.agent \in Agents
      BY DEF TypeOK, TablesOK, Token
    <2>2. revoked \subseteq DOMAIN heap /\ revoked \subseteq Ids
      BY DEF TypeOK, TablesOK, HeapOK
    <2>3. LocalOK(DOMAIN heap, "verified", r)
      BY <2>1, <2>2, NoReqType DEF LocalOK, PCs, Requests, NoReq, HasSubject, Tools
    <2> QED BY <1>2, <2>3, HandlerStep DEF VerifyMacaroon
  <1>3. CASE LookupTask(w)
    <2> DEFINE t == Resolve(req[w].mac)
               r == [req[w] EXCEPT !.claims = t, !.todo = heap[t].lineage]
    <2>1. CASE IsTaskActive(t)
      <3>1. t \in DOMAIN heap /\ t \in Ids /\ heap[t].lineage \subseteq DOMAIN heap
        BY <2>1 DEF IsTaskActive, TypeOK, HeapOK
      <3>2. heap[t].lineage \subseteq Ids
        BY <3>1 DEF TypeOK, HeapOK
      <3>3. LocalOK(DOMAIN heap, "resolved", r)
        BY <1>0, <1>3, <3>1, <3>2
           DEF LookupTask, LocalOK, PCs, Requests, HasSubject, HasAgent, Tools
      <3>4. Goto(w, "resolved", r) /\ UNCHANGED <<managerVars, tokenVars, historyVars>>
        BY <1>3, <2>1 DEF LookupTask
      <3> QED BY <3>3, <3>4, HandlerStep
    <2>2. CASE ~IsTaskActive(t)
      BY <1>3, <2>2, ReplyStep DEF LookupTask
    <2> QED BY <2>1, <2>2
  <1>4. ASSUME NEW c \in Ids, CheckRevocation(w, c)
        PROVE  TypeOK'
    <2> DEFINE rest == req[w].todo \ {c}
               r1 == [req[w] EXCEPT !.todo = rest]
               r2 == [req[w] EXCEPT !.todo = {}, !.seen = {}]
    <2>1. LocalOK(DOMAIN heap, "resolved", r1) /\ LocalOK(DOMAIN heap, "authed", r2)
      BY <1>0, <1>4 DEF CheckRevocation, LocalOK, PCs, Requests, HasSubject, HasAgent, Tools
    <2>2. Reply(w) \/ Goto(w, "resolved", r1) \/ Goto(w, "authed", r2)
      BY <1>4 DEF CheckRevocation
    <2>3. UNCHANGED <<managerVars, tokenVars, historyVars>>
      BY <1>4 DEF CheckRevocation
    <2> QED BY <2>1, <2>2, <2>3, HandlerStep, ReplyStep
  <1>5. ASSUME NEW tool \in Calls \cap Tools, NEW key, handleToolsCall(w, tool, key)
        PROVE  TypeOK'
    <2>1. LocalOK(DOMAIN heap, tool, req[w])
      BY <1>0, <1>5 DEF handleToolsCall, LocalOK, PCs, HasSubject, HasAgent, Tools
    <2>2. /\ Reply(w) \/ Goto(w, tool, req[w])
          /\ UNCHANGED <<managerVars, tokenVars, historyVars>>
      BY <1>5 DEF handleToolsCall
    <2> QED BY <2>1, <2>2, HandlerStep, ReplyStep
  <1>6. CASE ResourceTool(w)
    BY <1>6, ReplyStep DEF ResourceTool
  <1>7. CASE Refuse(w)
    BY <1>7, ReplyStep DEF Refuse
  <1> QED BY <1>1, <1>2, <1>3, <1>4, <1>5, <1>6, <1>7

\* Rewriting a field of an allocated task keeps the heap well typed.
LEMMA UpdateOK ==
    ASSUME HeapOK, NEW t \in DOMAIN heap, NEW T \in Tasks,
           heap' = [heap EXCEPT ![t] = T], live' = live,
           T.root = heap[t].root, T.lineage = heap[t].lineage
    PROVE  HeapOK' /\ DOMAIN heap' = DOMAIN heap
  BY DEF HeapOK

\* Both mintings end in Minted, with a well-formed macaroon of a known agent.
LEMMA MintedOK ==
    ASSUME TypeOK, NEW w \in Workers, pc[w] = "mint",
           NEW mac \in Macaroons, mac.agent \in Agents, NEW oversize,
           Minted(w, mac, oversize), live' = live
    PROVE  HeapOK' /\ LocalsOK' /\ DOMAIN heap' = DOMAIN heap
  <1> DEFINE t == req[w].subject
             r == [req[w] EXCEPT !.mac = mac]
             T == [heap[t] EXCEPT !.digest = mac]
  <1>1. LocalOK(DOMAIN heap, "mint", req[w])
    BY LocalsAt
  <1>2. t \in DOMAIN heap /\ heap[t] \in Tasks
    BY <1>1 DEF LocalOK, HasSubject, TypeOK, HeapOK
  <1>3. CASE oversize
    <2>1. Goto(w, "unmint", req[w]) /\ heap' = heap
      BY <1>3 DEF Minted
    <2>2. LocalOK(DOMAIN heap', "unmint", req[w])
      BY <1>1, <2>1 DEF LocalOK, PCs, HasSubject, HasAgent, Tools
    <2>3. LocalsOK'
      BY <2>1, <2>2, LocalsStep DEF TypeOK
    <2> QED BY <2>1, <2>3 DEF TypeOK, HeapOK
  <1>4. CASE ~oversize
    <2>1. Goto(w, "register", r) /\ heap' = [heap EXCEPT ![t] = T]
      BY <1>4 DEF Minted
    <2>2. T \in Tasks /\ T.root = heap[t].root /\ T.lineage = heap[t].lineage
      BY <1>2 DEF Tasks
    <2>3. HeapOK' /\ DOMAIN heap' = DOMAIN heap
      BY <1>2, <2>1, <2>2, UpdateOK DEF TypeOK
    <2>4. LocalOK(DOMAIN heap', "register", r)
      BY <1>1, <2>3 DEF LocalOK, Requests, PCs, HasSubject, HasAgent, Tools
    <2>5. LocalsOK'
      BY <2>1, <2>3, <2>4, LocalsStep DEF TypeOK
    <2> QED BY <2>3, <2>5
  <1> QED BY <1>3, <1>4

\* The caveats that stand for an allocated task are a block.
LEMMA CaveatsForType ==
    ASSUME HeapOK, NEW t \in DOMAIN heap
    PROVE  CaveatsFor(t) \in Block
  <1>1. heap[t] \in Tasks
    BY DEF HeapOK
  <1>2. /\ heap[t].envelope \in Envelopes /\ heap[t].canDelegate \in BOOLEAN
        /\ MaxChildDepth - heap[t].depth \in Int /\ heap[t].expires \in Nat
    BY <1>1, ManagerAssumption DEF Tasks
  <1> QED BY <1>2, CaveatsType DEF CaveatsFor

LEMMA MintRootOK ==
    ASSUME TypeOK, NEW w \in Workers, NEW oversize, MintRootToken(w, oversize)
    PROVE  TypeOK'
  <1> DEFINE t == req[w].subject
             r == heap[t].root
             g == generations[r] + 1
             mac == MintRoot(r, g, req[w].agent, CaveatsFor(t))
             entry == [gen |-> g, maxExpiry |-> heap[t].expires]
  <1>1. LocalOK(DOMAIN heap, "mint", req[w]) /\ pc[w] = "mint"
    BY LocalsAt DEF MintRootToken
  <1>2. t \in DOMAIN heap /\ heap[t] \in Tasks /\ r \in DOMAIN heap /\ r \in Ids
    BY <1>1 DEF LocalOK, HasSubject, TypeOK, HeapOK
  <1>3. g \in Nat
    BY <1>2 DEF TypeOK, TablesOK
  <1>4. req[w].agent \in Agents
    BY <1>1 DEF LocalOK, HasAgent
  <1>5. CaveatsFor(t) \in Block
    BY <1>2, CaveatsForType DEF TypeOK
  <1>6. mac \in Macaroons
    BY <1>2, <1>3, <1>4, <1>5, MintRootType
  <1>7. mac.agent \in Agents
    BY <1>4 DEF MintRoot
  <1>8. HeapOK' /\ LocalsOK' /\ DOMAIN heap' = DOMAIN heap
    BY <1>1, <1>6, <1>7, MintedOK DEF MintRootToken
  <1>9. entry \in KeyEntries
    BY <1>2, <1>3 DEF KeyEntries, Tasks
  <1>10. keys' = Put(keys, r, entry) /\ generations' = [generations EXCEPT ![r] = g]
    BY DEF MintRootToken
  <1>11. DOMAIN keys' \subseteq DOMAIN heap /\ keys' \in [DOMAIN keys' -> KeyEntries]
    <2>1. keys \in [DOMAIN keys -> KeyEntries] /\ DOMAIN keys \subseteq DOMAIN heap
      BY DEF TypeOK, TablesOK
    <2> QED BY <1>2, <1>9, <1>10, <2>1 DEF Put
  <1>12. generations' \in [Ids -> Nat]
    BY <1>2, <1>3, <1>10 DEF TypeOK, TablesOK
  <1>13. UNCHANGED <<now, sigIndex, watermarks, issued, revoked, forgotten, extended>>
    BY DEF MintRootToken, historyVars
  <1>14. TablesOK'
    BY <1>8, <1>11, <1>12, <1>13 DEF TypeOK, TablesOK
  <1> QED BY <1>8, <1>13, <1>14 DEF TypeOK

LEMMA MintDelegatedOK ==
    ASSUME TypeOK, NEW w \in Workers, NEW oversize, MintDelegatedToken(w, oversize)
    PROVE  TypeOK'
  <1> DEFINE t == req[w].subject
             mac == MintDelegated(req[w].mac, CaveatsFor(t))
  <1>1. LocalOK(DOMAIN heap, "mint", req[w]) /\ pc[w] = "mint" /\ req[w].mac # NoMac
    BY LocalsAt DEF MintDelegatedToken
  <1>2. t \in DOMAIN heap /\ req[w].mac \in Macaroons /\ req[w].mac.agent \in Agents
    BY <1>1 DEF LocalOK, HasSubject, Requests
  <1>3. CaveatsFor(t) \in Block
    BY <1>2, CaveatsForType DEF TypeOK
  <1>4. mac \in Macaroons /\ mac.agent \in Agents
    BY <1>2, <1>3, MintDelegatedType
  <1>5. HeapOK' /\ LocalsOK' /\ DOMAIN heap' = DOMAIN heap
    BY <1>1, <1>4, MintedOK DEF MintDelegatedToken
  <1>6. /\ UNCHANGED <<now, sigIndex, watermarks, keys, generations, issued, revoked, forgotten>>
        /\ extended' \subseteq extended \cup {mac}
    BY DEF MintDelegatedToken, tokenVars
  <1>7. extended' \subseteq Macaroons
    BY <1>4, <1>6 DEF TypeOK, TablesOK
  <1>8. TablesOK'
    BY <1>5, <1>6, <1>7 DEF TypeOK, TablesOK
  <1> QED BY <1>5, <1>6, <1>8 DEF TypeOK

LEMMA AttenuateOK ==
    ASSUME TypeOK, NEW tok \in issued, NEW env \in HolderEnvs, Attenuate(tok, env)
    PROVE  TypeOK'
  <1> DEFINE b == Caveats(env, FALSE, 0, MaxTime)
             mac == MintDelegated(tok.mac, b)
  <1>1. b \in Block
    BY HolderBlockType
  <1>2. tok \in Token /\ tok.task \in DOMAIN heap
    BY DEF TypeOK, TablesOK
  <1>3. mac \in Macaroons /\ mac.agent \in Agents
    BY <1>1, <1>2, MintDelegatedType DEF Token
  <1>4. [tok EXCEPT !.mac = mac] \in Token /\ [tok EXCEPT !.mac = mac].task = tok.task
    BY <1>2, <1>3 DEF Token
  <1>5. /\ issued' = issued \cup {[tok EXCEPT !.mac = mac]} /\ extended' = extended \cup {mac}
        /\ UNCHANGED <<now, heap, live, sigIndex, watermarks, keys, generations, pc, req,
                       revoked, forgotten>>
    BY DEF Attenuate, managerVars
  <1> HIDE DEF mac
  <1>6. issued' \subseteq Token /\ \A x \in issued' : x.task \in DOMAIN heap
    BY <1>2, <1>4, <1>5 DEF TypeOK, TablesOK
  <1>7. TablesOK'
    BY <1>3, <1>5, <1>6 DEF TypeOK, TablesOK
  <1> QED BY <1>5, <1>7 DEF TypeOK, HeapOK, LocalsOK

LEMMA RegisterOK ==
    ASSUME TypeOK, NEW w \in Workers, RegisterToken(w)
    PROVE  TypeOK'
  <1> DEFINE m == req[w].mac
             t == req[w].subject
  <1>1. LocalOK(DOMAIN heap, "register", req[w])
    BY LocalsAt DEF RegisterToken
  <1>2. m \in Macaroons /\ m.agent \in Agents /\ t \in DOMAIN heap /\ t \in Ids
    BY <1>1 DEF LocalOK, Requests, HasSubject, TypeOK, HeapOK
  <1>3. /\ sigIndex' = Put(sigIndex, m, t)
        /\ issued' = issued \cup {[mac |-> m, task |-> t]}
        /\ Reply(w)
        /\ UNCHANGED <<now, heap, live, watermarks, keys, generations, revoked, forgotten,
                       extended>>
    BY DEF RegisterToken, RegisterSignature, historyVars
  <1>4. DOMAIN sigIndex' \subseteq Macaroons /\ sigIndex' \in [DOMAIN sigIndex' -> DOMAIN heap]
    <2>1. sigIndex \in [DOMAIN sigIndex -> DOMAIN heap] /\ DOMAIN sigIndex \subseteq Macaroons
      BY DEF TypeOK, TablesOK
    <2> QED BY <1>2, <1>3, <2>1 DEF Put
  <1>5. issued' \subseteq Token /\ \A tok \in issued' : tok.task \in DOMAIN heap
    <2>1. [mac |-> m, task |-> t] \in Token
      BY <1>2 DEF Token
    <2> QED BY <1>2, <1>3, <2>1 DEF TypeOK, TablesOK
  <1>6. LocalsOK'
    BY <1>3, ReplyOK DEF TypeOK
  <1>7. HeapOK' /\ TablesOK' /\ now' \in Nat
    BY <1>3, <1>4, <1>5 DEF TypeOK, HeapOK, TablesOK
  <1> QED BY <1>6, <1>7 DEF TypeOK

\* Steps that forget tasks and otherwise only move handlers.
LEMMA RemoveStep ==
    ASSUME TypeOK, NEW S, Remove(S), UNCHANGED <<now, tokenVars, historyVars>>, LocalsOK'
    PROVE  TypeOK'
  <1>1. heap' = heap
    BY DEF Remove
  <1>2. /\ HeapOK' /\ DOMAIN sigIndex' \subseteq DOMAIN sigIndex
        /\ sigIndex' \in [DOMAIN sigIndex' -> DOMAIN heap']
    BY RemoveOK DEF TypeOK
  <1>3. TablesOK'
    BY <1>1, <1>2 DEF TypeOK, TablesOK, tokenVars, historyVars
  <1> QED BY <1>2, <1>3 DEF TypeOK

LEMMA ForgetOK ==
    ASSUME TypeOK, NEW w \in Workers, AbandonTask(w) \/ RevokeFinish(w) \/ DashDelete(w)
    PROVE  TypeOK'
  <1>1. RevokeTask(req[w].subject) /\ UNCHANGED <<now, tokenVars, historyVars>> /\ heap' = heap
    BY DEF AbandonTask, RevokeFinish, DashDelete, RevokeTask, Remove
  <1>2. LocalsOK'
    <2>1. CASE Reply(w)
      BY <1>1, <2>1, ReplyOK DEF TypeOK
    <2>2. CASE DashDelete(w)
      <3>1. LocalOK(DOMAIN heap, "dashCascade", req[w])
        BY <2>2, LocalsAt DEF DashDelete, LocalOK, PCs, HasSubject, HasAgent, Tools
      <3> QED BY <1>1, <2>2, <3>1, LocalsStep DEF DashDelete, TypeOK
    <2> QED BY <2>1, <2>2 DEF AbandonTask, RevokeFinish
  <1> QED BY <1>1, <1>2, RemoveStep DEF RevokeTask

LEMMA BindOK ==
    ASSUME TypeOK, NEW w \in Workers,
           \/ \E id \in live : toolTaskBind(w, id)
           \/ \E key \in HolderKeys : BindKey(w, key)
    PROVE  TypeOK'
  <1>0. LocalOK(DOMAIN heap, pc[w], req[w])
    BY LocalsAt
  <1>1. ASSUME NEW id \in live, toolTaskBind(w, id)
        PROVE  TypeOK'
    <2> DEFINE r == [req[w] EXCEPT !.subject = id]
    <2>1. id \in DOMAIN heap /\ id \in Ids
      BY DEF TypeOK, HeapOK
    <2>2. LocalOK(DOMAIN heap, "bindKey", r)
      BY <1>0, <2>1 DEF LocalOK, Requests, PCs, HasSubject, HasAgent, Tools
    <2> QED BY <1>1, <2>2, HandlerStep DEF toolTaskBind
  <1>2. ASSUME NEW key \in HolderKeys, BindKey(w, key)
        PROVE  TypeOK'
    <2> DEFINE t == req[w].subject
               T == [heap[t] EXCEPT !.holder = key, !.bindDeadline = NoDeadline]
    <2>1. t \in DOMAIN heap /\ heap[t] \in Tasks
      BY <1>0, <1>2 DEF BindKey, LocalOK, HasSubject, TypeOK, HeapOK
    <2>2. /\ heap' = [heap EXCEPT ![t] = T] /\ live' = live /\ sigIndex' = sigIndex
          /\ Reply(w) /\ UNCHANGED <<now, tokenVars, historyVars>>
      BY <1>2, <2>1 DEF BindKey, BindHolderKey, TypeOK, HeapOK
    <2>3. T \in Tasks /\ T.root = heap[t].root /\ T.lineage = heap[t].lineage
      BY <2>1 DEF Tasks
    <2>4. HeapOK' /\ DOMAIN heap' = DOMAIN heap
      BY <2>1, <2>2, <2>3, UpdateOK DEF TypeOK
    <2>5. LocalsOK' /\ TablesOK'
      BY <2>2, <2>4, ReplyOK, TablesGrow DEF TypeOK
    <2> QED BY <2>2, <2>4, <2>5 DEF TypeOK
  <1> QED BY <1>1, <1>2

\* A watermark is set on an allocated task at the current time.
LEMMA WatermarkOK ==
    ASSUME TypeOK, NEW t \in DOMAIN heap, Watermark(t)
    PROVE  /\ DOMAIN watermarks' \subseteq DOMAIN heap
           /\ watermarks' \in [DOMAIN watermarks' -> Nat]
           /\ revoked' \subseteq DOMAIN heap
  <1>1. /\ watermarks \in [DOMAIN watermarks -> Nat] /\ DOMAIN watermarks \subseteq DOMAIN heap
        /\ revoked \subseteq DOMAIN heap /\ now \in Nat
    BY DEF TypeOK, TablesOK
  <1> QED BY <1>1 DEF Watermark, Put

LEMMA RevokeOK ==
    ASSUME TypeOK, NEW w \in Workers,
           \/ \E id \in live : toolTaskRevoke(w, id) \/ handleDashboardRevokeTask(w, id)
           \/ RevokeSnapshot(w)
           \/ DashFinish(w)
    PROVE  TypeOK'
  <1>0. LocalOK(DOMAIN heap, pc[w], req[w])
    BY LocalsAt
  <1>a. \A t, r : Descendants(t, r) \subseteq DOMAIN heap /\ Descendants(t, r) \subseteq Ids
    BY DEF Descendants, GetTaskTree, TypeOK, HeapOK
  <1>1. ASSUME NEW id \in live, toolTaskRevoke(w, id)
        PROVE  TypeOK'
    <2> DEFINE r == [req[w] EXCEPT !.subject = id]
    <2>1. id \in DOMAIN heap /\ id \in Ids
      BY DEF TypeOK, HeapOK
    <2>2. LocalOK(DOMAIN heap, "watermark", r)
      BY <1>0, <2>1 DEF LocalOK, Requests, PCs, HasSubject, HasAgent, Tools
    <2> QED BY <1>1, <2>2, HandlerStep DEF toolTaskRevoke
  <1>2. ASSUME NEW id \in live, handleDashboardRevokeTask(w, id)
        PROVE  TypeOK'
    <2> DEFINE r == [NoReq EXCEPT !.subject = id, !.todo = Descendants(id, heap[id].root)]
    <2>1. id \in DOMAIN heap /\ id \in Ids
      BY DEF TypeOK, HeapOK
    <2>2. LocalOK(DOMAIN heap, "dashWatermark", r)
      BY <1>a, <2>1, NoReqType
         DEF LocalOK, Requests, NoReq, PCs, HasSubject, HasAgent, Tools
    <2> QED BY <1>2, <2>2, HandlerStep DEF handleDashboardRevokeTask
  <1>3. CASE RevokeSnapshot(w)
    <2> DEFINE t == req[w].subject
               r == [req[w] EXCEPT !.todo = Descendants(t, heap[t].root)]
    <2>1. LocalOK(DOMAIN heap, "cascade", r)
      BY <1>0, <1>a, <1>3
         DEF RevokeSnapshot, LocalOK, Requests, PCs, HasSubject, HasAgent, Tools
    <2> QED BY <1>3, <2>1, HandlerStep DEF RevokeSnapshot
  <1>4. CASE DashFinish(w)
    BY <1>4, ReplyStep DEF DashFinish
  <1> QED BY <1>1, <1>2, <1>3, <1>4

LEMMA RevokeWatermarkOK ==
    ASSUME TypeOK, NEW w \in Workers, RevokeWatermark(w) \/ DashWatermark(w)
    PROVE  TypeOK'
  <1>0. LocalOK(DOMAIN heap, pc[w], req[w])
    BY LocalsAt
  <1>1. /\ req[w].subject \in DOMAIN heap
        /\ \E p \in {"unkey", "dashDelete"} : Goto(w, p, req[w]) /\ LocalOK(DOMAIN heap, p, req[w])
    BY <1>0 DEF RevokeWatermark, DashWatermark, LocalOK, PCs, HasSubject, HasAgent, Tools
  <1>2. /\ Watermark(req[w].subject)
        /\ UNCHANGED <<now, heap, live, sigIndex, keys, generations, issued, forgotten, extended>>
    BY DEF RevokeWatermark, DashWatermark, managerVars
  <1>3. LocalsOK'
    BY <1>1, <1>2, LocalsStep DEF TypeOK
  <1>4. TablesOK'
    BY <1>1, <1>2, WatermarkOK DEF TypeOK, TablesOK
  <1> QED BY <1>2, <1>3, <1>4 DEF TypeOK, HeapOK

LEMMA RevokeKeyOK ==
    ASSUME TypeOK, NEW w \in Workers, RevokeKey(w)
    PROVE  TypeOK'
  <1> DEFINE t == req[w].subject
             D == DOMAIN keys \ {r \in {t} : heap[t].root = r}
  <1>1. LocalOK(DOMAIN heap, "snapshot", req[w])
    BY LocalsAt DEF RevokeKey, LocalOK, PCs, HasSubject, HasAgent, Tools
  <1>2. /\ keys' = Restrict(keys, D) /\ Goto(w, "snapshot", req[w])
        /\ UNCHANGED <<now, heap, live, sigIndex, watermarks, generations, issued,
                       revoked, forgotten, extended>>
    BY DEF RevokeKey, managerVars, historyVars
  <1>3. LocalsOK'
    BY <1>1, <1>2, LocalsStep DEF TypeOK
  <1>4. keys \in [DOMAIN keys -> KeyEntries] /\ DOMAIN keys \subseteq DOMAIN heap
    BY DEF TypeOK, TablesOK
  <1>5. DOMAIN keys' \subseteq DOMAIN heap /\ keys' \in [DOMAIN keys' -> KeyEntries]
    BY <1>2, <1>4 DEF Restrict
  <1>6. TablesOK'
    BY <1>2, <1>5 DEF TypeOK, TablesOK
  <1> QED BY <1>2, <1>3, <1>6 DEF TypeOK, HeapOK

LEMMA CascadeOK ==
    ASSUME TypeOK, NEW w \in Workers, NEW c, CascadeChild(w, c),
           pc[w] \in {"cascade", "dashCascade"}
    PROVE  TypeOK'
  <1> DEFINE r == [req[w] EXCEPT !.todo = @ \ {c}]
  <1>1. LocalOK(DOMAIN heap, pc[w], req[w])
    BY LocalsAt
  <1>2. c \in DOMAIN heap /\ Watermark(c) /\ Remove({c}) /\ Goto(w, pc[w], r) /\ heap' = heap
    BY <1>1 DEF CascadeChild, IsNext, LocalOK, RevokeTask, Remove
  <1>3. LocalOK(DOMAIN heap, pc[w], r)
    BY <1>1 DEF LocalOK, Requests
  <1>4. LocalsOK'
    BY <1>2, <1>3, LocalsStep DEF TypeOK
  <1>5. UNCHANGED <<now, keys, generations, issued, forgotten, extended>>
    BY DEF CascadeChild
  <1>6. /\ HeapOK' /\ DOMAIN sigIndex' \subseteq DOMAIN sigIndex
        /\ sigIndex' \in [DOMAIN sigIndex' -> DOMAIN heap']
    BY <1>2, RemoveOK DEF TypeOK
  <1>7. TablesOK'
    BY <1>2, <1>5, <1>6, WatermarkOK DEF TypeOK, TablesOK
  <1> QED BY <1>4, <1>5, <1>6, <1>7 DEF TypeOK

LEMMA IdleLocalsOK ==
    ASSUME pc' = [w \in Workers |-> "idle"], req' = [w \in Workers |-> NoReq]
    PROVE  LocalsOK'
  <1>1. LocalOK(DOMAIN heap', "idle", NoReq)
    BY NoReqType DEF LocalOK, NoReq, PCs, HasSubject, HasAgent, Tools
  <1> QED BY <1>1 DEF LocalsOK

LEMMA BackgroundOK ==
    ASSUME TypeOK, Background \/ Clock \/ Restart
    PROVE  TypeOK'
  <1>0. /\ watermarks \in [DOMAIN watermarks -> Nat] /\ DOMAIN watermarks \subseteq DOMAIN heap
        /\ keys \in [DOMAIN keys -> KeyEntries] /\ DOMAIN keys \subseteq DOMAIN heap
    BY DEF TypeOK, TablesOK
  <1>1. CASE CleanupTasks
    <2>1. Remove(Overdue) /\ UNCHANGED <<now, tokenVars, pc, req, historyVars>> /\ heap' = heap
      BY <1>1 DEF CleanupTasks, cleanup, Remove
    <2>2. LocalsOK'
      BY <2>1 DEF TypeOK, LocalsOK
    <2> QED BY <2>1, <2>2, RemoveStep
  <1>2. CASE gc
    <2>1. DOMAIN watermarks' \subseteq DOMAIN heap /\ watermarks' \in [DOMAIN watermarks' -> Nat]
      BY <1>0, <1>2 DEF gc, Restrict
    <2>2. UNCHANGED <<now, heap, live, sigIndex, keys, generations, issued, pc, req,
                      revoked, forgotten, extended>>
      BY <1>2 DEF gc, managerVars, historyVars
    <2> QED BY <2>1, <2>2 DEF TypeOK, HeapOK, TablesOK, LocalsOK
  <1>3. CASE CleanupKeys
    <2>1. DOMAIN keys' \subseteq DOMAIN heap /\ keys' \in [DOMAIN keys' -> KeyEntries]
      BY <1>0, <1>3 DEF CleanupKeys, Restrict
    <2>2. UNCHANGED <<now, heap, live, sigIndex, watermarks, generations, issued, pc, req,
                      revoked, forgotten, extended>>
      BY <1>3 DEF CleanupKeys, managerVars, historyVars
    <2> QED BY <2>1, <2>2 DEF TypeOK, HeapOK, TablesOK, LocalsOK
  <1>4. CASE Clock
    <2>1. now' \in Nat /\ UNCHANGED <<heap, live, sigIndex, tokenVars, pc, req, historyVars>>
      BY <1>4 DEF Clock, Tick, TypeOK
    <2> QED BY <2>1 DEF TypeOK, HeapOK, TablesOK, LocalsOK, tokenVars, historyVars
  <1>5. CASE Restart
    <2>1. LocalsOK'
      BY <1>5, IdleLocalsOK DEF Restart
    <2>2. /\ live' = {} /\ sigIndex' = EmptyMap /\ watermarks' = EmptyMap /\ keys' = EmptyMap
          /\ revoked' = {} /\ forgotten' = DOMAIN heap
          /\ UNCHANGED <<now, heap, generations, issued, extended>>
      BY <1>5 DEF Restart
    <2>3. HeapOK'
      BY <2>2 DEF TypeOK, HeapOK
    <2>4. TablesOK'
      BY <2>2 DEF TypeOK, TablesOK, EmptyMap
    <2> QED BY <2>1, <2>2, <2>3, <2>4 DEF TypeOK
  <1> QED BY <1>1, <1>2, <1>3, <1>4, <1>5 DEF Background

LEMMA TypeInit == Init => TypeOK
  <1> SUFFICES ASSUME Init PROVE TypeOK
    OBVIOUS
  <1>1. LocalOK(DOMAIN heap, "idle", NoReq)
    BY NoReqType DEF LocalOK, NoReq, PCs, HasSubject, HasAgent, Tools
  <1>2. LocalsOK
    BY <1>1 DEF Init, LocalsOK
  <1>3. HeapOK /\ TablesOK /\ now \in Nat
    BY DEF Init, ManagerInit, EmptyMap, HeapOK, TablesOK
  <1> QED BY <1>2, <1>3 DEF TypeOK

LEMMA TypeStep == TypeOK /\ [Next]_vars => TypeOK'
  <1> SUFFICES ASSUME TypeOK, [Next]_vars PROVE TypeOK'
    OBVIOUS
  <1>1. ASSUME NEW w \in Workers, Arrive(w)
        PROVE  TypeOK'
    BY <1>1, AuthOK, RevokeOK DEF Arrive
  <1>2. ASSUME NEW w \in Workers, Handle(w)
        PROVE  TypeOK'
    <2>1. ASSUME NEW id \in Ids, NEW ttl \in TTLs, NEW cd \in DelegateFlags,
                 NEW key \in HolderKeys \cup {NoKey}, toolTaskCreate(w, id, ttl, cd, key)
          PROVE  TypeOK'
      BY <2>1, CreateOK, RequestAssumption
    <2>2. ASSUME NEW id \in Ids, NEW p \in live, NEW ttl \in TTLs, NEW cd \in DelegateFlags,
                 toolTaskDelegateInherit(w, id, p, ttl, cd)
          PROVE  TypeOK'
      <3>1. heap[p].envelope \in Envelopes
        BY DEF TypeOK, HeapOK, Tasks
      <3> QED BY <2>2, <3>1, DelegateOK, RequestAssumption DEF toolTaskDelegateInherit
    <2>3. ASSUME NEW id \in Ids, NEW p \in live, NEW ttl \in TTLs, NEW cd \in DelegateFlags,
                 NEW env \in RequestEnvs, toolTaskDelegate(w, id, p, ttl, env, cd)
          PROVE  TypeOK'
      <3>1. Constrain(env, w) \in Envelopes
        BY ConstrainType, RequestAssumption
      <3> QED BY <2>3, <3>1, DelegateOK, RequestAssumption DEF toolTaskDelegate
    <2>4. CASE \E c \in Ids : RevokeChild(w, c) \/ DashChild(w, c)
      BY <2>4, CascadeOK DEF RevokeChild, DashChild
    <2>5. CASE \E oversize \in MayOverflow :
                  MintRootToken(w, oversize) \/ MintDelegatedToken(w, oversize)
      BY <2>5, MintRootOK, MintDelegatedOK
    <2>6. CASE \/ LookupTask(w)
               \/ \E c \in Ids : CheckRevocation(w, c)
               \/ \E tool \in Calls \cap Tools, key \in HolderKeys \cup {NoKey} :
                     handleToolsCall(w, tool, key)
               \/ ResourceTool(w)
               \/ Refuse(w)
      BY <2>6, AuthOK
    <2>7. CASE \/ \E id \in live : toolTaskBind(w, id)
               \/ \E key \in HolderKeys : BindKey(w, key)
      BY <2>7, BindOK
    <2>8. CASE (\E id \in live : toolTaskRevoke(w, id)) \/ RevokeSnapshot(w) \/ DashFinish(w)
      BY <2>8, RevokeOK
    <2>9. CASE RegisterToken(w) \/ RevokeKey(w) \/ RevokeWatermark(w) \/ DashWatermark(w)
      BY <2>9, RegisterOK, RevokeKeyOK, RevokeWatermarkOK
    <2>10. CASE AbandonTask(w) \/ RevokeFinish(w) \/ DashDelete(w)
      BY <2>10, ForgetOK
    <2> QED BY <1>2, <2>1, <2>2, <2>3, <2>4, <2>5, <2>6, <2>7, <2>8, <2>9, <2>10 DEF Handle
  <1>3. CASE Background \/ Clock \/ Restart
    BY <1>3, BackgroundOK
  <1>4. CASE UNCHANGED vars
    BY <1>4 DEF vars, managerVars, tokenVars, historyVars,
                TypeOK, HeapOK, TablesOK, LocalsOK
  <1>5. CASE Holders
    BY <1>5, AttenuateOK DEF Holders
  <1> QED BY <1>1, <1>2, <1>3, <1>4, <1>5 DEF Next

\* Type correctness: every table and every handler's locals name allocated
\* tasks only, however requests, background loops and restarts interleave.
THEOREM TypeCorrect == Spec => []TypeOK
  BY TypeInit, TypeStep, PTL DEF Spec

-----------------------------------------------------------------------------
(* Safety: delegation attenuates authority, a revocation cannot be         *)
(* outlived, and tokens live and die with their root key.  StepShape and   *)
(* LocalShape say once what a step may do to the task objects, the         *)
(* watermarks and the handlers' locals; the invariants are then proved     *)
(* from these few shapes instead of from every action.                     *)

\* The fields no code writes after the Task object was built.
SameTask(s, t) ==
    /\ s.root = t.root /\ s.agent = t.agent /\ s.lineage = t.lineage
    /\ s.created = t.created /\ s.expires = t.expires /\ s.envelope = t.envelope
    /\ s.depth = t.depth /\ s.parent = t.parent /\ s.canDelegate = t.canDelegate

HeapKept == /\ DOMAIN heap' = DOMAIN heap
            /\ \A t \in DOMAIN heap : SameTask(heap[t], heap'[t])

Added(id, T) == /\ id \notin DOMAIN heap
                /\ DOMAIN heap' = DOMAIN heap \cup {id}
                /\ heap'[id] = T
                /\ \A t \in DOMAIN heap : heap'[t] = heap[t]

\* One new root task, or one new child that CreateChildTask let through.
Rooted ==
    \E id \in Ids, agent \in Agents, ttl \in Nat, env \in Envelopes,
       cd \in BOOLEAN, key \in HolderKeys \cup {NoKey} :
          ttl <= MaxTaskTTL /\ Added(id, NewRoot(id, agent, ttl, env, cd, key))

Delegated ==
    \E id \in Ids, p \in DOMAIN heap, agent \in Agents, ttl \in Nat, env \in Envelopes,
       cd \in BOOLEAN :
          MayCreateChild(p, agent, ttl, env) /\ Added(id, NewChild(id, p, agent, ttl, env, cd))

Quiet == UNCHANGED <<now, watermarks, revoked>>
Marked == (\E t \in DOMAIN heap : Watermark(t)) /\ UNCHANGED <<now, heap>>
Ticked == now' = now + 1 /\ UNCHANGED <<heap, watermarks, revoked>>
Restarted == /\ revoked' = {} /\ watermarks' = EmptyMap /\ UNCHANGED <<now, heap>>
             /\ \A w \in Workers : pc'[w] = "idle" /\ req'[w] = NoReq

\* Everything a step may do to tasks, watermarks and the clock.
Shape == \/ HeapKept /\ Quiet
         \/ Rooted /\ Quiet
         \/ Delegated /\ Quiet
         \/ Marked
         \/ gc
         \/ Ticked
         \/ Restarted

LEMMA SameHeap == ASSUME heap' = heap PROVE HeapKept
  BY DEF HeapKept, SameTask

LEMMA UpdatedHeap ==
    ASSUME TypeOK, NEW t \in DOMAIN heap, NEW T, SameTask(heap[t], T),
           heap' = [heap EXCEPT ![t] = T]
    PROVE  HeapKept
  <1>1. DOMAIN heap' = DOMAIN heap /\ heap'[t] = T
    BY DEF TypeOK, HeapOK
  <1>2. \A u \in DOMAIN heap : u # t => heap'[u] = heap[u]
    BY DEF TypeOK, HeapOK
  <1> QED BY <1>1, <1>2 DEF HeapKept, SameTask

LEMMA MintedKeeps ==
    ASSUME TypeOK, NEW w \in Workers, pc[w] = "mint", NEW mac, NEW oversize,
           Minted(w, mac, oversize)
    PROVE  HeapKept
  <1> DEFINE t == req[w].subject
             T == [heap[t] EXCEPT !.digest = mac]
  <1>1. CASE oversize
    BY <1>1, SameHeap DEF Minted
  <1>2. CASE ~oversize
    <2>1. t \in DOMAIN heap /\ heap[t] \in Tasks
      BY LocalsAt DEF LocalOK, HasSubject, TypeOK, HeapOK
    <2>2. heap' = [heap EXCEPT ![t] = T]
      BY <1>2 DEF Minted
    <2>3. SameTask(heap[t], T)
      BY <2>1 DEF SameTask, Tasks
    <2> QED BY <2>1, <2>2, <2>3, UpdatedHeap
  <1> QED BY <1>1, <1>2

LEMMA BindKeeps ==
    ASSUME TypeOK, NEW w \in Workers, NEW key \in HolderKeys, BindKey(w, key)
    PROVE  HeapKept
  <1> DEFINE t == req[w].subject
             T == [heap[t] EXCEPT !.holder = key, !.bindDeadline = NoDeadline]
  <1>1. t \in DOMAIN heap /\ heap[t] \in Tasks
    BY LocalsAt DEF BindKey, LocalOK, HasSubject, TypeOK, HeapOK
  <1>2. heap' = [heap EXCEPT ![t] = T]
    BY <1>1 DEF BindKey, BindHolderKey, TypeOK, HeapOK
  <1>3. SameTask(heap[t], T)
    BY <1>1 DEF SameTask, Tasks
  <1> QED BY <1>1, <1>2, <1>3, UpdatedHeap

LEMMA PutAdds ==
    ASSUME TypeOK, NEW id, NEW T, id \notin DOMAIN heap, heap' = Put(heap, id, T)
    PROVE  Added(id, T)
  BY DEF Added, Put

LEMMA CreateShape ==
    ASSUME TypeOK, NEW w \in Workers, NEW id \in Ids, NEW ttl \in TTLs,
           NEW cd \in BOOLEAN, NEW key \in HolderKeys \cup {NoKey},
           toolTaskCreate(w, id, ttl, cd, key)
    PROVE  Rooted /\ Quiet
  <1> DEFINE env == Constrain(Policy[req[w].agent], w)
  <1>1. req[w].agent \in Agents
    BY LocalsAt DEF toolTaskCreate, LocalOK, HasAgent, Tools
  <1>2. env \in Envelopes
    BY <1>1, ConstrainType, RequestAssumption
  <1>3. Added(id, NewRoot(id, req[w].agent, ttl, env, cd, key))
    BY PutAdds DEF toolTaskCreate, CreateTask, IsNewULID
  <1>a. ttl \in Nat /\ ttl <= MaxTaskTTL
    BY RequestAssumption DEF toolTaskCreate
  <1>4. Rooted
    BY <1>1, <1>2, <1>3, <1>a DEF Rooted
  <1> QED BY <1>4 DEF toolTaskCreate, Quiet, tokenVars, historyVars

LEMMA DelegateShape ==
    ASSUME TypeOK, NEW w \in Workers, NEW id \in Ids, NEW p \in live, NEW ttl \in TTLs,
           NEW env \in Envelopes, NEW cd \in BOOLEAN,
           Delegate(w, id, p, ttl, env, cd)
    PROVE  Delegated /\ Quiet
  <1>1. req[w].agent \in Agents
    BY LocalsAt DEF Delegate, LocalOK, HasAgent, Tools
  <1>2. p \in DOMAIN heap
    BY DEF TypeOK, HeapOK
  <1>3. /\ MayCreateChild(p, req[w].agent, ttl, env)
        /\ Added(id, NewChild(id, p, req[w].agent, ttl, env, cd))
    BY PutAdds DEF Delegate, CreateChildTask, IsNewULID
  <1>4. Delegated
    BY <1>1, <1>2, <1>3, RequestAssumption DEF Delegated
  <1> QED BY <1>4 DEF Delegate, Quiet, tokenVars, historyVars

\* The steps that touch no task field, no watermark and not the clock.
LEMMA QuietSteps ==
    ASSUME heap' = heap, UNCHANGED <<now, watermarks, revoked>>
    PROVE  Shape
  BY SameHeap DEF Shape, Quiet

LEMMA StepShape ==
    ASSUME TypeOK, [Next]_vars
    PROVE  Shape
  <1>1. ASSUME NEW w \in Workers, Arrive(w)
        PROVE  Shape
    <2>1. heap' = heap /\ UNCHANGED <<now, watermarks, revoked>>
      BY <1>1 DEF Arrive, AuthenticateKey, VerifyMacaroon, handleDashboardRevokeTask,
                  managerVars, tokenVars, historyVars
    <2> QED BY <2>1, QuietSteps
  <1>2. ASSUME NEW w \in Workers, Handle(w)
        PROVE  Shape
    <2>1. ASSUME NEW id \in Ids, NEW ttl \in TTLs, NEW cd \in DelegateFlags,
                 NEW key \in HolderKeys \cup {NoKey}, toolTaskCreate(w, id, ttl, cd, key)
          PROVE  Shape
      BY <2>1, CreateShape, RequestAssumption DEF Shape
    <2>2. ASSUME NEW id \in Ids, NEW p \in live, NEW ttl \in TTLs, NEW cd \in DelegateFlags,
                 toolTaskDelegateInherit(w, id, p, ttl, cd)
          PROVE  Shape
      <3>1. heap[p].envelope \in Envelopes
        BY DEF TypeOK, HeapOK, Tasks
      <3> QED BY <2>2, <3>1, DelegateShape, RequestAssumption DEF toolTaskDelegateInherit, Shape
    <2>3. ASSUME NEW id \in Ids, NEW p \in live, NEW ttl \in TTLs, NEW cd \in DelegateFlags,
                 NEW env \in RequestEnvs, toolTaskDelegate(w, id, p, ttl, env, cd)
          PROVE  Shape
      <3>1. Constrain(env, w) \in Envelopes
        BY ConstrainType, RequestAssumption
      <3> QED BY <2>3, <3>1, DelegateShape, RequestAssumption DEF toolTaskDelegate, Shape
    <2>4. ASSUME NEW c \in Ids, RevokeChild(w, c) \/ DashChild(w, c)
          PROVE  Shape
      <3>1. c \in DOMAIN heap
        BY <2>4, LocalsAt DEF RevokeChild, DashChild, CascadeChild, IsNext, LocalOK
      <3>2. Watermark(c) /\ UNCHANGED <<now, heap>>
        BY <2>4 DEF RevokeChild, DashChild, CascadeChild, RevokeTask, Remove
      <3> QED BY <3>1, <3>2 DEF Shape, Marked
    <2>5. CASE \E oversize \in MayOverflow :
                  MintRootToken(w, oversize) \/ MintDelegatedToken(w, oversize)
      <3>1. HeapKept
        BY <2>5, MintedKeeps DEF MintRootToken, MintDelegatedToken
      <3>2. Quiet
        BY <2>5 DEF MintRootToken, MintDelegatedToken, Quiet, tokenVars, historyVars
      <3> QED BY <3>1, <3>2 DEF Shape
    <2>6. CASE \/ LookupTask(w)
               \/ \E c \in Ids : CheckRevocation(w, c)
               \/ \E tool \in Calls \cap Tools, key \in HolderKeys \cup {NoKey} :
                     handleToolsCall(w, tool, key)
               \/ ResourceTool(w)
               \/ Refuse(w)
               \/ \E id \in live : toolTaskBind(w, id)
               \/ \E id \in live : toolTaskRevoke(w, id)
               \/ RevokeSnapshot(w)
               \/ DashFinish(w)
      <3>1. heap' = heap /\ UNCHANGED <<now, watermarks, revoked>>
        BY <2>6 DEF LookupTask, CheckRevocation, handleToolsCall, ResourceTool, Refuse,
                    toolTaskBind, toolTaskRevoke, RevokeSnapshot, DashFinish,
                    managerVars, tokenVars, historyVars
      <3> QED BY <3>1, QuietSteps
    <2>7. CASE \E key \in HolderKeys : BindKey(w, key)
      <3>1. HeapKept
        BY <2>7, BindKeeps
      <3>2. Quiet
        BY <2>7 DEF BindKey, Quiet, tokenVars, historyVars
      <3> QED BY <3>1, <3>2 DEF Shape
    <2>8. CASE RegisterToken(w) \/ RevokeKey(w) \/ AbandonTask(w) \/ RevokeFinish(w) \/ DashDelete(w)
      <3>1. heap' = heap /\ UNCHANGED <<now, watermarks, revoked>>
        BY <2>8 DEF RegisterToken, RevokeKey, AbandonTask, RevokeFinish, DashDelete,
                    RevokeTask, Remove, managerVars, tokenVars, historyVars
      <3> QED BY <3>1, QuietSteps
    <2>9. CASE RevokeWatermark(w) \/ DashWatermark(w)
      <3>1. req[w].subject \in DOMAIN heap
        BY <2>9, LocalsAt DEF RevokeWatermark, DashWatermark, LocalOK, HasSubject
      <3>2. Watermark(req[w].subject) /\ UNCHANGED <<now, heap>>
        BY <2>9 DEF RevokeWatermark, DashWatermark, managerVars
      <3> QED BY <3>1, <3>2 DEF Shape, Marked
    <2> QED BY <1>2, <2>1, <2>2, <2>3, <2>4, <2>5, <2>6, <2>7, <2>8, <2>9 DEF Handle
  <1>3. CASE Background
    <2>1. CASE CleanupTasks
      BY <2>1, SameHeap DEF CleanupTasks, cleanup, Remove, Shape, Quiet, tokenVars, historyVars
    <2>2. CASE CleanupKeys
      BY <2>2, SameHeap DEF CleanupKeys, Shape, Quiet, managerVars, historyVars
    <2> QED BY <1>3, <2>1, <2>2 DEF Background, Shape
  <1>4. CASE Clock
    BY <1>4 DEF Clock, Tick, Shape, Ticked, tokenVars, historyVars
  <1>5. CASE Restart
    BY <1>5 DEF Restart, Shape, Restarted
  <1>6. CASE UNCHANGED vars
    BY <1>6, SameHeap DEF vars, managerVars, tokenVars, historyVars, Shape, Quiet
  <1>7. CASE Holders
    BY <1>7, QuietSteps DEF Holders, Attenuate, managerVars
  <1> QED BY <1>1, <1>2, <1>3, <1>4, <1>5, <1>6, <1>7 DEF Next

\* In every shape tasks keep their fields and only Rooted and Delegated add one.
LEMMA ShapeKeeps ==
    ASSUME TypeOK, Shape
    PROVE  /\ DOMAIN heap \subseteq DOMAIN heap'
           /\ \A t \in DOMAIN heap : SameTask(heap[t], heap'[t])
           /\ now' \in {now, now + 1}
  <1>1. CASE HeapKept /\ Quiet
    BY <1>1 DEF HeapKept, Quiet
  <1>2. CASE Rooted /\ Quiet
    BY <1>2 DEF Rooted, Added, Quiet, SameTask
  <1>3. CASE Delegated /\ Quiet
    BY <1>3 DEF Delegated, Added, Quiet, SameTask
  <1>4. CASE heap' = heap /\ now' \in {now, now + 1}
    BY <1>4 DEF SameTask
  <1> QED BY <1>1, <1>2, <1>3, <1>4 DEF Shape, Marked, gc, Ticked, Restarted, managerVars

-----------------------------------------------------------------------------
(* Delegation. *)

LEMMA AttenuatesInit == Init => DelegationAttenuates
  BY DEF Init, ManagerInit, EmptyMap, DelegationAttenuates

\* One ancestor of one task.
Attenuated(t, a) ==
    /\ a \in DOMAIN heap
    /\ heap[a].root = heap[t].root
    /\ heap[a].agent = heap[t].agent
    /\ heap[t].expires <= heap[a].expires
    /\ Within(heap[t].envelope, heap[a].envelope)

LEMMA AttenuatesStep ==
    ASSUME TypeOK, TypeOK', DelegationAttenuates, Shape
    PROVE  DelegationAttenuates'
  <1>0. \A t \in DOMAIN heap : \A a \in heap[t].lineage : Attenuated(t, a)
    BY DEF DelegationAttenuates, Attenuated
  <1>k. /\ DOMAIN heap \subseteq DOMAIN heap'
        /\ \A t \in DOMAIN heap : SameTask(heap[t], heap'[t])
    BY ShapeKeeps
  <1>1. ASSUME NEW t \in DOMAIN heap, NEW a \in heap'[t].lineage
        PROVE  Attenuated(t, a)'
    <2>1. a \in heap[t].lineage /\ Attenuated(t, a)
      BY <1>0, <1>k, <1>1 DEF SameTask
    <2>2. SameTask(heap[t], heap'[t]) /\ SameTask(heap[a], heap'[a])
      BY <1>k, <2>1 DEF Attenuated
    <2> QED BY <1>k, <2>1, <2>2 DEF Attenuated, SameTask
  <1>2. ASSUME NEW t \in DOMAIN heap' \ DOMAIN heap, NEW a \in heap'[t].lineage
        PROVE  Attenuated(t, a)'
    <2>1. CASE a = t
      <3>1. heap'[t].expires \in Nat
        BY <1>2 DEF TypeOK, HeapOK, Tasks
      <3> QED BY <1>2, <2>1, <3>1, WithinReflexive DEF Attenuated
    <2>2. CASE a # t
      <3>1. CASE Rooted
        <4>1. heap'[t].lineage = {t}
          BY <1>2, <3>1 DEF Rooted, Added, SameTask, NewRoot
        <4> QED BY <1>2, <2>2, <4>1
      <3>2. CASE Delegated
        <4>1. PICK p \in DOMAIN heap, agent \in Agents, ttl \in Nat, env \in Envelopes, cd \in BOOLEAN :
                 /\ MayCreateChild(p, agent, ttl, env)
                 /\ heap'[t] = NewChild(t, p, agent, ttl, env, cd)
          BY <1>2, <3>2 DEF Delegated, Added
        <4>2. /\ heap'[t].root = heap[p].root /\ heap'[t].agent = heap[p].agent
              /\ heap'[t].expires = now + ttl /\ heap'[t].envelope = env
              /\ heap'[t].lineage = heap[p].lineage \cup {t}
              /\ now + ttl <= heap[p].expires
              /\ IsSubsetOf(env, heap[p].envelope)
          BY <4>1 DEF MayCreateChild, NewChild
        <4>3. a \in heap[p].lineage /\ Attenuated(p, a)
          BY <1>0, <1>2, <2>2, <4>2
        <4>4. SameTask(heap[a], heap'[a]) /\ a \in DOMAIN heap'
          BY <1>k, <4>3 DEF Attenuated
        <4>5. heap[p] \in Tasks /\ heap[a] \in Tasks
          BY <4>3 DEF Attenuated, TypeOK, HeapOK
        <4>6. Within(env, heap[p].envelope)
          BY <4>2, <4>5, SubsetWithin DEF Tasks
        <4>7. Within(env, heap[a].envelope)
          BY <4>3, <4>6, WithinTransitive DEF Attenuated
        <4>8. now + ttl <= heap[a].expires
          BY <4>2, <4>3, <4>5 DEF Attenuated, Tasks, TypeOK
        <4> QED BY <4>2, <4>3, <4>4, <4>7, <4>8 DEF Attenuated, SameTask
      <3>3. Rooted \/ Delegated
        BY <1>2 DEF Shape, HeapKept, Marked, gc, Ticked, Restarted, managerVars
      <3> QED BY <3>1, <3>2, <3>3
    <2> QED BY <2>1, <2>2
  <1> QED BY <1>1, <1>2 DEF DelegationAttenuates, Attenuated

\* Delegation attenuates, whatever handlers interleave: along the lineage of
\* every task the agent and root are the same, lifetimes shrink and envelopes
\* permit no more (CreateChildTask).
THEOREM DelegationIsSafe == Spec => []DelegationAttenuates
  <1>1. TypeOK /\ TypeOK' /\ DelegationAttenuates /\ [Next]_vars => DelegationAttenuates'
    BY AttenuatesStep, StepShape
  <1> QED BY <1>1, AttenuatesInit, TypeCorrect, PTL DEF Spec

-----------------------------------------------------------------------------
(* The task table implements CapabilityTree. *)

\* No task that was there has its holder key changed, or one has a key bound.
HoldersKept == \A t \in DOMAIN heap \cap DOMAIN heap' : heap'[t].holder = heap[t].holder

Bound(t, key) ==
    /\ heap[t].holder \in {NoKey, key}
    /\ DOMAIN heap' = DOMAIN heap
    /\ heap'[t].holder = key
    /\ \A u \in DOMAIN heap : u # t => heap'[u].holder = heap[u].holder

LEMMA SameHolders == ASSUME heap' = heap PROVE HoldersKept
  BY DEF HoldersKept

LEMMA PutHolders ==
    ASSUME NEW id, NEW T, id \notin DOMAIN heap, heap' = Put(heap, id, T)
    PROVE  HoldersKept
  BY DEF HoldersKept, Put

LEMMA MintHolders ==
    ASSUME TypeOK, NEW w \in Workers, pc[w] = "mint", NEW mac, NEW oversize,
           Minted(w, mac, oversize)
    PROVE  HoldersKept
  <1> DEFINE t == req[w].subject
  <1>1. CASE oversize
    BY <1>1, SameHolders DEF Minted
  <1>2. CASE ~oversize
    <2>1. t \in DOMAIN heap /\ heap \in [DOMAIN heap -> Tasks]
      BY LocalsAt DEF LocalOK, HasSubject, TypeOK, HeapOK
    <2>2. heap' = [heap EXCEPT ![t].digest = mac]
      BY <1>2 DEF Minted
    <2>3. ASSUME NEW u \in DOMAIN heap PROVE heap'[u].holder = heap[u].holder
      BY <2>1, <2>2, <2>3 DEF Tasks
    <2> QED BY <2>3 DEF HoldersKept
  <1> QED BY <1>1, <1>2

LEMMA BindHolders ==
    ASSUME TypeOK, NEW w \in Workers, NEW key \in HolderKeys, BindKey(w, key)
    PROVE  \E t \in DOMAIN heap : Bound(t, key)
  <1> DEFINE t == req[w].subject
  <1>1. t \in DOMAIN heap /\ heap \in [DOMAIN heap -> Tasks]
    BY LocalsAt DEF BindKey, LocalOK, HasSubject, TypeOK, HeapOK
  <1>2. /\ heap' = [heap EXCEPT ![t].holder = key, ![t].bindDeadline = NoDeadline]
        /\ heap[t].holder \in {NoKey, key}
    BY DEF BindKey, BindHolderKey, MayBind
  <1>3. DOMAIN heap' = DOMAIN heap
    BY <1>1, <1>2
  <1>4. heap'[t].holder = key
    BY <1>1, <1>2 DEF Tasks
  <1>5. ASSUME NEW u \in DOMAIN heap, u # t PROVE heap'[u].holder = heap[u].holder
    BY <1>1, <1>2, <1>5
  <1> QED BY <1>1, <1>2, <1>3, <1>4, <1>5 DEF Bound

\* Everything a step may do to holder keys.
LEMMA StepHolders ==
    ASSUME TypeOK, [Next]_vars
    PROVE  HoldersKept \/ \E t \in DOMAIN heap, key \in HolderKeys : Bound(t, key)
  <1>1. ASSUME NEW w \in Workers, Arrive(w)
        PROVE  heap' = heap
    BY <1>1 DEF Arrive, AuthenticateKey, VerifyMacaroon, handleDashboardRevokeTask, managerVars
  <1>2. ASSUME NEW w \in Workers, Handle(w)
        PROVE  HoldersKept \/ \E t \in DOMAIN heap, key \in HolderKeys : Bound(t, key)
    <2>1. ASSUME NEW id \in Ids, NEW ttl \in TTLs, NEW cd \in DelegateFlags,
                 NEW key \in HolderKeys \cup {NoKey}, toolTaskCreate(w, id, ttl, cd, key)
          PROVE  HoldersKept
      BY <2>1, PutHolders DEF toolTaskCreate, CreateTask, IsNewULID
    <2>2. ASSUME NEW id \in Ids, NEW p \in live, NEW ttl \in TTLs, NEW cd \in DelegateFlags,
                 NEW env, Delegate(w, id, p, ttl, env, cd)
          PROVE  HoldersKept
      BY <2>2, PutHolders DEF Delegate, CreateChildTask, IsNewULID
    <2>3. ASSUME NEW id \in Ids, NEW p \in live, NEW ttl \in TTLs, NEW cd \in DelegateFlags,
                 \/ toolTaskDelegateInherit(w, id, p, ttl, cd)
                 \/ \E env \in RequestEnvs : toolTaskDelegate(w, id, p, ttl, env, cd)
          PROVE  HoldersKept
      BY <2>2, <2>3 DEF toolTaskDelegateInherit, toolTaskDelegate
    <2>4. CASE \E oversize \in MayOverflow :
                  MintRootToken(w, oversize) \/ MintDelegatedToken(w, oversize)
      BY <2>4, MintHolders DEF MintRootToken, MintDelegatedToken
    <2>5. CASE \E key \in HolderKeys : BindKey(w, key)
      BY <2>5, BindHolders
    <2>6. CASE \/ LookupTask(w)
               \/ \E c \in Ids : CheckRevocation(w, c)
               \/ \E tool \in Calls \cap Tools, key \in HolderKeys \cup {NoKey} :
                     handleToolsCall(w, tool, key)
               \/ ResourceTool(w)
               \/ Refuse(w)
               \/ \E id \in live : toolTaskBind(w, id)
               \/ \E id \in live : toolTaskRevoke(w, id)
               \/ RevokeSnapshot(w)
               \/ DashFinish(w)
      <3>1. heap' = heap
        BY <2>6 DEF LookupTask, CheckRevocation, handleToolsCall, ResourceTool, Refuse,
                    toolTaskBind, toolTaskRevoke, RevokeSnapshot, DashFinish, managerVars
      <3> QED BY <3>1, SameHolders
    <2>7. CASE \/ RegisterToken(w) \/ AbandonTask(w) \/ RevokeKey(w) \/ RevokeFinish(w)
               \/ RevokeWatermark(w) \/ DashWatermark(w) \/ DashDelete(w)
               \/ \E c \in Ids : RevokeChild(w, c) \/ DashChild(w, c)
      <3>1. heap' = heap
        BY <2>7 DEF RegisterToken, AbandonTask, RevokeKey, RevokeFinish, RevokeWatermark,
                    DashWatermark, DashDelete, RevokeChild, DashChild, CascadeChild,
                    RevokeTask, Remove, managerVars
      <3> QED BY <3>1, SameHolders
    <2> QED BY <1>2, <2>1, <2>3, <2>4, <2>5, <2>6, <2>7 DEF Handle
  <1>3. ASSUME Holders \/ Background \/ Clock \/ Restart \/ UNCHANGED vars
        PROVE  heap' = heap
    BY <1>3 DEF Holders, Attenuate, Background, CleanupTasks, cleanup, Remove, gc, CleanupKeys,
                Clock, Restart, vars, managerVars
  <1> QED BY <1>1, <1>2, <1>3, SameHolders DEF Next

\* The tree of the refinement, under the name of its mapping.
Forest == [t \in DOMAIN heap |-> Capability(heap[t])]

LEMMA ForestFacts ==
    /\ DOMAIN Forest = DOMAIN heap
    /\ \A t \in DOMAIN heap : Forest[t] = Capability(heap[t])
  BY DEF Forest

\* A task's capability is fixed by the fields that stay, but for its holder.
LEMMA SameCapability ==
    ASSUME NEW s, NEW t, SameTask(s, t)
    PROVE  Capability(t) = [Capability(s) EXCEPT !.holder = t.holder]
  <1>1. /\ s.parent = t.parent /\ s.agent = t.agent /\ s.depth = t.depth
        /\ s.lineage = t.lineage /\ s.expires = t.expires /\ s.canDelegate = t.canDelegate
        /\ s.envelope = t.envelope
    BY DEF SameTask
  <1>2. PICK P : P = [d \in Dims |-> Permits(s.envelope[d])]
    OBVIOUS
  <1>3. P = [d \in Dims |-> Permits(t.envelope[d])]
    BY <1>1, <1>2
  <1>4. Capability(s) = [parent |-> s.parent, agent |-> s.agent, depth |-> s.depth,
                         above |-> s.lineage, until |-> s.expires,
                         mayDelegate |-> s.canDelegate, permits |-> P, holder |-> s.holder]
    BY <1>2 DEF Capability
  <1>5. Capability(t) = [parent |-> t.parent, agent |-> t.agent, depth |-> t.depth,
                         above |-> t.lineage, until |-> t.expires,
                         mayDelegate |-> t.canDelegate, permits |-> P, holder |-> t.holder]
    BY <1>3 DEF Capability
  <1> QED BY <1>1, <1>4, <1>5

LEMMA EqualCapability ==
    ASSUME NEW s, NEW t, SameTask(s, t), t.holder = s.holder
    PROVE  Capability(t) = Capability(s)
  <1>1. Capability(t) = [Capability(s) EXCEPT !.holder = s.holder]
    BY SameCapability
  <1>2. PICK P : P = [d \in Dims |-> Permits(s.envelope[d])]
    OBVIOUS
  <1>3. Capability(s) = [parent |-> s.parent, agent |-> s.agent, depth |-> s.depth,
                         above |-> s.lineage, until |-> s.expires,
                         mayDelegate |-> s.canDelegate, permits |-> P, holder |-> s.holder]
    BY <1>2 DEF Capability
  <1>4. [Capability(s) EXCEPT !.holder = s.holder] = Capability(s)
    BY <1>3
  <1> QED BY <1>1, <1>4

\* A new task is a new node, and nothing else changes.
LEMMA ForestGrows ==
    ASSUME NEW id, NEW T, Added(id, T)
    PROVE  /\ Tree!Grows(id)
           /\ DOMAIN Forest' = DOMAIN heap' /\ Forest'[id] = Capability(T)
  <1>1. /\ DOMAIN Forest' = DOMAIN heap'
        /\ \A t \in DOMAIN heap' : Forest'[t] = Capability(heap'[t])
    BY DEF Forest
  <1>2. \A u \in DOMAIN heap : Forest'[u] = Forest[u]
    BY <1>1, ForestFacts DEF Added
  <1> QED BY <1>1, <1>2, ForestFacts DEF Added, Tree!Grows, Forest

LEMMA RootStep ==
    ASSUME Rooted
    PROVE  Tree!TNext
  <1>1. PICK id \in Ids, agent \in Agents, ttl \in Nat, env \in Envelopes,
             cd \in BOOLEAN, key \in HolderKeys \cup {NoKey} :
                Added(id, NewRoot(id, agent, ttl, env, cd, key))
    BY DEF Rooted
  <1>2. /\ Tree!Grows(id) /\ id \in DOMAIN Forest'
        /\ Forest'[id] = Capability(NewRoot(id, agent, ttl, env, cd, key))
    BY <1>1, ForestGrows DEF Added
  <1>3. /\ Forest'[id].parent = NoTask /\ Forest'[id].depth = 0 /\ Forest'[id].above = {id}
    BY <1>2 DEF Capability, NewRoot
  <1>4. Tree!Create(id)
    BY <1>2, <1>3 DEF Tree!Create, Forest
  <1> QED BY <1>2, <1>4 DEF Tree!TNext, Forest

LEMMA ChildStep ==
    ASSUME TypeOK, Delegated
    PROVE  Tree!TNext
  <1>1. PICK id \in Ids, p \in DOMAIN heap, agent \in Agents, ttl \in Nat, env \in Envelopes,
             cd \in BOOLEAN :
                MayCreateChild(p, agent, ttl, env) /\ Added(id, NewChild(id, p, agent, ttl, env, cd))
    BY DEF Delegated
  <1> DEFINE n == Forest'[id]
             q == Forest[p]
  <1>2. /\ Tree!Grows(id) /\ id \in DOMAIN Forest'
        /\ n = Capability(NewChild(id, p, agent, ttl, env, cd))
    BY <1>1, ForestGrows DEF Added
  <1>3. /\ n.parent = p /\ n.agent = agent /\ n.depth = heap[p].depth + 1
        /\ n.above = heap[p].lineage \cup {id} /\ n.until = now + ttl
        /\ n.permits = [d \in Dims |-> Permits(env[d])] /\ n.holder = NoKey
    BY <1>2 DEF Capability, NewChild
  <1>4. q = Capability(heap[p])
    BY ForestFacts
  <1>5. /\ q.agent = heap[p].agent /\ q.depth = heap[p].depth /\ q.above = heap[p].lineage
        /\ q.until = heap[p].expires /\ q.mayDelegate = heap[p].canDelegate
        /\ q.permits = [d \in Dims |-> Permits(heap[p].envelope[d])]
    BY <1>4 DEF Capability
  <1>6. /\ heap[p].agent = agent /\ heap[p].canDelegate
        /\ heap[p].depth + 1 <= MaxChildDepth /\ now + ttl <= heap[p].expires
        /\ IsSubsetOf(env, heap[p].envelope)
    BY <1>1 DEF MayCreateChild
  <1>7. \A d \in Dims : n.permits[d] \subseteq q.permits[d]
    <2>1. heap[p].envelope \in Envelopes
      BY DEF TypeOK, HeapOK, Tasks
    <2>2. Within(env, heap[p].envelope)
      BY <1>6, <2>1, SubsetWithin
    <2>3. ASSUME NEW d \in Dims PROVE Permits(env[d]) \subseteq Permits(heap[p].envelope[d])
      BY <2>2 DEF Within
    <2>4. ASSUME NEW d \in Dims
          PROVE  n.permits[d] = Permits(env[d]) /\ q.permits[d] = Permits(heap[p].envelope[d])
      BY <1>3, <1>5
    <2> QED BY <2>3, <2>4
  <1> HIDE DEF n, q
  <1>8. Tree!Delegate(p, id)
    BY <1>2, <1>3, <1>5, <1>6, <1>7 DEF Tree!Delegate, Forest, n, q
  <1>9. p \in DOMAIN Forest /\ id \in DOMAIN Forest'
    BY <1>2, ForestFacts
  <1> QED BY <1>8, <1>9 DEF Tree!TNext, Forest

\* A bound key is a step of the tree, or a stutter when it was bound already.
LEMMA BoundStep ==
    ASSUME NEW t \in DOMAIN heap, NEW key \in HolderKeys, HeapKept, Bound(t, key)
    PROVE  Tree!TNext \/ Forest' = Forest
  <1>1. /\ DOMAIN Forest' = DOMAIN heap
        /\ \A u \in DOMAIN heap : Forest'[u] = Capability(heap'[u])
    BY DEF Forest, Bound
  <1>2. ASSUME NEW u \in DOMAIN heap, u # t PROVE Forest'[u] = Forest[u]
    <2>1. SameTask(heap[u], heap'[u]) /\ heap'[u].holder = heap[u].holder
      BY <1>2 DEF HeapKept, Bound
    <2> QED BY <1>1, <2>1, EqualCapability, ForestFacts
  <1>3. Forest'[t] = [Forest[t] EXCEPT !.holder = key]
    <2>1. SameTask(heap[t], heap'[t]) /\ heap'[t].holder = key
      BY DEF HeapKept, Bound
    <2> QED BY <1>1, <2>1, SameCapability, ForestFacts
  <1>4. Forest[t].holder = heap[t].holder
    BY ForestFacts DEF Capability
  <1>5. CASE heap[t].holder = NoKey
    <2>1. Forest' = [Forest EXCEPT ![t].holder = key]
      BY <1>1, <1>2, <1>3, ForestFacts DEF Forest
    <2>2. Tree!Bind(t, key)
      BY <1>4, <1>5, <2>1 DEF Tree!Bind, Forest
    <2> QED BY <2>2, ForestFacts DEF Tree!TNext, Forest
  <1>6. CASE heap[t].holder = key
    <2>1. SameTask(heap[t], heap'[t]) /\ heap'[t].holder = heap[t].holder
      BY <1>6 DEF HeapKept, Bound
    <2>2. Forest'[t] = Forest[t]
      BY <1>1, <2>1, EqualCapability, ForestFacts
    <2> QED BY <1>1, <1>2, <2>2 DEF Forest
  <1> QED BY <1>5, <1>6 DEF Bound

LEMMA ForestKept ==
    ASSUME HeapKept, HoldersKept
    PROVE  Forest' = Forest
  <1>1. ASSUME NEW t \in DOMAIN heap PROVE Capability(heap'[t]) = Capability(heap[t])
    BY EqualCapability DEF HeapKept, HoldersKept
  <1> QED BY <1>1 DEF HeapKept, Forest

LEMMA TreeStep ==
    ASSUME TypeOK, Shape, HoldersKept \/ \E t \in DOMAIN heap, key \in HolderKeys : Bound(t, key)
    PROVE  Tree!TNext \/ Forest' = Forest
  <1>1. CASE HeapKept
    BY <1>1, ForestKept, BoundStep
  <1>2. CASE Rooted \/ Delegated
    BY <1>2, RootStep, ChildStep
  <1>3. CASE heap' = heap
    BY <1>3 DEF Forest
  <1> QED BY <1>1, <1>2, <1>3 DEF Shape, Marked, gc, Ticked, Restarted, managerVars

\* The task table implements the tree of capabilities, for any number of handlers:
\* what a task may do is fixed when it is made and lies within its parent's, depths
\* are bounded, and a holder key is bound once and never lost (CreateTask,
\* CreateChildTask, BindHolderKey).
THEOREM TasksImplementTree == Spec => TasksFormTree
  <1>1. Init => Tree!TInit
    BY DEF Init, ManagerInit, EmptyMap, Tree!TInit
  <1>2. TypeOK /\ [Next]_vars => [Tree!TNext]_[t \in DOMAIN heap |-> Capability(heap[t])]
    BY TreeStep, StepShape, StepHolders DEF Forest
  <1> QED BY <1>1, <1>2, TypeCorrect, PTL DEF Spec, TasksFormTree, Tree!TSpec

-----------------------------------------------------------------------------
(* Revocation. *)

\* The inductive part of RevokedStaysBlocked: a watermark is never older than its task,
\* so gc keeps it for WatermarkTTL from the creation on, and no task outlives its
\* creation by more than MaxTaskTTL.
Dated(T, time) == T.created <= time /\ T.expires <= T.created + MaxTaskTTL

WatermarkInv ==
    /\ \A t \in DOMAIN heap : Dated(heap[t], now)
    /\ \A a \in DOMAIN watermarks : heap[a].created <= watermarks[a]
    /\ \A a \in revoked : now <= heap[a].created + WatermarkTTL => a \in DOMAIN watermarks

LEMMA WatermarkInit == Init => WatermarkInv
  BY DEF Init, ManagerInit, EmptyMap, WatermarkInv

LEMMA WatermarkStep ==
    ASSUME TypeOK, TypeOK', WatermarkInv, Shape
    PROVE  WatermarkInv'
  <1>k. /\ DOMAIN heap \subseteq DOMAIN heap'
        /\ \A t \in DOMAIN heap : SameTask(heap[t], heap'[t])
        /\ now' \in {now, now + 1}
    BY ShapeKeeps
  <1>t. /\ now \in Nat /\ WatermarkTTL \in Nat /\ MaxTaskTTL \in Nat
        /\ DOMAIN watermarks \subseteq DOMAIN heap /\ revoked \subseteq DOMAIN heap
        /\ \A t \in DOMAIN heap : heap[t].created \in Nat /\ heap[t].expires \in Nat
        /\ \A a \in DOMAIN watermarks : watermarks[a] \in Nat
    BY RequestAssumption DEF TypeOK, HeapOK, TablesOK, Tasks
  <1>1. \A t \in DOMAIN heap' : Dated(heap'[t], now')
    <2>1. ASSUME NEW t \in DOMAIN heap PROVE Dated(heap'[t], now')
      <3>1. /\ heap'[t].created = heap[t].created /\ heap'[t].expires = heap[t].expires
            /\ Dated(heap[t], now)
        BY <1>k DEF SameTask, WatermarkInv
      <3> QED BY <1>k, <1>t, <3>1 DEF Dated
    <2>2. ASSUME NEW t \in DOMAIN heap' \ DOMAIN heap PROVE Dated(heap'[t], now')
      <3>1. (Rooted \/ Delegated) /\ now' = now
        BY <2>2 DEF Shape, HeapKept, Marked, gc, Ticked, Restarted, managerVars, Quiet
      <3>2. CASE Rooted
        <4>1. PICK ttl \in Nat : /\ ttl <= MaxTaskTTL
                                 /\ heap'[t].created = now /\ heap'[t].expires = now + ttl
          BY <2>2, <3>2 DEF Rooted, Added, SameTask, NewRoot
        <4> QED BY <1>t, <3>1, <4>1 DEF Dated
      <3>3. CASE Delegated
        <4>1. PICK p \in DOMAIN heap, ttl \in Nat :
                 /\ now + ttl <= heap[p].expires
                 /\ heap'[t].created = now /\ heap'[t].expires = now + ttl
          BY <2>2, <3>3 DEF Delegated, Added, SameTask, NewChild, MayCreateChild
        <4>2. Dated(heap[p], now)
          BY DEF WatermarkInv
        <4> QED BY <1>t, <3>1, <4>1, <4>2 DEF Dated
      <3> QED BY <3>1, <3>2, <3>3
    <2> QED BY <2>1, <2>2
  <1>2. CASE UNCHANGED <<watermarks, revoked>>
    <2>1. ASSUME NEW a \in DOMAIN watermarks PROVE heap'[a].created <= watermarks'[a]
      BY <1>2, <1>k, <1>t DEF WatermarkInv, SameTask
    <2>2. ASSUME NEW a \in revoked, now' <= heap'[a].created + WatermarkTTL
          PROVE  a \in DOMAIN watermarks
      <3>1. heap'[a].created = heap[a].created
        BY <1>k, <1>t DEF SameTask
      <3>2. now <= heap[a].created + WatermarkTTL
        BY <1>k, <1>t, <2>2, <3>1
      <3> QED BY <3>2 DEF WatermarkInv
    <2> QED BY <1>1, <1>2, <2>1, <2>2 DEF WatermarkInv
  <1>3. CASE Marked
    <2>1. PICK t \in DOMAIN heap : Watermark(t)
      BY <1>3 DEF Marked
    <2>2. /\ DOMAIN watermarks' = DOMAIN watermarks \cup {t} /\ watermarks'[t] = now
          /\ \A a \in DOMAIN watermarks : a # t => watermarks'[a] = watermarks[a]
          /\ revoked' = revoked \cup {t} /\ heap' = heap /\ now' = now
      BY <1>3, <2>1 DEF Marked, Watermark, Put
    <2>3. \A a \in DOMAIN watermarks' : heap'[a].created <= watermarks'[a]
      BY <2>2 DEF WatermarkInv, Dated
    <2>4. \A a \in revoked' : now' <= heap'[a].created + WatermarkTTL => a \in DOMAIN watermarks'
      BY <2>2 DEF WatermarkInv
    <2> QED BY <1>1, <2>3, <2>4 DEF WatermarkInv
  <1>4. CASE gc
    <2>1. /\ DOMAIN watermarks' = DOMAIN watermarks \ Stale
          /\ \A a \in DOMAIN watermarks' : watermarks'[a] = watermarks[a]
          /\ revoked' = revoked /\ heap' = heap /\ now' = now
      BY <1>4 DEF gc, Restrict, managerVars, historyVars
    <2>2. ASSUME NEW a \in revoked, now <= heap[a].created + WatermarkTTL
          PROVE  a \in DOMAIN watermarks'
      <3>1. a \in DOMAIN watermarks /\ heap[a].created <= watermarks[a]
        BY <2>2 DEF WatermarkInv
      <3>2. ~(watermarks[a] < now - WatermarkTTL)
        BY <1>t, <2>2, <3>1
      <3> QED BY <2>1, <3>1, <3>2 DEF Stale
    <2>3. \A a \in DOMAIN watermarks' : heap'[a].created <= watermarks'[a]
      BY <2>1 DEF WatermarkInv
    <2> QED BY <1>1, <2>1, <2>2, <2>3 DEF WatermarkInv
  <1>5. CASE Restarted
    BY <1>1, <1>5 DEF Restarted, WatermarkInv, EmptyMap
  <1> QED BY <1>2, <1>3, <1>4, <1>5 DEF Shape, Quiet, Ticked

\* The time in which a revocation below which t still lives may have lapsed.
LEMMA LapseEnds ==
    ASSUME TypeOK, DelegationAttenuates, WatermarkInv, NEW t \in DOMAIN heap,
           NEW a \in heap[t].lineage, heap[a].created + WatermarkTTL < now, now <= heap[t].expires
    PROVE  MayLapse(a)
  <1>1. a \in DOMAIN heap /\ heap[t].expires <= heap[a].expires
    BY DEF DelegationAttenuates
  <1>2. Dated(heap[a], now)
    BY <1>1 DEF WatermarkInv
  <1>3. /\ heap[t].expires \in Nat /\ heap[a].expires \in Nat /\ heap[a].created \in Nat
        /\ now \in Nat /\ MaxTaskTTL \in Nat
    BY <1>1, RequestAssumption DEF TypeOK, HeapOK, Tasks
  <1> QED BY <1>1, <1>2, <1>3 DEF Dated, MayLapse

LEMMA WatermarksBlock ==
    ASSUME TypeOK, DelegationAttenuates, WatermarkInv
    PROVE  RevokedStaysBlocked
  <1> SUFFICES ASSUME NEW t \in DOMAIN heap, NEW a \in heap[t].lineage,
                      a \in revoked, now <= heap[t].expires, a \notin DOMAIN watermarks
               PROVE  MayLapse(a)
    BY DEF RevokedStaysBlocked
  <1>1. a \in DOMAIN heap
    BY DEF DelegationAttenuates
  <1>2. ~(now <= heap[a].created + WatermarkTTL)
    BY DEF WatermarkInv
  <1>3. heap[a].created \in Nat /\ now \in Nat /\ WatermarkTTL \in Nat
    BY <1>1, RequestAssumption DEF TypeOK, HeapOK, Tasks
  <1>4. heap[a].created + WatermarkTTL < now
    BY <1>2, <1>3
  <1> QED BY <1>4, LapseEnds

\* Spec keeps the watermark invariant.
LEMMA WatermarkCorrect == Spec => []WatermarkInv
  <1>1. TypeOK /\ TypeOK' /\ WatermarkInv /\ [Next]_vars => WatermarkInv'
    BY WatermarkStep, StepShape
  <1> QED BY <1>1, WatermarkInit, TypeCorrect, PTL DEF Spec

\* A revocation stands for as long as any task below the revoked one lives, but for
\* the time in which its watermark may have lapsed (RevocationMap.gc).
THEOREM RevocationIsSafe == Spec => []RevokedStaysBlocked
  <1>1. TypeOK /\ DelegationAttenuates /\ WatermarkInv => RevokedStaysBlocked
    BY WatermarksBlock
  <1> QED BY <1>1, TypeCorrect, DelegationIsSafe, WatermarkCorrect, PTL

-----------------------------------------------------------------------------
(* Authentication against revocation. *)

\* What a step may do to the locals of handler v that authentication reads.
Untouched(v) == pc'[v] = pc[v] /\ req'[v] = req[v]
Elsewhere(v) == /\ pc[v] # "resolved" \/ pc'[v] = "idle"
                /\ pc'[v] # "resolved"
                /\ req'[v].seen \in {req[v].seen, {}, revoked}
Resolved(v) == /\ pc[v] # "resolved" /\ pc'[v] = "resolved"
               /\ req'[v].seen = req[v].seen
               /\ req'[v].todo = heap[req'[v].claims].lineage
               /\ heap' = heap
Checked(v) == /\ pc[v] = "resolved"
              /\ UNCHANGED <<now, heap, watermarks, revoked>>
              /\ \E c : /\ c \notin DOMAIN watermarks
                        /\ \/ /\ pc'[v] = "resolved"
                              /\ req'[v].claims = req[v].claims
                              /\ req'[v].seen = req[v].seen
                              /\ req'[v].todo = req[v].todo \ {c}
                           \/ /\ pc'[v] = "authed"
                              /\ req'[v].seen = {}
                              /\ req[v].todo \subseteq {c}

LocalShape == \A v \in Workers : Untouched(v) \/ Elsewhere(v) \/ Resolved(v) \/ Checked(v)

LEMMA GotoShape ==
    ASSUME TypeOK, NEW w \in Workers, NEW p, NEW r, Goto(w, p, r)
    PROVE  /\ pc'[w] = p /\ req'[w] = r
           /\ \A v \in Workers : v # w => Untouched(v)
  BY DEF Goto, Untouched, TypeOK, LocalsOK

LEMMA GotoElsewhere ==
    ASSUME TypeOK, NEW w \in Workers, NEW p, NEW r, Goto(w, p, r), p # "resolved",
           pc[w] # "resolved" \/ p = "idle", r.seen \in {req[w].seen, {}, revoked}
    PROVE  LocalShape
  BY GotoShape DEF LocalShape, Elsewhere

LEMMA ReplyElsewhere ==
    ASSUME TypeOK, NEW w \in Workers, Reply(w)
    PROVE  LocalShape
  BY GotoElsewhere DEF Reply, NoReq

LEMMA AuthShape ==
    ASSUME TypeOK, NEW w \in Workers, LookupTask(w) \/ \E c \in Ids : CheckRevocation(w, c)
    PROVE  LocalShape
  <1>1. LocalOK(DOMAIN heap, pc[w], req[w]) /\ req[w] \in Requests
    BY LocalsAt DEF LocalOK
  <1>2. UNCHANGED <<now, heap, watermarks, revoked>>
    BY DEF LookupTask, CheckRevocation, managerVars, tokenVars, historyVars
  <1>3. CASE LookupTask(w)
    <2> DEFINE t == Resolve(req[w].mac)
               r == [req[w] EXCEPT !.claims = t, !.todo = heap[t].lineage]
    <2>1. CASE Goto(w, "resolved", r)
      <3>1. r.seen = req[w].seen /\ r.claims = t /\ r.todo = heap[t].lineage
        BY <1>1 DEF Requests
      <3>2. pc'[w] = "resolved" /\ req'[w] = r
        BY <2>1, GotoShape
      <3>3. pc[w] = "verified"
        BY <1>3 DEF LookupTask
      <3> HIDE DEF r, t
      <3>4. Resolved(w)
        BY <1>2, <3>1, <3>2, <3>3 DEF Resolved
      <3> QED BY <2>1, <3>4, GotoShape DEF LocalShape
    <2> QED BY <1>3, <2>1, ReplyElsewhere DEF LookupTask
  <1>4. ASSUME NEW c \in Ids, CheckRevocation(w, c)
        PROVE  LocalShape
    <2> DEFINE rest == req[w].todo \ {c}
               r1 == [req[w] EXCEPT !.todo = rest]
               r2 == [req[w] EXCEPT !.todo = {}, !.seen = {}]
    <2>0. /\ r1.seen = req[w].seen /\ r1.claims = req[w].claims /\ r1.todo = rest
          /\ r2.seen = {} /\ pc[w] = "resolved"
      BY <1>1, <1>4 DEF Requests, CheckRevocation
    <2>1. CASE c \in DOMAIN watermarks
      BY <1>4, <2>1, ReplyElsewhere DEF CheckRevocation
    <2>2. CASE c \notin DOMAIN watermarks /\ rest # {}
      <3>1. Goto(w, "resolved", r1)
        BY <1>4, <2>2 DEF CheckRevocation
      <3>a. pc'[w] = "resolved" /\ req'[w] = r1
        BY <3>1, GotoShape
      <3>b. /\ c \notin DOMAIN watermarks
            /\ pc'[w] = "resolved" /\ req'[w].claims = req[w].claims
            /\ req'[w].seen = req[w].seen /\ req'[w].todo = req[w].todo \ {c}
        BY <2>0, <2>2, <3>a
      <3>2. Checked(w)
        BY <1>2, <2>0, <3>b DEF Checked
      <3> QED BY <3>1, <3>2, GotoShape DEF LocalShape
    <2>3. CASE c \notin DOMAIN watermarks /\ rest = {}
      <3>1. Goto(w, "authed", r2)
        BY <1>4, <2>3 DEF CheckRevocation
      <3>a. pc'[w] = "authed" /\ req'[w] = r2
        BY <3>1, GotoShape
      <3>b. /\ c \notin DOMAIN watermarks
            /\ pc'[w] = "authed" /\ req'[w].seen = {} /\ req[w].todo \subseteq {c}
        BY <2>0, <2>3, <3>a
      <3>2. Checked(w)
        BY <1>2, <2>0, <3>b DEF Checked
      <3> QED BY <3>1, <3>2, GotoShape DEF LocalShape
    <2> QED BY <2>1, <2>2, <2>3
  <1> QED BY <1>3, <1>4

LEMMA StepLocalShape ==
    ASSUME TypeOK, [Next]_vars
    PROVE  LocalShape \/ Restarted
  <1>1. ASSUME NEW w \in Workers, Arrive(w)
        PROVE  LocalShape
    <2>1. CASE \E a \in Agents, tool \in Calls \cap Tools : AuthenticateKey(w, a, tool)
      <3>1. PICK a \in Agents, tool \in Calls \cap Tools : AuthenticateKey(w, a, tool)
        BY <2>1
      <3>2. [NoReq EXCEPT !.agent = a].seen = {} /\ tool # "resolved"
        BY DEF NoReq, Tools
      <3> QED BY <3>1, <3>2, GotoElsewhere DEF AuthenticateKey
    <2>2. CASE \E tok \in issued : VerifyMacaroon(w, tok)
      <3>1. PICK tok \in issued : VerifyMacaroon(w, tok)
        BY <2>2
      <3> DEFINE r == [NoReq EXCEPT !.agent = tok.mac.agent, !.mac = tok.mac, !.seen = revoked]
      <3>2. r.seen = revoked
        BY DEF NoReq
      <3> QED BY <3>1, <3>2, GotoElsewhere DEF VerifyMacaroon
    <2>3. CASE \E id \in live : handleDashboardRevokeTask(w, id)
      <3>1. PICK id \in live : handleDashboardRevokeTask(w, id)
        BY <2>3
      <3> DEFINE r == [NoReq EXCEPT !.subject = id, !.todo = Descendants(id, heap[id].root)]
      <3>2. r.seen = {}
        BY DEF NoReq
      <3> QED BY <3>1, <3>2, GotoElsewhere DEF handleDashboardRevokeTask
    <2> QED BY <1>1, <2>1, <2>2, <2>3 DEF Arrive
  <1>2. ASSUME NEW w \in Workers, Handle(w)
        PROVE  LocalShape
    <2>0. req[w] \in Requests
      BY LocalsAt DEF LocalOK
    <2>1. CASE LookupTask(w) \/ \E c \in Ids : CheckRevocation(w, c)
      BY <2>1, AuthShape
    <2>2. CASE \E tool \in Calls \cap Tools, key \in HolderKeys \cup {NoKey} :
                  handleToolsCall(w, tool, key)
      <3>1. PICK tool \in Calls \cap Tools, key \in HolderKeys \cup {NoKey} :
               handleToolsCall(w, tool, key)
        BY <2>2
      <3>2. tool # "resolved"
        BY DEF Tools
      <3> QED BY <3>1, <3>2, GotoElsewhere, ReplyElsewhere DEF handleToolsCall
    <2>3. CASE \/ \E id \in Ids, ttl \in TTLs, cd \in DelegateFlags, key \in HolderKeys \cup {NoKey} :
                     toolTaskCreate(w, id, ttl, cd, key)
               \/ \E id \in Ids, p \in live, ttl \in TTLs, cd \in DelegateFlags :
                     \/ toolTaskDelegateInherit(w, id, p, ttl, cd)
                     \/ \E env \in RequestEnvs : toolTaskDelegate(w, id, p, ttl, env, cd)
      <3>1. PICK id \in Ids : /\ Goto(w, "mint", [req[w] EXCEPT !.subject = id])
                              /\ pc[w] \in {"create", "delegate"}
        BY <2>3 DEF toolTaskCreate, toolTaskDelegateInherit, toolTaskDelegate, Delegate
      <3>2. [req[w] EXCEPT !.subject = id].seen = req[w].seen
        BY <2>0 DEF Requests
      <3> QED BY <3>1, <3>2, GotoElsewhere
    <2>4. CASE \E oversize \in MayOverflow :
                  MintRootToken(w, oversize) \/ MintDelegatedToken(w, oversize)
      <3>1. PICK mac, oversize : Minted(w, mac, oversize) /\ pc[w] = "mint"
        BY <2>4 DEF MintRootToken, MintDelegatedToken
      <3>2. [req[w] EXCEPT !.mac = mac].seen = req[w].seen
        BY <2>0 DEF Requests
      <3>3. \/ Goto(w, "unmint", req[w])
            \/ Goto(w, "register", [req[w] EXCEPT !.mac = mac])
        BY <3>1 DEF Minted
      <3> QED BY <3>1, <3>2, <3>3, GotoElsewhere
    <2>5. CASE \/ ResourceTool(w) \/ Refuse(w) \/ RegisterToken(w) \/ AbandonTask(w)
               \/ \E key \in HolderKeys : BindKey(w, key)
               \/ RevokeFinish(w) \/ DashFinish(w)
      <3>1. Reply(w)
        BY <2>5 DEF ResourceTool, Refuse, RegisterToken, AbandonTask, BindKey,
                    RevokeFinish, DashFinish
      <3> QED BY <3>1, ReplyElsewhere
    <2>6. CASE \E id \in live : toolTaskBind(w, id) \/ toolTaskRevoke(w, id)
      <3>1. PICK id, p : /\ Goto(w, p, [req[w] EXCEPT !.subject = id])
                         /\ p # "resolved" /\ pc[w] # "resolved"
        BY <2>6 DEF toolTaskBind, toolTaskRevoke
      <3>2. [req[w] EXCEPT !.subject = id].seen = req[w].seen
        BY <2>0 DEF Requests
      <3> QED BY <3>1, <3>2, GotoElsewhere
    <2>7. CASE RevokeWatermark(w) \/ RevokeKey(w) \/ DashWatermark(w) \/ DashDelete(w)
      <3>1. PICK p : Goto(w, p, req[w]) /\ p # "resolved" /\ pc[w] # "resolved"
        BY <2>7 DEF RevokeWatermark, RevokeKey, DashWatermark, DashDelete
      <3> QED BY <3>1, GotoElsewhere
    <2>8. CASE RevokeSnapshot(w) \/ \E c \in Ids : RevokeChild(w, c) \/ DashChild(w, c)
      <3>1. PICK p, S : /\ Goto(w, p, [req[w] EXCEPT !.todo = S])
                        /\ p # "resolved" /\ pc[w] # "resolved"
        BY <2>8 DEF RevokeSnapshot, RevokeChild, DashChild, CascadeChild
      <3>2. [req[w] EXCEPT !.todo = S].seen = req[w].seen
        BY <2>0 DEF Requests
      <3> QED BY <3>1, <3>2, GotoElsewhere
    <2> QED BY <1>2, <2>1, <2>2, <2>3, <2>4, <2>5, <2>6, <2>7, <2>8 DEF Handle
  <1>3. CASE Restart
    BY <1>3 DEF Restart, Restarted
  <1>4. CASE UNCHANGED <<pc, req>>
    BY <1>4 DEF LocalShape, Untouched
  <1> QED BY <1>1, <1>2, <1>3, <1>4
          DEF Next, Holders, Attenuate, Background, CleanupTasks, gc, CleanupKeys, Clock, vars

\* What a request in authentication knows: seen was revoked, and an ancestor
\* that is seen and already passed only passed because the task had expired.
Passed(v) == (heap[req[v].claims].lineage \cap req[v].seen) \ req[v].todo

\* Why a revoked ancestor may be passed: its watermark is overdue, or the task is.
Overtaken(T, a, time) == a.created + WatermarkTTL < time \/ time > T.expires

SeenInv ==
    \A v \in Workers :
        /\ req[v].seen \subseteq revoked
        /\ pc[v] = "resolved" =>
              \A a \in Passed(v) : Overtaken(heap[req[v].claims], heap[a], now)

LEMMA SeenInit == Init => SeenInv
  BY DEF Init, SeenInv, NoReq

\* Passing the check of c means c is not in the way of an unexpired task.
LEMMA CheckPasses ==
    ASSUME TypeOK, WatermarkInv, SeenInv, NEW v \in Workers,
           NEW c, c \notin DOMAIN watermarks, c \in DOMAIN heap, c \in req[v].seen
    PROVE  \A T : Overtaken(T, heap[c], now)
  <1>1. c \in revoked
    BY DEF SeenInv
  <1>2. ~(now <= heap[c].created + WatermarkTTL)
    BY <1>1 DEF WatermarkInv
  <1>3. now \in Nat /\ heap[c].created \in Nat /\ WatermarkTTL \in Nat
    BY RequestAssumption DEF TypeOK, HeapOK, Tasks
  <1> QED BY <1>2, <1>3 DEF Overtaken

LEMMA SeenStep ==
    ASSUME TypeOK, WatermarkInv, SeenInv, Shape, LocalShape
    PROVE  SeenInv' \/ Restarted
  <1> SUFFICES ASSUME ~Restarted PROVE SeenInv'
    OBVIOUS
  <1>1. revoked \subseteq revoked'
    BY DEF Shape, Quiet, Marked, Watermark, gc, Ticked, historyVars
  <1>k. /\ \A t \in DOMAIN heap : SameTask(heap[t], heap'[t])
        /\ now' \in {now, now + 1}
    BY ShapeKeeps
  <1> SUFFICES ASSUME NEW v \in Workers
               PROVE  /\ req'[v].seen \subseteq revoked'
                      /\ pc'[v] = "resolved" =>
                            \A a \in Passed(v)' : Overtaken(heap'[req'[v].claims], heap'[a], now')
    BY DEF SeenInv
  <1>2. req[v].seen \subseteq revoked
    BY DEF SeenInv
  <1>3. CASE Untouched(v)
    <2>1. req'[v].seen \subseteq revoked'
      BY <1>1, <1>2, <1>3 DEF Untouched
    <2>2. ASSUME pc'[v] = "resolved", NEW a \in Passed(v)'
          PROVE  Overtaken(heap'[req'[v].claims], heap'[a], now')
      <3> DEFINE t == req[v].claims
      <3>1. pc[v] = "resolved" /\ req'[v] = req[v]
        BY <1>3, <2>2 DEF Untouched
      <3>2. t \in DOMAIN heap
        BY <3>1, LocalsAt DEF LocalOK
      <3>3. SameTask(heap[t], heap'[t])
        BY <1>k, <3>2
      <3>4. a \in DOMAIN heap /\ a \in Passed(v)
        BY <2>2, <3>1, <3>2, <3>3 DEF Passed, SameTask, TypeOK, HeapOK
      <3>5. SameTask(heap[a], heap'[a])
        BY <1>k, <3>4
      <3>6. Overtaken(heap[t], heap[a], now)
        BY <3>1, <3>4 DEF SeenInv
      <3>7. /\ now \in Nat /\ heap[t].expires \in Nat /\ heap[a].created \in Nat
            /\ WatermarkTTL \in Nat
        BY <3>2, <3>4, RequestAssumption DEF TypeOK, HeapOK, Tasks
      <3>8. heap'[t].expires = heap[t].expires /\ heap'[a].created = heap[a].created
        BY <3>3, <3>5 DEF SameTask
      <3> QED BY <1>k, <3>1, <3>6, <3>7, <3>8 DEF Overtaken
    <2> QED BY <2>1, <2>2
  <1>4. CASE Elsewhere(v)
    BY <1>1, <1>2, <1>4 DEF Elsewhere
  <1>5. CASE Resolved(v)
    BY <1>1, <1>2, <1>5 DEF Resolved, Passed
  <1>6. CASE Checked(v)
    <2>1. req'[v].seen \subseteq revoked'
      BY <1>1, <1>2, <1>6 DEF Checked
    <2>2. ASSUME pc'[v] = "resolved", NEW a \in Passed(v)'
          PROVE  Overtaken(heap'[req'[v].claims], heap'[a], now')
      <3>1. PICK c : /\ c \notin DOMAIN watermarks
                     /\ req'[v].claims = req[v].claims
                     /\ req'[v].seen = req[v].seen
                     /\ req'[v].todo = req[v].todo \ {c}
        BY <1>6, <2>2 DEF Checked
      <3>2. pc[v] = "resolved" /\ now' = now /\ heap' = heap
        BY <1>6 DEF Checked
      <3>3. a \in heap[req[v].claims].lineage /\ a \in req[v].seen
        BY <2>2, <3>1, <3>2 DEF Passed
      <3>4. CASE a = c
        <4>1. a \in DOMAIN heap
          BY <3>2, <3>3, LocalsAt DEF LocalOK, TypeOK, HeapOK
        <4> QED BY <3>1, <3>2, <3>3, <3>4, <4>1, CheckPasses
      <3>5. CASE a # c
        <4>1. a \in Passed(v)
          BY <2>2, <3>1, <3>2, <3>5 DEF Passed
        <4> QED BY <3>1, <3>2, <4>1 DEF SeenInv
      <3> QED BY <3>4, <3>5
    <2> QED BY <2>1, <2>2
  <1> QED BY <1>3, <1>4, <1>5, <1>6 DEF LocalShape

LEMMA SeenNext == TypeOK /\ WatermarkInv /\ SeenInv /\ [Next]_vars => SeenInv'
  <1> SUFFICES ASSUME TypeOK, WatermarkInv, SeenInv, [Next]_vars PROVE SeenInv'
    OBVIOUS
  <1>1. CASE Restarted
    BY <1>1 DEF Restarted, SeenInv, NoReq
  <1> QED BY <1>1, StepShape, StepLocalShape, SeenStep

\* The step that authenticates has checked every ancestor.
LEMMA AcceptStep ==
    ASSUME TypeOK, DelegationAttenuates, WatermarkInv, SeenInv, [Next]_vars,
           NEW w \in Workers, pc[w] = "resolved", pc'[w] = "authed",
           NEW a \in heap[req[w].claims].lineage \cap req[w].seen
    PROVE  now > heap[req[w].claims].expires \/ MayLapse(a)
  <1> DEFINE t == req[w].claims
  <1>0. t \in DOMAIN heap /\ a \in DOMAIN heap
    BY LocalsAt DEF LocalOK, TypeOK, HeapOK
  <1>1. Checked(w)
    BY StepLocalShape DEF LocalShape, Untouched, Elsewhere, Resolved, Restarted
  <1>2. PICK c : c \notin DOMAIN watermarks /\ req[w].todo \subseteq {c}
    BY <1>1 DEF Checked
  <1>3. Overtaken(heap[t], heap[a], now)
    <2>1. CASE a = c
      BY <1>0, <1>2, <2>1, CheckPasses
    <2>2. CASE a # c
      <3>1. a \in Passed(w)
        BY <1>2, <2>2 DEF Passed
      <3> QED BY <3>1 DEF SeenInv
    <2> QED BY <2>1, <2>2
  <1>4. now \in Nat /\ heap[t].expires \in Nat
    BY <1>0 DEF TypeOK, HeapOK, Tasks
  <1>5. CASE now <= heap[t].expires
    <2>1. heap[a].created + WatermarkTTL < now
      BY <1>3, <1>4, <1>5 DEF Overtaken
    <2> QED BY <1>0, <1>5, <2>1, LapseEnds
  <1> QED BY <1>4, <1>5

\* A request for a task below an ancestor revoked before the request came in is never
\* authenticated while that task lives, whatever runs between the lookup and the
\* checks of its lineage, but for the time in which the ancestor's watermark may have
\* lapsed (authenticateWithMacaroon against gc).
THEOREM AuthenticationIsSafe == Spec => AcceptedMeansUnrevoked
  <1>1. TypeOK /\ DelegationAttenuates /\ WatermarkInv /\ SeenInv /\ [Next]_vars =>
          [\A w \in Workers : pc[w] = "resolved" /\ pc'[w] = "authed" =>
             \A a \in heap[req[w].claims].lineage \cap req[w].seen :
                now > heap[req[w].claims].expires \/ MayLapse(a)]_vars
    BY AcceptStep
  <1> QED BY <1>1, SeenInit, SeenNext, TypeCorrect, DelegationIsSafe, WatermarkCorrect, PTL
          DEF Spec, AcceptedMeansUnrevoked

-----------------------------------------------------------------------------
(* Tokens and root keys. *)

\* The tokens clients hold and those the handlers work on.
Circulating == {tok.mac : tok \in issued} \cup ({req[w].mac : w \in Workers} \ {NoMac})

\* A token belongs to a tree of the heap, its first block is within the envelope of
\* the tree's root, and so is every other one that no holder added.
Sound(m) ==
    /\ m.id \in DOMAIN heap /\ heap[m.id].root = m.id
    /\ m.agent = heap[m.id].agent
    /\ m.chain # <<>>
    /\ Within(m.chain[1].envelope, heap[m.id].envelope)
    /\ m \notin extended =>
          \A i \in DOMAIN m.chain : Within(m.chain[i].envelope, heap[m.id].envelope)
    /\ m.gen <= generations[m.id]

\* The key of a token's generation outlives the token's first block, and is
\* there unless it was replaced, revoked, lost or no longer needed.
Covered(m) ==
    /\ m.id \in DOMAIN keys /\ keys[m.id].gen = m.gen =>
          m.chain[1].expiresBefore <= keys[m.id].maxExpiry
    /\ m.id \notin revoked \cup forgotten /\ m.gen = generations[m.id] /\ ~Expired(m, now) =>
          m.id \in DOMAIN keys /\ keys[m.id].gen = m.gen

\* What a handler at step p knows about its locals r: claims come with a token
\* of the same tree, the subject of a minting is the caller's, and a delegated
\* one is below the caller's own task.
Caller(p, r) ==
    /\ p = "verified" => r.mac # NoMac
    /\ p \notin {"verified", "register"} => (r.claims = NoTask <=> r.mac = NoMac)
    /\ p # "register" /\ r.claims # NoTask => heap[r.claims].root = r.mac.id
    /\ p = "register" => r.mac # NoMac /\ heap[r.subject].root = r.mac.id
    /\ p = "mint" => /\ heap[r.subject].agent = r.agent
                     /\ heap[r.subject].root \notin forgotten
                     /\ heap[r.subject].depth > 0 /\ r.claims # NoTask =>
                           /\ heap[r.subject].root = r.mac.id
                           /\ IsSubsetOf(heap[r.subject].envelope, heap[r.claims].envelope)
    /\ p = "unkey" => r.subject \in revoked
    /\ r.mac.id \notin forgotten

\* The token whose digest a task carries has a block for that task.
Digested(t) ==
    heap[t].digest # NoMac =>
        \E i \in DOMAIN heap[t].digest.chain :
            heap[t].digest.chain[i].envelope = heap[t].envelope

MacsInv == \A m \in Circulating : Sound(m) /\ Covered(m)
CallersInv == \A w \in Workers : Caller(pc[w], req[w])
TreesInv == /\ \A m \in DOMAIN sigIndex : heap[sigIndex[m]].root = m.id
            /\ \A t \in DOMAIN heap : Digested(t) /\ heap[t].root \in heap[t].lineage
\* Nothing from before the last restart is in the table or has a key.
FreshInv == /\ \A t \in live : heap[t].root \notin forgotten
            /\ \A r \in DOMAIN keys : r \notin forgotten

TokenInv == MacsInv /\ CallersInv /\ TreesInv /\ FreshInv

\* What every step but a restart does to the tasks and the history, and what
\* every step but a minting and a restart does to the keys.
HeapFrame == /\ DOMAIN heap \subseteq DOMAIN heap'
             /\ \A t \in DOMAIN heap : SameTask(heap[t], heap'[t])
             /\ revoked \subseteq revoked' /\ forgotten' = forgotten
             /\ extended \subseteq extended'

KeyFrame == /\ generations' = generations /\ now' \in {now, now + 1}
            /\ DOMAIN keys' \subseteq DOMAIN keys
            /\ \A r \in DOMAIN keys' : keys'[r] = keys[r]
            /\ \A r \in DOMAIN keys \ DOMAIN keys' : r \in revoked \/ now > keys[r].maxExpiry

\* NoTask and NoMac name no allocated task.
LEMMA NoMacIsNoTask ==
    ASSUME TypeOK
    PROVE  NoTask \notin DOMAIN heap /\ NoMac.id = NoTask /\ NoMac.id \notin forgotten
  <1>1. NoTask \notin Ids
    BY BoundsAssumption DEF Ids, NoTask
  <1>2. NoMac.id = NoTask
    BY DEF NoMac
  <1> QED BY <1>1, <1>2 DEF TypeOK, HeapOK, TablesOK

LEMMA MacTypes ==
    ASSUME TypeOK, NEW m \in Circulating
    PROVE  m \in Macaroons
  BY LocalsAt DEF TypeOK, TablesOK, Token, Circulating, LocalOK, Requests

\* The first block of a chain that is not empty.
LEMMA FirstBlock ==
    ASSUME NEW m \in Macaroons, m.chain # <<>>
    PROVE  /\ 1 \in DOMAIN m.chain
           /\ m.chain[1] \in Block /\ m.chain[1].expiresBefore \in Int
           /\ \A i \in DOMAIN m.chain : m.chain[i] \in Block
  <1>1. m.chain \in Seq(Block)
    BY DEF Macaroons
  <1>2. /\ 1 \in DOMAIN m.chain
        /\ \A i \in DOMAIN m.chain : m.chain[i] \in Block
    BY <1>1
  <1> QED BY <1>2 DEF Block

LEMMA SoundKept ==
    ASSUME TypeOK, HeapFrame, NEW m, Sound(m), m \in Macaroons,
           generations[m.id] \in Nat, generations'[m.id] \in Nat,
           generations[m.id] <= generations'[m.id]
    PROVE  Sound(m)'
  <1>1. m.id \in DOMAIN heap' /\ SameTask(heap[m.id], heap'[m.id])
    BY DEF HeapFrame, Sound
  <1>2. m.gen <= generations'[m.id]
    BY DEF Sound, Macaroons
  <1>3. m \notin extended' => m \notin extended
    BY DEF HeapFrame
  <1> QED BY <1>1, <1>2, <1>3 DEF Sound, SameTask

\* A token that is not expired later is not expired now.
LEMMA ExpiryKept ==
    ASSUME NEW m \in Macaroons, NEW s \in Int, NEW t \in Int, s <= t, ~Expired(m, t)
    PROVE  ~Expired(m, s)
  <1> SUFFICES ASSUME NEW i \in DOMAIN m.chain, s > m.chain[i].expiresBefore PROVE FALSE
    BY DEF Expired
  <1>1. m.chain[i] \in Block
    BY DEF Macaroons
  <1>2. m.chain[i].expiresBefore \in Int
    BY <1>1 DEF Block
  <1>3. t > m.chain[i].expiresBefore
    BY <1>2
  <1> QED BY <1>3 DEF Expired

LEMMA CoveredKept ==
    ASSUME TypeOK, HeapFrame, KeyFrame, NEW m \in Macaroons, Sound(m), Covered(m)
    PROVE  Covered(m)'
  <1>0. now \in Int /\ now' \in Int /\ now <= now'
    BY DEF TypeOK, KeyFrame
  <1>1. ASSUME m.id \in DOMAIN keys', keys'[m.id].gen = m.gen
        PROVE  m.chain[1].expiresBefore <= keys'[m.id].maxExpiry
    BY <1>1 DEF Covered, KeyFrame
  <1>2. ASSUME m.id \notin revoked' \cup forgotten', m.gen = generations'[m.id], ~Expired(m, now')
        PROVE  m.id \in DOMAIN keys' /\ keys'[m.id].gen = m.gen
    <2>1. ~Expired(m, now)
      BY <1>0, <1>2, ExpiryKept
    <2>2. m.id \in DOMAIN keys /\ keys[m.id].gen = m.gen
      BY <1>2, <2>1 DEF Covered, HeapFrame, KeyFrame
    <2>3. m.chain[1].expiresBefore <= keys[m.id].maxExpiry
      BY <2>2 DEF Covered
    <2>4. keys[m.id].maxExpiry \in Nat
      BY <2>2 DEF TypeOK, TablesOK, KeyEntries
    <2>5. 1 \in DOMAIN m.chain /\ m.chain[1].expiresBefore \in Int
      BY FirstBlock DEF Sound
    <2>6. ~(now > m.chain[1].expiresBefore)
      BY <2>1, <2>5 DEF Expired
    <2>7. ~(now > keys[m.id].maxExpiry)
      BY <1>0, <2>3, <2>4, <2>5, <2>6
    <2>8. m.id \in DOMAIN keys'
      BY <1>2, <2>2, <2>7 DEF KeyFrame, HeapFrame
    <2> QED BY <2>2, <2>8 DEF KeyFrame
  <1> QED BY <1>1, <1>2 DEF Covered

\* A step that mints nothing.
LEMMA MacsKept ==
    ASSUME TypeOK, MacsInv, HeapFrame, KeyFrame, NEW m \in Circulating
    PROVE  Sound(m)' /\ Covered(m)'
  <1>1. m \in Macaroons /\ Sound(m) /\ Covered(m)
    BY MacTypes DEF MacsInv
  <1>2. generations[m.id] \in Nat
    BY <1>1 DEF Sound, TypeOK, HeapOK, TablesOK
  <1>3. Sound(m)'
    BY <1>1, <1>2, SoundKept DEF KeyFrame
  <1> QED BY <1>1, <1>3, CoveredKept

LEMMA MovedMacs ==
    ASSUME TypeOK, NEW w \in Workers, \A v \in Workers : v # w => Untouched(v),
           req'[w].mac \in {NoMac, req[w].mac} \cup {tok.mac : tok \in issued},
           issued' = issued
    PROVE  Circulating' \subseteq Circulating
  BY DEF Circulating, Untouched

\* The handlers that did not move still know what they knew.
LEMMA CallerKept ==
    ASSUME TypeOK, HeapFrame, NEW p, NEW r, LocalOK(DOMAIN heap, p, r), Caller(p, r)
    PROVE  Caller(p, r)'
  <1>1. r.claims # NoTask => SameTask(heap[r.claims], heap'[r.claims])
    BY DEF HeapFrame, LocalOK
  <1>2. p \in {"mint", "register"} => SameTask(heap[r.subject], heap'[r.subject])
    BY DEF HeapFrame, LocalOK, HasSubject
  <1> QED BY <1>1, <1>2 DEF Caller, HeapFrame, SameTask

LEMMA CallersStep ==
    ASSUME TypeOK, CallersInv, HeapFrame, NEW w \in Workers,
           \A v \in Workers : v # w => Untouched(v), Caller(pc[w], req[w])'
    PROVE  CallersInv'
  <1> SUFFICES ASSUME NEW v \in Workers, v # w PROVE Caller(pc[v], req[v])'
    BY DEF CallersInv
  <1>1. pc'[v] = pc[v] /\ req'[v] = req[v]
    BY DEF Untouched
  <1>2. PICK p, r : p = pc[v] /\ r = req[v]
    OBVIOUS
  <1>3. Caller(p, r)'
    BY <1>2, LocalsAt, CallerKept DEF CallersInv
  <1> QED BY <1>1, <1>2, <1>3 DEF Caller

\* A handler that replies, and one that goes on with the same caller.
LEMMA ReplyCaller ==
    ASSUME TypeOK', NEW w \in Workers, pc'[w] = "idle", req'[w] = NoReq
    PROVE  Caller(pc[w], req[w])'
  <1>1. /\ NoReq.claims = NoTask /\ NoReq.mac = NoMac /\ NoMac.id = NoTask
    BY DEF NoReq, NoMac
  <1>2. NoTask \notin forgotten'
    BY BoundsAssumption DEF TypeOK, HeapOK, TablesOK, Ids, NoTask
  <1> QED BY <1>1, <1>2 DEF Caller

LEMMA KeepsCaller ==
    ASSUME TypeOK, HeapFrame, NEW w \in Workers, Caller(pc[w], req[w]),
           pc[w] \notin {"verified", "register"},
           pc'[w] \notin {"verified", "register", "mint"},
           pc'[w] = "unkey" => req'[w].subject \in revoked',
           req'[w].claims = req[w].claims, req'[w].mac = req[w].mac
    PROVE  Caller(pc[w], req[w])'
  <1>1. req[w].claims # NoTask => SameTask(heap[req[w].claims], heap'[req[w].claims])
    BY LocalsAt DEF HeapFrame, LocalOK
  <1> QED BY <1>1 DEF Caller, HeapFrame, SameTask

\* Steps that add no task, no index entry and no key, and keep the digests.
Calm == /\ HeapFrame /\ KeyFrame
        /\ DOMAIN heap' = DOMAIN heap
        /\ \A t \in DOMAIN heap : heap'[t].digest = heap[t].digest
        /\ live' \subseteq live
        /\ DOMAIN sigIndex' \subseteq DOMAIN sigIndex
        /\ \A m \in DOMAIN sigIndex' : sigIndex'[m] = sigIndex[m]

LEMMA CalmStep ==
    ASSUME TypeOK, TokenInv, Calm, Circulating' \subseteq Circulating, CallersInv'
    PROVE  TokenInv'
  <1>1. MacsInv'
    BY MacsKept DEF MacsInv, TokenInv, Calm
  <1>2. TreesInv'
    <2>1. ASSUME NEW m \in DOMAIN sigIndex'
          PROVE  heap'[sigIndex'[m]].root = m.id
      <3>1. m \in DOMAIN sigIndex /\ sigIndex'[m] = sigIndex[m] /\ sigIndex[m] \in DOMAIN heap
        BY DEF Calm, TypeOK, TablesOK
      <3> QED BY <3>1 DEF TokenInv, TreesInv, Calm, HeapFrame, SameTask
    <2>2. ASSUME NEW t \in DOMAIN heap'
          PROVE  Digested(t)' /\ heap'[t].root \in heap'[t].lineage
      <3>1. t \in DOMAIN heap /\ heap'[t].digest = heap[t].digest
        BY <2>2 DEF Calm
      <3>2. SameTask(heap[t], heap'[t])
        BY <3>1 DEF Calm, HeapFrame
      <3> QED BY <3>1, <3>2 DEF TokenInv, TreesInv, Digested, SameTask
    <2> QED BY <2>1, <2>2 DEF TreesInv
  <1>3. FreshInv'
    <2>1. \A t \in live' : t \in DOMAIN heap /\ heap'[t].root = heap[t].root
      BY DEF Calm, HeapFrame, SameTask, TypeOK, HeapOK
    <2> QED BY <2>1 DEF FreshInv, TokenInv, Calm, HeapFrame, KeyFrame
  <1> QED BY <1>1, <1>2, <1>3 DEF TokenInv

\* A calm step in which one handler moves on without a new token.
LEMMA CalmMove ==
    ASSUME TypeOK, TokenInv, Calm, NEW w \in Workers, NEW p, NEW r, Goto(w, p, r),
           r.mac \in {NoMac, req[w].mac} \cup {tok.mac : tok \in issued}, issued' = issued,
           Caller(pc[w], req[w])'
    PROVE  TokenInv'
  <1>1. req'[w] = r /\ \A v \in Workers : v # w => Untouched(v)
    BY GotoShape
  <1>2. Circulating' \subseteq Circulating
    BY <1>1, MovedMacs
  <1>3. CallersInv'
    BY <1>1, CallersStep DEF Calm, TokenInv
  <1> QED BY <1>2, <1>3, CalmStep

LEMMA CalmReply ==
    ASSUME TypeOK, TypeOK', TokenInv, Calm, NEW w \in Workers, Reply(w), issued' = issued
    PROVE  TokenInv'
  <1>1. NoReq.mac = NoMac
    BY DEF NoReq
  <1>2. pc'[w] = "idle" /\ req'[w] = NoReq
    BY GotoShape DEF Reply
  <1> QED BY <1>1, <1>2, ReplyCaller, CalmMove DEF Reply

LEMMA CalmGoOn ==
    ASSUME TypeOK, TokenInv, Calm, NEW w \in Workers, NEW p, NEW r, Goto(w, p, r),
           pc[w] \notin {"verified", "register"}, p \notin {"verified", "register", "mint"},
           p = "unkey" => r.subject \in revoked',
           r.claims = req[w].claims, r.mac = req[w].mac, issued' = issued
    PROVE  TokenInv'
  <1>1. pc'[w] = p /\ req'[w] = r
    BY GotoShape
  <1>2. Caller(pc[w], req[w])'
    BY <1>1, KeepsCaller DEF TokenInv, CallersInv, Calm
  <1> QED BY <1>2, CalmMove

\* Nothing but handlers moves.
LEMMA StillIsCalm ==
    ASSUME UNCHANGED <<managerVars, tokenVars, historyVars>>
    PROVE  Calm /\ issued' = issued
  BY DEF managerVars, tokenVars, historyVars, Calm, HeapFrame, KeyFrame, SameTask

LEMMA RemoveIsCalm ==
    ASSUME TypeOK, NEW S, Remove(S), revoked \subseteq revoked', forgotten' = forgotten,
           UNCHANGED <<now, keys, generations, extended>>
    PROVE  Calm
  <1>1. /\ DOMAIN sigIndex' \subseteq DOMAIN sigIndex
        /\ \A m \in DOMAIN sigIndex' : sigIndex'[m] = sigIndex[m]
    BY RemoveOK DEF TypeOK
  <1>2. heap' = heap /\ live' \subseteq live
    BY DEF Remove
  <1> QED BY <1>1, <1>2 DEF Calm, HeapFrame, KeyFrame, SameTask

LEMMA ArriveKeeps ==
    ASSUME TypeOK, TypeOK', TokenInv, NEW w \in Workers, Arrive(w)
    PROVE  TokenInv'
  <1>0. NoTask \notin DOMAIN heap /\ NoMac.id = NoTask /\ NoMac.id \notin forgotten
    BY NoMacIsNoTask
  <1>a. NoReq.claims = NoTask /\ NoReq.mac = NoMac
    BY DEF NoReq
  <1>1. ASSUME NEW a \in Agents, NEW tool \in Calls \cap Tools, AuthenticateKey(w, a, tool)
        PROVE  TokenInv'
    <2> DEFINE r == [NoReq EXCEPT !.agent = a]
    <2>1. r.claims = NoTask /\ r.mac = NoMac
      BY DEF NoReq
    <2>2. Calm /\ issued' = issued /\ Goto(w, tool, r)
      BY <1>1, StillIsCalm DEF AuthenticateKey
    <2>3. pc'[w] = tool /\ req'[w] = r
      BY <2>2, GotoShape
    <2>4. Caller(pc[w], req[w])'
      BY <1>0, <2>1, <2>2, <2>3 DEF Caller, Tools, Calm, HeapFrame
    <2> QED BY <2>1, <2>2, <2>4, CalmMove
  <1>2. ASSUME NEW tok \in issued, VerifyMacaroon(w, tok)
        PROVE  TokenInv'
    <2> DEFINE r == [NoReq EXCEPT !.agent = tok.mac.agent, !.mac = tok.mac, !.seen = revoked]
    <2>1. r.claims = NoTask /\ r.mac = tok.mac
      BY DEF NoReq
    <2>2. Calm /\ issued' = issued /\ Goto(w, "verified", r)
      BY <1>2, StillIsCalm DEF VerifyMacaroon
    <2>3. pc'[w] = "verified" /\ req'[w] = r
      BY <2>2, GotoShape
    <2>4. tok.mac \in Circulating
      BY DEF Circulating
    <2>5. tok.mac.id \in DOMAIN heap
      BY <2>4 DEF TokenInv, MacsInv, Sound
    <2>6. tok.mac.id \notin forgotten
      BY <1>2 DEF VerifyMacaroon, Verifies, TokenInv, FreshInv
    <2>7. tok.mac # NoMac
      BY <1>0, <2>5
    <2>8. Caller(pc[w], req[w])'
      BY <2>1, <2>2, <2>3, <2>6, <2>7 DEF Caller, Calm, HeapFrame
    <2> QED BY <2>1, <2>2, <2>8, CalmMove
  <1>3. ASSUME NEW id \in live, handleDashboardRevokeTask(w, id)
        PROVE  TokenInv'
    <2> DEFINE r == [NoReq EXCEPT !.subject = id, !.todo = Descendants(id, heap[id].root)]
    <2>1. r.claims = NoTask /\ r.mac = NoMac
      BY DEF NoReq
    <2>2. Calm /\ issued' = issued /\ Goto(w, "dashWatermark", r)
      BY <1>3, StillIsCalm DEF handleDashboardRevokeTask
    <2>3. pc'[w] = "dashWatermark" /\ req'[w] = r
      BY <2>2, GotoShape
    <2>4. Caller(pc[w], req[w])'
      BY <1>0, <2>1, <2>2, <2>3 DEF Caller, Calm, HeapFrame
    <2> QED BY <2>1, <2>2, <2>4, CalmMove
  <1> QED BY <1>1, <1>2, <1>3 DEF Arrive

\* The task a token resolves to is one of the token's tree.
LEMMA LookupKeeps ==
    ASSUME TypeOK, TypeOK', TokenInv, NEW w \in Workers, LookupTask(w)
    PROVE  TokenInv'
  <1> DEFINE m == req[w].mac
             t == Resolve(m)
             r == [req[w] EXCEPT !.claims = t, !.todo = heap[t].lineage]
  <1>1. Calm /\ issued' = issued /\ pc[w] = "verified"
    BY StillIsCalm DEF LookupTask
  <1>2. Caller("verified", req[w]) /\ req[w] \in Requests
    BY <1>1, LocalsAt DEF TokenInv, CallersInv, LocalOK
  <1>3. CASE IsTaskActive(t)
    <2>1. r.claims = t /\ r.mac = m
      BY <1>2 DEF Requests
    <2>2. Goto(w, "resolved", r)
      BY <1>3 DEF LookupTask
    <2>3. pc'[w] = "resolved" /\ req'[w] = r
      BY <2>2, GotoShape
    <2>4. m # NoMac /\ m.id \notin forgotten
      BY <1>2 DEF Caller
    <2>5. Sound(m)
      BY <2>4 DEF TokenInv, MacsInv, Circulating
    <2>6. t \in DOMAIN heap /\ t # NoTask
      BY <1>3, NoMacIsNoTask DEF IsTaskActive, TypeOK, HeapOK
    <2>7. heap[t].root = m.id
      BY <2>5 DEF Resolve, IsIndexed, TokenInv, TreesInv, Sound
    <2>8. heap'[t].root = m.id
      BY <1>1, <2>6, <2>7 DEF Calm, HeapFrame, SameTask
    <2>9. Caller(pc[w], req[w])'
      BY <1>1, <2>1, <2>3, <2>4, <2>6, <2>8 DEF Caller, Calm, HeapFrame
    <2> QED BY <1>1, <2>1, <2>2, <2>9, CalmMove
  <1>4. CASE ~IsTaskActive(t)
    <2>1. Reply(w)
      BY <1>4 DEF LookupTask
    <2> QED BY <1>1, <2>1, CalmReply
  <1> QED BY <1>3, <1>4

\* Steps of a handler that keeps its caller, or replies, and touches nothing.
LEMMA MoveKeeps ==
    ASSUME TypeOK, TypeOK', TokenInv, NEW w \in Workers,
           \/ \E c \in Ids : CheckRevocation(w, c)
           \/ \E tool \in Calls \cap Tools, key \in HolderKeys \cup {NoKey} :
                 handleToolsCall(w, tool, key)
           \/ ResourceTool(w) \/ Refuse(w)
           \/ \E id \in live : toolTaskBind(w, id) \/ toolTaskRevoke(w, id)
           \/ RevokeSnapshot(w)
           \/ DashFinish(w)
    PROVE  TokenInv'
  <1>0. req[w] \in Requests
    BY LocalsAt DEF LocalOK
  <1>1. Calm /\ issued' = issued
    BY StillIsCalm DEF CheckRevocation, handleToolsCall, ResourceTool, Refuse, toolTaskBind,
                       toolTaskRevoke, RevokeSnapshot, DashFinish
  <1>2. CASE Reply(w)
    BY <1>1, <1>2, CalmReply
  <1>3. CASE \E p, S : /\ Goto(w, p, [req[w] EXCEPT !.todo = S])
                       /\ pc[w] \in {"resolved", "snapshot"} /\ p \in {"resolved", "cascade"}
    <2>1. PICK p, S : /\ Goto(w, p, [req[w] EXCEPT !.todo = S])
                      /\ pc[w] \in {"resolved", "snapshot"} /\ p \in {"resolved", "cascade"}
      BY <1>3
    <2> DEFINE r == [req[w] EXCEPT !.todo = S]
    <2>2. r.claims = req[w].claims /\ r.mac = req[w].mac
      BY <1>0 DEF Requests
    <2> QED BY <1>1, <2>1, <2>2, CalmGoOn
  <1>4. CASE pc[w] = "resolved" /\ Goto(w, "authed", [req[w] EXCEPT !.todo = {}, !.seen = {}])
    <2> DEFINE r == [req[w] EXCEPT !.todo = {}, !.seen = {}]
    <2>1. r.claims = req[w].claims /\ r.mac = req[w].mac
      BY <1>0 DEF Requests
    <2>2. Goto(w, "authed", r) /\ pc[w] = "resolved"
      BY <1>4
    <2> HIDE DEF r
    <2> QED BY <1>1, <2>1, <2>2, CalmGoOn
  <1>5. CASE pc[w] = "authed" /\ \E tool \in Tools : Goto(w, tool, req[w])
    BY <1>1, <1>5, CalmGoOn DEF Tools
  <1>6. CASE \E p, id : /\ Goto(w, p, [req[w] EXCEPT !.subject = id])
                        /\ pc[w] \in {"bind", "revoke"} /\ p \in {"bindKey", "watermark"}
    <2>1. PICK p, id : /\ Goto(w, p, [req[w] EXCEPT !.subject = id])
                       /\ pc[w] \in {"bind", "revoke"} /\ p \in {"bindKey", "watermark"}
      BY <1>6
    <2> DEFINE r == [req[w] EXCEPT !.subject = id]
    <2>2. r.claims = req[w].claims /\ r.mac = req[w].mac
      BY <1>0 DEF Requests
    <2> QED BY <1>1, <2>1, <2>2, CalmGoOn
  <1>7. ASSUME NEW c \in Ids, CheckRevocation(w, c)
        PROVE  TokenInv'
    <2>1. \/ Reply(w)
          \/ Goto(w, "resolved", [req[w] EXCEPT !.todo = req[w].todo \ {c}])
          \/ Goto(w, "authed", [req[w] EXCEPT !.todo = {}, !.seen = {}])
      BY <1>7 DEF CheckRevocation
    <2>2. pc[w] = "resolved"
      BY <1>7 DEF CheckRevocation
    <2> QED BY <1>2, <1>3, <1>4, <2>1, <2>2
  <1>8. ASSUME NEW tool \in Calls \cap Tools, NEW key, handleToolsCall(w, tool, key)
        PROVE  TokenInv'
    BY <1>2, <1>5, <1>8 DEF handleToolsCall
  <1>9. CASE \E id \in live : toolTaskBind(w, id) \/ toolTaskRevoke(w, id)
    BY <1>6, <1>9 DEF toolTaskBind, toolTaskRevoke
  <1>10. CASE RevokeSnapshot(w)
    BY <1>3, <1>10 DEF RevokeSnapshot
  <1>11. CASE ResourceTool(w) \/ Refuse(w) \/ DashFinish(w)
    BY <1>2, <1>11 DEF ResourceTool, Refuse, DashFinish
  <1> QED BY <1>7, <1>8, <1>9, <1>10, <1>11

LEMMA RevokeKeeps ==
    ASSUME TypeOK, TypeOK', TokenInv, NEW w \in Workers,
           \/ RevokeWatermark(w) \/ DashWatermark(w)
           \/ RevokeKey(w)
           \/ \E c \in Ids : RevokeChild(w, c) \/ DashChild(w, c)
           \/ AbandonTask(w) \/ RevokeFinish(w) \/ DashDelete(w)
    PROVE  TokenInv'
  <1>0. req[w] \in Requests /\ Caller(pc[w], req[w])
    BY LocalsAt DEF LocalOK, TokenInv, CallersInv
  <1>1. CASE RevokeWatermark(w) \/ DashWatermark(w)
    <2>1. /\ Watermark(req[w].subject)
          /\ UNCHANGED <<now, heap, live, sigIndex, keys, generations, issued, forgotten,
                         extended>>
      BY <1>1 DEF RevokeWatermark, DashWatermark, managerVars
    <2>2. Calm /\ req[w].subject \in revoked'
      BY <2>1 DEF Watermark, Calm, HeapFrame, KeyFrame, SameTask
    <2>3. \E p \in {"unkey", "dashDelete"} : Goto(w, p, req[w])
      BY <1>1 DEF RevokeWatermark, DashWatermark
    <2>4. pc[w] \in {"watermark", "dashWatermark"}
      BY <1>1 DEF RevokeWatermark, DashWatermark
    <2> QED BY <2>1, <2>2, <2>3, <2>4, CalmGoOn
  <1>2. CASE RevokeKey(w)
    <2> DEFINE t == req[w].subject
               D == DOMAIN keys \ {r \in {t} : heap[t].root = r}
    <2>1. /\ keys' = Restrict(keys, D) /\ Goto(w, "snapshot", req[w]) /\ pc[w] = "unkey"
          /\ UNCHANGED <<now, heap, live, sigIndex, watermarks, generations, issued,
                         revoked, forgotten, extended>>
      BY <1>2 DEF RevokeKey, managerVars, historyVars
    <2>2. keys \in [DOMAIN keys -> KeyEntries]
      BY DEF TypeOK, TablesOK
    <2>3. DOMAIN keys' = D /\ \A r \in D : keys'[r] = keys[r]
      BY <2>1, <2>2 DEF Restrict
    <2>4. t \in revoked
      BY <1>0, <2>1 DEF Caller
    <2>5. Calm
      BY <2>1, <2>3, <2>4 DEF Calm, HeapFrame, KeyFrame, SameTask
    <2> QED BY <2>1, <2>5, CalmGoOn
  <1>3. ASSUME NEW c \in Ids, RevokeChild(w, c) \/ DashChild(w, c)
        PROVE  TokenInv'
    <2> DEFINE r == [req[w] EXCEPT !.todo = @ \ {c}]
    <2>1. /\ Watermark(c) /\ Remove({c}) /\ Goto(w, pc[w], r)
          /\ UNCHANGED <<now, keys, generations, issued, forgotten, extended>>
          /\ pc[w] \in {"cascade", "dashCascade"}
      BY <1>3 DEF RevokeChild, DashChild, CascadeChild, RevokeTask
    <2>2. Calm
      BY <2>1, RemoveIsCalm DEF Watermark
    <2>3. r.claims = req[w].claims /\ r.mac = req[w].mac
      BY <1>0 DEF Requests
    <2> HIDE DEF r
    <2> QED BY <2>1, <2>2, <2>3, CalmGoOn
  <1>4. CASE AbandonTask(w) \/ RevokeFinish(w) \/ DashDelete(w)
    <2>1. Remove({req[w].subject}) /\ UNCHANGED <<now, tokenVars, historyVars>>
      BY <1>4 DEF AbandonTask, RevokeFinish, DashDelete, RevokeTask
    <2>2. Calm /\ issued' = issued
      BY <2>1, RemoveIsCalm DEF tokenVars, historyVars
    <2>3. Reply(w) \/ (Goto(w, "dashCascade", req[w]) /\ pc[w] = "dashDelete")
      BY <1>4 DEF AbandonTask, RevokeFinish, DashDelete
    <2> QED BY <2>2, <2>3, CalmReply, CalmGoOn
  <1> QED BY <1>1, <1>2, <1>3, <1>4

LEMMA BindTokens ==
    ASSUME TypeOK, TypeOK', TokenInv, NEW w \in Workers, NEW key \in HolderKeys, BindKey(w, key)
    PROVE  TokenInv'
  <1> DEFINE t == req[w].subject
  <1>1. HeapKept
    BY BindKeeps
  <1>2. /\ heap' = [heap EXCEPT ![t].holder = key, ![t].bindDeadline = NoDeadline]
        /\ Reply(w) /\ UNCHANGED <<now, live, sigIndex, tokenVars, historyVars>>
    BY DEF BindKey, BindHolderKey
  <1>3. \A u \in DOMAIN heap : heap'[u].digest = heap[u].digest
    <2>1. heap \in [DOMAIN heap -> Tasks]
      BY DEF TypeOK, HeapOK
    <2> QED BY <1>2, <2>1 DEF Tasks
  <1>4. Calm /\ issued' = issued
    BY <1>1, <1>2, <1>3 DEF Calm, HeapFrame, KeyFrame, HeapKept, tokenVars, historyVars
  <1> QED BY <1>2, <1>4, CalmReply

LEMMA BackgroundKeeps ==
    ASSUME TypeOK, TokenInv, Background \/ Clock \/ UNCHANGED vars
    PROVE  TokenInv'
  <1>1. /\ forgotten' = forgotten /\ revoked' = revoked /\ issued' = issued
        /\ extended' = extended /\ heap' = heap /\ generations' = generations /\ pc' = pc /\ req' = req
    BY DEF Background, CleanupTasks, cleanup, Remove, gc, CleanupKeys, Clock,
           managerVars, tokenVars, historyVars, vars
  <1>2. KeyFrame
    <2>1. CASE CleanupKeys
      <3>1. keys \in [DOMAIN keys -> KeyEntries] /\ keys' = Restrict(keys, DOMAIN keys \ ExpiredKeys)
        BY <2>1 DEF CleanupKeys, TypeOK, TablesOK
      <3>2. /\ DOMAIN keys' = DOMAIN keys \ ExpiredKeys
            /\ \A r \in DOMAIN keys' : keys'[r] = keys[r]
        BY <3>1 DEF Restrict
      <3> QED BY <1>1, <2>1, <3>2 DEF KeyFrame, ExpiredKeys, CleanupKeys, managerVars
    <2>2. CASE keys' = keys /\ now' \in {now, now + 1}
      BY <1>1, <2>2 DEF KeyFrame
    <2> QED BY <2>1, <2>2 DEF Background, CleanupTasks, gc, Clock, Tick, managerVars, tokenVars, vars
  <1>3. /\ live' \subseteq live /\ DOMAIN sigIndex' \subseteq DOMAIN sigIndex
        /\ \A m \in DOMAIN sigIndex' : sigIndex'[m] = sigIndex[m]
    <2>1. CASE CleanupTasks
      <3>1. Remove(Overdue)
        BY <2>1 DEF CleanupTasks, cleanup
      <3> QED BY <3>1, RemoveOK DEF Remove, TypeOK
    <2>2. CASE live' = live /\ sigIndex' = sigIndex
      BY <2>2
    <2> QED BY <2>1, <2>2 DEF Background, gc, CleanupKeys, Clock, managerVars, vars
  <1>4. HeapFrame
    BY <1>1 DEF HeapFrame, SameTask
  <1>5. Calm
    BY <1>1, <1>2, <1>3, <1>4 DEF Calm
  <1>6. Circulating' \subseteq Circulating
    BY <1>1 DEF Circulating
  <1>7. CallersInv'
    BY <1>1 DEF TokenInv, CallersInv, Caller
  <1> QED BY <1>5, <1>6, <1>7, CalmStep

\* A restart forgets every tree, so nothing has to be kept for its tokens.
LEMMA RestartKeeps ==
    ASSUME TypeOK, TypeOK', TokenInv, Restart
    PROVE  TokenInv'
  <1>1. /\ live' = {} /\ sigIndex' = EmptyMap /\ keys' = EmptyMap
        /\ pc' = [w \in Workers |-> "idle"] /\ req' = [w \in Workers |-> NoReq]
        /\ forgotten' = DOMAIN heap
        /\ UNCHANGED <<now, heap, generations, issued, extended>>
    BY DEF Restart
  <1>2. DOMAIN sigIndex' = {} /\ DOMAIN keys' = {}
    BY <1>1 DEF EmptyMap
  <1>3. MacsInv'
    <2> SUFFICES ASSUME NEW m \in Circulating' PROVE Sound(m)' /\ Covered(m)'
      BY DEF MacsInv
    <2>1. \A w \in Workers : req'[w].mac = NoMac
      BY <1>1 DEF NoReq
    <2>2. m \in Circulating
      BY <1>1, <2>1 DEF Circulating
    <2>3. Sound(m)
      BY <2>2 DEF TokenInv, MacsInv
    <2> QED BY <1>1, <1>2, <2>3 DEF Sound, Covered
  <1>4. CallersInv'
    BY <1>1, ReplyCaller DEF CallersInv
  <1>5. TreesInv' /\ FreshInv'
    BY <1>1, <1>2 DEF TokenInv, TreesInv, FreshInv, Digested
  <1> QED BY <1>3, <1>4, <1>5 DEF TokenInv

\* A new task of the caller's agent, in a tree of this run of the broker: a
\* root, or a child of the task the caller's token stands for.
LEMMA AllocateKeeps ==
    ASSUME TypeOK, TypeOK', TokenInv, NEW w \in Workers, NEW id, NEW T,
           id \notin DOMAIN heap, heap' = Put(heap, id, T), live' = live \cup {id},
           T.digest = NoMac, T.root \in T.lineage, T.root \notin forgotten,
           T.agent = req[w].agent,
           T.depth > 0 /\ req[w].claims # NoTask =>
               /\ T.root = heap[req[w].claims].root
               /\ IsSubsetOf(T.envelope, heap[req[w].claims].envelope),
           pc[w] \in {"create", "delegate"}, Goto(w, "mint", [req[w] EXCEPT !.subject = id]),
           UNCHANGED <<now, sigIndex, tokenVars, historyVars>>
    PROVE  TokenInv'
  <1> DEFINE r == [req[w] EXCEPT !.subject = id]
  <1>0. LocalOK(DOMAIN heap, pc[w], req[w]) /\ Caller(pc[w], req[w]) /\ req[w] \in Requests
    BY LocalsAt DEF TokenInv, CallersInv, LocalOK
  <1>1. /\ DOMAIN heap' = DOMAIN heap \cup {id} /\ heap'[id] = T
        /\ \A t \in DOMAIN heap : heap'[t] = heap[t]
    BY DEF Put
  <1>2. HeapFrame /\ KeyFrame /\ issued' = issued
    BY <1>1 DEF HeapFrame, KeyFrame, SameTask, tokenVars, historyVars
  <1>3. /\ r.claims = req[w].claims /\ r.mac = req[w].mac /\ r.agent = req[w].agent
    BY <1>0 DEF Requests
  <1>4. r.subject = id
    BY <1>0 DEF Requests
  <1>5. /\ pc'[w] = "mint" /\ req'[w] = r
        /\ \A v \in Workers : v # w => Untouched(v)
    BY GotoShape
  <1> HIDE DEF r
  <1>6. MacsInv'
    <2>1. Circulating' \subseteq Circulating
      BY <1>2, <1>3, <1>5, MovedMacs
    <2> QED BY <1>2, <2>1, MacsKept DEF MacsInv, TokenInv
  <1>7. Caller(pc[w], req[w])'
    <2>1. /\ req[w].claims = NoTask <=> req[w].mac = NoMac
          /\ req[w].claims # NoTask => heap[req[w].claims].root = req[w].mac.id
          /\ req[w].mac.id \notin forgotten
      BY <1>0 DEF Caller
    <2>2. req[w].claims # NoTask => heap'[req[w].claims] = heap[req[w].claims]
      BY <1>0, <1>1 DEF LocalOK
    <2> QED BY <1>1, <1>2, <1>3, <1>4, <1>5, <2>1, <2>2 DEF Caller, HeapFrame
  <1>8. CallersInv'
    BY <1>2, <1>5, <1>7, CallersStep DEF TokenInv
  <1>9. TreesInv'
    <2>1. ASSUME NEW m \in DOMAIN sigIndex'
          PROVE  heap'[sigIndex'[m]].root = m.id
      <3>1. m \in DOMAIN sigIndex /\ sigIndex[m] \in DOMAIN heap /\ sigIndex' = sigIndex
        BY DEF TypeOK, TablesOK
      <3> QED BY <1>1, <3>1 DEF TokenInv, TreesInv
    <2>2. ASSUME NEW t \in DOMAIN heap'
          PROVE  Digested(t)' /\ heap'[t].root \in heap'[t].lineage
      BY <1>1 DEF TokenInv, TreesInv, Digested
    <2> QED BY <2>1, <2>2 DEF TreesInv
  <1>10. FreshInv'
    BY <1>1, <1>2 DEF TokenInv, FreshInv, TypeOK, HeapOK, HeapFrame, KeyFrame
  <1> QED BY <1>6, <1>8, <1>9, <1>10 DEF TokenInv

LEMMA CreateKeeps ==
    ASSUME TypeOK, TypeOK', TokenInv, NEW w \in Workers, NEW id \in Ids, NEW ttl,
           NEW cd, NEW key, toolTaskCreate(w, id, ttl, cd, key)
    PROVE  TokenInv'
  <1> DEFINE T == NewRoot(id, req[w].agent, ttl, Constrain(Policy[req[w].agent], w), cd, key)
  <1>1. /\ pc[w] = "create" /\ id \notin DOMAIN heap /\ heap' = Put(heap, id, T)
        /\ live' = live \cup {id} /\ Goto(w, "mint", [req[w] EXCEPT !.subject = id])
        /\ UNCHANGED <<now, sigIndex, tokenVars, historyVars>>
    BY DEF toolTaskCreate, CreateTask, IsNewULID
  <1>2. /\ T.digest = NoMac /\ T.root = id /\ T.lineage = {id} /\ T.agent = req[w].agent
        /\ T.depth = 0
    BY DEF NewRoot
  <1>3. id \notin forgotten
    BY <1>1 DEF TypeOK, TablesOK
  <1> HIDE DEF T
  <1> QED BY <1>1, <1>2, <1>3, AllocateKeeps

LEMMA DelegateKeeps ==
    ASSUME TypeOK, TypeOK', TokenInv, NEW w \in Workers, NEW id \in Ids, NEW p \in live,
           NEW ttl, NEW env, NEW cd, Delegate(w, id, p, ttl, env, cd)
    PROVE  TokenInv'
  <1> DEFINE T == NewChild(id, p, req[w].agent, ttl, env, cd)
  <1>1. /\ pc[w] = "delegate" /\ id \notin DOMAIN heap /\ heap' = Put(heap, id, T)
        /\ live' = live \cup {id} /\ Goto(w, "mint", [req[w] EXCEPT !.subject = id])
        /\ UNCHANGED <<now, sigIndex, tokenVars, historyVars>>
        /\ req[w].claims \in {NoTask, p} /\ IsSubsetOf(env, heap[p].envelope)
    BY DEF Delegate, CreateChildTask, MayCreateChild, MayDelegateFrom, IsNewULID
  <1>2. /\ T.digest = NoMac /\ T.root = heap[p].root /\ T.lineage = heap[p].lineage \cup {id}
        /\ T.agent = req[w].agent /\ T.envelope = env
    BY DEF NewChild
  <1>3. heap[p].root \in heap[p].lineage /\ heap[p].root \notin forgotten
    BY DEF TokenInv, TreesInv, FreshInv, TypeOK, HeapOK
  <1> HIDE DEF T
  <1> QED BY <1>1, <1>2, <1>3, AllocateKeeps

\* What both mintings have in common.
LEMMA MintKeeps ==
    ASSUME TypeOK, TypeOK', TokenInv, NEW w \in Workers, pc[w] = "mint", NEW mac, NEW oversize,
           Minted(w, mac, oversize),
           UNCHANGED <<live, sigIndex, issued, revoked, forgotten>>, extended \subseteq extended',
           \A r \in DOMAIN keys' : r \notin forgotten,
           \A m \in Circulating : Sound(m)' /\ Covered(m)', Sound(mac)', Covered(mac)',
           mac.id = heap[req[w].subject].root,
           \E i \in DOMAIN mac.chain : mac.chain[i].envelope = heap[req[w].subject].envelope
    PROVE  TokenInv'
  <1> DEFINE t == req[w].subject
             r == [req[w] EXCEPT !.mac = mac]
             T == [heap[t] EXCEPT !.digest = mac]
  <1>0. /\ LocalOK(DOMAIN heap, "mint", req[w]) /\ Caller("mint", req[w])
        /\ req[w] \in Requests /\ t \in DOMAIN heap /\ heap[t] \in Tasks
    BY LocalsAt DEF TokenInv, CallersInv, LocalOK, HasSubject, TypeOK, HeapOK
  <1>1. HeapFrame /\ DOMAIN heap' = DOMAIN heap
    BY MintedKeeps DEF HeapKept, HeapFrame
  <1>2. mac # NoMac /\ mac.id \notin forgotten
    <2>1. mac.id \in DOMAIN heap
      BY <1>1 DEF Sound
    <2> QED BY <1>0, <2>1, NoMacIsNoTask DEF Caller
  <1>3. CASE oversize
    <2>1. Goto(w, "unmint", req[w]) /\ heap' = heap
      BY <1>3 DEF Minted
    <2>2. pc'[w] = "unmint" /\ req'[w] = req[w] /\ \A v \in Workers : v # w => Untouched(v)
      BY <2>1, GotoShape
    <2>3. Circulating' \subseteq Circulating
      BY <2>2, MovedMacs
    <2>4. MacsInv'
      BY <2>3 DEF MacsInv
    <2>5. Caller(pc[w], req[w])'
      BY <1>0, <1>1, <2>2, KeepsCaller
    <2>6. CallersInv'
      BY <1>1, <2>2, <2>5, CallersStep DEF TokenInv
    <2>7. TreesInv' /\ FreshInv'
      BY <2>1 DEF TokenInv, TreesInv, FreshInv, Digested
    <2> QED BY <2>4, <2>6, <2>7 DEF TokenInv
  <1>4. CASE ~oversize
    <2>1. Goto(w, "register", r) /\ heap' = [heap EXCEPT ![t] = T]
      BY <1>4 DEF Minted
    <2>2. r.mac = mac /\ r.subject = t
      BY <1>0 DEF Requests
    <2>3. pc'[w] = "register" /\ req'[w] = r /\ \A v \in Workers : v # w => Untouched(v)
      BY <2>1, GotoShape
    <2>4. /\ heap'[t] = T /\ T.digest = mac
          /\ \A u \in DOMAIN heap : u # t => heap'[u] = heap[u]
      BY <1>0, <2>1 DEF TypeOK, HeapOK, Tasks
    <2>5. SameTask(heap[t], heap'[t])
      BY <1>0, <1>1 DEF HeapFrame
    <2> HIDE DEF r, T
    <2>6. MacsInv'
      <3>1. Circulating' \subseteq Circulating \cup {mac}
        BY <2>2, <2>3 DEF Circulating, Untouched
      <3> QED BY <3>1 DEF MacsInv
    <2>7. Caller(pc[w], req[w])'
      BY <1>2, <2>2, <2>3, <2>5, <1>1 DEF Caller, SameTask, HeapFrame
    <2>8. CallersInv'
      BY <1>1, <2>3, <2>7, CallersStep DEF TokenInv
    <2>9. ASSUME NEW m \in DOMAIN sigIndex'
          PROVE  heap'[sigIndex'[m]].root = m.id
      <3>1. m \in DOMAIN sigIndex /\ sigIndex[m] \in DOMAIN heap /\ sigIndex' = sigIndex
        BY DEF TypeOK, TablesOK
      <3> QED BY <1>1, <3>1 DEF TokenInv, TreesInv, HeapFrame, SameTask
    <2>10. ASSUME NEW u \in DOMAIN heap'
           PROVE  Digested(u)' /\ heap'[u].root \in heap'[u].lineage
      <3>1. u \in DOMAIN heap /\ SameTask(heap[u], heap'[u])
        BY <1>1 DEF HeapFrame
      <3>2. heap'[u].root \in heap'[u].lineage
        BY <3>1 DEF TokenInv, TreesInv, SameTask
      <3>3. CASE u = t
        BY <2>4, <3>1, <3>2, <3>3 DEF Digested, SameTask
      <3>4. CASE u # t
        BY <2>4, <3>1, <3>2, <3>4 DEF TokenInv, TreesInv, Digested
      <3> QED BY <3>3, <3>4
    <2>11. FreshInv'
      <3>1. \A u \in live' : heap'[u].root = heap[u].root
        BY <1>1 DEF HeapFrame, SameTask, TypeOK, HeapOK
      <3> QED BY <3>1 DEF TokenInv, FreshInv
    <2> QED BY <2>6, <2>8, <2>9, <2>10, <2>11 DEF TokenInv, TreesInv
  <1> QED BY <1>3, <1>4

\* The caveats of a task stay within its root's envelope.
LEMMA CaveatsWithin ==
    ASSUME TypeOK, DelegationAttenuates, TokenInv, NEW t \in DOMAIN heap
    PROVE  /\ heap[t].root \in DOMAIN heap
           /\ heap[heap[t].root].root = heap[t].root
           /\ heap[heap[t].root].agent = heap[t].agent
           /\ CaveatsFor(t).envelope = heap[t].envelope
           /\ Within(heap[t].envelope, heap[heap[t].root].envelope)
           /\ CaveatsFor(t).expiresBefore <= heap[t].expires
  <1>1. heap[t].root \in heap[t].lineage /\ heap[t].expires \in Nat
    BY DEF TokenInv, TreesInv, TypeOK, HeapOK, Tasks
  <1>2. RFC3339(heap[t].expires) <= heap[t].expires
    BY <1>1, UnitsAssumption DEF RFC3339
  <1> QED BY <1>1, <1>2 DEF DelegationAttenuates, CaveatsFor, Caveats

LEMMA MintRootKeeps ==
    ASSUME TypeOK, TypeOK', DelegationAttenuates, TokenInv, NEW w \in Workers, NEW oversize,
           MintRootToken(w, oversize)
    PROVE  TokenInv'
  <1> DEFINE t == req[w].subject
             r == heap[t].root
             g == generations[r] + 1
             entry == [gen |-> g, maxExpiry |-> heap[t].expires]
  <1>0. PICK b : b = CaveatsFor(t)
    OBVIOUS
  <1>m. PICK mac : mac = MintRoot(r, g, req[w].agent, b)
    OBVIOUS
  <1>1. /\ pc[w] = "mint" /\ Minted(w, mac, oversize)
        /\ generations' = [generations EXCEPT ![r] = g]
        /\ keys' = Put(keys, r, entry)
        /\ UNCHANGED <<now, live, sigIndex, watermarks, issued, historyVars>>
    BY <1>0, <1>m DEF MintRootToken
  <1>2. LocalOK(DOMAIN heap, "mint", req[w]) /\ Caller("mint", req[w])
    BY <1>1, LocalsAt DEF TokenInv, CallersInv
  <1>3. /\ t \in DOMAIN heap /\ r \in DOMAIN heap /\ r \in Ids /\ g \in Nat
        /\ generations[r] \in Nat
    BY <1>2 DEF LocalOK, HasSubject, TypeOK, HeapOK, TablesOK
  <1>4. /\ heap[r].root = r /\ heap[r].agent = heap[t].agent
        /\ b.envelope = heap[t].envelope /\ Within(heap[t].envelope, heap[r].envelope)
        /\ b.expiresBefore <= heap[t].expires
    BY <1>0, <1>3, CaveatsWithin
  <1>5. heap[t].agent = req[w].agent /\ r \notin forgotten
    BY <1>2 DEF Caller
  <1>6. /\ mac.id = r /\ mac.gen = g /\ mac.agent = req[w].agent /\ mac.chain = <<b>>
    BY <1>m DEF MintRoot
  <1>7. DOMAIN mac.chain = {1} /\ mac.chain[1] = b /\ mac.chain # <<>>
    BY <1>6
  <1>8. HeapFrame
    BY <1>1, MintedKeeps DEF HeapKept, HeapFrame, historyVars
  <1>9. /\ DOMAIN keys' = DOMAIN keys \cup {r} /\ keys'[r] = entry
        /\ \A x \in DOMAIN keys : x # r => keys'[x] = keys[x]
    BY <1>1 DEF Put
  <1>10. /\ generations'[r] = g
         /\ \A x \in Ids : x # r => generations'[x] = generations[x]
    BY <1>1, <1>3 DEF TypeOK, TablesOK
  <1>11. entry.gen = g /\ entry.maxExpiry = heap[t].expires
    OBVIOUS
  <1> HIDE DEF entry
  <1>12. Sound(mac)'
    <2>1. SameTask(heap[r], heap'[r]) /\ r \in DOMAIN heap'
      BY <1>3, <1>8 DEF HeapFrame
    <2>2. heap'[r].root = r /\ heap'[r].agent = mac.agent /\ heap'[r].envelope = heap[r].envelope
      BY <1>4, <1>5, <1>6, <2>1 DEF SameTask
    <2>3. mac.gen <= generations'[r]
      BY <1>3, <1>6, <1>10
    <2>4. \A i \in DOMAIN mac.chain : Within(mac.chain[i].envelope, heap[r].envelope)
      BY <1>4, <1>7
    <2> QED BY <1>6, <1>7, <2>1, <2>2, <2>3, <2>4 DEF Sound
  <1>13. Covered(mac)'
    BY <1>4, <1>6, <1>7, <1>9, <1>11 DEF Covered
  <1>14. ASSUME NEW m \in Circulating
         PROVE  Sound(m)' /\ Covered(m)'
    <2>1. m \in Macaroons /\ Sound(m) /\ Covered(m)
      BY MacTypes DEF TokenInv, MacsInv
    <2>2. m.id \in Ids /\ m.gen \in Nat /\ m.gen <= generations[m.id] /\ generations[m.id] \in Nat
      BY <2>1 DEF Sound, Macaroons, TypeOK, HeapOK, TablesOK
    <2>3. generations'[m.id] \in Nat /\ generations[m.id] <= generations'[m.id]
      BY <1>3, <1>10, <2>2
    <2>4. Sound(m)'
      BY <1>8, <2>1, <2>2, <2>3, SoundKept
    <2>5. CASE m.id = r
      BY <1>3, <1>9, <1>10, <1>11, <2>2, <2>4, <2>5 DEF Covered
    <2>6. CASE m.id # r
      BY <1>1, <1>9, <1>10, <2>1, <2>2, <2>4, <2>6 DEF Covered, historyVars
    <2> QED BY <2>5, <2>6
  <1>15. \A x \in DOMAIN keys' : x \notin forgotten
    BY <1>5, <1>9 DEF TokenInv, FreshInv
  <1>16. \E i \in DOMAIN mac.chain : mac.chain[i].envelope = heap[t].envelope
    BY <1>4, <1>7
  <1>17. UNCHANGED <<live, sigIndex, issued, revoked, forgotten>> /\ extended \subseteq extended'
    BY <1>1 DEF historyVars
  <1> QED BY <1>1, <1>6, <1>12, <1>13, <1>14, <1>15, <1>16, <1>17, MintKeeps

\* One more block at the end of a chain.
LEMMA ChainGrows ==
    ASSUME NEW m0 \in Macaroons, NEW b \in Block, NEW mac, mac = MintDelegated(m0, b),
           m0.chain # <<>>
    PROVE  /\ mac \in Macaroons /\ mac.id = m0.id /\ mac.gen = m0.gen /\ mac.agent = m0.agent
           /\ mac.chain # <<>> /\ mac.chain[1] = m0.chain[1]
           /\ \A i \in DOMAIN m0.chain : i \in DOMAIN mac.chain /\ mac.chain[i] = m0.chain[i]
           /\ \A i \in DOMAIN mac.chain : i \in DOMAIN m0.chain \/ mac.chain[i] = b
           /\ \E i \in DOMAIN mac.chain : mac.chain[i] = b
  <1>1. /\ mac \in Macaroons /\ mac.id = m0.id /\ mac.gen = m0.gen /\ mac.agent = m0.agent
        /\ mac.chain = Append(m0.chain, b)
    BY MintDelegatedType
  <1>2. m0.chain \in Seq(Block)
    BY DEF Macaroons
  <1>3. /\ \A i \in DOMAIN m0.chain : i \in DOMAIN mac.chain /\ mac.chain[i] = m0.chain[i]
        /\ \A i \in DOMAIN mac.chain : i \in DOMAIN m0.chain \/ mac.chain[i] = b
        /\ \E i \in DOMAIN mac.chain : mac.chain[i] = b
    BY <1>1, <1>2
  <1>4. 1 \in DOMAIN m0.chain
    BY FirstBlock
  <1>5. mac.chain # <<>>
    BY <1>3, <1>4
  <1> QED BY <1>1, <1>3, <1>4, <1>5

\* A token made from another one, by a minting or by a holder, without touching
\* the keys.  Only a holder may add a block that is not within the root's envelope.
LEMMA GrownToken ==
    ASSUME TypeOK, HeapFrame, KeyFrame, NEW m0 \in Macaroons, Sound(m0), Covered(m0),
           NEW b \in Block, NEW mac, mac = MintDelegated(m0, b),
           mac \notin extended' =>
               m0 \notin extended /\ Within(b.envelope, heap[m0.id].envelope)
    PROVE  Sound(mac)' /\ Covered(mac)'
  <1>0. m0.chain # <<>>
    BY DEF Sound
  <1>1. /\ mac \in Macaroons /\ mac.id = m0.id /\ mac.gen = m0.gen /\ mac.agent = m0.agent
        /\ mac.chain # <<>> /\ mac.chain[1] = m0.chain[1]
    BY <1>0, ChainGrows
  <1>2. /\ \A i \in DOMAIN m0.chain : i \in DOMAIN mac.chain /\ mac.chain[i] = m0.chain[i]
        /\ \A i \in DOMAIN mac.chain : i \in DOMAIN m0.chain \/ mac.chain[i] = b
    BY <1>0, ChainGrows
  <1>3. m0.id \in DOMAIN heap' /\ SameTask(heap[m0.id], heap'[m0.id])
    BY DEF HeapFrame, Sound
  <1>4. ASSUME mac \notin extended', NEW i \in DOMAIN mac.chain
        PROVE  Within(mac.chain[i].envelope, heap[m0.id].envelope)
    BY <1>2, <1>4 DEF Sound
  <1>5. Sound(mac)'
    BY <1>1, <1>3, <1>4 DEF Sound, SameTask, KeyFrame
  <1>6. Covered(m0)'
    BY CoveredKept
  <1>7. ~Expired(mac, now') => ~Expired(m0, now')
    BY <1>2 DEF Expired
  <1>8. Covered(mac)'
    BY <1>1, <1>6, <1>7 DEF Covered
  <1> QED BY <1>5, <1>8

LEMMA MintDelegatedKeeps ==
    ASSUME TypeOK, TypeOK', DelegationAttenuates, TokenInv, NEW w \in Workers, NEW oversize,
           MintDelegatedToken(w, oversize)
    PROVE  TokenInv'
  <1> DEFINE t == req[w].subject
  <1>0. PICK b : b = CaveatsFor(t)
    OBVIOUS
  <1>p. PICK m0 : m0 = req[w].mac
    OBVIOUS
  <1>m. PICK mac : mac = MintDelegated(m0, b)
    OBVIOUS
  <1>1. /\ pc[w] = "mint" /\ m0 # NoMac /\ heap[t].depth > 0 /\ Minted(w, mac, oversize)
        /\ extended' = extended \cup {m \in {mac} : m0 \in extended}
        /\ UNCHANGED <<now, live, sigIndex, watermarks, keys, generations, issued,
                       revoked, forgotten>>
    BY <1>0, <1>p, <1>m DEF MintDelegatedToken, tokenVars
  <1>2. LocalOK(DOMAIN heap, "mint", req[w]) /\ Caller("mint", req[w])
    BY <1>1, LocalsAt DEF TokenInv, CallersInv
  <1>3. t \in DOMAIN heap /\ m0 \in Macaroons /\ m0 \in Circulating
    BY <1>1, <1>2, <1>p DEF LocalOK, HasSubject, Requests, Circulating
  <1>4. b \in Block /\ b.envelope = heap[t].envelope
    BY <1>0, <1>3, CaveatsForType, CaveatsWithin DEF TypeOK
  <1>5. heap[t].root = m0.id
    BY <1>1, <1>2, <1>p DEF Caller
  <1>6. Within(heap[t].envelope, heap[m0.id].envelope)
    BY <1>3, <1>5, CaveatsWithin
  <1>7. HeapFrame /\ extended \subseteq extended'
    BY <1>1, MintedKeeps DEF HeapKept, HeapFrame
  <1>8. KeyFrame
    BY <1>1 DEF KeyFrame
  <1>9. Sound(m0) /\ Covered(m0) /\ m0.chain # <<>>
    BY <1>3 DEF TokenInv, MacsInv, Sound
  <1>10. mac.id = m0.id /\ \E i \in DOMAIN mac.chain : mac.chain[i] = b
    BY <1>3, <1>4, <1>9, <1>m, ChainGrows
  <1>11. mac \notin extended' => m0 \notin extended
    BY <1>1
  <1>12. Sound(mac)' /\ Covered(mac)'
    BY <1>3, <1>4, <1>6, <1>7, <1>8, <1>9, <1>11, <1>m, GrownToken
  <1>13. \A m \in Circulating : Sound(m)' /\ Covered(m)'
    BY <1>7, <1>8, MacsKept DEF TokenInv
  <1>14. \A x \in DOMAIN keys' : x \notin forgotten
    BY <1>1 DEF TokenInv, FreshInv
  <1>15. \E i \in DOMAIN mac.chain : mac.chain[i].envelope = heap[t].envelope
    BY <1>4, <1>10
  <1>16. UNCHANGED <<live, sigIndex, issued, revoked, forgotten>>
    BY <1>1
  <1> QED BY <1>1, <1>5, <1>7, <1>10, <1>12, <1>13, <1>14, <1>15, <1>16, MintKeeps

\* A holder appends caveats: the broker notices nothing.
LEMMA AttenuateKeeps ==
    ASSUME TypeOK, TokenInv, NEW tok \in issued, NEW env \in HolderEnvs, Attenuate(tok, env)
    PROVE  TokenInv'
  <1> DEFINE b == Caveats(env, FALSE, 0, MaxTime)
  <1>m. PICK mac : mac = MintDelegated(tok.mac, b)
    OBVIOUS
  <1>1. /\ issued' = issued \cup {[tok EXCEPT !.mac = mac]} /\ extended' = extended \cup {mac}
        /\ UNCHANGED <<now, heap, live, sigIndex, watermarks, keys, generations, pc, req,
                       revoked, forgotten>>
    BY <1>m DEF Attenuate, managerVars
  <1>2. HeapFrame /\ KeyFrame
    BY <1>1 DEF HeapFrame, KeyFrame, SameTask
  <1>3. b \in Block
    BY HolderBlockType
  <1>4. tok.mac \in Circulating /\ tok \in Token
    BY DEF Circulating, TypeOK, TablesOK
  <1>5. tok.mac \in Macaroons /\ Sound(tok.mac) /\ Covered(tok.mac)
    BY <1>4, MacTypes DEF TokenInv, MacsInv
  <1>6. Sound(mac)' /\ Covered(mac)'
    BY <1>1, <1>2, <1>3, <1>5, <1>m, GrownToken
  <1>7. [tok EXCEPT !.mac = mac].mac = mac
    BY <1>4 DEF Token
  <1>8. Circulating' \subseteq Circulating \cup {mac}
    BY <1>1, <1>7 DEF Circulating
  <1>9. MacsInv'
    BY <1>2, <1>6, <1>8, MacsKept DEF MacsInv, TokenInv
  <1>10. CallersInv'
    BY <1>1 DEF TokenInv, CallersInv, Caller
  <1>11. TreesInv' /\ FreshInv'
    BY <1>1 DEF TokenInv, TreesInv, FreshInv, Digested
  <1> QED BY <1>9, <1>10, <1>11 DEF TokenInv

LEMMA RegisterKeeps ==
    ASSUME TypeOK, TypeOK', TokenInv, NEW w \in Workers, RegisterToken(w)
    PROVE  TokenInv'
  <1> DEFINE m == req[w].mac
             t == req[w].subject
  <1>1. /\ pc[w] = "register" /\ sigIndex' = Put(sigIndex, m, t)
        /\ issued' = issued \cup {[mac |-> m, task |-> t]}
        /\ Reply(w)
        /\ UNCHANGED <<now, heap, live, watermarks, keys, generations, revoked, forgotten,
                       extended>>
    BY DEF RegisterToken, RegisterSignature, historyVars
  <1>2. m # NoMac /\ heap[t].root = m.id
    BY <1>1 DEF TokenInv, CallersInv, Caller
  <1>3. /\ pc'[w] = "idle" /\ req'[w] = NoReq /\ NoReq.mac = NoMac
        /\ \A v \in Workers : v # w => Untouched(v)
    BY <1>1, GotoShape DEF Reply, NoReq
  <1>4. HeapFrame /\ KeyFrame
    BY <1>1 DEF HeapFrame, KeyFrame, SameTask
  <1>5. MacsInv'
    <2>1. m \in Circulating
      BY <1>2 DEF Circulating
    <2>2. Circulating' \subseteq Circulating
      BY <1>1, <1>3, <2>1 DEF Circulating, Untouched
    <2> QED BY <1>4, <2>2, MacsKept DEF MacsInv, TokenInv
  <1>6. CallersInv'
    BY <1>3, <1>4, ReplyCaller, CallersStep DEF TokenInv
  <1>7. \A x \in DOMAIN sigIndex' : heap'[sigIndex'[x]].root = x.id
    BY <1>1, <1>2 DEF Put, TokenInv, TreesInv
  <1>8. TreesInv' /\ FreshInv'
    BY <1>1, <1>7 DEF TokenInv, TreesInv, FreshInv, Digested
  <1> QED BY <1>5, <1>6, <1>8 DEF TokenInv

LEMMA TokenInit == Init => TokenInv
  <1> SUFFICES ASSUME Init PROVE TokenInv
    OBVIOUS
  <1>1. \A w \in Workers : pc[w] = "idle" /\ req[w] = NoReq
    BY DEF Init
  <1>2. NoReq.claims = NoTask /\ NoReq.mac = NoMac
    BY DEF NoReq
  <1>3. MacsInv /\ CallersInv
    BY <1>1, <1>2 DEF Init, MacsInv, Circulating, CallersInv, Caller
  <1>4. TreesInv /\ FreshInv
    BY DEF Init, ManagerInit, EmptyMap, TreesInv, FreshInv
  <1> QED BY <1>3, <1>4 DEF TokenInv

LEMMA TokenStep ==
    ASSUME TypeOK, TypeOK', DelegationAttenuates, TokenInv, [Next]_vars
    PROVE  TokenInv'
  <1>1. ASSUME NEW w \in Workers, Handle(w)
        PROVE  TokenInv'
    <2>1. ASSUME NEW id \in Ids, NEW ttl \in TTLs, NEW cd \in DelegateFlags,
                 NEW key \in HolderKeys \cup {NoKey}, toolTaskCreate(w, id, ttl, cd, key)
          PROVE  TokenInv'
      BY <2>1, CreateKeeps
    <2>2. ASSUME NEW id \in Ids, NEW p \in live, NEW ttl \in TTLs, NEW cd \in DelegateFlags,
                 \/ toolTaskDelegateInherit(w, id, p, ttl, cd)
                 \/ \E env \in RequestEnvs : toolTaskDelegate(w, id, p, ttl, env, cd)
          PROVE  TokenInv'
      BY <2>2, DelegateKeeps DEF toolTaskDelegateInherit, toolTaskDelegate
    <2>3. CASE \E oversize \in MayOverflow :
                  MintRootToken(w, oversize) \/ MintDelegatedToken(w, oversize)
      BY <2>3, MintRootKeeps, MintDelegatedKeeps
    <2>4. CASE LookupTask(w) \/ RegisterToken(w) \/ \E key \in HolderKeys : BindKey(w, key)
      BY <2>4, LookupKeeps, RegisterKeeps, BindTokens
    <2>5. CASE \/ \E c \in Ids : CheckRevocation(w, c)
               \/ \E tool \in Calls \cap Tools, key \in HolderKeys \cup {NoKey} :
                     handleToolsCall(w, tool, key)
               \/ ResourceTool(w) \/ Refuse(w)
               \/ \E id \in live : toolTaskBind(w, id) \/ toolTaskRevoke(w, id)
               \/ RevokeSnapshot(w)
               \/ DashFinish(w)
      BY <2>5, MoveKeeps
    <2>6. CASE \/ RevokeWatermark(w) \/ DashWatermark(w)
               \/ RevokeKey(w)
               \/ \E c \in Ids : RevokeChild(w, c) \/ DashChild(w, c)
               \/ AbandonTask(w) \/ RevokeFinish(w) \/ DashDelete(w)
      BY <2>6, RevokeKeeps
    <2> QED BY <1>1, <2>1, <2>2, <2>3, <2>4, <2>5, <2>6 DEF Handle
  <1>2. CASE Holders
    BY <1>2, AttenuateKeeps DEF Holders
  <1> QED BY <1>1, <1>2, ArriveKeeps, BackgroundKeeps, RestartKeeps DEF Next

LEMMA TokenInvariant == Spec => []TokenInv
  <1>1. TypeOK /\ TypeOK' /\ DelegationAttenuates /\ TokenInv /\ [Next]_vars => TokenInv'
    BY TokenStep
  <1> QED BY <1>1, TokenInit, TypeCorrect, DelegationIsSafe, PTL DEF Spec

\* No request that got past the HMAC check carries a token of a tree from
\* before the last restart: the keys went with it, and nothing brings one back
\* (RootKeyStore, CreateChildTask).
THEOREM RestartIsSafe == Spec => []RestartInvalidates
  <1>1. TokenInv => RestartInvalidates
    BY DEF TokenInv, CallersInv, Caller, RestartInvalidates
  <1> QED BY <1>1, TokenInvariant, PTL

\* Narrowing a dimension in any block narrows the token.
LEMMA ReduceWithin ==
    ASSUME NEW m \in Macaroons, NEW e,
           \A i \in DOMAIN m.chain : Within(m.chain[i].envelope, e)
    PROVE  Within(Reduce(m), e)
  <1> SUFFICES ASSUME NEW d \in Dims, NEW x \in Permits(Reduce(m)[d]) PROVE x \in Permits(e[d])
    BY DEF Within
  <1>1. PICK i \in DOMAIN m.chain : Reduce(m)[d] \subseteq m.chain[i].envelope[d]
    BY DEF Reduce, Constraining, Permits, containsString
  <1>2. x \in Permits(m.chain[i].envelope[d])
    BY <1>1 DEF Permits, containsString
  <1> QED BY <1>2 DEF Within

\* A dimension that some block constrains is permitted at most what that block permits.
LEMMA ReduceWithinBlock ==
    ASSUME NEW m \in Macaroons, NEW d \in Dims, NEW i \in Constraining(m, d)
    PROVE  Permits(Reduce(m)[d]) \subseteq Permits(m.chain[i].envelope[d])
  <1>1. Reduce(m)[d] \subseteq m.chain[i].envelope[d]
    BY DEF Reduce
  <1> QED BY <1>1 DEF Permits, containsString

\* Whatever blocks mintings and holders append, a token has its root task's agent, and
\* permits nothing outside that task's envelope in the dimensions its first block
\* constrains; in every dimension, if only the broker appended (MintRoot, MintDelegated,
\* AddFirstPartyCaveat, Reduce).
THEOREM TokensStayWithinRoot == Spec => []TokensWithinRoot
  <1>1. ASSUME TypeOK, TokenInv, NEW tok \in issued
        PROVE  /\ tok.mac \in Macaroons /\ Sound(tok.mac)
               /\ tok.mac.agent = heap[tok.mac.id].agent
    <2>1. tok.mac \in Circulating
      BY DEF Circulating
    <2> QED BY <1>1, <2>1, MacTypes DEF TokenInv, MacsInv, Sound
  <1>2. ASSUME TypeOK, TokenInv, NEW tok \in issued, NEW d \in MintBounds(tok.mac)
        PROVE  Permits(Reduce(tok.mac)[d]) \subseteq Permits(heap[tok.mac.id].envelope[d])
    <2> DEFINE m == tok.mac
    <2>1. m \in Macaroons /\ Sound(m) /\ d \in Dims
      BY <1>1, <1>2 DEF MintBounds
    <2>2. CASE m \notin extended
      <3>1. Within(Reduce(m), heap[m.id].envelope)
        BY <2>1, <2>2, ReduceWithin DEF Sound
      <3> QED BY <2>1, <3>1 DEF Within
    <2>3. CASE m \in extended
      <3>1. 1 \in DOMAIN m.chain
        BY <2>1, FirstBlock DEF Sound
      <3>2. 1 \in Constraining(m, d)
        BY <1>2, <2>3, <3>1 DEF MintBounds, Constraining
      <3>3. Permits(Reduce(m)[d]) \subseteq Permits(m.chain[1].envelope[d])
        BY <2>1, <3>2, ReduceWithinBlock
      <3>4. Permits(m.chain[1].envelope[d]) \subseteq Permits(heap[m.id].envelope[d])
        BY <2>1 DEF Sound, Within
      <3> QED BY <3>3, <3>4
    <2> QED BY <2>2, <2>3
  <1>3. TypeOK /\ TokenInv => TokensWithinRoot
    BY <1>1, <1>2 DEF TokensWithinRoot
  <1> QED BY <1>3, TokenInvariant, TypeCorrect, PTL

\* A token of the latest generation of an unrevoked tree verifies until it
\* expires: Cleanup keeps the key long enough, and the revocation of a
\* descendant leaves it alone (RootKeyStore, toolTaskRevoke).
THEOREM KeysOutliveTokens == Spec => []KeyOutlivesTokens
  <1>1. ASSUME TokenInv, NEW tok \in issued
        PROVE  Covered(tok.mac)
    BY <1>1 DEF Circulating, TokenInv, MacsInv
  <1>2. TokenInv => KeyOutlivesTokens
    BY <1>1 DEF KeyOutlivesTokens, Covered, Verifies
  <1> QED BY <1>2, TokenInvariant, PTL

\* Only a minting of the handler's own takes it from "mint" to "register".
LEMMA MintMoves ==
    ASSUME TypeOK, [Next]_vars, NEW w \in Workers, pc[w] = "mint", pc'[w] = "register"
    PROVE  \E oversize \in MayOverflow : MintRootToken(w, oversize) \/ MintDelegatedToken(w, oversize)
  <1>1. ASSUME NEW v \in Workers, Arrive(v) \/ Handle(v)
        PROVE  v = w
    <2> SUFFICES ASSUME v # w PROVE FALSE
      OBVIOUS
    <2>1. \E p, r : Goto(v, p, r)
      <3>1. CASE Arrive(v)
        BY <3>1 DEF Arrive, AuthenticateKey, VerifyMacaroon, handleDashboardRevokeTask
      <3>2. CASE Handle(v)
        BY <3>2 DEF Handle, LookupTask, CheckRevocation, handleToolsCall, ResourceTool,
              toolTaskCreate, toolTaskDelegateInherit, toolTaskDelegate, Delegate, Refuse,
              MintRootToken, MintDelegatedToken, Minted, RegisterToken, AbandonTask,
              toolTaskBind, BindKey, toolTaskRevoke, RevokeWatermark, RevokeKey,
              RevokeSnapshot, RevokeChild, DashChild, CascadeChild, RevokeFinish,
              DashWatermark, DashDelete, DashFinish, Reply
      <3> QED BY <1>1, <3>1, <3>2
    <2>2. pc'[w] = pc[w]
      BY <2>1, GotoShape DEF Untouched
    <2> QED BY <2>2
  <1>2. ~(Background \/ Clock \/ Restart \/ Holders \/ UNCHANGED vars)
    BY DEF Background, CleanupTasks, gc, CleanupKeys, Clock, Restart, Holders, Attenuate, vars
  <1>3. Arrive(w) \/ Handle(w)
    BY <1>1, <1>2 DEF Next
  <1>4. ~Arrive(w)
    BY DEF Arrive, AuthenticateKey, VerifyMacaroon, handleDashboardRevokeTask
  <1> QED BY <1>3, <1>4
          DEF Handle, LookupTask, CheckRevocation, handleToolsCall, ResourceTool,
              toolTaskCreate, toolTaskDelegateInherit, toolTaskDelegate, Delegate, Refuse,
              RegisterToken, AbandonTask, toolTaskBind, BindKey, toolTaskRevoke,
              RevokeWatermark, RevokeKey, RevokeSnapshot, RevokeChild, DashChild,
              RevokeFinish, DashWatermark, DashDelete, DashFinish

\* One more block never widens a token, as long as it adds no dimension that
\* the token did not have.
LEMMA MintedWithin ==
    ASSUME NEW m \in Macaroons, NEW b \in Block,
           \A d \in Dims : Constraining(m, d) = {} => b.envelope[d] = {}
    PROVE  Within(Reduce(MintDelegated(m, b)), Reduce(m))
  <1> DEFINE n == MintDelegated(m, b)
  <1>1. n.chain = Append(m.chain, b) /\ m.chain \in Seq(Block)
    BY MintDelegatedType DEF Macaroons
  <1>2. /\ \A i \in DOMAIN m.chain : i \in DOMAIN n.chain /\ n.chain[i] = m.chain[i]
        /\ \A i \in DOMAIN n.chain : i \in DOMAIN m.chain \/ n.chain[i] = b
    BY <1>1
  <1> HIDE DEF n
  <1> SUFFICES ASSUME NEW d \in Dims PROVE Permits(Reduce(n)[d]) \subseteq Permits(Reduce(m)[d])
    BY DEF Within, n
  <1>3. Reduce(n)[d] \subseteq Reduce(m)[d]
    <2>1. CASE Constraining(m, d) = {}
      <3>1. Constraining(n, d) = {}
        BY <1>2, <2>1 DEF Constraining
      <3> QED BY <3>1 DEF Reduce
    <2>2. CASE Constraining(m, d) # {}
      <3>1. \A i \in Constraining(m, d) : i \in Constraining(n, d) /\ n.chain[i] = m.chain[i]
        BY <1>2 DEF Constraining
      <3> QED BY <2>2, <3>1 DEF Reduce
    <2> QED BY <2>1, <2>2
  <1> QED BY <1>3 DEF Permits, containsString

LEMMA MintAttenuatesStep ==
    ASSUME TypeOK, DelegationAttenuates, TokenInv, [Next]_vars, NEW w \in Workers,
           pc[w] = "mint", pc'[w] = "register", heap[req[w].subject].depth > 0,
           req[w].claims # NoTask, heap[req[w].claims].digest = req[w].mac
    PROVE  Within(Reduce(req'[w].mac), Reduce(req[w].mac))
  <1> DEFINE t == req[w].subject
             c == req[w].claims
             m == req[w].mac
             b == CaveatsFor(t)
  <1>1. LocalOK(DOMAIN heap, "mint", req[w]) /\ Caller("mint", req[w]) /\ req[w] \in Requests
    BY LocalsAt DEF TokenInv, CallersInv, LocalOK
  <1>2. m # NoMac /\ IsSubsetOf(heap[t].envelope, heap[c].envelope)
    BY <1>1 DEF Caller
  <1>3. t \in DOMAIN heap /\ c \in DOMAIN heap /\ m \in Macaroons
    BY <1>1 DEF LocalOK, HasSubject, Requests
  <1>4. PICK oversize : MintDelegatedToken(w, oversize)
    <2>1. heap[t].depth # 0
      OBVIOUS
    <2>2. \A o : ~MintRootToken(w, o)
      BY <1>2, <2>1 DEF MintRootToken
    <2> QED BY <2>2, MintMoves
  <1>5. ~oversize
    BY <1>4, GotoShape DEF MintDelegatedToken, Minted
  <1>6. req'[w].mac = MintDelegated(m, b)
    <2>1. Goto(w, "register", [req[w] EXCEPT !.mac = MintDelegated(m, b)])
      BY <1>4, <1>5 DEF MintDelegatedToken, Minted
    <2>2. req'[w] = [req[w] EXCEPT !.mac = MintDelegated(m, b)]
      BY <2>1, GotoShape
    <2> QED BY <1>1, <2>2 DEF Requests
  <1>7. b \in Block /\ b.envelope = heap[t].envelope
    BY <1>3, CaveatsForType, CaveatsWithin DEF TypeOK
  <1>8. ASSUME NEW d \in Dims, Constraining(m, d) = {}
        PROVE  b.envelope[d] = {}
    <2>1. PICK i \in DOMAIN m.chain : m.chain[i].envelope = heap[c].envelope
      BY <1>2, <1>3 DEF TokenInv, TreesInv, Digested
    <2>2. heap[c].envelope[d] = {}
      BY <1>8, <2>1 DEF Constraining
    <2>3. isSubset(heap[t].envelope[d], heap[c].envelope[d])
      BY <1>2 DEF IsSubsetOf
    <2> QED BY <1>7, <2>2, <2>3 DEF isSubset
  <1> QED BY <1>3, <1>6, <1>7, <1>8, MintedWithin

\* A token delegated from the token of the caller's own task permits nothing
\* that token does not, although Reduce reads a missing caveat as "nothing" and
\* a block may name dimensions freely (toolTaskDelegate, MintDelegated).
THEOREM MintingAttenuates == Spec => MintAttenuates
  <1>1. TypeOK /\ DelegationAttenuates /\ TokenInv /\ [Next]_vars =>
          [\A w \in Workers :
             (/\ pc[w] = "mint" /\ pc'[w] = "register"
              /\ heap[req[w].subject].depth > 0
              /\ req[w].claims # NoTask
              /\ heap[req[w].claims].digest = req[w].mac) =>
                 Within(Reduce(req'[w].mac), Reduce(req[w].mac))]_vars
    BY MintAttenuatesStep
  <1> QED BY <1>1, TypeCorrect, DelegationIsSafe, TokenInvariant, PTL
          DEF Spec, MintAttenuates

=============================================================================
