---------------------------- MODULE TaskManager ----------------------------
(***************************************************************************)
(* TaskManager (internal/broker/task.go): the broker's table of tasks and  *)
(* the index from macaroon signatures to tasks.                            *)
(*                                                                         *)
(* heap holds every Task object ever allocated: handlers keep *Task        *)
(* pointers after the table forgets a task.  live is the key set of        *)
(* tm.tasks (byAgent is the same set split by agent name, and is always    *)
(* updated under the same lock).  Each operator below that primes a        *)
(* variable is one critical section of tm.mu.                              *)
(***************************************************************************)
EXTENDS Macaroon, FiniteSets, Functions

CONSTANTS MaxTasks,      \* bound: tasks ever created
          MaxTime,       \* bound: the clock stops here
          MaxChildDepth, \* DefaultMaxChildDepth
          BindWindow,    \* DefaultBindDeadline
          HolderKeys,    \* Ed25519 public keys
          NoKey          \* no key bound

ASSUME BoundsAssumption == MaxTasks \in Nat /\ MaxTime \in Nat
ASSUME ManagerAssumption == /\ MaxChildDepth \in Nat
                            /\ BindWindow \in Nat \ {0}
                            /\ NoKey \notin HolderKeys

VARIABLES now,      \* the clock
          heap,     \* task id -> Task object
          live,     \* the ids in tm.tasks
          sigIndex  \* signature digest -> task id

managerVars == <<now, heap, live, sigIndex>>

Ids == 1..MaxTasks

Tasks ==
    [parent : Ids \cup {NoTask}, root : Ids, agent : Agents, depth : Nat,
     lineage : SUBSET Ids, created : Nat, expires : Nat, envelope : Envelopes,
     canDelegate : BOOLEAN, digest : Macaroons, holder : HolderKeys \cup {NoKey},
     bindDeadline : Nat]

\* The zero time.Time; the clock starts after it.
NoDeadline == 0

Put(f, k, v) == [x \in DOMAIN f \cup {k} |-> IF x = k THEN v ELSE f[x]]

EmptyMap == [x \in {} |-> NoTask]

ManagerInit ==
    /\ now = 1
    /\ heap = EmptyMap
    /\ live = {}
    /\ sigIndex = EmptyMap

\* token.NewULID: unique and increasing.
IsNewULID(id) == /\ id \in Ids \ DOMAIN heap
                 /\ \A j \in Ids : j < id => j \in DOMAIN heap

-----------------------------------------------------------------------------
(* Reads. *)

\* GetTask, and the second half of LookupBySignature: in the table and not
\* past its expiry.
IsTaskActive(id) == id \in live /\ now <= heap[id].expires

\* LookupBySignature.
IsIndexed(mac) == mac \in DOMAIN sigIndex /\ IsTaskActive(sigIndex[mac])

\* GetTaskTree: strictly before the expiry.
GetTaskTree(root) == {t \in live : heap[t].root = root /\ now < heap[t].expires}

\* The tasks of root's tree, other than id, that have id in their lineage.
Descendants(id, root) == {t \in GetTaskTree(root) : t # id /\ id \in heap[t].lineage}

AwaitsBinding(id) == heap[id].holder = NoKey /\ heap[id].bindDeadline # NoDeadline

-----------------------------------------------------------------------------
(* Writes. *)

NewRoot(id, agent, ttl, env, canDelegate, key) ==
    [parent |-> NoTask, root |-> id, agent |-> agent, depth |-> 0,
     lineage |-> {id}, created |-> now, expires |-> now + ttl,
     envelope |-> env, canDelegate |-> canDelegate, digest |-> NoMac,
     holder |-> key, bindDeadline |-> NoDeadline]

CreateTask(id, agent, ttl, env, canDelegate, key) ==
    /\ heap' = Put(heap, id, NewRoot(id, agent, ttl, env, canDelegate, key))
    /\ live' = live \cup {id}
    /\ UNCHANGED sigIndex

NewChild(id, p, agent, ttl, env, canDelegate) ==
    [parent |-> p, root |-> heap[p].root, agent |-> agent,
     depth |-> heap[p].depth + 1, lineage |-> heap[p].lineage \cup {id},
     created |-> now, expires |-> now + ttl, envelope |-> env,
     canDelegate |-> canDelegate, digest |-> NoMac, holder |-> NoKey,
     bindDeadline |-> now + BindWindow]

\* Mutant of MayCreateChild: the child may outlive its parent.
MayCreateChildLonger(p, agent, ttl, env) ==
    /\ IsTaskActive(p)
    /\ heap[p].agent = agent
    /\ heap[p].canDelegate
    /\ heap[p].depth + 1 <= MaxChildDepth
    /\ IsSubsetOf(env, heap[p].envelope)

\* The checks of CreateChildTask.
MayCreateChild(p, agent, ttl, env) ==
    /\ IsTaskActive(p)
    /\ heap[p].agent = agent
    /\ heap[p].canDelegate
    /\ heap[p].depth + 1 <= MaxChildDepth
    /\ now + ttl <= heap[p].expires
    /\ IsSubsetOf(env, heap[p].envelope)

CreateChildTask(id, p, agent, ttl, env, canDelegate) ==
    /\ MayCreateChild(p, agent, ttl, env)
    /\ heap' = Put(heap, id, NewChild(id, p, agent, ttl, env, canDelegate))
    /\ live' = live \cup {id}
    /\ UNCHANGED sigIndex

RegisterSignature(mac, id) == sigIndex' = Put(sigIndex, mac, id)

\* Forget the tasks in S: the table entry, and the index entry under the
\* digest the task object carries.
Remove(S) ==
    /\ live' = live \ S
    /\ sigIndex' = Restrict(sigIndex,
                      {m \in DOMAIN sigIndex : \A t \in S \cap live : heap[t].digest # m})
    /\ UNCHANGED heap

RevokeTask(id) == Remove({id})

\* Mutant of MayBind: a key that is bound already is replaced.
MayRebind(id, key) ==
    /\ id \in live
    /\ heap[id].bindDeadline # NoDeadline => now <= heap[id].bindDeadline

\* BindHolderKey: a different key is refused, the same key again is a no-op.
MayBind(id, key) ==
    /\ id \in live
    /\ heap[id].bindDeadline # NoDeadline => now <= heap[id].bindDeadline
    /\ heap[id].holder \in {NoKey, key}

BindHolderKey(id, key) ==
    /\ MayBind(id, key)
    /\ heap' = [heap EXCEPT ![id].holder = key,
                            ![id].bindDeadline = NoDeadline]
    /\ UNCHANGED <<live, sigIndex>>

\* Mutant of Overdue: tasks that wait for a key are never swept.
OverdueBound == {t \in live : now > heap[t].expires /\ ~AwaitsBinding(t)}

\* The tasks cleanup removes: expired, or unbound past the bind deadline.
Overdue == {t \in live : \/ now > heap[t].expires
                         \/ AwaitsBinding(t) /\ now > heap[t].bindDeadline}

cleanup == Overdue # {} /\ Remove(Overdue)

Tick == now < MaxTime /\ now' = now + 1

=============================================================================
