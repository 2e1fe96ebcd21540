--------------------------- MODULE CapabilityTree ---------------------------
(***************************************************************************)
(* What tasks promise, without tables, tokens, handlers or a clock: a      *)
(* forest that only grows.  What a task may do is fixed when it is made    *)
(* and lies within what its parent may do; a holder key is bound once; and *)
(* nothing ever takes a bound key away or changes it, not a revocation, a  *)
(* sweep or a restart.                                                     *)
(***************************************************************************)
EXTENDS Integers

CONSTANTS Dims, Keys, NoKey, NoParent, MaxDepth

VARIABLE tree  \* task -> [parent, agent, depth, above, until, mayDelegate, permits, holder]

TInit == DOMAIN tree = {}

\* One task more; the others stay as they are.
Grows(t) ==
    /\ t \notin DOMAIN tree
    /\ DOMAIN tree' = DOMAIN tree \cup {t}
    /\ \A u \in DOMAIN tree : tree'[u] = tree[u]

Create(t) ==
    /\ Grows(t)
    /\ tree'[t].parent = NoParent /\ tree'[t].depth = 0 /\ tree'[t].above = {t}

\* A child: for the same agent, no longer, no deeper than allowed, and with no more
\* permissions in any dimension.  It has no key yet.
Delegate(p, t) ==
    /\ tree[p].mayDelegate
    /\ Grows(t)
    /\ tree'[t].parent = p
    /\ tree'[t].agent = tree[p].agent
    /\ tree'[t].depth = tree[p].depth + 1 /\ tree'[t].depth <= MaxDepth
    /\ tree'[t].above = tree[p].above \cup {t}
    /\ tree'[t].until <= tree[p].until
    /\ \A d \in Dims : tree'[t].permits[d] \subseteq tree[p].permits[d]
    /\ tree'[t].holder = NoKey

Bind(t, k) == tree[t].holder = NoKey /\ tree' = [tree EXCEPT ![t].holder = k]

TNext == \/ \E t \in DOMAIN tree' : Create(t) \/ \E p \in DOMAIN tree : Delegate(p, t)
         \/ \E t \in DOMAIN tree, k \in Keys : Bind(t, k)

TSpec == TInit /\ [][TNext]_tree

=============================================================================
