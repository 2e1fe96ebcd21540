------------------------------ MODULE Envelope ------------------------------
(***************************************************************************)
(* Capability envelopes: token.Envelope and broker.TaskEnvelope.           *)
(*                                                                         *)
(* An envelope lists, for each dimension (targets, roles, services,        *)
(* remotes, methods), the names it permits.  Go keeps slices; every        *)
(* operation below only asks which strings occur in them, so a dimension   *)
(* is a set.  Wild is the literal "*".  A nil slice and an empty slice     *)
(* both permit nothing.                                                    *)
(***************************************************************************)

CONSTANTS Dims,   \* the envelope dimensions
          Items,  \* the strings a dimension may list, "*" included
          Wild    \* the wildcard "*"

ASSUME WildAssumption == Wild \in Items

Envelopes == [Dims -> SUBSET Items]

\* token.containsString, what every Contains... method asks.
containsString(slice, val) == Wild \in slice \/ val \in slice

\* The names a dimension permits: containsString over everything one can name.
Permits(slice) == {x \in Items : containsString(slice, x)}

\* token.isSubset: a wildcard in the parent covers everything, and a wildcard
\* in the child is only covered by one in the parent.
isSubset(child, parent) == Wild \in parent \/ child \subseteq parent

IsSubsetOf(e, parent) == \A d \in Dims : isSubset(e[d], parent[d])

\* broker.intersectSlices: a wildcard side defers to the other side.
intersectSlices(a, b) ==
    IF Wild \in a /\ Wild \in b THEN {Wild}
    ELSE IF Wild \in a THEN b
    ELSE IF Wild \in b THEN a
    ELSE a \cap b

intersectEnvelopes(a, b) == [d \in Dims |-> intersectSlices(a[d], b[d])]

\* e permits nothing that f does not.
Within(e, f) == \A d \in Dims : Permits(e[d]) \subseteq Permits(f[d])

=============================================================================
