-------------------------- MODULE MCPolicyBuilder --------------------------
(***************************************************************************)
(* The policy builder on every AVC list of up to MaxAvcs records over two  *)
(* permissions, one class and four target contexts: a well-formed one, a  *)
(* permissive one, one with an empty type and one with two fields only.   *)
(* A behaviour grows the list the Avcs RPC returns by one record a step.  *)
(***************************************************************************)
EXTENDS PolicyBuilder

CONSTANTS
    MaxAvcs,  \* bound on the length of the AVC list
    Contexts  \* the target contexts of the AVCs

ASSUME MCPolicyBuilderAssumption ==
    /\ MaxAvcs \in Nat
    /\ Contexts \subseteq Seq(Fields)

\* read < write; the class file; fields system_u < object_r < bin_t < the
\* permissive type; the usage type sorts before bin_t.
MCPerms == {1, 2}
MCClasses == {1}
MCFields == {0, 1, 2, 3, 4}
MCPermissive == 4
MCUsageCtx == 2

MCContexts == {<<1, 2, 3>>, <<1, 2, MCPermissive>>, <<1, 2, Empty>>, <<1, 2>>}

\* The AVC records the Avcs RPC may return.
RpcAvcs == [perm: Perms, tclass: Classes, tcontext: Contexts]

VARIABLE avcs

Init == avcs = << >>

Next == \E a \in RpcAvcs : Len(avcs) < MaxAvcs /\ avcs' = Append(avcs, a)

Spec == Init /\ [][Next]_avcs

\* The same AVCs in another order.
Reorderings == {[i \in 1..Len(avcs) |-> avcs[p[i]]] : p \in SetToSeqs(1..Len(avcs))}

(***************************************************************************)
(* The policy formatSelinuxProfile builds depends on the multiset of AVCs  *)
(* and not on the order the Avcs RPC returned them in (the set iteration   *)
(* order of the enricher): the spec's determinism property, which Format  *)
(* owes to sort.Strings over the keys.                                    *)
(***************************************************************************)
FormatOrderIndependent ==
    \A r \in Reorderings : FormatSelinuxProfile(r) = FormatSelinuxProfile(avcs)

(***************************************************************************)
(* The profile allows what was recorded: when formatting succeeds, every  *)
(* AVC is allowed by a line with its class, its target type (the usage    *)
(* type for the permissive one) and its permission.  addAvc must add the  *)
(* permission to the set of a key it has already seen.                    *)
(***************************************************************************)
PolicyAllowsEveryAvc ==
    LET res == FormatSelinuxProfile(avcs) IN
    res.ok =>
        \A i \in 1..Len(avcs) :
            \E j \in 2..Len(res.policy) :
                /\ res.policy[j][1] = TargetClassCtx(Key(avcs[i]))[2]
                /\ res.policy[j][2] = avcs[i].tclass
                /\ avcs[i].perm \in ToSet(res.policy[j][3])

(***************************************************************************)
(* The spec's policy: the header and then one line per key, keys ascending *)
(* ("Iterate keys in ascending lexicographic order"; scenario 4 expects    *)
(* two lines for three AVCs over two keys).                                *)
(***************************************************************************)
SpecPolicy ==
    IF AddAvcFails(avcs) THEN Failed
    ELSE LET sb == AddAvcList(avcs)
             keys == SetToSortSeq(DOMAIN sb.permMap, KeyLess)
         IN  IF \E i \in 1..Len(keys) : LineFails(sb, keys[i]) THEN Failed
             ELSE [ok |-> TRUE,
                   policy |-> <<Header>> \o [i \in 1..Len(keys) |-> PolicyLine(sb, keys[i])]]

\* formatSelinuxProfile writes the policy the spec describes.
PolicyMatchesSpec == FormatSelinuxProfile(avcs) = SpecPolicy

=============================================================================
