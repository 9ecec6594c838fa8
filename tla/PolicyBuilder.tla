--------------------------- MODULE PolicyBuilder ---------------------------
(***************************************************************************)
(* seProfileBuilder and formatSelinuxProfile: the SELinux CIL policy that  *)
(* the recorder formats from the AVCs the enricher returned.               *)
(*                                                                         *)
(* Strings are encoded as natural numbers whose order is the byte order of *)
(* the strings (sort.Strings), 0 being "".  A target context is the        *)
(* sequence of its ":"-separated fields (strings.Split never returns an    *)
(* empty slice).  A policy is the sequence of its lines; a line is the     *)
(* tuple of the values fmt.Sprintf puts into it, which is injective since  *)
(* class, type and permission names hold no space or parenthesis.          *)
(***************************************************************************)
EXTENDS Naturals, Sequences, SequencesExt

CONSTANTS
    Perms,      \* permission names (avc.Perm)
    Classes,    \* target classes (avc.Tclass)
    Fields,     \* fields of a target context
    Permissive, \* config.SelinuxPermissiveProfile, a type
    UsageCtx    \* selinuxprofile.GetPolicyUsage()

ASSUME PolicyBuilderAssumption ==
    /\ Perms \subseteq Nat
    /\ Classes \subseteq Nat
    /\ Fields \subseteq Nat
    /\ Permissive \in Fields
    /\ UsageCtx \in Nat

Empty == 0

SeContextRequiredParts == 3

\* An AVC record as the Avcs RPC returns it (AvcResponse_SelinuxAvc).
Avc == [perm: Perms, tclass: Classes, tcontext: Seq(Fields)]

\* ctxt2type: the third field of the context, NoType when it has fewer.
NoType == -1

ctxt2type(ctx) ==
    IF Len(ctx) < SeContextRequiredParts THEN NoType ELSE ctx[3]

\* addAvc: key := Tclass + " " + ctxType.
Key(avc) == <<avc.tclass, ctxt2type(avc.tcontext)>>

\* sort.Strings on keys.  No class name holds a byte below " ", so the
\* byte order of "c t" is the lexicographic order of the pair <<c, t>>.
KeyLess(k1, k2) == k1[1] < k2[1] \/ (k1[1] = k2[1] /\ k1[2] < k2[2])

\* sort.Strings(sb.keys): the keys permuted into ascending order.
SortKeys(keys) ==
    LET n == Len(keys)
        P == CHOOSE p \in [1..n -> 1..n] :
                /\ \A i \in 1..n : \E j \in 1..n : p[j] = i
                /\ \A i, j \in 1..n : i < j =>
                      KeyLess(keys[p[i]], keys[p[j]]) \/ keys[p[i]] = keys[p[j]]
    IN  [i \in 1..n |-> keys[P[i]]]

\* perms.List() then sort.Strings: the permissions of a set, ascending.
SortedPerms(S) ==
    CHOOSE s \in [1..Cardinality(S) -> S] :
        \A i, j \in 1..Cardinality(S) : i < j => s[i] < s[j]

(***************************************************************************)
(* AddAvcList: the builder after addAvc of every AVC in order.  keys gets  *)
(* one entry per AVC; permMap groups the permissions per key.  The loop    *)
(* returns at the first AVC whose context is malformed.                    *)
(***************************************************************************)
AddAvcFails(avcs) == \E i \in 1..Len(avcs) : ctxt2type(avcs[i].tcontext) = NoType

AddAvcList(avcs) ==
    [keys    |-> [i \in 1..Len(avcs) |-> Key(avcs[i])],
     permMap |-> [k \in {Key(avcs[i]) : i \in 1..Len(avcs)} |->
                     {avcs[i].perm : i \in {j \in 1..Len(avcs) : Key(avcs[j]) = k}}]]

\* targetClassCtx: split the key; the permissive type becomes the usage.
TargetClassCtx(key) ==
    <<key[1], IF key[2] = Permissive THEN UsageCtx ELSE key[2]>>

\* writeLineFromKeyVal and policyLine fail on an empty class or context or
\* on an empty permission set.
LineFails(sb, key) ==
    \/ TargetClassCtx(key)[1] = Empty
    \/ TargetClassCtx(key)[2] = Empty
    \/ sb.permMap[key] = {}

\* Mutant of PolicyLine: the class and the context change places.
PolicyLineSwapped(sb, key) ==
    <<TargetClassCtx(key)[1], TargetClassCtx(key)[2], SortedPerms(sb.permMap[key])>>

\* policyLine: (allow process <tcontext> ( <tclass> ( <perms sorted> )))
PolicyLine(sb, key) ==
    <<TargetClassCtx(key)[2], TargetClassCtx(key)[1], SortedPerms(sb.permMap[key])>>

Header == <<"blockinherit", "container">>

\* The outcome of formatSelinuxProfile: ok, and the lines written.
Failed == [ok |-> FALSE, policy |-> << >>]

\* Mutant of Format: the keys are written in the order they were added.
FormatUnsorted(sb) ==
    IF \E i \in 1..Len(sb.keys) : LineFails(sb, sb.keys[i])
    THEN Failed
    ELSE [ok |-> TRUE,
          policy |-> <<Header>> \o [i \in 1..Len(sb.keys) |-> PolicyLine(sb, sb.keys[i])]]

(***************************************************************************)
(* Format: the header, then sort.Strings(sb.keys) and one line per entry   *)
(* of the sorted keys; the first line that fails fails the whole call.     *)
(***************************************************************************)
Format(sb) ==
    LET sorted == SortKeys(sb.keys) IN
    IF \E i \in 1..Len(sorted) : LineFails(sb, sorted[i])
    THEN Failed
    ELSE [ok |-> TRUE,
          policy |-> <<Header>> \o [i \in 1..Len(sorted) |-> PolicyLine(sb, sorted[i])]]

\* formatSelinuxProfile: newSeProfileBuilder, AddAvcList, Format.
FormatSelinuxProfile(avcs) ==
    IF AddAvcFails(avcs) THEN Failed ELSE Format(AddAvcList(avcs))

=============================================================================
