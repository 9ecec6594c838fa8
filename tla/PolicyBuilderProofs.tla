------------------------- MODULE PolicyBuilderProofs -------------------------
(***************************************************************************)
(* Proofs about the SELinux policy builder, for every AVC list of every    *)
(* length and every value of the constants.  The two sorts of the code     *)
(* (sort.Strings over the keys, over the permissions) are defined by what  *)
(* they return; the lemmas below show that what they return exists, by    *)
(* ranking: the rank of an element is one more than the number of          *)
(* elements below it.                                                      *)
(***************************************************************************)
EXTENDS MCPolicyBuilder, FiniteSetTheorems, SequenceTheorems, TLAPS

(***************************************************************************)
(* A strict total order R on the positions 1..n has a permutation that    *)
(* lists the positions in R-ascending order.                               *)
(***************************************************************************)
LEMMA RankSort ==
  ASSUME NEW n \in Nat, NEW R,
         \A a \in 1..n : <<a, a>> \notin R,
         \A a, b, c \in 1..n : <<a, b>> \in R /\ <<b, c>> \in R => <<a, c>> \in R,
         \A a, b \in 1..n : a # b => <<a, b>> \in R \/ <<b, a>> \in R
  PROVE  \E p \in [1..n -> 1..n] :
            /\ \A i \in 1..n : \E j \in 1..n : p[j] = i
            /\ \A i, j \in 1..n : i < j => <<p[i], p[j]>> \in R
<1>. DEFINE D == 1..n
            Below(b) == {a \in D : <<a, b>> \in R}
            rank == [b \in D |-> Cardinality(Below(b)) + 1]
<1>1. IsFiniteSet(D) /\ Cardinality(D) = n
  BY FS_Interval
<1>2. ASSUME NEW b \in D
      PROVE  IsFiniteSet(Below(b)) /\ Cardinality(Below(b)) \in Nat
  <2>1. Below(b) \subseteq D
    OBVIOUS
  <2>2. IsFiniteSet(Below(b))
    BY <1>1, <2>1, FS_Subset
  <2>. QED
    BY <2>2, FS_CardinalityType
<1>3. ASSUME NEW a \in D, NEW b \in D, <<a, b>> \in R
      PROVE  rank[a] < rank[b]
  <2>1. Below(a) \cup {a} \subseteq Below(b)
    BY <1>3
  <2>2. a \notin Below(a)
    OBVIOUS
  <2>3. IsFiniteSet(Below(b)) /\ IsFiniteSet(Below(a))
    BY <1>2
  <2>4. Cardinality(Below(a) \cup {a}) = Cardinality(Below(a)) + 1
    BY <2>2, <2>3, FS_AddElement
  <2>5. Cardinality(Below(a) \cup {a}) <= Cardinality(Below(b))
    BY <2>1, <2>3, FS_Subset
  <2>6. rank[a] = Cardinality(Below(a)) + 1 /\ rank[b] = Cardinality(Below(b)) + 1
    OBVIOUS
  <2>7. Cardinality(Below(a)) \in Nat /\ Cardinality(Below(b)) \in Nat
    BY <1>2
  <2>. HIDE DEF Below, rank
  <2>. QED
    BY <2>4, <2>5, <2>6, <2>7
<1>4. rank \in [D -> D]
  <2>. SUFFICES ASSUME NEW b \in D PROVE Cardinality(Below(b)) + 1 \in D
    OBVIOUS
  <2>1. Below(b) \subseteq D \ {b}
    OBVIOUS
  <2>2. IsFiniteSet(D \ {b}) /\ Cardinality(D \ {b}) = n - 1
    BY <1>1, FS_RemoveElement
  <2>3. Cardinality(Below(b)) <= n - 1
    <3>. HIDE DEF Below, D
    <3>. QED
      BY <2>1, <2>2, FS_Subset
  <2>4. Cardinality(Below(b)) \in Nat
    BY <1>2
  <2>. HIDE DEF Below
  <2>. QED
    BY <2>3, <2>4
<1>. HIDE DEF rank, Below
<1>5. \A a, b \in D : rank[a] = rank[b] => a = b
  <2>. SUFFICES ASSUME NEW a \in D, NEW b \in D, a # b PROVE rank[a] # rank[b]
    OBVIOUS
  <2>1. <<a, b>> \in R \/ <<b, a>> \in R
    OBVIOUS
  <2>2. rank[a] \in Nat /\ rank[b] \in Nat
    BY <1>4
  <2>3. CASE <<a, b>> \in R
    BY <2>2, <2>3, <1>3
  <2>4. CASE <<b, a>> \in R
    BY <2>2, <2>4, <1>3
  <2>. QED
    BY <2>1, <2>3, <2>4
<1>6. \A i \in D : \E b \in D : rank[b] = i
  <2>1. rank \in Injection(D, D)
    BY <1>4, <1>5 DEF Injection, IsInjective
  <2>2. rank \in Surjection(D, D)
    BY <1>1, <2>1, FS_Injection
  <2>. QED
    BY <2>2 DEF Surjection
<1>. DEFINE p == [i \in D |-> CHOOSE b \in D : rank[b] = i]
<1>7. \A i \in D : p[i] \in D /\ rank[p[i]] = i
  BY <1>6
<1>8. \A i \in D : \E j \in D : p[j] = i
  <2>. SUFFICES ASSUME NEW i \in D PROVE \E j \in D : p[j] = i
    OBVIOUS
  <2>1. rank[i] \in D /\ p[rank[i]] \in D /\ rank[p[rank[i]]] = rank[i]
    BY <1>4, <1>7
  <2>. QED
    BY <2>1, <1>5
<1>9. \A i, j \in D : i < j => <<p[i], p[j]>> \in R
  <2>. SUFFICES ASSUME NEW i \in D, NEW j \in D, i < j PROVE <<p[i], p[j]>> \in R
    OBVIOUS
  <2>1. p[i] # p[j]
    BY <1>7
  <2>2. <<p[j], p[i]>> \notin R
    <3>. SUFFICES ASSUME <<p[j], p[i]>> \in R PROVE FALSE
      OBVIOUS
    <3>1. rank[p[j]] < rank[p[i]]
      BY <1>3, <1>7
    <3>. QED
      BY <3>1, <1>7
  <2>. QED
    BY <1>7, <2>1, <2>2
<1>10. p \in [D -> D]
  BY <1>7
<1>. HIDE DEF p
<1>. QED
  BY <1>8, <1>9, <1>10
(***************************************************************************)
(* sort.Strings over the keys is well defined: it permutes the keys by a   *)
(* permutation P of the positions under which they are in ascending order. *)
(***************************************************************************)
LEMMA SortKeysSpec ==
  ASSUME NEW keys \in Seq(Int \X Int)
  PROVE  \E P \in [1..Len(keys) -> 1..Len(keys)] :
            /\ \A i \in 1..Len(keys) : \E j \in 1..Len(keys) : P[j] = i
            /\ \A i, j \in 1..Len(keys) : i < j =>
                  KeyLess(keys[P[i]], keys[P[j]]) \/ keys[P[i]] = keys[P[j]]
            /\ SortKeys(keys) = [i \in 1..Len(keys) |-> keys[P[i]]]
<1>. DEFINE n == Len(keys)
            D == 1..n
            R == {ab \in D \X D : \/ KeyLess(keys[ab[1]], keys[ab[2]])
                                  \/ keys[ab[1]] = keys[ab[2]] /\ ab[1] < ab[2]}
            P == CHOOSE p \in [1..n -> 1..n] :
                    /\ \A i \in 1..n : \E j \in 1..n : p[j] = i
                    /\ \A i, j \in 1..n : i < j =>
                          KeyLess(keys[p[i]], keys[p[j]]) \/ keys[p[i]] = keys[p[j]]
<1>1. n \in Nat /\ \A a \in D : keys[a] \in Int \X Int
  OBVIOUS
<1>2. \A a \in D : <<a, a>> \notin R
  BY DEF KeyLess
<1>3. \A a, b, c \in D : <<a, b>> \in R /\ <<b, c>> \in R => <<a, c>> \in R
  <2>. SUFFICES ASSUME NEW a \in D, NEW b \in D, NEW c \in D,
                      <<a, b>> \in R, <<b, c>> \in R
               PROVE  <<a, c>> \in R
    OBVIOUS
  <2>1. /\ KeyLess(keys[a], keys[b]) \/ (keys[a] = keys[b] /\ a < b)
        /\ KeyLess(keys[b], keys[c]) \/ (keys[b] = keys[c] /\ b < c)
    OBVIOUS
  <2>2. keys[a] \in Int \X Int /\ keys[b] \in Int \X Int /\ keys[c] \in Int \X Int
    BY <1>1
  <2>3. KeyLess(keys[a], keys[c]) \/ (keys[a] = keys[c] /\ a < c)
    <3>1. CASE KeyLess(keys[a], keys[b]) /\ KeyLess(keys[b], keys[c])
      BY <2>2, <3>1 DEF KeyLess
    <3>2. CASE KeyLess(keys[a], keys[b]) /\ keys[b] = keys[c]
      BY <3>2
    <3>3. CASE keys[a] = keys[b] /\ KeyLess(keys[b], keys[c])
      BY <3>3
    <3>4. CASE keys[a] = keys[b] /\ a < b /\ keys[b] = keys[c] /\ b < c
      BY <2>2, <3>4
    <3>. QED
      BY <2>1, <3>1, <3>2, <3>3, <3>4
  <2>. QED
    BY <2>3
<1>4. \A a, b \in D : a # b => <<a, b>> \in R \/ <<b, a>> \in R
  <2>. SUFFICES ASSUME NEW a \in D, NEW b \in D, a # b
               PROVE  <<a, b>> \in R \/ <<b, a>> \in R
    OBVIOUS
  <2>1. /\ keys[a] = <<keys[a][1], keys[a][2]>> /\ keys[a][1] \in Int /\ keys[a][2] \in Int
        /\ keys[b] = <<keys[b][1], keys[b][2]>> /\ keys[b][1] \in Int /\ keys[b][2] \in Int
    BY <1>1
  <2>4. keys[a][1] = keys[b][1] /\ keys[a][2] = keys[b][2] => keys[a] = keys[b]
    BY <2>1, Zenon
  <2>2. keys[a] # keys[b] => KeyLess(keys[a], keys[b]) \/ KeyLess(keys[b], keys[a])
    BY <2>1, <2>4 DEF KeyLess
  <2>3. a < b \/ b < a
    OBVIOUS
  <2>. QED
    BY <2>2, <2>3
<1>. HIDE DEF R
<1>5. PICK p \in [D -> D] :
         /\ \A i \in D : \E j \in D : p[j] = i
         /\ \A i, j \in D : i < j => <<p[i], p[j]>> \in R
  BY <1>1, <1>2, <1>3, <1>4, RankSort
<1>6. /\ P \in [D -> D]
      /\ \A i \in D : \E j \in D : P[j] = i
      /\ \A i, j \in D : i < j =>
            KeyLess(keys[P[i]], keys[P[j]]) \/ keys[P[i]] = keys[P[j]]
  <2>1. \A i, j \in D : i < j =>
           KeyLess(keys[p[i]], keys[p[j]]) \/ keys[p[i]] = keys[p[j]]
    BY <1>5 DEF R
  <2>. DEFINE Good(q) == /\ \A i \in D : \E j \in D : q[j] = i
                        /\ \A i, j \in D : i < j =>
                              KeyLess(keys[q[i]], keys[q[j]]) \/ keys[q[i]] = keys[q[j]]
  <2>2. p \in [D -> D] /\ Good(p)
    BY <1>5, <2>1
  <2>3. P = CHOOSE q \in [D -> D] : Good(q)
    BY DEF P
  <2>. HIDE DEF Good
  <2>4. P \in [D -> D] /\ Good(P)
    BY <2>2, <2>3
  <2>. QED
    BY <2>4 DEF Good
<1>7. SortKeys(keys) = [i \in D |-> keys[P[i]]]
  BY DEF SortKeys
<1>. HIDE DEF P
<1>. QED
  BY <1>6, <1>7

(***************************************************************************)
(* sort.Strings over the keys returns a permutation of them: the same      *)
(* length, and every key at some position.                                 *)
(***************************************************************************)
LEMMA SortKeysPermutes ==
  ASSUME NEW keys \in Seq(Int \X Int)
  PROVE  /\ SortKeys(keys) \in [1..Len(keys) -> Int \X Int]
         /\ \A i \in 1..Len(keys) : \E m \in 1..Len(keys) : SortKeys(keys)[m] = keys[i]
<1>. DEFINE D == 1..Len(keys)
<1>1. PICK P \in [D -> D] :
         /\ \A i \in D : \E j \in D : P[j] = i
         /\ SortKeys(keys) = [i \in D |-> keys[P[i]]]
  BY SortKeysSpec
<1>2. \A a \in D : keys[a] \in Int \X Int
  OBVIOUS
<1>3. SortKeys(keys) \in [D -> Int \X Int]
  BY <1>1, <1>2
<1>4. ASSUME NEW i \in D PROVE \E m \in D : SortKeys(keys)[m] = keys[i]
  <2>1. PICK j \in D : P[j] = i
    BY <1>1
  <2>. QED
    BY <1>1, <2>1
<1>. QED
  BY <1>3, <1>4
(***************************************************************************)
(* perms.List() then sort.Strings lists every permission of a finite set   *)
(* of names, in strictly ascending order, each at some position.           *)
(***************************************************************************)
LEMMA SortedPermsCovers ==
  ASSUME NEW S \in SUBSET Int, IsFiniteSet(S)
  PROVE  /\ SortedPerms(S) \in [1..Cardinality(S) -> S]
         /\ \A x \in S : \E i \in 1..Cardinality(S) : SortedPerms(S)[i] = x
<1>. DEFINE c == Cardinality(S)
            D == 1..c
            Inc(s) == \A i, j \in D : i < j => s[i] < s[j]
<1>1. c \in Nat /\ IsFiniteSet(D) /\ Cardinality(D) = c
  BY FS_CardinalityType, FS_Interval
<1>2. PICK e \in Bijection(D, S) : TRUE
  BY FS_CardinalityType DEF ExistsBijection
<1>3. e \in [D -> S] /\ \A a, b \in D : e[a] = e[b] => a = b
  BY <1>2 DEF Bijection, Injection, IsInjective
<1>. HIDE DEF D
<1>3a. \A a \in D : e[a] \in Int
  BY <1>3
<1>. DEFINE R == {ab \in D \X D : e[ab[1]] < e[ab[2]]}
<1>4. \A a \in D : <<a, a>> \notin R
  BY <1>3a
<1>5. \A a, b, d \in D : <<a, b>> \in R /\ <<b, d>> \in R => <<a, d>> \in R
  BY <1>3a
<1>6. \A a, b \in D : a # b => <<a, b>> \in R \/ <<b, a>> \in R
  BY <1>3, <1>3a
<1>. HIDE DEF R
<1>7. PICK p \in [D -> D] :
         /\ \A i \in D : \E j \in D : p[j] = i
         /\ \A i, j \in D : i < j => <<p[i], p[j]>> \in R
  BY <1>1, <1>4, <1>5, <1>6, RankSort DEF D
<1>8. \E s \in [D -> S] : Inc(s)
  <2>. DEFINE w == [i \in D |-> e[p[i]]]
  <2>1. w \in [D -> S]
    BY <1>3, <1>7
  <2>2. Inc(w)
    BY <1>7 DEF R
  <2>. HIDE DEF w
  <2>. QED
    BY <2>1, <2>2
<1>9. SortedPerms(S) \in [D -> S] /\ Inc(SortedPerms(S))
  BY <1>8 DEF SortedPerms, D
<1>. HIDE DEF SortedPerms
<1>10. SortedPerms(S) \in Injection(D, S)
  <2>. SUFFICES ASSUME NEW i \in D, NEW j \in D, SortedPerms(S)[i] = SortedPerms(S)[j]
               PROVE  i = j
    BY <1>9 DEF Injection, IsInjective
  <2>0. i \in Int /\ j \in Int /\ SortedPerms(S)[i] \in S /\ SortedPerms(S)[j] \in S
    BY <1>1, <1>9 DEF D
  <2>1. SortedPerms(S)[i] \in Int /\ SortedPerms(S)[j] \in Int /\ i \in Int /\ j \in Int
    BY <2>0
  <2>2. i < j \/ j < i \/ i = j
    BY <2>1
  <2>. QED
    BY <1>9, <2>1, <2>2
<1>11. SortedPerms(S) \in Surjection(D, S)
  BY <1>1, <1>10, FS_Injection
<1>. QED
  BY <1>9, <1>11 DEF Surjection, D
(***************************************************************************)
(* addAvc's key of an AVC: its class and the type of its context, a pair  *)
(* of names (the type NoType when the context has fewer than 3 fields).    *)
(***************************************************************************)
LEMMA KeyType ==
  ASSUME NEW a \in Avc
  PROVE  Key(a) \in Int \X Int
<1>0. a.tclass \in Classes /\ a.tcontext \in Seq(Fields)
  BY DEF Avc
<1>1a. a.tclass \in Nat
  BY <1>0, PolicyBuilderAssumption, Zenon
<1>1. a.tclass \in Int
  BY <1>1a
<1>2. ctxt2type(a.tcontext) \in Int
  <2>1. a.tcontext \in Seq(Fields)
    BY <1>0
  <2>2. CASE Len(a.tcontext) < SeContextRequiredParts
    BY <2>2 DEF ctxt2type, NoType
  <2>3. CASE ~(Len(a.tcontext) < SeContextRequiredParts)
    <3>1. 3 \in 1..Len(a.tcontext)
      BY <2>1, <2>3 DEF SeContextRequiredParts
    <3>2. a.tcontext[3] \in Fields
      BY <2>1, <3>1
    <3>3. a.tcontext[3] \in Nat
      BY <3>2, PolicyBuilderAssumption, Zenon
    <3>. QED
      BY <2>3, <3>3 DEF ctxt2type
  <2>. QED
    BY <2>2, <2>3
<1>. QED
  BY <1>1, <1>2 DEF Key

(***************************************************************************)
(* The permission set addAvc collects for a key is a finite set of names: *)
(* one permission per AVC of that key.                                     *)
(***************************************************************************)
LEMMA PermSetFinite ==
  ASSUME NEW al \in Seq(Avc), NEW k
  PROVE  LET T == {al[x].perm : x \in {j \in 1..Len(al) : Key(al[j]) = k}}
         IN  IsFiniteSet(T) /\ T \subseteq Int
<1>. DEFINE J == {j \in 1..Len(al) : Key(al[j]) = k}
            T == {al[x].perm : x \in J}
            f == [x \in J |-> al[x].perm]
<1>1. IsFiniteSet(J)
  BY FS_Interval, FS_Subset
<1>2. f \in Surjection(J, T)
  BY DEF Surjection
<1>3. T \subseteq Int
  <2>. SUFFICES ASSUME NEW x \in J PROVE al[x].perm \in Int
    OBVIOUS
  <2>1. al[x] \in Avc
    OBVIOUS
  <2>2. al[x].perm \in Perms
    BY <2>1 DEF Avc
  <2>3. al[x].perm \in Nat
    BY <2>2, PolicyBuilderAssumption, Zenon
  <2>. QED
    BY <2>3
<1>. HIDE DEF J, T, f
<1>4. IsFiniteSet(T)
  BY <1>1, <1>2, FS_Surjection
<1>. QED
  BY <1>3, <1>4 DEF T, J
(***************************************************************************)
(* formatSelinuxProfile allows what was recorded, for an AVC list of any   *)
(* length: when it succeeds, the line of each AVC's key is in the policy,  *)
(* after the header, with the AVC's class and permission.                  *)
(***************************************************************************)
LEMMA AllowsEveryAvc ==
  ASSUME avcs \in Seq(Avc)
  PROVE  PolicyAllowsEveryAvc
<1>. DEFINE n == Len(avcs)
            sb == AddAvcList(avcs)
            sorted == SortKeys(sb.keys)
            L == [k \in 1..Len(sorted) |-> PolicyLine(sb, sorted[k])]
            res == FormatSelinuxProfile(avcs)
<1>. SUFFICES ASSUME res.ok, NEW i \in 1..n
              PROVE  \E j \in 2..Len(res.policy) :
                        /\ res.policy[j][1] = TargetClassCtx(Key(avcs[i]))[2]
                        /\ res.policy[j][2] = avcs[i].tclass
                        /\ avcs[i].perm \in ToSet(res.policy[j][3])
  BY DEF PolicyAllowsEveryAvc
<1>. DEFINE K == Key(avcs[i])
<1>1. n \in Nat /\ avcs[i] \in Avc
  OBVIOUS
<1>2. sb.keys = [x \in 1..n |-> Key(avcs[x])]
  BY DEF AddAvcList
<1>3. sb.keys \in Seq(Int \X Int) /\ Len(sb.keys) = n /\ sb.keys[i] = K
  <2>1. \A x \in 1..n : Key(avcs[x]) \in Int \X Int
    BY KeyType
  <2>. QED
    BY <1>1, <1>2, <2>1
<1>4. /\ sorted \in [1..n -> Int \X Int]
      /\ \E m \in 1..n : sorted[m] = K
  <2>1. /\ SortKeys(sb.keys) \in [1..Len(sb.keys) -> Int \X Int]
        /\ \A x \in 1..Len(sb.keys) : \E m \in 1..Len(sb.keys) : SortKeys(sb.keys)[m] = sb.keys[x]
    <3>. HIDE DEF sb
    <3>. QED
      BY <1>3, SortKeysPermutes
  <2>. QED
    BY <1>3, <2>1
<1>5. Len(sorted) = n
  BY <1>1, <1>4
<1>6. PICK m \in 1..n : sorted[m] = K
  BY <1>4
<1>7. res = [ok |-> TRUE, policy |-> <<Header>> \o L]
  BY DEF FormatSelinuxProfile, Format, Failed
<1>. DEFINE X == {Header} \cup {L[k] : k \in 1..n}
<1>8. <<Header>> \in Seq(X) /\ L \in Seq(X) /\ Len(<<Header>>) = 1 /\ Len(L) = n
  BY <1>1, <1>5
<1>9. /\ Len(res.policy) = 1 + n
      /\ res.policy[m + 1] = L[m]
  <2>1. /\ Len(<<Header>> \o L) = 1 + n
        /\ \A x \in 1..1 + n : (<<Header>> \o L)[x] =
              IF x <= 1 THEN <<Header>>[x] ELSE L[x - 1]
    BY <1>8, ConcatProperties
  <2>. HIDE DEF L
  <2>. QED
    BY <1>1, <1>7, <2>1
<1>10. L[m] = PolicyLine(sb, K)
  BY <1>5, <1>6
<1>. HIDE DEF X, res, L
<1>11. PolicyLine(sb, K)[1] = TargetClassCtx(K)[2]
       /\ PolicyLine(sb, K)[2] = avcs[i].tclass
  BY DEF PolicyLine, TargetClassCtx, Key
<1>12. /\ K \in DOMAIN sb.permMap
       /\ sb.permMap[K] = {avcs[x].perm : x \in {j \in 1..n : Key(avcs[j]) = K}}
  BY DEF AddAvcList
<1>13. avcs[i].perm \in sb.permMap[K]
  BY <1>12
<1>14. IsFiniteSet(sb.permMap[K]) /\ sb.permMap[K] \subseteq Int
  BY <1>12, PermSetFinite
<1>15. avcs[i].perm \in ToSet(PolicyLine(sb, K)[3])
  <2>1. PICK q \in 1..Cardinality(sb.permMap[K]) :
           SortedPerms(sb.permMap[K])[q] = avcs[i].perm
    BY <1>13, <1>14, SortedPermsCovers
  <2>2. DOMAIN SortedPerms(sb.permMap[K]) = 1..Cardinality(sb.permMap[K])
    BY <1>14, SortedPermsCovers
  <2>. QED
    BY <2>1, <2>2 DEF PolicyLine, ToSet
<1>. QED
  <2>1. m + 1 \in 2..Len(res.policy)
    BY <1>1, <1>9
  <2>. WITNESS m + 1 \in 2..Len(res.policy)
  <2>. QED
    BY <1>9, <1>10, <1>11, <1>15
(***************************************************************************)
(* The AVC list only ever holds records the Avcs RPC can return.          *)
(***************************************************************************)
TypeOK == avcs \in Seq(RpcAvcs)

LEMMA RpcAvcsAreAvcs == RpcAvcs \subseteq Avc
  BY MCPolicyBuilderAssumption DEF RpcAvcs, Avc

LEMMA TypeInvariant == Spec => []TypeOK
<1>1. Init => TypeOK
  BY DEF Init, TypeOK
<1>2. TypeOK /\ [Next]_avcs => TypeOK'
  BY DEF TypeOK, Next
<1>. QED
  BY <1>1, <1>2, PTL DEF Spec

(***************************************************************************)
(* Whatever AVC lists the enricher returns, of any length and over any     *)
(* names, the profile formatSelinuxProfile builds allows every recorded    *)
(* AVC whenever it is built at all.                                        *)
(***************************************************************************)
THEOREM PolicyAllows == Spec => []PolicyAllowsEveryAvc
<1>1. TypeOK => PolicyAllowsEveryAvc
  <2>. SUFFICES ASSUME TypeOK PROVE PolicyAllowsEveryAvc
    OBVIOUS
  <2>1. avcs \in Seq(Avc)
    BY RpcAvcsAreAvcs, SeqMonotonic DEF TypeOK
  <2>. QED
    BY <2>1, AllowsEveryAvc
<1>. QED
  BY <1>1, TypeInvariant, PTL
====
