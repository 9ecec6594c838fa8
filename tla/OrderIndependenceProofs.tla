---------------------- MODULE OrderIndependenceProofs ----------------------
(***************************************************************************)
(* Proof that the policy formatSelinuxProfile writes does not depend on    *)
(* the order the Avcs RPC returned the AVCs in.  sort.Strings over the     *)
(* keys is what makes it so: a sorted sequence is determined by how many   *)
(* of its entries lie below each key, and those counts do not change when  *)
(* the entries are permuted.  The argument counts and needs no induction.  *)
(***************************************************************************)
EXTENDS PolicyBuilderProofs

\* The order sort.Strings puts the keys in, and the entries of t below a set.
KeyLeq(u, v) == KeyLess(u, v) \/ u = v

Sorted(t, n) == \A i, j \in 1..n : i < j => KeyLeq(t[i], t[j])

Among(t, n, U) == {x \in 1..n : t[x] \in U}

LtSet(v) == {w \in Int \X Int : KeyLess(w, v)}

LeSet(v) == {w \in Int \X Int : KeyLeq(w, v)}

\* f permutes the positions 1..n.
PermOf(f, n) == /\ f \in [1..n -> 1..n]
                /\ \A i, j \in 1..n : f[i] = f[j] => i = j
                /\ \A y \in 1..n : \E x \in 1..n : f[x] = y

\* t lists the entries of s in the order f gives.
PermutedBy(t, s, f, n) == \A x \in 1..n : t[x] = s[f[x]]

(***************************************************************************)
(* The byte order of the keys "class type" is a strict total order.       *)
(***************************************************************************)
LEMMA KeyOrder ==
  ASSUME NEW u \in Int \X Int, NEW v \in Int \X Int, NEW w \in Int \X Int
  PROVE  /\ ~KeyLess(u, u)
         /\ KeyLess(u, v) /\ KeyLess(v, w) => KeyLess(u, w)
         /\ KeyLess(u, v) \/ u = v \/ KeyLess(v, u)
<1>1. ~KeyLess(u, u)
  BY DEF KeyLess
<1>2. KeyLess(u, v) /\ KeyLess(v, w) => KeyLess(u, w)
  BY DEF KeyLess
<1>3. /\ u = <<u[1], u[2]>> /\ u[1] \in Int /\ u[2] \in Int
      /\ v = <<v[1], v[2]>> /\ v[1] \in Int /\ v[2] \in Int
  OBVIOUS
<1>4. u[1] = v[1] /\ u[2] = v[2] => u = v
  BY <1>3, Zenon
<1>5. KeyLess(u, v) \/ u = v \/ KeyLess(v, u)
  BY <1>3, <1>4 DEF KeyLess
<1>. QED
  BY <1>1, <1>2, <1>5

(***************************************************************************)
(* In a sorted sequence the entry at position k is the key v exactly when  *)
(* fewer than k entries are below v and at least k are at most v.          *)
(***************************************************************************)
LEMMA SortedAt ==
  ASSUME NEW n \in Nat, NEW t \in [1..n -> Int \X Int], Sorted(t, n),
         NEW k \in 1..n, NEW v \in Int \X Int
  PROVE  t[k] = v <=> /\ Cardinality(Among(t, n, LtSet(v))) < k
                      /\ k <= Cardinality(Among(t, n, LeSet(v)))
<1>. DEFINE Lt == Among(t, n, LtSet(v))
            Le == Among(t, n, LeSet(v))
<1>1. /\ IsFiniteSet(Lt) /\ Cardinality(Lt) \in Nat
      /\ IsFiniteSet(Le) /\ Cardinality(Le) \in Nat
  <2>1. IsFiniteSet(1..n) /\ Lt \subseteq 1..n /\ Le \subseteq 1..n
    BY FS_Interval DEF Among
  <2>. HIDE DEF Lt, Le
  <2>. QED
    BY <2>1, FS_Subset, FS_CardinalityType
<1>2. /\ IsFiniteSet(1..k) /\ Cardinality(1..k) = k
      /\ IsFiniteSet(1..k-1) /\ Cardinality(1..k-1) = k-1
  <2>1. k \in Nat /\ k >= 1
    OBVIOUS
  <2>2. IsFiniteSet(1..k) /\ Cardinality(1..k) = k
    BY <2>1, FS_Interval
  <2>3. IsFiniteSet(1..k-1) /\ Cardinality(1..k-1) = IF 1 > k-1 THEN 0 ELSE k-1-1+1
    BY <2>1, FS_Interval
  <2>. QED
    BY <2>1, <2>2, <2>3
<1>3. \A x \in 1..n : t[x] \in Int \X Int
  OBVIOUS
<1>4. ASSUME t[k] = v PROVE Cardinality(Lt) < k /\ k <= Cardinality(Le)
  <2>1. Lt \subseteq 1..k-1
    <3>. SUFFICES ASSUME NEW x \in 1..n, KeyLess(t[x], v), x >= k PROVE FALSE
      BY <1>3 DEF Among, LtSet
    <3>1. CASE x = k
      BY <1>4, <3>1, KeyOrder
    <3>2. CASE x > k
      <4>1. KeyLess(t[k], t[x]) \/ t[k] = t[x]
        BY <3>2 DEF Sorted, KeyLeq
      <4>. QED
        BY <1>3, <1>4, <4>1, KeyOrder
    <3>. QED
      BY <3>1, <3>2
  <2>2. 1..k \subseteq Le
    <3>. SUFFICES ASSUME NEW x \in 1..k PROVE KeyLeq(t[x], v)
      BY <1>3 DEF Among, LeSet
    <3>1. CASE x = k
      BY <1>4, <3>1 DEF KeyLeq
    <3>2. CASE x < k
      BY <1>4, <3>2 DEF Sorted
    <3>. QED
      BY <3>1, <3>2
  <2>. HIDE DEF Lt, Le
  <2>3. Cardinality(Lt) <= k-1
    <3>. DEFINE Km == 1..k-1
    <3>1. IsFiniteSet(Km) /\ Cardinality(Km) = k-1 /\ Lt \subseteq Km
      BY <1>2, <2>1
    <3>. HIDE DEF Km
    <3>. QED
      BY <3>1, FS_Subset
  <2>4. k <= Cardinality(Le)
    BY <1>1, <1>2, <2>2, FS_Subset
  <2>. QED
    BY <1>1, <2>3, <2>4
<1>5. ASSUME Cardinality(Lt) < k, k <= Cardinality(Le) PROVE t[k] = v
  <2>1. CASE KeyLess(t[k], v)
    <3>1. 1..k \subseteq Lt
      <4>. SUFFICES ASSUME NEW x \in 1..k PROVE KeyLess(t[x], v)
        BY <1>3 DEF Among, LtSet
      <4>1. KeyLeq(t[x], t[k])
        BY DEF Sorted, KeyLeq
      <4>. QED
        BY <1>3, <2>1, <4>1, KeyOrder DEF KeyLeq
    <3>. HIDE DEF Lt, Le
    <3>2. k <= Cardinality(Lt)
      BY <1>1, <1>2, <3>1, FS_Subset
    <3>. QED
      BY <1>1, <1>5, <3>2
  <2>2. CASE KeyLess(v, t[k])
    <3>1. Le \subseteq 1..k-1
      <4>. SUFFICES ASSUME NEW x \in 1..n, KeyLeq(t[x], v), x >= k PROVE FALSE
        BY <1>3 DEF Among, LeSet
      <4>1. KeyLeq(t[k], t[x])
        BY DEF Sorted, KeyLeq
      <4>. QED
        BY <1>3, <2>2, <4>1, KeyOrder DEF KeyLeq
    <3>. HIDE DEF Lt, Le
    <3>2. Cardinality(Le) <= k-1
      <4>. DEFINE Km == 1..k-1
      <4>1. IsFiniteSet(Km) /\ Cardinality(Km) = k-1 /\ Le \subseteq Km
        BY <1>2, <3>1
      <4>. HIDE DEF Km
      <4>. QED
        BY <4>1, FS_Subset
    <3>. QED
      BY <1>1, <1>5, <3>2
  <2>. QED
    BY <1>3, <2>1, <2>2, KeyOrder
<1>. QED
  BY <1>4, <1>5
(***************************************************************************)
(* Permuting the entries of a sequence keeps the number of them in any set.*)
(***************************************************************************)
LEMMA CountPerm ==
  ASSUME NEW n \in Nat, NEW f, PermOf(f, n),
         NEW s, NEW t, PermutedBy(t, s, f, n), NEW U
  PROVE  Cardinality(Among(t, n, U)) = Cardinality(Among(s, n, U))
<1>. USE DEF PermOf, PermutedBy
<1>. DEFINE A == Among(t, n, U)
            B == Among(s, n, U)
            g == [x \in A |-> f[x]]
<1>1. IsFiniteSet(A)
  BY FS_Interval, FS_Subset DEF Among
<1>2. g \in Bijection(A, B)
  <2>1. g \in [A -> B]
    BY DEF Among
  <2>2. \A y \in B : \E x \in A : g[x] = y
    BY DEF Among
  <2>3. \A a, b \in A : g[a] = g[b] => a = b
    BY DEF Among
  <2>. QED
    BY <2>1, <2>2, <2>3 DEF Bijection, Injection, Surjection, IsInjective
<1>. HIDE DEF A, B, g
<1>3. Cardinality(B) = Cardinality(A)
  BY <1>1, <1>2, FS_Bijection DEF ExistsBijection
<1>. QED
  BY <1>3 DEF A, B

(***************************************************************************)
(* Two sorted sequences with the same number of entries below and at most  *)
(* each key are equal.                                                     *)
(***************************************************************************)
LEMMA SortedUnique ==
  ASSUME NEW n \in Nat,
         NEW s \in [1..n -> Int \X Int], Sorted(s, n),
         NEW t \in [1..n -> Int \X Int], Sorted(t, n),
         \A v \in Int \X Int :
            /\ Cardinality(Among(s, n, LtSet(v))) = Cardinality(Among(t, n, LtSet(v)))
            /\ Cardinality(Among(s, n, LeSet(v))) = Cardinality(Among(t, n, LeSet(v)))
  PROVE  s = t
<1>. SUFFICES ASSUME NEW k \in 1..n PROVE s[k] = t[k]
  OBVIOUS
<1>. DEFINE v == s[k]
<1>1. v \in Int \X Int
  OBVIOUS
<1>2. /\ Cardinality(Among(s, n, LtSet(v))) < k
      /\ k <= Cardinality(Among(s, n, LeSet(v)))
  BY <1>1, SortedAt
<1>3. /\ Cardinality(Among(t, n, LtSet(v))) < k
      /\ k <= Cardinality(Among(t, n, LeSet(v)))
  BY <1>1, <1>2
<1>. HIDE DEF v
<1>4. t[k] = v
  BY <1>1, <1>3, SortedAt
<1>. QED
  BY <1>4 DEF v
(***************************************************************************)
(* A map of 1..n onto itself is one to one.                                *)
(***************************************************************************)
LEMMA OntoIsOneToOne ==
  ASSUME NEW n \in Nat, NEW f \in [1..n -> 1..n],
         \A y \in 1..n : \E x \in 1..n : f[x] = y
  PROVE  PermOf(f, n)
<1>1. IsFiniteSet(1..n)
  BY FS_Interval
<1>2. f \in Surjection(1..n, 1..n)
  BY DEF Surjection
<1>3. f \in Injection(1..n, 1..n)
  BY <1>1, <1>2, FS_Surjection
<1>. QED
  BY <1>3 DEF Injection, IsInjective, PermOf

(***************************************************************************)
(* sort.Strings over the keys returns them sorted, with as many entries in *)
(* each set of keys as the unsorted keys have.                             *)
(***************************************************************************)
LEMMA SortKeysCounts ==
  ASSUME NEW keys \in Seq(Int \X Int)
  PROVE  /\ SortKeys(keys) \in [1..Len(keys) -> Int \X Int]
         /\ Sorted(SortKeys(keys), Len(keys))
         /\ \A U : Cardinality(Among(SortKeys(keys), Len(keys), U))
                     = Cardinality(Among(keys, Len(keys), U))
<1>. DEFINE n == Len(keys)
            D == 1..n
<1>0. n \in Nat
  OBVIOUS
<1>1. PICK P \in [D -> D] :
         /\ \A i \in D : \E j \in D : P[j] = i
         /\ \A i, j \in D : i < j =>
               KeyLess(keys[P[i]], keys[P[j]]) \/ keys[P[i]] = keys[P[j]]
         /\ SortKeys(keys) = [i \in D |-> keys[P[i]]]
  BY SortKeysSpec
<1>2. SortKeys(keys) \in [D -> Int \X Int]
  BY <1>1
<1>3. Sorted(SortKeys(keys), n)
  BY <1>1 DEF Sorted, KeyLeq
<1>4. PermOf(P, n)
  <2>. HIDE DEF n
  <2>. QED
    BY <1>0, <1>1, OntoIsOneToOne
<1>5. ASSUME NEW V
      PROVE  Cardinality(Among(SortKeys(keys), n, V)) = Cardinality(Among(keys, n, V))
  <2>1. PermutedBy(SortKeys(keys), keys, P, n)
    BY <1>1 DEF PermutedBy
  <2>. HIDE DEF n
  <2>. QED
    BY <1>0, <1>4, <2>1, CountPerm
<1>. QED
  BY <1>2, <1>3, <1>5
(***************************************************************************)
(* Format reads the builder only through the sorted keys and the map of    *)
(* permissions: two builders that agree on both format the same policy.    *)
(***************************************************************************)
LEMMA FormatCongruence ==
  ASSUME NEW sb1, NEW sb2, sb1.permMap = sb2.permMap,
         SortKeys(sb1.keys) = SortKeys(sb2.keys)
  PROVE  Format(sb1) = Format(sb2)
BY DEF Format, LineFails, PolicyLine

(***************************************************************************)
(* The AVCs of al in the order p gives.                                    *)
(***************************************************************************)
Reordered(al, p) == [i \in 1..Len(al) |-> al[p[i]]]

LEMMA ReorderedType ==
  ASSUME NEW al \in Seq(Avc), NEW p, PermOf(p, Len(al))
  PROVE  /\ Reordered(al, p) \in Seq(Avc)
         /\ Len(Reordered(al, p)) = Len(al)
         /\ \A i \in 1..Len(al) : Reordered(al, p)[i] = al[p[i]]
<1>1. \A i \in 1..Len(al) : al[p[i]] \in Avc
  BY DEF PermOf
<1>2. Reordered(al, p) \in [1..Len(al) -> Avc]
  BY <1>1 DEF Reordered
<1>. QED
  BY <1>2 DEF Reordered

(***************************************************************************)
(* addAvc's loop returns at a malformed context whatever the AVC order.    *)
(***************************************************************************)
LEMMA FailsSame ==
  ASSUME NEW al \in Seq(Avc), NEW p, PermOf(p, Len(al))
  PROVE  AddAvcFails(Reordered(al, p)) = AddAvcFails(al)
<1>1. /\ Len(Reordered(al, p)) = Len(al)
      /\ \A i \in 1..Len(al) : Reordered(al, p)[i] = al[p[i]]
  BY ReorderedType
<1>. DEFINE rl == Reordered(al, p)
            n == Len(al)
            Bad(a) == ctxt2type(a.tcontext) = NoType
<1>. HIDE DEF Reordered
<1>2. (\E i \in 1..n : Bad(rl[i])) => \E j \in 1..n : Bad(al[j])
  <2>. SUFFICES ASSUME NEW i \in 1..n, Bad(rl[i]) PROVE \E j \in 1..n : Bad(al[j])
    OBVIOUS
  <2>1. p[i] \in 1..n /\ Bad(al[p[i]])
    BY <1>1 DEF PermOf
  <2>. QED
    BY <2>1
<1>3. (\E j \in 1..n : Bad(al[j])) => \E i \in 1..n : Bad(rl[i])
  <2>. SUFFICES ASSUME NEW j \in 1..n, Bad(al[j]) PROVE \E i \in 1..n : Bad(rl[i])
    OBVIOUS
  <2>1. PICK i \in 1..n : p[i] = j
    BY DEF PermOf
  <2>2. Bad(rl[i])
    BY <1>1, <2>1
  <2>. QED
    BY <2>2
<1>. HIDE DEF Bad
<1>. QED
  BY <1>1, <1>2, <1>3 DEF AddAvcFails, Bad

(***************************************************************************)
(* addAvc groups the same permissions under the same keys in any order.    *)
(***************************************************************************)
LEMMA PermMapSame ==
  ASSUME NEW al \in Seq(Avc), NEW p, PermOf(p, Len(al))
  PROVE  AddAvcList(Reordered(al, p)).permMap = AddAvcList(al).permMap
<1>. DEFINE rl == Reordered(al, p)
            n == Len(al)
<1>1. /\ Len(rl) = n
      /\ \A i \in 1..n : rl[i] = al[p[i]]
  BY ReorderedType
<1>. HIDE DEF Reordered
<1>2. {Key(rl[i]) : i \in 1..n} = {Key(al[i]) : i \in 1..n}
  <2>1. ASSUME NEW i \in 1..n PROVE \E j \in 1..n : Key(rl[i]) = Key(al[j])
    <3>1. p[i] \in 1..n
      BY DEF PermOf
    <3>. QED
      BY <1>1, <3>1
  <2>2. ASSUME NEW j \in 1..n PROVE \E i \in 1..n : Key(al[j]) = Key(rl[i])
    <3>1. PICK i \in 1..n : p[i] = j
      BY DEF PermOf
    <3>. QED
      BY <1>1, <3>1
  <2>. QED
    BY <2>1, <2>2
<1>3. ASSUME NEW k
      PROVE  {rl[x].perm : x \in {j \in 1..n : Key(rl[j]) = k}}
               = {al[x].perm : x \in {j \in 1..n : Key(al[j]) = k}}
  <2>1. ASSUME NEW x \in 1..n, Key(rl[x]) = k
        PROVE  \E y \in 1..n : Key(al[y]) = k /\ rl[x].perm = al[y].perm
    <3>1. p[x] \in 1..n
      BY DEF PermOf
    <3>. QED
      BY <1>1, <2>1, <3>1
  <2>2. ASSUME NEW y \in 1..n, Key(al[y]) = k
        PROVE  \E x \in 1..n : Key(rl[x]) = k /\ al[y].perm = rl[x].perm
    <3>1. PICK x \in 1..n : p[x] = y
      BY DEF PermOf
    <3>. QED
      BY <1>1, <2>2, <3>1
  <2>3. {rl[x].perm : x \in {j \in 1..n : Key(rl[j]) = k}}
          \subseteq {al[x].perm : x \in {j \in 1..n : Key(al[j]) = k}}
    BY <2>1
  <2>4. {al[x].perm : x \in {j \in 1..n : Key(al[j]) = k}}
          \subseteq {rl[x].perm : x \in {j \in 1..n : Key(rl[j]) = k}}
    BY <2>2
  <2>. QED
    BY <2>3, <2>4
<1>4. AddAvcList(rl).permMap =
        [k \in {Key(rl[i]) : i \in 1..n} |->
            {rl[x].perm : x \in {j \in 1..n : Key(rl[j]) = k}}]
  BY <1>1 DEF AddAvcList
<1>5. AddAvcList(al).permMap =
        [k \in {Key(al[i]) : i \in 1..n} |->
            {al[x].perm : x \in {j \in 1..n : Key(al[j]) = k}}]
  BY DEF AddAvcList
<1>. DEFINE Dr == {Key(rl[i]) : i \in 1..n}
            Da == {Key(al[i]) : i \in 1..n}
            Fr(k) == {rl[x].perm : x \in {j \in 1..n : Key(rl[j]) = k}}
            Fa(k) == {al[x].perm : x \in {j \in 1..n : Key(al[j]) = k}}
<1>6. Dr = Da /\ \A k \in Dr : Fr(k) = Fa(k)
  BY <1>2, <1>3
<1>7. AddAvcList(rl).permMap = [k \in Dr |-> Fr(k)]
      /\ AddAvcList(al).permMap = [k \in Da |-> Fa(k)]
  BY <1>4, <1>5
<1>. HIDE DEF Dr, Da, Fr, Fa
<1>. QED
  BY <1>6, <1>7
(***************************************************************************)
(* sort.Strings makes the keys the same sequence whatever the AVC order.   *)
(***************************************************************************)
LEMMA SortSame ==
  ASSUME NEW al \in Seq(Avc), NEW p, PermOf(p, Len(al))
  PROVE  SortKeys(AddAvcList(Reordered(al, p)).keys) = SortKeys(AddAvcList(al).keys)
<1>. DEFINE n == Len(al)
            rl == Reordered(al, p)
            ka == AddAvcList(al).keys
            kr == AddAvcList(rl).keys
            sa == SortKeys(ka)
            sr == SortKeys(kr)
<1>0. n \in Nat
  OBVIOUS
<1>1. /\ Len(rl) = n
      /\ \A i \in 1..n : rl[i] = al[p[i]]
      /\ rl \in Seq(Avc)
  BY ReorderedType
<1>2. /\ ka = [i \in 1..n |-> Key(al[i])]
      /\ kr = [i \in 1..n |-> Key(rl[i])]
  BY <1>1 DEF AddAvcList
<1>3. /\ ka \in Seq(Int \X Int) /\ Len(ka) = n
      /\ kr \in Seq(Int \X Int) /\ Len(kr) = n
  <2>1. \A i \in 1..n : Key(al[i]) \in Int \X Int /\ Key(rl[i]) \in Int \X Int
    BY <1>1, KeyType
  <2>. HIDE DEF rl
  <2>2. ka \in [1..n -> Int \X Int] /\ kr \in [1..n -> Int \X Int]
    BY <1>2, <2>1
  <2>. HIDE DEF ka, kr, n
  <2>. QED
    BY <1>0, <2>2
<1>4. PermutedBy(kr, ka, p, n)
  BY <1>1, <1>2 DEF PermutedBy, PermOf
<1>. HIDE DEF rl, ka, kr
<1>5. \A U : Cardinality(Among(kr, n, U)) = Cardinality(Among(ka, n, U))
  <2>. SUFFICES ASSUME NEW U PROVE Cardinality(Among(kr, n, U)) = Cardinality(Among(ka, n, U))
    OBVIOUS
  <2>1. PermOf(p, n)
    OBVIOUS
  <2>. HIDE DEF n
  <2>. QED
    BY <1>0, <1>4, <2>1, CountPerm
<1>6. /\ sa \in [1..n -> Int \X Int] /\ Sorted(sa, n)
      /\ \A U : Cardinality(Among(sa, n, U)) = Cardinality(Among(ka, n, U))
  BY <1>3, SortKeysCounts
<1>7. /\ sr \in [1..n -> Int \X Int] /\ Sorted(sr, n)
      /\ \A U : Cardinality(Among(sr, n, U)) = Cardinality(Among(kr, n, U))
  BY <1>3, SortKeysCounts
<1>. HIDE DEF sa, sr
<1>8. \A v \in Int \X Int :
         /\ Cardinality(Among(sr, n, LtSet(v))) = Cardinality(Among(sa, n, LtSet(v)))
         /\ Cardinality(Among(sr, n, LeSet(v))) = Cardinality(Among(sa, n, LeSet(v)))
  BY <1>5, <1>6, <1>7
<1>9. sr = sa
  <2>. HIDE DEF n
  <2>. QED
    BY <1>0, <1>6, <1>7, <1>8, SortedUnique
<1>. QED
  BY <1>9 DEF sa, sr, ka, kr, rl
(***************************************************************************)
(* formatSelinuxProfile gives the same outcome on a reordering of the AVCs.*)
(***************************************************************************)
LEMMA ReorderSame ==
  ASSUME NEW al \in Seq(Avc), NEW p, PermOf(p, Len(al))
  PROVE  FormatSelinuxProfile(Reordered(al, p)) = FormatSelinuxProfile(al)
<1>1. AddAvcFails(Reordered(al, p)) = AddAvcFails(al)
  BY FailsSame
<1>2. Format(AddAvcList(Reordered(al, p))) = Format(AddAvcList(al))
  BY PermMapSame, SortSame, FormatCongruence
<1>. QED
  BY <1>1, <1>2 DEF FormatSelinuxProfile

(***************************************************************************)
(* A map of 1..n into itself that is one to one is onto.                   *)
(***************************************************************************)
LEMMA OneToOneIsOnto ==
  ASSUME NEW n \in Nat, NEW f \in [1..n -> 1..n],
         \A i, j \in 1..n : f[i] = f[j] => i = j
  PROVE  PermOf(f, n)
<1>1. IsFiniteSet(1..n)
  BY FS_Interval
<1>2. f \in Injection(1..n, 1..n)
  BY DEF Injection, IsInjective
<1>3. f \in Surjection(1..n, 1..n)
  BY <1>1, <1>2, FS_Injection
<1>. QED
  BY <1>3 DEF Surjection, PermOf

(***************************************************************************)
(* The reorderings the property quantifies over are the AVC list permuted. *)
(***************************************************************************)
LEMMA ReorderingIsPermuted ==
  ASSUME avcs \in Seq(Avc), NEW r \in Reorderings
  PROVE  \E p : PermOf(p, Len(avcs)) /\ r = Reordered(avcs, p)
<1>. DEFINE n == Len(avcs)
<1>1. PICK p \in SetToSeqs(1..n) : r = [i \in 1..n |-> avcs[p[i]]]
  BY DEF Reorderings
<1>2. n \in Nat /\ Cardinality(1..n) = n
  <2>1. n \in Nat
    OBVIOUS
  <2>2. Cardinality(1..n) = IF 1 > n THEN 0 ELSE n - 1 + 1
    BY <2>1, FS_Interval
  <2>. QED
    BY <2>1, <2>2
<1>3. p \in [1..n -> 1..n] /\ \A i, j \in 1..n : i # j => p[i] # p[j]
  BY <1>1, <1>2 DEF SetToSeqs
<1>4. PermOf(p, n)
  BY <1>2, <1>3, OneToOneIsOnto
<1>. QED
  BY <1>1, <1>4 DEF Reordered
(***************************************************************************)
(* For AVC lists of every length over any names, the policy that           *)
(* formatSelinuxProfile builds does not depend on the order the Avcs RPC   *)
(* returned the AVCs in: the determinism Format owes to sort.Strings.      *)
(***************************************************************************)
THEOREM OrderIndependent == Spec => []FormatOrderIndependent
<1>1. TypeOK => FormatOrderIndependent
  <2>. SUFFICES ASSUME TypeOK, NEW r \in Reorderings
                PROVE  FormatSelinuxProfile(r) = FormatSelinuxProfile(avcs)
    BY DEF FormatOrderIndependent
  <2>1. avcs \in Seq(Avc)
    BY RpcAvcsAreAvcs, SeqMonotonic DEF TypeOK
  <2>2. PICK p : PermOf(p, Len(avcs)) /\ r = Reordered(avcs, p)
    BY <2>1, ReorderingIsPermuted
  <2>. QED
    BY <2>1, <2>2, ReorderSame
<1>. QED
  BY <1>1, TypeInvariant, PTL
====
