----------------------------- MODULE SmtProofs -----------------------------
(***************************************************************************)
(* What Smt::set and Smt::get do to the tree of a content, for every set   *)
(* of keys, every width of a key and every set of values.                  *)
(***************************************************************************)
EXTENDS Smt, TLAPS, NaturalsInduction, WellFoundedInduction

-----------------------------------------------------------------------------
(* Induction, and nodes                                                    *)

\* A set of numbers that is not empty has a least one.
LEMMA SmallestNumber ==
    ASSUME NEW T \in SUBSET Nat, T # {}
    PROVE  \E x \in T : \A y \in T : x <= y
<1> DEFINE R == {ss \in Nat \X Nat : ss[1] < ss[2]}
<1>1. IsWellFoundedOn(R, Nat)
  BY NatLessThanWellFounded DEF OpToRel
<1>2. PICK x \in T : \A y \in T : ~(<<y, x>> \in R)
  BY <1>1, WFMin
<1>3. \A y \in T : ~(y < x)
  BY <1>2
<1> QED
  BY <1>3

\* Going down: a property that holds of the last number and passes from each
\* number to the one before it (U is the set where it fails).
LEMMA DownTo ==
    ASSUME NEW a \in Int, NEW z \in Int, NEW U \in SUBSET (a..z),
           z \notin U,
           \A l \in a..z : (l < z /\ l + 1 \notin U) => l \notin U
    PROVE  U = {}
<1> DEFINE T == {n \in Nat : z - n \in U}
<1>1. SUFFICES ASSUME U # {} PROVE FALSE
  OBVIOUS
<1>2. PICK u \in U : TRUE
  BY <1>1
<1>3. u \in a..z /\ z - u \in Nat /\ z - (z - u) = u
  BY <1>2
<1>4. z - u \in T
  BY <1>2, <1>3
<1>5. T \in SUBSET Nat /\ T # {}
  BY <1>4
<1>6. PICK n \in T : \A m \in T : n <= m
  BY <1>5, SmallestNumber
<1>7. n \in Nat /\ z - n \in U /\ z - n \in a..z
  BY <1>6
<1>8. n # 0
  BY <1>7
<1>9. n - 1 \in Nat /\ ~(n <= n - 1) /\ z - n < z /\ (z - n) + 1 = z - (n - 1)
  BY <1>7, <1>8
<1>10. n - 1 \notin T
  BY <1>6, <1>9
<1>11. (z - n) + 1 \notin U
  BY <1>9, <1>10
<1> QED
  BY <1>7, <1>9, <1>11

\* Going up from the first number.
LEMMA UpFrom ==
    ASSUME NEW a \in Int, NEW z \in Int, NEW U \in SUBSET (a..z),
           a \notin U,
           \A l \in a..z : (a < l /\ l - 1 \notin U) => l \notin U
    PROVE  U = {}
<1> DEFINE T == {n \in Nat : a + n \in U}
<1>1. SUFFICES ASSUME U # {} PROVE FALSE
  OBVIOUS
<1>2. PICK u \in U : TRUE
  BY <1>1
<1>3. u \in a..z /\ u - a \in Nat /\ a + (u - a) = u
  BY <1>2
<1>4. u - a \in T
  BY <1>2, <1>3
<1>5. T \in SUBSET Nat /\ T # {}
  BY <1>4
<1>6. PICK n \in T : \A m \in T : n <= m
  BY <1>5, SmallestNumber
<1>7. n \in Nat /\ a + n \in U /\ a + n \in a..z
  BY <1>6
<1>8. n # 0
  BY <1>7
<1>9. n - 1 \in Nat /\ ~(n <= n - 1) /\ a < a + n /\ (a + n) - 1 = a + (n - 1)
  BY <1>7, <1>8
<1>10. n - 1 \notin T
  BY <1>6, <1>9
<1>11. (a + n) - 1 \notin U
  BY <1>9, <1>10
<1> QED
  BY <1>7, <1>9, <1>11

\* The kinds of node are told apart by their type.
LEMMA NodeKinds ==
    ASSUME NEW r, NEW v, NEW r2, NEW v2, NEW A, NEW B, NEW A2, NEW B2
    PROVE  /\ ~IsLeaf(Zero) /\ ~IsIntermediate(Zero)
           /\ IsLeaf(LeafNode(r, v)) /\ ~IsIntermediate(LeafNode(r, v))
           /\ LeafNode(r, v).rkey = r /\ LeafNode(r, v).value = v
           /\ IsIntermediate(IntermediateNode(A, B)) /\ ~IsLeaf(IntermediateNode(A, B))
           /\ LeafNode(r, v) = LeafNode(r2, v2) => r = r2 /\ v = v2
           /\ IntermediateNode(A, B) = IntermediateNode(A2, B2) => A = A2 /\ B = B2
<1>1. IntermediateNode(A, B) = IntermediateNode(A2, B2) => A = A2 /\ B = B2
  <2>1. SUFFICES ASSUME IntermediateNode(A, B) = IntermediateNode(A2, B2)
                 PROVE  A = A2 /\ B = B2
    OBVIOUS
  <2>2. IntermediateNode(A, B).child = IntermediateNode(A2, B2).child
    BY <2>1
  <2>3. <<A, B>> = <<A2, B2>>
    BY <2>2 DEF IntermediateNode
  <2> QED
    BY <2>3
<1>2. LeafNode(r, v) = LeafNode(r2, v2) => r = r2 /\ v = v2
  <2>1. SUFFICES ASSUME LeafNode(r, v) = LeafNode(r2, v2)
                 PROVE  r = r2 /\ v = v2
    OBVIOUS
  <2>2. LeafNode(r, v).rkey = LeafNode(r2, v2).rkey /\ LeafNode(r, v).value = LeafNode(r2, v2).value
    BY <2>1
  <2> QED
    BY <2>2 DEF LeafNode
<1> QED
  BY <1>1, <1>2 DEF IsLeaf, IsIntermediate, Zero, LeafNode, IntermediateNode

\* Reading and replacing a child.
LEMMA Children ==
    ASSUME NEW A, NEW B, NEW X
    PROVE  /\ Child(IntermediateNode(A, B), 0) = A /\ Child(IntermediateNode(A, B), 1) = B
           /\ Put(IntermediateNode(A, B), 0, X) = IntermediateNode(X, B)
           /\ Put(IntermediateNode(A, B), 1, X) = IntermediateNode(A, X)
  BY DEF Child, Put, IntermediateNode

-----------------------------------------------------------------------------
(* The recursive functions of Smt.tla are solutions of their equations.    *)

\* f is a climb whose bottom is at level z.
IsClimb(f, first, s, z, key, bottom) ==
    f = [l \in first..z |-> IF l = z THEN bottom ELSE Put(s[l], key[l + 1], f[l + 1])]

LEMMA ClimbExists ==
    ASSUME NEW a \in Int, NEW z \in Int, a <= z, NEW s, NEW key, NEW bottom
    PROVE  \E f : IsClimb(f, a, s, z, key, bottom)
<1> DEFINE U == {l \in a..z : ~\E f : IsClimb(f, l, s, z, key, bottom)}
<1>1. z \notin U
  <2> DEFINE f == [l \in z..z |-> bottom]
  <2>1. IsClimb(f, z, s, z, key, bottom)
    BY DEF IsClimb
  <2> QED
    BY <2>1
<1>2. ASSUME NEW l \in a..z, l < z, l + 1 \notin U
      PROVE  l \notin U
  <2>1. PICK f : IsClimb(f, l + 1, s, z, key, bottom)
    BY <1>2
  <2> DEFINE g == [i \in l..z |-> IF i = l THEN Put(s[l], key[l + 1], f[l + 1]) ELSE f[i]]
  <2>2. ASSUME NEW i \in l..z
        PROVE  g[i] = IF i = z THEN bottom ELSE Put(s[i], key[i + 1], g[i + 1])
    <3>1. CASE i = l
      <4>1. l + 1 \in l..z /\ l + 1 # l /\ i # z
        BY <1>2, <3>1
      <4>2. g[l + 1] = f[l + 1]
        BY <4>1
      <4> QED
        BY <3>1, <4>1, <4>2
    <3>2. CASE i # l
      <4>1. i \in (l + 1)..z /\ g[i] = f[i]
        BY <3>2
      <4>2. i # z => i + 1 \in l..z /\ i + 1 # l
        BY <4>1
      <4>3. i # z => g[i + 1] = f[i + 1]
        BY <4>2
      <4>4. f[i] = IF i = z THEN bottom ELSE Put(s[i], key[i + 1], f[i + 1])
        BY <2>1, <4>1 DEF IsClimb
      <4> QED
        BY <4>1, <4>3, <4>4
    <3> QED
      BY <3>1, <3>2
  <2>3. g = [i \in l..z |-> g[i]]
    OBVIOUS
  <2> HIDE DEF g
  <2>4. IsClimb(g, l, s, z, key, bottom)
    BY <2>2, <2>3 DEF IsClimb
  <2> QED
    BY <2>4
<1>3. U \in SUBSET (a..z)
  OBVIOUS
<1>4. U = {}
  <2> HIDE DEF U
  <2> QED
    BY <1>1, <1>2, <1>3, DownTo
<1> QED
  BY <1>4

LEMMA ClimbIs ==
    ASSUME NEW a \in Int, NEW m \in Int, a <= m + 1, NEW s, NEW key, NEW bottom
    PROVE  IsClimb(ClimbTo(a, s, m, key, bottom), a, s, m + 1, key, bottom)
<1>1. \E f : IsClimb(f, a, s, m + 1, key, bottom)
  BY ClimbExists
<1>2. ClimbTo(a, s, m, key, bottom) = CHOOSE f : IsClimb(f, a, s, m + 1, key, bottom)
  BY DEF ClimbTo, IsClimb
<1> QED
  BY <1>1, <1>2

\* f is a walk of n steps.
IsWalk(f, n, top, key) ==
    f = [l \in 0..n |->
            IF l = 0 THEN top
            ELSE IF IsIntermediate(f[l - 1]) THEN Child(f[l - 1], key[l]) ELSE Zero]

LEMMA WalkExists ==
    ASSUME NEW n \in Nat, NEW top, NEW key
    PROVE  \E f : IsWalk(f, n, top, key)
<1> DEFINE U == {l \in 0..n : ~\E f : IsWalk(f, l, top, key)}
<1>1. 0 \notin U
  <2> DEFINE f == [l \in 0..0 |-> top]
  <2>1. IsWalk(f, 0, top, key)
    BY DEF IsWalk
  <2> QED
    BY <2>1
<1>2. ASSUME NEW l \in 0..n, 0 < l, l - 1 \notin U
      PROVE  l \notin U
  <2>1. PICK f : IsWalk(f, l - 1, top, key)
    BY <1>2
  <2> DEFINE x == IF IsIntermediate(f[l - 1]) THEN Child(f[l - 1], key[l]) ELSE Zero
             g == [i \in 0..l |-> IF i = l THEN x ELSE f[i]]
  <2>2. ASSUME NEW i \in 0..l
        PROVE  g[i] = IF i = 0 THEN top
                      ELSE IF IsIntermediate(g[i - 1]) THEN Child(g[i - 1], key[i]) ELSE Zero
    <3>1. CASE i = l
      <4>1. l - 1 \in 0..l /\ l - 1 # l /\ l # 0
        BY <1>2
      <4>2. g[l - 1] = f[l - 1]
        BY <4>1
      <4> QED
        BY <3>1, <4>1, <4>2
    <3>2. CASE i # l
      <4>1. i \in 0..(l - 1) /\ g[i] = f[i]
        BY <3>2
      <4>2. i # 0 => i - 1 \in 0..l /\ i - 1 # l
        BY <4>1
      <4>3. i # 0 => g[i - 1] = f[i - 1]
        BY <4>2
      <4>4. f[i] = IF i = 0 THEN top
                   ELSE IF IsIntermediate(f[i - 1]) THEN Child(f[i - 1], key[i]) ELSE Zero
        BY <2>1, <4>1 DEF IsWalk
      <4> QED
        BY <4>1, <4>3, <4>4
    <3> QED
      BY <3>1, <3>2
  <2>3. g = [i \in 0..l |-> g[i]]
    OBVIOUS
  <2> HIDE DEF g
  <2>4. IsWalk(g, l, top, key)
    BY <2>2, <2>3 DEF IsWalk
  <2> QED
    BY <2>4
<1>3. U \in SUBSET (0..n)
  OBVIOUS
<1>4. U = {}
  <2>1. 0 \in Int /\ n \in Int
    OBVIOUS
  <2> HIDE DEF U
  <2> QED
    BY <2>1, <1>1, <1>2, <1>3, UpFrom
<1> QED
  BY <1>4

LEMMA NodeAtIs ==
    ASSUME NEW top, NEW key
    PROVE  IsWalk(NodeAt(top, key), KeyBits, top, key)
<1>1. \E f : IsWalk(f, KeyBits, top, key)
  BY WalkExists, KeysAssumption
<1>2. NodeAt(top, key) = CHOOSE f : IsWalk(f, KeyBits, top, key)
  BY DEF NodeAt, IsWalk
<1> QED
  BY <1>1, <1>2

\* One level of the reference tree, from the level below it.
SubtreeLevel(l, c, below) ==
    [ks \in SUBSET Keys |->
        IF ks = {} THEN Zero
        ELSE IF l = KeyBits \/ \A j, k \in ks : j = k
        THEN LET k == CHOOSE k \in ks : TRUE
             IN  LeafNode(removeKeyBits(k, l), c[k])
        ELSE IntermediateNode(below[Half(ks, l, 0)], below[Half(ks, l, 1)])]

IsSubtree(f, first, c) ==
    f = [l \in first..KeyBits |-> SubtreeLevel(l, c, f[l + 1])]

LEMMA SubtreeExists ==
    ASSUME NEW c
    PROVE  \E f : IsSubtree(f, 0, c)
<1> DEFINE U == {l \in 0..KeyBits : ~\E f : IsSubtree(f, l, c)}
<1>0. KeyBits \in Nat
  BY KeysAssumption
<1>1. KeyBits \notin U
  <2>1. \A x, y : SubtreeLevel(KeyBits, c, x) = SubtreeLevel(KeyBits, c, y)
    BY DEF SubtreeLevel
  <2> DEFINE f == [l \in KeyBits..KeyBits |-> SubtreeLevel(KeyBits, c, Zero)]
  <2>2. IsSubtree(f, KeyBits, c)
    BY <1>0, <2>1 DEF IsSubtree
  <2> QED
    BY <2>2
<1>2. ASSUME NEW l \in 0..KeyBits, l < KeyBits, l + 1 \notin U
      PROVE  l \notin U
  <2>1. PICK f : IsSubtree(f, l + 1, c)
    BY <1>2, <1>0
  <2> DEFINE g == [i \in l..KeyBits |-> IF i = l THEN SubtreeLevel(l, c, f[l + 1]) ELSE f[i]]
  <2>2. ASSUME NEW i \in l..KeyBits
        PROVE  g[i] = SubtreeLevel(i, c, g[i + 1])
    <3>1. CASE i = l
      <4>1. l + 1 \in l..KeyBits /\ l + 1 # l
        BY <1>0, <1>2
      <4>2. g[l + 1] = f[l + 1]
        BY <4>1
      <4> QED
        BY <3>1, <4>1, <4>2
    <3>2. CASE i # l
      <4>1. i \in (l + 1)..KeyBits /\ g[i] = f[i]
        BY <1>0, <3>2
      <4>2. f[i] = SubtreeLevel(i, c, f[i + 1])
        BY <2>1, <4>1 DEF IsSubtree
      <4>3. CASE i = KeyBits
        <5>1. SubtreeLevel(i, c, f[i + 1]) = SubtreeLevel(i, c, g[i + 1])
          BY <4>3 DEF SubtreeLevel
        <5> QED
          BY <4>1, <4>2, <5>1
      <4>4. CASE i # KeyBits
        <5>1. i + 1 \in l..KeyBits /\ i + 1 # l
          BY <1>0, <4>1, <4>4
        <5>2. g[i + 1] = f[i + 1]
          BY <5>1
        <5> QED
          BY <4>1, <4>2, <5>2
      <4> QED
        BY <4>3, <4>4
    <3> QED
      BY <3>1, <3>2
  <2>3. g = [i \in l..KeyBits |-> g[i]]
    OBVIOUS
  <2> HIDE DEF g
  <2>4. IsSubtree(g, l, c)
    BY <2>2, <2>3 DEF IsSubtree
  <2> QED
    BY <2>4
<1>3. U \in SUBSET (0..KeyBits)
  OBVIOUS
<1>4. U = {}
  <2>1. 0 \in Int /\ KeyBits \in Int
    BY <1>0
  <2> HIDE DEF U
  <2> QED
    BY <2>1, <1>1, <1>2, <1>3, DownTo
<1> QED
  BY <1>0, <1>4

LEMMA SubtreeIs ==
    ASSUME NEW c
    PROVE  IsSubtree(Subtree(c), 0, c)
<1>1. \E f : IsSubtree(f, 0, c)
  BY SubtreeExists
<1>2. Subtree(c) = CHOOSE f : IsSubtree(f, 0, c)
  BY DEF Subtree, IsSubtree, SubtreeLevel
<1> QED
  BY <1>1, <1>2

-----------------------------------------------------------------------------
(* Sets of keys with a common prefix                                       *)

Many(ks) == \E j, k \in ks : j # k

\* The keys ks agree on their first l bits.
Prefixed(ks, l) ==
    /\ ks \in SUBSET Keys
    /\ \A j, k \in ks : \A i \in 1..l : j[i] = k[i]

\* The keys present in c that agree with k on their first l bits
Under(c, k, l) == {j \in Keys : c[j] # 0 /\ \A i \in 1..l : j[i] = k[i]}

Sub(c, l, ks) == Subtree(c)[l][ks]

LEMMA KeyFacts ==
    /\ KeyBits \in Nat /\ KeyBits # 0
    /\ \A k \in Keys : /\ k \in [1..KeyBits -> Bits] /\ DOMAIN k = 1..KeyBits
                       /\ \A i \in 1..KeyBits : k[i] \in {0, 1}
    /\ \A j, k \in Keys : (\A i \in 1..KeyBits : j[i] = k[i]) => j = k
  BY KeysAssumption DEF Bits

LEMMA NoneOneMany ==
    ASSUME NEW ks \in SUBSET Keys
    PROVE  /\ ks = {} \/ (\E k \in Keys : ks = {k}) \/ Many(ks)
           /\ ~Many({})
           /\ \A k : ~Many({k})
  BY DEF Many

LEMMA HalfFacts ==
    ASSUME NEW l \in 0..KeyBits, l < KeyBits, NEW ks, Prefixed(ks, l)
    PROVE  /\ l + 1 \in 0..KeyBits
           /\ \A b \in {0, 1} : Prefixed(Half(ks, l, b), l + 1)
           /\ ks = Half(ks, l, 0) \cup Half(ks, l, 1)
<1>1. l + 1 \in 0..KeyBits /\ l + 1 \in 1..KeyBits
  BY KeyFacts
<1>2. \A i \in 1..(l + 1) : i \in 1..l \/ i = l + 1
  BY KeyFacts
<1>3. \A k \in ks : k[l + 1] \in {0, 1}
  BY <1>1, KeyFacts DEF Prefixed
<1>4. ASSUME NEW b \in {0, 1}
      PROVE  Prefixed(Half(ks, l, b), l + 1)
  <2>1. Half(ks, l, b) \in SUBSET Keys
    BY DEF Half, Prefixed
  <2>2. ASSUME NEW j \in Half(ks, l, b), NEW k \in Half(ks, l, b), NEW i \in 1..(l + 1)
        PROVE  j[i] = k[i]
    <3>1. j \in ks /\ k \in ks /\ j[l + 1] = b /\ k[l + 1] = b
      BY DEF Half
    <3>2. CASE i = l + 1
      BY <3>1, <3>2
    <3>3. CASE i \in 1..l
      BY <3>1, <3>3 DEF Prefixed
    <3> QED
      BY <1>2, <3>2, <3>3
  <2> QED
    BY <2>1, <2>2 DEF Prefixed
<1> QED
  BY <1>1, <1>3, <1>4 DEF Half

LEMMA SubtreeCases ==
    ASSUME NEW c, NEW l \in 0..KeyBits, NEW ks, Prefixed(ks, l)
    PROVE  /\ ks = {} => Sub(c, l, ks) = Zero
           /\ \A k \in Keys : ks = {k} => Sub(c, l, ks) = LeafNode(removeKeyBits(k, l), c[k])
           /\ Many(ks) =>
                 /\ l < KeyBits
                 /\ Sub(c, l, ks) = IntermediateNode(Sub(c, l + 1, Half(ks, l, 0)),
                                                     Sub(c, l + 1, Half(ks, l, 1)))
<1>1. Subtree(c)[l] = SubtreeLevel(l, c, Subtree(c)[l + 1])
  BY SubtreeIs DEF IsSubtree
<1>2. ks \in SUBSET Keys
  BY DEF Prefixed
<1>3. Sub(c, l, ks) =
        IF ks = {} THEN Zero
        ELSE IF l = KeyBits \/ \A j, k \in ks : j = k
        THEN LET k == CHOOSE k \in ks : TRUE
             IN  LeafNode(removeKeyBits(k, l), c[k])
        ELSE IntermediateNode(Sub(c, l + 1, Half(ks, l, 0)), Sub(c, l + 1, Half(ks, l, 1)))
  BY <1>1, <1>2 DEF SubtreeLevel, Sub
<1>4. Many(ks) => l < KeyBits /\ ks # {}
  <2>1. SUFFICES ASSUME Many(ks), ~(l < KeyBits)
                 PROVE  FALSE
    BY DEF Many
  <2>2. l = KeyBits
    BY <2>1, KeyFacts
  <2>3. \A j, k \in ks : j = k
    BY <1>2, <2>2, KeyFacts DEF Prefixed
  <2> QED
    BY <2>1, <2>3 DEF Many
<1>5. Many(ks) => ~(\A j, k \in ks : j = k)
  BY DEF Many
<1>6. ASSUME NEW k \in Keys, ks = {k}
      PROVE  Sub(c, l, ks) = LeafNode(removeKeyBits(k, l), c[k])
  <2>1. (CHOOSE j \in ks : TRUE) = k /\ ks # {} /\ \A i, j \in ks : i = j
    BY <1>6
  <2> QED
    BY <1>3, <2>1
<1>7. Many(ks) => l # KeyBits
  BY <1>4, KeyFacts
<1> QED
  BY <1>3, <1>4, <1>5, <1>6, <1>7

LEMMA SubtreeDepends ==
    ASSUME NEW c, NEW d
    PROVE  \A l \in 0..KeyBits : \A ks :
               (Prefixed(ks, l) /\ \A j \in ks : c[j] = d[j]) => Sub(c, l, ks) = Sub(d, l, ks)
<1> DEFINE Good(l) == \A ks : (Prefixed(ks, l) /\ \A j \in ks : c[j] = d[j])
                                 => Sub(c, l, ks) = Sub(d, l, ks)
           U == {l \in 0..KeyBits : ~Good(l)}
<1>1. ASSUME NEW l \in 0..KeyBits, l = KeyBits \/ Good(l + 1)
      PROVE  Good(l)
  <2>1. SUFFICES ASSUME NEW ks, Prefixed(ks, l), \A j \in ks : c[j] = d[j]
                 PROVE  Sub(c, l, ks) = Sub(d, l, ks)
    OBVIOUS
  <2>2. ks \in SUBSET Keys
    BY <2>1 DEF Prefixed
  <2>3. CASE ks = {}
    BY <2>1, <2>3, SubtreeCases
  <2>4. CASE \E k \in Keys : ks = {k}
    <3>1. PICK k \in Keys : ks = {k}
      BY <2>4
    <3>2. c[k] = d[k]
      BY <2>1, <3>1
    <3> QED
      BY <2>1, <3>1, <3>2, SubtreeCases
  <2>5. CASE Many(ks)
    <3>1. l < KeyBits
      BY <2>1, <2>5, SubtreeCases
    <3>2. Good(l + 1)
      BY <1>1, <3>1, KeyFacts
    <3>3. ASSUME NEW b \in {0, 1}
          PROVE  Sub(c, l + 1, Half(ks, l, b)) = Sub(d, l + 1, Half(ks, l, b))
      <4>1. Prefixed(Half(ks, l, b), l + 1)
        BY <2>1, <3>1, HalfFacts
      <4>2. \A j \in Half(ks, l, b) : c[j] = d[j]
        BY <2>1 DEF Half
      <4> QED
        BY <3>2, <4>1, <4>2
    <3>4. /\ Sub(c, l, ks) = IntermediateNode(Sub(c, l + 1, Half(ks, l, 0)), Sub(c, l + 1, Half(ks, l, 1)))
          /\ Sub(d, l, ks) = IntermediateNode(Sub(d, l + 1, Half(ks, l, 0)), Sub(d, l + 1, Half(ks, l, 1)))
      BY <2>1, <2>5, SubtreeCases
    <3> HIDE DEF Good
    <3> QED
      BY <3>3, <3>4
  <2> QED
    BY <2>2, <2>3, <2>4, <2>5, NoneOneMany
<1>2. U \in SUBSET (0..KeyBits) /\ 0 \in Int /\ KeyBits \in Int
  BY KeyFacts
<1> HIDE DEF Good
<1>3. KeyBits \notin U
  BY <1>1, KeyFacts
<1>4. ASSUME NEW l \in 0..KeyBits, l < KeyBits, l + 1 \notin U
      PROVE  l \notin U
  <2>1. l + 1 \in 0..KeyBits
    BY <1>4, KeyFacts
  <2> QED
    BY <1>1, <1>4, <2>1
<1>5. U = {}
  <2> HIDE DEF U
  <2> QED
    BY <1>2, <1>3, <1>4, DownTo
<1>6. \A l \in 0..KeyBits : Good(l)
  BY <1>5
<1> QED
  BY <1>6 DEF Good

LEMMA SubtreeKinds ==
    ASSUME NEW c, NEW l \in 0..KeyBits, NEW ks, Prefixed(ks, l)
    PROVE  /\ IsIntermediate(Sub(c, l, ks)) <=> Many(ks)
           /\ IsLeaf(Sub(c, l, ks)) <=> \E k \in Keys : ks = {k}
           /\ Sub(c, l, ks) = Zero <=> ks = {}
<1>1. ks = {} \/ (\E k \in Keys : ks = {k}) \/ Many(ks)
  BY NoneOneMany DEF Prefixed
<1>2. CASE ks = {}
  <2>1. Sub(c, l, ks) = Zero
    BY <1>2, SubtreeCases
  <2> QED
    BY <1>2, <2>1, NodeKinds, NoneOneMany
<1>3. CASE \E k \in Keys : ks = {k}
  <2>1. PICK k \in Keys : ks = {k}
    BY <1>3
  <2>2. Sub(c, l, ks) = LeafNode(removeKeyBits(k, l), c[k])
    BY <2>1, SubtreeCases
  <2>3. ~Many(ks)
    BY <2>1, NoneOneMany
  <2> HIDE <1>1
  <2> QED
    BY <2>1, <2>2, <2>3, NodeKinds
<1>4. CASE Many(ks)
  <2>1. Sub(c, l, ks) = IntermediateNode(Sub(c, l + 1, Half(ks, l, 0)), Sub(c, l + 1, Half(ks, l, 1)))
    BY <1>4, SubtreeCases
  <2>2. ks # {} /\ ~\E k \in Keys : ks = {k}
    BY <1>4 DEF Many
  <2>3. IsIntermediate(Sub(c, l, ks)) /\ ~IsLeaf(Sub(c, l, ks))
    BY <2>1, NodeKinds
  <2>4. Sub(c, l, ks) # Zero
    BY <2>3, NodeKinds
  <2> QED
    BY <1>4, <2>2, <2>3, <2>4
<1> QED
  BY <1>1, <1>2, <1>3, <1>4

LEMMA UnderFacts ==
    ASSUME NEW c, NEW k \in Keys, NEW l \in 0..KeyBits
    PROVE  /\ Under(c, k, l) \in SUBSET Keys
           /\ Prefixed(Under(c, k, l), l)
           /\ k \in Under(c, k, l) <=> c[k] # 0
           /\ l < KeyBits => Under(c, k, l + 1) = Half(Under(c, k, l), l, k[l + 1])
  BY KeyFacts DEF Under, Prefixed, Half

LEMMA UnderEnds ==
    ASSUME NEW c, NEW k \in Keys
    PROVE  /\ Under(c, k, 0) = {j \in Keys : c[j] # 0}
           /\ ~Many(Under(c, k, KeyBits))
  BY KeyFacts DEF Under, Many

\* The first bits of one key and the last bits of another that begins with them.
LEMMA JoinedKey ==
    ASSUME NEW j \in Keys, NEW k \in Keys, NEW n \in 0..KeyBits,
           \A i \in 1..n : j[i] = k[i]
    PROVE  joinKey(SubSeq(k, 1, n), removeKeyBits(j, n)) = j
<1>1. /\ KeyBits \in Nat /\ j \in [1..KeyBits -> Bits] /\ k \in [1..KeyBits -> Bits]
  BY KeyFacts
<1>2. j \in Seq(Bits) /\ k \in Seq(Bits) /\ Len(j) = KeyBits /\ Len(k) = KeyBits
  BY <1>1
<1>3. /\ SubSeq(k, 1, n) \in Seq(Bits) /\ Len(SubSeq(k, 1, n)) = n
      /\ \A i \in 1..n : SubSeq(k, 1, n)[i] = k[i]
  BY <1>1, <1>2
<1>4. /\ SubSeq(j, n + 1, KeyBits) \in Seq(Bits) /\ Len(SubSeq(j, n + 1, KeyBits)) = KeyBits - n
      /\ \A i \in 1..(KeyBits - n) : SubSeq(j, n + 1, KeyBits)[i] = j[n + i]
  BY <1>1, <1>2
<1> DEFINE s == SubSeq(k, 1, n)
           t == SubSeq(j, n + 1, KeyBits)
<1> HIDE DEF s, t
<1>5. Len(s \o t) = KeyBits /\ s \o t \in Seq(Bits)
  BY <1>1, <1>3, <1>4 DEF s, t
<1>6. ASSUME NEW i \in 1..KeyBits
      PROVE  (s \o t)[i] = j[i]
  <2>1. CASE i <= n
    BY <1>1, <1>3, <1>4, <2>1 DEF s, t
  <2>2. CASE ~(i <= n)
    <3>1. i - n \in 1..(KeyBits - n) /\ n + (i - n) = i
      BY <1>1, <2>2
    <3>2. (s \o t)[i] = t[i - n]
      BY <1>1, <1>3, <1>4, <2>2, <3>1 DEF s, t
    <3> QED
      BY <1>4, <3>1, <3>2 DEF t
  <2> QED
    BY <2>1, <2>2
<1>7. s \o t = j
  BY <1>1, <1>2, <1>5, <1>6
<1> QED
  BY <1>7 DEF joinKey, removeKeyBits, s, t

-----------------------------------------------------------------------------
(* The walk down a canonical tree                                          *)

\* What the walk for k finds: n levels with several keys, then at most one.
WalkIs(w, c, k, n) ==
    /\ w.level = n - 1
    /\ ~Many(Under(c, k, n))
    /\ \A l \in 0..n - 1 : Many(Under(c, k, l)) /\ w.siblings[l] = Sub(c, l, Under(c, k, l))
    /\ w.leaf = Sub(c, n, Under(c, k, n))
    /\ w.found <=> Under(c, k, n) # {}
    /\ \A j \in Keys : Under(c, k, n) = {j} => w.foundKey = j

LEMMA WalkNodes ==
    ASSUME NEW c, NEW k \in Keys
    PROVE  \A l \in 0..KeyBits :
               (\A i \in 0..l - 1 : Many(Under(c, k, i)))
                   => NodeAt(Tree(c), k)[l] = Sub(c, l, Under(c, k, l))
<1> DEFINE at == NodeAt(Tree(c), k)
           Good(l) == (\A i \in 0..l - 1 : Many(Under(c, k, i))) => at[l] = Sub(c, l, Under(c, k, l))
           U == {l \in 0..KeyBits : ~Good(l)}
<1>1. at = [l \in 0..KeyBits |->
              IF l = 0 THEN Tree(c)
              ELSE IF IsIntermediate(at[l - 1]) THEN Child(at[l - 1], k[l]) ELSE Zero]
  BY NodeAtIs DEF IsWalk
<1> HIDE DEF at
<1>2. Good(0)
  <2>1. at[0] = Tree(c)
    BY <1>1, KeyFacts
  <2> QED
    BY <2>1, UnderEnds DEF Tree, Sub
<1>3. ASSUME NEW l \in 0..KeyBits, 0 < l, Good(l - 1)
      PROVE  Good(l)
  <2>1. SUFFICES ASSUME \A i \in 0..l - 1 : Many(Under(c, k, i))
                 PROVE  at[l] = Sub(c, l, Under(c, k, l))
    OBVIOUS
  <2>2. l - 1 \in 0..KeyBits /\ l - 1 < KeyBits /\ (l - 1) + 1 = l /\ l - 1 \in 0..l - 1 /\ l \in 1..KeyBits
    BY <1>3, KeyFacts
  <2>3. \A i \in 0..(l - 1) - 1 : i \in 0..l - 1
    BY <1>3
  <2>4. at[l - 1] = Sub(c, l - 1, Under(c, k, l - 1))
    BY <1>3, <2>1, <2>3
  <2>5. Prefixed(Under(c, k, l - 1), l - 1) /\ Many(Under(c, k, l - 1))
    BY <2>1, <2>2, UnderFacts
  <2>6. at[l - 1] = IntermediateNode(Sub(c, l, Half(Under(c, k, l - 1), l - 1, 0)),
                                     Sub(c, l, Half(Under(c, k, l - 1), l - 1, 1)))
    BY <2>2, <2>4, <2>5, SubtreeCases
  <2>7. Under(c, k, l) = Half(Under(c, k, l - 1), l - 1, k[l]) /\ k[l] \in {0, 1}
    <3>1. l - 1 < KeyBits => Under(c, k, (l - 1) + 1) = Half(Under(c, k, l - 1), l - 1, k[(l - 1) + 1])
      BY <2>2, UnderFacts
    <3> QED
      BY <2>2, <3>1, KeyFacts
  <2>8. at[l] = Child(at[l - 1], k[l])
    <3>1. IsIntermediate(at[l - 1])
      BY <2>6, NodeKinds
    <3>2. l # 0
      BY <1>3
    <3>3. at[l] = IF l = 0 THEN Tree(c)
                  ELSE IF IsIntermediate(at[l - 1]) THEN Child(at[l - 1], k[l]) ELSE Zero
      BY <1>1
    <3> HIDE <1>1
    <3> QED
      BY <3>1, <3>2, <3>3
  <2> QED
    BY <2>6, <2>7, <2>8, Children
<1>4. U \in SUBSET (0..KeyBits) /\ 0 \in Int /\ KeyBits \in Int
  BY KeyFacts
<1> HIDE DEF Good
<1>5. 0 \notin U
  BY <1>2
<1>6. ASSUME NEW l \in 0..KeyBits, 0 < l, l - 1 \notin U
      PROVE  l \notin U
  <2>1. l - 1 \in 0..KeyBits
    BY <1>6, KeyFacts
  <2> QED
    BY <1>3, <1>6, <2>1
<1>7. U = {}
  <2> HIDE DEF U
  <2> QED
    BY <1>4, <1>5, <1>6, UpFrom
<1>8. \A l \in 0..KeyBits : Good(l)
  BY <1>7
<1> QED
  BY <1>8 DEF Good, at

LEMMA WalkFacts ==
    ASSUME NEW c, NEW k \in Keys
    PROVE  \E n \in 0..KeyBits : WalkIs(Walk(Tree(c), k), c, k, n)
<1> DEFINE T == {l \in 0..KeyBits : ~Many(Under(c, k, l))}
           at == NodeAt(Tree(c), k)
<1>1. T \in SUBSET Nat /\ T # {}
  <2>1. KeyBits \in T
    BY KeyFacts, UnderEnds
  <2> QED
    BY <2>1
<1>2. PICK n \in T : \A m \in T : n <= m
  BY <1>1, SmallestNumber
<1>3. n \in 0..KeyBits /\ ~Many(Under(c, k, n)) /\ n \in Int
  BY <1>2
<1>4. \A l \in 0..n - 1 : l \in 0..KeyBits /\ Many(Under(c, k, l)) /\ \A i \in 0..l - 1 : i \in 0..n - 1
  <2> TAKE l \in 0..n - 1
  <2>1. l \in 0..KeyBits /\ ~(n <= l) /\ \A i \in 0..l - 1 : i \in 0..n - 1
    BY <1>3, KeyFacts
  <2> QED
    BY <1>2, <2>1
<1>5. \A l \in 0..n - 1 : at[l] = Sub(c, l, Under(c, k, l)) /\ IsIntermediate(at[l])
  <2> TAKE l \in 0..n - 1
  <2>1. l \in 0..KeyBits /\ Many(Under(c, k, l)) /\ \A i \in 0..l - 1 : Many(Under(c, k, i))
    BY <1>4
  <2>2. at[l] = Sub(c, l, Under(c, k, l))
    BY <2>1, WalkNodes
  <2> QED
    BY <2>1, <2>2, UnderFacts, SubtreeKinds
<1>6. at[n] = Sub(c, n, Under(c, k, n)) /\ ~IsIntermediate(at[n])
  <2>1. at[n] = Sub(c, n, Under(c, k, n))
    BY <1>3, <1>4, WalkNodes
  <2> QED
    BY <1>3, <2>1, UnderFacts, SubtreeKinds
<1> HIDE DEF at
<1> DEFINE stop == CHOOSE l \in 0..KeyBits :
                       ~IsIntermediate(at[l]) /\ \A i \in 0..l - 1 : IsIntermediate(at[i])
<1>7. stop = n
  <2>1. ~IsIntermediate(at[n]) /\ \A i \in 0..n - 1 : IsIntermediate(at[i])
    BY <1>5, <1>6
  <2>2. /\ stop \in 0..KeyBits
        /\ ~IsIntermediate(at[stop]) /\ \A i \in 0..stop - 1 : IsIntermediate(at[i])
    BY <1>3, <2>1
  <2> HIDE DEF stop
  <2>3. ~(n < stop)
    <3>1. n < stop => n \in 0..stop - 1
      BY <1>3, <2>2
    <3> QED
      BY <2>1, <2>2, <3>1
  <2>4. ~(stop < n)
    <3>1. stop < n => stop \in 0..n - 1
      BY <1>3, <2>2
    <3> QED
      BY <2>1, <2>2, <3>1
  <2> QED
    BY <1>3, <2>2, <2>3, <2>4
<1> DEFINE w == Walk(Tree(c), k)
<1>8. w = [level    |-> stop - 1,
           siblings |-> [l \in 0..stop - 1 |-> at[l]],
           found    |-> IsLeaf(at[stop]),
           leaf     |-> at[stop],
           foundKey |-> IF IsLeaf(at[stop])
                        THEN joinKey(SubSeq(k, 1, stop), at[stop].rkey)
                        ELSE <<>>]
  BY DEF Walk, at
<1> HIDE DEF stop, w
<1>9. /\ w.level = n - 1 /\ w.siblings = [l \in 0..n - 1 |-> at[l]]
      /\ w.found = IsLeaf(at[n]) /\ w.leaf = at[n]
      /\ w.foundKey = IF IsLeaf(at[n]) THEN joinKey(SubSeq(k, 1, n), at[n].rkey) ELSE <<>>
  BY <1>7, <1>8
<1>10. IsLeaf(at[n]) <=> Under(c, k, n) # {}
  <2>0. Under(c, k, n) \in SUBSET Keys /\ Prefixed(Under(c, k, n), n)
    BY <1>3, UnderFacts
  <2>1. IsLeaf(Sub(c, n, Under(c, k, n))) <=> \E j \in Keys : Under(c, k, n) = {j}
    BY <1>3, <2>0, SubtreeKinds
  <2> QED
    BY <1>3, <1>6, <2>0, <2>1, NoneOneMany
<1>11. ASSUME NEW j \in Keys, Under(c, k, n) = {j}
       PROVE  w.foundKey = j
  <2>0. Prefixed(Under(c, k, n), n)
    BY <1>3, UnderFacts
  <2>1. at[n] = LeafNode(removeKeyBits(j, n), c[j])
    BY <1>3, <1>6, <1>11, <2>0, SubtreeCases
  <2>2. IsLeaf(at[n]) /\ at[n].rkey = removeKeyBits(j, n)
    BY <2>1, NodeKinds
  <2>3. \A i \in 1..n : j[i] = k[i]
    BY <1>11 DEF Under
  <2>4. w.foundKey = joinKey(SubSeq(k, 1, n), removeKeyBits(j, n))
    BY <1>9, <2>2
  <2> QED
    BY <1>3, <2>3, <2>4, JoinedKey
<1>12. \A l \in 0..n - 1 : w.siblings[l] = Sub(c, l, Under(c, k, l))
  BY <1>5, <1>9
<1>13. WalkIs(w, c, k, n)
  BY <1>3, <1>4, <1>6, <1>9, <1>10, <1>11, <1>12 DEF WalkIs
<1> QED
  BY <1>3, <1>13 DEF w

\* The leaf found is the leaf of k exactly when k is present.
LEMMA SameIsPresent ==
    ASSUME NEW c, NEW k \in Keys, NEW n \in 0..KeyBits, NEW w, WalkIs(w, c, k, n)
    PROVE  /\ Same(w, k) <=> c[k] # 0
           /\ c[k] # 0 => Under(c, k, n) = {k} /\ w.leaf = LeafNode(removeKeyBits(k, n), c[k])
           /\ w.found /\ ~Same(w, k) =>
                 \E j \in Keys : /\ j # k /\ c[j] # 0 /\ Under(c, k, n) = {j} /\ w.foundKey = j
                                 /\ w.leaf = LeafNode(removeKeyBits(j, n), c[j])
                                 /\ \A i \in 1..n : j[i] = k[i]
           /\ ~w.found => Under(c, k, n) = {} /\ w.leaf = Zero
<1>1. /\ ~Many(Under(c, k, n)) /\ w.leaf = Sub(c, n, Under(c, k, n))
      /\ w.found <=> Under(c, k, n) # {}
      /\ \A j \in Keys : Under(c, k, n) = {j} => w.foundKey = j
  BY DEF WalkIs
<1>2. /\ Under(c, k, n) \in SUBSET Keys /\ Prefixed(Under(c, k, n), n)
      /\ k \in Under(c, k, n) <=> c[k] # 0
  BY UnderFacts
<1>3. Under(c, k, n) = {} \/ \E j \in Keys : Under(c, k, n) = {j}
  BY <1>1, <1>2, NoneOneMany
<1>4. CASE Under(c, k, n) = {}
  <2>1. w.leaf = Zero
    BY <1>1, <1>2, <1>4, SubtreeCases
  <2> QED
    BY <1>1, <1>2, <1>4, <2>1 DEF Same
<1>5. CASE \E j \in Keys : Under(c, k, n) = {j}
  <2>1. PICK j \in Keys : Under(c, k, n) = {j}
    BY <1>5
  <2>2. w.leaf = LeafNode(removeKeyBits(j, n), c[j])
    BY <1>1, <1>2, <2>1, SubtreeCases
  <2>3. w.found /\ w.foundKey = j /\ j \in Under(c, k, n)
    BY <1>1, <2>1
  <2>4. c[j] # 0 /\ \A i \in 1..n : j[i] = k[i]
    BY <2>3 DEF Under
  <2>5. Same(w, k) <=> j = k
    BY <2>3 DEF Same
  <2> QED
    BY <1>2, <2>1, <2>2, <2>3, <2>4, <2>5
<1> QED
  BY <1>3, <1>4, <1>5

-----------------------------------------------------------------------------
(* The climb                                                               *)

\* The child of the node beside the path of k is the one of the tree of c.
Beside(node, c, k, l) ==
    \E A, B : /\ node = IntermediateNode(A, B)
              /\ k[l + 1] = 0 => B = Sub(c, l + 1, Half(Under(c, k, l), l, 1))
              /\ k[l + 1] = 1 => A = Sub(c, l + 1, Half(Under(c, k, l), l, 0))

\* c and d differ at k at most.
SameButFor(c, d, k) == \A j \in Keys : j # k => c[j] = d[j]

\* The part of a tree beside the path of k does not depend on k.
LEMMA BesideChanged ==
    ASSUME NEW c, NEW d, NEW k \in Keys, SameButFor(c, d, k),
           NEW l \in 0..KeyBits, Many(Under(c, k, l))
    PROVE  l < KeyBits /\ Beside(Sub(c, l, Under(c, k, l)), d, k, l)
<1>1. Prefixed(Under(c, k, l), l) /\ Prefixed(Under(d, k, l), l)
  BY UnderFacts
<1>2. /\ l < KeyBits
      /\ Sub(c, l, Under(c, k, l)) = IntermediateNode(Sub(c, l + 1, Half(Under(c, k, l), l, 0)),
                                                      Sub(c, l + 1, Half(Under(c, k, l), l, 1)))
  BY <1>1, SubtreeCases
<1>3. ASSUME NEW b \in {0, 1}, k[l + 1] # b
      PROVE  Sub(c, l + 1, Half(Under(c, k, l), l, b)) = Sub(d, l + 1, Half(Under(d, k, l), l, b))
  <2>1. k \notin Half(Under(c, k, l), l, b) /\ k \notin Half(Under(d, k, l), l, b)
    BY <1>3 DEF Half
  <2>2. Half(Under(c, k, l), l, b) = Half(Under(d, k, l), l, b)
    BY <2>1 DEF Half, Under, SameButFor
  <2>3. Prefixed(Half(Under(c, k, l), l, b), l + 1) /\ l + 1 \in 0..KeyBits
    BY <1>1, <1>2, HalfFacts
  <2>4. \A j \in Half(Under(c, k, l), l, b) : c[j] = d[j]
    BY <2>1, <2>3 DEF SameButFor, Prefixed
  <2> QED
    BY <2>2, <2>3, <2>4, SubtreeDepends
<1>4. k[l + 1] = 0 => k[l + 1] # 1
  OBVIOUS
<1> QED
  BY <1>2, <1>3, <1>4 DEF Beside

LEMMA BesideItself ==
    ASSUME NEW c, NEW k \in Keys, NEW l \in 0..KeyBits, Many(Under(c, k, l))
    PROVE  l < KeyBits /\ Beside(Sub(c, l, Under(c, k, l)), c, k, l)
<1>1. SameButFor(c, c, k)
  BY DEF SameButFor
<1> QED
  BY <1>1, BesideChanged

\* From a bottom that is right, beside siblings that are right, the climb
\* builds the tree.
LEMMA ClimbBuilds ==
    ASSUME NEW c, NEW k \in Keys, NEW a \in Nat, NEW m \in Int, a <= m + 1, m < KeyBits,
           NEW s, NEW bottom, bottom = Sub(c, m + 1, Under(c, k, m + 1)),
           \A l \in a..m : Many(Under(c, k, l)) /\ Beside(s[l], c, k, l)
    PROVE  \A l \in a..m + 1 : ClimbTo(a, s, m, k, bottom)[l] = Sub(c, l, Under(c, k, l))
<1> DEFINE up == ClimbTo(a, s, m, k, bottom)
           U == {l \in a..m + 1 : up[l] # Sub(c, l, Under(c, k, l))}
<1>1. \A l \in a..m + 1 : up[l] = IF l = m + 1 THEN bottom ELSE Put(s[l], k[l + 1], up[l + 1])
  <2>1. a \in Int
    OBVIOUS
  <2>2. IsClimb(up, a, s, m + 1, k, bottom)
    BY <2>1, ClimbIs
  <2> HIDE DEF up
  <2> QED
    BY <2>2 DEF IsClimb
<1> HIDE DEF up
<1>2. m + 1 \notin U
  <2>1. m + 1 \in a..m + 1
    OBVIOUS
  <2> QED
    BY <1>1, <2>1
<1>3. ASSUME NEW l \in a..m + 1, l < m + 1, l + 1 \notin U
      PROVE  l \notin U
  <2>1. l \in a..m /\ l # m + 1 /\ l + 1 \in a..m + 1 /\ l \in 0..KeyBits /\ l < KeyBits
    BY <1>3, KeyFacts
  <2>2. up[l + 1] = Sub(c, l + 1, Under(c, k, l + 1))
    BY <1>3, <2>1
  <2>3. Under(c, k, l + 1) = Half(Under(c, k, l), l, k[l + 1]) /\ Prefixed(Under(c, k, l), l)
    BY <2>1, UnderFacts
  <2>4. PICK A, B : /\ s[l] = IntermediateNode(A, B)
                    /\ k[l + 1] = 0 => B = Sub(c, l + 1, Half(Under(c, k, l), l, 1))
                    /\ k[l + 1] = 1 => A = Sub(c, l + 1, Half(Under(c, k, l), l, 0))
    BY <2>1 DEF Beside
  <2>5. Sub(c, l, Under(c, k, l)) = IntermediateNode(Sub(c, l + 1, Half(Under(c, k, l), l, 0)),
                                                     Sub(c, l + 1, Half(Under(c, k, l), l, 1)))
    <3>1. Many(Under(c, k, l))
      BY <2>1
    <3> QED
      BY <2>1, <2>3, <3>1, SubtreeCases
  <2>6. up[l] = Put(IntermediateNode(A, B), k[l + 1], Sub(c, l + 1, Half(Under(c, k, l), l, k[l + 1])))
    BY <1>1, <2>1, <2>2, <2>3, <2>4
  <2>7. k[l + 1] \in {0, 1}
    <3>1. l + 1 \in 1..KeyBits
      BY <2>1, KeyFacts
    <3> QED
      BY <3>1, KeyFacts
  <2>8. CASE k[l + 1] = 0
    BY <2>4, <2>5, <2>6, <2>8, Children
  <2>9. CASE k[l + 1] = 1
    BY <2>4, <2>5, <2>6, <2>9, Children
  <2> QED
    BY <2>7, <2>8, <2>9
<1>4. U \in SUBSET (a..m + 1) /\ a \in Int /\ m + 1 \in Int
  OBVIOUS
<1>5. U = {}
  <2> HIDE DEF U
  <2> QED
    BY <1>2, <1>3, <1>4, DownTo
<1> QED
  BY <1>5 DEF up

-----------------------------------------------------------------------------
(* The modes of Smt::set                                                   *)

\* The walk w for k, n levels deep, in the tree of c; d is c with v at k.
Setting(w, c, d, k, v, n) ==
    /\ c \in [Keys -> Values] /\ d = [c EXCEPT ![k] = v]
    /\ k \in Keys /\ v \in Values /\ n \in 0..KeyBits
    /\ WalkIs(w, c, k, n)

OtherLeaf(ch) == IF ch.ins.isOld0 THEN Zero ELSE LeafOf(ch.ins.insKey, ch.level, ch.ins.insValue)

\* The node on the path of k, at level l of the tree of c
OnPath(c, k, l) == Sub(c, l, Under(c, k, l))

\* A change is right: its bottom belongs to the new tree, there are several
\* keys at every level above it, and its data tell what was and what will be
\* at its level.
ChangeIs(ch, c, d, k, v, n) ==
    /\ ch.level \in -1..n - 1
    /\ ch.bottom = OnPath(d, k, ch.level + 1)
    /\ \A l \in 0..ch.level : Many(Under(d, k, l))
    /\ ch.mode \in {"insertFound", "insertNotFound", "zeroToZero"} =>
           OtherLeaf(ch) = OnPath(c, k, ch.level + 1)
    /\ ch.mode \in {"deleteFound", "deleteNotFound", "zeroToZero"} =>
           OtherLeaf(ch) = OnPath(d, k, ch.level + 1)
    /\ ch.mode \in {"update", "insertNotFound"} =>
           LeafOf(k, ch.level, v) = OnPath(d, k, ch.level + 1)
    /\ ch.mode \in {"update", "deleteNotFound"} =>
           LeafOf(k, ch.level, c[k]) = OnPath(c, k, ch.level + 1)

LEMMA SettingFacts ==
    ASSUME NEW w, NEW c, NEW d, NEW k, NEW v, NEW n, Setting(w, c, d, k, v, n)
    PROVE  /\ k \in Keys /\ n \in 0..KeyBits /\ n \in Nat /\ d[k] = v /\ w.level = n - 1 /\ (n - 1) + 1 = n
           /\ WalkIs(w, c, k, n)
           /\ SameButFor(c, d, k) /\ SameButFor(d, c, k)
           /\ v = c[k] => d = c
           /\ \A l \in 0..n - 1 : l \in 0..KeyBits /\ Many(Under(c, k, l))
           /\ \A l \in 0..KeyBits :
                 /\ v # 0 => Under(d, k, l) = Under(c, k, l) \cup {k}
                 /\ v = 0 => Under(d, k, l) = Under(c, k, l) \ {k}
<1>1. c \in [Keys -> Values] /\ d = [c EXCEPT ![k] = v] /\ k \in Keys /\ n \in 0..KeyBits
  BY DEF Setting
<1>2. d[k] = v /\ \A j \in Keys : j # k => d[j] = c[j]
  BY <1>1
<1>3. v = c[k] => d = c
  BY <1>1
<1>4. WalkIs(w, c, k, n) /\ w.level = n - 1 /\ \A l \in 0..n - 1 : Many(Under(c, k, l))
  BY DEF Setting, WalkIs
<1>5. n \in Nat /\ (n - 1) + 1 = n /\ \A l \in 0..n - 1 : l \in 0..KeyBits
  BY <1>1, KeyFacts
<1>6. ASSUME NEW l \in 0..KeyBits
      PROVE  /\ v # 0 => Under(d, k, l) = Under(c, k, l) \cup {k}
             /\ v = 0 => Under(d, k, l) = Under(c, k, l) \ {k}
  BY <1>1, <1>2 DEF Under
<1> QED
  BY <1>1, <1>2, <1>3, <1>4, <1>5, <1>6 DEF SameButFor

LEMMA ManyMore ==
    ASSUME NEW A, NEW B, A \subseteq B, Many(A)
    PROVE  Many(B)
  BY DEF Many

\* The node of a lone key.
LEMMA LoneLeaf ==
    ASSUME NEW c, NEW k \in Keys, NEW j \in Keys, NEW l \in 0..KeyBits, Under(c, k, l) = {j}
    PROVE  OnPath(c, k, l) = LeafNode(removeKeyBits(j, l), c[j])
<1>1. Prefixed(Under(c, k, l), l)
  BY UnderFacts
<1> QED
  BY <1>1, SubtreeCases DEF OnPath

LEMMA LoneZero ==
    ASSUME NEW c, NEW k \in Keys, NEW l \in 0..KeyBits, Under(c, k, l) = {}
    PROVE  OnPath(c, k, l) = Zero
<1>1. Prefixed(Under(c, k, l), l)
  BY UnderFacts
<1> QED
  BY <1>1, SubtreeCases DEF OnPath

LEMMA UpdateIsRight ==
    ASSUME NEW w, NEW c, NEW d, NEW k, NEW v, NEW n, Setting(w, c, d, k, v, n),
           v # 0, c[k] # 0
    PROVE  ChangeIs(setUpdate(w, v), c, d, k, v, n)
<1> DEFINE ch == setUpdate(w, v)
<1>1. /\ k \in Keys /\ n \in 0..KeyBits /\ n \in Nat /\ d[k] = v /\ w.level = n - 1 /\ (n - 1) + 1 = n
      /\ WalkIs(w, c, k, n)
      /\ \A l \in 0..n - 1 : l \in 0..KeyBits /\ Many(Under(c, k, l))
      /\ \A l \in 0..KeyBits : Under(d, k, l) = Under(c, k, l) \cup {k}
  BY SettingFacts
<1>2. Under(c, k, n) = {k} /\ w.leaf = LeafNode(removeKeyBits(k, n), c[k])
  BY <1>1, SameIsPresent
<1>3. Under(d, k, n) = {k}
  BY <1>1, <1>2
<1>4. /\ OnPath(c, k, n) = LeafNode(removeKeyBits(k, n), c[k])
      /\ OnPath(d, k, n) = LeafNode(removeKeyBits(k, n), v)
  BY <1>1, <1>2, <1>3, LoneLeaf
<1>5. w.leaf.rkey = removeKeyBits(k, n)
  BY <1>2, NodeKinds
<1>6. /\ ch.mode = "update" /\ ch.level = n - 1
      /\ ch.bottom = LeafNode(removeKeyBits(k, n), v)
  BY <1>1, <1>5 DEF setUpdate, Change
<1>7. \A l \in 0..n - 1 : Many(Under(d, k, l))
  <2> TAKE l \in 0..n - 1
  <2>1. Many(Under(c, k, l)) /\ Under(c, k, l) \subseteq Under(d, k, l)
    BY <1>1
  <2> QED
    BY <2>1, ManyMore
<1>8. \A x : LeafOf(k, n - 1, x) = LeafNode(removeKeyBits(k, n), x)
  BY <1>1 DEF LeafOf
<1>9. n - 1 \in -1..n - 1
  BY <1>1
<1> HIDE DEF ch
<1> QED
  BY <1>1, <1>4, <1>6, <1>7, <1>8, <1>9 DEF ChangeIs, ch

LEMMA InsertNotFoundIsRight ==
    ASSUME NEW w, NEW c, NEW d, NEW k, NEW v, NEW n, Setting(w, c, d, k, v, n),
           v # 0, ~w.found
    PROVE  ChangeIs(setInsertNotFound(w, k, v), c, d, k, v, n)
<1> DEFINE ch == setInsertNotFound(w, k, v)
<1>1. /\ k \in Keys /\ n \in 0..KeyBits /\ n \in Nat /\ d[k] = v /\ w.level = n - 1 /\ (n - 1) + 1 = n
      /\ WalkIs(w, c, k, n)
      /\ \A l \in 0..n - 1 : l \in 0..KeyBits /\ Many(Under(c, k, l))
      /\ \A l \in 0..KeyBits : Under(d, k, l) = Under(c, k, l) \cup {k}
  BY SettingFacts
<1>2. Under(c, k, n) = {}
  BY <1>1, SameIsPresent
<1>3. Under(d, k, n) = {k}
  BY <1>1, <1>2
<1>4. /\ OnPath(c, k, n) = Zero
      /\ OnPath(d, k, n) = LeafNode(removeKeyBits(k, n), v)
  BY <1>1, <1>2, <1>3, LoneLeaf, LoneZero
<1>6. /\ ch.mode = "insertNotFound" /\ ch.level = n - 1 /\ ch.ins.isOld0 = TRUE
      /\ ch.bottom = LeafNode(removeKeyBits(k, n), v)
  BY <1>1 DEF setInsertNotFound, Change, NoIns
<1>7. \A l \in 0..n - 1 : Many(Under(d, k, l))
  <2> TAKE l \in 0..n - 1
  <2>1. Many(Under(c, k, l)) /\ Under(c, k, l) \subseteq Under(d, k, l)
    BY <1>1
  <2> QED
    BY <2>1, ManyMore
<1>8. \A x : LeafOf(k, n - 1, x) = LeafNode(removeKeyBits(k, n), x)
  BY <1>1 DEF LeafOf
<1>9. n - 1 \in -1..n - 1
  BY <1>1
<1>10. OtherLeaf(ch) = Zero
  BY <1>6 DEF OtherLeaf
<1> HIDE DEF ch
<1> QED
  BY <1>1, <1>4, <1>6, <1>7, <1>8, <1>9, <1>10 DEF ChangeIs, ch

LEMMA ZeroToZeroIsRight ==
    ASSUME NEW w, NEW c, NEW d, NEW k, NEW v, NEW n, Setting(w, c, d, k, v, n),
           v = 0, c[k] = 0
    PROVE  ChangeIs(setZeroToZero(w), c, d, k, v, n)
<1> DEFINE ch == setZeroToZero(w)
<1>1. /\ k \in Keys /\ n \in 0..KeyBits /\ n \in Nat /\ w.level = n - 1 /\ (n - 1) + 1 = n
      /\ WalkIs(w, c, k, n) /\ d = c
      /\ \A l \in 0..n - 1 : l \in 0..KeyBits /\ Many(Under(c, k, l))
  BY SettingFacts
<1>2. w.leaf = OnPath(c, k, n)
  BY <1>1 DEF WalkIs, OnPath
<1>3. OtherLeaf(ch) = OnPath(c, k, n)
  <2>1. CASE ~w.found
    <3>1. ch.ins.isOld0 = TRUE
      BY <2>1 DEF setZeroToZero, Change, NoIns
    <3>2. w.leaf = Zero
      BY <1>1, <2>1, SameIsPresent
    <3> QED
      BY <1>2, <3>1, <3>2 DEF OtherLeaf
  <2>2. CASE w.found
    <3>1. PICK j \in Keys : w.foundKey = j /\ w.leaf = LeafNode(removeKeyBits(j, n), c[j])
      BY <1>1, <2>2, SameIsPresent
    <3>2. w.leaf.value = c[j]
      BY <3>1, NodeKinds
    <3>3. ch.ins.isOld0 = FALSE /\ ch.ins.insKey = j /\ ch.ins.insValue = c[j] /\ ch.level = n - 1
      BY <1>1, <2>2, <3>1, <3>2 DEF setZeroToZero, Change, Ins
    <3>4. LeafOf(j, n - 1, c[j]) = LeafNode(removeKeyBits(j, n), c[j])
      BY <1>1 DEF LeafOf
    <3> QED
      BY <1>2, <3>1, <3>3, <3>4 DEF OtherLeaf
  <2> QED
    BY <2>1, <2>2
<1>6. ch.mode = "zeroToZero" /\ ch.level = n - 1 /\ ch.bottom = w.leaf
  BY <1>1 DEF setZeroToZero, Change
<1>9. n - 1 \in -1..n - 1
  BY <1>1
<1> HIDE DEF ch
<1> QED
  BY <1>1, <1>2, <1>3, <1>6, <1>9 DEF ChangeIs, ch

\* q is the first level, from n, where the keys j and k part.
Part(j, k, n, q) ==
    /\ q \in n..KeyBits - 1
    /\ k[q + 1] # j[q + 1]
    /\ \A i \in n..q - 1 : k[i + 1] = j[i + 1]

LEMMA PartExists ==
    ASSUME NEW j \in Keys, NEW k \in Keys, j # k, NEW n \in 0..KeyBits,
           \A i \in 1..n : j[i] = k[i]
    PROVE  \E q \in Nat : /\ Part(j, k, n, q)
                          /\ \A p : Part(j, k, n, p) => p = q
                          /\ \A i \in 1..q : j[i] = k[i]
<1> DEFINE T == {l \in n..KeyBits - 1 : k[l + 1] # j[l + 1]}
<1>1. PICK i \in 1..KeyBits : j[i] # k[i]
  BY KeyFacts
<1>2. i \notin 1..n /\ i - 1 \in n..KeyBits - 1 /\ (i - 1) + 1 = i
  BY <1>1, KeyFacts
<1>3. T \in SUBSET Nat /\ T # {}
  <2>1. i - 1 \in T
    BY <1>1, <1>2
  <2>2. \A l \in n..KeyBits - 1 : l \in Nat
    BY KeyFacts
  <2> QED
    BY <2>1, <2>2
<1>4. PICK q \in T : \A m \in T : q <= m
  BY <1>3, SmallestNumber
<1>5. q \in n..KeyBits - 1 /\ k[q + 1] # j[q + 1] /\ q \in Nat
  BY <1>3, <1>4
<1>6. \A l \in n..q - 1 : k[l + 1] = j[l + 1]
  <2> TAKE l \in n..q - 1
  <2>1. l \in n..KeyBits - 1 /\ ~(q <= l)
    BY <1>5, KeyFacts
  <2> QED
    BY <1>4, <2>1
<1>7. ASSUME NEW p, Part(j, k, n, p)
      PROVE  p = q
  <2>1. p \in n..KeyBits - 1 /\ k[p + 1] # j[p + 1] /\ \A l \in n..p - 1 : k[l + 1] = j[l + 1]
    BY <1>7 DEF Part
  <2>2. p \in T /\ p \in Int
    BY <2>1, KeyFacts
  <2>3. q <= p
    BY <1>4, <2>2
  <2>4. q < p => q \in n..p - 1
    BY <1>5, <2>2
  <2>5. ~(q < p)
    BY <1>5, <2>1, <2>4
  <2> QED
    BY <1>5, <2>2, <2>3, <2>5
<1>8. ASSUME NEW l \in 1..q
      PROVE  j[l] = k[l]
  <2>1. l \in 1..n \/ (l - 1 \in n..q - 1 /\ (l - 1) + 1 = l)
    BY <1>5
  <2> QED
    BY <1>6, <2>1
<1>9. Part(j, k, n, q)
  BY <1>5, <1>6 DEF Part
<1> QED
  BY <1>5, <1>7, <1>8, <1>9

\* What insertFound does once it knows the level where the keys part
ForkAt(level, first, j, x, key, value, q) ==
    LET oldLeaf == LeafNode(removeKeyBits(j, q + 1), x)
        newLeaf == LeafNode(removeKeyBits(key, q + 1), value)
        fork    == Put(Put(IntermediateNode(Zero, Zero), key[q + 1], newLeaf), j[q + 1], oldLeaf)
        empty   == [l \in first..q - 1 |-> IntermediateNode(Zero, Zero)]
        chain   == ClimbTo(first, empty, q - 1, key, fork)
    IN  Change("insertFound", level, chain[first],
               {oldLeaf, newLeaf, ValueNode(value)} \cup {chain[l] : l \in first..q},
               {}, Ins(j, x))

\* The leaves, the fork and the chain that insertFound saves
InsertFoundSaves(c, d, j, k, v, n, q) ==
    {LeafNode(removeKeyBits(j, q + 1), c[j]), LeafNode(removeKeyBits(k, q + 1), v), ValueNode(v)}
        \cup {OnPath(d, k, l) : l \in n..q}

LEMMA InsertFoundIsRight ==
    ASSUME NEW w, NEW c, NEW d, NEW k, NEW v, NEW n, Setting(w, c, d, k, v, n),
           v # 0, w.found, c[k] = 0
    PROVE  /\ ChangeIs(setInsertFound(w, k, v), c, d, k, v, n)
           /\ setInsertFound(w, k, v).level = n - 1
           /\ setInsertFound(w, k, v).deletes = {}
           /\ \E j \in Keys, q \in Nat :
                 /\ j # k /\ Under(c, k, n) = {j} /\ q \in n..KeyBits - 1
                 /\ k[q + 1] # j[q + 1] /\ \A i \in 1..q : j[i] = k[i]
                 /\ setInsertFound(w, k, v).writes = InsertFoundSaves(c, d, j, k, v, n, q)
<1> DEFINE ch == setInsertFound(w, k, v)
<1>1. /\ k \in Keys /\ n \in 0..KeyBits /\ n \in Nat /\ d[k] = v /\ w.level = n - 1 /\ (n - 1) + 1 = n
      /\ WalkIs(w, c, k, n) /\ SameButFor(c, d, k)
      /\ \A l \in 0..n - 1 : l \in 0..KeyBits /\ Many(Under(c, k, l))
      /\ \A l \in 0..KeyBits : Under(d, k, l) = Under(c, k, l) \cup {k}
  BY SettingFacts
<1>2. PICK j \in Keys : /\ j # k /\ c[j] # 0 /\ Under(c, k, n) = {j} /\ w.foundKey = j
                        /\ w.leaf = LeafNode(removeKeyBits(j, n), c[j])
                        /\ \A i \in 1..n : j[i] = k[i]
  BY <1>1, SameIsPresent
<1>3. w.leaf.value = c[j] /\ d[j] = c[j]
  BY <1>1, <1>2, NodeKinds DEF SameButFor
<1>4. PICK q \in Nat : /\ Part(j, k, n, q)
                       /\ \A p : Part(j, k, n, p) => p = q
                       /\ \A i \in 1..q : j[i] = k[i]
  BY <1>1, <1>2, PartExists
<1>5. /\ q \in n..KeyBits - 1 /\ k[q + 1] # j[q + 1] /\ q \in 0..KeyBits /\ q < KeyBits
      /\ q + 1 \in 0..KeyBits /\ q + 1 \in 1..KeyBits
  BY <1>1, <1>4, KeyFacts DEF Part
<1> DEFINE level2 == CHOOSE l \in w.level + 1..KeyBits - 1 :
                       /\ k[l + 1] # w.foundKey[l + 1]
                       /\ \A i \in w.level + 1..l - 1 : k[i + 1] = w.foundKey[i + 1]
<1>6. level2 = q
  <2>1. \A l : (l \in w.level + 1..KeyBits - 1 /\ k[l + 1] # w.foundKey[l + 1]
                  /\ \A i \in w.level + 1..l - 1 : k[i + 1] = w.foundKey[i + 1]) <=> Part(j, k, n, l)
    BY <1>1, <1>2 DEF Part
  <2> QED
    BY <1>4, <2>1
<1> HIDE DEF level2
<1> DEFINE oldLeaf == LeafNode(removeKeyBits(j, q + 1), c[j])
           newLeaf == LeafNode(removeKeyBits(k, q + 1), v)
           fork  == Put(Put(IntermediateNode(Zero, Zero), k[q + 1], newLeaf), j[q + 1], oldLeaf)
           empty == [l \in n..q - 1 |-> IntermediateNode(Zero, Zero)]
           chain == ClimbTo(n, empty, q - 1, k, fork)
<1>7. ch = Change("insertFound", n - 1, chain[n],
                  {oldLeaf, newLeaf, ValueNode(v)} \cup {chain[l] : l \in n..q},
                  {}, Ins(j, c[j]))
  <2>1. w.level + 1 = n
    BY <1>1
  <2>2. ch = ForkAt(w.level, w.level + 1, w.foundKey, w.leaf.value, k, v, level2)
    BY DEF setInsertFound, ForkAt, level2
  <2>3. ch = ForkAt(n - 1, n, j, c[j], k, v, q)
    BY <1>1, <1>2, <1>3, <1>6, <2>1, <2>2
  <2> QED
    BY <2>3 DEF ForkAt
<1>8. \A l \in n..q : l \in 0..KeyBits /\ Under(d, k, l) = {j, k}
  <2> TAKE l \in n..q
  <2>1. l \in 0..KeyBits /\ (\A i \in 1..n : i \in 1..l) /\ (\A i \in 1..l : i \in 1..q)
    BY <1>1, <1>5, KeyFacts
  <2>2. Under(c, k, l) = {j}
    BY <1>2, <1>4, <2>1 DEF Under
  <2> QED
    BY <1>1, <2>1, <2>2
<1>9. fork = OnPath(d, k, q)
  <2>1. Under(d, k, q) = {j, k} /\ Prefixed({j, k}, q)
    <3>1. q \in n..q
      BY <1>1, <1>5
    <3>2. Under(d, k, q) = {j, k}
      BY <1>8, <3>1
    <3>3. Prefixed(Under(d, k, q), q)
      <4> HIDE <1>4
      <4> QED
        BY <1>1, <1>5, UnderFacts
    <3> QED
      BY <3>2, <3>3
  <2>2. Many({j, k})
    BY <1>2 DEF Many
  <2>3. OnPath(d, k, q) = IntermediateNode(Sub(d, q + 1, Half({j, k}, q, 0)), Sub(d, q + 1, Half({j, k}, q, 1)))
    BY <1>5, <2>1, <2>2, SubtreeCases DEF OnPath
  <2>4. k[q + 1] \in {0, 1} /\ j[q + 1] \in {0, 1}
    BY <1>1, <1>5, KeyFacts
  <2>5. Half({j, k}, q, k[q + 1]) = {k} /\ Half({j, k}, q, j[q + 1]) = {j}
    BY <1>5 DEF Half
  <2>6. /\ Prefixed({k}, q + 1) /\ Prefixed({j}, q + 1)
    BY <1>1 DEF Prefixed
  <2>7. Sub(d, q + 1, {k}) = newLeaf /\ Sub(d, q + 1, {j}) = oldLeaf
    BY <1>1, <1>3, <1>5, <2>6, SubtreeCases
  <2> HIDE DEF newLeaf, oldLeaf
  <2>8. CASE k[q + 1] = 0
    <3>1. j[q + 1] = 1
      BY <1>5, <2>4, <2>8
    <3>2. Half({j, k}, q, 0) = {k} /\ Half({j, k}, q, 1) = {j}
      BY <2>5, <2>8, <3>1
    <3> QED
      BY <2>3, <2>7, <2>8, <3>1, <3>2, Children
  <2>9. CASE k[q + 1] = 1
    <3>1. j[q + 1] = 0
      BY <1>5, <2>4, <2>9
    <3>2. Half({j, k}, q, 1) = {k} /\ Half({j, k}, q, 0) = {j}
      BY <2>5, <2>9, <3>1
    <3> QED
      BY <2>3, <2>7, <2>9, <3>1, <3>2, Children
  <2> QED
    BY <2>4, <2>8, <2>9
<1>10. \A l \in n..q - 1 : Many(Under(d, k, l)) /\ Beside(empty[l], d, k, l)
  <2> TAKE l \in n..q - 1
  <2>1. l \in n..q /\ l + 1 \in 1..q /\ l + 1 \in 0..KeyBits
    BY <1>1, <1>5, KeyFacts
  <2>2. Under(d, k, l) = {j, k} /\ j[l + 1] = k[l + 1] /\ empty[l] = IntermediateNode(Zero, Zero)
    BY <1>4, <1>8, <2>1
  <2>3. \A b : k[l + 1] # b => Half(Under(d, k, l), l, b) = {}
    BY <2>2 DEF Half
  <2>4. Prefixed({}, l + 1)
    BY DEF Prefixed
  <2>5. Sub(d, l + 1, {}) = Zero
    BY <2>1, <2>4, SubtreeCases
  <2>6. /\ k[l + 1] = 0 => Zero = Sub(d, l + 1, Half(Under(d, k, l), l, 1))
        /\ k[l + 1] = 1 => Zero = Sub(d, l + 1, Half(Under(d, k, l), l, 0))
    BY <2>3, <2>5
  <2>7. Many(Under(d, k, l))
    BY <1>2, <2>2 DEF Many
  <2> QED
    BY <2>2, <2>6, <2>7 DEF Beside
<1> HIDE DEF fork, empty
<1>11. \A l \in n..q : chain[l] = OnPath(d, k, l)
  <2>1. q - 1 \in Int /\ n <= (q - 1) + 1 /\ q - 1 < KeyBits /\ (q - 1) + 1 = q
    BY <1>1, <1>5, KeyFacts
  <2>2. fork = Sub(d, (q - 1) + 1, Under(d, k, (q - 1) + 1))
    BY <1>9, <2>1 DEF OnPath
  <2>3. \A l \in n..(q - 1) + 1 : chain[l] = Sub(d, l, Under(d, k, l))
    <3> HIDE <1>4
    <3>1. k \in Keys /\ n \in Nat
      BY <1>1
    <3> QED
      BY <1>10, <2>1, <2>2, <3>1, ClimbBuilds
  <2> QED
    BY <2>1, <2>3 DEF OnPath
<1> HIDE DEF chain
<1>12. n \in n..q
  BY <1>1, <1>5
<1>13. ch.writes = InsertFoundSaves(c, d, j, k, v, n, q)
  <2>1. ch.writes = {oldLeaf, newLeaf, ValueNode(v)} \cup {chain[l] : l \in n..q}
    BY <1>7 DEF Change
  <2>2. {chain[l] : l \in n..q} = {OnPath(d, k, l) : l \in n..q}
    BY <1>11
  <2> QED
    BY <2>1, <2>2 DEF InsertFoundSaves
<1>14. /\ ch.mode = "insertFound" /\ ch.level = n - 1 /\ ch.bottom = OnPath(d, k, n)
       /\ ch.ins = Ins(j, c[j]) /\ ch.deletes = {}
  BY <1>7, <1>11, <1>12 DEF Change
<1>15. \A l \in 0..n - 1 : Many(Under(d, k, l))
  <2> TAKE l \in 0..n - 1
  <2>1. Many(Under(c, k, l)) /\ Under(c, k, l) \subseteq Under(d, k, l)
    BY <1>1
  <2> QED
    BY <2>1, ManyMore
<1>16. OtherLeaf(ch) = OnPath(c, k, n)
  <2>1. OtherLeaf(ch) = LeafOf(j, n - 1, c[j])
    BY <1>14 DEF OtherLeaf, Ins
  <2>2. LeafOf(j, n - 1, c[j]) = LeafNode(removeKeyBits(j, n), c[j])
    BY <1>1 DEF LeafOf
  <2> QED
    BY <1>1, <1>2, <2>1, <2>2, LoneLeaf
<1>17. n - 1 \in -1..n - 1
  BY <1>1
<1> HIDE DEF ch
<1>18. ChangeIs(ch, c, d, k, v, n)
  BY <1>1, <1>14, <1>15, <1>16, <1>17 DEF ChangeIs
<1> QED
  BY <1>2, <1>4, <1>5, <1>13, <1>14, <1>18 DEF ch

LEMMA UniqueSiblingFacts ==
    ASSUME NEW A, NEW B
    PROVE  /\ (A = Zero /\ B # Zero) => getUniqueSibling(IntermediateNode(A, B)) = 1
           /\ (A # Zero /\ B = Zero) => getUniqueSibling(IntermediateNode(A, B)) = 0
           /\ (A # Zero /\ B # Zero) => getUniqueSibling(IntermediateNode(A, B)) = -1
<1> DEFINE node == IntermediateNode(A, B)
           full == {b \in {0, 1} : Child(node, b) # Zero}
<1>1. Child(node, 0) = A /\ Child(node, 1) = B
  BY Children
<1>2. getUniqueSibling(node) =
        IF \E b \in {0, 1} : full = {b} THEN CHOOSE b \in {0, 1} : full = {b} ELSE -1
  BY DEF getUniqueSibling, Bits
<1> HIDE DEF node
<1>3. /\ (A = Zero /\ B # Zero) => full = {1}
      /\ (A # Zero /\ B = Zero) => full = {0}
      /\ (A # Zero /\ B # Zero) => full = {0, 1}
  BY <1>1
<1> HIDE DEF full
<1>4. full = {1} => getUniqueSibling(node) = 1
  BY <1>2
<1>5. full = {0} => getUniqueSibling(node) = 0
  BY <1>2
<1>6. full = {0, 1} => getUniqueSibling(node) = -1
  BY <1>2
<1> QED
  BY <1>3, <1>4, <1>5, <1>6 DEF node

\* On the path of a key that is present, a node has one child exactly when
\* there is no key beside the path.
LEMMA AloneBeside ==
    ASSUME NEW c, NEW k \in Keys, c[k] # 0, NEW l \in 0..KeyBits, Many(Under(c, k, l)),
           NEW e \in {0, 1}, e # k[l + 1]
    PROVE  /\ Half(Under(c, k, l), l, e) = {} =>
                 getUniqueSibling(Sub(c, l, Under(c, k, l))) \in {0, 1}
           /\ Half(Under(c, k, l), l, e) # {} =>
                 getUniqueSibling(Sub(c, l, Under(c, k, l))) = -1
<1> DEFINE H(b) == Half(Under(c, k, l), l, b)
<1>1. Prefixed(Under(c, k, l), l) /\ k \in Under(c, k, l)
  BY UnderFacts
<1>2. l < KeyBits /\ Sub(c, l, Under(c, k, l)) = IntermediateNode(Sub(c, l + 1, H(0)), Sub(c, l + 1, H(1)))
  BY <1>1, SubtreeCases
<1>3. l + 1 \in 0..KeyBits /\ \A b \in {0, 1} : Prefixed(H(b), l + 1)
  BY <1>1, <1>2, HalfFacts
<1>4. k[l + 1] \in {0, 1}
  <2>1. l + 1 \in 1..KeyBits
    BY <1>2, KeyFacts
  <2> QED
    BY <2>1, KeyFacts
<1>5. \A b \in {0, 1} : Sub(c, l + 1, H(b)) = Zero <=> H(b) = {}
  BY <1>3, SubtreeKinds
<1>6. H(k[l + 1]) # {}
  BY <1>1 DEF Half
<1> HIDE DEF H
<1>7. CASE e = 1
  <2>1. k[l + 1] = 0
    BY <1>4, <1>7
  <2> QED
    BY <1>2, <1>5, <1>6, <1>7, <2>1, UniqueSiblingFacts DEF H
<1>8. CASE e = 0
  <2>1. k[l + 1] = 1
    BY <1>4, <1>8
  <2> QED
    BY <1>2, <1>5, <1>6, <1>8, <2>1, UniqueSiblingFacts DEF H
<1> QED
  BY <1>7, <1>8

\* The key of the leaf beside the emptied slot.
LEMMA JoinedSibling ==
    ASSUME NEW j \in Keys, NEW k \in Keys, NEW l \in 0..KeyBits, l < KeyBits,
           \A i \in 1..l : j[i] = k[i]
    PROVE  joinKey(Append(SubSeq(k, 1, l), j[l + 1]), removeKeyBits(j, l + 1)) = j
<1>1. /\ KeyBits \in Nat /\ j \in [1..KeyBits -> Bits] /\ k \in [1..KeyBits -> Bits]
      /\ l + 1 \in 0..KeyBits
  BY KeyFacts
<1>2. j \in Seq(Bits) /\ k \in Seq(Bits) /\ Len(j) = KeyBits /\ Len(k) = KeyBits
  BY <1>1
<1>3. /\ SubSeq(k, 1, l) \in Seq(Bits) /\ Len(SubSeq(k, 1, l)) = l
      /\ \A i \in 1..l : SubSeq(k, 1, l)[i] = k[i]
  BY <1>1, <1>2
<1>4. /\ SubSeq(j, 1, l + 1) \in Seq(Bits) /\ Len(SubSeq(j, 1, l + 1)) = l + 1
      /\ \A i \in 1..l + 1 : SubSeq(j, 1, l + 1)[i] = j[i]
  BY <1>1, <1>2
<1> DEFINE s == SubSeq(k, 1, l)
           t == SubSeq(j, 1, l + 1)
           x == j[l + 1]
<1>5. x \in Bits
  BY <1>1
<1> HIDE DEF s, t, x
<1>6. /\ Append(s, x) \in Seq(Bits) /\ Len(Append(s, x)) = l + 1
      /\ \A i \in 1..l : Append(s, x)[i] = s[i]
      /\ Append(s, x)[l + 1] = x
  BY <1>3, <1>5 DEF s
<1>7. \A i \in 1..l + 1 : Append(s, x)[i] = t[i]
  <2> TAKE i \in 1..l + 1
  <2>1. CASE i \in 1..l
    BY <1>3, <1>4, <1>6, <2>1 DEF s, t
  <2>2. CASE i = l + 1
    <3>1. t[i] = j[i]
      BY <1>4 DEF t
    <3> QED
      BY <1>6, <2>2, <3>1 DEF x
  <2>3. i \in 1..l \/ i = l + 1
    OBVIOUS
  <2> QED
    BY <2>1, <2>2, <2>3
<1>8. Append(s, x) = t
  BY <1>4, <1>6, <1>7 DEF t
<1>9. joinKey(t, removeKeyBits(j, l + 1)) = j
  BY <1>1, JoinedKey DEF t
<1> QED
  BY <1>8, <1>9 DEF s, x

\* The level to which delete lifts a leaf that stays alone.
LiftTop(w, l) ==
    /\ l \in -1..w.level - 1
    /\ l >= 0 => getUniqueSibling(w.siblings[l]) < 0
    /\ \A i \in l + 1..w.level - 1 : getUniqueSibling(w.siblings[i]) >= 0

LEMMA LiftTopExists ==
    ASSUME NEW w, w.level \in Nat,
           \A l \in 0..w.level - 1 : getUniqueSibling(w.siblings[l]) \in Int
    PROVE  \E l \in Int : LiftTop(w, l)
<1> DEFINE L == w.level
           T == {g \in 0..L : L - 1 - g >= 0 => getUniqueSibling(w.siblings[L - 1 - g]) < 0}
<1>1. L \in Nat
  OBVIOUS
<1> HIDE DEF L
<1>2. T \in SUBSET Nat /\ T # {}
  <2>1. L \in T
    BY <1>1
  <2> QED
    BY <1>1, <2>1
<1>3. PICK g \in T : \A m \in T : g <= m
  BY <1>2, SmallestNumber
<1> DEFINE l == L - 1 - g
<1>4. g \in 0..L /\ l \in -1..L - 1 /\ l \in Int
  BY <1>1, <1>3
<1>5. ASSUME NEW i \in l + 1..L - 1
      PROVE  getUniqueSibling(w.siblings[i]) >= 0
  <2>1. L - 1 - i \in 0..L /\ ~(g <= L - 1 - i) /\ L - 1 - (L - 1 - i) = i /\ i >= 0 /\ i \in 0..L - 1
    BY <1>1, <1>4
  <2>2. L - 1 - i \notin T
    BY <1>3, <2>1
  <2>3. ~(getUniqueSibling(w.siblings[i]) < 0)
    BY <2>1, <2>2
  <2> QED
    BY <2>1, <2>3 DEF L
<1>6. LiftTop(w, l)
  BY <1>3, <1>4, <1>5 DEF LiftTop, L
<1> QED
  BY <1>4, <1>6

\* What a delete saves and deletes on its own
DeleteEffects(ch, w, n) ==
    /\ ch.deletes = IF n = 0 THEN {} ELSE {w.leaf}
    /\ ch.bottom = Zero \/ ch.bottom \in ch.writes

LEMMA DeleteIsRight ==
    ASSUME NEW w, NEW c, NEW d, NEW k, NEW v, NEW n, Setting(w, c, d, k, v, n),
           v = 0, c[k] # 0
    PROVE  /\ ChangeIs(setDelete(w, k), c, d, k, v, n)
           /\ DeleteEffects(setDelete(w, k), w, n)
<1> DEFINE ch == setDelete(w, k)
           L == n - 1
<1>1. /\ k \in Keys /\ n \in 0..KeyBits /\ n \in Nat /\ d[k] = v /\ w.level = n - 1 /\ (n - 1) + 1 = n
      /\ WalkIs(w, c, k, n) /\ SameButFor(c, d, k)
      /\ \A l \in 0..n - 1 : l \in 0..KeyBits /\ Many(Under(c, k, l))
      /\ \A l \in 0..KeyBits : Under(d, k, l) = Under(c, k, l) \ {k}
  BY SettingFacts
<1>2. Under(c, k, n) = {k} /\ w.leaf = LeafNode(removeKeyBits(k, n), c[k])
  BY <1>1, SameIsPresent
<1>3. Under(d, k, n) = {}
  BY <1>1, <1>2
<1>4. OnPath(d, k, n) = Zero /\ OnPath(c, k, n) = LeafNode(removeKeyBits(k, n), c[k])
  BY <1>1, <1>2, <1>3, LoneZero, LoneLeaf
<1>5. LeafOf(k, n - 1, c[k]) = OnPath(c, k, n)
  BY <1>1, <1>4 DEF LeafOf
<1>6. \A l \in 0..n - 1 : w.siblings[l] = Sub(c, l, Under(c, k, l))
  BY <1>1 DEF WalkIs
<1> DEFINE bit     == k[w.level + 1]
           emptied == Put(w.siblings[w.level], bit, Zero)
           uKey    == getUniqueSibling(emptied)
           other   == Child(emptied, uKey)
           top     == CHOOSE l \in -1..w.level - 1 :
                          /\ l >= 0 => getUniqueSibling(w.siblings[l]) < 0
                          /\ \A i \in l + 1..w.level - 1 :
                                 getUniqueSibling(w.siblings[i]) >= 0
           insKey  == joinKey(Append(SubSeq(k, 1, w.level), uKey), other.rkey)
           lifted  == LeafNode(removeKeyBits(insKey, top + 1), other.value)
<1>7. ch = CASE w.level < 0 -> Change("deleteNotFound", -1, Zero, {}, {}, NoIns)
             [] w.level >= 0 /\ uKey >= 0 /\ IsLeaf(other) ->
                    Change("deleteFound", top, lifted, {lifted}, {w.leaf}, Ins(insKey, other.value))
             [] OTHER -> Change("deleteNotFound", w.level, Zero, {}, {w.leaf}, NoIns)
  BY DEF setDelete
<1> HIDE DEF ch
<1>8. CASE n = 0
  <2>1. w.level < 0 /\ ~(w.level >= 0)
    BY <1>1, <1>8
  <2> HIDE DEF lifted, insKey, top, other, uKey, emptied
  <2>2. ch = Change("deleteNotFound", -1, Zero, {}, {}, NoIns)
    BY <1>7, <2>1
  <2>3. /\ ch.mode = "deleteNotFound" /\ ch.level = -1 /\ ch.bottom = Zero /\ ch.deletes = {}
        /\ ch.ins.isOld0 = TRUE
    BY <2>2 DEF Change, NoIns
  <2>4. OtherLeaf(ch) = Zero
    BY <2>3 DEF OtherLeaf
  <2>5. -1 \in -1..n - 1 /\ -1 + 1 = n /\ n - 1 = -1
    BY <1>8
  <2>6. ChangeIs(ch, c, d, k, v, n)
    BY <1>4, <1>5, <2>3, <2>4, <2>5 DEF ChangeIs
  <2> QED
    BY <1>8, <2>3, <2>6 DEF ch, DeleteEffects
<1>9. CASE n # 0
  <2>1. /\ L \in 0..n - 1 /\ L \in 0..KeyBits /\ L < KeyBits /\ L + 1 = n /\ n \in 1..KeyBits
        /\ w.level = L /\ L \in Nat
    BY <1>1, <1>9, KeyFacts
  <2>2. k[n] \in {0, 1}
    BY <1>1, <2>1, KeyFacts
  <2>3. PICK e \in {0, 1} : e # k[n] /\ (k[n] = 0 => e = 1) /\ (k[n] = 1 => e = 0)
    BY <2>2
  <2> DEFINE H(b) == Half(Under(c, k, L), L, b)
  <2>4. Many(Under(c, k, L)) /\ Prefixed(Under(c, k, L), L) /\ H(k[n]) = {k}
    <3>1. L < KeyBits => Under(c, k, L + 1) = Half(Under(c, k, L), L, k[L + 1])
      BY <1>1, <2>1, UnderFacts
    <3>2. H(k[n]) = {k}
      BY <1>2, <2>1, <3>1
    <3>3. Many(Under(c, k, L))
      BY <1>1, <2>1
    <3>4. Prefixed(Under(c, k, L), L)
      BY <1>1, <2>1, UnderFacts
    <3> QED
      BY <3>2, <3>3, <3>4
  <2>5. w.siblings[L] = IntermediateNode(Sub(c, n, H(0)), Sub(c, n, H(1)))
    <3>1. w.siblings[L] = Sub(c, L, Under(c, k, L))
      BY <1>6, <2>1
    <3>2. Sub(c, L, Under(c, k, L)) = IntermediateNode(Sub(c, L + 1, H(0)), Sub(c, L + 1, H(1)))
      BY <2>1, <2>4, SubtreeCases
    <3> QED
      BY <2>1, <3>1, <3>2
  <2>6. /\ Under(c, k, L) = H(0) \cup H(1) /\ \A b \in {0, 1} : Prefixed(H(b), n)
    <3>1. /\ \A b \in {0, 1} : Prefixed(Half(Under(c, k, L), L, b), L + 1)
          /\ Under(c, k, L) = Half(Under(c, k, L), L, 0) \cup Half(Under(c, k, L), L, 1)
      BY <2>1, <2>4, HalfFacts
    <3> QED
      BY <2>1, <3>1
  <2>7. Under(c, k, L) = H(e) \cup {k} /\ k \notin H(e) /\ H(e) \in SUBSET Keys /\ H(e) # {}
    <3>1. Under(c, k, L) = H(e) \cup {k}
      BY <2>2, <2>3, <2>4, <2>6
    <3>2. k \notin H(e)
      BY <2>1, <2>3 DEF Half
    <3>3. H(e) # {}
      BY <2>4, <3>1 DEF Many
    <3> QED
      BY <2>6, <3>1, <3>2, <3>3 DEF Prefixed
  <2>8. Under(d, k, L) = H(e)
    BY <1>1, <2>1, <2>7
  <2>9. Sub(c, n, H(e)) # Zero
    BY <1>1, <2>6, <2>7, SubtreeKinds
  <2> HIDE DEF H
  <2>10. uKey = e /\ other = Sub(c, n, H(e))
    <3>1. emptied = Put(w.siblings[L], k[n], Zero)
      BY <2>1
    <3>2. CASE k[n] = 0
      <4>1. emptied = IntermediateNode(Zero, Sub(c, n, H(e))) /\ e = 1
        BY <2>3, <2>5, <3>1, <3>2, Children
      <4>2. uKey = 1
        BY <2>9, <4>1, UniqueSiblingFacts
      <4> QED
        BY <4>1, <4>2, Children
    <3>3. CASE k[n] = 1
      <4>1. emptied = IntermediateNode(Sub(c, n, H(e)), Zero) /\ e = 0
        BY <2>3, <2>5, <3>1, <3>3, Children
      <4>2. uKey = 0
        BY <2>9, <4>1, UniqueSiblingFacts
      <4> QED
        BY <4>1, <4>2, Children
    <3> QED
      BY <2>2, <3>2, <3>3
  <2> HIDE DEF uKey, other, emptied
  <2>11. /\ ~(w.level < 0) /\ w.level >= 0 /\ uKey >= 0
    BY <2>1, <2>3, <2>10
  <2>12. CASE ~IsLeaf(other)
    <3> HIDE DEF lifted, insKey, top
    <3>1. ch = Change("deleteNotFound", w.level, Zero, {}, {w.leaf}, NoIns)
      BY <1>7, <2>11, <2>12
    <3>2. /\ ch.mode = "deleteNotFound" /\ ch.level = L /\ ch.bottom = Zero /\ ch.deletes = {w.leaf}
          /\ ch.ins.isOld0 = TRUE
      BY <2>1, <3>1 DEF Change, NoIns
    <3>3. OtherLeaf(ch) = Zero
      BY <3>2 DEF OtherLeaf
    <3>4. Many(H(e))
      <4>1. ~\E j \in Keys : H(e) = {j}
        BY <1>1, <2>6, <2>10, <2>12, SubtreeKinds
      <4> QED
        BY <2>7, <4>1, NoneOneMany
    <3>5. \A l \in 0..L : Many(Under(d, k, l))
      <4> TAKE l \in 0..L
      <4>1. Under(d, k, L) \subseteq Under(d, k, l)
        BY <2>1 DEF Under
      <4>2. Many(Under(d, k, L))
        BY <2>8, <3>4
      <4> QED
        BY <4>1, <4>2, ManyMore
    <3>6. L \in -1..n - 1
      BY <2>1
    <3>7. ChangeIs(ch, c, d, k, v, n)
      BY <1>4, <1>5, <2>1, <3>2, <3>3, <3>5, <3>6 DEF ChangeIs
    <3> QED
      BY <1>9, <3>2, <3>7 DEF ch, DeleteEffects
  <2>13. CASE IsLeaf(other)
    <3>1. PICK j \in Keys : H(e) = {j}
      BY <1>1, <2>6, <2>10, <2>13, SubtreeKinds
    <3>2. other = LeafNode(removeKeyBits(j, n), c[j]) /\ other.rkey = removeKeyBits(j, n) /\ other.value = c[j]
      <4>0. Prefixed({j}, n) /\ n \in 0..KeyBits
        BY <1>1, <2>6, <3>1
      <4>1. Sub(c, n, {j}) = LeafNode(removeKeyBits(j, n), c[j])
        BY <4>0, SubtreeCases
      <4> QED
        BY <2>10, <3>1, <4>1, NodeKinds
    <3>3. /\ j # k /\ c[j] # 0 /\ d[j] = c[j] /\ j[n] = e /\ \A i \in 1..L : j[i] = k[i]
      <4>1. j \in H(e) /\ j \in Under(c, k, L)
        BY <2>7, <3>1
      <4>2. j # k
        BY <2>7, <4>1
      <4>3. c[j] # 0 /\ d[j] = c[j] /\ \A i \in 1..L : j[i] = k[i]
        BY <1>1, <4>1, <4>2 DEF Under, SameButFor
      <4>4. j[L + 1] = e
        BY <4>1 DEF H, Half
      <4> QED
        BY <2>1, <4>2, <4>3, <4>4
    <3>4. insKey = j
      <4>1. insKey = joinKey(Append(SubSeq(k, 1, L), j[L + 1]), removeKeyBits(j, L + 1))
        BY <2>1, <2>10, <3>2, <3>3
      <4> QED
        BY <1>1, <2>1, <3>3, <4>1, JoinedSibling
    <3> HIDE DEF insKey
    <3>5. /\ top \in -1..L - 1
          /\ top >= 0 => getUniqueSibling(w.siblings[top]) < 0
          /\ \A i \in top + 1..L - 1 : getUniqueSibling(w.siblings[i]) >= 0
      <4>1. ASSUME NEW l \in 0..w.level - 1
            PROVE  getUniqueSibling(w.siblings[l]) \in Int
        <5>1. l \in 0..n - 1 /\ l \in 0..KeyBits /\ l + 1 \in 1..KeyBits
          BY <2>1, KeyFacts
        <5>2. k[l + 1] \in {0, 1}
          BY <1>1, <5>1, KeyFacts
        <5>3. PICK b \in {0, 1} : b # k[l + 1]
          BY <5>2
        <5>4. getUniqueSibling(Sub(c, l, Under(c, k, l))) \in {0, 1, -1}
          BY <1>1, <5>1, <5>3, AloneBeside
        <5> QED
          BY <1>6, <5>1, <5>4
      <4>2. PICK l \in Int : LiftTop(w, l)
        BY <2>1, <4>1, LiftTopExists
      <4>3. LiftTop(w, top)
        BY <4>2 DEF LiftTop
      <4> HIDE DEF top
      <4> QED
        BY <2>1, <4>3 DEF LiftTop
    <3> HIDE DEF top
    <3>6. ch = Change("deleteFound", top, lifted, {lifted}, {w.leaf}, Ins(j, c[j]))
      BY <1>7, <2>11, <2>13, <3>2, <3>4
    <3>7. lifted = LeafNode(removeKeyBits(j, top + 1), c[j])
      BY <3>2, <3>4
    <3> HIDE DEF lifted
    <3>8. top \in Int /\ top + 1 \in 0..L /\ top + 1 \in 0..KeyBits /\ top \in -1..n - 1
      BY <1>1, <2>1, <3>5, KeyFacts
    <3>9. \A l \in top + 1..L : Under(d, k, l) = {j}
      <4> DEFINE U == {l \in top + 1..L : Under(d, k, l) # {j}}
      <4>1. L \notin U
        BY <2>8, <3>1
      <4>2. ASSUME NEW l \in top + 1..L, l < L, l + 1 \notin U
            PROVE  l \notin U
        <5>1. /\ l \in 0..n - 1 /\ l \in 0..KeyBits /\ l + 1 \in 1..KeyBits /\ l \in top + 1..L - 1
              /\ l + 1 \in top + 1..L /\ l < KeyBits
          BY <2>1, <3>8, <4>2, KeyFacts
        <5>2. k[l + 1] \in {0, 1}
          BY <1>1, <5>1, KeyFacts
        <5>3. PICK b \in {0, 1} : b # k[l + 1] /\ \A x \in {0, 1} : x # b => x = k[l + 1]
          BY <5>2
        <5>4. getUniqueSibling(Sub(c, l, Under(c, k, l))) >= 0
          BY <1>6, <3>5, <5>1
        <5>5. Half(Under(c, k, l), l, b) = {}
          BY <1>1, <5>1, <5>3, <5>4, AloneBeside
        <5>6. Under(d, k, l + 1) = {j}
          BY <4>2, <5>1
        <5>7. \A x \in Under(d, k, l) : x[l + 1] = k[l + 1]
          <6> TAKE x \in Under(d, k, l)
          <6>1. x \in Under(c, k, l) /\ x \in Keys
            BY <1>1, <5>1 DEF Under
          <6>2. x[l + 1] # b
            BY <5>5, <6>1 DEF Half
          <6>3. x[l + 1] \in {0, 1}
            BY <5>1, <6>1, KeyFacts
          <6> QED
            BY <5>3, <6>2, <6>3
        <5>8. Under(d, k, l + 1) = Under(d, k, l)
          <6>1. Under(d, k, l + 1) = Half(Under(d, k, l), l, k[l + 1])
            BY <1>1, <5>1, UnderFacts
          <6> QED
            BY <5>7, <6>1 DEF Half
        <5> QED
          BY <5>6, <5>8
      <4>3. U \in SUBSET (top + 1..L) /\ top + 1 \in Int /\ L \in Int
        BY <2>1, <3>8
      <4>4. U = {}
        <5> HIDE DEF U
        <5> QED
          BY <4>1, <4>2, <4>3, DownTo
      <4> QED
        BY <4>4
    <3>10. lifted = OnPath(d, k, top + 1)
      <4>1. Under(d, k, top + 1) = {j}
        BY <3>8, <3>9, <2>1
      <4> QED
        BY <1>1, <3>3, <3>7, <3>8, <4>1, LoneLeaf
    <3>11. \A l \in 0..top : Many(Under(d, k, l))
      <4> TAKE l \in 0..top
      <4>1. top \in 0..n - 1 /\ top \in 0..KeyBits /\ top + 1 \in 1..KeyBits /\ top >= 0 /\ top + 1 \in top + 1..L
        BY <2>1, <3>8, KeyFacts
      <4>2. k[top + 1] \in {0, 1}
        BY <1>1, <4>1, KeyFacts
      <4>3. PICK b \in {0, 1} : b # k[top + 1]
        BY <4>2
      <4>4. getUniqueSibling(Sub(c, top, Under(c, k, top))) < 0
        BY <1>6, <3>5, <4>1
      <4>5. Half(Under(c, k, top), top, b) # {}
        BY <1>1, <4>1, <4>3, <4>4, AloneBeside
      <4>6. PICK h \in Under(c, k, top) : h[top + 1] = b
        BY <4>5 DEF Half
      <4>7. h # k /\ h \in Under(d, k, top)
        BY <1>1, <4>1, <4>3, <4>6
      <4>8. j \in Under(d, k, top + 1)
        BY <3>9, <4>1
      <4>9. j \in Under(d, k, top) /\ j[top + 1] = k[top + 1]
        BY <3>8, <4>1, <4>8 DEF Under
      <4>10. Many(Under(d, k, top))
        BY <4>3, <4>6, <4>7, <4>9 DEF Many
      <4>11. Under(d, k, top) \subseteq Under(d, k, l)
        BY <3>8 DEF Under
      <4> QED
        BY <4>10, <4>11, ManyMore
    <3>12. /\ ch.mode = "deleteFound" /\ ch.level = top /\ ch.bottom = lifted /\ ch.deletes = {w.leaf}
           /\ ch.ins.isOld0 = FALSE /\ ch.ins.insKey = j /\ ch.ins.insValue = c[j] /\ ch.writes = {lifted}
      BY <3>6 DEF Change, Ins
    <3>13. OtherLeaf(ch) = lifted
      BY <3>7, <3>12 DEF OtherLeaf, LeafOf
    <3>14. ChangeIs(ch, c, d, k, v, n)
      BY <3>8, <3>10, <3>11, <3>12, <3>13 DEF ChangeIs
    <3> QED
      BY <1>9, <3>12, <3>14 DEF ch, DeleteEffects
  <2> QED
    BY <2>12, <2>13
<1> QED
  BY <1>8, <1>9

-----------------------------------------------------------------------------
(* Smt::set and Smt::get                                                   *)

LEMMA SetChangeIsRight ==
    ASSUME NEW w, NEW c, NEW d, NEW k, NEW v, NEW n, Setting(w, c, d, k, v, n)
    PROVE  ChangeIs(setChange(w, Same(w, k), k, v), c, d, k, v, n)
<1>1. k \in Keys /\ n \in 0..KeyBits /\ WalkIs(w, c, k, n)
  BY SettingFacts
<1>2. (Same(w, k) <=> c[k] # 0) /\ (c[k] # 0 => w.found)
  <2>1. Same(w, k) <=> c[k] # 0
    BY <1>1, SameIsPresent
  <2>2. Same(w, k) => w.found
    BY DEF Same
  <2> QED
    BY <2>1, <2>2
<1>3. CASE v # 0 /\ c[k] # 0
  <2>1. setChange(w, Same(w, k), k, v) = setUpdate(w, v)
    BY <1>2, <1>3 DEF setChange
  <2> QED
    BY <1>3, <2>1, UpdateIsRight
<1>4. CASE v # 0 /\ c[k] = 0 /\ w.found
  <2>1. setChange(w, Same(w, k), k, v) = setInsertFound(w, k, v)
    BY <1>2, <1>4 DEF setChange
  <2> QED
    BY <1>4, <2>1, InsertFoundIsRight
<1>5. CASE v # 0 /\ c[k] = 0 /\ ~w.found
  <2>1. setChange(w, Same(w, k), k, v) = setInsertNotFound(w, k, v)
    BY <1>2, <1>5 DEF setChange
  <2> QED
    BY <1>5, <2>1, InsertNotFoundIsRight
<1>6. CASE v = 0 /\ c[k] # 0
  <2>1. setChange(w, Same(w, k), k, v) = setDelete(w, k)
    BY <1>2, <1>6 DEF setChange
  <2>2. ChangeIs(setDelete(w, k), c, d, k, v, n)
    <3>1. v = 0 /\ c[k] # 0 /\ Setting(w, c, d, k, v, n)
      BY <1>6
    <3> QED
      BY <3>1, DeleteIsRight, Zenon
  <2> QED
    BY <2>1, <2>2
<1>7. CASE v = 0 /\ c[k] = 0
  <2>1. setChange(w, Same(w, k), k, v) = setZeroToZero(w)
    BY <1>2, <1>7 DEF setChange
  <2> QED
    BY <1>7, <2>1, ZeroToZeroIsRight
<1> QED
  BY <1>2, <1>3, <1>4, <1>5, <1>6, <1>7

LEMMA TreeOnPath ==
    ASSUME NEW c, NEW k \in Keys
    PROVE  OnPath(c, k, 0) = Tree(c)
  BY UnderEnds DEF OnPath, Sub, Tree

\* From siblings on the path of k in the tree of e, the climb proves the tree
\* of c, if the two differ at k at most.
LEMMA SiblingsProve ==
    ASSUME NEW c, NEW e, NEW k \in Keys, SameButFor(e, c, k),
           NEW m \in Int, -1 <= m, m < KeyBits, NEW s, NEW bottom,
           bottom = OnPath(c, k, m + 1),
           \A l \in 0..m : /\ Many(Under(c, k, l)) /\ Many(Under(e, k, l))
                           /\ s[l] = OnPath(e, k, l)
    PROVE  /\ \A l \in 0..m + 1 : Climb(s, m, k, bottom)[l] = OnPath(c, k, l)
           /\ Climb(s, m, k, bottom)[0] = Tree(c)
<1>1. \A l \in 0..m : Many(Under(c, k, l)) /\ Beside(s[l], c, k, l)
  <2> TAKE l \in 0..m
  <2>1. l \in 0..KeyBits
    BY KeyFacts
  <2>2. Beside(Sub(e, l, Under(e, k, l)), c, k, l)
    BY <2>1, BesideChanged
  <2> QED
    BY <2>2 DEF OnPath
<1>2. 0 \in Nat /\ 0 <= m + 1 /\ bottom = Sub(c, m + 1, Under(c, k, m + 1))
  BY DEF OnPath
<1>3. \A l \in 0..m + 1 : ClimbTo(0, s, m, k, bottom)[l] = Sub(c, l, Under(c, k, l))
  BY <1>1, <1>2, ClimbBuilds
<1>4. 0 \in 0..m + 1
  OBVIOUS
<1>5. \A l \in 0..m + 1 : Climb(s, m, k, bottom)[l] = OnPath(c, k, l)
  BY <1>3 DEF Climb, OnPath
<1> QED
  BY <1>4, <1>5, TreeOnPath

\* What set returns, for a change that is right: the path of the new tree, and
\* siblings from which both the old tree and the new one can be computed.
LEMMA ResultIsRight ==
    ASSUME NEW w, NEW c, NEW d, NEW k, NEW v, NEW n, Setting(w, c, d, k, v, n),
           NEW ch, ChangeIs(ch, c, d, k, v, n), NEW r,
           r = setResult(w, Same(w, k), k, ch)
    PROVE  /\ r.newRoot = Tree(d) /\ r.oldValue = c[k] /\ r.level = ch.level /\ r.mode = ch.mode
           /\ r.isOld0 = ch.ins.isOld0 /\ r.insKey = ch.ins.insKey /\ r.insValue = ch.ins.insValue
           /\ RootFrom(r.siblings, r.level, k, OnPath(c, k, ch.level + 1)) = Tree(c)
           /\ RootFrom(r.siblings, r.level, k, OnPath(d, k, ch.level + 1)) = Tree(d)
           /\ r.writes = ch.writes \cup {OnPath(d, k, l) : l \in 0..ch.level}
           /\ r.deletes = ch.deletes \cup
                  {OnPath(c, k, l) : l \in {i \in 1..ch.level : OnPath(c, k, i) # OnPath(d, k, i)}}
<1> DEFINE m == ch.level
           up == Climb(w.siblings, m, k, ch.bottom)
<1>1. /\ k \in Keys /\ n \in 0..KeyBits /\ n \in Nat /\ WalkIs(w, c, k, n)
      /\ SameButFor(c, d, k) /\ SameButFor(d, c, k)
      /\ \A l \in 0..n - 1 : l \in 0..KeyBits /\ Many(Under(c, k, l))
  BY SettingFacts
<1>2. /\ m \in -1..n - 1 /\ ch.bottom = OnPath(d, k, m + 1)
      /\ \A l \in 0..m : Many(Under(d, k, l))
  BY DEF ChangeIs
<1> HIDE DEF m
<1>3. m \in Int /\ -1 <= m /\ m < KeyBits /\ \A l \in 0..m : l \in 0..n - 1
  BY <1>1, <1>2, KeyFacts
<1>4. \A l \in 0..m : Many(Under(c, k, l)) /\ w.siblings[l] = OnPath(c, k, l)
  <2> TAKE l \in 0..m
  <2>1. l \in 0..n - 1
    BY <1>3
  <2> QED
    BY <1>1, <2>1 DEF WalkIs, OnPath
<1>5. /\ \A l \in 0..m + 1 : up[l] = OnPath(d, k, l)
      /\ up[0] = Tree(d)
  <2>1. /\ k \in Keys /\ SameButFor(c, d, k)
        /\ \A l \in 0..m : /\ Many(Under(d, k, l)) /\ Many(Under(c, k, l))
                           /\ w.siblings[l] = OnPath(c, k, l)
    BY <1>1, <1>2, <1>4
  <2> QED
    BY <1>2, <1>3, <2>1, SiblingsProve
<1> HIDE DEF up
<1> DEFINE same == Same(w, k)
<1>6. r = [newRoot  |-> up[0],
           mode     |-> ch.mode,
           writes   |-> ch.writes \cup {up[l] : l \in 0..m},
           deletes  |-> ch.deletes \cup climbDeletes(w, m, up),
           level    |-> m,
           siblings |-> [l \in 0..m |-> up[l]],
           oldValue |-> IF same THEN w.leaf.value ELSE 0,
           isOld0   |-> ch.ins.isOld0,
           insKey   |-> ch.ins.insKey,
           insValue |-> ch.ins.insValue]
  BY DEF setResult, up, m
<1> HIDE DEF same
<1>7. /\ r.newRoot = up[0] /\ r.mode = ch.mode /\ r.level = m
      /\ r.writes = ch.writes \cup {up[l] : l \in 0..m}
      /\ r.deletes = ch.deletes \cup climbDeletes(w, m, up)
      /\ r.siblings = [l \in 0..m |-> up[l]]
      /\ r.oldValue = IF same THEN w.leaf.value ELSE 0
      /\ r.isOld0 = ch.ins.isOld0 /\ r.insKey = ch.ins.insKey /\ r.insValue = ch.ins.insValue
  BY <1>6
<1>8. r.oldValue = c[k]
  <2>1. same <=> c[k] # 0
    BY <1>1, SameIsPresent DEF same
  <2>2. CASE c[k] # 0
    <3>1. w.leaf.value = c[k]
      BY <1>1, <2>2, SameIsPresent, NodeKinds
    <3> QED
      BY <1>7, <2>1, <2>2, <3>1
  <2>3. CASE c[k] = 0
    BY <1>7, <2>1, <2>3
  <2> QED
    BY <2>2, <2>3
<1>9. \A l \in 0..m : l \in 0..m + 1 /\ r.siblings[l] = OnPath(d, k, l)
  <2> TAKE l \in 0..m
  <2>1. l \in 0..m + 1
    BY <1>3
  <2> QED
    BY <1>5, <1>7, <2>1
<1>10. Climb(r.siblings, m, k, OnPath(c, k, m + 1))[0] = Tree(c)
  <2>1. /\ k \in Keys /\ SameButFor(d, c, k)
        /\ \A l \in 0..m : /\ Many(Under(c, k, l)) /\ Many(Under(d, k, l))
                           /\ r.siblings[l] = OnPath(d, k, l)
    BY <1>1, <1>2, <1>4, <1>9
  <2>2. PICK bot : bot = OnPath(c, k, m + 1)
    OBVIOUS
  <2>3. Climb(r.siblings, m, k, bot)[0] = Tree(c)
    BY <1>3, <2>1, <2>2, SiblingsProve
  <2> QED
    BY <2>2, <2>3
<1>11. Climb(r.siblings, m, k, OnPath(d, k, m + 1))[0] = Tree(d)
  <2>1. /\ k \in Keys /\ SameButFor(d, d, k)
        /\ \A l \in 0..m : /\ Many(Under(d, k, l)) /\ Many(Under(d, k, l))
                           /\ r.siblings[l] = OnPath(d, k, l)
    BY <1>1, <1>2, <1>9 DEF SameButFor
  <2>2. PICK bot : bot = OnPath(d, k, m + 1)
    OBVIOUS
  <2>3. Climb(r.siblings, m, k, bot)[0] = Tree(d)
    BY <1>3, <2>1, <2>2, SiblingsProve
  <2> QED
    BY <2>2, <2>3
<1>12. {up[l] : l \in 0..m} = {OnPath(d, k, l) : l \in 0..m}
  BY <1>5, <1>9
<1>13. climbDeletes(w, m, up) = {OnPath(c, k, l) : l \in {i \in 1..m : OnPath(c, k, i) # OnPath(d, k, i)}}
  <2>1. \A l \in 1..m : l \in 0..m /\ w.siblings[l] = OnPath(c, k, l) /\ up[l] = OnPath(d, k, l)
    <3> TAKE l \in 1..m
    <3>1. l \in 0..m /\ l \in 0..m + 1
      BY <1>3
    <3> QED
      BY <1>4, <1>5, <3>1
  <2> QED
    BY <2>1 DEF climbDeletes
<1>14. /\ RootFrom(r.siblings, r.level, k, OnPath(c, k, m + 1)) = Tree(c)
       /\ RootFrom(r.siblings, r.level, k, OnPath(d, k, m + 1)) = Tree(d)
  BY <1>7, <1>10, <1>11 DEF RootFrom
<1> QED
  BY <1>5, <1>7, <1>8, <1>12, <1>13, <1>14 DEF m

-----------------------------------------------------------------------------
(* The root is the one tree of the content                                 *)

\* A call of set on the tree of c: its walk w, n levels deep, and its change ch.
SetCall(w, n, ch, c, d, k, v) ==
    /\ Setting(w, c, d, k, v, n)
    /\ ch = setChange(w, Same(w, k), k, v)
    /\ ChangeIs(ch, c, d, k, v, n)
    /\ set(Tree(c), k, v) = setResult(w, Same(w, k), k, ch)

LEMMA SetIs ==
    ASSUME NEW c \in [Keys -> Values], NEW k \in Keys, NEW v \in Values, NEW d,
           d = [c EXCEPT ![k] = v]
    PROVE  \E w, n, ch : SetCall(w, n, ch, c, d, k, v)
<1> DEFINE w == Walk(Tree(c), k)
           ch == setChange(w, Same(w, k), k, v)
<1>1. PICK n \in 0..KeyBits : WalkIs(w, c, k, n)
  BY WalkFacts
<1>2. set(Tree(c), k, v) = setResult(w, Same(w, k), k, ch)
  BY DEF set
<1> HIDE DEF w
<1>3. Setting(w, c, d, k, v, n)
  BY <1>1 DEF Setting
<1>4. ChangeIs(ch, c, d, k, v, n)
  BY <1>3, SetChangeIsRight
<1> HIDE DEF ch
<1> QED
  BY <1>2, <1>3, <1>4 DEF ch, SetCall

LEMMA SetKeepsCanonical ==
    ASSUME NEW c \in [Keys -> Values], NEW k \in Keys, NEW v \in Values
    PROVE  set(Tree(c), k, v).newRoot = Tree([c EXCEPT ![k] = v])
<1>1. PICK d : d = [c EXCEPT ![k] = v]
  OBVIOUS
<1>2. PICK w, n, ch : SetCall(w, n, ch, c, d, k, v)
  BY <1>1, SetIs
<1>3. PICK r : r = set(Tree(c), k, v)
  OBVIOUS
<1>4. r.newRoot = Tree(d)
  BY <1>2, <1>3, ResultIsRight DEF SetCall
<1> QED
  BY <1>1, <1>3, <1>4

LEMMA EmptyTree ==
    Tree([k \in Keys |-> 0]) = Zero
<1> DEFINE c == [k \in Keys |-> 0]
<1>1. {k \in Keys : c[k] # 0} = {}
  OBVIOUS
<1>2. Prefixed({}, 0) /\ 0 \in 0..KeyBits
  BY KeyFacts DEF Prefixed
<1> HIDE DEF c
<1>3. Sub(c, 0, {}) = Zero
  BY <1>2, SubtreeCases
<1> QED
  BY <1>1, <1>3 DEF Tree, Sub, c

\* Every set of the caller is reflected in the root and in nothing else: two
\* sets of different keys commute, and a set overwrites the one before it.
THEOREM SetsCommute ==
    ASSUME NEW c \in [Keys -> Values], NEW j \in Keys, NEW k \in Keys,
           NEW u \in Values, NEW v \in Values
    PROVE  /\ j # k =>
                 set(set(Tree(c), j, u).newRoot, k, v).newRoot
                     = set(set(Tree(c), k, v).newRoot, j, u).newRoot
           /\ set(set(Tree(c), k, u).newRoot, k, v).newRoot = set(Tree(c), k, v).newRoot
           /\ set(Tree(c), k, c[k]).newRoot = Tree(c)
<1> DEFINE cj == [c EXCEPT ![j] = u]
           ck == [c EXCEPT ![k] = v]
           cu == [c EXCEPT ![k] = u]
<1>1. /\ cj \in [Keys -> Values] /\ ck \in [Keys -> Values] /\ cu \in [Keys -> Values] /\ c[k] \in Values
  OBVIOUS
<1>2. /\ set(Tree(c), j, u).newRoot = Tree(cj)
      /\ set(Tree(c), k, v).newRoot = Tree(ck)
      /\ set(Tree(c), k, u).newRoot = Tree(cu)
      /\ set(Tree(c), k, c[k]).newRoot = Tree([c EXCEPT ![k] = c[k]])
  BY <1>1, SetKeepsCanonical
<1>3. j # k => [cj EXCEPT ![k] = v] = [ck EXCEPT ![j] = u]
  OBVIOUS
<1>4. [cu EXCEPT ![k] = v] = ck /\ [c EXCEPT ![k] = c[k]] = c
  OBVIOUS
<1> HIDE DEF cj, ck, cu
<1>5. /\ set(Tree(cj), k, v).newRoot = Tree([cj EXCEPT ![k] = v])
      /\ set(Tree(ck), j, u).newRoot = Tree([ck EXCEPT ![j] = u])
      /\ set(Tree(cu), k, v).newRoot = Tree([cu EXCEPT ![k] = v])
  BY <1>1, SetKeepsCanonical
<1> QED
  BY <1>2, <1>3, <1>4, <1>5

-----------------------------------------------------------------------------
(* Equal nodes are at equal places                                         *)

\* Two keys part at level l - 1 or below.
Forked(l) == \E g, h \in Keys : g # h /\ \A i \in 1..l - 1 : g[i] = h[i]

LEMMA CommonPrefixIs ==
    ASSUME NEW g \in Keys, NEW h \in Keys, g # h, NEW t \in 0..KeyBits,
           \A i \in 1..t : g[i] = h[i]
    PROVE  CommonPrefix(g, h) \in 0..KeyBits /\ t <= CommonPrefix(g, h)
<1> DEFINE P(p) == SubSeq(g, 1, p) = SubSeq(h, 1, p) /\ (p < KeyBits => g[p + 1] # h[p + 1])
           x == CommonPrefix(g, h)
<1>0. /\ KeyBits \in Nat /\ g \in [1..KeyBits -> Bits] /\ h \in [1..KeyBits -> Bits]
      /\ g \in Seq(Bits) /\ h \in Seq(Bits) /\ Len(g) = KeyBits /\ Len(h) = KeyBits
  BY KeyFacts
<1>1. PICK q \in Nat : Part(g, h, t, q) /\ \A i \in 1..q : g[i] = h[i]
  BY PartExists
<1>2. q \in 0..KeyBits /\ h[q + 1] # g[q + 1]
  BY <1>0, <1>1 DEF Part
<1>3. P(q)
  <2>1. /\ SubSeq(g, 1, q) \in Seq(Bits) /\ Len(SubSeq(g, 1, q)) = q
        /\ SubSeq(h, 1, q) \in Seq(Bits) /\ Len(SubSeq(h, 1, q)) = q
    BY <1>0, <1>2
  <2>2. \A i \in 1..q : SubSeq(g, 1, q)[i] = g[i] /\ SubSeq(h, 1, q)[i] = h[i]
    BY <1>0, <1>2
  <2>3. SubSeq(g, 1, q) = SubSeq(h, 1, q)
    BY <1>1, <2>1, <2>2
  <2> QED
    BY <1>2, <2>3
<1>4. x = CHOOSE p \in 0..KeyBits : P(p)
  BY DEF CommonPrefix
<1>5. x \in 0..KeyBits /\ P(x)
  <2> HIDE DEF P
  <2> QED
    BY <1>2, <1>3, <1>4
<1> HIDE DEF x
<1>6. ~(x < t)
  <2>1. SUFFICES ASSUME x < t PROVE FALSE
    OBVIOUS
  <2>2. x < KeyBits /\ x + 1 \in 1..t
    BY <1>0, <1>5, <2>1
  <2> QED
    BY <1>5, <2>2
<1> QED
  BY <1>0, <1>5, <1>6 DEF x

\* What is left of two keys at a level of the tree tells them apart.
LEMMA RemainderIsKey ==
    ASSUME NEW l \in 0..KeyBits, Forked(l), NEW m \in 0..KeyBits,
           NEW j \in Keys, NEW k \in Keys, removeKeyBits(j, l) = removeKeyBits(k, m)
    PROVE  l = m /\ j = k
<1>1. /\ KeyBits \in Nat /\ j \in Seq(Bits) /\ k \in Seq(Bits) /\ Len(j) = KeyBits /\ Len(k) = KeyBits
  <2>1. KeyBits \in Nat /\ j \in [1..KeyBits -> Bits] /\ k \in [1..KeyBits -> Bits]
    BY KeyFacts
  <2> QED
    BY <2>1
<1>2. Len(removeKeyBits(j, l)) = KeyBits - l /\ Len(removeKeyBits(k, m)) = KeyBits - m
  BY <1>1 DEF removeKeyBits
<1>3. l = m
  <2>1. KeyBits - l = KeyBits - m
    BY <1>2
  <2> QED
    BY <1>1, <2>1
<1>4. PICK g \in Keys, h \in Keys : g # h /\ \A i \in 1..l - 1 : g[i] = h[i]
  BY DEF Forked
<1>5. l \in 0..CommonPrefix(g, h) + 1
  <2>1. CASE l = 0
    <3>1. 0 \in 0..KeyBits /\ \A i \in 1..0 : g[i] = h[i]
      BY <1>1
    <3>2. CommonPrefix(g, h) \in 0..KeyBits
      BY <1>4, <3>1, CommonPrefixIs
    <3> QED
      BY <2>1, <3>2
  <2>2. CASE l # 0
    <3>1. PICK t \in 0..KeyBits : t = l - 1
      BY <1>1, <2>2
    <3>2. CommonPrefix(g, h) \in 0..KeyBits /\ t <= CommonPrefix(g, h)
      BY <1>4, <3>1, CommonPrefixIs
    <3> QED
      BY <3>1, <3>2
  <2> QED
    BY <2>1, <2>2
<1>6. j # k => removeKeyBits(j, l) # removeKeyBits(k, l)
  BY <1>4, <1>5, KeysAssumption
<1> QED
  BY <1>3, <1>6

\* Equal nodes of two trees are at the same level, above the same keys with
\* the same values.
LEMMA EqualNodes ==
    ASSUME NEW c, NEW d
    PROVE  \A l \in 0..KeyBits : Forked(l) =>
               \A m \in 0..KeyBits : \A ks, js :
                   (/\ Prefixed(ks, l) /\ Prefixed(js, m) /\ ks # {}
                    /\ Sub(c, l, ks) = Sub(d, m, js))
                   => l = m /\ ks = js /\ \A j \in ks : c[j] = d[j]
<1> DEFINE Equal(l, m, ks, js) == /\ Prefixed(ks, l) /\ Prefixed(js, m) /\ ks # {}
                                  /\ Sub(c, l, ks) = Sub(d, m, js)
           Good(l) == Forked(l) =>
               \A m \in 0..KeyBits : \A ks, js :
                   Equal(l, m, ks, js) => l = m /\ ks = js /\ \A j \in ks : c[j] = d[j]
           U == {l \in 0..KeyBits : ~Good(l)}
<1>1. ASSUME NEW l \in 0..KeyBits, l = KeyBits \/ Good(l + 1)
      PROVE  Good(l)
  <2>1. SUFFICES ASSUME Forked(l), NEW m \in 0..KeyBits, NEW ks, NEW js, Equal(l, m, ks, js)
                 PROVE  l = m /\ ks = js /\ \A j \in ks : c[j] = d[j]
    OBVIOUS
  <2>2. /\ Prefixed(ks, l) /\ Prefixed(js, m) /\ ks # {} /\ Sub(c, l, ks) = Sub(d, m, js)
        /\ ks \in SUBSET Keys
    BY <2>1 DEF Prefixed
  <2>3. CASE \E k \in Keys : ks = {k}
    <3>1. PICK k \in Keys : ks = {k}
      BY <2>3
    <3>2. Sub(c, l, ks) = LeafNode(removeKeyBits(k, l), c[k])
      BY <2>2, <3>1, SubtreeCases
    <3>3. IsLeaf(Sub(d, m, js))
      BY <2>2, <3>2, NodeKinds
    <3>4. PICK j \in Keys : js = {j}
      BY <2>2, <3>3, SubtreeKinds
    <3>5. Sub(d, m, js) = LeafNode(removeKeyBits(j, m), d[j])
      BY <2>2, <3>4, SubtreeCases
    <3>6. removeKeyBits(k, l) = removeKeyBits(j, m) /\ c[k] = d[j]
      <4>1. LeafNode(removeKeyBits(k, l), c[k]) = LeafNode(removeKeyBits(j, m), d[j])
        BY <2>2, <3>2, <3>5
      <4> QED
        BY <4>1, NodeKinds
    <3>7. l = m /\ k = j
      BY <2>1, <3>6, RemainderIsKey
    <3> QED
      BY <3>1, <3>4, <3>6, <3>7
  <2>4. CASE Many(ks)
    <3>1. /\ l < KeyBits
          /\ Sub(c, l, ks) = IntermediateNode(Sub(c, l + 1, Half(ks, l, 0)), Sub(c, l + 1, Half(ks, l, 1)))
      BY <2>2, <2>4, SubtreeCases
    <3>2. Many(js)
      <4>1. IsIntermediate(Sub(d, m, js))
        BY <2>2, <3>1, NodeKinds
      <4> QED
        BY <2>2, <4>1, SubtreeKinds
    <3>3. /\ m < KeyBits
          /\ Sub(d, m, js) = IntermediateNode(Sub(d, m + 1, Half(js, m, 0)), Sub(d, m + 1, Half(js, m, 1)))
      BY <2>2, <3>2, SubtreeCases
    <3>4. \A b \in {0, 1} : Sub(c, l + 1, Half(ks, l, b)) = Sub(d, m + 1, Half(js, m, b))
      <4>1. IntermediateNode(Sub(c, l + 1, Half(ks, l, 0)), Sub(c, l + 1, Half(ks, l, 1)))
              = IntermediateNode(Sub(d, m + 1, Half(js, m, 0)), Sub(d, m + 1, Half(js, m, 1)))
        BY <2>2, <3>1, <3>3
      <4>2. /\ Sub(c, l + 1, Half(ks, l, 0)) = Sub(d, m + 1, Half(js, m, 0))
            /\ Sub(c, l + 1, Half(ks, l, 1)) = Sub(d, m + 1, Half(js, m, 1))
        BY <4>1, NodeKinds
      <4> QED
        BY <4>2
    <3>5. /\ l + 1 \in 0..KeyBits /\ m + 1 \in 0..KeyBits
          /\ ks = Half(ks, l, 0) \cup Half(ks, l, 1) /\ js = Half(js, m, 0) \cup Half(js, m, 1)
          /\ \A b \in {0, 1} : Prefixed(Half(ks, l, b), l + 1) /\ Prefixed(Half(js, m, b), m + 1)
      BY <2>2, <3>1, <3>3, HalfFacts
    <3>6. Forked(l + 1)
      <4>1. PICK g \in ks, h \in ks : g # h
        BY <2>4 DEF Many
      <4>2. g \in Keys /\ h \in Keys /\ \A i \in 1..l : g[i] = h[i]
        BY <2>2, <4>1 DEF Prefixed
      <4>3. (l + 1) - 1 = l
        OBVIOUS
      <4> QED
        BY <4>1, <4>2, <4>3 DEF Forked
    <3>7. Good(l + 1)
      BY <1>1, <3>1, KeyFacts
    <3>8. ASSUME NEW b \in {0, 1}, Half(ks, l, b) # {}
          PROVE  /\ l + 1 = m + 1 /\ Half(ks, l, b) = Half(js, m, b)
                 /\ \A j \in Half(ks, l, b) : c[j] = d[j]
      <4>1. Equal(l + 1, m + 1, Half(ks, l, b), Half(js, m, b))
        BY <3>4, <3>5, <3>8
      <4> HIDE DEF Equal
      <4> QED
        BY <3>5, <3>6, <3>7, <4>1
    <3> HIDE DEF Good, Equal
    <3>9. ASSUME NEW b \in {0, 1}, Half(ks, l, b) = {}
          PROVE  Half(js, m, b) = {}
      <4>1. Sub(c, l + 1, Half(ks, l, b)) = Zero
        BY <3>5, <3>9, SubtreeCases
      <4>2. Sub(d, m + 1, Half(js, m, b)) = Zero /\ Prefixed(Half(js, m, b), m + 1)
        BY <3>4, <3>5, <4>1
      <4> QED
        BY <3>5, <4>2, SubtreeKinds
    <3>10. l + 1 = m + 1
      <4>1. Half(ks, l, 0) # {} \/ Half(ks, l, 1) # {}
        BY <2>2, <3>5
      <4> QED
        BY <3>8, <4>1
    <3>11. l = m
      BY <3>10, KeyFacts
    <3>12. Half(ks, l, 0) = Half(js, m, 0) /\ Half(ks, l, 1) = Half(js, m, 1)
      <4>1. \A b \in {0, 1} : Half(ks, l, b) = Half(js, m, b)
        BY <3>8, <3>9
      <4> QED
        BY <4>1
    <3>13. \A j \in ks : c[j] = d[j]
      <4> TAKE j \in ks
      <4>1. PICK b \in {0, 1} : j \in Half(ks, l, b)
        BY <3>5
      <4> QED
        BY <3>8, <4>1
    <3> QED
      BY <3>5, <3>11, <3>12, <3>13
  <2> QED
    BY <2>2, <2>3, <2>4, NoneOneMany
<1>2. U \in SUBSET (0..KeyBits) /\ 0 \in Int /\ KeyBits \in Int
  BY KeyFacts
<1> HIDE DEF Good
<1>3. KeyBits \notin U
  BY <1>1, KeyFacts
<1>4. ASSUME NEW l \in 0..KeyBits, l < KeyBits, l + 1 \notin U
      PROVE  l \notin U
  <2>1. l + 1 \in 0..KeyBits
    BY <1>4, KeyFacts
  <2> QED
    BY <1>1, <1>4, <2>1
<1>5. U = {}
  <2> HIDE DEF U
  <2> QED
    BY <1>2, <1>3, <1>4, DownTo
<1>6. \A l \in 0..KeyBits : Good(l)
  BY <1>5
<1> QED
  BY <1>6 DEF Good

-----------------------------------------------------------------------------
(* No node of the new tree is lost                                         *)

\* The walk for x gets as far as level l of the tree of c.
Reached(c, x, l) == \A i \in 0..l - 1 : Many(Under(c, x, i))

\* y is an intermediate node or a leaf of the tree of c
PathNode(y, c, x, l) ==
    /\ x \in Keys /\ l \in 0..KeyBits
    /\ Reached(c, x, l) /\ Under(c, x, l) # {} /\ y = OnPath(c, x, l)

TreeNode(y, c) ==
    \/ \E x \in Keys, l \in 0..KeyBits : PathNode(y, c, x, l)
    \/ \E j \in Keys : c[j] # 0 /\ y = ValueNode(c[j])

LEMMA BeyondIsZero ==
    ASSUME NEW c, NEW x \in Keys
    PROVE  \A l \in 0..KeyBits : ~Reached(c, x, l) => NodeAt(Tree(c), x)[l] = Zero
<1> DEFINE at == NodeAt(Tree(c), x)
           Good(l) == ~Reached(c, x, l) => at[l] = Zero
           U == {l \in 0..KeyBits : ~Good(l)}
<1>1. \A l \in 0..KeyBits : at[l] =
              IF l = 0 THEN Tree(c)
              ELSE IF IsIntermediate(at[l - 1]) THEN Child(at[l - 1], x[l]) ELSE Zero
  <2>1. IsWalk(at, KeyBits, Tree(c), x)
    BY NodeAtIs
  <2> HIDE DEF at
  <2> QED
    BY <2>1 DEF IsWalk
<1>2. \A l \in 0..KeyBits : Reached(c, x, l) => at[l] = OnPath(c, x, l)
  BY WalkNodes DEF Reached, OnPath
<1> HIDE DEF at
<1>3. Good(0)
  BY DEF Reached
<1>4. ASSUME NEW l \in 0..KeyBits, 0 < l, Good(l - 1)
      PROVE  Good(l)
  <2>1. SUFFICES ASSUME ~Reached(c, x, l)
                 PROVE  at[l] = Zero
    OBVIOUS
  <2>2. l - 1 \in 0..KeyBits /\ l # 0
    BY <1>4, KeyFacts
  <2>3. ~IsIntermediate(at[l - 1])
    <3>1. CASE Reached(c, x, l - 1)
      <4>1. ~Many(Under(c, x, l - 1))
        <5>1. \A i \in 0..l - 1 : i \in 0..(l - 1) - 1 \/ i = l - 1
          BY <1>4
        <5> QED
          BY <2>1, <3>1, <5>1 DEF Reached
      <4>2. at[l - 1] = Sub(c, l - 1, Under(c, x, l - 1))
        BY <1>2, <2>2, <3>1 DEF OnPath
      <4>3. Prefixed(Under(c, x, l - 1), l - 1)
        BY <2>2, UnderFacts
      <4> QED
        BY <2>2, <4>1, <4>2, <4>3, SubtreeKinds
    <3>2. CASE ~Reached(c, x, l - 1)
      BY <1>4, <3>2, NodeKinds
    <3> QED
      BY <3>1, <3>2
  <2> QED
    BY <1>1, <2>2, <2>3
<1>5. U \in SUBSET (0..KeyBits) /\ 0 \in Int /\ KeyBits \in Int
  BY KeyFacts
<1> HIDE DEF Good
<1>6. 0 \notin U
  BY <1>3
<1>7. ASSUME NEW l \in 0..KeyBits, 0 < l, l - 1 \notin U
      PROVE  l \notin U
  <2>1. l - 1 \in 0..KeyBits
    BY <1>7, KeyFacts
  <2> QED
    BY <1>4, <1>7, <2>1
<1>8. U = {}
  <2> HIDE DEF U
  <2> QED
    BY <1>5, <1>6, <1>7, UpFrom
<1>9. \A l \in 0..KeyBits : Good(l)
  BY <1>8
<1> QED
  BY <1>9 DEF Good, at

\* The leaf of a key that is present is reached by its walk.
LEMMA LeafReached ==
    ASSUME NEW c, NEW j \in Keys, c[j] # 0
    PROVE  \E n \in 0..KeyBits : Reached(c, j, n) /\ Under(c, j, n) = {j}
<1>1. PICK n \in 0..KeyBits : WalkIs(Walk(Tree(c), j), c, j, n)
  BY WalkFacts
<1>2. PICK w : w = Walk(Tree(c), j)
  OBVIOUS
<1>3. WalkIs(w, c, j, n)
  BY <1>1, <1>2
<1>4. Under(c, j, n) = {j}
  BY <1>3, SameIsPresent
<1>5. Reached(c, j, n)
  BY <1>3 DEF WalkIs, Reached
<1> QED
  BY <1>4, <1>5

LEMMA NodesOfTree ==
    ASSUME NEW c, NEW y
    PROVE  y \in NodesOf(Tree(c)) <=> TreeNode(y, c)
<1> DEFINE met == UNION {LET at == NodeAt(Tree(c), x) IN {at[l] : l \in 0..KeyBits} : x \in Keys}
<1>1. \A z : z \in met <=> \E x \in Keys, l \in 0..KeyBits : z = NodeAt(Tree(c), x)[l]
  OBVIOUS
<1>2. NodesOf(Tree(c)) = {z \in met : z # Zero} \cup {ValueNode(z.value) : z \in {m \in met : IsLeaf(m)}}
  BY DEF NodesOf
<1> HIDE DEF met
<1>3. \A x \in Keys, l \in 0..KeyBits : Reached(c, x, l) => NodeAt(Tree(c), x)[l] = OnPath(c, x, l)
  BY WalkNodes DEF Reached, OnPath
<1>4. ASSUME NEW z, z \in met, z # Zero
      PROVE  \E x \in Keys, l \in 0..KeyBits : PathNode(z, c, x, l)
  <2>1. PICK x \in Keys, l \in 0..KeyBits : z = NodeAt(Tree(c), x)[l]
    BY <1>1, <1>4
  <2>2. Reached(c, x, l)
    BY <1>4, <2>1, BeyondIsZero
  <2>3. z = OnPath(c, x, l)
    BY <1>3, <2>1, <2>2
  <2>4. Under(c, x, l) # {}
    BY <1>4, <2>3, LoneZero
  <2> QED
    BY <2>2, <2>3, <2>4 DEF PathNode
<1>5. ASSUME NEW z, NEW x \in Keys, NEW l \in 0..KeyBits, PathNode(z, c, x, l)
      PROVE  z \in met /\ z # Zero
  <2>1. z = NodeAt(Tree(c), x)[l] /\ z = Sub(c, l, Under(c, x, l)) /\ Under(c, x, l) # {}
    BY <1>3, <1>5 DEF PathNode, OnPath
  <2>2. Prefixed(Under(c, x, l), l)
    BY UnderFacts
  <2>3. Sub(c, l, Under(c, x, l)) # Zero
    BY <2>1, <2>2, SubtreeKinds
  <2>4. z \in met
    BY <1>1, <2>1
  <2> QED
    BY <2>1, <2>3, <2>4
<1>6. ASSUME NEW z, z \in met, IsLeaf(z)
      PROVE  \E j \in Keys : c[j] # 0 /\ z.value = c[j]
  <2>1. z # Zero
    BY <1>6, NodeKinds
  <2>2. PICK x \in Keys, l \in 0..KeyBits : PathNode(z, c, x, l)
    BY <1>4, <1>6, <2>1
  <2>3. z = Sub(c, l, Under(c, x, l)) /\ Prefixed(Under(c, x, l), l)
    BY <2>2, UnderFacts DEF PathNode, OnPath
  <2>4. PICK j \in Keys : Under(c, x, l) = {j}
    BY <1>6, <2>3, SubtreeKinds
  <2>5. z = LeafNode(removeKeyBits(j, l), c[j])
    BY <2>3, <2>4, SubtreeCases
  <2>6. c[j] # 0
    <3>1. j \in Under(c, x, l)
      BY <2>4
    <3> QED
      BY <3>1 DEF Under
  <2> QED
    BY <2>5, <2>6, NodeKinds
<1>7. ASSUME NEW j \in Keys, c[j] # 0
      PROVE  \E z \in met : IsLeaf(z) /\ z.value = c[j]
  <2>1. PICK n \in 0..KeyBits : Reached(c, j, n) /\ Under(c, j, n) = {j}
    BY <1>7, LeafReached
  <2>2. PathNode(OnPath(c, j, n), c, j, n)
    BY <2>1 DEF PathNode
  <2>3. OnPath(c, j, n) \in met
    BY <1>5, <2>2
  <2>4. OnPath(c, j, n) = LeafNode(removeKeyBits(j, n), c[j])
    BY <2>1, LoneLeaf
  <2>5. IsLeaf(OnPath(c, j, n)) /\ OnPath(c, j, n).value = c[j]
    BY <2>4, NodeKinds
  <2> QED
    BY <2>3, <2>5
<1>8. ASSUME y \in NodesOf(Tree(c))
      PROVE  TreeNode(y, c)
  <2>1. CASE y \in met /\ y # Zero
    BY <1>4, <2>1 DEF TreeNode
  <2>2. CASE y \in {ValueNode(z.value) : z \in {m \in met : IsLeaf(m)}}
    <3>1. PICK z \in met : IsLeaf(z) /\ y = ValueNode(z.value)
      BY <2>2
    <3>2. PICK j \in Keys : c[j] # 0 /\ z.value = c[j]
      BY <1>6, <3>1
    <3> QED
      BY <3>1, <3>2 DEF TreeNode
  <2> QED
    BY <1>2, <1>8, <2>1, <2>2
<1>9. ASSUME TreeNode(y, c)
      PROVE  y \in NodesOf(Tree(c))
  <2>1. CASE \E x \in Keys, l \in 0..KeyBits : PathNode(y, c, x, l)
    <3>1. y \in met /\ y # Zero
      BY <1>5, <2>1
    <3> QED
      BY <1>2, <3>1
  <2>2. CASE \E j \in Keys : c[j] # 0 /\ y = ValueNode(c[j])
    <3>1. PICK j \in Keys : c[j] # 0 /\ y = ValueNode(c[j])
      BY <2>2
    <3>2. PICK z \in met : IsLeaf(z) /\ z.value = c[j]
      BY <1>7, <3>1
    <3> QED
      BY <1>2, <3>1, <3>2
  <2> QED
    BY <1>9, <2>1, <2>2 DEF TreeNode
<1> QED
  BY <1>8, <1>9

\* A node of the old path that changed is no node of the new tree.
LEMMA ReplacedIsGone ==
    ASSUME NEW c, NEW d, NEW k \in Keys, NEW i \in 1..KeyBits,
           Reached(c, k, i), Under(c, k, i) # {}, OnPath(c, k, i) # OnPath(d, k, i),
           NEW y, TreeNode(y, d)
    PROVE  y # OnPath(c, k, i)
<1>1. SUFFICES ASSUME y = OnPath(c, k, i)
               PROVE  FALSE
  OBVIOUS
<1>2. i \in 0..KeyBits /\ i - 1 \in 0..i - 1 /\ i - 1 \in 0..KeyBits
  BY KeyFacts
<1>3. Prefixed(Under(c, k, i), i) /\ y = Sub(c, i, Under(c, k, i))
  BY <1>1, <1>2, UnderFacts DEF OnPath
<1>4. IsLeaf(y) \/ IsIntermediate(y)
  <2>1. Under(c, k, i) \in SUBSET Keys
    BY <1>3 DEF Prefixed
  <2> QED
    BY <1>2, <1>3, <2>1, SubtreeKinds, NoneOneMany
<1>5. ~\E j \in Keys : y = ValueNode(d[j])
  BY <1>4 DEF IsLeaf, IsIntermediate, ValueNode
<1>6. PICK x \in Keys, l \in 0..KeyBits : PathNode(y, d, x, l)
  BY <1>5 DEF TreeNode
<1>7. y = Sub(d, l, Under(d, x, l)) /\ Prefixed(Under(d, x, l), l)
  BY <1>6, UnderFacts DEF PathNode, OnPath
<1>8. Forked(i)
  <2>1. Many(Under(c, k, i - 1))
    BY <1>2 DEF Reached
  <2>2. PICK g \in Under(c, k, i - 1), h \in Under(c, k, i - 1) : g # h
    BY <2>1 DEF Many
  <2>3. g \in Keys /\ h \in Keys /\ \A t \in 1..i - 1 : g[t] = h[t]
    BY <2>2 DEF Under
  <2> QED
    BY <2>2, <2>3 DEF Forked
<1>9. i = l /\ Under(c, k, i) = Under(d, x, l)
  <2>1. Sub(c, i, Under(c, k, i)) = Sub(d, l, Under(d, x, l))
    BY <1>3, <1>7
  <2> QED
    BY <1>2, <1>3, <1>7, <1>8, <2>1, EqualNodes
<1>10. PICK h \in Under(c, k, i) : TRUE
  OBVIOUS
<1>11. \A t \in 1..i : h[t] = k[t] /\ h[t] = x[t]
  BY <1>9, <1>10 DEF Under
<1>12. Under(d, x, i) = Under(d, k, i)
  BY <1>11 DEF Under
<1> QED
  BY <1>1, <1>7, <1>9, <1>12 DEF OnPath

\* What a change saves below the path it rebuilds, and what it deletes.
Covers(ch, c, d, k, v, n) ==
    \/ d = c
    \/ /\ v # 0 => ValueNode(v) \in ch.writes
       /\ ~Many(Under(d, k, ch.level + 1))
       /\ ch.bottom = Zero \/ ch.bottom \in ch.writes
       /\ v # 0 => c[k] # 0 \/ Under(c, k, n) = {}
    \/ \E j \in Keys, q \in Nat :
          /\ v # 0 /\ j # k /\ Under(c, k, n) = {j} /\ q \in n..KeyBits - 1
          /\ k[q + 1] # j[q + 1] /\ \A i \in 1..q : j[i] = k[i]
          /\ ch.level = n - 1
          /\ ch.writes = InsertFoundSaves(c, d, j, k, v, n, q)

DeletesOld(ch, c, d, k, n) ==
    \A y \in ch.deletes :
        /\ n # 0 /\ y = OnPath(c, k, n) /\ Under(c, k, n) # {}
        /\ OnPath(c, k, n) # OnPath(d, k, n)

LEMMA ChangeCovers ==
    ASSUME NEW w, NEW c, NEW d, NEW k, NEW v, NEW n, NEW ch, SetCall(w, n, ch, c, d, k, v)
    PROVE  Covers(ch, c, d, k, v, n) /\ DeletesOld(ch, c, d, k, n)
<1>0. Setting(w, c, d, k, v, n) /\ ChangeIs(ch, c, d, k, v, n) /\ ch = setChange(w, Same(w, k), k, v)
  BY DEF SetCall
<1>1. /\ k \in Keys /\ n \in 0..KeyBits /\ n \in Nat /\ w.level = n - 1 /\ (n - 1) + 1 = n
      /\ d[k] = v /\ WalkIs(w, c, k, n) /\ (v = c[k] => d = c)
      /\ \A l \in 0..KeyBits : /\ v # 0 => Under(d, k, l) = Under(c, k, l) \cup {k}
                               /\ v = 0 => Under(d, k, l) = Under(c, k, l) \ {k}
  BY <1>0, SettingFacts
<1>2. /\ Same(w, k) <=> c[k] # 0
      /\ c[k] # 0 => Under(c, k, n) = {k} /\ w.leaf = LeafNode(removeKeyBits(k, n), c[k])
      /\ ~w.found => Under(c, k, n) = {}
      /\ c[k] # 0 => w.found
  <2>1. Same(w, k) => w.found
    BY DEF Same
  <2> QED
    BY <1>1, <2>1, SameIsPresent
<1>3. CASE v # 0 /\ c[k] # 0
  <2>1. ch = setUpdate(w, v)
    BY <1>0, <1>2, <1>3 DEF setChange
  <2>2. w.leaf.rkey = removeKeyBits(k, n) /\ w.leaf.value = c[k]
    BY <1>2, <1>3, NodeKinds
  <2>3. /\ ch.level = n - 1 /\ ch.bottom = LeafNode(removeKeyBits(k, n), v)
        /\ ch.writes = {ValueNode(v), LeafNode(removeKeyBits(k, n), v)}
        /\ ch.deletes = IF n - 1 >= 0 /\ c[k] # v THEN {w.leaf} ELSE {}
    BY <1>1, <2>1, <2>2 DEF setUpdate, Change
  <2>4. Under(d, k, n) = {k} /\ Under(c, k, n) = {k}
    BY <1>1, <1>2, <1>3
  <2>5. ~Many(Under(d, k, ch.level + 1))
    <3>1. Under(d, k, ch.level + 1) = {k}
      BY <1>1, <2>3, <2>4
    <3> QED
      BY <3>1 DEF Many
  <2>6. Covers(ch, c, d, k, v, n)
    BY <1>3, <2>3, <2>5 DEF Covers
  <2>7. /\ OnPath(c, k, n) = LeafNode(removeKeyBits(k, n), c[k])
        /\ OnPath(d, k, n) = LeafNode(removeKeyBits(k, n), v)
    BY <1>1, <2>4, LoneLeaf
  <2>8. c[k] # v => OnPath(c, k, n) # OnPath(d, k, n)
    <3>1. OnPath(c, k, n).value = c[k] /\ OnPath(d, k, n).value = v
      BY <2>7, NodeKinds
    <3> QED
      BY <3>1
  <2>9. DeletesOld(ch, c, d, k, n)
    <3>1. SUFFICES ASSUME NEW y \in ch.deletes
                   PROVE  /\ n # 0 /\ y = OnPath(c, k, n) /\ Under(c, k, n) # {}
                          /\ OnPath(c, k, n) # OnPath(d, k, n)
      BY DEF DeletesOld
    <3>2. n - 1 >= 0 /\ c[k] # v /\ y = w.leaf
      BY <2>3, <3>1
    <3> QED
      BY <1>1, <1>2, <1>3, <2>4, <2>7, <2>8, <3>2
  <2> QED
    BY <2>6, <2>9
<1>4. CASE v # 0 /\ c[k] = 0 /\ w.found
  <2>1. ch = setInsertFound(w, k, v)
    BY <1>0, <1>2, <1>4 DEF setChange
  <2>2. /\ ch.level = n - 1 /\ ch.deletes = {}
        /\ \E j \in Keys, q \in Nat :
                 /\ j # k /\ Under(c, k, n) = {j} /\ q \in n..KeyBits - 1
                 /\ k[q + 1] # j[q + 1] /\ \A i \in 1..q : j[i] = k[i]
                 /\ ch.writes = InsertFoundSaves(c, d, j, k, v, n, q)
    BY <1>0, <1>4, <2>1, InsertFoundIsRight
  <2> QED
    BY <1>4, <2>2 DEF Covers, DeletesOld
<1>5. CASE v # 0 /\ c[k] = 0 /\ ~w.found
  <2>1. ch = setInsertNotFound(w, k, v)
    BY <1>0, <1>2, <1>5 DEF setChange
  <2>2. /\ ch.level = n - 1 /\ ch.bottom = LeafNode(removeKeyBits(k, n), v)
        /\ ch.writes = {ValueNode(v), LeafNode(removeKeyBits(k, n), v)} /\ ch.deletes = {}
    BY <1>1, <2>1 DEF setInsertNotFound, Change
  <2>3. Under(d, k, n) = {k} /\ Under(c, k, n) = {}
    BY <1>1, <1>2, <1>5
  <2>4. ~Many(Under(d, k, ch.level + 1))
    <3>1. Under(d, k, ch.level + 1) = {k}
      BY <1>1, <2>2, <2>3
    <3> QED
      BY <3>1 DEF Many
  <2> QED
    BY <2>2, <2>3, <2>4 DEF Covers, DeletesOld
<1>6. CASE v = 0 /\ c[k] # 0
  <2>1. ch = setDelete(w, k)
    BY <1>0, <1>2, <1>6 DEF setChange
  <2>2. /\ ch.deletes = IF n = 0 THEN {} ELSE {w.leaf}
        /\ ch.bottom = Zero \/ ch.bottom \in ch.writes
        /\ ch.mode \in {"deleteFound", "deleteNotFound"}
    <3>1. v = 0 /\ c[k] # 0 /\ Setting(w, c, d, k, v, n)
      BY <1>0, <1>6
    <3>2. DeleteEffects(setDelete(w, k), w, n)
      BY <3>1, DeleteIsRight, Zenon
    <3>3. setDelete(w, k).mode \in {"deleteFound", "deleteNotFound"}
      BY DEF setDelete, Change
    <3> QED
      BY <2>1, <3>2, <3>3 DEF DeleteEffects
  <2>3. Under(d, k, n) = {} /\ Under(c, k, n) = {k}
    BY <1>1, <1>2, <1>6
  <2>4. OnPath(c, k, n) = LeafNode(removeKeyBits(k, n), c[k]) /\ OnPath(d, k, n) = Zero
    BY <1>1, <2>3, LoneLeaf, LoneZero
  <2>5. OnPath(c, k, n) # OnPath(d, k, n)
    BY <2>4, NodeKinds
  <2>6. ~Many(Under(d, k, ch.level + 1))
    <3>1. /\ ch.level \in -1..n - 1
          /\ OtherLeaf(ch) = OnPath(d, k, ch.level + 1)
      BY <1>0, <2>2 DEF ChangeIs
    <3>2. PICK l \in 0..KeyBits : l = ch.level + 1
      BY <1>1, <3>1, KeyFacts
    <3>3. ~IsIntermediate(OtherLeaf(ch))
      BY NodeKinds DEF OtherLeaf, LeafOf
    <3>4. ~IsIntermediate(Sub(d, l, Under(d, k, l))) /\ Prefixed(Under(d, k, l), l)
      BY <1>1, <3>1, <3>2, <3>3, UnderFacts DEF OnPath
    <3>5. ~Many(Under(d, k, l))
      BY <3>4, SubtreeKinds
    <3> QED
      BY <3>2, <3>5
  <2>7. Covers(ch, c, d, k, v, n)
    BY <1>6, <2>2, <2>6 DEF Covers
  <2>8. DeletesOld(ch, c, d, k, n)
    BY <1>2, <1>6, <2>2, <2>3, <2>4, <2>5 DEF DeletesOld
  <2> QED
    BY <2>7, <2>8
<1>7. CASE v = 0 /\ c[k] = 0
  <2>1. ch = setZeroToZero(w)
    BY <1>0, <1>2, <1>7 DEF setChange
  <2>2. ch.deletes = {}
    BY <2>1 DEF setZeroToZero, Change
  <2>3. d = c
    BY <1>1, <1>7
  <2> QED
    BY <2>2, <2>3 DEF Covers, DeletesOld
<1> QED
  BY <1>2, <1>3, <1>4, <1>5, <1>6, <1>7

\* What the change and the climb save together
Saved(ch, d, k) == ch.writes \cup {OnPath(d, k, l) : l \in 0..ch.level}

LEMMA ReachedBefore ==
    ASSUME NEW c, NEW x, NEW l \in Int, Reached(c, x, l), NEW i \in Nat, i < l
    PROVE  Many(Under(c, x, i))
  BY DEF Reached

\* Keys further down are keys further up.
LEMMA UnderNests ==
    ASSUME NEW c, NEW x, NEW i \in Nat, NEW l \in Nat, i <= l
    PROVE  Under(c, x, l) \subseteq Under(c, x, i)
<1>1. \A t \in 1..i : t \in 1..l
  OBVIOUS
<1> QED
  BY <1>1 DEF Under

\* On the path of k every node of the new tree is saved, or was there.
LEMMA PathIsSaved ==
    ASSUME NEW w, NEW c, NEW d, NEW k, NEW v, NEW n, NEW ch, SetCall(w, n, ch, c, d, k, v),
           NEW y, NEW l, PathNode(y, d, k, l)
    PROVE  TreeNode(y, c) \/ y \in Saved(ch, d, k)
<1>0. Setting(w, c, d, k, v, n) /\ ChangeIs(ch, c, d, k, v, n) /\ Covers(ch, c, d, k, v, n)
  BY ChangeCovers DEF SetCall
<1>1. /\ k \in Keys /\ n \in 0..KeyBits /\ n \in Nat /\ (n - 1) + 1 = n /\ d[k] = v
      /\ \A i \in 0..KeyBits : v # 0 => Under(d, k, i) = Under(c, k, i) \cup {k}
  BY <1>0, SettingFacts
<1>2. /\ l \in 0..KeyBits /\ Reached(d, k, l) /\ Under(d, k, l) # {} /\ y = OnPath(d, k, l)
  BY DEF PathNode
<1>3. ch.level \in -1..n - 1 /\ ch.bottom = OnPath(d, k, ch.level + 1)
  BY <1>0 DEF ChangeIs
<1>4. PICK m \in -1..n - 1 : m = ch.level
  BY <1>3
<1>5. m + 1 \in 0..KeyBits /\ m \in Int /\ m + 1 \in Nat
  BY <1>1, <1>4, KeyFacts
<1>6. CASE l <= m
  <2>1. l \in 0..m
    BY <1>2, <1>5, <1>6
  <2> QED
    BY <1>2, <1>4, <2>1 DEF Saved
<1>7. CASE ~(l <= m)
  <2>1. CASE d = c
    BY <1>1, <1>2, <2>1 DEF TreeNode, PathNode
  <2>2. CASE /\ ~Many(Under(d, k, ch.level + 1))
             /\ ch.bottom = Zero \/ ch.bottom \in ch.writes
    <3>1. ~(m + 1 < l)
      BY <1>2, <1>4, <1>5, <2>2, ReachedBefore
    <3>2. l = m + 1
      BY <1>2, <1>5, <1>7, <3>1
    <3>3. y = ch.bottom
      BY <1>2, <1>3, <1>4, <3>2
    <3>4. y # Zero
      <4>1. y = Sub(d, l, Under(d, k, l)) /\ Prefixed(Under(d, k, l), l)
        BY <1>1, <1>2, UnderFacts DEF OnPath
      <4> QED
        BY <1>2, <4>1, SubtreeKinds
    <3> QED
      BY <2>2, <3>3, <3>4 DEF Saved
  <2>3. CASE \E j \in Keys, q \in Nat :
          /\ v # 0 /\ j # k /\ Under(c, k, n) = {j} /\ q \in n..KeyBits - 1
          /\ k[q + 1] # j[q + 1] /\ \A i \in 1..q : j[i] = k[i]
          /\ ch.level = n - 1
          /\ ch.writes = InsertFoundSaves(c, d, j, k, v, n, q)
    <3>1. PICK j \in Keys, q \in Nat :
          /\ v # 0 /\ j # k /\ Under(c, k, n) = {j} /\ q \in n..KeyBits - 1
          /\ k[q + 1] # j[q + 1] /\ \A i \in 1..q : j[i] = k[i]
          /\ ch.level = n - 1
          /\ ch.writes = InsertFoundSaves(c, d, j, k, v, n, q)
      BY <2>3
    <3>2. q + 1 \in 0..KeyBits /\ q + 1 \in Nat /\ q + 1 \in 1..q + 1 /\ n <= q + 1
      BY <1>1, <3>1, KeyFacts
    <3>3. Under(d, k, q + 1) = {k}
      <4>1. j \notin Under(c, k, q + 1)
        BY <3>1, <3>2 DEF Under
      <4>2. Under(c, k, q + 1) \subseteq {j}
        <5>1. Under(c, k, q + 1) \subseteq Under(c, k, n)
          BY <1>1, <3>2, UnderNests
        <5> QED
          BY <3>1, <5>1
      <4>3. Under(d, k, q + 1) = Under(c, k, q + 1) \cup {k}
        BY <1>1, <3>1, <3>2
      <4> QED
        BY <4>1, <4>2, <4>3
    <3>4. ~(q + 1 < l)
      <4>1. ~Many(Under(d, k, q + 1))
        BY <3>3 DEF Many
      <4> QED
        BY <1>2, <3>2, <4>1, ReachedBefore
    <3>5. l \in n..q \/ l = q + 1
      BY <1>1, <1>2, <1>4, <1>7, <3>1, <3>2, <3>4
    <3>6. CASE l \in n..q
      <4>1. y \in ch.writes
        BY <1>2, <3>1, <3>6 DEF InsertFoundSaves
      <4> QED
        BY <4>1 DEF Saved
    <3>7. CASE l = q + 1
      <4>0. Under(d, k, l) = {k}
        BY <3>3, <3>7
      <4>1. y = LeafNode(removeKeyBits(k, q + 1), v)
        <5>1. OnPath(d, k, l) = LeafNode(removeKeyBits(k, l), d[k])
          BY <1>1, <1>2, <4>0, LoneLeaf
        <5> QED
          BY <1>1, <1>2, <3>7, <5>1
      <4>2. y \in ch.writes
        BY <3>1, <4>1 DEF InsertFoundSaves
      <4> QED
        BY <4>2 DEF Saved
    <3> QED
      BY <3>5, <3>6, <3>7
  <2> QED
    BY <1>0, <2>1, <2>2, <2>3 DEF Covers
<1> QED
  BY <1>6, <1>7

\* Away from the path of k every node of the new tree was there, but for the
\* leaf that was pushed down.
LEMMA BesideIsKept ==
    ASSUME NEW w, NEW c, NEW d, NEW k, NEW v, NEW n, NEW ch, SetCall(w, n, ch, c, d, k, v),
           NEW y, NEW x, NEW l, PathNode(y, d, x, l),
           NEW t \in 1..l, x[t] # k[t]
    PROVE  TreeNode(y, c) \/ y \in Saved(ch, d, k)
<1>0. Setting(w, c, d, k, v, n) /\ Covers(ch, c, d, k, v, n)
  BY ChangeCovers DEF SetCall
<1>1. /\ k \in Keys /\ n \in 0..KeyBits /\ n \in Nat /\ WalkIs(w, c, k, n)
      /\ SameButFor(c, d, k) /\ d[k] = v
      /\ \A i \in 0..n - 1 : Many(Under(c, k, i))
  BY <1>0, SettingFacts
<1>2. /\ x \in Keys /\ l \in 0..KeyBits /\ l \in Nat /\ Reached(d, x, l) /\ Under(d, x, l) # {} /\ y = OnPath(d, x, l)
  BY KeyFacts DEF PathNode
<1>3. k \notin Under(d, x, l) /\ k \notin Under(c, x, l)
  BY DEF Under
<1>4. Under(d, x, l) = Under(c, x, l)
  BY <1>1, <1>3 DEF Under, SameButFor
<1>5. y = OnPath(c, x, l)
  <2>1. Prefixed(Under(c, x, l), l)
    BY <1>2, UnderFacts
  <2>2. \A j \in Under(c, x, l) : c[j] = d[j]
    <3>1. \A j \in Under(c, x, l) : j \in Keys /\ j # k
      BY <1>3 DEF Under
    <3> QED
      BY <1>1, <3>1 DEF SameButFor
  <2>3. Sub(c, l, Under(c, x, l)) = Sub(d, l, Under(c, x, l))
    BY <1>2, <2>1, <2>2, SubtreeDepends
  <2> QED
    BY <1>2, <1>4, <2>3 DEF OnPath
<1>6. CASE Reached(c, x, l)
  BY <1>2, <1>4, <1>5, <1>6 DEF TreeNode, PathNode
<1>7. CASE ~Reached(c, x, l)
  <2>1. PICK i \in 0..l - 1 : ~Many(Under(c, x, i))
    BY <1>7 DEF Reached
  <2>2. i \in Nat /\ i < l /\ i <= l /\ l - 1 \in Nat /\ l - 1 < l /\ i <= l - 1 /\ i \in 0..KeyBits
    BY <1>2, <2>1, KeyFacts
  <2>3. PICK j \in Under(c, x, l) : TRUE
    BY <1>2, <1>4
  <2>4. j \in Keys /\ c[j] # 0 /\ j # k /\ \A a \in 1..l : j[a] = x[a]
    BY <1>3, <2>3 DEF Under
  <2>5. Under(c, x, i) = {j} /\ Under(c, x, l) = {j}
    <3>1. Under(c, x, l) \subseteq Under(c, x, i)
      BY <1>2, <2>2, UnderNests
    <3> QED
      BY <2>1, <2>3, <3>1 DEF Many
  <2>6. \A a \in Nat : (i <= a /\ a < l) => k \in Under(d, x, a)
    <3> TAKE a \in Nat
    <3>1. SUFFICES ASSUME i <= a, a < l, k \notin Under(d, x, a)
                   PROVE  FALSE
      OBVIOUS
    <3>2. Many(Under(d, x, a))
      BY <1>2, <3>1, ReachedBefore
    <3>3. Under(d, x, a) \subseteq Under(d, x, i)
      BY <2>2, <3>1, UnderNests
    <3>4. Under(d, x, a) \subseteq Under(c, x, i)
      <4>1. \A h \in Under(d, x, a) : h \in Keys /\ h # k /\ h \in Under(d, x, i)
        BY <3>1, <3>3 DEF Under
      <4> QED
        BY <1>1, <4>1 DEF Under, SameButFor
    <3>5. Under(d, x, a) \subseteq {j}
      BY <2>5, <3>4
    <3> QED
      BY <3>2, <3>5 DEF Many
  <2>7. /\ v # 0 /\ \A a \in 1..l - 1 : k[a] = x[a]
    <3>1. k \in Under(d, x, l - 1)
      BY <2>2, <2>6
    <3> QED
      BY <1>1, <3>1 DEF Under
  <2>8. c[k] = 0
    <3>1. k \notin Under(c, x, i)
      BY <2>4, <2>5
    <3>2. \A a \in 1..i : k[a] = x[a]
      BY <2>2, <2>7
    <3> QED
      BY <1>1, <3>1, <3>2 DEF Under
  <2>9. Under(c, k, i) = {j}
    <3>1. \A a \in 1..i : k[a] = x[a]
      BY <2>2, <2>7
    <3>2. Under(c, k, i) = Under(c, x, i)
      BY <3>1 DEF Under
    <3> QED
      BY <2>5, <3>2
  <2>10. n <= i
    <3>1. ~Many(Under(c, k, i))
      BY <2>9 DEF Many
    <3>2. ~(n <= i) => i \in 0..n - 1
      BY <1>1, <2>2
    <3> QED
      BY <1>1, <3>1, <3>2
  <2>11. Under(c, k, n) = {j}
    <3>1. ~Many(Under(c, k, n))
      BY <1>1 DEF WalkIs
    <3>2. Under(c, k, i) \subseteq Under(c, k, n)
      BY <1>1, <2>2, <2>10, UnderNests
    <3> QED
      BY <2>9, <3>1, <3>2 DEF Many
  <2>12. d # c
    BY <1>1, <2>7, <2>8
  <2>13. PICK q \in Nat :
          /\ q \in n..KeyBits - 1
          /\ k[q + 1] # j[q + 1] /\ \A a \in 1..q : j[a] = k[a]
          /\ ch.writes = InsertFoundSaves(c, d, j, k, v, n, q)
    BY <1>0, <2>7, <2>8, <2>11, <2>12 DEF Covers
  <2>14. t = l
    BY <1>2, <2>7
  <2>15. j[l] # k[l] /\ \A a \in 1..l - 1 : j[a] = k[a]
    <3>1. l \in 1..l
      BY <1>2, <2>14
    <3>2. j[l] = x[l]
      BY <2>4, <3>1
    <3>3. \A a \in 1..l - 1 : a \in 1..l
      BY <1>2
    <3> QED
      BY <2>4, <2>7, <2>14, <3>2, <3>3
  <2>16. l = q + 1
    <3>1. ~(l <= q)
      <4>1. l <= q => l \in 1..q
        BY <1>2, <2>2
      <4> QED
        BY <2>13, <2>15, <4>1
    <3>2. ~(q + 1 < l)
      <4>1. q + 1 < l => q + 1 \in 1..l - 1
        BY <1>2
      <4> QED
        BY <2>13, <2>15, <4>1
    <3> QED
      BY <1>2, <3>1, <3>2
  <2>17. y = LeafNode(removeKeyBits(j, q + 1), c[j])
    BY <1>2, <1>5, <2>4, <2>5, <2>16, LoneLeaf
  <2>18. y \in ch.writes
    BY <2>13, <2>17 DEF InsertFoundSaves
  <2> QED
    BY <2>18 DEF Saved
<1> QED
  BY <1>6, <1>7

LEMMA NewTreeIsSaved ==
    ASSUME NEW w, NEW c, NEW d, NEW k, NEW v, NEW n, NEW ch, SetCall(w, n, ch, c, d, k, v),
           NEW y, TreeNode(y, d)
    PROVE  TreeNode(y, c) \/ y \in Saved(ch, d, k)
<1>0. Setting(w, c, d, k, v, n) /\ Covers(ch, c, d, k, v, n)
  BY ChangeCovers DEF SetCall
<1>1. k \in Keys /\ SameButFor(c, d, k) /\ d[k] = v
  BY <1>0, SettingFacts
<1>2. CASE \E x \in Keys, l \in 0..KeyBits : PathNode(y, d, x, l)
  <2>1. PICK x \in Keys, l \in 0..KeyBits : PathNode(y, d, x, l)
    BY <1>2
  <2>2. CASE \E t \in 1..l : x[t] # k[t]
    BY <2>1, <2>2, BesideIsKept
  <2>3. CASE \A t \in 1..l : x[t] = k[t]
    <3>1. Under(d, x, l) = Under(d, k, l)
      BY <2>3 DEF Under
    <3>2. \A i \in 0..l - 1 : Under(d, x, i) = Under(d, k, i)
      <4> TAKE i \in 0..l - 1
      <4>1. \A t \in 1..i : t \in 1..l
        BY KeyFacts
      <4>2. \A t \in 1..i : x[t] = k[t]
        BY <2>3, <4>1
      <4> QED
        BY <4>2 DEF Under
    <3>3. PathNode(y, d, k, l)
      BY <1>1, <2>1, <3>1, <3>2 DEF PathNode, Reached, OnPath
    <3> QED
      BY <3>3, PathIsSaved
  <2> QED
    BY <2>2, <2>3
<1>3. CASE \E j \in Keys : d[j] # 0 /\ y = ValueNode(d[j])
  <2>1. PICK j \in Keys : d[j] # 0 /\ y = ValueNode(d[j])
    BY <1>3
  <2>2. CASE j # k \/ d = c
    BY <1>1, <2>1, <2>2 DEF SameButFor, TreeNode
  <2>3. CASE j = k /\ d # c
    <3>1. v # 0 /\ y = ValueNode(v)
      BY <1>1, <2>1, <2>3
    <3>2. ValueNode(v) \in ch.writes
      BY <1>0, <2>3, <3>1 DEF Covers, InsertFoundSaves
    <3> QED
      BY <3>1, <3>2 DEF Saved
  <2> QED
    BY <2>2, <2>3
<1> QED
  BY <1>2, <1>3 DEF TreeNode

LEMMA NothingIsLost ==
    ASSUME NEW c \in [Keys -> Values], NEW k \in Keys, NEW v \in Values, NEW s, s = set(Tree(c), k, v)
    PROVE  NodesOf(s.newRoot) \subseteq (NodesOf(Tree(c)) \cup s.writes) \ s.deletes
<1>1. SUFFICES ASSUME NEW y, y \in NodesOf(s.newRoot)
               PROVE  (y \in NodesOf(Tree(c)) \/ y \in s.writes) /\ y \notin s.deletes
  OBVIOUS
<1>4. PICK d : d = [c EXCEPT ![k] = v]
  OBVIOUS
<1>5. PICK w, n, ch : SetCall(w, n, ch, c, d, k, v)
  BY <1>4, SetIs
<1>6. /\ s = setResult(w, Same(w, k), k, ch)
      /\ Setting(w, c, d, k, v, n) /\ ChangeIs(ch, c, d, k, v, n)
  BY <1>5 DEF SetCall
<1>7. /\ s.newRoot = Tree(d)
      /\ s.writes = Saved(ch, d, k)
      /\ s.deletes = ch.deletes \cup
             {OnPath(c, k, l) : l \in {i \in 1..ch.level : OnPath(c, k, i) # OnPath(d, k, i)}}
  BY <1>6, ResultIsRight DEF Saved
<1>8. TreeNode(y, d)
  BY <1>1, <1>7, NodesOfTree
<1>9. y \in NodesOf(Tree(c)) \/ y \in s.writes
  <2>1. TreeNode(y, c) \/ y \in Saved(ch, d, k)
    BY <1>5, <1>8, NewTreeIsSaved
  <2> QED
    BY <1>7, <2>1, NodesOfTree
<1>10. ASSUME NEW i \in 1..n, Under(c, k, i) # {}, OnPath(c, k, i) # OnPath(d, k, i)
       PROVE  y # OnPath(c, k, i)
  <2>1. n \in 0..KeyBits /\ \A l \in 0..n - 1 : Many(Under(c, k, l))
    BY <1>6, SettingFacts
  <2>2. i \in 1..KeyBits /\ \A l \in 0..i - 1 : l \in 0..n - 1
    BY <2>1, KeyFacts
  <2>3. Reached(c, k, i)
    BY <2>1, <2>2 DEF Reached
  <2> QED
    BY <1>8, <1>10, <2>2, <2>3, ReplacedIsGone
<1>11. n \in 0..KeyBits /\ n \in Nat /\ ch.level \in -1..n - 1 /\ \A l \in 0..n - 1 : Many(Under(c, k, l))
  BY <1>6, SettingFacts DEF ChangeIs
<1>12. y \notin ch.deletes
  <2>1. SUFFICES ASSUME y \in ch.deletes
                 PROVE  FALSE
    OBVIOUS
  <2>2. n # 0 /\ y = OnPath(c, k, n) /\ Under(c, k, n) # {} /\ OnPath(c, k, n) # OnPath(d, k, n)
    BY <1>5, <2>1, ChangeCovers DEF DeletesOld
  <2>3. n \in 1..n
    BY <1>11, <2>2
  <2> QED
    BY <1>10, <2>2, <2>3
<1>13. ASSUME NEW l \in 1..ch.level, OnPath(c, k, l) # OnPath(d, k, l)
       PROVE  y # OnPath(c, k, l)
  <2>1. l \in 1..n /\ l \in 0..n - 1
    BY <1>11
  <2>2. Under(c, k, l) # {}
    BY <1>11, <2>1 DEF Many
  <2> QED
    BY <1>10, <1>13, <2>1, <2>2
<1> QED
  BY <1>7, <1>9, <1>12, <1>13
=============================================================================
