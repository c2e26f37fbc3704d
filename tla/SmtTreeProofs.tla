--------------------------- MODULE SmtTreeProofs ---------------------------
(***************************************************************************)
(* Proofs about SmtTree, for every set of keys, every width of a key and   *)
(* every set of values, from what SmtProofs says of one call.              *)
(***************************************************************************)
EXTENDS SmtTree, SmtProofs

\* The inductive invariant.
SmtInv ==
    /\ content \in [Keys -> Values]
    /\ RootIsCanonical

LEMMA SmtInvInductive ==
    /\ Init => SmtInv
    /\ SmtInv /\ [Next]_vars => SmtInv'
<1>1. ASSUME Init
      PROVE  SmtInv
  <2>1. content = [k \in Keys |-> 0] /\ root = Zero
    BY <1>1 DEF Init
  <2>2. content \in [Keys -> Values]
    BY <2>1, KeysAssumption
  <2> QED
    BY <2>1, <2>2, EmptyTree DEF SmtInv, RootIsCanonical
<1>2. ASSUME SmtInv, [Next]_vars
      PROVE  SmtInv'
  <2>1. CASE Next
    <3>1. PICK k \in Keys, v \in Values : Set(k, v)
      BY <2>1 DEF Next
    <3>2. /\ content' = [content EXCEPT ![k] = v]
          /\ root' = set(root, k, v).newRoot
          /\ content \in [Keys -> Values] /\ root = Tree(content)
      BY <1>2, <3>1 DEF Set, SmtInv, RootIsCanonical
    <3>3. root' = Tree(content')
      BY <3>2, SetKeepsCanonical
    <3>4. content' \in [Keys -> Values]
      BY <3>2
    <3> QED
      BY <3>3, <3>4 DEF SmtInv, RootIsCanonical
  <2>2. CASE UNCHANGED vars
    BY <1>2, <2>2 DEF SmtInv, RootIsCanonical, vars
  <2> QED
    BY <1>2, <2>1, <2>2
<1> QED
  BY <1>1, <1>2

\* The root is the canonical tree of the content, whatever sets led to it, for
\* every set of keys and values (Smt::set in all its modes).
THEOREM RootIsAlwaysCanonical == Spec => []RootIsCanonical
<1>1. SmtInv => RootIsCanonical
  BY DEF SmtInv
<1> QED
  BY <1>1, SmtInvInductive, PTL DEF Spec

-----------------------------------------------------------------------------
(* The proofs that get and set return                                      *)

LEMMA GetIsRight ==
    ASSUME SmtInv
    PROVE  GetIsProved
<1>1. SUFFICES ASSUME NEW k \in Keys, NEW g, NEW bottom, g = get(root, k),
                      bottom = CASE g.value # 0              -> LeafOf(k, g.level, g.value)
                                 [] g.value = 0 /\ ~g.isOld0 -> LeafOf(g.insKey, g.level, g.insValue)
                                 [] OTHER                    -> Zero
               PROVE  /\ g.value = content[k]
                      /\ g.insKey # k
                      /\ RootFrom(g.siblings, g.level, k, bottom) = root
  BY DEF GetIsProved
<1>2. content \in [Keys -> Values] /\ root = Tree(content)
  BY DEF SmtInv, RootIsCanonical
<1> DEFINE c == content
           w == Walk(root, k)
           ins == w.found /\ ~Same(w, k)
<1>3. PICK n \in 0..KeyBits : WalkIs(w, c, k, n)
  BY <1>2, WalkFacts
<1>4. g = [value    |-> IF Same(w, k) THEN w.leaf.value ELSE 0,
           siblings |-> w.siblings,
           level    |-> w.level,
           isOld0   |-> ~ins,
           insKey   |-> IF ins THEN w.foundKey ELSE <<>>,
           insValue |-> IF ins THEN w.leaf.value ELSE 0]
  BY <1>1 DEF get
<1> HIDE DEF w
<1>5. /\ g.value = (IF Same(w, k) THEN w.leaf.value ELSE 0) /\ g.siblings = w.siblings /\ g.level = w.level
      /\ g.isOld0 = ~ins /\ g.insKey = (IF ins THEN w.foundKey ELSE <<>>)
      /\ g.insValue = IF ins THEN w.leaf.value ELSE 0
  BY <1>4
<1>6. /\ w.level = n - 1 /\ (n - 1) + 1 = n /\ w.leaf = OnPath(c, k, n)
      /\ \A l \in 0..n - 1 : Many(Under(c, k, l)) /\ w.siblings[l] = OnPath(c, k, l)
  BY <1>3, KeyFacts DEF WalkIs, OnPath
<1>7. Same(w, k) <=> c[k] # 0
  BY <1>3, SameIsPresent
<1>8. <<>> # k
  <2>1. DOMAIN k = 1..KeyBits /\ 1 \in 1..KeyBits /\ DOMAIN << >> = {}
    BY KeyFacts
  <2> QED
    BY <2>1
<1>9. /\ g.value = c[k] /\ g.insKey # k /\ bottom = w.leaf
  <2>1. CASE c[k] # 0
    <3>1. w.leaf = LeafNode(removeKeyBits(k, n), c[k])
      BY <1>3, <2>1, SameIsPresent
    <3>2. w.leaf.value = c[k]
      BY <3>1, NodeKinds
    <3>3. g.value = c[k] /\ ~ins /\ g.insKey = <<>>
      BY <1>5, <1>7, <2>1, <3>2
    <3>4. bottom = LeafOf(k, n - 1, c[k])
      BY <1>1, <1>5, <1>6, <2>1, <3>3
    <3> QED
      BY <1>6, <1>8, <3>1, <3>3, <3>4 DEF LeafOf
  <2>2. CASE c[k] = 0 /\ w.found
    <3>1. PICK j \in Keys : j # k /\ w.foundKey = j /\ w.leaf = LeafNode(removeKeyBits(j, n), c[j])
      BY <1>3, <1>7, <2>2, SameIsPresent
    <3>2. w.leaf.value = c[j]
      BY <3>1, NodeKinds
    <3>3. g.value = 0 /\ ins /\ g.insKey = j /\ g.insValue = c[j] /\ g.isOld0 = FALSE
      BY <1>5, <1>7, <2>2, <3>1, <3>2
    <3>4. bottom = LeafOf(j, n - 1, c[j])
      BY <1>1, <1>5, <1>6, <3>3
    <3> QED
      BY <1>6, <2>2, <3>1, <3>3, <3>4 DEF LeafOf
  <2>3. CASE c[k] = 0 /\ ~w.found
    <3>1. w.leaf = Zero
      BY <1>3, <2>3, SameIsPresent
    <3>2. g.value = 0 /\ ~ins /\ g.insKey = <<>> /\ g.isOld0 = TRUE
      BY <1>5, <1>7, <2>3
    <3>3. bottom = Zero
      BY <1>1, <3>2
    <3> QED
      BY <1>8, <2>3, <3>1, <3>2, <3>3
  <2> QED
    BY <2>1, <2>2, <2>3
<1>10. Climb(w.siblings, n - 1, k, bottom)[0] = Tree(c)
  <2>1. /\ SameButFor(c, c, k) /\ n - 1 \in Int /\ -1 <= n - 1 /\ n - 1 < KeyBits
        /\ bottom = OnPath(c, k, (n - 1) + 1)
    BY <1>6, <1>9, KeyFacts DEF SameButFor
  <2> QED
    BY <1>6, <2>1, SiblingsProve
<1> QED
  BY <1>2, <1>5, <1>6, <1>9, <1>10 DEF RootFrom

LEMMA SetIsRight ==
    ASSUME SmtInv
    PROVE  SetIsProved
<1>1. SUFFICES ASSUME NEW k \in Keys, NEW v \in Values, NEW s, NEW other, s = set(root, k, v),
                      other = IF s.isOld0 THEN Zero ELSE LeafOf(s.insKey, s.level, s.insValue)
               PROVE  /\ s.oldValue = content[k]
                      /\ s.mode \in {"insertFound", "insertNotFound", "zeroToZero"} =>
                             RootFrom(s.siblings, s.level, k, other) = root
                      /\ s.mode \in {"deleteFound", "deleteNotFound", "zeroToZero"} =>
                             RootFrom(s.siblings, s.level, k, other) = s.newRoot
                      /\ s.mode \in {"update", "insertNotFound"} =>
                             RootFrom(s.siblings, s.level, k, LeafOf(k, s.level, v)) = s.newRoot
                      /\ s.mode \in {"update", "deleteNotFound"} =>
                             RootFrom(s.siblings, s.level, k, LeafOf(k, s.level, s.oldValue)) = root
  BY DEF SetIsProved
<1>2. content \in [Keys -> Values] /\ root = Tree(content)
  BY DEF SmtInv, RootIsCanonical
<1>3. PICK d : d = [content EXCEPT ![k] = v]
  OBVIOUS
<1>4. PICK w, n, ch : SetCall(w, n, ch, content, d, k, v)
  BY <1>2, <1>3, SetIs
<1>5. /\ s = setResult(w, Same(w, k), k, ch)
      /\ Setting(w, content, d, k, v, n) /\ ChangeIs(ch, content, d, k, v, n)
  BY <1>1, <1>2, <1>4 DEF SetCall
<1>6. /\ s.newRoot = Tree(d) /\ s.oldValue = content[k] /\ s.level = ch.level /\ s.mode = ch.mode
      /\ s.isOld0 = ch.ins.isOld0 /\ s.insKey = ch.ins.insKey /\ s.insValue = ch.ins.insValue
      /\ RootFrom(s.siblings, s.level, k, OnPath(content, k, ch.level + 1)) = Tree(content)
      /\ RootFrom(s.siblings, s.level, k, OnPath(d, k, ch.level + 1)) = Tree(d)
  BY <1>5, ResultIsRight
<1>7. other = OtherLeaf(ch)
  BY <1>1, <1>6 DEF OtherLeaf
<1> QED
  BY <1>2, <1>5, <1>6, <1>7 DEF ChangeIs

\* Whatever sets led here, get returns the value last set, with siblings that
\* lead from its leaf, or from what is in its place, to the root.
THEOREM GetIsAlwaysProved == Spec => []GetIsProved
  BY SmtInvInductive, GetIsRight, PTL DEF Spec

\* Whatever sets led here, the siblings that set returns lead from the bottom
\* before the change to the old root, and from the one after it to the new.
THEOREM SetIsAlwaysProved == Spec => []SetIsProved
  BY SmtInvInductive, SetIsRight, PTL DEF Spec

-----------------------------------------------------------------------------
(* No node of the new tree is lost                                         *)

LEMMA WholeIsKept ==
    ASSUME SmtInv
    PROVE  SetKeepsTreeWhole
<1>1. content \in [Keys -> Values] /\ root = Tree(content)
  BY DEF SmtInv, RootIsCanonical
<1> QED
  BY <1>1, NothingIsLost DEF SetKeepsTreeWhole

\* Whatever sets led here, set saves every node of the new tree that the old
\* one did not have and deletes none of them.
THEOREM TreeIsAlwaysWhole == Spec => []SetKeepsTreeWhole
  BY SmtInvInductive, WholeIsKept, PTL DEF Spec
============================================================================
