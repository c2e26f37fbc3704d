-------------------------------- MODULE Smt --------------------------------
(***************************************************************************)
(* The sparse Merkle tree of src/hashdb/smt.cpp: Smt::set and Smt::get as  *)
(* operators on trees.  A key is a sequence of bits, the order in which    *)
(* splitKey hands them to the walk.  A node is identified with its         *)
(* content, so that two nodes are equal exactly when their hashes are      *)
(* (Poseidon is taken to be free of collisions); a root is therefore the   *)
(* whole tree.  The value zero means that the key is absent.               *)
(*                                                                         *)
(* Left out: the proofHashCounter statistics and the formatting of hashes. *)
(***************************************************************************)
EXTENDS Integers, Sequences, FiniteSets

CONSTANTS
    KeyBits,    \* number of bits of a key (256 in the code)
    Keys,       \* the keys in use
    Values      \* the values in use, zero included

Bits == {0, 1}

\* What is left of a key once the walk has consumed its first n bits
removeKeyBits(key, n) == SubSeq(key, n + 1, KeyBits)

\* mutant: the remaining bits are put in front of the consumed ones
mutJoinKeySwapped(bits, rkey) == rkey \o bits

joinKey(bits, rkey) == bits \o rkey

CommonPrefix(j, k) ==
    CHOOSE n \in 0..KeyBits : /\ SubSeq(j, 1, n) = SubSeq(k, 1, n)
                              /\ n < KeyBits => j[n + 1] # k[n + 1]

\* No two keys agree on every bit that a leaf can still hold: keys are 256-bit
\* hashes and the tree consumes a few dozen bits, so equal remainders would be
\* a near collision of the hash.  Without it two keys could share a leaf node.
ASSUME KeysAssumption ==
    /\ KeyBits \in Nat \ {0}
    /\ Keys \subseteq [1..KeyBits -> Bits]
    /\ 0 \in Values /\ Values \subseteq Nat
    /\ \A h, i, j, k \in Keys :
          (h # i /\ j # k) => \A n \in 0..CommonPrefix(h, i) + 1 :
                                  removeKeyBits(j, n) # removeKeyBits(k, n)

----------------------------------------------------------------------------
(* Nodes *)

Zero == [type |-> "zero"]
ValueNode(v) == [type |-> "value", value |-> v]
LeafNode(rkey, v) == [type |-> "leaf", rkey |-> rkey, value |-> v]
IntermediateNode(left, right) ==
    [type |-> "intermediate", child |-> <<left, right>>]

IsLeaf(node) == node.type = "leaf"
IsIntermediate(node) == node.type = "intermediate"

Child(node, bit) == node.child[bit + 1]
Put(node, bit, c) == [node EXCEPT !.child[bit + 1] = c]

\* mutant: a single right child goes unnoticed
mutUniqueLeftOnly(node) ==
    IF Child(node, 0) # Zero /\ Child(node, 1) = Zero THEN 0 ELSE -1

\* The only non-zero child of a node, -1 if there is not exactly one
getUniqueSibling(node) ==
    LET full == {b \in Bits : Child(node, b) # Zero}
    IN  IF \E b \in Bits : full = {b} THEN CHOOSE b \in Bits : full = {b} ELSE -1

----------------------------------------------------------------------------
(* Navigating the tree from the top *)

\* NodeAt(root, key)[l] is the node met after l bits of the key
NodeAt(root, key) ==
    LET at[l \in 0..KeyBits] ==
            IF l = 0 THEN root
            ELSE LET parent == at[l - 1]
                 IN  IF IsIntermediate(parent)
                     THEN Child(parent, key[l]) ELSE Zero
    IN  at

\* The loop ends at the first node that is not intermediate, then takes one
\* step back: level is the last intermediate node, -1 if there is none.
Walk(root, key) ==
    LET at   == NodeAt(root, key)
        stop == CHOOSE l \in 0..KeyBits :
                    /\ ~IsIntermediate(at[l])
                    /\ \A i \in 0..l - 1 : IsIntermediate(at[i])
        leaf == at[stop]
    IN  [level    |-> stop - 1,
         siblings |-> [l \in 0..stop - 1 |-> at[l]],
         found    |-> IsLeaf(leaf),
         leaf     |-> leaf,
         foundKey |-> IF IsLeaf(leaf)
                      THEN joinKey(SubSeq(key, 1, stop), leaf.rkey)
                      ELSE <<>>]

\* Going up the tree as far as the level first: ClimbTo(...)[l] is the rebuilt
\* node of level l
ClimbTo(first, siblings, level, key, bottom) ==
    LET up[l \in first..level + 1] ==
            IF l = level + 1 THEN bottom
            ELSE Put(siblings[l], key[l + 1], up[l + 1])
    IN  up

\* Going up to the root
Climb(siblings, level, key, bottom) == ClimbTo(0, siblings, level, key, bottom)

\* The leaf found is the leaf of the key
Same(w, key) == w.found /\ w.foundKey = key

----------------------------------------------------------------------------
(* Smt::get *)

get(root, key) ==
    LET w    == Walk(root, key)
        same == Same(w, key)
        ins  == w.found /\ ~same
    IN  [value    |-> IF same THEN w.leaf.value ELSE 0,
         siblings |-> w.siblings,
         level    |-> w.level,
         isOld0   |-> ~ins,
         insKey   |-> IF ins THEN w.foundKey ELSE <<>>,
         insValue |-> IF ins THEN w.leaf.value ELSE 0]

----------------------------------------------------------------------------
(* Smt::set.  Each mode decides the level where the climb starts, the node *)
(* put there (bottom), what it saves and deletes on its own, and the data  *)
(* of the other key that takes part.                                       *)

NoIns == [isOld0 |-> TRUE, insKey |-> <<>>, insValue |-> 0]
Ins(key, v) == [isOld0 |-> FALSE, insKey |-> key, insValue |-> v]

Change(mode, level, bottom, writes, deletes, ins) ==
    [mode |-> mode, level |-> level, bottom |-> bottom,
     writes |-> writes, deletes |-> deletes, ins |-> ins]

\* The leaf of the key exists: replace it
setUpdate(w, value) ==
    LET new == LeafNode(w.leaf.rkey, value)
    IN  Change("update", w.level, new, {ValueNode(value), new},
               IF w.level >= 0 /\ w.leaf.value # value THEN {w.leaf} ELSE {},
               NoIns)

\* The walk ends at the leaf of another key: push both leaves down to the
\* first bit where the keys differ, with a chain of one-child nodes above
setInsertFound(w, key, value) ==
    LET level2  == CHOOSE l \in w.level + 1..KeyBits - 1 :
                       /\ key[l + 1] # w.foundKey[l + 1]
                       /\ \A i \in w.level + 1..l - 1 :
                              key[i + 1] = w.foundKey[i + 1]
        oldLeaf == LeafNode(removeKeyBits(w.foundKey, level2 + 1), w.leaf.value)
        newLeaf == LeafNode(removeKeyBits(key, level2 + 1), value)
        fork    == Put(Put(IntermediateNode(Zero, Zero), key[level2 + 1], newLeaf),
                       w.foundKey[level2 + 1], oldLeaf)
        empty   == [l \in w.level + 1..level2 - 1 |-> IntermediateNode(Zero, Zero)]
        chain   == ClimbTo(w.level + 1, empty, level2 - 1, key, fork)
    IN  Change("insertFound", w.level, chain[w.level + 1],
               {oldLeaf, newLeaf, ValueNode(value)}
                   \cup {chain[l] : l \in w.level + 1..level2},
               {}, Ins(w.foundKey, w.leaf.value))

\* The walk ends at an empty slot
setInsertNotFound(w, key, value) ==
    LET new == LeafNode(removeKeyBits(key, w.level + 1), value)
    IN  Change("insertNotFound", w.level, new, {ValueNode(value), new}, {}, NoIns)

\* The value becomes zero: empty the slot and, if a leaf stays alone beside
\* it, lift that leaf to the last node that keeps two children
\*
\* Beside a node that is no leaf, deleteNotFound also reads that node, for its
\* two children (siblingLeftChild, siblingRightChild), and returns the error
\* if the read fails.  Left out: the children go to the proof only, and a read
\* that fails ends the call like the other errors of the database, for which
\* BatchExecution cancels the batch.  The node is one of the tree, so that it
\* can be read (WorkingTreeIsReadable).
setDelete(w, key) ==
    LET bit     == key[w.level + 1]
        emptied == Put(w.siblings[w.level], bit, Zero)
        uKey    == getUniqueSibling(emptied)
        other   == Child(emptied, uKey)
        top     == CHOOSE l \in -1..w.level - 1 :
                       /\ l >= 0 => getUniqueSibling(w.siblings[l]) < 0
                       /\ \A i \in l + 1..w.level - 1 :
                              getUniqueSibling(w.siblings[i]) >= 0
        insKey  == joinKey(Append(SubSeq(key, 1, w.level), uKey), other.rkey)
        lifted  == LeafNode(removeKeyBits(insKey, top + 1), other.value)
    IN  CASE w.level < 0 ->
                 Change("deleteNotFound", -1, Zero, {}, {}, NoIns)
          [] w.level >= 0 /\ uKey >= 0 /\ IsLeaf(other) ->
                 Change("deleteFound", top, lifted, {lifted}, {w.leaf},
                        Ins(insKey, other.value))
          [] OTHER ->
                 Change("deleteNotFound", w.level, Zero, {}, {w.leaf}, NoIns)

\* mutant: isOld0 is not cleared when another key was found
mutZeroToZeroNoIns(w) ==
    Change("zeroToZero", w.level, w.leaf, {}, {}, NoIns)

\* A key that is absent stays absent; the climb saves the same nodes again
setZeroToZero(w) ==
    Change("zeroToZero", w.level, w.leaf, {}, {},
           IF w.found THEN Ins(w.foundKey, w.leaf.value) ELSE NoIns)

\* mutant: replaced nodes are deleted without asking whether they changed
mutDeleteUnchanged(w, level, up) == {w.siblings[l] : l \in 1..level}

\* "Go up the tree creating all intermediate nodes up to the new root": every
\* level is saved, and the node it replaces is deleted, except the old root
climbDeletes(w, level, up) ==
    {w.siblings[l] : l \in {i \in 1..level : w.siblings[i] # up[i]}}

\* Which mode applies
setChange(w, same, key, value) ==
    CASE value # 0 /\ same              -> setUpdate(w, value)
      [] value # 0 /\ w.found /\ ~same  -> setInsertFound(w, key, value)
      [] value # 0 /\ ~w.found          -> setInsertNotFound(w, key, value)
      [] value = 0 /\ same              -> setDelete(w, key)
      [] value = 0 /\ ~same             -> setZeroToZero(w)

\* Rebuild the path above the change: what set returns, saves and deletes
setResult(w, same, key, c) ==
    LET up == Climb(w.siblings, c.level, key, c.bottom)
    IN  [newRoot  |-> up[0],
         mode     |-> c.mode,
         writes   |-> c.writes \cup {up[l] : l \in 0..c.level},
         deletes  |-> c.deletes \cup climbDeletes(w, c.level, up),
         level    |-> c.level,
         siblings |-> [l \in 0..c.level |-> up[l]],
         oldValue |-> IF same THEN w.leaf.value ELSE 0,
         isOld0   |-> c.ins.isOld0,
         insKey   |-> c.ins.insKey,
         insValue |-> c.ins.insValue]

set(root, key, value) ==
    LET w    == Walk(root, key)
        same == Same(w, key)
    IN  setResult(w, same, key, setChange(w, same, key, value))

----------------------------------------------------------------------------
(* What a tree is made of, and what it should look like *)

\* The nodes a reader of the tree can ask the database for
NodesOf(root) ==
    LET met == UNION {LET at == NodeAt(root, k) IN {at[l] : l \in 0..KeyBits} : k \in Keys}
    IN  {n \in met : n # Zero} \cup {ValueNode(n.value) : n \in {m \in met : IsLeaf(m)}}

\* Reference: the tree of a content, defined from sets of keys and not from any
\* sequence of operations.  Subtree(content)[l][ks] is the tree of the keys ks,
\* which agree on their first l bits.
Half(ks, l, bit) == {k \in ks : k[l + 1] = bit}

Subtree(content) ==
    LET sub[l \in 0..KeyBits] ==
            [ks \in SUBSET Keys |->
                IF ks = {} THEN Zero
                ELSE IF l = KeyBits \/ \A j, k \in ks : j = k
                THEN LET k == CHOOSE k \in ks : TRUE
                     IN  LeafNode(removeKeyBits(k, l), content[k])
                ELSE IntermediateNode(sub[l + 1][Half(ks, l, 0)],
                                      sub[l + 1][Half(ks, l, 1)])]
    IN  sub

Tree(content) == Subtree(content)[0][{k \in Keys : content[k] # 0}]

\* The root a verifier computes from a proof: the node at the bottom, and the
\* sibling hash of every level above it
RootFrom(siblings, level, key, bottom) == Climb(siblings, level, key, bottom)[0]

LeafOf(key, level, v) == LeafNode(removeKeyBits(key, level + 1), v)
=============================================================================
