------------------------------ MODULE SmtTree ------------------------------
(***************************************************************************)
(* Any sequence of Smt::set calls on one tree, compared with the map from  *)
(* keys to values that the caller believes it is updating.                 *)
(***************************************************************************)
EXTENDS Smt

VARIABLES
    content,    \* the map the caller has in mind
    root        \* the root returned by the last Smt::set

vars == <<content, root>>

Init == /\ content = [k \in Keys |-> 0]
        /\ root = Zero

Set(k, v) == /\ content' = [content EXCEPT ![k] = v]
             /\ root' = set(root, k, v).newRoot

Next == \E k \in Keys, v \in Values : Set(k, v)

Spec == Init /\ [][Next]_vars

----------------------------------------------------------------------------
(* Properties *)

\* The root depends on the content alone: whatever inserts, updates and
\* deletes led here, set has built the one canonical tree (leaves lifted as
\* far as they go, no empty node), so two provers that apply the same changes
\* in different orders agree on the state root.
RootIsCanonical == root = Tree(content)

\* get returns the last value set, and the siblings, insKey and isOld0 it
\* returns with it prove to the storage state machine that the key has that
\* value, or that another key or nothing is in its place.
GetIsProved ==
    \A k \in Keys :
        LET g == get(root, k)
            bottom == CASE g.value # 0              -> LeafOf(k, g.level, g.value)
                        [] g.value = 0 /\ ~g.isOld0 -> LeafOf(g.insKey, g.level, g.insValue)
                        [] OTHER                    -> Zero
        IN  /\ g.value = content[k]
            /\ g.insKey # k
            /\ RootFrom(g.siblings, g.level, k, bottom) = root

\* The siblings returned by set prove the transition to the storage state
\* machine: from the same siblings the bottom before the change gives the old
\* root and the bottom after it the new root.  Where a leaf is pushed down or
\* lifted, the side with one leaf is checked.
SetIsProved ==
    \A k \in Keys, v \in Values :
        LET s == set(root, k, v)
            Proves(bottom, r) == RootFrom(s.siblings, s.level, k, bottom) = r
            other == IF s.isOld0 THEN Zero ELSE LeafOf(s.insKey, s.level, s.insValue)
        IN  /\ s.oldValue = content[k]
            /\ s.mode \in {"insertFound", "insertNotFound", "zeroToZero"} => Proves(other, root)
            /\ s.mode \in {"deleteFound", "deleteNotFound", "zeroToZero"} => Proves(other, s.newRoot)
            /\ s.mode \in {"update", "insertNotFound"} => Proves(LeafOf(k, s.level, v), s.newRoot)
            /\ s.mode \in {"update", "deleteNotFound"} =>
                   Proves(LeafOf(k, s.level, s.oldValue), root)

\* A set never loses a node: whoever could read the whole old tree can read
\* the whole new tree, from the nodes set saved and without those it deleted.
\* Flush relies on it when it applies writes and deletes in turn.
SetKeepsTreeWhole ==
    \A k \in Keys, v \in Values :
        LET s == set(root, k, v)
        IN  NodesOf(s.newRoot) \subseteq (NodesOf(root) \cup s.writes) \ s.deletes

=============================================================================
