----------------------------- MODULE OrderedNode -----------------------------
(***************************************************************************)
(* What the binary search tree inside a node of the B+ tree is for: the    *)
(* node of module BTreeNode, an ordered map with a key counter, on which   *)
(* an insertion performs one operation at a time, and which tells an       *)
(* insertion the child to go on with.                                      *)
(***************************************************************************)
EXTENDS BTreeNode

CONSTANT MaxElements

VARIABLES node,     (* the node                                            *)
          asked,    (* the key the last descent through it was for         *)
          next      (* the child that descent was told, or NoSlot          *)

vars == <<node, asked, next>>

Init ==
  /\ \/ node = EmptyLeaf
     \/ \E k \in Keys, l, r \in Slots : node = RootOver(k, l, r)
  /\ asked \in Keys
  /\ next = NoSlot

Ask == /\ ~node.leaf
       /\ asked' \in Keys
       /\ next' = NoSlot
       /\ UNCHANGED node

Answer == /\ next = NoSlot
          /\ next' = Child(node, asked)
          /\ UNCHANGED <<node, asked>>

Becomes(ns) == /\ node' \in ns
               /\ next' = NoSlot
               /\ UNCHANGED asked

PutValue(k, v) == /\ node.leaf
                  /\ node.keyNum < MaxElements
                  /\ Becomes({LeafPut(node, k, v)})

(* The caller goes on with either half.                                    *)
SplitValues(k, v, new) ==
  /\ node.leaf
  /\ node.keyNum >= MaxElements
  /\ LET s == SplitLeaf(node, k, v, new) IN Becomes({s.left, s.right})

(* The child next was split at k, its right half is the block new.         *)
PutChild(k, new) ==
  /\ next # NoSlot
  /\ node.keyNum < MaxElements
  /\ Child(node, k) = next
  /\ Becomes({Counted(InnerPut(node, k, next, new))})

SplitChildren(k, new) ==
  /\ next # NoSlot
  /\ node.keyNum >= MaxElements
  /\ Child(node, k) = next
  /\ LET s == SplitInner(node, k, next, new) IN Becomes({s.left, s.right})

Next ==
  \/ Ask
  \/ Answer
  \/ \E k \in Keys :
       \/ \E v \in Values : PutValue(k, v)
       \/ \E v \in Values, new \in Slots : SplitValues(k, v, new)
       \/ \E new \in Slots : PutChild(k, new) \/ SplitChildren(k, new)

Spec == Init /\ [][Next]_vars
==============================================================================
