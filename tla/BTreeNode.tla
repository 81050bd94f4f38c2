------------------------------ MODULE BTreeNode ------------------------------
(***************************************************************************)
(* One node of the B+ tree (struct BTreeNode, XiaoDB/BTreeCommon.h) and    *)
(* the operations XiaoDB/BTree.cpp performs on a single node.              *)
(*                                                                         *)
(* A node keeps its keys in a binary search tree whose nodes carry one     *)
(* pointer each; the search tree is abstracted to the ordered map it       *)
(* stores, so that a node is a record with                                 *)
(*   leaf    mLeafFlag;                                                    *)
(*   ent     the map from the keys of the BST to their mPointer: the value *)
(*           stored under the key in a leaf, the child holding the smaller *)
(*           keys in an inner node;                                        *)
(*   last    mPointer: the next leaf of the chain in a leaf, the child     *)
(*           holding the largest keys in an inner node;                    *)
(*   keyNum  mKeyNum, the key counter kept beside the BST and the number   *)
(*           that decides whether the node is full.                        *)
(* Keys are integers: what BitComparer orders is the byte string.          *)
(***************************************************************************)
EXTENDS Integers, FiniteSets

CONSTANTS Keys,     (* the keys a caller may insert                        *)
          Values,   (* the value pointers a caller may store               *)
          Slots     (* block numbers of the tree file; 0 is the header     *)

ASSUME KeysAssumption == Keys \subseteq Int
ASSUME ValuesAssumption == Values \subseteq Nat
ASSUME SlotsAssumption == Slots \subseteq Nat \ {0} /\ IsFiniteSet(Slots) /\ Slots # {}

NoSlot == 0         (* the null PointerType                                *)

KeysOf(n) == DOMAIN n.ent

(* A leaf stores values and names its successor; an inner node points into *)
(* `slots' throughout.                                                     *)
IsNode(n, slots) ==
  /\ KeysOf(n) \subseteq Keys
  /\ n \in [leaf   : BOOLEAN,
            ent    : [KeysOf(n) -> IF n.leaf THEN Values ELSE slots],
            last   : IF n.leaf THEN slots \cup {NoSlot} ELSE slots,
            keyNum : Nat]

(* The node `new BTreeNode' yields, as Open turns it into the first root.  *)
EmptyLeaf == [leaf |-> TRUE, ent |-> [k \in {} |-> NoSlot], last |-> NoSlot, keyNum |-> 0]

Put(f, k, p) == [q \in DOMAIN f \cup {k} |-> IF q = k THEN p ELSE f[q]]

Keep(f, S) == [q \in S |-> f[q]]

Least(S) == CHOOSE x \in S : \A y \in S : x <= y

(* The keys of S below k: its size is the position of k in key order.      *)
Below(S, k) == {q \in S : q < k}

(* Seeded fault: the vector is cut at its first key.                       *)
Splitter_First(S) == Least(S)

(* keyVec[keyVec.size()/2] of SplitBTreeNode: the key that has half of the *)
(* keys (rounded down) in front of it in the vector GetBSTKeys fills.      *)
Splitter(S) == CHOOSE s \in S : Cardinality(Below(S, s)) = Cardinality(S) \div 2

(***************************************************************************)
(* The child RecursiveInsert descends into: the pointer of the least key   *)
(* greater than k (leastMaxKeyPtr), or mPointer if no key is greater.      *)
(***************************************************************************)
Above(n, k) == {q \in KeysOf(n) : q > k}

Child(n, k) == IF Above(n, k) = {} THEN n.last ELSE n.ent[Least(Above(n, k))]

(* The children of an inner node.                                          *)
Pointers(n) == {n.ent[k] : k \in KeysOf(n)} \cup {n.last}

(* Seeded fault: a key that is present keeps its old pointer.              *)
LeafPut_KeepOld(n, k, v) ==
  IF k \in KeysOf(n) THEN n ELSE [n EXCEPT !.ent = Put(@, k, v), !.keyNum = @ + 1]

(***************************************************************************)
(* BSTInsertNode into a leaf, with the counter the callers keep: an        *)
(* existing key gets the new pointer and is not counted again.             *)
(***************************************************************************)
LeafPut(n, k, v) ==
  [n EXCEPT !.ent = Put(@, k, v),
            !.keyNum = IF k \in KeysOf(n) THEN @ ELSE @ + 1]

(* One half of node n being split: the keys of D, counted, and mPointer p. *)
Half(n, D, p) == [n EXCEPT !.ent = Keep(@, D), !.keyNum = Cardinality(D), !.last = p]

(* Seeded fault: a key equal to the splitter goes to the left half.        *)
SplitLeaf_TieLeft(n, k, v, new) ==
  LET s  == Splitter(KeysOf(n))
      L  == Below(KeysOf(n), s)
      R  == KeysOf(n) \ L
      l0 == Half(n, L, new)
      r0 == Half(n, R, n.last)
  IN  [key   |-> s,
       left  |-> IF s < k THEN l0 ELSE LeafPut(l0, k, v),
       right |-> IF s < k THEN LeafPut(r0, k, v) ELSE r0]

(* Seeded fault: the right half is not linked into the chain.              *)
SplitLeaf_Unlinked(n, k, v, new) ==
  LET s  == Splitter(KeysOf(n))
      L  == Below(KeysOf(n), s)
      R  == KeysOf(n) \ L
      l0 == Half(n, L, n.last)
      r0 == Half(n, R, n.last)
  IN  [key   |-> s,
       left  |-> IF s <= k THEN l0 ELSE LeafPut(l0, k, v),
       right |-> IF s <= k THEN LeafPut(r0, k, v) ELSE r0]

(***************************************************************************)
(* SplitBTreeNode of leaf n while k is being inserted; `new' is the slot   *)
(* of the right half.  The splitter stays in the right half, the new key   *)
(* goes right when it is not below the splitter, and the right half is     *)
(* linked into the leaf chain.                                             *)
(***************************************************************************)
SplitLeaf(n, k, v, new) ==
  LET s  == Splitter(KeysOf(n))
      L  == Below(KeysOf(n), s)
      R  == KeysOf(n) \ L
      l0 == Half(n, L, new)
      r0 == Half(n, R, n.last)
  IN  [key   |-> s,
       left  |-> IF s <= k THEN l0 ELSE LeafPut(l0, k, v),
       right |-> IF s <= k THEN LeafPut(r0, k, v) ELSE r0]

(* Seeded fault: the successor of the new key keeps its pointer.           *)
InnerPut_StaleSuccessor(n, k, l, r) ==
  [n EXCEPT !.ent = Put(@, k, l), !.last = IF Above(n, k) = {} THEN r ELSE @]

(***************************************************************************)
(* BTreeNodeInsertSplittedKey: a child of n was split at k into l and r.   *)
(* k takes over l, and the pointer that led to the child (the one of k's   *)
(* successor, or mPointer) becomes r.  The counter is left alone: the      *)
(* caller is to update it.                                                 *)
(***************************************************************************)
InnerPut(n, k, l, r) ==
  LET up == Above(n, k)
  IN  [n EXCEPT !.ent  = IF up = {} THEN Put(@, k, l) ELSE Put(Put(@, Least(up), r), k, l),
                !.last = IF up = {} THEN r ELSE @]

(***************************************************************************)
(* SplitBTreeNode of inner node n while splitter k of its children l and r *)
(* is being inserted.  The splitter of n moves up, its pointer becomes the *)
(* last pointer of the left half.  The half that receives k does not count *)
(* it: the increment of insertIntoPtr->mKeyNum is commented out.           *)
(***************************************************************************)
SplitInner(n, k, l, r) ==
  LET s  == Splitter(KeysOf(n))
      L  == Below(KeysOf(n), s)
      R  == KeysOf(n) \ (L \cup {s})
      l0 == Half(n, L, n.ent[s])
      r0 == Half(n, R, n.last)
  IN  [key   |-> s,
       left  |-> IF s <= k THEN l0 ELSE InnerPut(l0, k, l, r),
       right |-> IF s <= k THEN InnerPut(r0, k, l, r) ELSE r0]

(* mKeyNum++                                                               *)
Counted(n) == [n EXCEPT !.keyNum = @ + 1]

(* The root Insert creates over the two halves of the old one.             *)
RootOver(k, l, r) ==
  [leaf |-> FALSE, ent |-> Put([q \in {} |-> NoSlot], k, l), last |-> r, keyNum |-> 1]
==============================================================================
