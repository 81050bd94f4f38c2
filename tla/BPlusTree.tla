------------------------------ MODULE BPlusTree ------------------------------
(***************************************************************************)
(* Insertion into the in-memory B+ tree (class BPlusTree, XiaoDB/BTree.cpp)*)
(* while memory and tree file hold out: every node stays in the node cache,*)
(* so that the cache is the map from slots to nodes.                       *)
(*                                                                         *)
(* The recursion of RecursiveInsert is unrolled: the way down pushes the   *)
(* slots of the inner nodes it leaves behind on `path' and the way up pops *)
(* them, one action per activation.                                        *)
(*                                                                         *)
(* The tree is not thread safe (BTree.h:3): one call runs at a time.       *)
(***************************************************************************)
EXTENDS BTreeNode, Sequences

CONSTANTS MaxElements,  (* MAX_ELEMENT_NUMBER: 5 in debug builds, 80 else  *)
          MaxKeyNum     (* mMaxKeyNum: MAX_KEY_NUM of a new file           *)

ASSUME MaxElementsAssumption == MaxElements \in Nat /\ MaxElements >= 3
ASSUME MaxKeyNumAssumption == MaxKeyNum \in Nat

VARIABLES
  nodes,    (* the cached nodes by slot (mBTreeNodeCache)                   *)
  bitmap,   (* the slots whose bit is set in mBitMapPtr                     *)
  root,     (* mRootOffset, the slot of mRootPtr                            *)
  mKeyNum,  (* the tree's own key counter                                   *)
  pc,       (* where the running Insert stands                              *)
  key, val, (* its arguments                                                *)
  cur,      (* the node the current activation of RecursiveInsert is on     *)
  path,     (* the nodes of the activations that wait for it, root first    *)
  split,    (* newKey and ptrInfo of the split the callers must still record*)
  ret       (* what the last call of Insert returned                        *)

vars == <<nodes, bitmap, root, mKeyNum, pc, key, val, cur, path, split, ret>>

tree == <<nodes, bitmap, root>>

(* Seeded fault: the header's bit is clear.                                *)
Free_Header == (Slots \cup {NoSlot}) \ (bitmap \ {NoSlot})

(***************************************************************************)
(* Slots.  GetNewNodeSlot hands out the first clear bit; Slots bounds the  *)
(* bitmap, which the code extends by BITMAP_EXPAND_SIZE when it is full.   *)
(***************************************************************************)
Free == Slots \ bitmap

GetNewNodeSlot == Least(Free)

FirstSlot == Least(Slots)

(* Open on a path with no file: bit 0 is the header's, an empty leaf gets  *)
(* the first other slot and is the root.                                   *)
Init ==
  /\ nodes = [s \in {FirstSlot} |-> EmptyLeaf]
  /\ bitmap = {NoSlot, FirstSlot}
  /\ root = FirstSlot
  /\ mKeyNum = 0
  /\ pc = "idle"
  /\ key \in Keys
  /\ val \in Values
  /\ cur = FirstSlot
  /\ path = <<>>
  /\ split = [key |-> key, left |-> FirstSlot, right |-> FirstSlot]
  /\ ret = TRUE

(* Insert up to its call of RecursiveInsert.                               *)
InsertCall(k, v) ==
  /\ pc = "idle"
  /\ mKeyNum + 1 <= MaxKeyNum
  /\ pc' = "descend"
  /\ key' = k
  /\ val' = v
  /\ cur' = root
  /\ path' = <<>>
  /\ UNCHANGED <<tree, mKeyNum, split, ret>>

(* "BPlus Tree is FULL!"                                                    *)
InsertFull ==
  /\ pc = "idle"
  /\ mKeyNum + 1 > MaxKeyNum
  /\ ret' = FALSE
  /\ UNCHANGED <<tree, mKeyNum, pc, key, val, cur, path, split>>

(* RecursiveInsert on an inner node, up to its recursive call.             *)
Descend ==
  /\ pc = "descend"
  /\ ~nodes[cur].leaf
  /\ cur' = Child(nodes[cur], key)
  /\ path' = Append(path, cur)
  /\ UNCHANGED <<tree, mKeyNum, pc, key, val, split, ret>>

(* RecursiveInsert on a leaf that is not full; its callers have nothing to *)
(* record.                                                                 *)
LeafInsert ==
  /\ pc = "descend"
  /\ nodes[cur].leaf
  /\ nodes[cur].keyNum < MaxElements
  /\ nodes' = [nodes EXCEPT ![cur] = LeafPut(@, key, val)]
  /\ pc' = "done"
  /\ UNCHANGED <<bitmap, root, mKeyNum, key, val, cur, path, split, ret>>

(* Seeded fault: the bit of the new slot stays clear.                      *)
RecordSplit_NoBit(s, halves, new) ==
  /\ nodes' = [t \in DOMAIN nodes \cup {new} |->
                 IF t = new THEN halves.right ELSE IF t = s THEN halves.left ELSE nodes[t]]
  /\ bitmap' = bitmap
  /\ split' = [key |-> halves.key, left |-> s, right |-> new]
  /\ pc' = "ascend"

(* The effects every split of node s has: the halves replace it, the right *)
(* one in a new slot, and the caller is told.                              *)
RecordSplit(s, halves, new) ==
  /\ nodes' = [t \in DOMAIN nodes \cup {new} |->
                 IF t = new THEN halves.right ELSE IF t = s THEN halves.left ELSE nodes[t]]
  /\ bitmap' = bitmap \cup {new}
  /\ split' = [key |-> halves.key, left |-> s, right |-> new]
  /\ pc' = "ascend"

(* RecursiveInsert on a full leaf.  A full leaf splits even if it holds    *)
(* the key already.                                                        *)
LeafSplit ==
  /\ pc = "descend"
  /\ nodes[cur].leaf
  /\ nodes[cur].keyNum >= MaxElements
  /\ Free # {}
  /\ RecordSplit(cur, SplitLeaf(nodes[cur], key, val, GetNewNodeSlot), GetNewNodeSlot)
  /\ UNCHANGED <<root, mKeyNum, key, val, cur, path, ret>>

ButTop(p) == SubSeq(p, 1, Len(p) - 1)
Top(p) == p[Len(p)]

(* Seeded fault: a full node takes one more key.                           *)
InnerInsert_Overfull ==
  /\ pc = "ascend"
  /\ path # <<>>
  /\ nodes[Top(path)].keyNum <= MaxElements
  /\ nodes' = [nodes EXCEPT ![Top(path)] =
                 Counted(InnerPut(@, split.key, split.left, split.right))]
  /\ pc' = "done"
  /\ cur' = Top(path)
  /\ path' = ButTop(path)
  /\ UNCHANGED <<bitmap, root, mKeyNum, key, val, split, ret>>

(* The activation that waits on the node on top of the path resumes with   *)
(* hasNewKey set, and the node has room.                                   *)
InnerInsert ==
  /\ pc = "ascend"
  /\ path # <<>>
  /\ nodes[Top(path)].keyNum < MaxElements
  /\ nodes' = [nodes EXCEPT ![Top(path)] =
                 Counted(InnerPut(@, split.key, split.left, split.right))]
  /\ pc' = "done"
  /\ cur' = Top(path)
  /\ path' = ButTop(path)
  /\ UNCHANGED <<bitmap, root, mKeyNum, key, val, split, ret>>

(* ... and the node has no room: it is split in turn.                      *)
InnerSplit ==
  /\ pc = "ascend"
  /\ path # <<>>
  /\ nodes[Top(path)].keyNum >= MaxElements
  /\ Free # {}
  /\ RecordSplit(Top(path),
                 SplitInner(nodes[Top(path)], split.key, split.left, split.right),
                 GetNewNodeSlot)
  /\ cur' = Top(path)
  /\ path' = ButTop(path)
  /\ UNCHANGED <<root, mKeyNum, key, val, ret>>

(* Insert after a RecursiveInsert that split the root.                     *)
NewRoot ==
  /\ pc = "ascend"
  /\ path = <<>>
  /\ Free # {}
  /\ nodes' = [t \in DOMAIN nodes \cup {GetNewNodeSlot} |->
                 IF t = GetNewNodeSlot THEN RootOver(split.key, split.left, split.right)
                 ELSE nodes[t]]
  /\ bitmap' = bitmap \cup {GetNewNodeSlot}
  /\ root' = GetNewNodeSlot
  /\ pc' = "done"
  /\ UNCHANGED <<mKeyNum, key, val, cur, path, split, ret>>

(* The end of Insert.  mInsertKeyDupFlag is cleared when Insert starts and *)
(* set nowhere, so the key is counted whether it was new or not.           *)
InsertReturn ==
  /\ pc = "done"
  /\ mKeyNum' = mKeyNum + 1
  /\ ret' = TRUE
  /\ pc' = "idle"
  /\ UNCHANGED <<tree, key, val, cur, path, split>>

Step == Descend \/ LeafInsert \/ LeafSplit \/ InnerInsert \/ InnerSplit \/ NewRoot \/ InsertReturn

Next == (\E k \in Keys, v \in Values : InsertCall(k, v)) \/ InsertFull \/ Step

Spec == Init /\ [][Next]_vars

(* Insert blocks on nothing: once called it runs to its end.  The caller   *)
(* is free to stop calling.                                                *)
FairSpec == Spec /\ WF_vars(Step)

-----------------------------------------------------------------------------
(***************************************************************************)
(* Shape of the state.                                                     *)
(***************************************************************************)
TypeOK ==
  /\ DOMAIN nodes \subseteq Slots
  /\ \A s \in DOMAIN nodes : IsNode(nodes[s], DOMAIN nodes)
  /\ bitmap = DOMAIN nodes \cup {NoSlot}
  /\ root \in DOMAIN nodes
  /\ mKeyNum \in 0..MaxKeyNum
  /\ pc \in {"idle", "descend", "ascend", "done"}
  /\ key \in Keys
  /\ val \in Values
  /\ cur \in DOMAIN nodes
  /\ path \in Seq(DOMAIN nodes)
  /\ split \in [key : Keys, left : DOMAIN nodes, right : DOMAIN nodes]
  /\ ret \in BOOLEAN

Leaves == {s \in DOMAIN nodes : nodes[s].leaf}
Inner  == DOMAIN nodes \ Leaves

(***************************************************************************)
(* Key counts.  A split decides by the counter mKeyNum, not by the number  *)
(* of keys.  A leaf's counter is exact; an inner node's may be one too low *)
(* (the half that receives the new key in SplitInner), so that an inner    *)
(* node holds up to MaxElements + 1 keys, and never more: the block of     *)
(* BLOCK_SIZE bytes it is written to has room for that.  Every node but a  *)
(* root keeps half of what a full node holds.                              *)
(***************************************************************************)
CountFits(n) ==
  LET c == Cardinality(KeysOf(n))
  IN  /\ IsFiniteSet(KeysOf(n))
      /\ n.keyNum <= MaxElements
      /\ IF n.leaf THEN c = n.keyNum ELSE c \in {n.keyNum, n.keyNum + 1}
      /\ ~n.leaf => c >= 1

HalfFull(n) == Cardinality(KeysOf(n)) >= (MaxElements - 1) \div 2

KeyCounts == \A s \in DOMAIN nodes : CountFits(nodes[s]) /\ (s # root => HalfFull(nodes[s]))

(***************************************************************************)
(* Key ranges.  dom gives every node the set of keys whose search passes   *)
(* through it.  While a split waits to be recorded its two halves share    *)
(* the range of the node that was split.                                   *)
(***************************************************************************)
Pending == pc = "ascend"

Joint(dom, s) == IF Pending /\ s = split.left THEN dom[s] \cup dom[split.right] ELSE dom[s]

(* Every key has its place: the root covers all keys, the children of an   *)
(* inner node partition its range by its separators, and a node holds keys *)
(* of its own range only.  A pending splitter lies between the halves.     *)
WellRanged(dom) ==
  /\ Joint(dom, root) = Keys
  /\ \A s \in DOMAIN nodes : KeysOf(nodes[s]) \subseteq dom[s]
  /\ \A s \in Inner : \A c \in Pointers(nodes[s]) :
       Joint(dom, c) = {k \in dom[s] : Child(nodes[s], k) = c}
  /\ Pending => /\ split.key \in dom[split.right]
                /\ \A k \in dom[split.left] : k < split.key
                /\ \A k \in dom[split.right] : k >= split.key

(* Heights.  hgt gives every node its distance from the leaves; nodes of   *)
(* one height have disjoint ranges.                                        *)
Leveled(hgt, dom) ==
  /\ \A s \in DOMAIN nodes : nodes[s].leaf <=> hgt[s] = 0
  /\ \A s \in Inner : \A c \in Pointers(nodes[s]) : hgt[s] = hgt[c] + 1
  /\ \A s, t \in DOMAIN nodes : s # t /\ hgt[s] = hgt[t] => dom[s] \cap dom[t] = {}
  /\ Pending => hgt[split.right] = hgt[split.left]

(* The ranges and heights a search of each key from the root finds.        *)
Route(k) ==
  LET via[s \in DOMAIN nodes] ==
        IF Pending /\ s = split.left /\ k >= split.key THEN via[split.right]
        ELSE IF nodes[s].leaf THEN {s}
        ELSE {s} \cup via[Child(nodes[s], k)]
  IN  via[root]

RangeOf ==
  LET route == [k \in Keys |-> Route(k)]
  IN  [s \in DOMAIN nodes |-> {k \in Keys : s \in route[k]}]

HeightOf ==
  LET h[s \in DOMAIN nodes] == IF nodes[s].leaf THEN 0 ELSE h[nodes[s].last] + 1
  IN  h

(***************************************************************************)
(* The tree is a balanced search tree at every step of every insertion:    *)
(* RecursiveInsert finds a key wherever splits have moved it to.           *)
(***************************************************************************)
SearchTree ==
  LET dom == RangeOf
  IN  WellRanged(dom) /\ Leveled(HeightOf, dom)

(***************************************************************************)
(* The splitter that goes up is never a key of the node it goes into: the  *)
(* branch of BSTInsertNodeAndGetSth that frees the key and carries on with *)
(* it ("No duplicate key is allowed in non leaf node") is never taken.     *)
(***************************************************************************)
SplitterIsNew == Pending /\ path # <<>> => split.key \notin KeysOf(nodes[Top(path)])

(***************************************************************************)
(* Insert implements the ordered store, the leaves being what it stores.   *)
(***************************************************************************)
Contents == UNION {{<<k, nodes[s].ent[k]>> : k \in KeysOf(nodes[s])} : s \in Leaves}

Phase == CASE pc = "idle"    -> "idle"
           [] pc = "descend" -> "called"
           [] OTHER          -> "applied"

Store == INSTANCE OrderedStore WITH store <- Contents, phase <- Phase, arg <- <<key, val>>

ImplementsStore == Store!FairSpec
==============================================================================
