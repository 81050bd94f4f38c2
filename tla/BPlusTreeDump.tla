---------------------------- MODULE BPlusTreeDump ----------------------------
(***************************************************************************)
(* The two ways the leaves of the B+ tree are read: DumpTree walks the     *)
(* tree from the root, and the mPointer fields link the leaves into a      *)
(* chain.                                                                  *)
(***************************************************************************)
EXTENDS BPlusTree, SequencesExt

(* The keys of S in key order, as DFSKeysAndValues lists them.             *)
InKeyOrder(S) ==
  [i \in 1 .. Cardinality(S) |-> CHOOSE k \in S : Cardinality(Below(S, k)) = i - 1]

(* What DumpTree lists: the pairs of the leaves, the children of an inner  *)
(* node in the order of its keys, the one behind mPointer last.            *)
DumpTree ==
  LET dump[s \in DOMAIN nodes] ==
        LET n == nodes[s]
            ks == InKeyOrder(KeysOf(n))
        IN  IF n.leaf THEN [i \in DOMAIN ks |-> <<ks[i], n.ent[ks[i]]>>]
            ELSE FlattenSeq([i \in DOMAIN ks |-> dump[n.ent[ks[i]]]]) \o dump[n.last]
  IN  dump[root]

Ascending(pairs) == \A i \in 1 .. Len(pairs) - 1 : pairs[i][1] < pairs[i + 1][1]

(* Between two calls the dump lists every stored pair exactly once, in key *)
(* order: what BPTreeInsertTest compares with the sorted input.            *)
DumpInOrder == pc = "idle" => Ascending(DumpTree) /\ ToSet(DumpTree) = Contents

(* The leaf chain, from the leaf that holds the least keys.                *)
LeafChain ==
  LET leftmost[s \in DOMAIN nodes] ==
        IF nodes[s].leaf THEN s ELSE leftmost[nodes[s].ent[Least(KeysOf(nodes[s]))]]
      from[s \in Leaves] ==
        <<s>> \o (IF nodes[s].last = NoSlot THEN <<>> ELSE from[nodes[s].last])
  IN  from[leftmost[root]]

(* At every step, in the middle of a split too, the chain passes through   *)
(* every leaf once and ends, and its keys ascend across leaf boundaries.   *)
ChainComplete ==
  /\ Len(LeafChain) = Cardinality(Leaves)
  /\ ToSet(LeafChain) = Leaves
  /\ \A i \in 1 .. Len(LeafChain) - 1 :
       \A a \in KeysOf(nodes[LeafChain[i]]), b \in KeysOf(nodes[LeafChain[i + 1]]) : a < b

==============================================================================
