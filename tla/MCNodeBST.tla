------------------------------ MODULE MCNodeBST ------------------------------
(* Bounded instances of NodeBST.                                           *)
EXTENDS NodeBST

(* Strings with a common prefix, and bytes on both sides of 127.           *)
MCKeys == {<<1>>, <<1, 0>>, <<2>>, <<4>>, <<255>>}

Rank == [k \in Keys |-> Cardinality({q \in Keys : Precedes[q][k]})]
Ranked == [i \in {Rank[k] : k \in Keys} |-> CHOOSE k \in Keys : Rank[k] = i]

-----------------------------------------------------------------------------
(* The state has its type.                                                 *)
TypeOK ==
  /\ DOMAIN bst \subseteq Keys
  /\ root \in DOMAIN bst \cup {Null}
  /\ bst \in [DOMAIN bst ->
                [pointer : IF leaf THEN Values ELSE Slots,
                 left : DOMAIN bst \cup {Null}, right : DOMAIN bst \cup {Null}]]
  /\ last \in IF leaf THEN Slots \cup {NoSlot} ELSE Slots
  /\ keyNum \in 0..MaxElements
  /\ ptr \in DOMAIN bst \cup {Null} /\ least \in DOMAIN bst \cup {Null}
  /\ next \in Slots \cup {NoSlot}

(* GetBSTKeys puts every key of the node into the vector, once and in      *)
(* ascending order: what splits, writes and dumps rely on.                 *)
KeysAscending ==
  LET vec == GetBSTKeys(Tree)
  IN  /\ ToSet(vec) = DOMAIN bst
      /\ \A i \in 1..Len(vec) - 1 : Precedes[vec[i]][vec[i + 1]]

(* SearchBST finds the keys of the node and no others.                     *)
FindsStored ==
  \A k \in Keys : SearchBST(Tree, k) = IF k \in DOMAIN bst THEN k ELSE Null

(* The loop of RecursiveInsert ends.                                       *)
DescentEnds == looping ~> ~looping

(* The search tree of a node is the ordered map of module BTreeNode, with  *)
(* the position of a key in the order of byte strings for the key.         *)
Node == INSTANCE OrderedNode WITH
  Keys <- {Rank[k] : k \in Keys},
  asked <- Rank[want],
  node <- [leaf |-> leaf,
           ent |-> [i \in {Rank[k] : k \in DOMAIN bst} |-> bst[Ranked[i]].pointer],
           last |-> last, keyNum |-> keyNum]
ImplementsNode == Node!Spec
=============================================================================
