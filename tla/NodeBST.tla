------------------------------- MODULE NodeBST -------------------------------
(***************************************************************************)
(* The binary search tree in which a node of the B+ tree keeps its keys    *)
(* (struct BSTNode, XiaoDB/BTreeCommon.h), and the comparison of keys it   *)
(* rests on (XiaoDB/BTree.cpp).                                            *)
(*                                                                         *)
(* A key is a string of bytes.  The tree of one node holds at most one     *)
(* BSTNode per key, so that the key stands for the BSTNode's address.  The *)
(* descent of RecursiveInsert is a loop and is modelled as one; the other  *)
(* operations take a step each.                                            *)
(***************************************************************************)
EXTENDS Integers, SequencesExt

CONSTANTS Keys,            (* byte strings, as sequences of 0..255         *)
          Values,          (* the value pointers a caller may store        *)
          Slots,           (* block numbers, without 0                     *)
          MaxElements,     (* MAX_ELEMENT_NUMBER                           *)
          ByteDifference   (* memcmp returns the difference of the bytes   *)
                           (* and not just its sign: both are in use       *)

(* Insert refuses a key that is empty or longer than MAX_KEY_LEN.          *)
ASSUME KeysAssumption == Keys \subseteq Seq(0..255) \ {<<>>} /\ IsFiniteSet(Keys)
ASSUME SlotsAssumption == Slots \subseteq Nat \ {0}
ASSUME MaxElementsAssumption == MaxElements \in Nat /\ MaxElements >= 3
ASSUME DifferenceAssumption == ByteDifference \in BOOLEAN

NoSlot == 0
Null == <<>>               (* no key is empty: Insert refuses it           *)

VARIABLES leaf,     (* mLeafFlag                                           *)
          root,     (* mRoot                                               *)
          bst,      (* the BSTNodes of the tree, by key                    *)
          last,     (* mPointer of the node                                *)
          keyNum,   (* mKeyNum                                             *)
          want,     (* the key RecursiveInsert descends for                *)
          looping,  (* its loop has not ended                              *)
          ptr,      (* where it stands, Null below a leaf of the tree      *)
          least,    (* leastMaxKeyPtr                                      *)
          next      (* nextNodeOffset, NoSlot while it is not known        *)

tree == <<leaf, root, bst, last, keyNum>>
loop == <<want, looping, ptr, least, next>>
vars == <<tree, loop>>

-----------------------------------------------------------------------------
(* What memcmp may answer for the common length of two strings.            *)
MemCmp(a, b) ==
  LET differ == {i \in 1..Min({Len(a), Len(b)}) : a[i] # b[i]}
      d == a[Min(differ)] - b[Min(differ)]
  IN  IF differ = {} THEN 0
      ELSE IF ByteDifference THEN d
      ELSE IF d > 0 THEN 1 ELSE -1

(* Conversion to the return type int8.                                     *)
Int8(x) == ((x + 128) % 256) - 128

BitComparer(a, b) ==
  IF MemCmp(a, b) # 0 THEN Int8(MemCmp(a, b))
  ELSE IF Len(a) = Len(b) THEN 0
  ELSE IF Len(a) > Len(b) THEN 1 ELSE -1

(* The order of byte strings that BitComparer is to compute.               *)
Less(a, b) ==
  \/ IsStrictPrefix(a, b)
  \/ \E i \in 1..Min({Len(a), Len(b)}) :
       a[i] < b[i] /\ SubSeq(a, 1, i - 1) = SubSeq(b, 1, i - 1)

(* Both, tabulated for the keys of the instance.                           *)
Cmp == [a \in Keys |-> [b \in Keys |-> BitComparer(a, b)]]
Precedes == [a \in Keys |-> [b \in Keys |-> Less(a, b)]]

-----------------------------------------------------------------------------
(* A tree as a record: root r and nodes n.                                 *)
Empty == [r |-> Null, n |-> [k \in {} |-> {}]]
Fresh(p) == [pointer |-> p, left |-> Null, right |-> Null]
With(n, k, e) == [q \in DOMAIN n \cup {k} |-> IF q = k THEN e ELSE n[q]]

(* Where a search for k goes on from `at'.                                 *)
Toward(n, at, k) == IF Cmp[at][k] = 1 THEN n[at].left ELSE n[at].right

(* The BSTNode below which k belongs, k itself if it is there.             *)
Place(n, from, k) ==
  LET place[at \in DOMAIN n] ==
        IF Cmp[at][k] = 0 \/ Toward(n, at, k) = Null THEN at ELSE place[Toward(n, at, k)]
  IN  place[from]

(* Seeded fault: the new node is hung up on the other side.                *)
BSTInsertNode_Swapped(t, k, p) ==
  IF t.r = Null THEN [r |-> k, n |-> With(t.n, k, Fresh(p))]
  ELSE LET at == Place(t.n, t.r, k)
           c  == Cmp[at][k]
       IN  [t EXCEPT !.n = CASE c = 0 -> [t.n EXCEPT ![at].pointer = p]
                             [] c = 1 -> [With(t.n, k, Fresh(p)) EXCEPT ![at].right = k]
                             [] OTHER -> [With(t.n, k, Fresh(p)) EXCEPT ![at].left = k]]

(* BSTInsertNode: a key that is present gets the new pointer.              *)
BSTInsertNode(t, k, p) ==
  IF t.r = Null THEN [r |-> k, n |-> With(t.n, k, Fresh(p))]
  ELSE LET at == Place(t.n, t.r, k)
           c  == Cmp[at][k]
       IN  [t EXCEPT !.n = CASE c = 0 -> [t.n EXCEPT ![at].pointer = p]
                             [] c = 1 -> [With(t.n, k, Fresh(p)) EXCEPT ![at].left = k]
                             [] OTHER -> [With(t.n, k, Fresh(p)) EXCEPT ![at].right = k]]

(* SearchBST: the key found, or Null.                                      *)
SearchBST(t, k) ==
  IF t.r = Null THEN Null
  ELSE LET at == Place(t.n, t.r, k) IN IF Cmp[at][k] = 0 THEN at ELSE Null

(***************************************************************************)
(* GetBSTKeys, a traversal with a stack of its own: the pushed left spine, *)
(* cut where a left child has been visited, then the node on top, then its *)
(* right child is pushed.                                                  *)
(***************************************************************************)
PushLeft(n, stack, counter) ==
  LET spine[at \in DOMAIN n] ==
        IF n[at].left \in {Null} \cup counter THEN <<at>> ELSE Append(spine[n[at].left], at)
  IN  spine[Head(stack)] \o Tail(stack)

(* One round of its loop.                                                  *)
Visit(n, w) ==
  LET s     == PushLeft(n, w.stack, w.counter)
      right == n[Head(s)].right
  IN  [stack   |-> IF right = Null THEN Tail(s) ELSE <<right>> \o Tail(s),
       counter |-> w.counter \cup {Head(s)},
       vec     |-> Append(w.vec, Head(s))]

(* It goes on while the stack is not empty, a round for every BSTNode; one *)
(* more would show.                                                        *)
Traverse(t) ==
  LET limit == Cardinality(DOMAIN t.n) + 1
      round[i \in 0 .. limit] ==
        IF i = 0 THEN [stack |-> <<t.r>>, counter |-> {t.r}, vec |-> <<>>]
        ELSE LET w == round[i - 1] IN IF w.stack = <<>> THEN w ELSE Visit(t.n, w)
  IN  round[limit].vec

(* Seeded fault: a visited left child is not remembered when its right     *)
(* sibling is met first.                                                   *)
GetBSTKeys_PreOrder(t) ==
  IF t.r = Null THEN <<>> ELSE <<t.r>> \o SelectSeq(Traverse(t), LAMBDA k : k # t.r)

GetBSTKeys(t) == IF t.r = Null THEN <<>> ELSE Traverse(t)

(* Seeded fault: the BSTNodes keep their old children.                     *)
Built_Linked(n, vec) ==
  IF vec = <<>> THEN Empty ELSE [r |-> vec[1], n |-> [k \in ToSet(vec) |-> n[k]]]

(* The keys of vec inserted one after the other into an empty tree.        *)
Built(n, vec) ==
  LET built[i \in 0 .. Len(vec)] ==
        IF i = 0 THEN Empty ELSE BSTInsertNode(built[i - 1], vec[i], n[vec[i]].pointer)
  IN  built[Len(vec)]

-----------------------------------------------------------------------------
(* BSTInsertNodeAndGetSth: the keys met on the way down to the place of k, *)
(* and those of them above k.                                              *)
Way(n, from, k) ==
  LET way[at \in DOMAIN n] ==
        {at} \cup (IF Toward(n, at, k) = Null THEN {} ELSE way[Toward(n, at, k)])
  IN  way[from]

Above(t, k) == IF t.r = Null THEN {} ELSE {q \in Way(t.n, t.r, k) : Cmp[q][k] = 1}

(* The successor of k: each of them replaces a greater one.                *)
Subsequent(above) == CHOOSE q \in above : \A p \in above : Cmp[q][p] <= 0

(* Seeded fault: the greatest key met is taken for the successor.          *)
InsertSplittedKey_Greatest(t, m, k, l, r) ==
  LET above == Above(t, k)
      in    == BSTInsertNode(t, k, l)
  IN  IF above = {} THEN [t |-> in, m |-> r]
      ELSE [t |-> [in EXCEPT !.n[CHOOSE q \in above : \A p \in above : Cmp[q][p] >= 0].pointer = r],
            m |-> m]

(***************************************************************************)
(* BTreeNodeInsertSplittedKey, for a key that is not in the tree: k takes  *)
(* over l, the successor of k, or mPointer if k is the greatest, gets r.   *)
(***************************************************************************)
InsertSplittedKey(t, m, k, l, r) ==
  LET above == Above(t, k)
      in    == BSTInsertNode(t, k, l)
  IN  IF above = {} THEN [t |-> in, m |-> r]
      ELSE [t |-> [in EXCEPT !.n[Subsequent(above)].pointer = r], m |-> m]

-----------------------------------------------------------------------------
Tree == [r |-> root, n |-> bst]

(* The node holds tree t and mPointer m, count keys by its own account.    *)
Becomes(t, m, count) ==
  /\ root' = t.r
  /\ bst' = t.n
  /\ last' = m
  /\ keyNum' = count
  /\ next' = NoSlot
  /\ UNCHANGED <<leaf, want, looping, ptr, least>>

(* Either the leaf Open creates, or the root Insert puts over two halves.  *)
Init ==
  /\ \/ /\ leaf = TRUE
        /\ root = Null /\ bst = Empty.n
        /\ last = NoSlot
        /\ keyNum = 0
     \/ \E k \in Keys, l, r \in Slots :
          /\ leaf = FALSE
          /\ root = k /\ bst = With(Empty.n, k, Fresh(l))
          /\ l # r /\ last = r
          /\ keyNum = 1
  /\ want \in Keys
  /\ looping = FALSE
  /\ ptr = Null
  /\ least = Null
  /\ next = NoSlot

(* RecursiveInsert reaches an inner node on its way to k.                  *)
Descend(k) ==
  /\ ~leaf /\ ~looping
  /\ want' = k
  /\ looping' = TRUE
  /\ ptr' = root
  /\ least' = Null
  /\ next' = NoSlot
  /\ UNCHANGED tree

(* The loop turns right at a key that is not above want.                   *)
GoRight ==
  /\ looping /\ ptr # Null
  /\ Cmp[ptr][want] <= 0
  /\ ptr' = bst[ptr].right
  /\ UNCHANGED <<tree, want, looping, least, next>>

(* Seeded fault: an empty left subtree does not end the loop.              *)
GoLeft_Stay ==
  /\ looping /\ ptr # Null
  /\ Cmp[ptr][want] = 1
  /\ ptr' = IF bst[ptr].left = Null THEN ptr ELSE bst[ptr].left
  /\ least' = IF least = Null \/ Cmp[ptr][least] < 0 THEN ptr ELSE least
  /\ UNCHANGED <<tree, want, looping, next>>

(* It turns left at a key above want and keeps the least such key.  Any    *)
(* other positive answer of BitComparer leaves the loop where it is.       *)
GoLeft ==
  /\ looping /\ ptr # Null
  /\ Cmp[ptr][want] = 1
  /\ ptr' = bst[ptr].left
  /\ least' = IF least = Null \/ Cmp[ptr][least] < 0 THEN ptr ELSE least
  /\ UNCHANGED <<tree, want, looping, next>>

(* The loop ends: the child to go on with is the one of the least key      *)
(* above want, or mPointer.                                                *)
Arrive ==
  /\ looping /\ ptr = Null
  /\ looping' = FALSE
  /\ next' = IF least = Null THEN last ELSE bst[least].pointer
  /\ least' = Null
  /\ UNCHANGED <<tree, want, ptr>>

-----------------------------------------------------------------------------
(* An insertion into a leaf that is not full.                              *)
LeafInsert(k, v) ==
  /\ leaf
  /\ keyNum < MaxElements
  /\ Becomes(BSTInsertNode(Tree, k, v), last,
             IF SearchBST(Tree, k) = Null THEN keyNum + 1 ELSE keyNum)

(* What SplitBTreeNode makes of the keys of the node: those in front of    *)
(* the splitter, and those from position `from' on.                        *)
Splitter(vec) == vec[Len(vec) \div 2 + 1]
Half(vec, from, to) == Built(bst, SubSeq(vec, from, to))

(* SplitBTreeNode of a full leaf; the new key goes into the right half if  *)
(* the splitter is not above it.  The caller goes on with either half.     *)
LeafSplit(k, v, new) ==
  /\ leaf
  /\ keyNum >= MaxElements
  /\ new = Min(Slots \ {last})
  /\ LET vec == GetBSTKeys(Tree)
         pos == Len(vec) \div 2
         l   == Half(vec, 1, pos)
         r   == Half(vec, pos + 1, Len(vec))
         right == Cmp[Splitter(vec)][k] <= 0
         Count(t) == Cardinality(DOMAIN t.n)
         In(t) == BSTInsertNode(t, k, v)
     IN  \/ LET t == IF right THEN l ELSE In(l) IN Becomes(t, new, Count(t))
         \/ LET t == IF right THEN In(r) ELSE r IN Becomes(t, last, Count(t))

(* The child next was split; its splitter k lies in the child's range, and *)
(* the child's new right half has the first block no child of the node has.*)
InRange(k, child) ==
  /\ k \notin DOMAIN bst
  /\ child = LET up == {q \in DOMAIN bst : Precedes[k][q]}
             IN  IF up = {} THEN last
                 ELSE bst[CHOOSE q \in up : \A p \in up : p = q \/ Precedes[q][p]].pointer

ChildSplit(k, new) ==
  /\ ~leaf /\ ~looping /\ next # NoSlot
  /\ InRange(k, next)
  /\ new = Min(Slots \ ({bst[q].pointer : q \in DOMAIN bst} \cup {last}))

InnerInsert(k, new) ==
  /\ ChildSplit(k, new)
  /\ keyNum < MaxElements
  /\ LET p == InsertSplittedKey(Tree, last, k, next, new)
     IN  Becomes(p.t, p.m, keyNum + 1)

(* SplitBTreeNode of a full inner node: the splitter leaves the node, and  *)
(* the half that receives k does not count it.                             *)
InnerSplit(k, new) ==
  /\ ChildSplit(k, new)
  /\ keyNum >= MaxElements
  /\ LET vec == GetBSTKeys(Tree)
         pos == Len(vec) \div 2
         s   == Splitter(vec)
         l   == Half(vec, 1, pos)
         r   == Half(vec, pos + 2, Len(vec))
         left  == IF Cmp[s][k] <= 0 THEN [t |-> l, m |-> bst[s].pointer]
                  ELSE InsertSplittedKey(l, bst[s].pointer, k, next, new)
         right == IF Cmp[s][k] <= 0 THEN InsertSplittedKey(r, last, k, next, new)
                  ELSE [t |-> r, m |-> last]
     IN  \/ Becomes(left.t, left.m, pos)
         \/ Becomes(right.t, right.m, Len(vec) - pos - 1)

(* The node is written, and read back: its keys are inserted in the order  *)
(* BTreeNode2Bin wrote them.  Only a node whose counter is exact is read   *)
(* back as it was.                                                         *)
Reload ==
  /\ ~looping
  /\ keyNum = Cardinality(DOMAIN bst)
  /\ Becomes(Built(bst, GetBSTKeys(Tree)), last, keyNum)

Loop == GoRight \/ GoLeft \/ Arrive

Next ==
  \/ Loop
  \/ Reload
  \/ \E k \in Keys :
       \/ Descend(k)
       \/ \E v \in Values : LeafInsert(k, v)
       \/ \E v \in Values, new \in Slots : LeafSplit(k, v, new)
       \/ \E new \in Slots : InnerInsert(k, new) \/ InnerSplit(k, new)

Spec == Init /\ [][Next]_vars /\ WF_vars(Loop)
==============================================================================
