--------------------------- MODULE BPlusTree_proofs ---------------------------
(***************************************************************************)
(* What the operations on one node of the B+ tree return, for every node;  *)
(* on these lemmas rests the inductive invariant of BPlusTree; from it     *)
(* follow what a search finds, what the tree stores, and that the two ways *)
(* of reading the leaves, the mPointer chain and DumpTree, are complete    *)
(* and in key order.                                                       *)
(***************************************************************************)
EXTENDS BPlusTreeDump, FiniteSetTheorems, SequenceTheorems, WellFoundedInduction, TLAPS

-----------------------------------------------------------------------------
(* The position of a key in key order numbers the keys of a set from 0.    *)
LEMMA RankExists ==
  ASSUME NEW S \in SUBSET Int, IsFiniteSet(S), NEW r \in 0 .. Cardinality(S) - 1
  PROVE  \E s \in S : Cardinality(Below(S, s)) = r
<1> DEFINE c == Cardinality(S)
           f == [x \in S |-> Cardinality(Below(S, x))]
<1>1. c \in Nat
  BY FS_CardinalityType
<1>2. ASSUME NEW x \in S
      PROVE  /\ IsFiniteSet(Below(S, x))
             /\ Cardinality(Below(S, x)) \in 0 .. c - 1
  <2>1. Below(S, x) \in SUBSET S /\ Below(S, x) # S
    BY DEF Below
  <2>2. IsFiniteSet(Below(S, x)) /\ Cardinality(Below(S, x)) <= c /\ Cardinality(Below(S, x)) # c
    BY <2>1, FS_Subset
  <2> QED
    BY <2>2, <1>1, FS_CardinalityType
<1>3. ASSUME NEW x \in S, NEW y \in S, x < y
      PROVE  Cardinality(Below(S, x)) # Cardinality(Below(S, y))
  <2>1. Below(S, x) \in SUBSET Below(S, y)
    <3>1. ASSUME NEW q \in S, q < x PROVE q < y
      BY <1>3, <3>1
    <3> QED
      BY <3>1 DEF Below
  <2>2. Below(S, x) # Below(S, y)
    BY <1>3 DEF Below
  <2> QED
    BY <2>1, <2>2, <1>2, FS_Subset
<1>4. f \in Injection(S, 0 .. c - 1)
  <2>1. f \in [S -> 0 .. c - 1]
    BY <1>2
  <2>2. \A x, y \in S : f[x] = f[y] => x = y
    BY <1>3
  <2> QED
    BY <2>1, <2>2 DEF Injection, IsInjective
<1>5. IsFiniteSet(0 .. c - 1) /\ Cardinality(0 .. c - 1) = c
  BY <1>1, FS_Interval
<1>6. f \in Surjection(S, 0 .. c - 1)
  BY <1>4, <1>5, FS_Injection
<1> QED
  BY <1>6 DEF Surjection

(* A finite set of keys that is not empty has a least key.                 *)
LEMMA LeastExists ==
  ASSUME NEW S \in SUBSET Int, IsFiniteSet(S), S # {}
  PROVE  Least(S) \in S /\ \A y \in S : Least(S) <= y
<1>1. 0 \in 0 .. Cardinality(S) - 1
  BY FS_CardinalityType, FS_EmptySet
<1>2. PICK s \in S : Cardinality(Below(S, s)) = 0
  BY <1>1, RankExists
<1>3. Below(S, s) = {}
  <2>1. Below(S, s) \in SUBSET S
    BY DEF Below
  <2> QED
    BY <2>1, <1>2, FS_Subset, FS_EmptySet
<1>4. \A y \in S : s <= y
  BY <1>3 DEF Below
<1> QED
  BY <1>4 DEF Least

(* The least key is the only one of its kind.                              *)
LEMMA LeastUnique ==
  ASSUME NEW S \in SUBSET Int, NEW s \in S, \A y \in S : s <= y
  PROVE  Least(S) = s
<1>1. ASSUME NEW x \in S, \A y \in S : x <= y
      PROVE  x = s
  <2>1. x <= s /\ s <= x
    BY <1>1
  <2> QED
    BY <2>1
<1>2. \E x \in S : \A y \in S : x <= y
  OBVIOUS
<1> QED
  BY <1>1, <1>2 DEF Least

(* A set of keys that is not empty has a splitter, and the sizes of the    *)
(* two halves follow from its size.                                        *)
LEMMA SplitterExists ==
  ASSUME NEW S \in SUBSET Int, IsFiniteSet(S), S # {}
  PROVE  LET s == Splitter(S)
             c == Cardinality(S)
         IN  /\ s \in S
             /\ IsFiniteSet(Below(S, s)) /\ Cardinality(Below(S, s)) = c \div 2
             /\ IsFiniteSet(S \ Below(S, s)) /\ Cardinality(S \ Below(S, s)) = c - c \div 2
<1> DEFINE c == Cardinality(S)
<1>1. c \in Nat /\ c # 0
  BY FS_CardinalityType, FS_EmptySet
<1>2. c \div 2 \in 0 .. c - 1
  BY <1>1
<1>3. \E s \in S : Cardinality(Below(S, s)) = c \div 2
  BY <1>2, RankExists
<1> DEFINE s == Splitter(S)
<1>4. s \in S /\ Cardinality(Below(S, s)) = c \div 2
  BY <1>3 DEF Splitter
<1>5. Below(S, s) \in SUBSET S
  BY DEF Below
<1>6. IsFiniteSet(Below(S, s))
  BY <1>5, FS_Subset
<1>7. IsFiniteSet(S \ Below(S, s))
  BY FS_Subset
<1>8. Cardinality(S \ Below(S, s)) = c - Cardinality(S \cap Below(S, s))
  BY FS_Difference
<1>9. S \cap Below(S, s) = Below(S, s)
  BY <1>5
<1> QED
  BY <1>4, <1>6, <1>7, <1>8, <1>9

-----------------------------------------------------------------------------
(* j is the least key of n above x.                                        *)
Successor(n, x, j) == j \in KeysOf(n) /\ x < j /\ \A q \in KeysOf(n) : q > x => j <= q

(* No key of n is above x.                                                 *)
NoneAbove(n, x) == \A q \in KeysOf(n) : ~(q > x)

(* The child a search for x goes to, without Least.                        *)
LEMMA ChildIs ==
  ASSUME NEW slots, NEW n, IsNode(n, slots), IsFiniteSet(KeysOf(n)), NEW x \in Int
  PROVE  /\ NoneAbove(n, x) => Child(n, x) = n.last
         /\ \A j : Successor(n, x, j) => Child(n, x) = n.ent[j]
         /\ NoneAbove(n, x) \/ \E j : Successor(n, x, j)
<1> KeysOf(n) \subseteq Int
  BY KeysAssumption DEF IsNode
<1>1. ASSUME NoneAbove(n, x)
      PROVE  Child(n, x) = n.last
  BY <1>1 DEF NoneAbove, Child, Above
<1>2. ASSUME NEW j, Successor(n, x, j)
      PROVE  Child(n, x) = n.ent[j]
  <2>1. j \in Above(n, x) /\ \A q \in Above(n, x) : j <= q
    BY <1>2 DEF Successor, Above
  <2>2. Above(n, x) \in SUBSET Int
    BY DEF Above
  <2>3. Least(Above(n, x)) = j
    BY <2>1, <2>2, LeastUnique
  <2> QED
    BY <2>1, <2>3 DEF Child
<1>3. ASSUME ~NoneAbove(n, x)
      PROVE  \E j : Successor(n, x, j)
  <2>1. Above(n, x) \in SUBSET Int /\ Above(n, x) # {} /\ Above(n, x) \in SUBSET KeysOf(n)
    BY <1>3 DEF NoneAbove, Above
  <2>2. IsFiniteSet(Above(n, x))
    BY <2>1, FS_Subset
  <2>3. Least(Above(n, x)) \in Above(n, x) /\ \A y \in Above(n, x) : Least(Above(n, x)) <= y
    BY <2>1, <2>2, LeastExists
  <2>4. Successor(n, x, Least(Above(n, x)))
    BY <2>3 DEF Successor, Above
  <2> QED
    BY <2>4
<1> QED
  BY <1>1, <1>2, <1>3

(* A search goes to one of the node's pointers.                            *)
LEMMA ChildIsPointer ==
  ASSUME NEW slots, NEW n, IsNode(n, slots), IsFiniteSet(KeysOf(n)), NEW x \in Int
  PROVE  Child(n, x) \in Pointers(n)
<1>1. CASE NoneAbove(n, x)
  BY <1>1, ChildIs DEF Pointers
<1>2. CASE ~NoneAbove(n, x)
  <2>1. PICK j : Successor(n, x, j)
    BY <1>2, ChildIs
  <2> QED
    BY <2>1, ChildIs DEF Pointers, Successor
<1> QED
  BY <1>1, <1>2

(* No two pointers of an inner node lead to the same child.                *)
Distinct(n) ==
  /\ \A j, k \in KeysOf(n) : n.ent[j] = n.ent[k] => j = k
  /\ \A j \in KeysOf(n) : n.ent[j] # n.last

(* Searches that end in the same child are not separated by a key.         *)
LEMMA NoSeparatorBetween ==
  ASSUME NEW slots, NEW n, IsNode(n, slots), IsFiniteSet(KeysOf(n)), Distinct(n),
         NEW x \in Int, NEW y \in Int, x < y, Child(n, x) = Child(n, y)
  PROVE  y \notin KeysOf(n)
<1> SUFFICES ASSUME y \in KeysOf(n) PROVE FALSE
  OBVIOUS
<1> KeysOf(n) \subseteq Int
  BY KeysAssumption DEF IsNode
<1>1. ~NoneAbove(n, x)
  BY DEF NoneAbove
<1>2. PICK i : Successor(n, x, i)
  BY <1>1, ChildIs
<1>3. i \in KeysOf(n) /\ i <= y /\ Child(n, x) = n.ent[i]
  BY <1>2, ChildIs DEF Successor
<1>4. CASE NoneAbove(n, y)
  BY <1>4, <1>3, ChildIs DEF Distinct
<1>5. CASE ~NoneAbove(n, y)
  <2>1. PICK j : Successor(n, y, j)
    BY <1>5, ChildIs
  <2>2. j \in KeysOf(n) /\ y < j /\ Child(n, y) = n.ent[j]
    BY <2>1, ChildIs DEF Successor
  <2>3. i = j
    BY <2>2, <1>3 DEF Distinct
  <2> QED
    BY <2>2, <2>3, <1>3
<1> QED
  BY <1>4, <1>5

-----------------------------------------------------------------------------
(* Putting a key into a map.                                               *)
LEMMA PutMap ==
  ASSUME NEW f, NEW k, NEW p
  PROVE  /\ DOMAIN Put(f, k, p) = DOMAIN f \cup {k}
         /\ Put(f, k, p)[k] = p
         /\ \A q \in DOMAIN f : q # k => Put(f, k, p)[q] = f[q]
BY DEF Put

(* More slots, same nodes.                                                 *)
LEMMA NodeMonotone ==
  ASSUME NEW S, NEW T, S \subseteq T, NEW n, IsNode(n, S)
  PROVE  IsNode(n, T)
BY DEF IsNode

(* Insertion into a leaf: the other keys keep their values, and a counter  *)
(* that was exact stays exact.                                             *)
LEMMA LeafPutFacts ==
  ASSUME NEW slots, NEW n, IsNode(n, slots), n.leaf, IsFiniteSet(KeysOf(n)),
         NEW k \in Keys, NEW v \in Values
  PROVE  LET m == LeafPut(n, k, v)
         IN  /\ IsNode(m, slots) /\ m.leaf /\ m.last = n.last
             /\ KeysOf(m) = KeysOf(n) \cup {k} /\ IsFiniteSet(KeysOf(m))
             /\ m.ent[k] = v
             /\ \A q \in KeysOf(n) : q # k => m.ent[q] = n.ent[q]
             /\ n.keyNum = Cardinality(KeysOf(n)) => m.keyNum = Cardinality(KeysOf(m))
             /\ Cardinality(KeysOf(m)) \in {Cardinality(KeysOf(n)), Cardinality(KeysOf(n)) + 1}
             /\ m.keyNum \in {n.keyNum, n.keyNum + 1}
<1> DEFINE e == Put(n.ent, k, v)
           c == IF k \in KeysOf(n) THEN n.keyNum ELSE n.keyNum + 1
           m == LeafPut(n, k, v)
<1>1. m.leaf /\ m.ent = e /\ m.last = n.last /\ m.keyNum = c
  BY DEF LeafPut, IsNode
<1>2. KeysOf(m) = KeysOf(n) \cup {k} /\ e \in [KeysOf(n) \cup {k} -> Values]
  BY <1>1 DEF Put, KeysOf, IsNode
<1>3. c \in Nat /\ n.keyNum \in Nat
  BY DEF IsNode
<1>4. m \in [leaf : BOOLEAN, ent : [KeysOf(n) \cup {k} -> Values],
             last : slots \cup {NoSlot}, keyNum : Nat]
  BY <1>2, <1>3 DEF LeafPut, IsNode
<1>5. IsNode(m, slots)
  BY <1>1, <1>2, <1>4 DEF IsNode
<1>6. e[k] = v /\ \A q \in KeysOf(n) : q # k => e[q] = n.ent[q]
  BY DEF Put, KeysOf
<1>7. /\ IsFiniteSet(KeysOf(m))
      /\ Cardinality(KeysOf(m)) = IF k \in KeysOf(n) THEN Cardinality(KeysOf(n))
                                  ELSE Cardinality(KeysOf(n)) + 1
  BY <1>2, FS_AddElement
<1> HIDE DEF e, c, m
<1>8. m.keyNum \in {n.keyNum, n.keyNum + 1}
  BY <1>1 DEF c
<1> QED
  BY <1>1, <1>2, <1>3, <1>5, <1>6, <1>7, <1>8 DEF c, m

(* One half of a leaf.                                                     *)
LEMMA LeafHalfFacts ==
  ASSUME NEW slots, NEW n, IsNode(n, slots), n.leaf,
         NEW D, D \subseteq KeysOf(n), IsFiniteSet(D), NEW p \in slots \cup {NoSlot}
  PROVE  LET m == Half(n, D, p)
         IN  /\ IsNode(m, slots) /\ m.leaf /\ m.last = p /\ KeysOf(m) = D
             /\ \A q \in D : m.ent[q] = n.ent[q]
             /\ m.keyNum = Cardinality(D)
<1> DEFINE m == Half(n, D, p)
<1>1. m.leaf /\ m.ent = Keep(n.ent, D) /\ m.last = p /\ m.keyNum = Cardinality(D)
  BY DEF Half, IsNode
<1>2. KeysOf(m) = D /\ Keep(n.ent, D) \in [D -> Values]
  BY <1>1 DEF Keep, KeysOf, IsNode
<1>3. Cardinality(D) \in Nat
  BY FS_CardinalityType
<1>4. m \in [leaf : BOOLEAN, ent : [D -> Values], last : slots \cup {NoSlot}, keyNum : Nat]
  BY <1>2, <1>3 DEF Half, IsNode
<1>5. D \subseteq Keys
  BY DEF IsNode
<1>6. \A q \in D : Keep(n.ent, D)[q] = n.ent[q]
  BY DEF Keep
<1> HIDE DEF m
<1>7. IsNode(m, slots)
  BY <1>1, <1>2, <1>4, <1>5 DEF IsNode
<1> QED
  BY <1>1, <1>2, <1>6, <1>7 DEF m

(* The split of a full leaf: the keys and the new one are shared out at    *)
(* the splitter, both counters are exact, and neither half is over-full or *)
(* less than half full.                                                    *)
LEMMA SplitLeafFacts ==
  ASSUME NEW slots, NEW n, IsNode(n, slots), n.leaf, IsFiniteSet(KeysOf(n)),
         Cardinality(KeysOf(n)) >= 2,
         NEW k \in Keys, NEW v \in Values, NEW new \in slots
  PROVE  LET h == SplitLeaf(n, k, v, new)
             c == Cardinality(KeysOf(n))
         IN  /\ h.key \in KeysOf(n)
             /\ IsNode(h.left, slots) /\ h.left.leaf /\ h.left.last = new
             /\ IsNode(h.right, slots) /\ h.right.leaf /\ h.right.last = n.last
             /\ KeysOf(h.left) = {q \in KeysOf(n) \cup {k} : q < h.key}
             /\ KeysOf(h.right) = {q \in KeysOf(n) \cup {k} : q >= h.key}
             /\ \A q \in KeysOf(h.left) : h.left.ent[q] = IF q = k THEN v ELSE n.ent[q]
             /\ \A q \in KeysOf(h.right) : h.right.ent[q] = IF q = k THEN v ELSE n.ent[q]
             /\ \A m \in {h.left, h.right} :
                  /\ IsFiniteSet(KeysOf(m)) /\ m.keyNum = Cardinality(KeysOf(m))
                  /\ Cardinality(KeysOf(m)) \in (c \div 2) .. c
<1> DEFINE c == Cardinality(KeysOf(n))
           s == Splitter(KeysOf(n))
           L == Below(KeysOf(n), s)
           R == KeysOf(n) \ L
           l0 == Half(n, L, new)
           r0 == Half(n, R, n.last)
           left == IF s <= k THEN l0 ELSE LeafPut(l0, k, v)
           right == IF s <= k THEN LeafPut(r0, k, v) ELSE r0
<1>1. KeysOf(n) \subseteq Int /\ KeysOf(n) # {} /\ c \in Nat /\ k \in Int
  <2>1. KeysOf(n) \subseteq Int /\ k \in Int
    BY KeysAssumption DEF IsNode
  <2>2. c \in Nat
    BY FS_CardinalityType
  <2>3. KeysOf(n) # {}
    BY FS_EmptySet
  <2> QED
    BY <2>1, <2>2, <2>3
<1>2. /\ s \in KeysOf(n)
      /\ IsFiniteSet(L) /\ Cardinality(L) = c \div 2
      /\ IsFiniteSet(R) /\ Cardinality(R) = c - c \div 2
  BY <1>1, SplitterExists
<1>3. L \subseteq KeysOf(n) /\ R \subseteq KeysOf(n) /\ n.last \in slots \cup {NoSlot}
  BY DEF Below, IsNode
<1>4. \A q \in L : q < s
  BY DEF Below
<1>5. \A q \in R : q >= s
  BY <1>1, <1>2 DEF Below
<1>6. KeysOf(n) = L \cup R
  BY DEF Below
<1> HIDE DEF L, R, s
<1>7. /\ IsNode(l0, slots) /\ l0.leaf /\ l0.last = new /\ KeysOf(l0) = L
      /\ \A q \in L : l0.ent[q] = n.ent[q]
      /\ l0.keyNum = Cardinality(L)
  BY <1>2, <1>3, LeafHalfFacts
<1>8. /\ IsNode(r0, slots) /\ r0.leaf /\ r0.last = n.last /\ KeysOf(r0) = R
      /\ \A q \in R : r0.ent[q] = n.ent[q]
      /\ r0.keyNum = Cardinality(R)
  BY <1>2, <1>3, LeafHalfFacts
<1>9. SplitLeaf(n, k, v, new) = [key |-> s, left |-> left, right |-> right]
  BY DEF SplitLeaf, s, L, R
<1> HIDE DEF l0, r0
<1> DEFINE Shared(l, r) ==
             /\ IsNode(l, slots) /\ l.leaf /\ l.last = new
             /\ IsNode(r, slots) /\ r.leaf /\ r.last = n.last
             /\ KeysOf(l) = {q \in KeysOf(n) \cup {k} : q < s}
             /\ KeysOf(r) = {q \in KeysOf(n) \cup {k} : q >= s}
             /\ \A q \in KeysOf(l) : l.ent[q] = IF q = k THEN v ELSE n.ent[q]
             /\ \A q \in KeysOf(r) : r.ent[q] = IF q = k THEN v ELSE n.ent[q]
             /\ \A m \in {l, r} :
                  /\ IsFiniteSet(KeysOf(m)) /\ m.keyNum = Cardinality(KeysOf(m))
                  /\ Cardinality(KeysOf(m)) \in (c \div 2) .. c
<1>10. ASSUME s <= k
      PROVE  Shared(l0, LeafPut(r0, k, v))
  <2> DEFINE r == LeafPut(r0, k, v)
  <2>1. /\ IsNode(r, slots) /\ r.leaf /\ r.last = n.last
        /\ KeysOf(r) = R \cup {k} /\ IsFiniteSet(KeysOf(r))
        /\ r.ent[k] = v
        /\ \A q \in R : q # k => r.ent[q] = r0.ent[q]
        /\ r.keyNum = Cardinality(KeysOf(r))
        /\ Cardinality(KeysOf(r)) \in {Cardinality(R), Cardinality(R) + 1}
    BY <1>2, <1>8, LeafPutFacts
  <2> HIDE DEF r
  <2>2. /\ R \cup {k} = {q \in KeysOf(n) \cup {k} : q >= s}
        /\ L = {q \in KeysOf(n) \cup {k} : q < s}
    BY <1>1, <1>2, <1>4, <1>5, <1>6, <1>10
  <2>3. Cardinality(L) \in (c \div 2) .. c /\ Cardinality(KeysOf(r)) \in (c \div 2) .. c
    BY <1>1, <1>2, <2>1
  <2>4. k \notin L
    BY <1>1, <1>2, <1>4, <1>10
  <2>5. \A q \in KeysOf(r) : r.ent[q] = IF q = k THEN v ELSE n.ent[q]
    BY <2>1, <1>8
  <2>6. \A q \in KeysOf(l0) : l0.ent[q] = IF q = k THEN v ELSE n.ent[q]
    BY <2>4, <1>7
  <2>7. Shared(l0, r)
    BY <1>2, <1>7, <2>1, <2>2, <2>3, <2>5, <2>6
  <2> QED
    BY <2>7 DEF r
<1>11. ASSUME ~(s <= k)
      PROVE  Shared(LeafPut(l0, k, v), r0)
  <2> DEFINE l == LeafPut(l0, k, v)
  <2>1. /\ IsNode(l, slots) /\ l.leaf /\ l.last = new
        /\ KeysOf(l) = L \cup {k} /\ IsFiniteSet(KeysOf(l))
        /\ l.ent[k] = v
        /\ \A q \in L : q # k => l.ent[q] = l0.ent[q]
        /\ l.keyNum = Cardinality(KeysOf(l))
        /\ Cardinality(KeysOf(l)) \in {Cardinality(L), Cardinality(L) + 1}
    BY <1>2, <1>7, LeafPutFacts
  <2> HIDE DEF l
  <2>2. /\ L \cup {k} = {q \in KeysOf(n) \cup {k} : q < s}
        /\ R = {q \in KeysOf(n) \cup {k} : q >= s}
    BY <1>1, <1>2, <1>4, <1>5, <1>6, <1>11
  <2>3. Cardinality(R) \in (c \div 2) .. c /\ Cardinality(KeysOf(l)) \in (c \div 2) .. c
    BY <1>1, <1>2, <2>1
  <2>4. k \notin R
    BY <1>1, <1>2, <1>5, <1>11
  <2>5. \A q \in KeysOf(l) : l.ent[q] = IF q = k THEN v ELSE n.ent[q]
    BY <2>1, <1>7
  <2>6. \A q \in KeysOf(r0) : r0.ent[q] = IF q = k THEN v ELSE n.ent[q]
    BY <2>4, <1>8
  <2>7. Shared(l, r0)
    BY <1>2, <1>8, <2>1, <2>2, <2>3, <2>5, <2>6
  <2> QED
    BY <2>7 DEF l
<1>12. Shared(left, right)
  BY <1>10, <1>11
<1> DEFINE h == SplitLeaf(n, k, v, new)
<1>13. h.key = s /\ h.left = left /\ h.right = right
  BY <1>9
<1> HIDE DEF left, right, h
<1> QED
  BY <1>2, <1>12, <1>13 DEF h

-----------------------------------------------------------------------------
(* The successor is the least key above.                                   *)
LEMMA SuccessorIsLeast ==
  ASSUME NEW slots, NEW n, IsNode(n, slots), NEW x \in Int, NEW j, Successor(n, x, j)
  PROVE  Above(n, x) # {} /\ Least(Above(n, x)) = j
<1>1. j \in Above(n, x) /\ \A q \in Above(n, x) : j <= q
  BY DEF Successor, Above
<1>2. Above(n, x) \in SUBSET Int
  BY KeysAssumption DEF IsNode, Above
<1> QED
  BY <1>1, <1>2, LeastUnique

(* The entries and the last pointer after a splitter was put into a node.  *)
LEMMA InnerPutFields ==
  ASSUME NEW slots, NEW n, IsNode(n, slots), ~n.leaf, IsFiniteSet(KeysOf(n)),
         NEW k \in Keys, k \notin KeysOf(n), NEW l \in slots, NEW r \in slots
  PROVE  LET m == InnerPut(n, k, l, r)
         IN  /\ IsNode(m, slots) /\ ~m.leaf /\ m.keyNum = n.keyNum
             /\ KeysOf(m) = KeysOf(n) \cup {k}
             /\ IsFiniteSet(KeysOf(m))
             /\ Cardinality(KeysOf(m)) = Cardinality(KeysOf(n)) + 1
             /\ m.ent[k] = l
             /\ NoneAbove(n, k) => /\ m.last = r
                                   /\ \A q \in KeysOf(n) : m.ent[q] = n.ent[q]
             /\ \A u : Successor(n, k, u) =>
                    /\ m.last = n.last
                    /\ \A q \in KeysOf(n) : m.ent[q] = IF q = u THEN r ELSE n.ent[q]
<1> DEFINE up == Above(n, k)
           e == IF up = {} THEN Put(n.ent, k, l) ELSE Put(Put(n.ent, Least(up), r), k, l)
           p == IF up = {} THEN r ELSE n.last
           m == InnerPut(n, k, l, r)
<1>1. ~m.leaf /\ m.ent = e /\ m.last = p /\ m.keyNum = n.keyNum
  BY DEF InnerPut, IsNode
<1>2. k \in Int
  BY KeysAssumption
<1>3. NoneAbove(n, k) => up = {}
  BY DEF NoneAbove, Above
<1>4. \A u : Successor(n, k, u) => up # {} /\ Least(up) = u /\ u \in KeysOf(n)
  BY <1>2, SuccessorIsLeast DEF Successor
<1>5. NoneAbove(n, k) \/ \E u : Successor(n, k, u)
  BY <1>2, ChildIs
<1>6. up # {} => Least(up) \in KeysOf(n)
  BY <1>3, <1>4, <1>5
<1> HIDE DEF up
<1>7. e \in [KeysOf(n) \cup {k} -> slots] /\ p \in slots
  BY <1>6 DEF Put, KeysOf, IsNode
<1>8. KeysOf(m) = KeysOf(n) \cup {k}
  BY <1>1, <1>7 DEF KeysOf
<1>9. m \in [leaf : BOOLEAN, ent : [KeysOf(n) \cup {k} -> slots], last : slots, keyNum : Nat]
  BY <1>7 DEF InnerPut, IsNode, up
<1>10. /\ e[k] = l
       /\ up = {} => \A q \in KeysOf(n) : e[q] = n.ent[q]
       /\ up # {} => \A q \in KeysOf(n) : e[q] = IF q = Least(up) THEN r ELSE n.ent[q]
  BY <1>6 DEF Put, KeysOf
<1>11. IsFiniteSet(KeysOf(m)) /\ Cardinality(KeysOf(m)) = Cardinality(KeysOf(n)) + 1
  BY <1>8, FS_AddElement
<1> HIDE DEF e, p, m
<1>12. IsNode(m, slots)
  BY <1>1, <1>8, <1>9 DEF IsNode
<1>13. NoneAbove(n, k) => m.last = r /\ \A q \in KeysOf(n) : m.ent[q] = n.ent[q]
  BY <1>1, <1>3, <1>10 DEF p
<1>14. ASSUME NEW u, Successor(n, k, u)
       PROVE  m.last = n.last /\ \A q \in KeysOf(n) : m.ent[q] = IF q = u THEN r ELSE n.ent[q]
  BY <1>1, <1>4, <1>10, <1>14 DEF p
<1> QED
  BY <1>1, <1>8, <1>10, <1>11, <1>12, <1>13, <1>14 DEF m

(* Where a search goes after splitter k has come between l and r, if it    *)
(* went to c before.                                                       *)
Rerouted(c, x, k, l, r) == IF c # l THEN c ELSE IF x < k THEN l ELSE r

(* A splitter put into an inner node: searches that went to the child that *)
(* was split go to one of its halves, all others go where they went.       *)
LEMMA InnerPutFacts ==
  ASSUME NEW slots, NEW n, IsNode(n, slots), ~n.leaf, IsFiniteSet(KeysOf(n)), Distinct(n),
         NEW k \in Keys, k \notin KeysOf(n), NEW l, l = Child(n, k),
         NEW r \in slots, r \notin Pointers(n)
  PROVE  LET m == InnerPut(n, k, l, r)
         IN  /\ IsNode(m, slots) /\ ~m.leaf /\ m.keyNum = n.keyNum
             /\ KeysOf(m) = KeysOf(n) \cup {k}
             /\ IsFiniteSet(KeysOf(m))
             /\ Cardinality(KeysOf(m)) = Cardinality(KeysOf(n)) + 1
             /\ Distinct(m) /\ Pointers(m) = Pointers(n) \cup {r}
             /\ \A x \in Int : Child(m, x) = Rerouted(Child(n, x), x, k, l, r)
<1> DEFINE m == InnerPut(n, k, l, r)
<1>1. k \in Int /\ KeysOf(n) \subseteq Int
  BY KeysAssumption DEF IsNode
<1>2. l \in Pointers(n) /\ l \in slots /\ r # l
  <2>1. l \in Pointers(n)
    BY <1>1, ChildIsPointer
  <2> QED
    BY <2>1 DEF Pointers, IsNode
<1>3. /\ IsNode(m, slots) /\ ~m.leaf /\ m.keyNum = n.keyNum
      /\ KeysOf(m) = KeysOf(n) \cup {k}
      /\ IsFiniteSet(KeysOf(m))
      /\ Cardinality(KeysOf(m)) = Cardinality(KeysOf(n)) + 1
      /\ m.ent[k] = l
  BY <1>2, InnerPutFields
<1>4. NoneAbove(n, k) => /\ m.last = r
                        /\ \A q \in KeysOf(n) : m.ent[q] = n.ent[q]
  BY <1>2, InnerPutFields
<1>5. \A u : Successor(n, k, u) =>
             /\ m.last = n.last
             /\ \A q \in KeysOf(n) : m.ent[q] = IF q = u THEN r ELSE n.ent[q]
  BY <1>2, InnerPutFields
<1> HIDE DEF m
<1>6. CASE NoneAbove(n, k)
  <2>1. l = n.last
    BY <1>6, <1>1, ChildIs
  <2>2. Distinct(m) /\ Pointers(m) = Pointers(n) \cup {r}
    BY <1>3, <1>4, <1>6, <2>1 DEF Distinct, Pointers
  <2>3. ASSUME NEW x \in Int
        PROVE  Child(m, x) = Rerouted(Child(n, x), x, k, l, r)
    <3>1. ASSUME x >= k
          PROVE  Child(m, x) = r /\ Child(n, x) = l
      <4>1. NoneAbove(n, x) /\ NoneAbove(m, x)
        BY <1>1, <1>3, <1>6, <3>1 DEF NoneAbove
      <4> QED
        BY <4>1, <1>3, <1>4, <1>6, <2>1, ChildIs
    <3>2. ASSUME x < k, NoneAbove(n, x)
          PROVE  Child(m, x) = l /\ Child(n, x) = l
      <4>1. Successor(m, x, k)
        BY <1>1, <1>3, <3>2 DEF NoneAbove, Successor
      <4> QED
        BY <4>1, <1>3, <2>1, <3>2, ChildIs
    <3>3. ASSUME x < k, NEW j, Successor(n, x, j)
          PROVE  Child(m, x) = Child(n, x) /\ Child(n, x) # l
      <4>1. j \in KeysOf(n) /\ j < k
        BY <1>1, <1>6, <3>3 DEF NoneAbove, Successor
      <4>2. Successor(m, x, j)
        BY <1>1, <1>3, <3>3, <4>1 DEF Successor
      <4>3. Child(m, x) = m.ent[j] /\ Child(n, x) = n.ent[j]
        BY <1>3, <3>3, <4>2, ChildIs
      <4> QED
        BY <1>4, <1>6, <2>1, <4>1, <4>3 DEF Distinct
    <3> QED
      BY <1>1, <3>1, <3>2, <3>3, ChildIs DEF Rerouted
  <2> QED
    BY <1>3, <2>2, <2>3 DEF m
<1>7. ASSUME NEW u, Successor(n, k, u)
      PROVE  /\ Distinct(m) /\ Pointers(m) = Pointers(n) \cup {r}
             /\ \A x \in Int : Child(m, x) = Rerouted(Child(n, x), x, k, l, r)
  <2>1. l = n.ent[u] /\ u \in KeysOf(n) /\ k < u
    BY <1>7, <1>1, ChildIs DEF Successor
  <2>2. m.last = n.last /\ \A q \in KeysOf(n) : m.ent[q] = IF q = u THEN r ELSE n.ent[q]
    BY <1>5, <1>7
  <2>3. Distinct(m) /\ Pointers(m) = Pointers(n) \cup {r}
    BY <1>3, <2>1, <2>2 DEF Distinct, Pointers
  <2>4. ASSUME NEW x \in Int
        PROVE  Child(m, x) = Rerouted(Child(n, x), x, k, l, r)
    <3>1. ASSUME x >= k, NoneAbove(n, x)
          PROVE  Child(m, x) = Child(n, x) /\ Child(n, x) # l
      <4>1. NoneAbove(m, x)
        BY <1>1, <1>3, <3>1 DEF NoneAbove
      <4> QED
        BY <4>1, <1>3, <2>1, <2>2, <3>1, ChildIs DEF Distinct
    <3>2. ASSUME x >= k, NEW j, Successor(n, x, j)
          PROVE  Child(m, x) = Rerouted(Child(n, x), x, k, l, r)
      <4>1. Successor(m, x, j) /\ j \in KeysOf(n)
        BY <1>1, <1>3, <3>2 DEF Successor
      <4>2. Child(m, x) = m.ent[j] /\ Child(n, x) = n.ent[j]
        BY <1>3, <3>2, <4>1, ChildIs
      <4> QED
        BY <1>1, <2>1, <2>2, <3>2, <4>1, <4>2 DEF Distinct, Rerouted
    <3>3. ASSUME x < k, Successor(n, x, u)
          PROVE  Child(m, x) = l /\ Child(n, x) = l
      <4>1. Successor(m, x, k)
        BY <1>1, <1>3, <1>7, <3>3 DEF Successor
      <4>2. Child(m, x) = m.ent[k] /\ Child(n, x) = n.ent[u]
        BY <4>1, <1>3, <3>3, ChildIs
      <4> QED
        BY <4>2, <1>3, <2>1
    <3>4. ASSUME x < k, NEW j, Successor(n, x, j), j # u
          PROVE  Child(m, x) = Child(n, x) /\ Child(n, x) # l
      <4>1. j \in KeysOf(n) /\ j < k
        BY <1>1, <1>7, <2>1, <3>4 DEF Successor
      <4>2. Successor(m, x, j)
        BY <1>1, <1>3, <3>4, <4>1 DEF Successor
      <4>3. Child(m, x) = m.ent[j] /\ Child(n, x) = n.ent[j]
        BY <1>3, <3>4, <4>2, ChildIs
      <4> QED
        BY <2>1, <2>2, <3>4, <4>1, <4>3 DEF Distinct
    <3>5. x < k => ~NoneAbove(n, x)
      BY <1>1, <2>1 DEF NoneAbove
    <3> QED
      BY <1>1, <3>1, <3>2, <3>3, <3>4, <3>5, ChildIs DEF Rerouted
  <2> QED
    BY <2>3, <2>4
<1> QED
  BY <1>1, <1>3, <1>6, <1>7, ChildIs DEF m

-----------------------------------------------------------------------------
(* One half of an inner node.                                              *)
LEMMA InnerHalfFacts ==
  ASSUME NEW slots, NEW n, IsNode(n, slots), ~n.leaf,
         NEW D, D \subseteq KeysOf(n), IsFiniteSet(D), NEW p \in slots
  PROVE  LET m == Half(n, D, p)
         IN  /\ IsNode(m, slots) /\ ~m.leaf /\ m.last = p /\ KeysOf(m) = D
             /\ \A q \in D : m.ent[q] = n.ent[q]
             /\ m.keyNum = Cardinality(D)
<1> DEFINE m == Half(n, D, p)
<1>1. ~m.leaf /\ m.ent = Keep(n.ent, D) /\ m.last = p /\ m.keyNum = Cardinality(D)
  BY DEF Half, IsNode
<1>2. KeysOf(m) = D /\ Keep(n.ent, D) \in [D -> slots]
  BY <1>1 DEF Keep, KeysOf, IsNode
<1>3. Cardinality(D) \in Nat
  BY FS_CardinalityType
<1>4. m \in [leaf : BOOLEAN, ent : [D -> slots], last : slots, keyNum : Nat]
  BY <1>2, <1>3 DEF Half, IsNode
<1>5. D \subseteq Keys
  BY DEF IsNode
<1>6. \A q \in D : Keep(n.ent, D)[q] = n.ent[q]
  BY DEF Keep
<1> HIDE DEF m
<1>7. IsNode(m, slots)
  BY <1>1, <1>2, <1>4, <1>5 DEF IsNode
<1> QED
  BY <1>1, <1>2, <1>6, <1>7 DEF m

(* L are the keys of n below its key s, R those above.                     *)
CutAt(n, s, L, R) ==
  /\ s \in KeysOf(n) /\ KeysOf(n) = L \cup R \cup {s}
  /\ \A q \in L : q < s
  /\ \A q \in R : q > s

(* An inner node cut at one of its keys: a search finds the child it found *)
(* before in the half it belongs to, and the halves share no child.        *)
LEMMA InnerCutFacts ==
  ASSUME NEW slots, NEW n, IsNode(n, slots), ~n.leaf, IsFiniteSet(KeysOf(n)), Distinct(n),
         NEW s, NEW L, NEW R, CutAt(n, s, L, R), NEW p, p = n.ent[s]
  PROVE  LET l0 == Half(n, L, p)
             r0 == Half(n, R, n.last)
         IN  /\ IsNode(l0, slots) /\ ~l0.leaf /\ KeysOf(l0) = L /\ l0.keyNum = Cardinality(L)
             /\ IsNode(r0, slots) /\ ~r0.leaf /\ KeysOf(r0) = R /\ r0.keyNum = Cardinality(R)
             /\ IsFiniteSet(L) /\ IsFiniteSet(R)
             /\ Distinct(l0) /\ Distinct(r0)
             /\ Pointers(l0) \cap Pointers(r0) = {}
             /\ Pointers(l0) \cup Pointers(r0) = Pointers(n)
             /\ \A x \in Int : x < s => Child(l0, x) = Child(n, x)
             /\ \A x \in Int : x >= s => Child(r0, x) = Child(n, x)
<1> DEFINE l0 == Half(n, L, p)
           r0 == Half(n, R, n.last)
<1>1. KeysOf(n) \subseteq Int
  BY KeysAssumption DEF IsNode
<1>2. /\ L \subseteq KeysOf(n) /\ R \subseteq KeysOf(n)
      /\ s \in KeysOf(n) /\ KeysOf(n) = L \cup R \cup {s}
      /\ \A q \in L : q < s
      /\ \A q \in R : q > s
  BY DEF CutAt
<1>3. IsFiniteSet(L) /\ IsFiniteSet(R)
  BY <1>2, FS_Subset
<1>4. p \in slots /\ n.last \in slots
  BY <1>2 DEF IsNode
<1>5. /\ IsNode(l0, slots) /\ ~l0.leaf /\ l0.last = p /\ KeysOf(l0) = L
      /\ \A q \in L : l0.ent[q] = n.ent[q]
      /\ l0.keyNum = Cardinality(L)
  BY <1>2, <1>3, <1>4, InnerHalfFacts
<1>6. /\ IsNode(r0, slots) /\ ~r0.leaf /\ r0.last = n.last /\ KeysOf(r0) = R
      /\ \A q \in R : r0.ent[q] = n.ent[q]
      /\ r0.keyNum = Cardinality(R)
  BY <1>2, <1>3, <1>4, InnerHalfFacts
<1> HIDE DEF l0, r0
<1>7. Distinct(l0) /\ Distinct(r0)
  <2>1. s \notin L
    BY <1>1, <1>2
  <2> QED
    BY <2>1, <1>2, <1>5, <1>6 DEF Distinct
<1>8. /\ Pointers(l0) \cap Pointers(r0) = {}
      /\ Pointers(l0) \cup Pointers(r0) = Pointers(n)
  <2>1. s \notin R /\ L \cap R = {}
    BY <1>1, <1>2
  <2>2. Pointers(l0) = {n.ent[q] : q \in L \cup {s}}
    BY <1>5 DEF Pointers
  <2>3. Pointers(r0) = {n.ent[q] : q \in R} \cup {n.last}
    BY <1>6 DEF Pointers
  <2>4. Pointers(l0) \cup Pointers(r0) = Pointers(n)
    BY <1>2, <2>2, <2>3 DEF Pointers
  <2>5. \A q \in L \cup {s} : n.ent[q] # n.last /\ \A t \in R : n.ent[q] # n.ent[t]
    BY <1>2, <2>1 DEF Distinct
  <2> QED
    BY <2>2, <2>3, <2>4, <2>5
<1>9. ASSUME NEW x \in Int, x < s
      PROVE  Child(l0, x) = Child(n, x)
  <2>1. PICK j : Successor(n, x, j)
    <3>1. ~NoneAbove(n, x)
      BY <1>1, <1>2, <1>9 DEF NoneAbove
    <3> QED
      BY <3>1, ChildIs
  <2>2. Child(n, x) = n.ent[j] /\ j \in KeysOf(n) /\ x < j /\ j <= s
    BY <2>1, <1>1, <1>2, <1>9, ChildIs DEF Successor
  <2>3. CASE j = s
    <3>1. NoneAbove(l0, x)
      BY <1>1, <1>2, <1>5, <2>1, <2>3, <1>9 DEF NoneAbove, Successor
    <3> QED
      BY <3>1, <1>3, <1>5, <2>2, <2>3, ChildIs
  <2>4. CASE j # s
    <3>1. j \in L
      BY <1>1, <1>2, <2>2, <2>4
    <3>2. Successor(l0, x, j)
      BY <1>2, <1>5, <2>1, <3>1 DEF Successor
    <3> QED
      BY <3>1, <3>2, <1>3, <1>5, <2>2, ChildIs
  <2> QED
    BY <2>3, <2>4
<1>10. ASSUME NEW x \in Int, x >= s
       PROVE  Child(r0, x) = Child(n, x)
  <2>1. CASE NoneAbove(n, x)
    <3>1. NoneAbove(r0, x)
      BY <1>2, <1>6, <2>1 DEF NoneAbove
    <3> QED
      BY <3>1, <2>1, <1>3, <1>6, ChildIs
  <2>2. ASSUME NEW j, Successor(n, x, j)
        PROVE  Child(r0, x) = Child(n, x)
    <3>1. j \in KeysOf(n) /\ j > s
      BY <1>1, <1>2, <2>2, <1>10 DEF Successor
    <3>2. j \in R
      BY <1>1, <1>2, <3>1
    <3>3. Successor(r0, x, j)
      BY <1>2, <1>6, <2>2, <3>2 DEF Successor
    <3> QED
      BY <3>2, <3>3, <2>2, <1>3, <1>6, ChildIs
  <2> QED
    BY <2>1, <2>2, ChildIs
<1> QED
  BY <1>3, <1>5, <1>6, <1>7, <1>8, <1>9, <1>10 DEF l0, r0

(* The split of a full inner node: every search goes, by way of the half   *)
(* it belongs to, where it would have gone had the node taken splitter k.  *)
(* The counters of the halves are exact or one too low.                    *)
SplitAs(n, k, l, r, s, left, right, slots) ==
  /\ s \in KeysOf(n) /\ s # k
  /\ \A m \in {left, right} :
       /\ IsNode(m, slots) /\ ~m.leaf /\ IsFiniteSet(KeysOf(m)) /\ Distinct(m)
       /\ Cardinality(KeysOf(m)) \in {m.keyNum, m.keyNum + 1}
       /\ m.keyNum \in ((Cardinality(KeysOf(n)) - 1) \div 2) .. (Cardinality(KeysOf(n)) \div 2)
  /\ KeysOf(left) \subseteq {q \in KeysOf(n) \cup {k} : q < s}
  /\ KeysOf(right) \subseteq {q \in KeysOf(n) \cup {k} : q > s}
  /\ Pointers(left) \cap Pointers(right) = {}
  /\ Pointers(left) \cup Pointers(right) = Pointers(n) \cup {r}
  /\ \A x \in Int : x < s => Child(left, x) = Rerouted(Child(n, x), x, k, l, r)
  /\ \A x \in Int : x >= s => Child(right, x) = Rerouted(Child(n, x), x, k, l, r)

(* SplitInner splits as SplitAs says.                                      *)
LEMMA SplitInnerFacts ==
  ASSUME NEW slots, NEW n, IsNode(n, slots), ~n.leaf, IsFiniteSet(KeysOf(n)), Distinct(n),
         KeysOf(n) # {},
         NEW k \in Keys, k \notin KeysOf(n), NEW l, l = Child(n, k),
         NEW r \in slots, r \notin Pointers(n)
  PROVE  LET h == SplitInner(n, k, l, r)
         IN  SplitAs(n, k, l, r, h.key, h.left, h.right, slots)
<1> DEFINE c == Cardinality(KeysOf(n))
           s == Splitter(KeysOf(n))
           L == Below(KeysOf(n), s)
           R == KeysOf(n) \ (L \cup {s})
           p == n.ent[s]
           l0 == Half(n, L, p)
           r0 == Half(n, R, n.last)
           left == IF s <= k THEN l0 ELSE InnerPut(l0, k, l, r)
           right == IF s <= k THEN InnerPut(r0, k, l, r) ELSE r0
           h == SplitInner(n, k, l, r)
<1>1. KeysOf(n) \subseteq Int /\ k \in Int
  BY KeysAssumption DEF IsNode
<1>2. c \in Nat
  BY FS_CardinalityType
<1>3. /\ s \in KeysOf(n)
      /\ IsFiniteSet(L) /\ Cardinality(L) = c \div 2
      /\ IsFiniteSet(KeysOf(n) \ L) /\ Cardinality(KeysOf(n) \ L) = c - c \div 2
  BY <1>1, SplitterExists
<1>4. IsFiniteSet(R) /\ Cardinality(R) = c - c \div 2 - 1
  <2>1. R = (KeysOf(n) \ L) \ {s} /\ s \in KeysOf(n) \ L
    BY <1>1, <1>3 DEF Below
  <2> HIDE DEF R, L, s
  <2> QED
    BY <2>1, <1>3, FS_RemoveElement
<1>5. /\ KeysOf(n) = L \cup R \cup {s}
      /\ \A q \in L : q < s
      /\ \A q \in R : q > s
  BY <1>1, <1>3 DEF Below
<1>6. h.key = s /\ h.left = left /\ h.right = right
  BY DEF SplitInner
<1>7. p = n.ent[s] /\ CutAt(n, s, L, R)
  BY <1>3, <1>5 DEF CutAt
<1> HIDE DEF L, R, s, h, p
<1>8. /\ IsNode(l0, slots) /\ ~l0.leaf /\ KeysOf(l0) = L /\ l0.keyNum = Cardinality(L)
      /\ IsNode(r0, slots) /\ ~r0.leaf /\ KeysOf(r0) = R /\ r0.keyNum = Cardinality(R)
      /\ Distinct(l0) /\ Distinct(r0)
      /\ Pointers(l0) \cap Pointers(r0) = {}
      /\ Pointers(l0) \cup Pointers(r0) = Pointers(n)
  BY <1>7, InnerCutFacts
<1>9. /\ \A x \in Int : x < s => Child(l0, x) = Child(n, x)
      /\ \A x \in Int : x >= s => Child(r0, x) = Child(n, x)
  BY <1>7, InnerCutFacts
<1> HIDE DEF l0, r0
<1>10. /\ c \div 2 \in ((c - 1) \div 2) .. (c \div 2)
      /\ c - c \div 2 - 1 \in ((c - 1) \div 2) .. (c \div 2)
  BY <1>2
<1>11. /\ \A x \in Int : Child(l0, x) \in Pointers(l0)
       /\ \A x \in Int : Child(r0, x) \in Pointers(r0)
  BY <1>3, <1>4, <1>8, ChildIsPointer
<1>12. s # k /\ s \in Int
  BY <1>1, <1>3
<1>13. ASSUME s <= k
       PROVE  SplitAs(n, k, l, r, s, l0, InnerPut(r0, k, l, r), slots)
  <2> DEFINE m == InnerPut(r0, k, l, r)
  <2>1. l = Child(r0, k) /\ k \notin KeysOf(r0) /\ r \notin Pointers(r0)
    BY <1>1, <1>5, <1>8, <1>9, <1>13
  <2>2. /\ IsNode(m, slots) /\ ~m.leaf /\ m.keyNum = r0.keyNum
        /\ KeysOf(m) = R \cup {k} /\ IsFiniteSet(KeysOf(m))
        /\ Cardinality(KeysOf(m)) = Cardinality(R) + 1
        /\ Distinct(m) /\ Pointers(m) = Pointers(r0) \cup {r}
        /\ \A x \in Int : Child(m, x) = Rerouted(Child(r0, x), x, k, l, r)
    BY <1>4, <1>8, <2>1, InnerPutFacts
  <2> HIDE DEF m
  <2>3. /\ KeysOf(l0) \subseteq {q \in KeysOf(n) \cup {k} : q < s}
        /\ KeysOf(m) \subseteq {q \in KeysOf(n) \cup {k} : q > s}
    BY <1>1, <1>5, <1>8, <1>12, <1>13, <2>2
  <2>4. /\ Pointers(l0) \cap Pointers(m) = {}
        /\ Pointers(l0) \cup Pointers(m) = Pointers(n) \cup {r}
    BY <1>8, <2>2
  <2>5. ASSUME NEW x \in Int, x < s
        PROVE  Child(l0, x) = Rerouted(Child(n, x), x, k, l, r)
    BY <1>1, <1>9, <1>12, <1>13, <2>5 DEF Rerouted
  <2>6. ASSUME NEW x \in Int, x >= s
        PROVE  Child(m, x) = Rerouted(Child(n, x), x, k, l, r)
    BY <1>9, <2>2, <2>6
  <2>7. /\ Cardinality(KeysOf(l0)) = l0.keyNum /\ l0.keyNum = c \div 2
        /\ Cardinality(KeysOf(m)) = m.keyNum + 1 /\ m.keyNum = c - c \div 2 - 1
    BY <1>2, <1>3, <1>4, <1>8, <2>2
  <2>8. \A q \in {l0, m} :
          /\ IsNode(q, slots) /\ ~q.leaf /\ IsFiniteSet(KeysOf(q)) /\ Distinct(q)
          /\ Cardinality(KeysOf(q)) \in {q.keyNum, q.keyNum + 1}
          /\ q.keyNum \in ((c - 1) \div 2) .. (c \div 2)
    BY <1>3, <1>8, <1>10, <2>2, <2>7
  <2>9. SplitAs(n, k, l, r, s, l0, m, slots)
    BY <1>3, <1>12, <2>3, <2>4, <2>5, <2>6, <2>8 DEF SplitAs
  <2> QED
    BY <2>9 DEF m
<1>14. ASSUME ~(s <= k)
       PROVE  SplitAs(n, k, l, r, s, InnerPut(l0, k, l, r), r0, slots)
  <2> DEFINE m == InnerPut(l0, k, l, r)
  <2>1. l = Child(l0, k) /\ k \notin KeysOf(l0) /\ r \notin Pointers(l0)
    BY <1>1, <1>5, <1>8, <1>9, <1>12, <1>14
  <2>2. /\ IsNode(m, slots) /\ ~m.leaf /\ m.keyNum = l0.keyNum
        /\ KeysOf(m) = L \cup {k} /\ IsFiniteSet(KeysOf(m))
        /\ Cardinality(KeysOf(m)) = Cardinality(L) + 1
        /\ Distinct(m) /\ Pointers(m) = Pointers(l0) \cup {r}
        /\ \A x \in Int : Child(m, x) = Rerouted(Child(l0, x), x, k, l, r)
    BY <1>3, <1>8, <2>1, InnerPutFacts
  <2> HIDE DEF m
  <2>3. /\ KeysOf(m) \subseteq {q \in KeysOf(n) \cup {k} : q < s}
        /\ KeysOf(r0) \subseteq {q \in KeysOf(n) \cup {k} : q > s}
    BY <1>1, <1>5, <1>8, <1>12, <1>14, <2>2
  <2>4. /\ Pointers(m) \cap Pointers(r0) = {}
        /\ Pointers(m) \cup Pointers(r0) = Pointers(n) \cup {r}
    BY <1>8, <2>2
  <2>5. ASSUME NEW x \in Int, x < s
        PROVE  Child(m, x) = Rerouted(Child(n, x), x, k, l, r)
    BY <1>9, <2>2, <2>5
  <2>6. ASSUME NEW x \in Int, x >= s
        PROVE  Child(r0, x) = Rerouted(Child(n, x), x, k, l, r)
    <3>1. Child(r0, x) = Child(n, x)
      BY <1>9, <2>6
    <3>2. Child(r0, x) \in Pointers(r0) /\ l \in Pointers(l0)
      BY <1>1, <1>11, <2>1
    <3> QED
      BY <1>8, <3>1, <3>2 DEF Rerouted
  <2>7. /\ Cardinality(KeysOf(r0)) = r0.keyNum /\ r0.keyNum = c - c \div 2 - 1
        /\ Cardinality(KeysOf(m)) = m.keyNum + 1 /\ m.keyNum = c \div 2
    BY <1>2, <1>3, <1>4, <1>8, <2>2
  <2>8. \A q \in {m, r0} :
          /\ IsNode(q, slots) /\ ~q.leaf /\ IsFiniteSet(KeysOf(q)) /\ Distinct(q)
          /\ Cardinality(KeysOf(q)) \in {q.keyNum, q.keyNum + 1}
          /\ q.keyNum \in ((c - 1) \div 2) .. (c \div 2)
    BY <1>4, <1>8, <1>10, <2>2, <2>7
  <2>9. SplitAs(n, k, l, r, s, m, r0, slots)
    BY <1>3, <1>12, <2>3, <2>4, <2>5, <2>6, <2>8 DEF SplitAs
  <2> QED
    BY <2>9 DEF m
<1>15. SplitAs(n, k, l, r, s, left, right, slots)
  BY <1>13, <1>14
<1> HIDE DEF left, right
<1>16. SplitAs(n, k, l, r, h.key, h.left, h.right, slots)
  BY <1>6, <1>15
<1> QED
  BY <1>16 DEF h

(* Counting a key changes nothing but the counter.                         *)
LEMMA CountedUp ==
  ASSUME NEW slots, NEW n, IsNode(n, slots)
  PROVE  LET m == Counted(n)
         IN  /\ IsNode(m, slots) /\ m.leaf = n.leaf /\ KeysOf(m) = KeysOf(n)
             /\ m.keyNum = n.keyNum + 1
             /\ Distinct(m) <=> Distinct(n)
             /\ Pointers(m) = Pointers(n)
             /\ \A x : Child(m, x) = Child(n, x)
<1> DEFINE m == Counted(n)
<1>1. m.leaf = n.leaf /\ m.ent = n.ent /\ m.last = n.last /\ m.keyNum = n.keyNum + 1
  BY DEF IsNode, Counted
<1>2. IsNode(m, slots)
  BY DEF IsNode, KeysOf, Counted
<1> HIDE DEF m
<1>3. KeysOf(m) = KeysOf(n)
  BY <1>1 DEF KeysOf
<1>4. Distinct(m) <=> Distinct(n)
  BY <1>1, <1>3 DEF Distinct
<1>5. Pointers(m) = Pointers(n)
  BY <1>1, <1>3 DEF Pointers
<1>6. \A x : Above(m, x) = Above(n, x)
  BY <1>3 DEF Above
<1>7. \A x : Child(m, x) = Child(n, x)
  BY <1>1, <1>6 DEF Child
<1> QED
  BY <1>1, <1>2, <1>3, <1>4, <1>5, <1>7 DEF m

(* The new root over the halves of the old one.                            *)
LEMMA RootOverFacts ==
  ASSUME NEW slots, NEW k \in Keys, NEW l \in slots, NEW r \in slots, l # r
  PROVE  LET m == RootOver(k, l, r)
         IN  /\ IsNode(m, slots) /\ ~m.leaf /\ KeysOf(m) = {k} /\ m.keyNum = 1
             /\ IsFiniteSet(KeysOf(m)) /\ Cardinality(KeysOf(m)) = 1
             /\ Distinct(m) /\ Pointers(m) = {l, r}
             /\ \A x \in Int : Child(m, x) = IF x < k THEN l ELSE r
<1> DEFINE m == RootOver(k, l, r)
<1>1. k \in Int
  BY KeysAssumption
<1>2. ~m.leaf /\ m.last = r /\ m.keyNum = 1 /\ m.ent = Put([q \in {} |-> NoSlot], k, l)
  BY DEF RootOver
<1>3. KeysOf(m) = {k} /\ m.ent[k] = l /\ m.ent \in [{k} -> slots]
  BY <1>2 DEF Put, KeysOf
<1>4. m \in [leaf : BOOLEAN, ent : [{k} -> slots], last : slots, keyNum : Nat]
  BY <1>2, <1>3 DEF RootOver
<1> HIDE DEF m
<1>5. IsNode(m, slots)
  BY <1>2, <1>3, <1>4 DEF IsNode
<1>6. IsFiniteSet(KeysOf(m)) /\ Cardinality(KeysOf(m)) = 1
  BY <1>3, FS_Singleton
<1>7. Distinct(m) /\ Pointers(m) = {l, r}
  BY <1>2, <1>3 DEF Distinct, Pointers
<1>8. ASSUME NEW x \in Int
      PROVE  Child(m, x) = IF x < k THEN l ELSE r
  <2>1. ASSUME x < k
        PROVE  Child(m, x) = l
    <3>1. Successor(m, x, k)
      BY <1>1, <1>3, <2>1 DEF Successor
    <3> QED
      BY <3>1, <1>3, <1>5, <1>6, ChildIs
  <2>2. ASSUME ~(x < k)
        PROVE  Child(m, x) = r
    <3>1. NoneAbove(m, x)
      BY <1>1, <1>3, <2>2 DEF NoneAbove
    <3> QED
      BY <3>1, <1>2, <1>5, <1>6, ChildIs
  <2> QED
    BY <2>1, <2>2
<1> QED
  BY <1>2, <1>3, <1>5, <1>6, <1>7, <1>8 DEF m

-----------------------------------------------------------------------------
(* The invariant of the tree.                                              *)

(* A call that runs was not refused.                                       *)
Admitted == pc # "idle" => mKeyNum + 1 <= MaxKeyNum

InnerDistinct == \A s \in Inner : Distinct(nodes[s])

(* The left half of a node that was split is not less than half full, even *)
(* if it is still the root.                                                *)
LeftKept == Pending => HalfFull(nodes[split.left])

InTree == pc \in {"descend", "ascend"}

(* The path is the way from the root to cur that a search for key takes.   *)
OnPath ==
  /\ path = <<>> => cur = root
  /\ path # <<>> => path[1] = root /\ Child(nodes[Top(path)], key) = cur
  /\ \A i \in 1 .. Len(path) : ~nodes[path[i]].leaf
  /\ \A i \in 1 .. Len(path) - 1 : Child(nodes[path[i]], key) = path[i + 1]

(* The keys of s are below those of t.                                     *)
Before(dom, s, t) == \A x \in dom[s], y \in dom[t] : x < y

(* nxt leads from every leaf to the one that comes next in key order.      *)
Linked(L, nxt, dom) ==
  \A s \in L :
    /\ nxt[s] # NoSlot => nxt[s] \in L \ {s} /\ Before(dom, s, nxt[s])
    /\ \A t \in L \ {s} :
         \/ Before(dom, t, s)
         \/ nxt[s] # NoSlot /\ Before(dom, s, t) /\ (t # nxt[s] => Before(dom, nxt[s], t))

NextLeaf == [s \in Leaves |-> nodes[s].last]

(* The leaf chain goes on to the next leaf, in the middle of a split too.  *)
Chained(dom) == Linked(Leaves, NextLeaf, dom)

(* dom and hgt are ranges and heights of the nodes, and the running call   *)
(* is where the range of its key is.                                       *)
Ranged(dom, hgt) ==
  /\ WellRanged(dom)
  /\ Leveled(hgt, dom)
  /\ Chained(dom)
  /\ \A s \in DOMAIN nodes : hgt[s] <= hgt[root]
  /\ pc = "descend" => key \in dom[cur]
  /\ InTree => \A i \in 1 .. Len(path) : hgt[path[i]] = hgt[cur] + (Len(path) + 1 - i)

(* The inductive invariant.                                                *)
TreeInv ==
  /\ TypeOK
  /\ KeyCounts
  /\ Admitted
  /\ InnerDistinct
  /\ LeftKept
  /\ InTree => OnPath
  /\ Pending => split.left = cur
  /\ \E dom \in [DOMAIN nodes -> SUBSET Keys], hgt \in [DOMAIN nodes -> Nat] : Ranged(dom, hgt)

-----------------------------------------------------------------------------
(* A slot that GetNewNodeSlot hands out is a free one.                     *)
LEMMA NewSlot ==
  ASSUME TypeOK, Free # {}
  PROVE  GetNewNodeSlot \in Slots /\ GetNewNodeSlot \notin DOMAIN nodes
<1>1. Free \in SUBSET Slots /\ Slots \in SUBSET Int /\ IsFiniteSet(Slots)
  BY SlotsAssumption DEF Free
<1> IsFiniteSet(Free)
  BY <1>1, FS_Subset
<1>2. Least(Free) \in Free
  BY <1>1, LeastExists
<1> QED
  BY <1>2 DEF GetNewNodeSlot, Free, TypeOK

(* The lowest slot.                                                        *)
LEMMA FirstSlotIsSlot == FirstSlot \in Slots
<1>1. Slots \in SUBSET Int
  BY SlotsAssumption
<1> QED
  BY <1>1, SlotsAssumption, LeastExists DEF FirstSlot

(* Pushing a node on the path.                                             *)
LEMMA Pushed ==
  ASSUME NEW S, NEW p \in Seq(S), NEW c \in S
  PROVE  LET q == Append(p, c)
         IN  /\ q \in Seq(S) /\ Len(q) = Len(p) + 1 /\ Len(p) \in Nat
             /\ q # <<>> /\ Top(q) = c /\ q[Len(p) + 1] = c
             /\ \A i \in 1 .. Len(p) : q[i] = p[i]
<1>1. Append(p, c) # <<>>
  BY AppendProperties
<1> QED
  BY <1>1, AppendProperties, LenProperties DEF Top

(* Popping it.                                                             *)
LEMMA Popped ==
  ASSUME NEW S, NEW p \in Seq(S), p # <<>>
  PROVE  LET q == ButTop(p)
         IN  /\ q \in Seq(S) /\ Len(q) = Len(p) - 1 /\ Len(p) \in Nat /\ Len(p) >= 1
             /\ Top(p) = p[Len(p)] /\ Top(p) \in S
             /\ \A i \in 1 .. Len(q) : q[i] = p[i]
             /\ q = <<>> => Len(p) = 1
             /\ q # <<>> => Len(q) >= 1 /\ q[1] = p[1] /\ Top(q) = p[Len(p) - 1]
<1>1. Len(p) \in Nat /\ Len(p) >= 1
  BY EmptySeq, LenProperties
<1>2. \A i \in 1 .. Len(p) : p[i] \in S
  BY ElementOfSeq
<1>3. /\ ButTop(p) \in Seq(S) /\ Len(ButTop(p)) = Len(p) - 1
      /\ \A i \in 1 .. Len(p) - 1 : ButTop(p)[i] = p[i]
  <2> DEFINE m == Len(p) - 1
             q == SubSeq(p, 1, m)
  <2>1. m \in Int /\ m >= 0 /\ \A i \in 1 .. m : p[i] \in S
    BY <1>1, <1>2
  <2> HIDE DEF m
  <2>2. /\ q \in Seq(S) /\ Len(q) = IF 1 <= m THEN m - 1 + 1 ELSE 0
        /\ \A i \in 1 .. m - 1 + 1 : q[i] = p[1 + i - 1]
    BY <2>1, SubSeqProperties
  <2> HIDE DEF q
  <2>3. Len(q) = m
    BY <2>1, <2>2
  <2>4. ASSUME NEW i \in 1 .. m
        PROVE  q[i] = p[i]
    <3>1. i \in 1 .. m - 1 + 1 /\ 1 + i - 1 = i
      BY <2>1, <2>4
    <3> QED
      BY <3>1, <2>2
  <2> QED
    BY <2>2, <2>3, <2>4 DEF ButTop, m, q
<1>4. ButTop(p) = <<>> => Len(ButTop(p)) = 0
  OBVIOUS
<1>5. ButTop(p) # <<>> => Len(ButTop(p)) # 0
  BY <1>3, EmptySeq
<1> HIDE DEF ButTop
<1> QED
  BY <1>1, <1>2, <1>3, <1>4, <1>5 DEF Top

(* The chain is as good as it was if no leaf changes its range or its next.*)
LEMMA ChainKept ==
  ASSUME NEW dom, NEW d, Chained(dom), Leaves' = Leaves,
         \A s \in Leaves : nodes'[s].last = nodes[s].last /\ d[s] = dom[s]
  PROVE  Chained(d)'
<1>1. NextLeaf' = NextLeaf
  BY DEF NextLeaf
<1>2. PICK nxt : nxt = NextLeaf
  OBVIOUS
<1>3. PICK L : L = Leaves
  OBVIOUS
<1>4. Linked(L, nxt, dom) /\ \A s \in L : d[s] = dom[s]
  BY <1>2, <1>3 DEF Chained
<1>5. \A s, t \in L : Before(d, s, t) <=> Before(dom, s, t)
  BY <1>4 DEF Before
<1>6. Linked(L, nxt, d)
  BY <1>4, <1>5 DEF Linked
<1> QED
  BY <1>1, <1>2, <1>3, <1>6 DEF Chained

(* A leaf s whose upper keys go to a new leaf is followed by that leaf,    *)
(* and the new leaf by what s was followed by.                             *)
LEMMA ChainSplit ==
  ASSUME NEW L, NEW s \in L, NEW new, new \notin L, new # NoSlot,
         NEW nxt, NEW dom, Linked(L, nxt, dom),
         NEW f, f[s] = new, f[new] = nxt[s], \A t \in L \ {s} : f[t] = nxt[t],
         NEW d, \A t \in L \ {s} : d[t] = dom[t],
         d[s] \subseteq dom[s], d[new] \subseteq dom[s], Before(d, s, new)
  PROVE  Linked(L \cup {new}, f, d)
<1> DEFINE M == L \cup {new}
<1>1. \A t \in L : d[t] \subseteq dom[t]
  OBVIOUS
<1>2. \A t, u \in L : Before(dom, t, u) => Before(d, t, u)
  BY <1>1 DEF Before
<1>3. \A t \in L : Before(dom, t, s) => Before(d, t, new)
  BY <1>1 DEF Before
<1>4. \A t \in L : Before(dom, s, t) => Before(d, new, t)
  BY <1>1 DEF Before
<1>5. ASSUME NEW t \in L
      PROVE  /\ nxt[t] # NoSlot => nxt[t] \in L \ {t} /\ Before(dom, t, nxt[t])
             /\ \A u \in L \ {t} :
                  \/ Before(dom, u, t)
                  \/ nxt[t] # NoSlot /\ Before(dom, t, u) /\ (u # nxt[t] => Before(dom, nxt[t], u))
  BY DEF Linked
<1>6. ASSUME NEW t \in M
      PROVE  f[t] # NoSlot => f[t] \in M \ {t} /\ Before(d, t, f[t])
  <2>1. CASE t = s
    BY <2>1
  <2>2. CASE t = new
    BY <2>2, <1>4, <1>5
  <2>3. CASE t \in L \ {s}
    BY <2>3, <1>2, <1>5
  <2> QED
    BY <2>1, <2>2, <2>3
<1>7. ASSUME NEW t \in M, NEW u \in M \ {t}, ~Before(d, u, t)
      PROVE  f[t] # NoSlot /\ Before(d, t, u) /\ (u # f[t] => Before(d, f[t], u))
  <2>1. CASE t = s
    <3>1. CASE u = new
      BY <2>1, <3>1
    <3>2. CASE u # new
      <4>1. u \in L \ {s} /\ ~Before(dom, u, s)
        BY <2>1, <3>2, <1>2, <1>7
      <4>2. Before(dom, s, u)
        BY <4>1, <1>5
      <4> QED
        BY <2>1, <4>1, <4>2, <1>2, <1>4
    <3> QED
      BY <3>1, <3>2
  <2>2. CASE t = new
    <3>1. u \in L \ {s} /\ ~Before(dom, u, s)
      BY <2>2, <1>3, <1>7
    <3>2. nxt[s] # NoSlot /\ nxt[s] \in L /\ Before(dom, s, u) /\ (u # nxt[s] => Before(dom, nxt[s], u))
      BY <3>1, <1>5
    <3> QED
      BY <2>2, <3>1, <3>2, <1>2, <1>4
  <2>3. CASE t \in L \ {s} /\ u \in L
    <3>1. ~Before(dom, u, t)
      BY <2>3, <1>2, <1>7
    <3>2. nxt[t] # NoSlot /\ nxt[t] \in L /\ Before(dom, t, u) /\ (u # nxt[t] => Before(dom, nxt[t], u))
      BY <2>3, <3>1, <1>5, <1>7
    <3> QED
      BY <2>3, <3>2, <1>2
  <2>4. CASE t \in L \ {s} /\ u = new
    <3>1. ~Before(dom, s, t)
      BY <2>4, <1>4, <1>7
    <3>2. nxt[t] # NoSlot /\ nxt[t] \in L /\ Before(dom, t, s) /\ (s # nxt[t] => Before(dom, nxt[t], s))
      BY <2>4, <3>1, <1>5
    <3> QED
      BY <2>4, <3>2, <1>3
  <2> QED
    BY <2>1, <2>2, <2>3, <2>4
<1> QED
  BY <1>6, <1>7 DEF Linked

(* Init: one empty leaf that all keys go to.                               *)
LEMMA InitInv == Init => TreeInv
<1> SUFFICES ASSUME Init PROVE TreeInv
  OBVIOUS
<1> DEFINE s == FirstSlot
<1>1. s \in Slots /\ DOMAIN nodes = {s} /\ nodes[s] = EmptyLeaf /\ root = s /\ cur = s
  BY FirstSlotIsSlot DEF Init
<1>2. /\ EmptyLeaf.leaf /\ KeysOf(EmptyLeaf) = {} /\ EmptyLeaf.keyNum = 0
      /\ IsFiniteSet(KeysOf(EmptyLeaf)) /\ Cardinality(KeysOf(EmptyLeaf)) = 0
  BY FS_EmptySet DEF EmptyLeaf, KeysOf
<1>3. IsNode(EmptyLeaf, {s})
  BY DEF IsNode, EmptyLeaf, KeysOf
<1>4. TypeOK
  BY <1>1, <1>3, MaxKeyNumAssumption DEF Init, TypeOK
<1>5. KeyCounts
  BY <1>1, <1>2, MaxElementsAssumption DEF KeyCounts, CountFits
<1>6. pc = "idle" /\ Leaves = {s} /\ Inner = {}
  BY <1>1, <1>2 DEF Init, Leaves, Inner
<1> HIDE DEF s
<1>7. PICK dom : dom = [t \in {s} |-> Keys]
  OBVIOUS
<1>8. PICK hgt : hgt = [t \in {s} |-> 0]
  OBVIOUS
<1>9. Ranged(dom, hgt)
  <2>1. WellRanged(dom)
    BY <1>1, <1>2, <1>6, <1>7 DEF WellRanged, Joint, Pending
  <2>2. Leveled(hgt, dom)
    BY <1>1, <1>2, <1>6, <1>7, <1>8 DEF Leveled, Pending
  <2>3. Chained(dom)
    <3>1. nodes[s].last = NoSlot
      BY <1>1 DEF EmptyLeaf
    <3> QED
      BY <3>1, <1>6 DEF Chained, Linked, NextLeaf
  <2> QED
    BY <2>1, <2>2, <2>3, <1>1, <1>6, <1>8 DEF Ranged, InTree
<1>10. dom \in [DOMAIN nodes -> SUBSET Keys] /\ hgt \in [DOMAIN nodes -> Nat]
  BY <1>1, <1>7, <1>8
<1> QED
  BY <1>4, <1>5, <1>6, <1>9, <1>10
     DEF TreeInv, Admitted, InnerDistinct, LeftKept, InTree, Pending

-----------------------------------------------------------------------------
(* Steps that leave the tree alone while no split is pending.              *)
LEMMA TreeKept ==
  ASSUME UNCHANGED tree, ~Pending, ~Pending'
  PROVE  /\ KeyCounts => KeyCounts'
         /\ InnerDistinct => InnerDistinct'
         /\ LeftKept'
         /\ \A dom : WellRanged(dom) => WellRanged(dom)'
         /\ \A hgt, dom : Leveled(hgt, dom) => Leveled(hgt, dom)'
         /\ \A dom : Chained(dom) => Chained(dom)'
<1>1. nodes' = nodes /\ root' = root
  BY DEF tree
<1>2. KeyCounts => KeyCounts'
  BY <1>1 DEF KeyCounts
<1>3. InnerDistinct => InnerDistinct'
  BY <1>1 DEF InnerDistinct, Inner, Leaves
<1>4. LeftKept'
  BY DEF LeftKept
<1>5. ASSUME NEW dom, WellRanged(dom)
      PROVE  WellRanged(dom)'
  BY <1>1, <1>5 DEF WellRanged, Joint, Inner, Leaves
<1>6. ASSUME NEW hgt, NEW dom, Leveled(hgt, dom)
      PROVE  Leveled(hgt, dom)'
  BY <1>1, <1>6 DEF Leveled, Inner, Leaves
<1>7. ASSUME NEW dom, Chained(dom)
      PROVE  Chained(dom)'
  <2>1. Leaves' = Leaves
    BY <1>1 DEF Leaves
  <2> QED
    BY <2>1, <1>1, <1>7, ChainKept
<1> QED
  BY <1>2, <1>3, <1>4, <1>5, <1>6, <1>7

(* A call is admitted, refused or returns.                                 *)
LEMMA InsertCallInv ==
  ASSUME TreeInv, NEW k \in Keys, NEW v \in Values, InsertCall(k, v)
  PROVE  TreeInv'
<1> USE DEF TreeInv
<1>1. ~Pending /\ ~Pending' /\ UNCHANGED tree /\ nodes' = nodes /\ root' = root
  BY DEF InsertCall, Pending, tree
<1>2. TypeOK'
  BY DEF InsertCall, tree, TypeOK
<1>3. Admitted'
  BY DEF InsertCall, Admitted
<1>4. OnPath'
  <2>1. path' = <<>> /\ Len(path') = 0 /\ cur' = root'
    BY DEF InsertCall, tree
  <2> QED
    BY <2>1 DEF OnPath
<1>5. PICK dom \in [DOMAIN nodes -> SUBSET Keys], hgt \in [DOMAIN nodes -> Nat] : Ranged(dom, hgt)
  OBVIOUS
<1>6. Ranged(dom, hgt)'
  <2>1. dom[root] = Keys
    BY <1>1, <1>5 DEF Ranged, WellRanged, Joint
  <2>2. WellRanged(dom)' /\ Leveled(hgt, dom)' /\ Chained(dom)'
    BY <1>1, <1>5, TreeKept DEF Ranged
  <2> QED
    BY <1>1, <1>5, <2>1, <2>2 DEF Ranged, InsertCall, InTree
<1> QED
  BY <1>1, <1>2, <1>3, <1>4, <1>5, <1>6, TreeKept

(* A call on a full tree is refused.                                       *)
LEMMA InsertFullInv ==
  ASSUME TreeInv, InsertFull
  PROVE  TreeInv'
<1> USE DEF TreeInv
<1>1. ~Pending /\ ~Pending' /\ UNCHANGED tree /\ nodes' = nodes /\ root' = root /\ ~InTree'
  BY DEF InsertFull, Pending, tree, InTree
<1>2. TypeOK'
  BY DEF InsertFull, tree, TypeOK
<1>3. Admitted'
  BY DEF InsertFull, Admitted
<1>4. PICK dom \in [DOMAIN nodes -> SUBSET Keys], hgt \in [DOMAIN nodes -> Nat] : Ranged(dom, hgt)
  OBVIOUS
<1>5. Ranged(dom, hgt)'
  BY <1>1, <1>4, TreeKept DEF Ranged, InTree
<1> QED
  BY <1>1, <1>2, <1>3, <1>4, <1>5, TreeKept

(* A call returns; its key was admitted, so it can be counted.             *)
LEMMA InsertReturnInv ==
  ASSUME TreeInv, InsertReturn
  PROVE  TreeInv'
<1> USE DEF TreeInv
<1>1. ~Pending /\ ~Pending' /\ UNCHANGED tree /\ nodes' = nodes /\ root' = root /\ ~InTree'
  BY DEF InsertReturn, Pending, tree, InTree
<1>2. TypeOK'
  BY MaxKeyNumAssumption DEF InsertReturn, tree, TypeOK, Admitted
<1>3. Admitted'
  BY DEF InsertReturn, Admitted
<1>4. PICK dom \in [DOMAIN nodes -> SUBSET Keys], hgt \in [DOMAIN nodes -> Nat] : Ranged(dom, hgt)
  OBVIOUS
<1>5. Ranged(dom, hgt)'
  BY <1>1, <1>4, TreeKept DEF Ranged, InTree
<1> QED
  BY <1>1, <1>2, <1>3, <1>4, <1>5, TreeKept

(* A call may be given up on its way down, the tree being what it was.      *)
LEMMA Abandoned ==
  ASSUME TreeInv, pc = "descend", pc' = "idle", ret' \in BOOLEAN,
         UNCHANGED <<tree, mKeyNum, key, val, cur, path, split>>
  PROVE  TreeInv'
<1> USE DEF TreeInv
<1>1. /\ ~Pending /\ ~Pending' /\ UNCHANGED tree /\ nodes' = nodes /\ root' = root /\ ~InTree'
      /\ bitmap' = bitmap
  BY DEF Pending, tree, InTree
<1>2. TypeOK'
  BY <1>1 DEF TypeOK
<1>3. Admitted'
  BY DEF Admitted
<1>4. PICK dom \in [DOMAIN nodes -> SUBSET Keys], hgt \in [DOMAIN nodes -> Nat] : Ranged(dom, hgt)
  OBVIOUS
<1>5. Ranged(dom, hgt)'
  BY <1>1, <1>4, TreeKept DEF Ranged, InTree
<1> QED
  BY <1>1, <1>2, <1>3, <1>4, <1>5, TreeKept

(* The search goes down to a child whose range its key is in.              *)
LEMMA DescendInv ==
  ASSUME TreeInv, Descend
  PROVE  TreeInv'
<1> USE DEF TreeInv
<1> DEFINE n == nodes[cur]
           c == Child(n, key)
<1>1. /\ ~Pending /\ ~Pending' /\ UNCHANGED tree /\ nodes' = nodes /\ root' = root
      /\ InTree /\ InTree'
  BY DEF Descend, Pending, tree, InTree
<1>2. IsNode(n, DOMAIN nodes) /\ IsFiniteSet(KeysOf(n)) /\ ~n.leaf /\ key \in Int /\ key \in Keys
  BY KeysAssumption DEF Descend, TypeOK, KeyCounts, CountFits
<1>3. c \in Pointers(n) /\ c \in DOMAIN nodes
  <2>1. c \in Pointers(n)
    BY <1>2, ChildIsPointer
  <2> QED
    BY <2>1, <1>2 DEF Pointers, IsNode
<1>4. TypeOK'
  BY <1>3 DEF Descend, tree, TypeOK
<1>5. Admitted'
  BY DEF Descend, Admitted
<1>6. cur \in DOMAIN nodes /\ cur' = c /\ key' = key
  BY DEF Descend, TypeOK
<1>7. PICK q : q = Append(path, cur)
  OBVIOUS
<1>8. path' = q
  BY <1>7 DEF Descend
<1>9. /\ Len(q) = Len(path) + 1 /\ Len(path) \in Nat
      /\ q # <<>> /\ Top(q) = cur /\ q[Len(path) + 1] = cur
      /\ \A i \in 1 .. Len(path) : q[i] = path[i]
  BY <1>7, Pushed DEF TypeOK
<1>10. OnPath'
  <2>1. \A i \in 1 .. Len(q) : ~nodes[q[i]].leaf
    BY <1>1, <1>2, <1>9 DEF OnPath
  <2>2. q[1] = root
    BY <1>1, <1>9, EmptySeq DEF OnPath, TypeOK
  <2>3. ASSUME NEW i \in 1 .. Len(q) - 1
        PROVE  Child(nodes[q[i]], key) = q[i + 1]
    <3>1. CASE i \in 1 .. Len(path) - 1
      <4>1. q[i] = path[i] /\ q[i + 1] = path[i + 1]
        BY <3>1, <1>9
      <4> QED
        BY <4>1, <3>1, <1>1 DEF OnPath
    <3>2. CASE i = Len(path)
      <4>1. path # <<>>
        BY <3>2, EmptySeq
      <4>2. q[i] = Top(path) /\ q[i + 1] = cur
        BY <3>2, <1>9 DEF Top
      <4> QED
        BY <4>1, <4>2, <1>1 DEF OnPath
    <3> QED
      BY <3>1, <3>2, <1>9
  <2> QED
    BY <1>1, <1>6, <1>8, <1>9, <2>1, <2>2, <2>3 DEF OnPath
<1>11. PICK dom \in [DOMAIN nodes -> SUBSET Keys], hgt \in [DOMAIN nodes -> Nat] : Ranged(dom, hgt)
  OBVIOUS
<1>12. Ranged(dom, hgt)'
  <2>1. cur \in Inner
    BY <1>2, <1>6 DEF Inner, Leaves
  <2>2. key \in dom[c]
    BY <1>1, <1>2, <1>3, <1>11, <2>1 DEF Ranged, WellRanged, Joint, Descend
  <2>3. hgt[cur] = hgt[c] + 1
    BY <1>3, <1>11, <2>1 DEF Ranged, Leveled
  <2>4. ASSUME NEW i \in 1 .. Len(q)
        PROVE  hgt[q[i]] = hgt[c] + (Len(q) + 1 - i)
    <3>1. CASE i \in 1 .. Len(path)
      <4>1. hgt[path[i]] = hgt[cur] + (Len(path) + 1 - i)
        BY <3>1, <1>1, <1>11 DEF Ranged
      <4>2. hgt[q[i]] = hgt[cur] + (Len(path) + 1 - i)
        BY <4>1, <3>1, <1>9
      <4>3. Len(q) = Len(path) + 1 /\ Len(path) \in Nat /\ hgt[c] \in Nat
        BY <1>3, <1>9, <1>11
      <4> QED
        BY <4>2, <4>3, <2>3
    <3>2. CASE i = Len(path) + 1
      <4>1. q[i] = cur
        BY <3>2, <1>9
      <4>2. Len(q) = Len(path) + 1 /\ Len(path) \in Nat /\ hgt[c] \in Nat
        BY <1>3, <1>9, <1>11
      <4> QED
        BY <3>2, <4>1, <4>2, <2>3
    <3> QED
      BY <3>1, <3>2, <1>9
  <2>5. WellRanged(dom)' /\ Leveled(hgt, dom)' /\ Chained(dom)'
    BY <1>1, <1>11, TreeKept DEF Ranged
  <2> QED
    BY <1>1, <1>6, <1>8, <1>11, <2>2, <2>4, <2>5 DEF Ranged
<1> QED
  BY <1>1, <1>4, <1>5, <1>10, <1>11, <1>12, TreeKept

(* A leaf with room takes a key of its range.                              *)
LEMMA LeafInsertInv ==
  ASSUME TreeInv, LeafInsert
  PROVE  TreeInv'
<1> USE DEF TreeInv
<1> DEFINE n == nodes[cur]
<1>1. PICK m : m = LeafPut(n, key, val)
  OBVIOUS
<1>2. /\ nodes' = [nodes EXCEPT ![cur] = m]
      /\ bitmap' = bitmap /\ root' = root
      /\ cur \in DOMAIN nodes /\ key \in Keys /\ val \in Values
      /\ n.leaf /\ n.keyNum < MaxElements
      /\ ~Pending /\ ~Pending' /\ ~InTree'
  BY <1>1 DEF LeafInsert, TypeOK, Pending, InTree
<1>3. DOMAIN nodes' = DOMAIN nodes /\ \A s \in DOMAIN nodes : nodes'[s] = IF s = cur THEN m ELSE nodes[s]
  BY <1>2
<1>4. IsNode(n, DOMAIN nodes) /\ IsFiniteSet(KeysOf(n)) /\ n.keyNum = Cardinality(KeysOf(n))
  BY <1>2 DEF TypeOK, KeyCounts, CountFits
<1>5. /\ IsNode(m, DOMAIN nodes) /\ m.leaf
      /\ KeysOf(m) = KeysOf(n) \cup {key} /\ IsFiniteSet(KeysOf(m))
      /\ m.keyNum = Cardinality(KeysOf(m))
      /\ Cardinality(KeysOf(m)) \in {Cardinality(KeysOf(n)), Cardinality(KeysOf(n)) + 1}
  BY <1>1, <1>2, <1>4, LeafPutFacts
<1>6. Cardinality(KeysOf(n)) \in Nat
  BY <1>4, FS_CardinalityType
<1>7. TypeOK'
  BY <1>2, <1>3, <1>5 DEF LeafInsert, TypeOK
<1>8. KeyCounts'
  <2>1. m.keyNum <= MaxElements
    BY <1>1, <1>2, <1>4, <1>5, LeafPutFacts, MaxElementsAssumption DEF IsNode
  <2>2. CountFits(m)
    BY <1>5, <2>1 DEF CountFits
  <2>3. HalfFull(n) => HalfFull(m)
    BY <1>5, <1>6, MaxElementsAssumption DEF HalfFull
  <2> QED
    BY <1>2, <1>3, <2>2, <2>3 DEF KeyCounts
<1>9. Admitted' /\ LeftKept'
  BY <1>2 DEF LeafInsert, Admitted, LeftKept
<1>10. Inner' = Inner /\ \A s \in Inner : nodes'[s] = nodes[s]
  BY <1>2, <1>3, <1>5 DEF Inner, Leaves
<1>11. InnerDistinct'
  BY <1>10 DEF InnerDistinct
<1>12. PICK dom \in [DOMAIN nodes -> SUBSET Keys], hgt \in [DOMAIN nodes -> Nat] : Ranged(dom, hgt)
  OBVIOUS
<1>13. Ranged(dom, hgt)'
  <2>1. key \in dom[cur]
    BY <1>12 DEF Ranged, LeafInsert
  <2>2. WellRanged(dom)'
    BY <1>2, <1>3, <1>5, <1>10, <1>12, <2>1 DEF Ranged, WellRanged, Joint
  <2>3. Leveled(hgt, dom)'
    BY <1>2, <1>3, <1>5, <1>10, <1>12 DEF Ranged, Leveled
  <2>4. Chained(dom)'
    <3>1. m.last = n.last
      BY <1>1 DEF LeafPut
    <3>2. Leaves' = Leaves /\ \A s \in Leaves : nodes'[s].last = nodes[s].last
      BY <1>2, <1>3, <1>5, <3>1 DEF Leaves
    <3> QED
      BY <1>12, <3>2, ChainKept DEF Ranged
  <2> QED
    BY <1>2, <1>3, <1>12, <2>2, <2>3, <2>4 DEF Ranged, LeafInsert, InTree
<1> QED
  BY <1>2, <1>3, <1>7, <1>8, <1>9, <1>11, <1>12, <1>13

-----------------------------------------------------------------------------
(* The tree after a split of node s at key k: its range is shared out      *)
(* between s and the new node.                                             *)
SplitRange(dom, s, k, new) ==
  [t \in DOMAIN dom \cup {new} |->
     IF t = new THEN {x \in dom[s] : x >= k} ELSE IF t = s THEN {x \in dom[s] : x < k} ELSE dom[t]]

SplitHeight(hgt, s, new) == [t \in DOMAIN hgt \cup {new} |-> IF t = new THEN hgt[s] ELSE hgt[t]]

(* The shares make up the range that was shared out, and nodes of one      *)
(* height still have disjoint ranges.                                      *)
Apart(S, dom, hgt) == \A x, y \in S : x # y /\ hgt[x] = hgt[y] => dom[x] \cap dom[y] = {}

Shares(S, dom, hgt, s, k, new, d, g) ==
  LET T == S \cup {new}
  IN  /\ d \in [T -> SUBSET Keys]
      /\ d[new] = {x \in dom[s] : x >= k} /\ d[s] = {x \in dom[s] : x < k}
      /\ d[s] \cup d[new] = dom[s]
      /\ \A t \in S : t # s => d[t] = dom[t]
      /\ g \in [T -> Nat] /\ g[new] = hgt[s] /\ \A t \in S : g[t] = hgt[t]
      /\ Apart(S, dom, hgt) => Apart(T, d, g)

(* SplitRange and SplitHeight share a node out as Shares says.             *)
LEMMA SplitShares ==
  ASSUME NEW S, NEW dom \in [S -> SUBSET Keys], NEW hgt \in [S -> Nat],
         NEW s \in S, NEW k \in Int, NEW new, new \notin S
  PROVE  Shares(S, dom, hgt, s, k, new, SplitRange(dom, s, k, new), SplitHeight(hgt, s, new))
<1> DEFINE d == SplitRange(dom, s, k, new)
           g == SplitHeight(hgt, s, new)
           T == S \cup {new}
<1>1. /\ d \in [T -> SUBSET Keys]
      /\ d[new] = {x \in dom[s] : x >= k} /\ d[s] = {x \in dom[s] : x < k}
      /\ \A t \in S : t # s => d[t] = dom[t]
  BY DEF SplitRange
<1>2. g \in [T -> Nat] /\ g[new] = hgt[s] /\ \A t \in S : g[t] = hgt[t]
  BY DEF SplitHeight
<1> HIDE DEF d, g
<1>3. dom[s] \subseteq Int
  BY KeysAssumption
<1>4. d[s] \cup d[new] = dom[s] /\ d[s] \cap d[new] = {}
  BY <1>1, <1>3
<1>5. ASSUME Apart(S, dom, hgt), NEW x \in T, NEW y \in T, x # y, g[x] = g[y]
      PROVE  d[x] \cap d[y] = {}
  <2> DEFINE old(t) == IF t = new THEN s ELSE t
  <2>1. \A t \in T : old(t) \in S /\ d[t] \subseteq dom[old(t)] /\ g[t] = hgt[old(t)]
    BY <1>1, <1>2, <1>4
  <2>2. CASE old(x) = old(y)
    <3>1. (x = s /\ y = new) \/ (x = new /\ y = s)
      BY <2>2, <1>5
    <3> QED
      BY <3>1, <1>4
  <2>3. CASE old(x) # old(y)
    <3>1. dom[old(x)] \cap dom[old(y)] = {}
      BY <2>1, <2>3, <1>5 DEF Apart
    <3> QED
      BY <3>1, <2>1
  <2> QED
    BY <2>2, <2>3
<1> QED
  BY <1>1, <1>2, <1>4, <1>5 DEF Apart, Shares, d, g

(* A full leaf is split.                                                   *)
LEMMA LeafSplitInv ==
  ASSUME TreeInv, LeafSplit
  PROVE  TreeInv'
<1> USE DEF TreeInv
<1> DEFINE n == nodes[cur]
<1>1. PICK new : new = GetNewNodeSlot
  OBVIOUS
<1>2. PICK h : h = SplitLeaf(n, key, val, new)
  OBVIOUS
<1> DEFINE S == DOMAIN nodes \cup {new}
<1>3. new \in Slots /\ new \notin DOMAIN nodes
  BY <1>1, NewSlot DEF LeafSplit
<1>4. /\ nodes' = [t \in S |-> IF t = new THEN h.right ELSE IF t = cur THEN h.left ELSE nodes[t]]
      /\ bitmap' = bitmap \cup {new}
      /\ split' = [key |-> h.key, left |-> cur, right |-> new]
      /\ pc' = "ascend"
      /\ root' = root /\ mKeyNum' = mKeyNum /\ key' = key /\ val' = val /\ cur' = cur
      /\ path' = path /\ ret' = ret
  BY <1>1, <1>2 DEF LeafSplit, RecordSplit
<1>5. /\ cur \in DOMAIN nodes /\ key \in Keys /\ val \in Values
      /\ n.leaf /\ n.keyNum >= MaxElements
      /\ ~Pending /\ InTree /\ Pending' /\ InTree'
  BY <1>4 DEF LeafSplit, TypeOK, Pending, InTree
<1>6. /\ DOMAIN nodes' = S /\ nodes'[new] = h.right /\ nodes'[cur] = h.left
      /\ \A t \in DOMAIN nodes : t # cur => nodes'[t] = nodes[t]
  BY <1>3, <1>4, <1>5
<1>7. /\ IsNode(n, S) /\ IsFiniteSet(KeysOf(n)) /\ n.keyNum = Cardinality(KeysOf(n))
      /\ Cardinality(KeysOf(n)) = MaxElements
  <2>1. IsNode(n, DOMAIN nodes) /\ IsFiniteSet(KeysOf(n)) /\ n.keyNum = Cardinality(KeysOf(n))
    BY <1>5 DEF TypeOK, KeyCounts, CountFits
  <2>2. n.keyNum <= MaxElements /\ n.keyNum \in Nat
    BY <1>5, <2>1 DEF KeyCounts, CountFits, IsNode
  <2> QED
    BY <1>5, <2>1, <2>2, NodeMonotone, MaxElementsAssumption
<1>8. /\ h.key \in KeysOf(n)
      /\ IsNode(h.left, S) /\ h.left.leaf /\ h.left.last = new
      /\ IsNode(h.right, S) /\ h.right.leaf /\ h.right.last = n.last
      /\ KeysOf(h.left) = {q \in KeysOf(n) \cup {key} : q < h.key}
      /\ KeysOf(h.right) = {q \in KeysOf(n) \cup {key} : q >= h.key}
      /\ \A m \in {h.left, h.right} :
           /\ IsFiniteSet(KeysOf(m)) /\ m.keyNum = Cardinality(KeysOf(m))
           /\ Cardinality(KeysOf(m)) \in (Cardinality(KeysOf(n)) \div 2) .. Cardinality(KeysOf(n))
  <2>1. Cardinality(KeysOf(n)) >= 2 /\ new \in S
    BY <1>7, MaxElementsAssumption
  <2> HIDE DEF S
  <2> QED
    BY <1>2, <1>5, <1>7, <2>1, SplitLeafFacts
<1>9. h.key \in Keys
  BY <1>7, <1>8 DEF IsNode
<1>10. TypeOK'
  <2>1. \A t \in S : IsNode(nodes'[t], S)
    BY <1>6, <1>8, NodeMonotone DEF TypeOK
  <2>2. path \in Seq(S)
    BY SeqMonotonic DEF TypeOK
  <2> QED
    BY <1>3, <1>4, <1>5, <1>6, <1>9, <2>1, <2>2 DEF TypeOK
<1>11. KeyCounts' /\ LeftKept'
  <2>1. \A m \in {h.left, h.right} : CountFits(m) /\ HalfFull(m)
    BY <1>7, <1>8, MaxElementsAssumption DEF CountFits, HalfFull
  <2> QED
    BY <1>4, <1>6, <2>1 DEF KeyCounts, LeftKept
<1>12. Admitted' /\ OnPath'
  <2>1. \A i \in 1 .. Len(path) : path[i] \in DOMAIN nodes /\ path[i] # cur
    BY <1>5, ElementOfSeq DEF TypeOK, OnPath
  <2>2. \A i \in 1 .. Len(path) : nodes'[path[i]] = nodes[path[i]]
    BY <1>6, <2>1
  <2>3. path # <<>> => Len(path) \in 1 .. Len(path)
    BY EmptySeq DEF TypeOK
  <2>4. OnPath
    BY <1>5
  <2>5. OnPath'
    <3>1. path' = path /\ cur' = cur /\ root' = root /\ key' = key
      BY <1>4
    <3>2. \A i \in 1 .. Len(path) : ~nodes'[path[i]].leaf
      BY <2>2, <2>4 DEF OnPath
    <3>3. \A i \in 1 .. Len(path) - 1 : Child(nodes'[path[i]], key) = path[i + 1]
      <4>1. Len(path) \in Nat
        BY LenProperties DEF TypeOK
      <4> QED
        BY <4>1, <2>2, <2>4 DEF OnPath
    <3>4. path # <<>> => path[1] = root /\ Child(nodes'[Top(path)], key) = cur
      BY <2>2, <2>3, <2>4 DEF OnPath, Top
    <3> QED
      BY <3>1, <3>2, <3>3, <3>4, <2>4 DEF OnPath, Top
  <2>6. Admitted'
    BY <1>4, <1>5 DEF Admitted, InTree
  <2> QED
    BY <2>5, <2>6
<1>13. Inner' = Inner /\ \A s \in Inner : nodes'[s] = nodes[s]
  BY <1>3, <1>5, <1>6, <1>8 DEF Inner, Leaves
<1>14. InnerDistinct'
  BY <1>13 DEF InnerDistinct
<1>15. PICK dom \in [DOMAIN nodes -> SUBSET Keys], hgt \in [DOMAIN nodes -> Nat] : Ranged(dom, hgt)
  OBVIOUS
<1>16. PICK d : d = SplitRange(dom, cur, h.key, new)
  OBVIOUS
<1>17. PICK g : g = SplitHeight(hgt, cur, new)
  OBVIOUS
<1>18. /\ d \in [S -> SUBSET Keys]
       /\ d[new] = {x \in dom[cur] : x >= h.key} /\ d[cur] = {x \in dom[cur] : x < h.key}
       /\ d[cur] \cup d[new] = dom[cur]
       /\ \A t \in DOMAIN nodes : t # cur => d[t] = dom[t]
       /\ g \in [S -> Nat] /\ g[new] = hgt[cur] /\ \A t \in DOMAIN nodes : g[t] = hgt[t]
       /\ Apart(DOMAIN nodes, dom, hgt) => Apart(S, d, g)
  <2>1. h.key \in Int
    BY <1>9, KeysAssumption
  <2>2. S = DOMAIN nodes \cup {new} /\ cur \in DOMAIN nodes
    BY <1>5
  <2>3. PICK k : k = h.key
    OBVIOUS
  <2>4. PICK D : D = DOMAIN nodes
    OBVIOUS
  <2>5. dom \in [D -> SUBSET Keys] /\ hgt \in [D -> Nat] /\ cur \in D /\ k \in Int /\ new \notin D
    BY <2>1, <2>2, <2>3, <2>4, <1>3, <1>15
  <2>6. d = SplitRange(dom, cur, k, new) /\ g = SplitHeight(hgt, cur, new) /\ S = D \cup {new}
    BY <2>2, <2>3, <2>4, <1>16, <1>17
  <2> HIDE DEF S, TreeInv
  <2>7. Shares(D, dom, hgt, cur, k, new, d, g)
    BY <2>5, <2>6, SplitShares
  <2> QED
    BY <2>3, <2>4, <2>6, <2>7 DEF Shares
<1>19. \A t \in DOMAIN nodes : Joint(d, t)' = dom[t] /\ Joint(dom, t) = dom[t]
  BY <1>4, <1>5, <1>18 DEF Joint
<1>20. Ranged(d, g)'
  <2> HIDE DEF S
  <2>1. WellRanged(dom) /\ Leveled(hgt, dom)
    BY <1>15 DEF Ranged
  <2>2. WellRanged(d)'
    <3>1. Joint(d, root)' = Keys
      BY <1>4, <1>19, <2>1 DEF WellRanged, TypeOK
    <3>2. \A t \in S : KeysOf(nodes'[t]) \subseteq d[t]
      <4>1. KeysOf(n) \cup {key} \subseteq dom[cur]
        BY <1>5, <1>15, <2>1 DEF Ranged, WellRanged, LeafSplit
      <4>2. KeysOf(h.left) \subseteq d[cur] /\ KeysOf(h.right) \subseteq d[new]
        BY <1>8, <1>18, <4>1
      <4> QED
        BY <1>6, <1>18, <2>1, <4>2 DEF WellRanged, S
    <3>3. ASSUME NEW t \in Inner, NEW c \in Pointers(nodes[t])
          PROVE  Joint(d, c)' = {k \in d[t] : Child(nodes[t], k) = c}
      <4>1. c \in DOMAIN nodes /\ t \in DOMAIN nodes /\ t # cur
        BY <1>5, <3>3 DEF Inner, Leaves, TypeOK, IsNode, Pointers
      <4> QED
        BY <1>18, <1>19, <2>1, <3>3, <4>1 DEF WellRanged
    <3>4. /\ h.key \in d[new]
          /\ \A k \in d[cur] : k < h.key
          /\ \A k \in d[new] : k >= h.key
      <4>1. h.key \in dom[cur] /\ h.key \in Int
        BY <1>5, <1>8, <1>9, <2>1, KeysAssumption DEF WellRanged
      <4> QED
        BY <1>18, <4>1
    <3> QED
      BY <1>4, <1>6, <1>13, <3>1, <3>2, <3>3, <3>4 DEF WellRanged
  <2>3. Leveled(g, d)'
    <3>1. \A t \in S : nodes'[t].leaf <=> g[t] = 0
      BY <1>5, <1>6, <1>8, <1>18, <2>1 DEF Leveled, S
    <3>2. ASSUME NEW t \in Inner, NEW c \in Pointers(nodes[t])
          PROVE  g[t] = g[c] + 1
      <4>1. c \in DOMAIN nodes /\ t \in DOMAIN nodes
        BY <3>2 DEF Inner, Leaves, TypeOK, IsNode, Pointers
      <4> QED
        BY <1>18, <2>1, <3>2, <4>1 DEF Leveled
    <3>3. Apart(S, d, g)
      BY <1>18, <2>1 DEF Apart, Leveled
    <3>4. g[new] = g[cur]
      BY <1>5, <1>18
    <3> QED
      BY <1>4, <1>6, <1>13, <3>1, <3>2, <3>3, <3>4 DEF Leveled, Apart
  <2>4. \A t \in S : g[t] <= g[root]
    BY <1>5, <1>15, <1>18 DEF Ranged, S, TypeOK
  <2>5. ASSUME NEW i \in 1 .. Len(path)
        PROVE  g[path[i]] = g[cur] + (Len(path) + 1 - i)
    <3>1. path[i] \in DOMAIN nodes
      BY ElementOfSeq DEF TypeOK
    <3> QED
      BY <1>5, <1>15, <1>18, <3>1 DEF Ranged
  <2>6. Chained(d)'
    <3>1. Leaves' = Leaves \cup {new} /\ cur \in Leaves /\ new \notin Leaves
      BY <1>3, <1>5, <1>6, <1>8 DEF Leaves, S
    <3>2. PICK L : L = Leaves
      OBVIOUS
    <3>3. PICK nxt : nxt = NextLeaf
      OBVIOUS
    <3>4. PICK f : f = NextLeaf'
      OBVIOUS
    <3>5. nxt[cur] = n.last /\ f[cur] = new /\ f[new] = n.last
      BY <1>5, <1>6, <1>8, <3>1, <3>3, <3>4 DEF NextLeaf
    <3>6. \A t \in L \ {cur} : f[t] = nxt[t] /\ d[t] = dom[t]
      BY <1>6, <1>18, <3>1, <3>2, <3>3, <3>4 DEF NextLeaf, Leaves
    <3>7. Linked(L, nxt, dom)
      BY <1>15, <3>2, <3>3 DEF Ranged, Chained
    <3>8. new # NoSlot
      BY <1>3, SlotsAssumption DEF NoSlot
    <3>9. d[cur] \subseteq dom[cur] /\ d[new] \subseteq dom[cur] /\ Before(d, cur, new)
      <4>1. dom[cur] \subseteq Int /\ h.key \in Int
        BY <1>5, <1>9, <1>15, KeysAssumption
      <4> QED
        BY <1>18, <4>1 DEF Before
    <3>10. Linked(L \cup {new}, f, d)
      BY ONLY <3>1, <3>2, <3>5, <3>6, <3>7, <3>8, <3>9, ChainSplit
    <3> QED
      BY <3>1, <3>2, <3>4, <3>10 DEF Chained
  <2> QED
    BY <1>4, <1>6, <2>2, <2>3, <2>4, <2>5, <2>6 DEF Ranged
<1> QED
  BY <1>4, <1>5, <1>6, <1>10, <1>11, <1>12, <1>14, <1>18, <1>20

-----------------------------------------------------------------------------
(* A split that waits for its parent: node p with contents n is to record  *)
(* that the child l that keys next to k go to was split at k into l and r. *)
(* Once it has, a search of n for x goes to Rerouted(Child(n, x), ...),    *)
(* and that node's range says so already.                                  *)
Waiting(p, n, k, l, r, dom, hgt) ==
  /\ p \in Inner /\ n = nodes[p] /\ k = split.key /\ l = split.left /\ r = split.right
  /\ l \in DOMAIN nodes /\ r \in DOMAIN nodes
  /\ IsNode(n, DOMAIN nodes) /\ IsFiniteSet(KeysOf(n)) /\ Distinct(n)
  /\ k \in Keys /\ k \in dom[p] /\ k \notin KeysOf(n)
  /\ l = Child(n, k) /\ r \notin Pointers(n)
  /\ root # l /\ hgt[p] = hgt[l] + 1 /\ hgt[r] = hgt[l]
  /\ \A t \in Inner : t # p => l \notin Pointers(nodes[t])
  /\ \A c \in Pointers(n) \cup {r} :
       dom[c] = {x \in dom[p] : Rerouted(Child(n, x), x, k, l, r) = c}

(* Every pending split below the root waits as Waiting says.               *)
LEMMA PendingParent ==
  ASSUME TreeInv, Pending, path # <<>>,
         NEW dom \in [DOMAIN nodes -> SUBSET Keys], NEW hgt \in [DOMAIN nodes -> Nat],
         Ranged(dom, hgt)
  PROVE  Waiting(Top(path), nodes[Top(path)], split.key, split.left, split.right, dom, hgt)
<1> USE DEF TreeInv
<1>1. PICK p : p = Top(path)
  OBVIOUS
<1>2. PICK n : n = nodes[p]
  OBVIOUS
<1>3. PICK l : l = split.left
  OBVIOUS
<1>4. PICK r : r = split.right
  OBVIOUS
<1>5. PICK k : k = split.key
  OBVIOUS
<1>6. OnPath /\ InTree /\ cur = l
  BY <1>3 DEF InTree, Pending
<1>7. Len(path) \in Nat /\ Len(path) \in 1 .. Len(path) /\ p = path[Len(path)]
  BY <1>1, EmptySeq, LenProperties DEF TypeOK, Top
<1>8. p \in DOMAIN nodes /\ ~n.leaf
  BY <1>2, <1>6, <1>7, ElementOfSeq DEF TypeOK, OnPath
<1>9. /\ l \in DOMAIN nodes /\ r \in DOMAIN nodes /\ k \in Keys /\ k \in Int
      /\ key \in Keys /\ key \in Int
  BY <1>3, <1>4, <1>5, KeysAssumption DEF TypeOK
<1>10. p \in Inner
  BY <1>2, <1>8 DEF Inner, Leaves
<1>11. IsNode(n, DOMAIN nodes) /\ IsFiniteSet(KeysOf(n)) /\ Distinct(n)
  BY <1>2, <1>8, <1>10 DEF TypeOK, KeyCounts, CountFits, InnerDistinct
<1>12. l = Child(n, key) /\ l \in Pointers(n)
  <2>1. l = Child(n, key)
    BY <1>1, <1>2, <1>6 DEF OnPath
  <2> QED
    BY <2>1, <1>9, <1>11, ChildIsPointer
<1>13. WellRanged(dom) /\ Leveled(hgt, dom)
  BY DEF Ranged
<1>14. hgt[r] = hgt[l] /\ hgt[p] = hgt[l] + 1
  BY <1>2, <1>3, <1>4, <1>10, <1>12, <1>13 DEF Leveled
<1>15. /\ k \in dom[r]
       /\ \A x \in dom[l] : x < k
       /\ \A x \in dom[r] : x >= k
       /\ Joint(dom, l) = dom[l] \cup dom[r]
       /\ \A c : c # l => Joint(dom, c) = dom[c]
  BY <1>3, <1>4, <1>5, <1>13 DEF WellRanged, Joint
<1>16. l # r
  BY <1>9, <1>15
<1>17. \A c \in Pointers(n) : Joint(dom, c) = {x \in dom[p] : Child(n, x) = c}
  BY <1>2, <1>10, <1>13 DEF WellRanged
<1>18. dom[l] \cup dom[r] = {x \in dom[p] : Child(n, x) = l}
  BY <1>12, <1>15, <1>17
<1>19. k \in dom[p] /\ Child(n, k) = l
  BY <1>15, <1>18
<1>20. root # l
  BY <1>8, <1>9, <1>14 DEF Ranged
<1>21. r \notin Pointers(n)
  <2> SUFFICES ASSUME r \in Pointers(n) PROVE FALSE
    OBVIOUS
  <2>1. Child(n, k) = r
    BY <1>15, <1>16, <1>17
  <2> QED
    BY <2>1, <1>16, <1>19
<1>22. \E x \in dom[l] : TRUE
  <2>1. PICK K : K = KeysOf(nodes[l])
    OBVIOUS
  <2>2. IsFiniteSet(K) /\ Cardinality(K) >= (MaxElements - 1) \div 2 /\ K \subseteq dom[l]
    BY <1>3, <1>9, <1>13, <2>1 DEF KeyCounts, CountFits, LeftKept, WellRanged, HalfFull
  <2>3. Cardinality(K) # 0
    BY <2>2, FS_CardinalityType, MaxElementsAssumption
  <2>4. K # {}
    BY <2>3, FS_EmptySet
  <2> QED
    BY <2>2, <2>4
<1>23. k \notin KeysOf(n)
  <2>1. PICK x : x \in dom[l]
    BY <1>22
  <2>2. x \in Int /\ x < k /\ Child(n, x) = Child(n, k)
    BY <2>1, <1>9, <1>15, <1>18, <1>19, KeysAssumption
  <2> QED
    BY <2>2, <1>9, <1>11, NoSeparatorBetween
<1>24. ASSUME NEW t \in Inner, t # p, l \in Pointers(nodes[t])
       PROVE  FALSE
  <2>1. t \in DOMAIN nodes /\ hgt[t] = hgt[p]
    BY <1>13, <1>14, <1>24 DEF Leveled, Inner
  <2>2. dom[t] \cap dom[p] = {}
    BY <2>1, <1>8, <1>13, <1>24 DEF Leveled
  <2>3. dom[l] \cup dom[r] \subseteq dom[t]
    BY <1>13, <1>15, <1>24 DEF WellRanged
  <2> QED
    BY <2>2, <2>3, <1>15, <1>19
<1>25. ASSUME NEW c \in Pointers(n) \cup {r}
       PROVE  dom[c] = {x \in dom[p] : Rerouted(Child(n, x), x, k, l, r) = c}
  <2>1. ASSUME NEW x \in dom[p]
        PROVE  Child(n, x) \in Pointers(n) /\ x \in Int
    <3>1. x \in Int
      BY <1>8, KeysAssumption
    <3> QED
      BY <3>1, <1>11, ChildIsPointer
  <2>2. CASE c = l
    BY <2>1, <2>2, <1>15, <1>16, <1>18, <1>21 DEF Rerouted
  <2>3. CASE c = r
    BY <2>1, <2>3, <1>15, <1>16, <1>18, <1>21 DEF Rerouted
  <2>4. CASE c # l /\ c # r
    <3>1. dom[c] = {x \in dom[p] : Child(n, x) = c}
      BY <2>4, <1>15, <1>17, <1>25
    <3> QED
      BY <3>1, <2>4, <2>1 DEF Rerouted
  <2> QED
    BY <2>2, <2>3, <2>4
<1>26. Waiting(p, n, k, l, r, dom, hgt)
  BY <1>2, <1>3, <1>4, <1>5, <1>9, <1>10, <1>11, <1>14, <1>19, <1>20, <1>21, <1>23, <1>24, <1>25
     DEF Waiting
<1> QED
  BY <1>1, <1>2, <1>3, <1>4, <1>5, <1>26

(* The children of an inner node are nodes.                                *)
LEMMA ChildrenAreNodes ==
  ASSUME TypeOK, NEW t \in Inner
  PROVE  t \in DOMAIN nodes /\ ~nodes[t].leaf /\ Pointers(nodes[t]) \subseteq DOMAIN nodes
<1>1. t \in DOMAIN nodes /\ ~nodes[t].leaf
  BY DEF Inner, Leaves
<1>2. IsNode(nodes[t], DOMAIN nodes)
  BY <1>1 DEF TypeOK
<1> QED
  BY <1>1, <1>2 DEF IsNode, Pointers

(* What is left of the path when the activation on its top resumes.        *)
LEMMA Resumed ==
  ASSUME TypeOK, OnPath, path # <<>>, NEW hgt \in [DOMAIN nodes -> Nat],
         \A i \in 1 .. Len(path) : hgt[path[i]] = hgt[cur] + (Len(path) + 1 - i)
  PROVE  LET q == ButTop(path)
             p == Top(path)
         IN  /\ q \in Seq(DOMAIN nodes) /\ p \in DOMAIN nodes
             /\ q = <<>> => p = root
             /\ q # <<>> => /\ q[1] = root /\ Top(q) # p /\ Top(q) \in DOMAIN nodes
                            /\ Child(nodes[Top(q)], key) = p
             /\ Len(q) \in Nat
             /\ \A i \in 1 .. Len(q) : q[i] \in DOMAIN nodes /\ q[i] # p /\ ~nodes[q[i]].leaf
             /\ \A i \in 1 .. Len(q) - 1 : Child(nodes[q[i]], key) = q[i + 1]
             /\ hgt[p] = hgt[cur] + 1
             /\ \A i \in 1 .. Len(q) : hgt[q[i]] = hgt[p] + (Len(q) + 1 - i)
<1>1. PICK p : p = Top(path)
  OBVIOUS
<1>2. PICK q : q = ButTop(path)
  OBVIOUS
<1>3. PICK m : m = Len(path)
  OBVIOUS
<1>4. /\ q \in Seq(DOMAIN nodes) /\ Len(q) = m - 1 /\ m \in Nat /\ m >= 1
      /\ p = path[m] /\ p \in DOMAIN nodes
      /\ \A i \in 1 .. Len(q) : q[i] = path[i]
      /\ q = <<>> => m = 1
      /\ q # <<>> => Len(q) >= 1 /\ q[1] = path[1] /\ Top(q) = path[m - 1]
  BY <1>1, <1>2, <1>3, Popped DEF TypeOK
<1>5. \A i \in 1 .. m : path[i] \in DOMAIN nodes /\ ~nodes[path[i]].leaf
  BY <1>3, ElementOfSeq DEF TypeOK, OnPath
<1>6. \A i \in 1 .. m : hgt[path[i]] = hgt[cur] + (m + 1 - i)
  BY <1>3
<1>7. path[1] = root /\ \A i \in 1 .. m - 1 : Child(nodes[path[i]], key) = path[i + 1]
  BY <1>3 DEF OnPath
<1>8. cur \in DOMAIN nodes /\ hgt[cur] \in Nat
  BY DEF TypeOK
<1>9. hgt[p] = hgt[cur] + 1
  BY <1>4, <1>6, <1>8
<1>10. ASSUME NEW i \in 1 .. m - 1
       PROVE  hgt[path[i]] = hgt[p] + (m - i) /\ path[i] # p
  <2>1. i \in 1 .. m /\ hgt[path[i]] = hgt[cur] + (m + 1 - i)
    BY <1>4, <1>6
  <2>2. hgt[path[i]] = hgt[p] + (m - i)
    BY <2>1, <1>4, <1>8, <1>9
  <2>3. hgt[p] \in Nat /\ m - i \in Nat /\ m - i >= 1
    BY <1>4, <1>8, <1>9
  <2>4. hgt[path[i]] # hgt[p]
    BY <2>2, <2>3
  <2> QED
    BY <2>2, <2>4
<1>11. q = <<>> => p = root
  BY <1>4, <1>7
<1>12. ASSUME q # <<>>
       PROVE  /\ q[1] = root /\ Top(q) # p /\ Top(q) \in DOMAIN nodes
              /\ Child(nodes[Top(q)], key) = p
  <2>1. m - 1 \in 1 .. m - 1 /\ m - 1 \in 1 .. m /\ m - 1 + 1 = m
    BY <1>4, <1>12
  <2> QED
    BY <2>1, <1>4, <1>5, <1>7, <1>10, <1>12
<1>13. ASSUME NEW i \in 1 .. Len(q)
       PROVE  /\ q[i] \in DOMAIN nodes /\ q[i] # p /\ ~nodes[q[i]].leaf
              /\ hgt[q[i]] = hgt[p] + (Len(q) + 1 - i)
  <2>1. i \in 1 .. m - 1 /\ i \in 1 .. m /\ q[i] = path[i] /\ Len(q) + 1 - i = m - i
    BY <1>4
  <2> QED
    BY <2>1, <1>5, <1>10
<1>14. ASSUME NEW i \in 1 .. Len(q) - 1
       PROVE  Child(nodes[q[i]], key) = q[i + 1]
  <2>1. i \in 1 .. m - 1 /\ q[i] = path[i] /\ q[i + 1] = path[i + 1]
    BY <1>4
  <2> QED
    BY <2>1, <1>7
<1>15. Len(q) \in Nat
  BY <1>4
<1> QED
  BY <1>1, <1>2, <1>4, <1>9, <1>11, <1>12, <1>13, <1>14, <1>15

(* The parent has room and records the split.                              *)
LEMMA InnerInsertInv ==
  ASSUME TreeInv, InnerInsert
  PROVE  TreeInv'
<1> USE DEF TreeInv
<1>1. PICK p : p = Top(path)
  OBVIOUS
<1>2. PICK n : n = nodes[p]
  OBVIOUS
<1>3. PICK l : l = split.left
  OBVIOUS
<1>4. PICK r : r = split.right
  OBVIOUS
<1>5. PICK k : k = split.key
  OBVIOUS
<1>6. PICK m0 : m0 = InnerPut(n, k, l, r)
  OBVIOUS
<1>7. PICK m : m = Counted(m0)
  OBVIOUS
<1>8. /\ Pending /\ ~Pending' /\ ~InTree' /\ path # <<>> /\ n.keyNum < MaxElements
      /\ nodes' = [nodes EXCEPT ![p] = m]
      /\ cur' = p /\ path' = ButTop(path)
      /\ bitmap' = bitmap /\ root' = root /\ mKeyNum' = mKeyNum
      /\ key' = key /\ val' = val /\ split' = split /\ ret' = ret /\ pc' = "done"
  <2>1. nodes' = [nodes EXCEPT ![p] = m]
    <3>1. m = Counted(InnerPut(nodes[p], split.key, split.left, split.right))
      BY <1>2, <1>3, <1>4, <1>5, <1>6, <1>7
    <3> QED
      BY <3>1, <1>1 DEF InnerInsert
  <2> QED
    BY <2>1, <1>1, <1>2 DEF InnerInsert, Pending, InTree
<1>9. PICK dom \in [DOMAIN nodes -> SUBSET Keys], hgt \in [DOMAIN nodes -> Nat] : Ranged(dom, hgt)
  OBVIOUS
<1>10. Waiting(p, n, k, l, r, dom, hgt)
  BY <1>1, <1>2, <1>3, <1>4, <1>5, <1>8, <1>9, PendingParent
<1>11. /\ p \in Inner /\ p \in DOMAIN nodes /\ ~n.leaf
       /\ l \in DOMAIN nodes /\ r \in DOMAIN nodes
       /\ IsNode(n, DOMAIN nodes) /\ IsFiniteSet(KeysOf(n)) /\ Distinct(n)
       /\ k \in Keys /\ k \in dom[p] /\ k \notin KeysOf(n)
       /\ l = Child(n, k) /\ r \notin Pointers(n)
       /\ root # l /\ hgt[p] = hgt[l] + 1 /\ hgt[r] = hgt[l]
  BY <1>10 DEF Waiting, Inner, Leaves
<1>12. PICK D : D = DOMAIN nodes
  OBVIOUS
<1>13. /\ IsNode(m0, D) /\ ~m0.leaf /\ m0.keyNum = n.keyNum
       /\ KeysOf(m0) = KeysOf(n) \cup {k} /\ IsFiniteSet(KeysOf(m0))
       /\ Cardinality(KeysOf(m0)) = Cardinality(KeysOf(n)) + 1
       /\ Distinct(m0) /\ Pointers(m0) = Pointers(n) \cup {r}
       /\ \A x \in Int : Child(m0, x) = Rerouted(Child(n, x), x, k, l, r)
  BY <1>6, <1>11, <1>12, InnerPutFacts
<1>14. /\ IsNode(m, D) /\ ~m.leaf /\ m.keyNum = n.keyNum + 1
       /\ KeysOf(m) = KeysOf(n) \cup {k} /\ IsFiniteSet(KeysOf(m))
       /\ Cardinality(KeysOf(m)) = Cardinality(KeysOf(n)) + 1
       /\ Distinct(m) /\ Pointers(m) = Pointers(n) \cup {r}
       /\ \A x \in Int : Child(m, x) = Rerouted(Child(n, x), x, k, l, r)
  BY <1>7, <1>13, CountedUp
<1>15. /\ DOMAIN nodes' = DOMAIN nodes /\ nodes'[p] = m
       /\ \A t \in DOMAIN nodes : t # p => nodes'[t] = nodes[t]
  BY <1>8, <1>11
<1>16. TypeOK'
  <2>1. path' \in Seq(DOMAIN nodes)
    BY <1>8, Popped DEF TypeOK
  <2>2. \A t \in DOMAIN nodes : IsNode(nodes'[t], DOMAIN nodes)
    BY <1>12, <1>14, <1>15 DEF TypeOK
  <2> QED
    BY <1>8, <1>11, <1>15, <2>1, <2>2 DEF TypeOK
<1>17. KeyCounts'
  <2>1. CountFits(n) /\ (p # root => HalfFull(n))
    BY <1>2, <1>11 DEF KeyCounts
  <2>2. Cardinality(KeysOf(n)) \in Nat /\ n.keyNum \in Nat
    BY <1>11, FS_CardinalityType DEF IsNode
  <2>3. CountFits(m)
    BY <1>8, <1>11, <1>14, <2>1, <2>2, MaxElementsAssumption DEF CountFits
  <2>4. HalfFull(n) => HalfFull(m)
    BY <1>14, <2>2, MaxElementsAssumption DEF HalfFull
  <2> QED
    BY <1>8, <1>15, <2>1, <2>3, <2>4 DEF KeyCounts
<1>18. Admitted' /\ LeftKept'
  BY <1>8 DEF Admitted, LeftKept, Pending
<1>19. Inner' = Inner
  BY <1>11, <1>14, <1>15 DEF Inner, Leaves
<1>20. InnerDistinct'
  BY <1>14, <1>15, <1>19 DEF InnerDistinct, Inner
<1>21. Ranged(dom, hgt)'
  <2>1. WellRanged(dom) /\ Leveled(hgt, dom)
    BY <1>9 DEF Ranged
  <2>2. /\ \A t : Joint(dom, t)' = dom[t]
        /\ \A t : t # l => Joint(dom, t) = dom[t]
    BY <1>3, <1>8 DEF Joint
  <2>3. WellRanged(dom)'
    <3>1. Joint(dom, root)' = Keys
      BY <1>8, <1>11, <2>1, <2>2 DEF WellRanged
    <3>2. \A t \in DOMAIN nodes : KeysOf(nodes'[t]) \subseteq dom[t]
      BY <1>2, <1>11, <1>14, <1>15, <2>1 DEF WellRanged
    <3>3. ASSUME NEW t \in Inner, NEW c \in Pointers(nodes'[t])
          PROVE  dom[c] = {x \in dom[t] : Child(nodes'[t], x) = c}
      <4>1. CASE t = p
        <5>1. dom[c] = {x \in dom[p] : Rerouted(Child(n, x), x, k, l, r) = c}
          BY <4>1, <3>3, <1>10, <1>14, <1>15, <1>11 DEF Waiting
        <5>2. \A x \in dom[p] : Child(m, x) = Rerouted(Child(n, x), x, k, l, r)
          BY <1>11, <1>14, KeysAssumption
        <5> QED
          BY <4>1, <5>1, <5>2, <1>11, <1>15
      <4>2. CASE t # p
        <5>1. nodes'[t] = nodes[t] /\ l \notin Pointers(nodes[t])
          BY <4>2, <3>3, <1>10, <1>15 DEF Waiting, Inner
        <5> QED
          BY <5>1, <3>3, <2>1, <2>2 DEF WellRanged
      <4> QED
        BY <4>1, <4>2
    <3> QED
      BY <1>8, <1>15, <1>19, <2>2, <3>1, <3>2, <3>3 DEF WellRanged
  <2>4. Leveled(hgt, dom)'
    <3>1. \A t \in DOMAIN nodes : nodes'[t].leaf <=> hgt[t] = 0
      BY <1>2, <1>11, <1>14, <1>15, <2>1 DEF Leveled
    <3>2. ASSUME NEW t \in Inner, NEW c \in Pointers(nodes'[t])
          PROVE  hgt[t] = hgt[c] + 1
      <4>1. CASE t = p /\ c # r
        BY <1>2, <1>14, <1>15, <1>11, <2>1, <3>2, <4>1 DEF Leveled
      <4>2. CASE t = p /\ c = r
        BY <1>11, <4>2
      <4>3. CASE t # p
        BY <1>15, <2>1, <3>2, <4>3 DEF Leveled, Inner
      <4> QED
        BY <4>1, <4>2, <4>3
    <3> QED
      BY <1>8, <1>15, <1>19, <2>1, <3>1, <3>2 DEF Leveled
  <2>5. Chained(dom)'
    <3>1. Leaves' = Leaves /\ \A s \in Leaves : nodes'[s] = nodes[s]
      BY <1>2, <1>11, <1>14, <1>15 DEF Leaves
    <3> QED
      BY <3>1, <1>9, ChainKept DEF Ranged
  <2> QED
    BY <1>8, <1>9, <1>15, <2>3, <2>4, <2>5 DEF Ranged
<1> QED
  BY <1>8, <1>9, <1>15, <1>16, <1>17, <1>18, <1>20, <1>21

(* The parent is full: it records the split and is split itself.           *)
LEMMA InnerSplitInv ==
  ASSUME TreeInv, InnerSplit
  PROVE  TreeInv'
<1> USE DEF TreeInv
<1>1. PICK p : p = Top(path)
  OBVIOUS
<1>2. PICK n : n = nodes[p]
  OBVIOUS
<1>3. PICK l : l = split.left
  OBVIOUS
<1>4. PICK r : r = split.right
  OBVIOUS
<1>5. PICK k : k = split.key
  OBVIOUS
<1>6. PICK new : new = GetNewNodeSlot
  OBVIOUS
<1>7. PICK h : h = SplitInner(n, k, l, r)
  OBVIOUS
<1>8. PICK D : D = DOMAIN nodes
  OBVIOUS
<1> DEFINE S == D \cup {new}
<1>9. PICK q : q = ButTop(path)
  OBVIOUS
<1>10. /\ Pending /\ Pending' /\ InTree /\ InTree' /\ path # <<>> /\ n.keyNum >= MaxElements
       /\ nodes' = [t \in S |-> IF t = new THEN h.right ELSE IF t = p THEN h.left ELSE nodes[t]]
       /\ bitmap' = bitmap \cup {new}
       /\ split' = [key |-> h.key, left |-> p, right |-> new] /\ pc' = "ascend"
       /\ cur' = p /\ path' = q
       /\ root' = root /\ mKeyNum' = mKeyNum /\ key' = key /\ val' = val /\ ret' = ret
  BY <1>1, <1>2, <1>3, <1>4, <1>5, <1>6, <1>7, <1>8, <1>9
     DEF InnerSplit, RecordSplit, Pending, InTree
<1>11. new \in Slots /\ new \notin D
  BY <1>6, <1>8, NewSlot DEF InnerSplit
<1>12. PICK dom \in [DOMAIN nodes -> SUBSET Keys], hgt \in [DOMAIN nodes -> Nat] : Ranged(dom, hgt)
  OBVIOUS
<1>13. WellRanged(dom) /\ Leveled(hgt, dom) /\ OnPath
  BY <1>10, <1>12 DEF Ranged
<1>14. Waiting(p, n, k, l, r, dom, hgt)
  BY <1>1, <1>2, <1>3, <1>4, <1>5, <1>10, <1>12, PendingParent
<1>15. /\ p \in Inner /\ p \in D /\ ~n.leaf
       /\ l \in D /\ r \in D
       /\ IsNode(n, S) /\ IsFiniteSet(KeysOf(n)) /\ Distinct(n)
       /\ k \in Keys /\ k \in dom[p] /\ k \notin KeysOf(n)
       /\ l = Child(n, k) /\ r \notin Pointers(n)
       /\ root # l /\ hgt[p] = hgt[l] + 1 /\ hgt[r] = hgt[l]
  <2>1. IsNode(n, D)
    BY <1>8, <1>14 DEF Waiting
  <2>2. IsNode(n, S)
    BY <2>1, NodeMonotone
  <2> QED
    BY <2>2, <1>8, <1>14 DEF Waiting, Inner, Leaves
<1>16. /\ DOMAIN nodes' = S /\ nodes'[new] = h.right /\ nodes'[p] = h.left
       /\ \A t \in D : t # p => nodes'[t] = nodes[t]
  BY <1>8, <1>10, <1>11, <1>15
<1>17. CountFits(n) /\ (p # root => HalfFull(n))
  BY <1>2, <1>8, <1>15 DEF KeyCounts
<1>18. Cardinality(KeysOf(n)) \in {MaxElements, MaxElements + 1}
  BY <1>10, <1>15, <1>17, MaxElementsAssumption DEF CountFits, IsNode
<1>19. SplitAs(n, k, l, r, h.key, h.left, h.right, S)
  <2>1. Cardinality({}) = 0
    BY FS_EmptySet
  <2>2. r \in S
    BY <1>15
  <2>3. KeysOf(n) # {}
    <3>1. Cardinality(KeysOf(n)) # 0
      BY <1>18, MaxElementsAssumption
    <3> QED
      BY <2>1, <3>1
  <2> HIDE DEF S, TreeInv
  <2> QED
    BY <2>2, <2>3, <1>7, <1>15, SplitInnerFacts
<1>20. PICK s : s = h.key
  OBVIOUS
<1>21. PICK left : left = h.left
  OBVIOUS
<1>22. PICK right : right = h.right
  OBVIOUS
<1>23. /\ s \in KeysOf(n) /\ s \in Keys /\ s \in Int
       /\ \A m \in {left, right} :
            /\ IsNode(m, S) /\ ~m.leaf /\ IsFiniteSet(KeysOf(m)) /\ Distinct(m)
            /\ Cardinality(KeysOf(m)) \in {m.keyNum, m.keyNum + 1}
            /\ m.keyNum \in ((Cardinality(KeysOf(n)) - 1) \div 2)
                             .. (Cardinality(KeysOf(n)) \div 2)
       /\ KeysOf(left) \subseteq {x \in KeysOf(n) \cup {k} : x < s}
       /\ KeysOf(right) \subseteq {x \in KeysOf(n) \cup {k} : x > s}
       /\ Pointers(left) \cap Pointers(right) = {}
       /\ Pointers(left) \cup Pointers(right) = Pointers(n) \cup {r}
       /\ \A x \in Int : x < s => Child(left, x) = Rerouted(Child(n, x), x, k, l, r)
       /\ \A x \in Int : x >= s => Child(right, x) = Rerouted(Child(n, x), x, k, l, r)
  BY <1>15, <1>19, <1>20, <1>21, <1>22, KeysAssumption DEF SplitAs, IsNode
<1>24. IsNode(left, S) /\ IsNode(right, S) /\ ~left.leaf /\ ~right.leaf
  BY <1>23
<1>25. /\ q \in Seq(D) /\ p \in D
       /\ q = <<>> => p = root
       /\ q # <<>> => /\ q[1] = root /\ Top(q) # p /\ Top(q) \in D
                      /\ Child(nodes[Top(q)], key) = p
       /\ Len(q) \in Nat
       /\ \A i \in 1 .. Len(q) : q[i] \in D /\ q[i] # p /\ ~nodes[q[i]].leaf
       /\ \A i \in 1 .. Len(q) - 1 : Child(nodes[q[i]], key) = q[i + 1]
       /\ hgt[p] = hgt[cur] + 1
       /\ \A i \in 1 .. Len(q) : hgt[q[i]] = hgt[p] + (Len(q) + 1 - i)
  <2>1. \A i \in 1 .. Len(path) : hgt[path[i]] = hgt[cur] + (Len(path) + 1 - i)
    BY <1>10, <1>12 DEF Ranged
  <2> HIDE DEF TreeInv
  <2> QED
    BY <2>1, <1>1, <1>8, <1>9, <1>10, <1>12, <1>13, Resumed DEF TreeInv
<1>26. TypeOK'
  <2>1. q \in Seq(S)
    BY <1>25, SeqMonotonic
  <2>2. \A t \in S : IsNode(nodes'[t], S)
    BY <1>8, <1>16, <1>21, <1>22, <1>24, NodeMonotone DEF TypeOK
  <2> QED
    BY <1>8, <1>10, <1>11, <1>15, <1>16, <1>20, <1>23, <2>1, <2>2 DEF TypeOK
<1>27. KeyCounts' /\ LeftKept'
  <2>1. ASSUME NEW m \in {left, right}
        PROVE  CountFits(m) /\ HalfFull(m)
    <3> DEFINE c == Cardinality(KeysOf(m))
    <3>1. /\ m.keyNum \in Int /\ m.keyNum >= (MaxElements - 1) \div 2
          /\ m.keyNum <= (MaxElements + 1) \div 2
      BY <1>18, <1>23, MaxElementsAssumption
    <3>2. m.keyNum <= MaxElements /\ m.keyNum >= 1 /\ c \in {m.keyNum, m.keyNum + 1}
      BY <1>23, <3>1, MaxElementsAssumption
    <3> HIDE DEF c
    <3>3. c >= 1 /\ c >= (MaxElements - 1) \div 2
      BY <3>1, <3>2, MaxElementsAssumption
    <3> QED
      BY <1>23, <3>2, <3>3 DEF CountFits, HalfFull, c
  <2> QED
    BY <1>8, <1>10, <1>16, <1>21, <1>22, <2>1 DEF KeyCounts, LeftKept
<1>28. OnPath' /\ Admitted'
  <2>1. \A i \in 1 .. Len(q) : nodes'[q[i]] = nodes[q[i]]
    BY <1>16, <1>25
  <2>2. \A i \in 1 .. Len(q) - 1 : Child(nodes'[q[i]], key) = q[i + 1]
    <3> SUFFICES ASSUME NEW i \in 1 .. Len(q) - 1 PROVE Child(nodes'[q[i]], key) = q[i + 1]
      OBVIOUS
    <3>1. i \in 1 .. Len(q)
      BY <1>25
    <3> QED
      BY <3>1, <1>25, <2>1
  <2>3. q # <<>> => q[1] = root /\ Child(nodes'[Top(q)], key) = p
    BY <1>16, <1>25
  <2>4. OnPath'
    BY <1>10, <1>25, <2>1, <2>2, <2>3 DEF OnPath, Top
  <2>5. Admitted'
    BY <1>10 DEF Admitted, Pending
  <2> QED
    BY <2>4, <2>5
<1>29. Inner' = Inner \cup {new}
  BY <1>8, <1>11, <1>15, <1>16, <1>21, <1>22, <1>24 DEF Inner, Leaves
<1>30. InnerDistinct'
  BY <1>8, <1>16, <1>21, <1>22, <1>23, <1>29 DEF InnerDistinct, Inner
<1>31. PICK d : d = SplitRange(dom, p, s, new)
  OBVIOUS
<1>32. PICK g : g = SplitHeight(hgt, p, new)
  OBVIOUS
<1>33. /\ d \in [S -> SUBSET Keys]
       /\ d[new] = {x \in dom[p] : x >= s} /\ d[p] = {x \in dom[p] : x < s}
       /\ d[p] \cup d[new] = dom[p]
       /\ \A t \in D : t # p => d[t] = dom[t]
       /\ g \in [S -> Nat] /\ g[new] = hgt[p] /\ \A t \in D : g[t] = hgt[t]
       /\ Apart(D, dom, hgt) => Apart(S, d, g)
  <2>1. dom \in [D -> SUBSET Keys] /\ hgt \in [D -> Nat]
    BY <1>8, <1>12
  <2> HIDE DEF S, TreeInv
  <2>2. Shares(D, dom, hgt, p, s, new, d, g)
    BY <2>1, <1>11, <1>15, <1>23, <1>31, <1>32, SplitShares
  <2> QED
    BY <2>2 DEF Shares, S
<1>34. /\ \A t \in D : Joint(d, t)' = dom[t]
       /\ \A t : t # l => Joint(dom, t) = dom[t]
  BY <1>3, <1>10, <1>11, <1>33 DEF Joint
<1>35. WellRanged(d)'
  <2>1. Joint(d, root)' = Keys
    BY <1>8, <1>10, <1>13, <1>15, <1>34 DEF WellRanged, TypeOK
  <2>2. \A t \in S : KeysOf(nodes'[t]) \subseteq d[t]
    <3>1. KeysOf(n) \cup {k} \subseteq dom[p]
      BY <1>2, <1>8, <1>13, <1>15 DEF WellRanged
    <3>2. KeysOf(left) \subseteq d[p] /\ KeysOf(right) \subseteq d[new]
      <4>1. \A x \in dom[p] : x \in Int
        BY <1>8, <1>12, <1>15, KeysAssumption
      <4>2. \A x \in KeysOf(left) : x \in dom[p] /\ x < s
        BY <1>23, <3>1
      <4>3. \A x \in KeysOf(right) : x \in dom[p] /\ x >= s
        <5>1. \A x \in KeysOf(right) : x \in dom[p] /\ x > s
          BY <1>23, <3>1
        <5>2. s \in Int
          BY <1>23
        <5> QED
          BY <4>1, <5>1, <5>2
      <4>4. KeysOf(left) \subseteq d[p]
        BY <1>33, <4>2
      <4>5. KeysOf(right) \subseteq d[new]
        BY <1>33, <4>3
      <4> QED
        BY <4>4, <4>5
    <3> QED
      BY <1>8, <1>13, <1>16, <1>21, <1>22, <1>33, <3>2 DEF WellRanged
  <2>3. ASSUME NEW x \in dom[p]
        PROVE  x \in Int
    BY <1>8, <1>12, <1>15, KeysAssumption
  <2>4. ASSUME NEW c \in Pointers(left)
        PROVE  c \in D /\ dom[c] = {x \in d[p] : Child(left, x) = c}
    <3>1. c \in Pointers(n) \cup {r} /\ c \notin Pointers(right)
      BY <1>23
    <3>2. c \in D
      BY <3>1, <1>8, <1>14, <1>15 DEF Waiting, IsNode, Pointers
    <3>3. dom[c] = {x \in dom[p] : Rerouted(Child(n, x), x, k, l, r) = c}
      BY <3>1, <1>14 DEF Waiting
    <3>4. ASSUME NEW x \in dom[p], Rerouted(Child(n, x), x, k, l, r) = c
          PROVE  x < s
      <4>1. CASE x >= s
        <5>1. Child(right, x) \in Pointers(right)
          BY <2>3, <1>23, ChildIsPointer
        <5> QED
          BY <5>1, <4>1, <3>1, <3>4, <2>3, <1>23
      <4> QED
        BY <4>1, <2>3, <1>23
    <3>5. \A x \in d[p] : Child(left, x) = Rerouted(Child(n, x), x, k, l, r)
      BY <2>3, <1>23, <1>33
    <3> QED
      BY <3>2, <3>3, <3>4, <3>5, <1>33
  <2>5. ASSUME NEW c \in Pointers(right)
        PROVE  c \in D /\ dom[c] = {x \in d[new] : Child(right, x) = c}
    <3>1. c \in Pointers(n) \cup {r} /\ c \notin Pointers(left)
      BY <1>23
    <3>2. c \in D
      BY <3>1, <1>8, <1>14, <1>15 DEF Waiting, IsNode, Pointers
    <3>3. dom[c] = {x \in dom[p] : Rerouted(Child(n, x), x, k, l, r) = c}
      BY <3>1, <1>14 DEF Waiting
    <3>4. ASSUME NEW x \in dom[p], Rerouted(Child(n, x), x, k, l, r) = c
          PROVE  x >= s
      <4>1. CASE x < s
        <5>1. Child(left, x) \in Pointers(left)
          BY <2>3, <1>23, ChildIsPointer
        <5> QED
          BY <5>1, <4>1, <3>1, <3>4, <2>3, <1>23
      <4> QED
        BY <4>1, <2>3, <1>23
    <3>5. \A x \in d[new] : Child(right, x) = Rerouted(Child(n, x), x, k, l, r)
      BY <2>3, <1>23, <1>33
    <3> QED
      BY <3>2, <3>3, <3>4, <3>5, <1>33
  <2>6. ASSUME NEW t \in Inner, t # p, NEW c \in Pointers(nodes[t])
        PROVE  c \in D /\ dom[c] = {x \in d[t] : Child(nodes[t], x) = c}
    <3>1. t \in D /\ c \in D /\ c # l
      BY <1>8, <1>14, <2>6, ChildrenAreNodes DEF Waiting
    <3> QED
      BY <3>1, <2>6, <1>13, <1>33, <1>34 DEF WellRanged
  <2>7. ASSUME NEW t \in Inner \cup {new}, NEW c \in Pointers(nodes'[t])
        PROVE  c \in D /\ dom[c] = {x \in d[t] : Child(nodes'[t], x) = c}
    <3>1. CASE t = new
      BY <3>1, <2>5, <2>7, <1>16, <1>22
    <3>2. CASE t = p
      BY <3>2, <2>4, <2>7, <1>16, <1>21
    <3>3. CASE t # p /\ t # new
      <4>1. nodes'[t] = nodes[t]
        BY <3>3, <1>8, <1>16, <2>7 DEF Inner
      <4> QED
        BY <3>3, <4>1, <2>6, <2>7
    <3> QED
      BY <3>1, <3>2, <3>3
  <2>8. /\ s \in d[new]
        /\ \A x \in d[p] : x < s
        /\ \A x \in d[new] : x >= s
    BY <1>2, <1>8, <1>13, <1>15, <1>23, <1>33 DEF WellRanged
  <2>9. \A t \in Inner' : \A c \in Pointers(nodes'[t]) :
           Joint(d, c)' = {x \in d[t] : Child(nodes'[t], x) = c}
    BY <1>29, <1>34, <2>7
  <2> QED
    BY <1>10, <1>16, <1>20, <2>1, <2>2, <2>8, <2>9 DEF WellRanged
<1>36. Leveled(g, d)'
  <2>1. \A t \in S : nodes'[t].leaf <=> g[t] = 0
    <3>1. hgt[p] # 0
      BY <1>2, <1>8, <1>13, <1>15 DEF Leveled
    <3> QED
      BY <1>8, <1>13, <1>16, <1>21, <1>22, <1>24, <1>33, <3>1 DEF Leveled
  <2>2. ASSUME NEW c \in Pointers(n) \cup {r}
        PROVE  c \in D /\ hgt[p] = hgt[c] + 1
    <3>1. CASE c = r
      BY <3>1, <1>15
    <3>2. CASE c \in Pointers(n)
      BY <3>2, <1>2, <1>8, <1>13, <1>15, ChildrenAreNodes DEF Leveled
    <3> QED
      BY <3>1, <3>2
  <2>3. ASSUME NEW t \in Inner \cup {new}, NEW c \in Pointers(nodes'[t])
        PROVE  g[t] = g[c] + 1
    <3>1. CASE t = new
      BY <3>1, <2>2, <2>3, <1>16, <1>22, <1>23, <1>33
    <3>2. CASE t = p
      BY <3>2, <2>2, <2>3, <1>15, <1>16, <1>21, <1>23, <1>33
    <3>3. CASE t # p /\ t # new
      <4>1. t \in D /\ nodes'[t] = nodes[t]
        BY <3>3, <1>8, <1>16, <2>3 DEF Inner
      <4>2. c \in D
        BY <4>1, <2>3, <3>3, <1>8, ChildrenAreNodes
      <4> QED
        BY <3>3, <4>1, <4>2, <2>3, <1>13, <1>33 DEF Leveled
    <3> QED
      BY <3>1, <3>2, <3>3
  <2>4. Apart(S, d, g)
    BY <1>8, <1>13, <1>33 DEF Apart, Leveled
  <2>5. g[new] = g[p]
    BY <1>15, <1>33
  <2> HIDE DEF S
  <2> QED
    BY <1>10, <1>16, <1>29, <2>1, <2>3, <2>4, <2>5 DEF Leveled, Apart
<1>37. Ranged(d, g)'
  <2>1. \A t \in S : g[t] <= g[root]
    BY <1>8, <1>12, <1>15, <1>33 DEF Ranged, TypeOK
  <2>2. \A i \in 1 .. Len(q) : g[q[i]] = g[p] + (Len(q) + 1 - i)
    BY <1>15, <1>25, <1>33
  <2>3. Chained(d)'
    <3>1. Leaves' = Leaves
      BY <1>2, <1>8, <1>11, <1>15, <1>16, <1>21, <1>22, <1>24 DEF Leaves
    <3>2. \A t \in Leaves : nodes'[t] = nodes[t] /\ d[t] = dom[t]
      BY <1>2, <1>8, <1>15, <1>16, <1>33 DEF Leaves
    <3> QED
      BY <3>1, <3>2, <1>12, ChainKept DEF Ranged
  <2> HIDE DEF S
  <2> QED
    BY <1>10, <1>16, <1>35, <1>36, <2>1, <2>2, <2>3 DEF Ranged
<1> QED
  BY <1>10, <1>16, <1>26, <1>27, <1>28, <1>30, <1>33, <1>37

(* The root was split: a root above it covers all keys again.              *)
LEMMA NewRootInv ==
  ASSUME TreeInv, NewRoot
  PROVE  TreeInv'
<1> USE DEF TreeInv
<1>1. PICK l : l = split.left
  OBVIOUS
<1>2. PICK r : r = split.right
  OBVIOUS
<1>3. PICK k : k = split.key
  OBVIOUS
<1>4. PICK new : new = GetNewNodeSlot
  OBVIOUS
<1>5. PICK m : m = RootOver(k, l, r)
  OBVIOUS
<1>6. PICK D : D = DOMAIN nodes
  OBVIOUS
<1> DEFINE S == D \cup {new}
<1>7. /\ Pending /\ ~Pending' /\ InTree /\ ~InTree' /\ path = <<>>
      /\ nodes' = [t \in S |-> IF t = new THEN m ELSE nodes[t]]
      /\ bitmap' = bitmap \cup {new} /\ root' = new /\ pc' = "done"
      /\ mKeyNum' = mKeyNum /\ key' = key /\ val' = val /\ cur' = cur /\ path' = path
      /\ split' = split /\ ret' = ret
  BY <1>1, <1>2, <1>3, <1>4, <1>5, <1>6 DEF NewRoot, Pending, InTree
<1>8. new \in Slots /\ new \notin D
  BY <1>4, <1>6, NewSlot DEF NewRoot
<1>9. /\ root = l /\ l \in D /\ r \in D /\ k \in Keys /\ k \in Int
  BY <1>1, <1>2, <1>3, <1>6, <1>7, KeysAssumption DEF OnPath, TypeOK
<1>10. DOMAIN nodes' = S /\ nodes'[new] = m /\ \A t \in D : nodes'[t] = nodes[t]
  BY <1>7, <1>8
<1>11. PICK dom \in [DOMAIN nodes -> SUBSET Keys], hgt \in [DOMAIN nodes -> Nat] : Ranged(dom, hgt)
  OBVIOUS
<1>12. /\ WellRanged(dom) /\ Leveled(hgt, dom)
       /\ \A t \in D : hgt[t] <= hgt[l] /\ hgt[t] \in Nat
  BY <1>6, <1>9, <1>11 DEF Ranged
<1>13. /\ k \in dom[r]
       /\ \A x \in dom[l] : x < k
       /\ \A x \in dom[r] : x >= k
       /\ dom[l] \cup dom[r] = Keys
       /\ hgt[r] = hgt[l]
       /\ \A c : c # l => Joint(dom, c) = dom[c]
  BY <1>1, <1>2, <1>3, <1>7, <1>9, <1>12 DEF WellRanged, Leveled, Joint
<1>14. l # r
  BY <1>9, <1>13
<1>15. /\ IsNode(m, S) /\ ~m.leaf /\ KeysOf(m) = {k} /\ m.keyNum = 1
       /\ IsFiniteSet(KeysOf(m)) /\ Cardinality(KeysOf(m)) = 1
       /\ Distinct(m) /\ Pointers(m) = {l, r}
       /\ \A x \in Int : Child(m, x) = IF x < k THEN l ELSE r
  <2>1. l \in S /\ r \in S /\ k \in Keys
    BY <1>9
  <2>2. PICK T : T = S
    OBVIOUS
  <2>3. l \in T /\ r \in T
    BY <2>1, <2>2
  <2> HIDE DEF S, TreeInv
  <2>4. /\ IsNode(m, T) /\ ~m.leaf /\ KeysOf(m) = {k} /\ m.keyNum = 1
        /\ IsFiniteSet(KeysOf(m)) /\ Cardinality(KeysOf(m)) = 1
        /\ Distinct(m) /\ Pointers(m) = {l, r}
        /\ \A x \in Int : Child(m, x) = IF x < k THEN l ELSE r
    BY <2>1, <2>3, <1>5, <1>14, RootOverFacts
  <2> QED
    BY <2>2, <2>4
<1>16. TypeOK'
  <2>1. path \in Seq(S)
    BY <1>6, SeqMonotonic DEF TypeOK
  <2>2. \A t \in S : IsNode(nodes'[t], S)
    BY <1>6, <1>10, <1>15, NodeMonotone DEF TypeOK
  <2>3. split \in [key : Keys, left : S, right : S]
    BY <1>6 DEF TypeOK
  <2> QED
    BY <1>6, <1>7, <1>8, <1>10, <2>1, <2>2, <2>3 DEF TypeOK
<1>17. KeyCounts'
  <2>1. CountFits(m)
    BY <1>15, MaxElementsAssumption DEF CountFits
  <2>2. HalfFull(nodes[root])
    BY <1>1, <1>7, <1>9 DEF LeftKept
  <2> QED
    BY <1>6, <1>7, <1>10, <2>1, <2>2 DEF KeyCounts
<1>18. Admitted' /\ LeftKept'
  BY <1>7 DEF Admitted, LeftKept, Pending
<1>19. Inner' = Inner \cup {new}
  BY <1>6, <1>8, <1>10, <1>15 DEF Inner, Leaves
<1>20. InnerDistinct'
  BY <1>6, <1>10, <1>15, <1>19 DEF InnerDistinct, Inner
<1>21. PICK d : d = [t \in S |-> IF t = new THEN Keys ELSE dom[t]]
  OBVIOUS
<1>22. PICK g : g = [t \in S |-> IF t = new THEN hgt[l] + 1 ELSE hgt[t]]
  OBVIOUS
<1>23. /\ d \in [S -> SUBSET Keys] /\ d[new] = Keys /\ \A t \in D : d[t] = dom[t]
       /\ g \in [S -> Nat] /\ g[new] = hgt[l] + 1 /\ \A t \in D : g[t] = hgt[t]
  BY <1>6, <1>8, <1>9, <1>11, <1>12, <1>21, <1>22
<1>24. \A t : Joint(d, t)' = d[t]
  BY <1>7 DEF Joint
<1>25. WellRanged(d)'
  <2>1. Joint(d, root)' = Keys
    BY <1>7, <1>23, <1>24
  <2>2. \A t \in S : KeysOf(nodes'[t]) \subseteq d[t]
    BY <1>6, <1>9, <1>10, <1>12, <1>15, <1>23 DEF WellRanged
  <2>3. ASSUME NEW t \in Inner \cup {new}, NEW c \in Pointers(nodes'[t])
        PROVE  d[c] = {x \in d[t] : Child(nodes'[t], x) = c}
    <3>1. CASE t = new
      <4>1. \A x \in Keys : x \in Int /\ Child(m, x) = IF x < k THEN l ELSE r
        BY <1>15, KeysAssumption
      <4>2. ASSUME NEW x \in Keys
            PROVE  (x \in dom[l] <=> x < k) /\ (x \in dom[r] <=> ~(x < k))
        BY <1>9, <1>13, <4>1
      <4>3. dom[l] \subseteq Keys /\ dom[r] \subseteq Keys
        BY <1>13
      <4>4. dom[l] = {x \in Keys : Child(m, x) = l}
        BY <4>1, <4>2, <4>3, <1>14
      <4>5. dom[r] = {x \in Keys : Child(m, x) = r}
        BY <4>1, <4>2, <4>3, <1>14
      <4>6. c \in {l, r} /\ nodes'[t] = m
        BY <3>1, <2>3, <1>10, <1>15
      <4> QED
        BY <3>1, <4>4, <4>5, <4>6, <1>9, <1>23
    <3>2. CASE t # new
      <4>1. t \in D /\ c \in D /\ nodes'[t] = nodes[t] /\ c \in Pointers(nodes[t]) /\ t \in Inner
        BY <3>2, <2>3, <1>6, <1>10, ChildrenAreNodes DEF Inner
      <4>2. hgt[t] = hgt[c] + 1
        BY <4>1, <1>12 DEF Leveled
      <4>3. c # l
        BY <4>1, <4>2, <1>12
      <4> QED
        BY <4>1, <4>3, <1>12, <1>13, <1>23 DEF WellRanged
    <3> QED
      BY <3>1, <3>2
  <2>4. \A t \in Inner' : \A c \in Pointers(nodes'[t]) :
           Joint(d, c)' = {x \in d[t] : Child(nodes'[t], x) = c}
    BY <1>19, <1>24, <2>3
  <2> QED
    BY <1>7, <1>10, <2>1, <2>2, <2>4 DEF WellRanged
<1>26. Leveled(g, d)'
  <2>1. \A t \in S : nodes'[t].leaf <=> g[t] = 0
    BY <1>6, <1>9, <1>10, <1>12, <1>15, <1>23 DEF Leveled
  <2>2. ASSUME NEW t \in Inner \cup {new}, NEW c \in Pointers(nodes'[t])
        PROVE  g[t] = g[c] + 1
    <3>1. CASE t = new
      BY <3>1, <2>2, <1>9, <1>10, <1>13, <1>15, <1>23
    <3>2. CASE t # new
      <4>1. t \in D /\ c \in D /\ c \in Pointers(nodes[t]) /\ t \in Inner
        BY <3>2, <2>2, <1>6, <1>10, ChildrenAreNodes DEF Inner
      <4> QED
        BY <4>1, <1>12, <1>23 DEF Leveled
    <3> QED
      BY <3>1, <3>2
  <2>3. ASSUME NEW x \in S, NEW y \in S, x # y, g[x] = g[y]
        PROVE  d[x] \cap d[y] = {}
    <3>1. x \in D /\ y \in D
      BY <2>3, <1>9, <1>12, <1>23
    <3> QED
      BY <3>1, <2>3, <1>6, <1>12, <1>23 DEF Leveled
  <2> HIDE DEF S
  <2> QED
    BY <1>7, <1>10, <1>19, <2>1, <2>2, <2>3 DEF Leveled
<1>27. Ranged(d, g)'
  <2>1. \A t \in S : g[t] <= g[new]
    BY <1>9, <1>12, <1>23
  <2>2. Chained(d)'
    <3>1. Leaves' = Leaves
      BY <1>6, <1>8, <1>10, <1>15 DEF Leaves
    <3>2. \A t \in Leaves : nodes'[t] = nodes[t] /\ d[t] = dom[t]
      BY <1>6, <1>10, <1>23 DEF Leaves
    <3> QED
      BY <3>1, <3>2, <1>11, ChainKept DEF Ranged
  <2> HIDE DEF S
  <2> QED
    BY <1>7, <1>10, <1>25, <1>26, <2>1, <2>2 DEF Ranged
<1> QED
  BY <1>7, <1>10, <1>16, <1>17, <1>18, <1>20, <1>23, <1>27

(* A step that changes nothing.                                            *)
LEMMA StutterInv ==
  ASSUME TreeInv, UNCHANGED vars
  PROVE  TreeInv'
<1>1. /\ nodes' = nodes /\ bitmap' = bitmap /\ root' = root /\ mKeyNum' = mKeyNum /\ pc' = pc
      /\ key' = key /\ val' = val /\ cur' = cur /\ path' = path /\ split' = split /\ ret' = ret
  BY DEF vars
<1>2. TypeOK'
  BY <1>1 DEF TreeInv, TypeOK
<1>3. KeyCounts' /\ Admitted' /\ LeftKept'
  BY <1>1 DEF TreeInv, KeyCounts, Admitted, LeftKept, Pending
<1>4. InnerDistinct'
  BY <1>1 DEF TreeInv, InnerDistinct, Inner, Leaves
<1>5. (InTree => OnPath)' /\ (Pending => split.left = cur)'
  BY <1>1 DEF TreeInv, InTree, OnPath, Pending
<1>6. ASSUME NEW dom, NEW hgt, Ranged(dom, hgt)
      PROVE  Ranged(dom, hgt)'
  <2>1. WellRanged(dom)'
    BY <1>1, <1>6 DEF Ranged, WellRanged, Joint, Pending, Inner, Leaves
  <2>2. Leveled(hgt, dom)'
    BY <1>1, <1>6 DEF Ranged, Leveled, Pending, Inner, Leaves
  <2>3. Chained(dom)'
    <3>1. Leaves' = Leaves
      BY <1>1 DEF Leaves
    <3> QED
      BY <3>1, <1>1, <1>6, ChainKept DEF Ranged
  <2> QED
    BY <2>1, <2>2, <2>3, <1>1, <1>6 DEF Ranged, InTree
<1> QED
  BY <1>1, <1>2, <1>3, <1>4, <1>5, <1>6 DEF TreeInv

-----------------------------------------------------------------------------
(* A set of numbers that is not empty has a least one.                     *)
LEMMA LeastNumber ==
  ASSUME NEW S \in SUBSET Nat, S # {}
  PROVE  \E x \in S : \A y \in S : x <= y
<1>1. PICK x \in S : \A y \in S : <<y, x>> \notin OpToRel(<, Nat)
  BY NatLessThanWellFounded, WFMin
<1>2. \A y \in S : ~(y < x)
  BY <1>1 DEF OpToRel
<1> QED
  BY <1>2

(* The nodes met from s on when every node names its next.                 *)
Closed(X, nxt) == \A t \in X : nxt[t] \in X

Met(D, nxt, s) == {t \in D : \A X \in SUBSET D : s \in X /\ Closed(X, nxt) => t \in X}

(* They are s and those met from the next of s on, and s alone if it names *)
(* itself.                                                                 *)
LEMMA MetNext ==
  ASSUME NEW D, NEW nxt \in [D -> D], NEW s \in D
  PROVE  /\ Met(D, nxt, s) = {s} \cup Met(D, nxt, nxt[s])
         /\ nxt[s] = s => Met(D, nxt, s) = {s}
<1>1. PICK n \in D : n = nxt[s]
  OBVIOUS
<1>2. PICK Y : Y = {s} \cup Met(D, nxt, n)
  OBVIOUS
<1>3. Met(D, nxt, n) \subseteq D /\ Met(D, nxt, s) \subseteq D
  BY DEF Met
<1>4. Y \in SUBSET D /\ s \in Y
  BY <1>2, <1>3
<1>5. Closed(Y, nxt)
  <2>1. n \in Met(D, nxt, n)
    BY DEF Met
  <2>2. ASSUME NEW t \in Met(D, nxt, n)
        PROVE  nxt[t] \in Met(D, nxt, n)
    <3>1. t \in D /\ nxt[t] \in D
      BY <1>3
    <3>2. \A X \in SUBSET D : n \in X /\ Closed(X, nxt) => t \in X
      BY DEF Met
    <3>3. \A X \in SUBSET D : n \in X /\ Closed(X, nxt) => nxt[t] \in X
      BY <3>2 DEF Closed
    <3> QED
      BY <3>1, <3>3 DEF Met
  <2> QED
    BY <1>1, <1>2, <2>1, <2>2 DEF Closed
<1>6. Met(D, nxt, s) \subseteq Y
  BY <1>4, <1>5 DEF Met
<1>7. s \in Met(D, nxt, s)
  BY DEF Met
<1>8. Met(D, nxt, n) \subseteq Met(D, nxt, s)
  <2>1. \A X \in SUBSET D : s \in X /\ Closed(X, nxt) => n \in X
    BY <1>1 DEF Closed
  <2> QED
    BY <2>1 DEF Met
<1>9. ASSUME nxt[s] = s
      PROVE  Met(D, nxt, s) = {s}
  <2>1. {s} \in SUBSET D /\ Closed({s}, nxt)
    BY <1>9 DEF Closed
  <2>2. Met(D, nxt, s) \subseteq {s}
    BY <2>1 DEF Met
  <2> QED
    BY <2>2, <1>7
<1> QED
  BY <1>1, <1>2, <1>6, <1>7, <1>8, <1>9

(* A search for k passes through the nodes whose range k is in.            *)
LEMMA RouteIs ==
  ASSUME TreeInv, NEW dom \in [DOMAIN nodes -> SUBSET Keys],
         NEW hgt \in [DOMAIN nodes -> Nat], Ranged(dom, hgt), NEW k \in Keys
  PROVE  Route(k) = {t \in DOMAIN nodes : k \in dom[t]}
<1>1. PICK D : D = DOMAIN nodes
  OBVIOUS
<1>2. PICK l : l = split.left
  OBVIOUS
<1>3. PICK r : r = split.right
  OBVIOUS
<1>4. PICK key0 : key0 = split.key
  OBVIOUS
<1> DEFINE turned(s) == Pending /\ s = l /\ k >= key0
           to(s) == IF turned(s) THEN r ELSE s
           step(s) == Child(nodes[s], k)
           def(g) == [s \in D |-> IF turned(s) THEN g[r]
                                  ELSE IF nodes[s].leaf THEN {s}
                                  ELSE {s} \cup g[step(s)]]
           via == CHOOSE g : g = def(g)
<1>5. /\ WellRanged(dom) /\ Leveled(hgt, dom)
      /\ root \in D /\ \A s \in D : hgt[s] <= hgt[root]
      /\ dom \in [D -> SUBSET Keys] /\ hgt \in [D -> Nat]
  BY <1>1 DEF Ranged, TreeInv, TypeOK
<1>6. l \in D /\ r \in D /\ key0 \in Int /\ k \in Int
  BY <1>1, <1>2, <1>3, <1>4, KeysAssumption DEF TreeInv, TypeOK
<1>7. Pending => /\ key0 \in dom[r]
                 /\ (\A x \in dom[l] : x < key0)
                 /\ \A x \in dom[r] : x >= key0
                 /\ hgt[r] = hgt[l]
  BY <1>2, <1>3, <1>4, <1>5 DEF WellRanged, Leveled
<1>8. Pending => l # r
  BY <1>6, <1>7
<1>9. ASSUME NEW s \in D, ~nodes[s].leaf
      PROVE  step(s) \in Pointers(nodes[s]) /\ step(s) \in D /\ s \in Inner
  <2>1. IsNode(nodes[s], D) /\ IsFiniteSet(KeysOf(nodes[s]))
    BY <1>1 DEF TreeInv, TypeOK, KeyCounts, CountFits
  <2>2. KeysOf(nodes[s]) \in SUBSET Int
    BY <2>1, KeysAssumption DEF IsNode
  <2>3. step(s) \in Pointers(nodes[s])
    BY <1>6, <2>1, <2>2, ChildIsPointer
  <2> QED
    BY <1>1, <1>9, <2>1, <2>3 DEF Pointers, IsNode, Inner, Leaves
<1>10. \A s \in D : to(s) \in D
  BY <1>6
<1>11. Route(k) = via[root]
  BY <1>1, <1>2, <1>3, <1>4 DEF Route
<1> HIDE DEF step
<1>12. \E g : g = def(g)
  <2>1. PICK nxt : nxt = [s \in D |-> IF nodes[s].leaf THEN s ELSE to(step(s))]
    OBVIOUS
  <2>2. nxt \in [D -> D]
    BY <2>1, <1>9, <1>10
  <2>3. PICK g : g = [s \in D |-> Met(D, nxt, to(s))]
    OBVIOUS
  <2>4. ASSUME NEW s \in D
        PROVE  g[s] = def(g)[s]
    <3>1. CASE turned(s)
      <4>1. to(s) = r /\ to(r) = r
        BY <3>1, <1>8
      <4> QED
        BY <3>1, <4>1, <2>3, <1>6
    <3>2. CASE ~turned(s) /\ nodes[s].leaf
      BY <3>2, <2>1, <2>2, <2>3, MetNext
    <3>3. CASE ~turned(s) /\ ~nodes[s].leaf
      <4>1. nxt[s] = to(step(s)) /\ to(s) = s /\ step(s) \in D
        BY <3>3, <2>1, <1>9
      <4>2. Met(D, nxt, s) = {s} \cup Met(D, nxt, nxt[s])
        BY <2>2, MetNext
      <4>3. g[s] = Met(D, nxt, s) /\ g[step(s)] = Met(D, nxt, nxt[s])
        BY <4>1, <2>3
      <4> QED
        BY <3>3, <4>2, <4>3
    <3> QED
      BY <3>1, <3>2, <3>3
  <2>5. g = [s \in D |-> g[s]] /\ def(g) = [s \in D |-> def(g)[s]]
    BY <2>3
  <2>6. g = def(g)
    BY <2>4, <2>5
  <2> QED
    BY <2>6
<1>13. via = def(via)
  BY <1>12
<1> HIDE DEF via
<1>14. \A s \in D : via[s] = IF turned(s) THEN via[r]
                             ELSE IF nodes[s].leaf THEN {s}
                             ELSE {s} \cup via[step(s)]
  BY <1>13
<1> HIDE DEF def
<1>15. \A s \in D : via[s] = via[to(s)] /\ ~turned(to(s)) /\ hgt[to(s)] = hgt[s]
  BY <1>7, <1>8, <1>14
<1>16. ASSUME NEW s \in D, k \in Joint(dom, s)
       PROVE  k \in dom[to(s)]
  BY <1>2, <1>3, <1>6, <1>7, <1>16 DEF Joint
<1> DEFINE under(s) == {t \in D : k \in dom[t] /\ hgt[t] <= hgt[s]}
           bad == {s \in D : ~turned(s) /\ k \in dom[s] /\ via[s] # under(s)}
<1>17. bad = {}
  <2> SUFFICES ASSUME bad # {}
               PROVE  FALSE
    OBVIOUS
  <2>1. PICK H : H = {hgt[s] : s \in bad}
    OBVIOUS
  <2>2. H \in SUBSET Nat /\ H # {}
    BY <2>1, <1>5
  <2>3. PICK h \in H : \A x \in H : h <= x
    BY <2>2, LeastNumber
  <2>4. PICK s \in bad : \A t \in bad : hgt[s] <= hgt[t]
    BY <2>1, <2>3
  <2>5. s \in D /\ ~turned(s) /\ k \in dom[s] /\ via[s] # under(s)
    OBVIOUS
  <2>6. \A t \in D : k \in dom[t] /\ hgt[t] = hgt[s] => t = s
    BY <2>5, <1>1, <1>5 DEF Leveled
  <2>7. CASE nodes[s].leaf
    <3>1. hgt[s] = 0
      BY <2>5, <2>7, <1>1, <1>5 DEF Leveled
    <3>2. \A t \in D : hgt[t] <= hgt[s] <=> hgt[t] = hgt[s]
      BY <3>1, <1>5
    <3> QED
      BY <2>5, <2>6, <2>7, <3>2, <1>14
  <2>8. CASE ~nodes[s].leaf
    <3>1. step(s) \in Pointers(nodes[s]) /\ step(s) \in D /\ s \in Inner
      BY <2>5, <2>8, <1>9
    <3>2. k \in Joint(dom, step(s)) /\ hgt[s] = hgt[step(s)] + 1
      BY <2>5, <3>1, <1>5 DEF WellRanged, Leveled, step
    <3>3. PICK c \in D : c = to(step(s))
      BY <3>1, <1>10
    <3>4. k \in dom[c] /\ ~turned(c) /\ hgt[s] = hgt[c] + 1 /\ via[step(s)] = via[c]
      BY <3>1, <3>2, <3>3, <1>15, <1>16
    <3>5. hgt[s] \in Nat /\ hgt[c] \in Nat
      BY <2>5, <1>5
    <3>6. c \notin bad
      BY <2>4, <3>4, <3>5
    <3>7. via[c] = under(c)
      BY <3>4, <3>6
    <3>8. \A t \in D : hgt[t] <= hgt[s] <=> hgt[t] <= hgt[c] \/ hgt[t] = hgt[s]
      BY <3>4, <3>5, <1>5
    <3>9. via[s] = {s} \cup under(c)
      BY <2>5, <2>8, <3>4, <3>7, <1>14
    <3> QED
      BY <2>5, <2>6, <3>8, <3>9
  <2> QED
    BY <2>7, <2>8
<1>18. k \in dom[to(root)]
  <2>1. k \in Joint(dom, root)
    BY <1>5 DEF WellRanged
  <2> QED
    BY <2>1, <1>5, <1>16
<1>19. via[root] = under(to(root))
  BY <1>5, <1>10, <1>15, <1>17, <1>18
<1> QED
  BY <1>1, <1>5, <1>11, <1>15, <1>19

(* Going down by last pointers counts the height.                          *)
LEMMA HeightIs ==
  ASSUME TreeInv, NEW dom \in [DOMAIN nodes -> SUBSET Keys],
         NEW hgt \in [DOMAIN nodes -> Nat], Ranged(dom, hgt)
  PROVE  HeightOf = hgt
<1>1. PICK D : D = DOMAIN nodes
  OBVIOUS
<1> DEFINE def(g) == [s \in D |-> IF nodes[s].leaf THEN 0 ELSE g[nodes[s].last] + 1]
           h == CHOOSE g : g = def(g)
<1>2. HeightOf = h
  BY <1>1 DEF HeightOf
<1>3. hgt \in [D -> Nat]
  BY <1>1
<1>4. ASSUME NEW s \in D
      PROVE  /\ nodes[s].leaf => hgt[s] = 0
             /\ ~nodes[s].leaf => nodes[s].last \in D /\ hgt[s] = hgt[nodes[s].last] + 1
  <2>1. IsNode(nodes[s], D) /\ Leveled(hgt, dom)
    BY <1>1 DEF TreeInv, TypeOK, Ranged
  <2>2. ~nodes[s].leaf => s \in Inner /\ nodes[s].last \in Pointers(nodes[s])
    BY <1>1 DEF Inner, Leaves, Pointers
  <2> QED
    BY <1>1, <2>1, <2>2 DEF Leveled, IsNode
<1>5. hgt = def(hgt)
  BY <1>3, <1>4
<1>6. h = def(h)
  BY <1>5
<1> HIDE DEF h
<1>7. \A s \in D : h[s] = IF nodes[s].leaf THEN 0 ELSE h[nodes[s].last] + 1
  BY <1>6
<1>8. h = [s \in D |-> h[s]]
  BY <1>6
<1> HIDE DEF def
<1> DEFINE bad == {s \in D : h[s] # hgt[s]}
<1>9. bad = {}
  <2> SUFFICES ASSUME bad # {}
               PROVE  FALSE
    OBVIOUS
  <2>1. PICK H : H = {hgt[s] : s \in bad}
    OBVIOUS
  <2>2. H \in SUBSET Nat /\ H # {}
    BY <2>1, <1>3
  <2>3. PICK x \in H : \A y \in H : x <= y
    BY <2>2, LeastNumber
  <2>4. PICK s \in bad : \A t \in bad : hgt[s] <= hgt[t]
    BY <2>1, <2>3
  <2>5. CASE nodes[s].leaf
    BY <2>5, <1>4, <1>7
  <2>6. CASE ~nodes[s].leaf
    <3>1. PICK t \in D : t = nodes[s].last
      BY <2>6, <1>4
    <3>2. hgt[s] = hgt[t] + 1 /\ h[s] = h[t] + 1 /\ hgt[t] \in Nat
      BY <2>6, <3>1, <1>3, <1>4, <1>7
    <3>3. t \notin bad
      BY <2>4, <3>2
    <3> QED
      BY <3>2, <3>3
  <2> QED
    BY <2>5, <2>6
<1> QED
  BY <1>2, <1>3, <1>8, <1>9

(* The ranges and heights of the invariant are those a search finds.       *)
LEMMA TreeSearched == ASSUME TreeInv PROVE SearchTree
<1>1. PICK dom \in [DOMAIN nodes -> SUBSET Keys], hgt \in [DOMAIN nodes -> Nat] : Ranged(dom, hgt)
  BY DEF TreeInv
<1>2. HeightOf = hgt
  BY <1>1, HeightIs
<1>3. RangeOf = dom
  <2>1. PICK route : route = [k \in Keys |-> Route(k)]
    OBVIOUS
  <2>2. \A k \in Keys : route[k] = {t \in DOMAIN nodes : k \in dom[t]}
    BY <2>1, <1>1, RouteIs
  <2>3. RangeOf = [s \in DOMAIN nodes |-> {k \in Keys : s \in route[k]}]
    BY <2>1 DEF RangeOf
  <2> QED
    BY <2>2, <2>3
<1> QED
  BY <1>1, <1>2, <1>3 DEF SearchTree, Ranged

-----------------------------------------------------------------------------
(* Every step keeps it.                                                    *)
LEMMA TreeStep ==
  ASSUME TreeInv, [Next]_vars
  PROVE  TreeInv'
<1>1. ASSUME NEW k \in Keys, NEW v \in Values, InsertCall(k, v)
      PROVE  TreeInv'
  BY <1>1, InsertCallInv
<1>2. CASE InsertFull
  BY <1>2, InsertFullInv
<1>3. CASE Descend
  BY <1>3, DescendInv
<1>4. CASE LeafInsert
  BY <1>4, LeafInsertInv
<1>5. CASE LeafSplit
  BY <1>5, LeafSplitInv
<1>6. CASE InnerInsert
  BY <1>6, InnerInsertInv
<1>7. CASE InnerSplit
  BY <1>7, InnerSplitInv
<1>8. CASE NewRoot
  BY <1>8, NewRootInv
<1>9. CASE InsertReturn
  BY <1>9, InsertReturnInv
<1>10. CASE UNCHANGED vars
  BY <1>10, StutterInv
<1> QED
  BY <1>1, <1>2, <1>3, <1>4, <1>5, <1>6, <1>7, <1>8, <1>9, <1>10 DEF Next, Step

(* TreeInv is inductive: it holds in every state of every run.             *)
THEOREM TreeInvariant == Spec => []TreeInv
<1>1. Init => TreeInv
  BY InitInv
<1>2. TreeInv /\ [Next]_vars => TreeInv'
  BY TreeStep
<1> QED
  BY <1>1, <1>2, PTL DEF Spec

(* Every variable has its type in every state: no pointer of a node leads  *)
(* out of the tree, and the bitmap marks the slots in use and no other.    *)
THEOREM TypeCorrect == Spec => []TypeOK
<1>1. TreeInv => TypeOK
  BY DEF TreeInv
<1> QED
  BY <1>1, TreeInvariant, PTL

(* The counter SplitBTreeNode and its callers keep beside the keys: exact  *)
(* in a leaf, at most one too low in an inner node; no node takes more     *)
(* than MaxElements + 1 keys or has, but for the root, less than half.     *)
THEOREM CountsKept == Spec => []KeyCounts
<1>1. TreeInv => KeyCounts
  BY DEF TreeInv
<1> QED
  BY <1>1, TreeInvariant, PTL

(* The tree is a balanced search tree in every state, those within an      *)
(* insertion included: RecursiveInsert finds every key in the one leaf it  *)
(* belongs in, on the level all leaves are on.                             *)
THEOREM Searchable == Spec => []SearchTree
<1>1. TreeInv => SearchTree
  BY TreeSearched
<1> QED
  BY <1>1, TreeInvariant, PTL

(* BTreeNodeInsertSplittedKey never meets the key it inserts: the branch   *)
(* of BSTInsertNodeAndGetSth for duplicates in an inner node is dead.      *)
THEOREM SplitterNeverDuplicate == Spec => []SplitterIsNew
<1>1. TreeInv => SplitterIsNew
  <2> SUFFICES ASSUME TreeInv, Pending, path # <<>>
               PROVE  split.key \notin KeysOf(nodes[Top(path)])
    BY DEF SplitterIsNew
  <2>1. PICK dom \in [DOMAIN nodes -> SUBSET Keys], hgt \in [DOMAIN nodes -> Nat] : Ranged(dom, hgt)
    BY DEF TreeInv
  <2> QED
    BY <2>1, PendingParent DEF Waiting
<1> QED
  BY <1>1, TreeInvariant, PTL

-----------------------------------------------------------------------------
(* What the tree stores: every step of Insert is a step of OrderedStore or *)
(* leaves it alone.                                                        *)

(* A pair is stored if a leaf holds it.                                    *)
Holds(z) == \E s \in Leaves : \E q \in KeysOf(nodes[s]) : z = <<q, nodes[s].ent[q]>>

(* Contents lists the pairs the leaves hold.                               *)
LEMMA Stored == \A z : z \in Contents <=> Holds(z)
BY DEF Contents, Holds

(* The same after a step.                                                  *)
LEMMA StoredNext == \A z : z \in Contents' <=> Holds(z)'
BY DEF Contents, Holds

(* Steps that change inner nodes only change nothing that is stored.       *)
LEMMA ContentsKept ==
  ASSUME Leaves' = Leaves, \A s \in Leaves : nodes'[s] = nodes[s]
  PROVE  Contents' = Contents
<1>1. ASSUME NEW z
      PROVE  Holds(z)' <=> Holds(z)
  BY DEF Holds
<1>2. \A z : z \in Contents' <=> z \in Contents
  BY <1>1, Stored, StoredNext
<1>3. Contents = {z \in Contents : TRUE} /\ Contents' = {z \in Contents' : TRUE}
  OBVIOUS
<1> QED
  BY <1>2

(* Leaf s, the only one that may hold k, is replaced by the leaves of C,   *)
(* which hold its keys and k with value v.                                 *)
Replaced(s, C, k, v) ==
  /\ s \in Leaves /\ Leaves' = (Leaves \ {s}) \cup C
  /\ \A t \in Leaves \ {s} : t \notin C /\ nodes'[t] = nodes[t] /\ k \notin KeysOf(nodes[t])
  /\ \A t \in C : \A q \in KeysOf(nodes'[t]) :
       /\ q \in KeysOf(nodes[s]) \cup {k}
       /\ nodes'[t].ent[q] = IF q = k THEN v ELSE nodes[s].ent[q]
  /\ \A q \in KeysOf(nodes[s]) \cup {k} : \E t \in C : q \in KeysOf(nodes'[t])

(* That overwrites what is stored under k.                                 *)
LEMMA ContentsReplaced ==
  ASSUME NEW s, NEW C, NEW k, NEW v, Replaced(s, C, k, v)
  PROVE  Contents' = Store!Overwrite(Contents, <<k, v>>)
<1>1. ASSUME NEW z, Holds(z)'
      PROVE  z = <<k, v>> \/ (Holds(z) /\ z[1] # k)
  <2>1. PICK t \in Leaves' : \E q \in KeysOf(nodes'[t]) : z = <<q, nodes'[t].ent[q]>>
    BY <1>1 DEF Holds
  <2>2. PICK q \in KeysOf(nodes'[t]) : z = <<q, nodes'[t].ent[q]>>
    BY <2>1
  <2>3. CASE t \in C /\ q = k
    BY <2>1, <2>2, <2>3 DEF Replaced
  <2>4. CASE t \in C /\ q # k
    <3>1. q \in KeysOf(nodes[s]) /\ z = <<q, nodes[s].ent[q]>> /\ z[1] = q
      BY <2>1, <2>2, <2>4 DEF Replaced
    <3> QED
      BY <3>1, <2>4 DEF Replaced, Holds
  <2>5. CASE t \notin C
    <3>1. t \in Leaves \ {s} /\ nodes'[t] = nodes[t] /\ q # k
      BY <2>1, <2>2, <2>5 DEF Replaced
    <3>2. z[1] = q
      BY <2>1, <2>2
    <3> QED
      BY <2>1, <2>2, <3>1, <3>2 DEF Holds
  <2> QED
    BY <2>3, <2>4, <2>5
<1>2. Holds(<<k, v>>)'
  <2>1. PICK t \in C : k \in KeysOf(nodes'[t])
    BY DEF Replaced
  <2>2. t \in Leaves' /\ nodes'[t].ent[k] = v
    BY <2>1 DEF Replaced
  <2> QED
    BY <2>1, <2>2 DEF Holds
<1>3. ASSUME NEW z, Holds(z), z[1] # k
      PROVE  Holds(z)'
  <2>1. PICK t \in Leaves : \E q \in KeysOf(nodes[t]) : z = <<q, nodes[t].ent[q]>>
    BY <1>3 DEF Holds
  <2>2. PICK q \in KeysOf(nodes[t]) : z = <<q, nodes[t].ent[q]>>
    BY <2>1
  <2>3. q # k
    BY <2>2, <1>3
  <2>4. CASE t = s
    <3>1. PICK u \in C : q \in KeysOf(nodes'[u])
      BY <2>1, <2>2, <2>4 DEF Replaced
    <3>2. u \in Leaves' /\ nodes'[u].ent[q] = nodes[s].ent[q]
      BY <3>1, <2>3 DEF Replaced
    <3> QED
      BY <2>1, <2>2, <2>4, <3>1, <3>2 DEF Holds
  <2>5. CASE t # s
    <3>1. t \in Leaves' /\ nodes'[t] = nodes[t]
      BY <2>5 DEF Replaced
    <3> QED
      BY <2>1, <2>2, <3>1 DEF Holds
  <2> QED
    BY <2>4, <2>5
<1>4. \A z : z \in Contents' <=> z \in Store!Overwrite(Contents, <<k, v>>)
  BY <1>1, <1>2, <1>3, Stored, StoredNext DEF Store!Overwrite
<1>5. PICK O : O = Store!Overwrite(Contents, <<k, v>>)
  OBVIOUS
<1>6. \A z : z \in Contents' <=> z \in O
  BY <1>4, <1>5
<1> QED
  BY <1>5, <1>6

(* A key belongs in one leaf only: the leaf a search for it ends in.       *)
LEMMA OneLeaf ==
  ASSUME TreeInv, pc = "descend", nodes[cur].leaf, NEW t \in Leaves, t # cur
  PROVE  key \notin KeysOf(nodes[t])
<1>1. PICK dom \in [DOMAIN nodes -> SUBSET Keys], hgt \in [DOMAIN nodes -> Nat] : Ranged(dom, hgt)
  BY DEF TreeInv
<1>2. t \in DOMAIN nodes /\ cur \in DOMAIN nodes /\ nodes[t].leaf
  BY DEF Leaves, TreeInv, TypeOK
<1>3. WellRanged(dom) /\ Leveled(hgt, dom) /\ key \in dom[cur]
  BY <1>1 DEF Ranged
<1>4. hgt[t] = hgt[cur]
  BY <1>2, <1>3 DEF Leveled
<1>5. dom[t] \cap dom[cur] = {}
  BY <1>2, <1>3, <1>4 DEF Leveled
<1> QED
  BY <1>2, <1>3, <1>5 DEF WellRanged

-----------------------------------------------------------------------------
(* A leaf that takes the key overwrites the pair of the key.               *)
LEMMA LeafInsertApplies ==
  ASSUME TreeInv, LeafInsert
  PROVE  Contents' = Store!Overwrite(Contents, <<key, val>>)
<1>1. PICK n : n = nodes[cur]
  OBVIOUS
<1>2. PICK m : m = LeafPut(n, key, val)
  OBVIOUS
<1>3. /\ cur \in DOMAIN nodes /\ n.leaf /\ key \in Keys /\ val \in Values /\ pc = "descend"
      /\ nodes' = [nodes EXCEPT ![cur] = m]
  BY <1>1, <1>2 DEF LeafInsert, TreeInv, TypeOK
<1>4. IsNode(n, DOMAIN nodes) /\ IsFiniteSet(KeysOf(n))
  BY <1>1, <1>3 DEF TreeInv, TypeOK, KeyCounts, CountFits
<1>5. /\ m.leaf /\ KeysOf(m) = KeysOf(n) \cup {key} /\ m.ent[key] = val
      /\ \A q \in KeysOf(n) : q # key => m.ent[q] = n.ent[q]
  BY <1>2, <1>3, <1>4, LeafPutFacts
<1>6. /\ DOMAIN nodes' = DOMAIN nodes /\ nodes'[cur] = m
      /\ \A t \in DOMAIN nodes : t # cur => nodes'[t] = nodes[t]
  BY <1>3
<1>7. Leaves' = Leaves /\ cur \in Leaves
  BY <1>1, <1>3, <1>5, <1>6 DEF Leaves
<1>8. \A t \in Leaves \ {cur} : key \notin KeysOf(nodes[t])
  BY <1>1, <1>3, OneLeaf
<1>9. Replaced(cur, {cur}, key, val)
  BY <1>1, <1>5, <1>6, <1>7, <1>8 DEF Replaced, Leaves
<1> QED
  BY <1>9, ContentsReplaced

(* So does a leaf that is split for it.                                    *)
LEMMA LeafSplitApplies ==
  ASSUME TreeInv, LeafSplit
  PROVE  Contents' = Store!Overwrite(Contents, <<key, val>>)
<1>1. PICK n : n = nodes[cur]
  OBVIOUS
<1>2. PICK new : new = GetNewNodeSlot
  OBVIOUS
<1>3. PICK h : h = SplitLeaf(n, key, val, new)
  OBVIOUS
<1>4. PICK S : S = DOMAIN nodes \cup {new}
  OBVIOUS
<1>5. /\ cur \in DOMAIN nodes /\ n.leaf /\ key \in Keys /\ val \in Values /\ pc = "descend"
      /\ n.keyNum >= MaxElements /\ new \notin DOMAIN nodes
      /\ nodes' = [t \in S |-> IF t = new THEN h.right ELSE IF t = cur THEN h.left ELSE nodes[t]]
  BY <1>1, <1>2, <1>3, <1>4, NewSlot DEF LeafSplit, RecordSplit, TreeInv, TypeOK
<1>6. IsNode(n, DOMAIN nodes) /\ IsFiniteSet(KeysOf(n)) /\ n.keyNum = Cardinality(KeysOf(n))
  BY <1>1, <1>5 DEF TreeInv, TypeOK, KeyCounts, CountFits
<1>7. IsNode(n, S) /\ new \in S /\ Cardinality(KeysOf(n)) >= 2
  <2>1. IsNode(n, S)
    BY <1>4, <1>6, NodeMonotone
  <2>2. n.keyNum \in Nat
    BY <1>6 DEF IsNode
  <2> QED
    BY <2>1, <2>2, <1>4, <1>5, <1>6, MaxElementsAssumption
<1>8. /\ h.key \in KeysOf(n) /\ h.left.leaf /\ h.right.leaf
      /\ KeysOf(h.left) = {q \in KeysOf(n) \cup {key} : q < h.key}
      /\ KeysOf(h.right) = {q \in KeysOf(n) \cup {key} : q >= h.key}
      /\ \A q \in KeysOf(h.left) : h.left.ent[q] = IF q = key THEN val ELSE n.ent[q]
      /\ \A q \in KeysOf(h.right) : h.right.ent[q] = IF q = key THEN val ELSE n.ent[q]
  BY <1>3, <1>5, <1>6, <1>7, SplitLeafFacts
<1>9. /\ DOMAIN nodes' = S /\ nodes'[cur] = h.left /\ nodes'[new] = h.right
      /\ \A t \in DOMAIN nodes : t # cur => nodes'[t] = nodes[t]
  BY <1>4, <1>5
<1>10. Leaves' = (Leaves \ {cur}) \cup {cur, new} /\ cur \in Leaves
  BY <1>1, <1>4, <1>5, <1>8, <1>9 DEF Leaves
<1>11. \A t \in Leaves \ {cur} : key \notin KeysOf(nodes[t])
  BY <1>1, <1>5, OneLeaf
<1>12. \A q \in KeysOf(n) \cup {key} : q \in KeysOf(h.left) \/ q \in KeysOf(h.right)
  <2>1. KeysOf(n) \cup {key} \subseteq Int
    BY <1>5, <1>6, KeysAssumption DEF IsNode
  <2> QED
    BY <2>1, <1>8
<1>13. Replaced(cur, {cur, new}, key, val)
  BY <1>1, <1>5, <1>8, <1>9, <1>10, <1>11, <1>12 DEF Replaced, Leaves
<1> QED
  BY <1>13, ContentsReplaced

(* Recording a split in inner nodes stores nothing.                        *)
LEMMA AscentKeeps ==
  ASSUME TreeInv, InnerInsert \/ InnerSplit \/ NewRoot
  PROVE  Contents' = Contents
<1>1. PICK dom \in [DOMAIN nodes -> SUBSET Keys], hgt \in [DOMAIN nodes -> Nat] : Ranged(dom, hgt)
  BY DEF TreeInv
<1>2. PICK new : new = GetNewNodeSlot
  OBVIOUS
<1>3. PICK p : p = Top(path)
  OBVIOUS
<1>4. PICK n : n = nodes[p]
  OBVIOUS
<1>5. PICK S : S = DOMAIN nodes \cup {new}
  OBVIOUS
<1>6. TypeOK /\ Pending
  BY DEF TreeInv, InnerInsert, InnerSplit, NewRoot, Pending
<1>7. path # <<>> => Waiting(p, n, split.key, split.left, split.right, dom, hgt)
  BY <1>1, <1>3, <1>4, <1>6, PendingParent
<1>8. CASE InnerInsert
  <2>1. PICK m0 : m0 = InnerPut(n, split.key, split.left, split.right)
    OBVIOUS
  <2>2. PICK m : m = Counted(m0)
    OBVIOUS
  <2>3. p \in Inner /\ nodes' = [nodes EXCEPT ![p] = m]
    BY <1>3, <1>4, <1>7, <1>8, <2>1, <2>2 DEF InnerInsert, Waiting
  <2>4. p \in DOMAIN nodes /\ ~n.leaf
    BY <1>4, <2>3 DEF Inner, Leaves
  <2>5. ~m.leaf
    <3>1. IsNode(n, DOMAIN nodes)
      BY <1>4, <1>6, <2>4 DEF TypeOK
    <3>2. m.leaf = n.leaf
      BY <3>1, <2>1, <2>2 DEF IsNode, InnerPut, Counted
    <3> QED
      BY <3>2, <2>4
  <2> QED
    BY <1>4, <2>3, <2>4, <2>5, ContentsKept DEF Leaves
<1>9. CASE InnerSplit
  <2>1. PICK h : h = SplitInner(n, split.key, split.left, split.right)
    OBVIOUS
  <2>2. /\ p \in Inner /\ new \notin DOMAIN nodes
        /\ nodes' = [t \in S |-> IF t = new THEN h.right ELSE IF t = p THEN h.left ELSE nodes[t]]
    BY <1>2, <1>3, <1>4, <1>5, <1>6, <1>7, <1>9, <2>1, NewSlot
       DEF InnerSplit, RecordSplit, Waiting
  <2>3. p \in DOMAIN nodes /\ ~n.leaf
    BY <1>4, <2>2 DEF Inner, Leaves
  <2>4. ~h.left.leaf /\ ~h.right.leaf
    <3>1. IsNode(n, DOMAIN nodes)
      BY <1>4, <1>6, <2>3 DEF TypeOK
    <3>2. h.left.leaf = n.leaf /\ h.right.leaf = n.leaf
      BY <3>1, <2>1 DEF IsNode, SplitInner, InnerPut, Half
    <3> QED
      BY <3>2, <2>3
  <2>5. Leaves' = Leaves /\ \A s \in Leaves : nodes'[s] = nodes[s]
    BY <1>4, <1>5, <2>2, <2>3, <2>4 DEF Leaves
  <2> QED
    BY <2>5, ContentsKept
<1>10. CASE NewRoot
  <2>1. PICK m : m = RootOver(split.key, split.left, split.right)
    OBVIOUS
  <2>2. /\ new \notin DOMAIN nodes /\ ~m.leaf
        /\ nodes' = [t \in S |-> IF t = new THEN m ELSE nodes[t]]
    BY <1>2, <1>5, <1>6, <1>10, <2>1, NewSlot DEF NewRoot, RootOver
  <2>3. Leaves' = Leaves /\ \A s \in Leaves : nodes'[s] = nodes[s]
    BY <1>5, <2>2 DEF Leaves
  <2> QED
    BY <2>3, ContentsKept
<1> QED
  BY <1>8, <1>9, <1>10

(* The tree left alone.                                                    *)
LEMMA TreeKeeps ==
  ASSUME nodes' = nodes
  PROVE  Contents' = Contents
BY ContentsKept DEF Leaves

-----------------------------------------------------------------------------
(* The phases of a call.                                                   *)
LEMMA Phases ==
  /\ pc = "idle" => Phase = "idle"
  /\ pc = "descend" => Phase = "called"
  /\ pc \in {"ascend", "done"} => Phase = "applied"
BY DEF Phase

(* The same after a step.                                                  *)
LEMMA PhasesNext ==
  /\ pc' = "idle" => Phase' = "idle"
  /\ pc' = "descend" => Phase' = "called"
  /\ pc' \in {"ascend", "done"} => Phase' = "applied"
BY DEF Phase

(* An empty tree stores nothing.                                           *)
LEMMA StoreInit == Init => Store!Init
<1> SUFFICES ASSUME Init PROVE Store!Init
  OBVIOUS
<1>1. TreeInv
  BY InitInv
<1>2. KeysOf(EmptyLeaf) = {}
  BY DEF EmptyLeaf, KeysOf
<1>3. \A s \in Leaves : nodes[s] = EmptyLeaf
  BY FirstSlotIsSlot DEF Init, Leaves
<1>4. \A z : ~Holds(z)
  BY <1>2, <1>3 DEF Holds
<1>5. Contents = {}
  BY <1>4, Stored
<1>6. Phase = "idle"
  BY Phases DEF Init
<1> QED
  BY <1>5, <1>6 DEF Init, Store!Init

(* LeafInsert and LeafSplit are the moment a call takes effect.            *)
LEMMA StoreStep ==
  ASSUME TreeInv, [Next]_vars
  PROVE  [Store!Next]_Store!vars
<1>1. ASSUME NEW k \in Keys, NEW v \in Values, InsertCall(k, v)
      PROVE  Store!Call
  <2>1. Contents' = Contents
    BY <1>1, TreeKeeps DEF InsertCall, tree
  <2> QED
    BY <1>1, <2>1, Phases, PhasesNext DEF InsertCall, Store!Call
<1>2. CASE InsertFull \/ Descend
  <2>1. Contents' = Contents
    BY <1>2, TreeKeeps DEF InsertFull, Descend, tree
  <2>2. Phase' = Phase /\ key' = key /\ val' = val
    BY <1>2, Phases, PhasesNext DEF InsertFull, Descend
  <2> QED
    BY <2>1, <2>2 DEF Store!vars
<1>3. CASE LeafInsert
  <2>1. Contents' = Store!Overwrite(Contents, <<key, val>>)
    BY <1>3, LeafInsertApplies
  <2>2. Phase = "called" /\ Phase' = "applied" /\ key' = key /\ val' = val
    BY <1>3, Phases, PhasesNext DEF LeafInsert
  <2> QED
    BY <2>1, <2>2 DEF Store!Next, Store!Apply
<1>4. CASE LeafSplit
  <2>1. Contents' = Store!Overwrite(Contents, <<key, val>>)
    BY <1>4, LeafSplitApplies
  <2>2. Phase = "called" /\ Phase' = "applied" /\ key' = key /\ val' = val
    BY <1>4, Phases, PhasesNext DEF LeafSplit, RecordSplit
  <2> QED
    BY <2>1, <2>2 DEF Store!Next, Store!Apply
<1>5. CASE InnerInsert \/ InnerSplit \/ NewRoot
  <2>1. Contents' = Contents
    BY <1>5, AscentKeeps
  <2>2. pc = "ascend" /\ pc' \in {"ascend", "done"} /\ key' = key /\ val' = val
    BY <1>5 DEF InnerInsert, InnerSplit, RecordSplit, NewRoot
  <2>3. Phase' = Phase
    BY <2>2, Phases, PhasesNext
  <2> QED
    BY <2>1, <2>2, <2>3 DEF Store!vars
<1>6. CASE InsertReturn
  <2>1. Contents' = Contents
    BY <1>6, TreeKeeps DEF InsertReturn, tree
  <2> QED
    BY <1>6, <2>1, Phases, PhasesNext DEF InsertReturn, Store!Next, Store!Return
<1>7. CASE UNCHANGED vars
  <2>1. nodes' = nodes /\ pc' = pc /\ key' = key /\ val' = val
    BY <1>7 DEF vars
  <2>2. Contents' = Contents /\ Phase' = Phase
    BY <2>1, TreeKeeps DEF Phase
  <2> QED
    BY <2>1, <2>2 DEF Store!vars
<1> QED
  BY <1>1, <1>2, <1>3, <1>4, <1>5, <1>6, <1>7 DEF Next, Step, Store!Next

(* Insert implements the ordered store for every size of node and set of   *)
(* keys: a call takes effect once, at its leaf, and overwrites exactly the *)
(* value of its key, whatever splits it causes on the way up.              *)
THEOREM InsertImplementsStore == Spec => Store!Spec
<1>1. TreeInv /\ [Next]_vars => [Store!Next]_Store!vars
  BY StoreStep
<1> QED
  BY <1>1, TreeInvariant, StoreInit, PTL DEF Spec, Store!Spec

(* InKeyOrder lists a finite set of keys in ascending order.               *)
LEMMA KeyOrder ==
  ASSUME NEW S \in SUBSET Int, IsFiniteSet(S)
  PROVE  LET q == InKeyOrder(S)
             c == Cardinality(S)
         IN  /\ c \in Nat /\ q \in [1 .. c -> S] /\ q \in Seq(S) /\ Len(q) = c
             /\ \A i, j \in 1 .. c : i < j => q[i] < q[j]
             /\ \A k \in S : \E i \in 1 .. c : q[i] = k
<1> DEFINE c == Cardinality(S)
           q == InKeyOrder(S)
<1>1. c \in Nat
  BY FS_CardinalityType
<1>2. ASSUME NEW i \in 1 .. c
      PROVE  q[i] \in S /\ Cardinality(Below(S, q[i])) = i - 1
  <2>1. i - 1 \in 0 .. c - 1
    BY <1>1
  <2>2. \E k \in S : Cardinality(Below(S, k)) = i - 1
    BY <2>1, RankExists
  <2>3. q[i] = CHOOSE k \in S : Cardinality(Below(S, k)) = i - 1
    BY DEF InKeyOrder
  <2> QED
    BY <2>2, <2>3
<1>3. q \in [1 .. c -> S] /\ DOMAIN q = 1 .. c
  <2>1. q = [i \in 1 .. c |-> q[i]]
    BY DEF InKeyOrder
  <2> HIDE DEF q
  <2> QED
    BY <2>1, <1>2
<1> HIDE DEF q
<1>4. q \in Seq(S) /\ Len(q) = c
  <2>1. q \in Seq(S)
    BY <1>1, <1>3, SeqDef
  <2> QED
    BY <2>1, <1>1, <1>3
<1>5. ASSUME NEW x \in S, NEW y \in S, x <= y
      PROVE  /\ Cardinality(Below(S, x)) <= Cardinality(Below(S, y))
             /\ Cardinality(Below(S, x)) \in Nat
             /\ x # y => Cardinality(Below(S, x)) # Cardinality(Below(S, y))
  <2>1. Below(S, x) \in SUBSET Below(S, y) /\ Below(S, y) \in SUBSET S
    BY <1>5 DEF Below
  <2>2. IsFiniteSet(Below(S, y)) /\ IsFiniteSet(Below(S, x))
    BY <2>1, FS_Subset
  <2>3. x # y => Below(S, x) # Below(S, y)
    BY <1>5 DEF Below
  <2> QED
    BY <2>1, <2>2, <2>3, FS_Subset, FS_CardinalityType
<1>6. ASSUME NEW i \in 1 .. c, NEW j \in 1 .. c, i < j
      PROVE  q[i] < q[j]
  <2>1. CASE q[j] <= q[i]
    <3>1. Cardinality(Below(S, q[j])) <= Cardinality(Below(S, q[i]))
      BY <2>1, <1>2, <1>5
    <3> QED
      BY <3>1, <1>1, <1>2, <1>6
  <2>2. q[i] \in Int /\ q[j] \in Int
    BY <1>2
  <2> QED
    BY <2>1, <2>2
<1>7. ASSUME NEW k \in S
      PROVE  \E i \in 1 .. c : q[i] = k
  <2>1. PICK n \in Nat : n = Cardinality(Below(S, k))
    BY <1>5
  <2>2. n <= c - 1
    <3>1. Below(S, k) \in SUBSET S /\ Below(S, k) # S
      BY DEF Below
    <3> QED
      BY <2>1, <3>1, <1>1, FS_Subset, FS_CardinalityType
  <2>3. n + 1 \in 1 .. c
    BY <2>2, <1>1
  <2>4. q[n + 1] \in S /\ Cardinality(Below(S, q[n + 1])) = n
    BY <2>3, <1>2
  <2>5. q[n + 1] = k
    <3>1. PICK x \in S : x = q[n + 1]
      BY <2>4
    <3>2. x <= k \/ k <= x
      OBVIOUS
    <3> QED
      BY <2>1, <2>4, <3>1, <3>2, <1>5
  <2> QED
    BY <2>3, <2>5
<1> QED
  BY <1>1, <1>3, <1>4, <1>6, <1>7 DEF q

(* e lists the leaves of L in key order, each followed by its next.        *)
Listed(L, nxt, dom, N, e) ==
  /\ N \in Nat /\ e \in [1 .. N -> L]
  /\ \A i, j \in 1 .. N : i < j => Before(dom, e[i], e[j])
  /\ \A i, j \in 1 .. N : e[i] = e[j] => i = j
  /\ \A s \in L : \E i \in 1 .. N : e[i] = s
  /\ \A i \in 1 .. N : nxt[e[i]] = IF i = N THEN NoSlot ELSE e[i + 1]

(* A chain whose leaves are linked in key order is such a list.            *)
LEMMA ChainListed ==
  ASSUME NEW L, IsFiniteSet(L), NoSlot \notin L, NEW nxt, NEW dom, Linked(L, nxt, dom),
         \A s \in L : dom[s] # {} /\ dom[s] \subseteq Int
  PROVE  \E e : Listed(L, nxt, dom, Cardinality(L), e)
<1>1. PICK rep : rep = [s \in L |-> CHOOSE x \in dom[s] : TRUE]
  OBVIOUS
<1>2. \A s \in L : rep[s] \in dom[s] /\ rep[s] \in Int
  BY <1>1
<1>3. ASSUME NEW s \in L, NEW t \in L, s # t
      PROVE  Before(dom, s, t) \/ Before(dom, t, s)
  BY <1>3 DEF Linked
<1>4. ASSUME NEW s \in L, NEW t \in L, rep[s] <= rep[t]
      PROVE  ~Before(dom, t, s)
  BY <1>2, <1>4 DEF Before
<1>5. \A s, t \in L : rep[s] = rep[t] => s = t
  BY <1>2, <1>3, <1>4
<1>6. PICK R : R = {rep[s] : s \in L}
  OBVIOUS
<1>7. IsFiniteSet(R) /\ Cardinality(R) = Cardinality(L) /\ R \in SUBSET Int
  <2>1. rep \in Bijection(L, R)
    <3>1. rep \in [L -> R] /\ DOMAIN rep = L
      BY <1>1, <1>6
    <3>2. rep \in Injection(L, R)
      BY <3>1, <1>5 DEF Injection, IsInjective
    <3>3. rep \in Surjection(L, R)
      BY <3>1, <1>6 DEF Surjection
    <3> QED
      BY <3>2, <3>3 DEF Bijection
  <2>2. ExistsBijection(L, R)
    BY <2>1 DEF ExistsBijection
  <2> QED
    BY <2>2, <1>2, <1>6, FS_Bijection
<1>8. PICK N : N = Cardinality(L)
  OBVIOUS
<1>9. PICK q : q = InKeyOrder(R)
  OBVIOUS
<1>10. /\ N \in Nat /\ q \in [1 .. N -> R]
       /\ \A i, j \in 1 .. N : i < j => q[i] < q[j]
       /\ \A k \in R : \E i \in 1 .. N : q[i] = k
  BY <1>7, <1>8, <1>9, KeyOrder
<1>11. PICK e : e = [i \in 1 .. N |-> CHOOSE s \in L : rep[s] = q[i]]
  OBVIOUS
<1>12. \A i \in 1 .. N : e[i] \in L /\ rep[e[i]] = q[i]
  BY <1>6, <1>10, <1>11
<1>13. \A i, j \in 1 .. N : i < j => e[i] # e[j] /\ ~Before(dom, e[j], e[i]) /\ Before(dom, e[i], e[j])
  <2> SUFFICES ASSUME NEW i \in 1 .. N, NEW j \in 1 .. N, i < j
               PROVE  e[i] # e[j] /\ ~Before(dom, e[j], e[i]) /\ Before(dom, e[i], e[j])
    OBVIOUS
  <2>1. rep[e[i]] < rep[e[j]] /\ rep[e[i]] \in Int /\ rep[e[j]] \in Int
    BY <1>2, <1>10, <1>12
  <2>2. e[i] # e[j] /\ rep[e[i]] <= rep[e[j]]
    BY <2>1
  <2> QED
    BY <2>2, <1>3, <1>4, <1>12
<1>14. \A s \in L : \E i \in 1 .. N : e[i] = s
  <2> SUFFICES ASSUME NEW s \in L PROVE \E i \in 1 .. N : e[i] = s
    OBVIOUS
  <2>1. PICK i \in 1 .. N : q[i] = rep[s]
    BY <1>6, <1>10
  <2> QED
    BY <2>1, <1>5, <1>12
<1>15. \A i, j \in 1 .. N : e[i] = e[j] => i = j
  BY <1>10, <1>13
<1>16. ASSUME NEW i \in 1 .. N, NEW j \in 1 .. N, Before(dom, e[i], e[j])
       PROVE  i < j
  <2>1. ~(j < i)
    BY <1>13, <1>16
  <2>2. i # j
    BY <1>2, <1>12, <1>16 DEF Before
  <2> QED
    BY <2>1, <2>2, <1>10
<1>17. ASSUME NEW i \in 1 .. N
       PROVE  nxt[e[i]] = IF i = N THEN NoSlot ELSE e[i + 1]
  <2>1. e[i] \in L
    BY <1>12
  <2>2. CASE i = N
    <3>1. ASSUME nxt[e[i]] # NoSlot
          PROVE  FALSE
      <4>1. nxt[e[i]] \in L /\ Before(dom, e[i], nxt[e[i]])
        BY <2>1, <3>1 DEF Linked
      <4>2. PICK j \in 1 .. N : e[j] = nxt[e[i]]
        BY <4>1, <1>14
      <4>3. i < j
        BY <4>1, <4>2, <1>16
      <4> QED
        BY <4>2, <4>3, <2>2, <1>10
    <3> QED
      BY <3>1, <2>2
  <2>3. CASE i # N
    <3>1. i + 1 \in 1 .. N /\ i < i + 1
      BY <2>3, <1>10
    <3>2. PICK t \in L : t = e[i + 1] /\ t # e[i] /\ ~Before(dom, t, e[i])
      BY <3>1, <1>12, <1>13
    <3>3. /\ nxt[e[i]] # NoSlot /\ nxt[e[i]] \in L /\ Before(dom, e[i], nxt[e[i]])
          /\ t # nxt[e[i]] => Before(dom, nxt[e[i]], t)
      BY <2>1, <3>2 DEF Linked
    <3>4. PICK j \in 1 .. N : e[j] = nxt[e[i]]
      BY <3>3, <1>14
    <3>5. i < j
      BY <3>3, <3>4, <1>16
    <3>6. t # nxt[e[i]] => j < i + 1
      BY <3>1, <3>2, <3>3, <3>4, <1>16
    <3> QED
      BY <2>3, <3>2, <3>5, <3>6
  <2> QED
    BY <2>2, <2>3
<1>18. e \in [1 .. N -> L]
  BY <1>11, <1>12
<1>19. Listed(L, nxt, dom, N, e)
  BY <1>10, <1>13, <1>14, <1>15, <1>17, <1>18 DEF Listed
<1> QED
  BY <1>8, <1>19

(* The list from its i-th leaf on.                                         *)
Rest(e, N, i) == [j \in 1 .. N - i + 1 |-> e[i + j - 1]]

(* The i-th leaf goes before the rest from its next on.                    *)
LEMMA RestNext ==
  ASSUME NEW L, NEW N \in Nat, NEW e \in [1 .. N -> L], NEW i \in 1 .. N
  PROVE  Rest(e, N, i) = <<e[i]>> \o (IF i = N THEN <<>> ELSE Rest(e, N, i + 1))
<1>1. PICK m \in Nat : m = N - i
  OBVIOUS
<1>2. PICK r : r = IF i = N THEN <<>> ELSE Rest(e, N, i + 1)
  OBVIOUS
<1>3. r \in Seq(L) /\ Len(r) = m /\ \A j \in 1 .. m : r[j] = e[i + j]
  <2>1. CASE i = N
    BY <2>1, <1>1, <1>2, EmptySeq
  <2>2. CASE i # N
    <3>1. N - (i + 1) + 1 = m
      BY <1>1
    <3>2. r = [j \in 1 .. m |-> e[(i + 1) + j - 1]]
      BY <2>2, <3>1, <1>2 DEF Rest
    <3>3. \A j \in 1 .. m : (i + 1) + j - 1 = i + j /\ i + j \in 1 .. N
      BY <1>1
    <3>4. r \in [1 .. m -> L]
      BY <3>2, <3>3
    <3>5. r \in Seq(L)
      BY <3>4, SeqDef
    <3> QED
      BY <3>2, <3>3, <3>4, <3>5
  <2> QED
    BY <2>1, <2>2
<1>4. PICK f : f = <<e[i]>>
  OBVIOUS
<1>5. f \in Seq(L) /\ Len(f) = 1 /\ f[1] = e[i]
  BY <1>4
<1>6. PICK z : z = f \o r
  OBVIOUS
<1>7. /\ z \in Seq(L) /\ Len(z) = 1 + m
      /\ \A j \in 1 .. 1 + m : z[j] = IF j <= 1 THEN f[j] ELSE r[j - 1]
  <2>1. /\ f \o r \in Seq(L) /\ Len(f \o r) = Len(f) + Len(r)
        /\ \A j \in 1 .. Len(f) + Len(r) : (f \o r)[j] = IF j <= Len(f) THEN f[j] ELSE r[j - Len(f)]
    BY <1>3, <1>5, ConcatProperties
  <2> QED
    BY <2>1, <1>3, <1>5, <1>6
<1>8. \A j \in 1 .. m + 1 : z[j] = e[i + j - 1]
  <2> SUFFICES ASSUME NEW j \in 1 .. m + 1 PROVE z[j] = e[i + j - 1]
    OBVIOUS
  <2>1. CASE j = 1
    BY <2>1, <1>5, <1>7
  <2>2. CASE j # 1
    <3>1. j - 1 \in 1 .. m /\ i + (j - 1) = i + j - 1 /\ j \in 1 .. 1 + m /\ ~(j <= 1)
      BY <2>2
    <3> QED
      BY <3>1, <1>3, <1>7
  <2> QED
    BY <2>1, <2>2
<1>9. z = [j \in 1 .. m + 1 |-> e[i + j - 1]]
  <2>1. z \in [1 .. m + 1 -> L] /\ m + 1 = 1 + m
    BY <1>7, LenProperties
  <2> QED
    BY <2>1, <1>8
<1> QED
  BY <1>1, <1>2, <1>4, <1>6, <1>9 DEF Rest

(* Every node has keys in its range.                                       *)
LEMMA RangeFilled ==
  ASSUME TreeInv, NEW dom \in [DOMAIN nodes -> SUBSET Keys],
         NEW hgt \in [DOMAIN nodes -> Nat], Ranged(dom, hgt), NEW s \in DOMAIN nodes
  PROVE  dom[s] # {} /\ dom[s] \subseteq Int
<1> dom[s] \subseteq Int
  BY KeysAssumption
<1>1. ASSUME Cardinality(KeysOf(nodes[s])) >= 1
      PROVE  dom[s] # {}
  <2>1. KeysOf(nodes[s]) # {}
    BY <1>1, FS_EmptySet
  <2> QED
    BY <2>1 DEF Ranged, WellRanged
<1>2. IsFiniteSet(KeysOf(nodes[s])) /\ Cardinality(KeysOf(nodes[s])) \in Nat
  BY FS_CardinalityType DEF TreeInv, KeyCounts, CountFits
<1>3. ASSUME HalfFull(nodes[s])
      PROVE  Cardinality(KeysOf(nodes[s])) >= 1
  <2>1. (MaxElements - 1) \div 2 >= 1
    BY MaxElementsAssumption
  <2> QED
    BY <2>1, <1>2, <1>3, MaxElementsAssumption DEF HalfFull
<1>4. CASE s # root
  BY <1>4, <1>1, <1>3 DEF TreeInv, KeyCounts
<1>5. CASE s = root /\ Pending /\ s = split.left
  BY <1>5, <1>1, <1>3 DEF TreeInv, LeftKept
<1>6. CASE s = root /\ ~(Pending /\ s = split.left)
  <2>1. Joint(dom, root) = Keys /\ Joint(dom, root) = dom[s]
    BY <1>6 DEF Ranged, WellRanged, Joint
  <2>2. key \in Keys
    BY DEF TreeInv, TypeOK
  <2> QED
    BY <2>1, <2>2
<1> QED
  BY <1>4, <1>5, <1>6

(* The first child of an inner node.                                       *)
First(s) == nodes[s].ent[Least(KeysOf(nodes[s]))]

(* It is a child, and no key of the node is below all keys of the child.   *)
LEMMA FirstIsLowest ==
  ASSUME TreeInv, NEW dom \in [DOMAIN nodes -> SUBSET Keys],
         NEW hgt \in [DOMAIN nodes -> Nat], Ranged(dom, hgt), NEW s \in Inner
  PROVE  /\ First(s) \in DOMAIN nodes
         /\ hgt[s] = hgt[First(s)] + 1
         /\ \A y \in dom[s] : \E x \in dom[First(s)] : x <= y
<1>1. PICK n : n = nodes[s]
  OBVIOUS
<1>2. PICK S : S = KeysOf(n)
  OBVIOUS
<1>3. /\ s \in DOMAIN nodes /\ ~n.leaf
      /\ IsNode(n, DOMAIN nodes) /\ IsFiniteSet(S) /\ S # {} /\ Distinct(n)
  <2>1. s \in DOMAIN nodes /\ ~n.leaf
    BY <1>1 DEF Inner, Leaves
  <2>2. IsNode(n, DOMAIN nodes) /\ IsFiniteSet(S) /\ Cardinality(S) >= 1 /\ Distinct(n)
    BY <1>1, <1>2, <2>1 DEF TreeInv, TypeOK, KeyCounts, CountFits, InnerDistinct
  <2> QED
    BY <2>1, <2>2, FS_EmptySet
<1>4. S \in SUBSET Int
  BY <1>2, <1>3, KeysAssumption DEF IsNode
<1>5. PICK j : j = Least(S)
  OBVIOUS
<1>6. j \in S /\ \A q \in S : j <= q
  BY <1>3, <1>4, <1>5, LeastExists
<1>7. PICK c : c = n.ent[j]
  OBVIOUS
<1>8. First(s) = c /\ c \in Pointers(n) /\ c \in DOMAIN nodes
  BY <1>1, <1>2, <1>3, <1>5, <1>6, <1>7 DEF First, Pointers, IsNode
<1>9. hgt[s] = hgt[c] + 1 /\ Joint(dom, c) = {x \in dom[s] : Child(n, x) = c}
  BY <1>1, <1>8 DEF Ranged, Leveled, WellRanged
<1>10. ASSUME NEW y \in Int, y < j
       PROVE  Child(n, y) = c
  <2>1. Successor(n, y, j)
    BY <1>2, <1>4, <1>6, <1>10 DEF Successor
  <2> QED
    BY <2>1, <1>2, <1>3, <1>7, ChildIs
<1>11. ASSUME NEW x \in Int, Child(n, x) = c
       PROVE  x < j
  <2>1. CASE NoneAbove(n, x)
    <3>1. Child(n, x) = n.last
      BY <2>1, <1>2, <1>3, ChildIs
    <3> QED
      BY <3>1, <1>2, <1>3, <1>6, <1>7, <1>11 DEF Distinct
  <2>2. ASSUME NEW i, Successor(n, x, i)
        PROVE  x < j
    <3>1. Child(n, x) = n.ent[i]
      BY <2>2, <1>2, <1>3, ChildIs
    <3>2. i = j
      BY <3>1, <2>2, <1>2, <1>3, <1>6, <1>7, <1>11 DEF Distinct, Successor
    <3> QED
      BY <3>2, <2>2 DEF Successor
  <2> QED
    BY <2>1, <2>2, <1>2, <1>3, ChildIs
<1>12. PICK x0 \in dom[c] : x0 \in Int
  BY <1>8, RangeFilled
<1>13. x0 \in Joint(dom, c)
  BY DEF Joint
<1>14. x0 < j
  BY <1>9, <1>11, <1>12, <1>13
<1>15. ASSUME NEW y \in dom[s]
       PROVE  \E x \in dom[c] : x <= y
  <2>1. y \in Int /\ j \in Int
    BY <1>3, <1>4, <1>6, RangeFilled
  <2>2. CASE x0 <= y
    BY <2>2
  <2>3. CASE y < x0
    <3>1. Child(n, y) = c
      BY <2>1, <2>3, <1>10, <1>12, <1>14
    <3>2. y \in Joint(dom, c)
      BY <3>1, <1>9
    <3>3. CASE y \in dom[c]
      BY <3>3, <2>1
    <3>4. CASE y \notin dom[c]
      <4>1. Pending /\ c = split.left /\ y \in dom[split.right]
        BY <3>2, <3>4 DEF Joint
      <4>2. x0 < split.key /\ y >= split.key /\ split.key \in Int
        BY <4>1, <1>12, KeysAssumption DEF Ranged, WellRanged, TreeInv, TypeOK
      <4> QED
        BY <4>2, <2>1, <1>12
    <3> QED
      BY <3>3, <3>4
  <2> QED
    BY <2>1, <2>2, <2>3, <1>12
<1> QED
  BY <1>8, <1>9, <1>15

(* Every number of a set of numbers from 1 on is in it if n is whenever    *)
(* all above it are: the set has no last number outside it.                *)
LEMMA DownFrom ==
  ASSUME NEW N \in Nat, NEW X, \A i \in 1 .. N : (\A j \in 1 .. N : j > i => j \in X) => i \in X
  PROVE  1 .. N \subseteq X
<1> SUFFICES ASSUME NEW z \in 1 .. N, z \notin X
             PROVE  FALSE
  OBVIOUS
<1>1. PICK S : S = {n \in Nat : \E i \in 1 .. N : i \notin X /\ n = N - i}
  OBVIOUS
<1>2. N - z \in S
  BY <1>1
<1>3. PICK n \in S : \A m \in S : n <= m
  BY <1>1, <1>2, LeastNumber
<1>4. PICK i \in 1 .. N : i \notin X /\ n = N - i
  BY <1>1, <1>3
<1>5. ASSUME NEW j \in 1 .. N, j > i
      PROVE  j \in X
  <2> SUFFICES ASSUME j \notin X PROVE FALSE
    OBVIOUS
  <2>1. N - j \in S
    BY <1>1
  <2>2. n <= N - j
    BY <2>1, <1>3
  <2> QED
    BY <2>2, <1>4, <1>5
<1> QED
  BY <1>4, <1>5

(* The chain from the first leaf lists the leaves in key order.            *)
LEMMA ChainIs ==
  ASSUME TreeInv, NEW dom \in [DOMAIN nodes -> SUBSET Keys],
         NEW hgt \in [DOMAIN nodes -> Nat], Ranged(dom, hgt)
  PROVE  Listed(Leaves, NextLeaf, dom, Cardinality(Leaves), LeafChain)
<1>1. PICK D : D = DOMAIN nodes
  OBVIOUS
<1>2. PICK L : L = Leaves
  OBVIOUS
<1>3. PICK nxt : nxt = NextLeaf
  OBVIOUS
<1> DEFINE lower(g) == [s \in DOMAIN nodes |->
                          IF nodes[s].leaf THEN s
                          ELSE g[nodes[s].ent[Least(KeysOf(nodes[s]))]]]
           low == CHOOSE g : g = lower(g)
           on(g) == [s \in Leaves |-> <<s>> \o (IF nodes[s].last = NoSlot THEN <<>>
                                                ELSE g[nodes[s].last])]
           from == CHOOSE g : g = on(g)
<1>4. LeafChain = from[low[root]]
  BY DEF LeafChain
<1>5. \A s \in L : s \in D /\ nodes[s].leaf /\ nxt[s] = nodes[s].last
  BY <1>1, <1>2, <1>3 DEF Leaves, NextLeaf
<1>6. D \subseteq Slots /\ root \in D /\ NoSlot \notin D /\ L \subseteq D
  BY <1>1, <1>2, SlotsAssumption DEF TreeInv, TypeOK, NoSlot, Leaves
<1>7. IsFiniteSet(L)
  BY <1>6, SlotsAssumption, FS_Subset
<1>8. PICK N : N = Cardinality(L)
  OBVIOUS
<1>9. PICK e : Listed(L, nxt, dom, N, e)
  <2>1. \A s \in L : dom[s] # {} /\ dom[s] \subseteq Int
    BY <1>1, <1>6, RangeFilled
  <2>2. Linked(L, nxt, dom)
    BY <1>2, <1>3 DEF Ranged, Chained
  <2> QED
    BY <2>1, <2>2, <1>6, <1>7, <1>8, ChainListed
<1>10. /\ N \in Nat /\ e \in [1 .. N -> L]
       /\ \A i, j \in 1 .. N : i < j => Before(dom, e[i], e[j])
       /\ \A i, j \in 1 .. N : e[i] = e[j] => i = j
       /\ \A s \in L : \E i \in 1 .. N : e[i] = s
       /\ \A i \in 1 .. N : nxt[e[i]] = IF i = N THEN NoSlot ELSE e[i + 1]
  BY <1>9 DEF Listed
<1>26. \A i \in 1 .. N : Rest(e, N, i) = <<e[i]>> \o (IF i = N THEN <<>> ELSE Rest(e, N, i + 1))
  <2>1. N \in Nat /\ e \in [1 .. N -> L]
    BY <1>10
  <2> SUFFICES ASSUME NEW i \in 1 .. N
               PROVE  Rest(e, N, i) = <<e[i]>> \o (IF i = N THEN <<>> ELSE Rest(e, N, i + 1))
    OBVIOUS
  <2> QED
    BY ONLY <2>1, RestNext
<1>11. \E g : g = on(g)
  <2>1. PICK pos : pos = [s \in L |-> CHOOSE i \in 1 .. N : e[i] = s]
    OBVIOUS
  <2>2. \A i \in 1 .. N : pos[e[i]] = i
    BY <2>1, <1>10
  <2>3. PICK g : g = [s \in L |-> Rest(e, N, pos[s])]
    OBVIOUS
  <2>4. ASSUME NEW s \in L
        PROVE  g[s] = on(g)[s]
    <3>1. PICK i \in 1 .. N : e[i] = s
      BY <1>10
    <3>2. g[s] = Rest(e, N, i)
      BY <3>1, <2>2, <2>3
    <3>3. Rest(e, N, i) = <<e[i]>> \o (IF i = N THEN <<>> ELSE Rest(e, N, i + 1))
      BY <1>26
    <3>4. CASE i = N
      <4>1. nodes[s].last = NoSlot
        BY <3>1, <3>4, <1>5, <1>10
      <4> QED
        BY <4>1, <3>1, <3>2, <3>3, <3>4, <1>2
    <3>5. CASE i # N
      <4>1. i + 1 \in 1 .. N /\ e[i + 1] \in L
        BY <3>5, <1>10
      <4>2. nodes[s].last = e[i + 1] /\ e[i + 1] # NoSlot
        BY <4>1, <3>1, <3>5, <1>5, <1>6, <1>10
      <4>3. g[e[i + 1]] = Rest(e, N, i + 1)
        BY <4>1, <2>2, <2>3
      <4> QED
        BY <4>2, <4>3, <3>1, <3>2, <3>3, <3>5, <1>2
    <3> QED
      BY <3>4, <3>5
  <2>5. g = [s \in Leaves |-> g[s]] /\ on(g) = [s \in Leaves |-> on(g)[s]]
    BY <2>3, <1>2
  <2>6. g = on(g)
    BY <2>4, <2>5, <1>2
  <2> QED
    BY <2>6
<1>12. from = on(from)
  BY <1>11
<1> HIDE DEF from
<1>13. \A s \in L : from[s] = <<s>> \o (IF nodes[s].last = NoSlot THEN <<>>
                                        ELSE from[nodes[s].last])
  BY <1>12, <1>2
<1> HIDE DEF on
<1>14. \A i \in 1 .. N : from[e[i]] = Rest(e, N, i)
  <2>1. PICK X : X = {i \in 1 .. N : from[e[i]] = Rest(e, N, i)}
    OBVIOUS
  <2>2. ASSUME NEW i \in 1 .. N, \A j \in 1 .. N : j > i => j \in X
        PROVE  i \in X
    <3>1. Rest(e, N, i) = <<e[i]>> \o (IF i = N THEN <<>> ELSE Rest(e, N, i + 1))
      BY <1>26
    <3>2. e[i] \in L /\ nodes[e[i]].last = nxt[e[i]]
      BY <1>5, <1>10
    <3>3. CASE i = N
      <4>1. nodes[e[i]].last = NoSlot
        BY <3>2, <3>3, <1>10
      <4> QED
        BY <4>1, <3>1, <3>2, <3>3, <2>1, <1>13
    <3>4. CASE i # N
      <4>1. i + 1 \in 1 .. N /\ i + 1 > i
        BY <3>4, <1>10
      <4>2. nodes[e[i]].last = e[i + 1] /\ e[i + 1] \in L /\ e[i + 1] # NoSlot
        BY <4>1, <3>2, <3>4, <1>6, <1>10
      <4>3. from[e[i + 1]] = Rest(e, N, i + 1)
        BY <4>1, <2>1, <2>2
      <4> QED
        BY <4>2, <4>3, <3>1, <3>2, <3>4, <2>1, <1>13
    <3> QED
      BY <3>3, <3>4
  <2>3. 1 .. N \subseteq X
    BY <2>2, <1>10, DownFrom
  <2> QED
    BY <2>1, <2>3
<1>15. \A s \in D : /\ hgt[s] \in Nat
                    /\ nodes[s].leaf => s \in L
                    /\ ~nodes[s].leaf => /\ First(s) \in D /\ hgt[s] = hgt[First(s)] + 1
                                         /\ \A y \in dom[s] : \E x \in dom[First(s)] : x <= y
  BY <1>1, <1>2, FirstIsLowest DEF Inner, Leaves
<1>16. \E g : g = lower(g)
  <2>1. PICK to : to = [s \in D |-> IF nodes[s].leaf THEN s ELSE First(s)]
    OBVIOUS
  <2>2. to \in [D -> D]
    BY <2>1, <1>15
  <2>3. PICK g : g = [s \in D |-> CHOOSE t : t \in {u \in Met(D, to, s) : nodes[u].leaf}]
    OBVIOUS
  <2>4. ASSUME NEW s \in D
        PROVE  g[s] = lower(g)[s]
    <3>1. CASE nodes[s].leaf
      <4>1. Met(D, to, s) = {s}
        BY <3>1, <2>1, <2>2, MetNext
      <4>2. {u \in Met(D, to, s) : nodes[u].leaf} = {s}
        BY <4>1, <3>1
      <4>3. g[s] = CHOOSE t : t \in {s}
        BY <4>2, <2>3
      <4> QED
        BY <4>3, <3>1, <1>1
    <3>2. CASE ~nodes[s].leaf
      <4>1. to[s] = First(s) /\ First(s) \in D
        BY <3>2, <2>1, <1>15
      <4>2. Met(D, to, s) = {s} \cup Met(D, to, First(s))
        BY <4>1, <2>2, MetNext
      <4>3. {u \in Met(D, to, s) : nodes[u].leaf} = {u \in Met(D, to, First(s)) : nodes[u].leaf}
        BY <4>2, <3>2
      <4>4. g[s] = g[First(s)]
        BY <4>1, <4>3, <2>3
      <4> QED
        BY <4>4, <3>2, <1>1 DEF First
    <3> QED
      BY <3>1, <3>2
  <2>5. g = [s \in D |-> g[s]] /\ lower(g) = [s \in D |-> lower(g)[s]]
    BY <2>3, <1>1
  <2>6. g = lower(g)
    BY <2>4, <2>5
  <2> QED
    BY <2>6
<1>17. low = lower(low)
  BY <1>16
<1> HIDE DEF low
<1>18. \A s \in D : low[s] = IF nodes[s].leaf THEN s ELSE low[First(s)]
  BY <1>17, <1>1 DEF First
<1> HIDE DEF lower
<1> DEFINE fine(s) == low[s] \in L /\ \A y \in dom[s] : \E x \in dom[low[s]] : x <= y
           bad == {s \in D : ~fine(s)}
<1>19. bad = {}
  <2> SUFFICES ASSUME bad # {}
               PROVE  FALSE
    OBVIOUS
  <2>1. PICK H : H = {hgt[s] : s \in bad}
    OBVIOUS
  <2>2. H \in SUBSET Nat /\ H # {}
    BY <2>1, <1>15
  <2>3. PICK h \in H : \A x \in H : h <= x
    BY <2>2, LeastNumber
  <2>4. PICK s \in bad : \A t \in bad : hgt[s] <= hgt[t]
    BY <2>1, <2>3
  <2>5. s \in D /\ dom[s] \subseteq Int
    BY <1>1, RangeFilled
  <2>6. CASE nodes[s].leaf
    <3>1. low[s] = s /\ s \in L
      BY <2>5, <2>6, <1>15, <1>18
    <3>2. \A y \in dom[s] : y <= y
      BY <2>5
    <3> QED
      BY <3>1, <3>2
  <2>7. CASE ~nodes[s].leaf
    <3>1. PICK c \in D : c = First(s)
      BY <2>5, <2>7, <1>15
    <3>2. /\ hgt[s] = hgt[c] + 1 /\ hgt[c] \in Nat /\ low[s] = low[c]
          /\ \A y \in dom[s] : \E x \in dom[c] : x <= y
      BY <2>5, <2>7, <3>1, <1>15, <1>18
    <3>3. fine(c)
      BY <2>4, <3>2
    <3>4. dom[c] \subseteq Int /\ dom[low[c]] \subseteq Int
      BY <3>3, <1>1, <1>6, RangeFilled
    <3>5. ASSUME NEW y \in dom[s]
          PROVE  \E x \in dom[low[c]] : x <= y
      <4>1. PICK x \in dom[c] : x <= y
        BY <3>2
      <4>2. PICK w \in dom[low[c]] : w <= x
        BY <3>3
      <4>3. w <= y
        BY <4>1, <4>2, <2>5, <3>4
      <4> QED
        BY <4>3
    <3>6. fine(s)
      BY <3>2, <3>3, <3>5
    <3> QED
      BY <3>6
  <2> QED
    BY <2>6, <2>7
<1>20. PICK t : t = low[root]
  OBVIOUS
<1>21. t \in L /\ dom[t] \subseteq Int /\ \A y \in dom[root] : \E x \in dom[t] : x <= y
  <2>1. fine(root)
    BY <1>6, <1>19
  <2> QED
    BY <2>1, <1>1, <1>6, <1>20, RangeFilled
<1>22. \A y \in Keys : \E x \in dom[t] : x <= y
  <2> SUFFICES ASSUME NEW y \in Keys PROVE \E x \in dom[t] : x <= y
    OBVIOUS
  <2>1. y \in Joint(dom, root)
    BY DEF Ranged, WellRanged
  <2>2. CASE y \in dom[root]
    BY <2>2, <1>21
  <2>3. CASE y \notin dom[root]
    <3>1. Pending /\ root = split.left /\ y \in dom[split.right]
      BY <2>1, <2>3 DEF Joint
    <3>2. PICK z \in dom[root] : z \in Int
      BY <1>1, <1>6, RangeFilled
    <3>3. z < split.key /\ y >= split.key /\ split.key \in Int /\ y \in Int
      BY <3>1, KeysAssumption DEF Ranged, WellRanged, TreeInv, TypeOK
    <3>4. PICK x \in dom[t] : x <= z
      BY <1>21
    <3>5. x <= y
      BY <3>2, <3>3, <3>4, <1>21
    <3> QED
      BY <3>5
  <2> QED
    BY <2>2, <2>3
<1>23. 1 \in 1 .. N /\ t = e[1]
  <2>1. PICK i \in 1 .. N : e[i] = t
    BY <1>10, <1>21
  <2>2. 1 \in 1 .. N
    BY <2>1, <1>10
  <2>3. ASSUME i # 1
        PROVE  FALSE
    <3>1. Before(dom, e[1], t) /\ e[1] \in L
      BY <2>1, <2>2, <2>3, <1>10
    <3>2. PICK y \in dom[e[1]] : y \in Int /\ y \in Keys
      BY <3>1, <1>1, <1>6, RangeFilled
    <3>3. PICK x \in dom[t] : x <= y
      BY <3>2, <1>22
    <3>4. y < x /\ x \in Int
      BY <3>1, <1>21 DEF Before
    <3> QED
      BY <3>2, <3>3, <3>4
  <2> QED
    BY <2>1, <2>2, <2>3
<1>24. Rest(e, N, 1) = e
  <2>1. N - 1 + 1 = N
    BY <1>10
  <2>2. \A j \in 1 .. N : 1 + j - 1 = j
    OBVIOUS
  <2>3. Rest(e, N, 1) = [j \in 1 .. N |-> e[1 + j - 1]]
    BY <2>1 DEF Rest
  <2>4. \A j \in 1 .. N : Rest(e, N, 1)[j] = e[j]
    BY <2>2, <2>3
  <2> QED
    BY <2>3, <2>4, <1>10
<1>25. LeafChain = e
  BY <1>4, <1>14, <1>20, <1>23, <1>24
<1> QED
  BY <1>2, <1>3, <1>8, <1>9, <1>25

(* In every state, in the middle of a split too, the chain that starts at  *)
(* the first leaf and follows mPointer passes through every leaf once, in  *)
(* key order, and ends.                                                    *)
THEOREM ChainHolds == Spec => []ChainComplete
<1>1. TreeInv => ChainComplete
  <2> SUFFICES ASSUME TreeInv PROVE ChainComplete
    OBVIOUS
  <2>1. PICK dom \in [DOMAIN nodes -> SUBSET Keys], hgt \in [DOMAIN nodes -> Nat] : Ranged(dom, hgt)
    BY DEF TreeInv
  <2>2. PICK e : e = LeafChain
    OBVIOUS
  <2>3. PICK N : N = Cardinality(Leaves)
    OBVIOUS
  <2>4. PICK L : L = Leaves
    OBVIOUS
  <2>5. Listed(L, NextLeaf, dom, N, e)
    BY <2>1, <2>2, <2>3, <2>4, ChainIs
  <2>6. /\ N \in Nat /\ e \in [1 .. N -> L]
        /\ \A i, j \in 1 .. N : i < j => Before(dom, e[i], e[j])
        /\ \A s \in L : \E i \in 1 .. N : e[i] = s
    BY <2>5 DEF Listed
  <2>7. e \in Seq(L) /\ Len(e) = N /\ DOMAIN e = 1 .. N
    <3>1. e \in Seq(L)
      BY <2>6, SeqDef
    <3> QED
      BY <3>1, <2>6
  <2>8. ToSet(e) = L
    BY <2>6, <2>7 DEF ToSet
  <2>9. ASSUME NEW i \in 1 .. N - 1, NEW a \in KeysOf(nodes[e[i]]), NEW b \in KeysOf(nodes[e[i + 1]])
        PROVE  a < b
    <3>1. i \in 1 .. N /\ i + 1 \in 1 .. N /\ i < i + 1
      BY <2>6
    <3>2. e[i] \in DOMAIN nodes /\ e[i + 1] \in DOMAIN nodes
      BY <3>1, <2>4, <2>6 DEF Leaves
    <3>3. a \in dom[e[i]] /\ b \in dom[e[i + 1]]
      BY <3>2, <2>1 DEF Ranged, WellRanged
    <3> QED
      BY <3>1, <3>3, <2>6 DEF Before
  <2> QED
    BY <2>2, <2>3, <2>4, <2>7, <2>8, <2>9 DEF ChainComplete
<1> QED
  BY <1>1, TreeInvariant, PTL

(* q lists the keys of S in ascending order.                               *)
Lists(q, S) ==
  /\ q \in Seq(S)
  /\ \A i, j \in 1 .. Len(q) : i < j => q[i] < q[j]
  /\ \A k \in S : \E i \in 1 .. Len(q) : q[i] = k

(* InKeyOrder does.                                                        *)
LEMMA InKeyOrderLists ==
  ASSUME NEW S \in SUBSET Int, IsFiniteSet(S)
  PROVE  Lists(InKeyOrder(S), S)
BY KeyOrder DEF Lists

(* Of two lists of one set each is as long as the other, and no longer.    *)
LEMMA ListsAgree ==
  ASSUME NEW S \in SUBSET Int, NEW p, NEW q, Lists(p, S), Lists(q, S),
         NEW i \in 1 .. Len(p), \A j \in 1 .. i - 1 : j \in 1 .. Len(q) /\ p[j] = q[j]
  PROVE  i \in 1 .. Len(q) /\ q[i] <= p[i]
<1>1. Len(p) \in Nat /\ Len(q) \in Nat
  BY LenProperties DEF Lists
<1>2. \A j \in 1 .. Len(p) : p[j] \in S /\ p[j] \in Int
  BY ElementOfSeq DEF Lists
<1>3. \A j \in 1 .. Len(q) : q[j] \in S /\ q[j] \in Int
  BY ElementOfSeq DEF Lists
<1>4. PICK j \in 1 .. Len(q) : q[j] = p[i]
  BY <1>2 DEF Lists
<1>5. ASSUME j < i
      PROVE  FALSE
  <2>1. j \in 1 .. i - 1 /\ j \in 1 .. Len(p)
    BY <1>1, <1>5
  <2>2. p[j] = p[i] /\ p[j] < p[i]
    BY <2>1, <1>4, <1>5 DEF Lists
  <2> QED
    BY <2>1, <2>2, <1>2
<1>6. i <= j /\ i \in 1 .. Len(q)
  BY <1>1, <1>5
<1>7. CASE i = j
  BY <1>3, <1>4, <1>6, <1>7
<1>8. CASE i < j
  <2>1. q[i] < q[j]
    BY <1>6, <1>8 DEF Lists
  <2> QED
    BY <2>1, <1>3, <1>4, <1>6
<1> QED
  BY <1>1, <1>6, <1>7, <1>8

(* There is only one list of a set.                                        *)
LEMMA ListUnique ==
  ASSUME NEW S \in SUBSET Int, NEW p, NEW q, Lists(p, S), Lists(q, S)
  PROVE  p = q
<1>1. Len(p) \in Nat /\ Len(q) \in Nat /\ p \in Seq(S) /\ q \in Seq(S)
  BY LenProperties DEF Lists
<1>2. \A j \in 1 .. Len(p) : p[j] \in Int
  BY ElementOfSeq DEF Lists
<1>3. \A j \in 1 .. Len(q) : q[j] \in Int
  BY ElementOfSeq DEF Lists
<1>4. PICK B : B = {i \in Nat \ {0} : i <= Len(p) /\ ~(i <= Len(q) /\ p[i] = q[i])}
  OBVIOUS
<1>5. B = {}
  <2> SUFFICES ASSUME B # {} PROVE FALSE
    OBVIOUS
  <2>1. PICK i \in B : \A j \in B : i <= j
    BY <1>4, LeastNumber
  <2>2. i \in 1 .. Len(p) /\ ~(i <= Len(q) /\ p[i] = q[i]) /\ i \in Nat
    BY <1>1, <1>4, <2>1
  <2>3. ASSUME NEW j \in 1 .. i - 1
        PROVE  j \in 1 .. Len(q) /\ j \in 1 .. Len(p) /\ p[j] = q[j]
    BY <2>1, <2>2, <1>1, <1>4
  <2>4. i \in 1 .. Len(q) /\ q[i] <= p[i]
    BY <2>2, <2>3, ListsAgree
  <2>5. p[i] <= q[i]
    BY <2>3, <2>4, ListsAgree
  <2> QED
    BY <2>2, <2>4, <2>5, <1>2, <1>3
<1>6. \A i \in 1 .. Len(p) : i <= Len(q) /\ p[i] = q[i]
  BY <1>1, <1>4, <1>5
<1>7. Len(p) = Len(q)
  <2> SUFFICES ASSUME Len(p) # Len(q) PROVE FALSE
    OBVIOUS
  <2>1. Len(p) <= Len(q)
    BY <1>1, <1>6
  <2>2. PICK i : i = Len(p) + 1
    OBVIOUS
  <2>3. i \in 1 .. Len(q) /\ ~(i \in 1 .. Len(p)) /\ \A j \in 1 .. i - 1 : j \in 1 .. Len(p) /\ q[j] = p[j]
    BY <2>1, <2>2, <1>1, <1>6
  <2>4. i \in 1 .. Len(p)
    BY <2>3, ListsAgree
  <2> QED
    BY <2>3, <2>4
<1> QED
  BY <1>1, <1>6, <1>7, SeqEqual

(* A list of smaller keys goes before a list of larger ones.               *)
LEMMA ListsJoin ==
  ASSUME NEW A \in SUBSET Int, NEW B \in SUBSET Int, \A a \in A, b \in B : a < b,
         NEW p, NEW q, Lists(p, A), Lists(q, B)
  PROVE  Lists(p \o q, A \cup B)
<1>1. PICK z : z = p \o q
  OBVIOUS
<1>2. PICK m : m = Len(p)
  OBVIOUS
<1>3. PICK n : n = Len(q)
  OBVIOUS
<1>4. m \in Nat /\ n \in Nat
  BY <1>2, <1>3, LenProperties DEF Lists
<1>5. p \in Seq(A \cup B) /\ q \in Seq(A \cup B)
  BY SeqMonotonic DEF Lists
<1>6. /\ z \in Seq(A \cup B) /\ Len(z) = m + n
      /\ \A i \in 1 .. m + n : z[i] = IF i <= m THEN p[i] ELSE q[i - m]
  <2>1. /\ p \o q \in Seq(A \cup B) /\ Len(p \o q) = Len(p) + Len(q)
        /\ \A i \in 1 .. Len(p) + Len(q) : (p \o q)[i] = IF i <= Len(p) THEN p[i] ELSE q[i - Len(p)]
    BY <1>5, ConcatProperties
  <2> QED
    BY <2>1, <1>1, <1>2, <1>3
<1>7. /\ \A i \in 1 .. m : p[i] \in A
      /\ \A i, j \in 1 .. m : i < j => p[i] < p[j]
      /\ \A k \in A : \E i \in 1 .. m : p[i] = k
  BY <1>2, ElementOfSeq DEF Lists
<1>8. /\ \A i \in 1 .. n : q[i] \in B
      /\ \A i, j \in 1 .. n : i < j => q[i] < q[j]
      /\ \A k \in B : \E i \in 1 .. n : q[i] = k
  BY <1>3, ElementOfSeq DEF Lists
<1>9. ASSUME NEW i \in 1 .. m + n
      PROVE  \/ i \in 1 .. m /\ z[i] = p[i]
             \/ i - m \in 1 .. n /\ ~(i <= m) /\ z[i] = q[i - m]
  BY <1>4, <1>6
<1>10. ASSUME NEW i \in 1 .. m + n, NEW j \in 1 .. m + n, i < j
       PROVE  z[i] < z[j]
  <2>1. CASE j \in 1 .. m /\ z[j] = p[j]
    <3>1. i \in 1 .. m /\ z[i] = p[i]
      BY <2>1, <1>4, <1>9, <1>10
    <3> QED
      BY <2>1, <3>1, <1>7, <1>10
  <2>2. CASE j - m \in 1 .. n /\ ~(j <= m) /\ z[j] = q[j - m]
    <3>1. CASE i \in 1 .. m /\ z[i] = p[i]
      BY <2>2, <3>1, <1>7, <1>8
    <3>2. CASE i - m \in 1 .. n /\ z[i] = q[i - m]
      <4>1. i - m < j - m
        BY <1>4, <1>10
      <4> QED
        BY <2>2, <3>2, <4>1, <1>8
    <3> QED
      BY <3>1, <3>2, <1>9
  <2> QED
    BY <2>1, <2>2, <1>9
<1>11. ASSUME NEW k \in A \cup B
       PROVE  \E i \in 1 .. m + n : z[i] = k
  <2>1. CASE k \in A
    <3>1. PICK i \in 1 .. m : p[i] = k
      BY <2>1, <1>7
    <3>2. i \in 1 .. m + n /\ i <= m
      BY <1>4
    <3> QED
      BY <3>1, <3>2, <1>6
  <2>2. CASE k \in B
    <3>1. PICK i \in 1 .. n : q[i] = k
      BY <2>2, <1>8
    <3>2. i + m \in 1 .. m + n /\ ~(i + m <= m) /\ (i + m) - m = i
      BY <1>4
    <3>3. z[i + m] = k
      BY <3>1, <3>2, <1>6
    <3> QED
      BY <3>2, <3>3
  <2> QED
    BY <2>1, <2>2
<1> QED
  BY <1>1, <1>6, <1>10, <1>11 DEF Lists

(* The pairs of the keys of q.                                             *)
Paired(q, at) == [i \in 1 .. Len(q) |-> <<q[i], at[q[i]]>>]

(* The pairs of the keys of S in key order.                                *)
Sorted(S, at) == Paired(InKeyOrder(S), at)

LEMMA SortedJoin ==
  ASSUME NEW A \in SUBSET Int, IsFiniteSet(A), NEW B \in SUBSET Int, IsFiniteSet(B),
         \A a \in A, b \in B : a < b, NEW at
  PROVE  Sorted(A \cup B, at) = Sorted(A, at) \o Sorted(B, at)
<1>1. PICK p : p = InKeyOrder(A)
  OBVIOUS
<1>2. PICK q : q = InKeyOrder(B)
  OBVIOUS
<1>3. PICK z : z = p \o q
  OBVIOUS
<1>4. Lists(p, A) /\ Lists(q, B)
  BY <1>1, <1>2, InKeyOrderLists
<1>5. IsFiniteSet(A \cup B)
  BY FS_Union
<1>6. InKeyOrder(A \cup B) = z
  <2>1. PICK U \in SUBSET Int : U = A \cup B
    OBVIOUS
  <2>2. Lists(z, U)
    BY <2>1, <1>3, <1>4, ListsJoin
  <2>3. Lists(InKeyOrder(U), U)
    BY <2>1, <1>5, InKeyOrderLists
  <2> QED
    BY <2>1, <2>2, <2>3, ListUnique
<1>7. PICK m \in Nat : m = Len(p)
  BY <1>4, LenProperties DEF Lists
<1>8. PICK n \in Nat : n = Len(q)
  BY <1>4, LenProperties DEF Lists
<1>9. p \in Seq(Int) /\ q \in Seq(Int)
  BY <1>4, SeqMonotonic DEF Lists
<1>10. Len(z) = m + n /\ \A i \in 1 .. m + n : z[i] = IF i <= m THEN p[i] ELSE q[i - m]
  <2>1. /\ p \o q \in Seq(Int) /\ Len(p \o q) = Len(p) + Len(q)
        /\ \A i \in 1 .. Len(p) + Len(q) : (p \o q)[i] = IF i <= Len(p) THEN p[i] ELSE q[i - Len(p)]
    BY <1>9, ConcatProperties
  <2> QED
    BY <2>1, <1>3, <1>7, <1>8
<1>11. PICK x : x = Paired(p, at)
  OBVIOUS
<1>12. PICK y : y = Paired(q, at)
  OBVIOUS
<1>13. PICK w : w = Paired(z, at)
  OBVIOUS
<1>14. /\ DOMAIN x = 1 .. m /\ x = [i \in 1 .. m |-> x[i]] /\ \A i \in 1 .. m : x[i] = <<p[i], at[p[i]]>>
       /\ DOMAIN y = 1 .. n /\ y = [i \in 1 .. n |-> y[i]] /\ \A i \in 1 .. n : y[i] = <<q[i], at[q[i]]>>
       /\ w = [i \in 1 .. m + n |-> w[i]] /\ \A i \in 1 .. m + n : w[i] = <<z[i], at[z[i]]>>
  BY <1>7, <1>8, <1>10, <1>11, <1>12, <1>13 DEF Paired
<1>15. PICK T : T = {x[i] : i \in 1 .. m} \cup {y[i] : i \in 1 .. n}
  OBVIOUS
<1>16. x \in Seq(T) /\ Len(x) = m /\ y \in Seq(T) /\ Len(y) = n
  <2>1. x \in [1 .. m -> T] /\ y \in [1 .. n -> T]
    BY <1>14, <1>15
  <2>2. x \in Seq(T) /\ y \in Seq(T)
    BY <2>1, SeqDef
  <2> QED
    BY <2>1, <2>2
<1>17. PICK v : v = x \o y
  OBVIOUS
<1>18. /\ v \in Seq(T) /\ Len(v) = m + n
       /\ \A i \in 1 .. m + n : v[i] = IF i <= m THEN x[i] ELSE y[i - m]
  <2>1. /\ x \o y \in Seq(T) /\ Len(x \o y) = Len(x) + Len(y)
        /\ \A i \in 1 .. Len(x) + Len(y) : (x \o y)[i] = IF i <= Len(x) THEN x[i] ELSE y[i - Len(x)]
    BY <1>16, ConcatProperties
  <2> QED
    BY <2>1, <1>16, <1>17
<1>19. v = [i \in 1 .. m + n |-> v[i]]
  BY <1>18, LenProperties
<1>20. \A i \in 1 .. m + n : v[i] = w[i]
  <2> SUFFICES ASSUME NEW i \in 1 .. m + n PROVE v[i] = w[i]
    OBVIOUS
  <2>1. CASE i <= m
    <3>1. i \in 1 .. m
      BY <2>1
    <3> QED
      BY <3>1, <2>1, <1>10, <1>14, <1>18
  <2>2. CASE ~(i <= m)
    <3>1. i - m \in 1 .. n
      BY <2>2
    <3> QED
      BY <3>1, <2>2, <1>10, <1>14, <1>18
  <2> QED
    BY <2>1, <2>2
<1>21. v = w
  BY <1>14, <1>19, <1>20
<1> QED
  BY <1>1, <1>2, <1>6, <1>11, <1>12, <1>13, <1>17, <1>21 DEF Sorted

(* FlattenSeq appends one sequence after the other.                        *)
LEMMA Flattened ==
  ASSUME NEW m \in Nat \ {0}, NEW seqs, seqs = [i \in 1 .. m |-> seqs[i]],
         NEW h, h = [i \in 1 .. m |-> h[i]],
         \A i \in 1 .. m : h[i] = IF i = 1 THEN seqs[i] ELSE h[i - 1] \o seqs[i]
  PROVE  FlattenSeq(seqs) = h[m]
<1>1. Len(seqs) = m
  <2>1. PICK T : T = {seqs[i] : i \in 1 .. m}
    OBVIOUS
  <2>2. seqs \in [1 .. m -> T]
    BY <2>1
  <2>3. seqs \in Seq(T)
    BY <2>2, SeqDef
  <2> QED
    BY <2>2, <2>3
<1> DEFINE def(g) == [i \in 1 .. Len(seqs) |-> IF i = 1 THEN seqs[i] ELSE g[i - 1] \o seqs[i]]
           f == CHOOSE g : g = def(g)
<1>2. FlattenSeq(seqs) = f[m]
  BY <1>1 DEF FlattenSeq
<1>3. h = def(h)
  <2>1. def(h) = [i \in 1 .. m |-> def(h)[i]]
    BY <1>1
  <2>2. \A i \in 1 .. m : h[i] = def(h)[i]
    BY <1>1
  <2> QED
    BY <2>1, <2>2
<1>4. f = def(f)
  BY <1>3
<1> HIDE DEF f
<1>5. \A i \in 1 .. m : f[i] = IF i = 1 THEN seqs[i] ELSE f[i - 1] \o seqs[i]
  BY <1>1, <1>4
<1> HIDE DEF def
<1>6. PICK B : B = {i \in Nat \ {0} : i <= m /\ f[i] # h[i]}
  OBVIOUS
<1>7. B = {}
  <2> SUFFICES ASSUME B # {} PROVE FALSE
    OBVIOUS
  <2>1. PICK i \in B : \A j \in B : i <= j
    BY <1>6, LeastNumber
  <2>2. i \in 1 .. m /\ f[i] # h[i]
    BY <2>1, <1>6
  <2>3. CASE i = 1
    BY <2>2, <2>3, <1>5
  <2>4. CASE i # 1
    <3>1. i - 1 \in Nat \ {0} /\ i - 1 <= m /\ ~(i <= i - 1)
      BY <2>2, <2>4
    <3>2. f[i - 1] = h[i - 1]
      BY <2>1, <3>1, <1>6
    <3> QED
      BY <2>2, <2>4, <3>2, <1>5
  <2> QED
    BY <2>3, <2>4
<1>8. f[m] = h[m]
  <2>1. m \in Nat \ {0} /\ m <= m
    OBVIOUS
  <2> QED
    BY <2>1, <1>6, <1>7
<1> QED
  BY <1>2, <1>8

(* The child a search of n goes to, told by the position of the key.       *)
LEMMA ChildByOrder ==
  ASSUME NEW slots, NEW n, IsNode(n, slots), IsFiniteSet(KeysOf(n)), Distinct(n),
         NEW ks, NEW m \in Nat \ {0}, ks \in [1 .. m -> KeysOf(n)],
         \A i, j \in 1 .. m : i < j => ks[i] < ks[j],
         \A k \in KeysOf(n) : \E i \in 1 .. m : ks[i] = k,
         NEW x \in Int
  PROVE  /\ \A i \in 1 .. m : Child(n, x) = n.ent[ks[i]] <=> x < ks[i] /\ (i = 1 \/ ks[i - 1] <= x)
         /\ Child(n, x) = n.last <=> ks[m] <= x
<1>1. KeysOf(n) \subseteq Int
  BY KeysAssumption DEF IsNode
<1>2. \A i \in 1 .. m : ks[i] \in KeysOf(n) /\ ks[i] \in Int
  BY <1>1
<1>3. \A i, j \in 1 .. m : i <= j => ks[i] <= ks[j]
  BY <1>2
<1>4. ASSUME NEW i \in 1 .. m
      PROVE  x < ks[i] /\ (i = 1 \/ ks[i - 1] <= x) <=> Successor(n, x, ks[i])
  <2>1. ASSUME x < ks[i], i = 1 \/ ks[i - 1] <= x, NEW q \in KeysOf(n), q > x
        PROVE  ks[i] <= q
    <3>1. PICK j \in 1 .. m : ks[j] = q
      OBVIOUS
    <3>2. ASSUME j < i
          PROVE  FALSE
      <4>1. i - 1 \in 1 .. m /\ j <= i - 1 /\ i # 1
        BY <3>2
      <4>2. ks[j] <= ks[i - 1] /\ ks[i - 1] <= x
        BY <4>1, <2>1, <1>3
      <4> QED
        BY <4>1, <4>2, <3>1, <2>1, <1>2
    <3> QED
      BY <3>1, <3>2, <1>3
  <2>2. ASSUME Successor(n, x, ks[i]), i # 1
        PROVE  ks[i - 1] <= x
    <3>1. i - 1 \in 1 .. m /\ i - 1 < i
      BY <2>2
    <3>2. ks[i - 1] < ks[i] /\ ks[i - 1] \in KeysOf(n) /\ ks[i - 1] \in Int /\ ks[i] \in Int
      BY <3>1, <1>2
    <3>3. ~(ks[i - 1] > x)
      BY <3>2, <2>2 DEF Successor
    <3> QED
      BY <3>2, <3>3
  <2>3. Successor(n, x, ks[i]) => x < ks[i]
    BY DEF Successor
  <2>4. x < ks[i] /\ (i = 1 \/ ks[i - 1] <= x) => Successor(n, x, ks[i])
    BY <2>1, <1>2 DEF Successor
  <2> QED
    BY <2>2, <2>3, <2>4
<1>5. ks[m] <= x <=> NoneAbove(n, x)
  <2>1. \A q \in KeysOf(n) : q <= ks[m]
    BY <1>2, <1>3
  <2>2. m \in 1 .. m
    OBVIOUS
  <2> QED
    BY <2>1, <2>2, <1>1, <1>2 DEF NoneAbove
<1>6. ASSUME NEW j \in KeysOf(n)
      PROVE  Child(n, x) = n.ent[j] <=> Successor(n, x, j)
  <2>1. Successor(n, x, j) => Child(n, x) = n.ent[j]
    BY ChildIs
  <2>2. ASSUME Child(n, x) = n.ent[j]
        PROVE  Successor(n, x, j)
    <3>1. ~NoneAbove(n, x)
      BY <2>2, ChildIs DEF Distinct
    <3>2. PICK i : Successor(n, x, i)
      BY <3>1, ChildIs
    <3>3. Child(n, x) = n.ent[i] /\ i \in KeysOf(n)
      BY <3>2, ChildIs DEF Successor
    <3> QED
      BY <3>2, <3>3, <2>2 DEF Distinct
  <2> QED
    BY <2>1, <2>2
<1>7. Child(n, x) = n.last <=> NoneAbove(n, x)
  <2>1. NoneAbove(n, x) => Child(n, x) = n.last
    BY ChildIs
  <2>2. ASSUME Child(n, x) = n.last, ~NoneAbove(n, x)
        PROVE  FALSE
    <3>1. PICK i : Successor(n, x, i)
      BY <2>2, ChildIs
    <3>2. Child(n, x) = n.ent[i] /\ i \in KeysOf(n)
      BY <3>1, ChildIs DEF Successor
    <3> QED
      BY <3>2, <2>2 DEF Distinct
  <2> QED
    BY <2>1, <2>2
<1> QED
  BY <1>2, <1>4, <1>5, <1>6, <1>7

(* What is stored: the keys of the leaves, and their values.               *)
StoredKeys == UNION {KeysOf(nodes[t]) : t \in Leaves}

ValueOf == [k \in StoredKeys |->
              nodes[CHOOSE t \in Leaves : k \in KeysOf(nodes[t])].ent[k]]

(* A finite set of keys is stored, each in one leaf.                       *)
LEMMA StoredOnce ==
  ASSUME TreeInv, NEW dom \in [DOMAIN nodes -> SUBSET Keys],
         NEW hgt \in [DOMAIN nodes -> Nat], Ranged(dom, hgt)
  PROVE  /\ IsFiniteSet(StoredKeys) /\ StoredKeys \subseteq Int /\ StoredKeys \subseteq Keys
         /\ \A t \in Leaves : KeysOf(nodes[t]) = StoredKeys \cap dom[t]
         /\ \A t \in Leaves : \A k \in KeysOf(nodes[t]) : ValueOf[k] = nodes[t].ent[k]
<1>1. PICK L : L = Leaves
  OBVIOUS
<1>2. \A t \in L : t \in DOMAIN nodes /\ nodes[t].leaf
  BY <1>1 DEF Leaves
<1>3. IsFiniteSet(StoredKeys)
  <2>1. PICK f : f = [t \in L |-> KeysOf(nodes[t])]
    OBVIOUS
  <2>2. PICK R : R = {KeysOf(nodes[t]) : t \in L}
    OBVIOUS
  <2>3. f \in Surjection(L, R)
    BY <2>1, <2>2 DEF Surjection
  <2>4. IsFiniteSet(L)
    <3>1. L \in SUBSET Slots
      BY <1>2 DEF TreeInv, TypeOK
    <3> QED
      BY <3>1, SlotsAssumption, FS_Subset
  <2>5. IsFiniteSet(R)
    BY <2>3, <2>4, FS_Surjection
  <2>6. \A K \in R : IsFiniteSet(K)
    BY <1>2, <2>2 DEF TreeInv, KeyCounts, CountFits
  <2>7. IsFiniteSet(UNION R)
    BY <2>5, <2>6, FS_UNION
  <2> QED
    BY <2>2, <2>7, <1>1 DEF StoredKeys
<1>4. \A t \in L : KeysOf(nodes[t]) \subseteq dom[t] /\ dom[t] \subseteq Keys
  BY <1>2 DEF Ranged, WellRanged
<1>5. ASSUME NEW t \in L, NEW u \in L, t # u
      PROVE  dom[t] \cap dom[u] = {}
  BY <1>2, <1>5 DEF Ranged, Leveled
<1>6. \A k : k \in StoredKeys <=> \E t \in L : k \in KeysOf(nodes[t])
  BY <1>1 DEF StoredKeys
<1>7. StoredKeys \subseteq Int /\ StoredKeys \subseteq Keys
  BY <1>4, <1>6, KeysAssumption
<1>8. ASSUME NEW t \in L
      PROVE  /\ KeysOf(nodes[t]) = StoredKeys \cap dom[t]
             /\ \A k \in KeysOf(nodes[t]) : ValueOf[k] = nodes[t].ent[k]
  <2>1. ASSUME NEW k \in dom[t], NEW u \in L, k \in KeysOf(nodes[u])
        PROVE  u = t
    BY <2>1, <1>4, <1>5
  <2>2. KeysOf(nodes[t]) = StoredKeys \cap dom[t]
    BY <2>1, <1>4, <1>6
  <2>3. ASSUME NEW k \in KeysOf(nodes[t])
        PROVE  ValueOf[k] = nodes[t].ent[k]
    <3>1. k \in StoredKeys /\ k \in dom[t]
      BY <1>4, <1>6
    <3>2. (CHOOSE u \in Leaves : k \in KeysOf(nodes[u])) = t
      BY <3>1, <2>1, <1>1
    <3> QED
      BY <3>1, <3>2 DEF ValueOf
  <2> QED
    BY <2>2, <2>3
<1> QED
  BY <1>1, <1>3, <1>7, <1>8

(* The keys stored below a node.                                           *)
Under(dom, s) == StoredKeys \cap dom[s]

(* What is stored below each of its keyed entries, in key order.           *)
Parts(dom, s, at) ==
  LET ks == InKeyOrder(KeysOf(nodes[s]))
  IN  [i \in DOMAIN ks |-> Sorted(Under(dom, nodes[s].ent[ks[i]]), at)]

(* What is stored below an inner node, in key order, is what is stored     *)
(* below its children, one after the other.                                *)
LEMMA UnderInner ==
  ASSUME TreeInv, ~Pending, NEW dom \in [DOMAIN nodes -> SUBSET Keys],
         NEW hgt \in [DOMAIN nodes -> Nat], Ranged(dom, hgt), NEW s \in Inner, NEW at
  PROVE  Sorted(Under(dom, s), at)
           = FlattenSeq(Parts(dom, s, at)) \o Sorted(Under(dom, nodes[s].last), at)
<1> DEFINE ks == InKeyOrder(KeysOf(nodes[s]))
           seqs == Parts(dom, s, at)
<1>1. PICK n : n = nodes[s]
  OBVIOUS
<1>2. PICK S : S = KeysOf(n)
  OBVIOUS
<1>3. /\ s \in DOMAIN nodes /\ ~n.leaf
      /\ IsNode(n, DOMAIN nodes) /\ IsFiniteSet(S) /\ Cardinality(S) >= 1 /\ Distinct(n)
  <2>1. s \in DOMAIN nodes /\ ~n.leaf
    BY <1>1 DEF Inner, Leaves
  <2> QED
    BY <1>1, <1>2, <2>1 DEF TreeInv, TypeOK, KeyCounts, CountFits, InnerDistinct
<1>4. S \in SUBSET Int
  BY <1>2, <1>3, KeysAssumption DEF IsNode
<1>5. PICK m : m = Cardinality(S)
  OBVIOUS
<1>6. /\ m \in Nat \ {0} /\ ks \in [1 .. m -> S] /\ DOMAIN ks = 1 .. m
      /\ \A i, j \in 1 .. m : i < j => ks[i] < ks[j]
      /\ \A k \in S : \E i \in 1 .. m : ks[i] = k
  <2>1. /\ m \in Nat /\ ks \in [1 .. m -> S]
        /\ \A i, j \in 1 .. m : i < j => ks[i] < ks[j]
        /\ \A k \in S : \E i \in 1 .. m : ks[i] = k
    <3>1. ks = InKeyOrder(S)
      BY <1>1, <1>2
    <3> HIDE DEF ks
    <3>2. S \in SUBSET Int /\ IsFiniteSet(S)
      BY <1>3, <1>4
    <3> QED
      BY ONLY <3>1, <3>2, <1>5, KeyOrder
  <2> QED
    BY <2>1, <1>3, <1>5
<1>7. \A i \in 1 .. m : ks[i] \in S /\ ks[i] \in Int
  BY <1>4, <1>6
<1>8. PICK U : U = Under(dom, s)
  OBVIOUS
<1>9. U \in SUBSET Int /\ IsFiniteSet(U) /\ U \subseteq dom[s]
  <2>1. U \in SUBSET StoredKeys /\ IsFiniteSet(StoredKeys) /\ StoredKeys \subseteq Int
    BY <1>8, StoredOnce DEF Under
  <2>2. IsFiniteSet(U)
    BY <2>1, FS_Subset
  <2> QED
    BY <2>1, <2>2, <1>8 DEF Under
<1>10. ASSUME NEW c \in Pointers(n)
       PROVE  \A k : k \in Under(dom, c) <=> k \in U /\ Child(n, k) = c
  <2>1. dom[c] = {k \in dom[s] : Child(n, k) = c}
    <3>1. Joint(dom, c) = dom[c]
      BY DEF Joint
    <3> QED
      BY <3>1, <1>1 DEF Ranged, WellRanged
  <2> QED
    BY <2>1, <1>8 DEF Under
<1>11. \A i \in 1 .. m : n.ent[ks[i]] \in Pointers(n)
  BY <1>2, <1>7 DEF Pointers
<1>12. \A x \in Int :
         /\ \A i \in 1 .. m : Child(n, x) = n.ent[ks[i]] <=> x < ks[i] /\ (i = 1 \/ ks[i - 1] <= x)
         /\ Child(n, x) = n.last <=> ks[m] <= x
  <2> SUFFICES ASSUME NEW x \in Int
               PROVE  /\ \A i \in 1 .. m : Child(n, x) = n.ent[ks[i]] <=> x < ks[i] /\ (i = 1 \/ ks[i - 1] <= x)
                      /\ Child(n, x) = n.last <=> ks[m] <= x
    OBVIOUS
  <2>1. /\ IsNode(n, DOMAIN nodes) /\ IsFiniteSet(KeysOf(n)) /\ Distinct(n)
        /\ m \in Nat \ {0} /\ ks \in [1 .. m -> KeysOf(n)]
        /\ \A k \in KeysOf(n) : \E i \in 1 .. m : ks[i] = k
    BY <1>2, <1>3, <1>6
  <2>2. \A i, j \in 1 .. m : i < j => ks[i] < ks[j]
    BY <1>6
  <2> QED
    BY ONLY <2>1, <2>2, ChildByOrder
<1> DEFINE upto(i) == {k \in U : k < ks[i]}
<1>13. \A i \in 1 .. m : upto(i) \in SUBSET Int /\ IsFiniteSet(upto(i))
  <2> SUFFICES ASSUME NEW i \in 1 .. m PROVE upto(i) \in SUBSET Int /\ IsFiniteSet(upto(i))
    OBVIOUS
  <2>1. upto(i) \in SUBSET U
    OBVIOUS
  <2> QED
    BY <2>1, <1>9, FS_Subset
<1>14. /\ \A i \in 1 .. m : seqs[i] = Sorted(Under(dom, n.ent[ks[i]]), at)
       /\ seqs = [i \in 1 .. m |-> seqs[i]]
  BY <1>1, <1>6 DEF Parts
<1> HIDE DEF ks, seqs
<1>15. PICK h : h = [i \in 1 .. m |-> Sorted(upto(i), at)]
  OBVIOUS
<1>16. ASSUME NEW i \in 1 .. m
       PROVE  h[i] = IF i = 1 THEN seqs[i] ELSE h[i - 1] \o seqs[i]
  <2>1. PICK B : B = Under(dom, n.ent[ks[i]])
    OBVIOUS
  <2>2. \A k : k \in B <=> k \in U /\ k < ks[i] /\ (i = 1 \/ ks[i - 1] <= k)
    <3>1. \A k : k \in B <=> k \in U /\ Child(n, k) = n.ent[ks[i]]
      BY <2>1, <1>10, <1>11
    <3>2. \A k \in U : k \in Int
      BY <1>9
    <3>3. \A k \in U : Child(n, k) = n.ent[ks[i]] <=> k < ks[i] /\ (i = 1 \/ ks[i - 1] <= k)
      BY <3>2, <1>12
    <3> QED
      BY <3>1, <3>3
  <2>3. CASE i = 1
    <3>1. B = upto(i)
      BY <2>2, <2>3
    <3> QED
      BY <3>1, <2>1, <2>3, <1>14, <1>15
  <2>4. CASE i # 1
    <3>1. PICK A : A = upto(i - 1)
      OBVIOUS
    <3>2. i - 1 \in 1 .. m /\ ks[i - 1] < ks[i] /\ ks[i - 1] \in Int /\ ks[i] \in Int
      <4>1. i - 1 \in 1 .. m /\ i - 1 < i
        BY <2>4, <1>6
      <4> QED
        BY <4>1, <1>6, <1>7
    <3>3. A \cup B = upto(i)
      <4>1. \A k \in U : k < ks[i - 1] \/ ks[i - 1] <= k
        BY <3>2, <1>9
      <4>2. \A k \in U : k < ks[i - 1] => k < ks[i]
        BY <3>2, <1>9
      <4> QED
        BY <4>1, <4>2, <2>2, <2>4, <3>1
    <3>4. A \in SUBSET Int /\ IsFiniteSet(A)
      BY <3>1, <3>2, <1>13
    <3>5. B \in SUBSET Int /\ IsFiniteSet(B)
      <4>1. B \in SUBSET U
        BY <2>2
      <4> QED
        BY <4>1, <1>9, FS_Subset
    <3>6. \A a \in A, b \in B : a < b
      BY <2>2, <2>4, <3>1, <3>2, <3>4, <3>5
    <3>7. Sorted(A \cup B, at) = Sorted(A, at) \o Sorted(B, at)
      BY <3>4, <3>5, <3>6, SortedJoin
    <3> QED
      BY <3>1, <3>2, <3>3, <3>7, <2>1, <2>4, <1>14, <1>15
  <2> QED
    BY <2>3, <2>4
<1>17. FlattenSeq(seqs) = h[m]
  <2>1. seqs = [i \in 1 .. m |-> seqs[i]] /\ h = [i \in 1 .. m |-> h[i]]
    BY <1>6, <1>14, <1>15
  <2>2. \A i \in 1 .. m : h[i] = IF i = 1 THEN seqs[i] ELSE h[i - 1] \o seqs[i]
    BY <1>16
  <2>3. m \in Nat \ {0}
    BY <1>6
  <2> QED
    BY ONLY <2>1, <2>2, <2>3, Flattened
<1>18. PICK A : A = upto(m)
  OBVIOUS
<1>19. PICK B : B = Under(dom, n.last)
  OBVIOUS
<1>20. \A k : k \in B <=> k \in U /\ ks[m] <= k
  <2>1. n.last \in Pointers(n)
    BY DEF Pointers
  <2> QED
    BY <2>1, <1>9, <1>10, <1>12, <1>19
<1>21. m \in 1 .. m /\ ks[m] \in Int
  BY <1>6, <1>7
<1>22. A \cup B = U
  <2>1. \A k \in U : k \in Int
    BY <1>9
  <2>2. \A k \in U : k < ks[m] \/ ks[m] <= k
    BY <2>1, <1>21
  <2>3. \A k : k \in A <=> k \in U /\ k < ks[m]
    BY <1>18
  <2> QED
    BY <2>2, <2>3, <1>20
<1>23. Sorted(U, at) = Sorted(A, at) \o Sorted(B, at)
  <2>1. A \in SUBSET Int /\ IsFiniteSet(A)
    BY <1>13, <1>18, <1>21
  <2>2. B \in SUBSET U
    BY <1>20
  <2>3. B \in SUBSET Int /\ IsFiniteSet(B)
    BY <2>2, <1>9, FS_Subset
  <2>4. \A a \in A, b \in B : a < b
    BY <2>1, <2>3, <1>18, <1>20, <1>21
  <2>5. Sorted(A \cup B, at) = Sorted(A, at) \o Sorted(B, at)
    BY <2>1, <2>3, <2>4, SortedJoin
  <2> QED
    BY <2>5, <1>22
<1>24. h[m] = Sorted(A, at)
  BY <1>15, <1>18, <1>21
<1> QED
  BY <1>1, <1>8, <1>17, <1>19, <1>23, <1>24 DEF seqs

(* Between two calls DumpTree lists what is stored in key order.           *)
LEMMA DumpIs ==
  ASSUME TreeInv, ~Pending, NEW dom \in [DOMAIN nodes -> SUBSET Keys],
         NEW hgt \in [DOMAIN nodes -> Nat], Ranged(dom, hgt)
  PROVE  DumpTree = Sorted(StoredKeys, ValueOf)
<1> DEFINE pairs(s) == [i \in DOMAIN InKeyOrder(KeysOf(nodes[s])) |->
                          <<InKeyOrder(KeysOf(nodes[s]))[i],
                            nodes[s].ent[InKeyOrder(KeysOf(nodes[s]))[i]]>>]
           below(g, s) == FlattenSeq([i \in DOMAIN InKeyOrder(KeysOf(nodes[s])) |->
                                        g[nodes[s].ent[InKeyOrder(KeysOf(nodes[s]))[i]]]])
           def(g) == [s \in DOMAIN nodes |-> IF nodes[s].leaf THEN pairs(s)
                                             ELSE below(g, s) \o g[nodes[s].last]]
           dump == CHOOSE g : g = def(g)
<1>1. PICK D : D = DOMAIN nodes
  OBVIOUS
<1>2. DumpTree = dump[root]
  BY DEF DumpTree
<1>3. PICK goal : goal = [s \in D |-> Sorted(Under(dom, s), ValueOf)]
  OBVIOUS
<1>4. ASSUME NEW s \in D
      PROVE  /\ hgt[s] \in Nat
             /\ ~nodes[s].leaf =>
                  /\ \A i \in DOMAIN InKeyOrder(KeysOf(nodes[s])) :
                       LET c == nodes[s].ent[InKeyOrder(KeysOf(nodes[s]))[i]]
                       IN  c \in D /\ hgt[s] = hgt[c] + 1
                  /\ nodes[s].last \in D /\ hgt[s] = hgt[nodes[s].last] + 1
  <2>1. hgt[s] \in Nat
    BY <1>1
  <2>2. ASSUME ~nodes[s].leaf, NEW c \in Pointers(nodes[s])
        PROVE  c \in D /\ hgt[s] = hgt[c] + 1
    <3>1. s \in Inner
      BY <2>2, <1>1 DEF Inner, Leaves
    <3> QED
      BY <3>1, <2>2, <1>1, ChildrenAreNodes DEF Ranged, Leveled, TreeInv
  <2>3. ASSUME NEW i \in DOMAIN InKeyOrder(KeysOf(nodes[s]))
        PROVE  nodes[s].ent[InKeyOrder(KeysOf(nodes[s]))[i]] \in Pointers(nodes[s])
    <3>1. IsNode(nodes[s], D) /\ IsFiniteSet(KeysOf(nodes[s]))
      BY <1>1 DEF TreeInv, TypeOK, KeyCounts, CountFits
    <3>2. PICK S \in SUBSET Int : S = KeysOf(nodes[s])
      BY <3>1, KeysAssumption DEF IsNode
    <3>3. InKeyOrder(S) \in [1 .. Cardinality(S) -> S]
      BY <3>1, <3>2, KeyOrder
    <3>4. InKeyOrder(S)[i] \in S
      BY <3>2, <3>3
    <3> QED
      BY <3>2, <3>4 DEF Pointers
  <2>4. nodes[s].last \in Pointers(nodes[s])
    BY DEF Pointers
  <2> QED
    BY <2>1, <2>2, <2>3, <2>4
<1>5. ASSUME NEW s \in D, nodes[s].leaf
      PROVE  goal[s] = pairs(s)
  <2>1. s \in Leaves
    BY <1>1, <1>5 DEF Leaves
  <2>2. PICK S : S = KeysOf(nodes[s])
    OBVIOUS
  <2>3. Under(dom, s) = S /\ \A k \in S : ValueOf[k] = nodes[s].ent[k]
    BY <2>1, <2>2, StoredOnce DEF Under
  <2>4. S \in SUBSET Int /\ IsFiniteSet(S)
    BY <1>1, <2>2, KeysAssumption DEF TreeInv, TypeOK, KeyCounts, CountFits, IsNode
  <2>5. PICK q : q = InKeyOrder(S)
    OBVIOUS
  <2>6. PICK m : m = Cardinality(S)
    OBVIOUS
  <2>7. q \in [1 .. m -> S] /\ Len(q) = m /\ DOMAIN q = 1 .. m
    BY <2>4, <2>5, <2>6, KeyOrder
  <2>8. pairs(s) = [i \in 1 .. m |-> <<q[i], nodes[s].ent[q[i]]>>]
    BY <2>2, <2>5, <2>7
  <2>9. goal[s] = [i \in 1 .. m |-> <<q[i], ValueOf[q[i]]>>]
    BY <1>3, <2>3, <2>5, <2>7 DEF Sorted, Paired
  <2>10. \A i \in 1 .. m : ValueOf[q[i]] = nodes[s].ent[q[i]]
    BY <2>3, <2>7
  <2> QED
    BY <2>8, <2>9, <2>10
<1>6. ASSUME NEW s \in D, ~nodes[s].leaf, NEW g,
             \A t \in D : hgt[t] < hgt[s] => g[t] = goal[t]
      PROVE  goal[s] = below(g, s) \o g[nodes[s].last]
  <2>1. PICK ks : ks = InKeyOrder(KeysOf(nodes[s]))
    OBVIOUS
  <2>2. s \in Inner
    BY <1>1, <1>6 DEF Inner, Leaves
  <2>3. PICK K : K = DOMAIN ks
    OBVIOUS
  <2>4. \A i \in K : LET c == nodes[s].ent[ks[i]] IN c \in D /\ hgt[c] \in Nat /\ hgt[s] = hgt[c] + 1
    BY <1>4, <1>6, <2>1, <2>3
  <2>5. \A i \in K : g[nodes[s].ent[ks[i]]] = Sorted(Under(dom, nodes[s].ent[ks[i]]), ValueOf)
    <3> SUFFICES ASSUME NEW i \in K
                 PROVE  g[nodes[s].ent[ks[i]]] = Sorted(Under(dom, nodes[s].ent[ks[i]]), ValueOf)
      OBVIOUS
    <3>1. PICK c : c = nodes[s].ent[ks[i]]
      OBVIOUS
    <3>2. c \in D /\ hgt[c] < hgt[s]
      BY <2>4, <3>1
    <3> QED
      BY <3>1, <3>2, <1>3, <1>6
  <2>6. g[nodes[s].last] = Sorted(Under(dom, nodes[s].last), ValueOf)
    <3>1. PICK c : c = nodes[s].last
      OBVIOUS
    <3>2. c \in D /\ hgt[c] < hgt[s]
      BY <1>4, <1>6, <3>1
    <3> QED
      BY <3>1, <3>2, <1>3, <1>6
  <2>7. PICK at : at = ValueOf
    OBVIOUS
  <2>8. Parts(dom, s, at) = [i \in K |-> g[nodes[s].ent[ks[i]]]]
    BY <2>1, <2>3, <2>5, <2>7 DEF Parts
  <2>9. Sorted(Under(dom, s), at)
          = FlattenSeq(Parts(dom, s, at)) \o Sorted(Under(dom, nodes[s].last), at)
    BY <2>2, UnderInner
  <2>10. below(g, s) = FlattenSeq(Parts(dom, s, at))
    BY <2>1, <2>3, <2>8
  <2>11. goal[s] = Sorted(Under(dom, s), at)
    BY <1>3, <2>7
  <2> QED
    BY <2>6, <2>7, <2>9, <2>10, <2>11
<1> HIDE DEF pairs, below
<1>7. goal = def(goal)
  <2>1. \A s \in D : goal[s] = def(goal)[s]
    BY <1>1, <1>5, <1>6
  <2>2. goal = [s \in D |-> goal[s]] /\ def(goal) = [s \in D |-> def(goal)[s]]
    BY <1>1, <1>3
  <2> QED
    BY <2>1, <2>2
<1>8. dump = def(dump)
  BY <1>7
<1> HIDE DEF dump
<1>9. \A s \in D : dump[s] = IF nodes[s].leaf THEN pairs(s) ELSE below(dump, s) \o dump[nodes[s].last]
  BY <1>1, <1>8
<1> HIDE DEF def
<1> DEFINE bad == {s \in D : dump[s] # goal[s]}
<1>10. bad = {}
  <2> SUFFICES ASSUME bad # {}
               PROVE  FALSE
    OBVIOUS
  <2>1. PICK H : H = {hgt[s] : s \in bad}
    OBVIOUS
  <2>2. H \in SUBSET Nat /\ H # {}
    BY <2>1, <1>1
  <2>3. PICK x \in H : \A y \in H : x <= y
    BY <2>2, LeastNumber
  <2>4. PICK s \in bad : \A t \in bad : hgt[s] <= hgt[t]
    BY <2>1, <2>3
  <2>5. \A t \in D : hgt[t] < hgt[s] => dump[t] = goal[t]
    <3> SUFFICES ASSUME NEW t \in D, hgt[t] < hgt[s], dump[t] # goal[t] PROVE FALSE
      OBVIOUS
    <3>1. hgt[t] \in Nat /\ hgt[s] \in Nat /\ hgt[s] <= hgt[t]
      BY <2>4, <1>4
    <3> QED
      BY <3>1
  <2>6. CASE nodes[s].leaf
    BY <2>6, <1>5, <1>9
  <2>7. CASE ~nodes[s].leaf
    <3>1. goal[s] = below(dump, s) \o dump[nodes[s].last]
      BY <2>5, <2>7, <1>6
    <3> QED
      BY <3>1, <2>7, <1>9
  <2> QED
    BY <2>6, <2>7
<1>11. root \in D /\ Under(dom, root) = StoredKeys
  <2>1. dom[root] = Keys
    BY DEF Ranged, WellRanged, Joint
  <2> QED
    BY <2>1, <1>1, StoredOnce DEF Under, TreeInv, TypeOK
<1> QED
  BY <1>2, <1>3, <1>10, <1>11

(* Between two calls DumpTree lists every stored pair exactly once, in     *)
(* ascending key order, whatever splits have done to the tree.             *)
THEOREM DumpHolds == Spec => []DumpInOrder
<1>1. TreeInv => DumpInOrder
  <2> SUFFICES ASSUME TreeInv, pc = "idle"
               PROVE  Ascending(DumpTree) /\ ToSet(DumpTree) = Contents
    BY DEF DumpInOrder
  <2>1. PICK dom \in [DOMAIN nodes -> SUBSET Keys], hgt \in [DOMAIN nodes -> Nat] : Ranged(dom, hgt)
    BY DEF TreeInv
  <2>2. PICK S : S = StoredKeys
    OBVIOUS
  <2>3. PICK d : d = DumpTree
    OBVIOUS
  <2>4. PICK q : q = InKeyOrder(S)
    OBVIOUS
  <2>5. PICK m : m = Cardinality(S)
    OBVIOUS
  <2>6. S \in SUBSET Int /\ IsFiniteSet(S)
    BY <2>1, <2>2, StoredOnce
  <2>7. /\ m \in Nat /\ q \in [1 .. m -> S] /\ Len(q) = m
        /\ \A i, j \in 1 .. m : i < j => q[i] < q[j]
        /\ \A k \in S : \E i \in 1 .. m : q[i] = k
    BY <2>4, <2>5, <2>6, KeyOrder
  <2>8. d = [i \in 1 .. m |-> <<q[i], ValueOf[q[i]]>>]
    <3>1. ~Pending
      BY DEF Pending
    <3> QED
      BY <3>1, <2>1, <2>2, <2>3, <2>4, <2>7, DumpIs DEF Sorted, Paired
  <2>9. Len(d) = m /\ DOMAIN d = 1 .. m
    <3>1. PICK T : T = {d[i] : i \in 1 .. m}
      OBVIOUS
    <3>2. d \in [1 .. m -> T]
      BY <3>1, <2>8
    <3>3. d \in Seq(T)
      BY <3>2, <2>7, SeqDef
    <3> QED
      BY <3>2, <3>3, <2>7
  <2>10. Ascending(d)
    <3> SUFFICES ASSUME NEW i \in 1 .. m - 1
                 PROVE  d[i][1] < d[i + 1][1]
      BY <2>9 DEF Ascending
    <3>1. i \in 1 .. m /\ i + 1 \in 1 .. m /\ i < i + 1
      BY <2>7
    <3>2. d[i] = <<q[i], ValueOf[q[i]]>> /\ d[i + 1] = <<q[i + 1], ValueOf[q[i + 1]]>>
      BY <3>1, <2>8
    <3> QED
      BY <3>1, <3>2, <2>7
  <2>11. \A z : z \in ToSet(d) <=> z \in Contents
    <3>1. \A z : z \in ToSet(d) <=> \E k \in S : z = <<k, ValueOf[k]>>
      BY <2>7, <2>8, <2>9 DEF ToSet
    <3>2. \A k : k \in S <=> \E t \in Leaves : k \in KeysOf(nodes[t])
      BY <2>2 DEF StoredKeys
    <3>3. \A t \in Leaves : \A k \in KeysOf(nodes[t]) : ValueOf[k] = nodes[t].ent[k]
      BY <2>1, StoredOnce
    <3>4. \A z : z \in Contents <=> \E t \in Leaves : \E k \in KeysOf(nodes[t]) : z = <<k, nodes[t].ent[k]>>
      BY DEF Contents
    <3> QED
      BY <3>1, <3>2, <3>3, <3>4
  <2>12. ToSet(d) = Contents
    <3>1. ToSet(d) = {z \in ToSet(d) : TRUE} /\ Contents = {z \in Contents : TRUE}
      OBVIOUS
    <3> QED
      BY <3>1, <2>11
  <2> QED
    BY <2>3, <2>10, <2>12
<1> QED
  BY <1>1, TreeInvariant, PTL

==============================================================================
