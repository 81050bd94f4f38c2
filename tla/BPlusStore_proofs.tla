-------------------------- MODULE BPlusStore_proofs --------------------------
(***************************************************************************)
(* The tree with its file, used as SafeSpec says: its types, blocks that   *)
(* are used once, a committed file that can be read, and DurableStore.     *)
(*                                                                         *)
(* What is proved of the tree in memory (BPlusTree_proofs) is used of the  *)
(* tree as a search finds it, in the cache or in the file (View): T is     *)
(* that tree, whose bitmap knows every block that can be read.             *)
(***************************************************************************)
EXTENDS MCBPlusStore, FiniteSetTheorems, TLAPS

T == INSTANCE BPlusTree_proofs WITH
  nodes  <- View,
  bitmap <- Readable \cup {NoSlot},
  pc     <- IF pc = "commit" THEN "idle" ELSE pc,
  cur    <- IF cur \in Readable THEN cur ELSE root,
  split  <- IF split.left \in Readable /\ split.right \in Readable THEN split
            ELSE [key |-> Least(Keys), left |-> root, right |-> root]

-----------------------------------------------------------------------------
(* The operators of the instance are those of the model.                   *)
LEMMA SameCount ==
  /\ \A S : T!Cardinality(S) = Cardinality(S)
  /\ \A S : T!IsFiniteSet(S) <=> IsFiniteSet(S)
BY DEF T!Cardinality, Cardinality, T!IsFiniteSet, IsFiniteSet

LEMMA Given ==
  /\ KeysAssumption /\ ValuesAssumption /\ SlotsAssumption /\ T!IsFiniteSet(Slots)
  /\ MaxElementsAssumption /\ MaxKeyNumAssumption
BY KeysAssumption, ValuesAssumption, SlotsAssumption, MaxElementsAssumption, MaxKeyNumAssumption,
   SameCount

LEMMA SameSets ==
  /\ T!NoSlot = NoSlot /\ T!EmptyLeaf = EmptyLeaf
  /\ \A n : T!KeysOf(n) = KeysOf(n)
  /\ \A S : T!Least(S) = Least(S)
  /\ \A S, k : T!Below(S, k) = Below(S, k)
  /\ \A f, k, p : T!Put(f, k, p) = Put(f, k, p)
  /\ \A f, S : T!Keep(f, S) = Keep(f, S)
BY DEF T!NoSlot, NoSlot, T!EmptyLeaf, EmptyLeaf, T!KeysOf, KeysOf, T!Least, Least, T!Below, Below,
       T!Put, Put, T!Keep, Keep

LEMMA SameAbove ==
  /\ \A n, k : T!Above(n, k) = Above(n, k)
  /\ \A n : T!Pointers(n) = Pointers(n)
  /\ \A S : T!Splitter(S) = Splitter(S)
BY SameSets, SameCount DEF T!Above, Above, T!Pointers, Pointers, T!Splitter, Splitter

LEMMA SameChild == \A n, k : T!Child(n, k) = Child(n, k)
BY SameSets, SameAbove DEF T!Child, Child

LEMMA SameSmall ==
  /\ \A n, k, v : T!LeafPut(n, k, v) = LeafPut(n, k, v)
  /\ \A n, D, p : T!Half(n, D, p) = Half(n, D, p)
  /\ \A n : T!Counted(n) = Counted(n)
  /\ \A k, l, r : T!RootOver(k, l, r) = RootOver(k, l, r)
BY SameSets, SameCount DEF T!LeafPut, LeafPut, T!Half, Half, T!Counted, Counted, T!RootOver, RootOver

LEMMA SameInnerPut == \A n, k, l, r : T!InnerPut(n, k, l, r) = InnerPut(n, k, l, r)
BY SameSets, SameAbove DEF T!InnerPut, InnerPut

LEMMA SameSplitLeaf == \A n, k, v, new : T!SplitLeaf(n, k, v, new) = SplitLeaf(n, k, v, new)
BY SameSets, SameAbove, SameSmall DEF T!SplitLeaf, SplitLeaf

LEMMA SameSplitInner == \A n, k, l, r : T!SplitInner(n, k, l, r) = SplitInner(n, k, l, r)
BY SameSets, SameAbove, SameSmall, SameInnerPut DEF T!SplitInner, SplitInner

LEMMA SamePath == \A p : T!Top(p) = Top(p) /\ T!ButTop(p) = ButTop(p)
BY DEF T!Top, Top, T!ButTop, ButTop

-----------------------------------------------------------------------------
(* The invariant.                                                          *)

Running == pc \in {"descend", "ascend", "done"}

(* A node is a record with a map.                                          *)
Formed(n) == n = [leaf |-> n.leaf, ent |-> [k \in KeysOf(n) |-> n.ent[k]], last |-> n.last, keyNum |-> n.keyNum]

(* The values of a leaf were inserted under its keys.                      *)
Inserted(n, K) == n.leaf => \A k \in KeysOf(n) : <<k, n.ent[k]>> \in K

(* The variables beside StoreTypeOK.                                       *)
Typed ==
  /\ StoreTypeOK
  /\ pc \in {"closed", "create", "idle", "commit"} \/ Running
  /\ mKeyNum \in 0 .. MaxKeyNum
  /\ key \in Keys /\ val \in Values /\ ret \in BOOLEAN
  /\ NoSlot \in bitmap
  /\ \A s \in DOMAIN nodes : Formed(nodes[s]) /\ Inserted(nodes[s], known)
  /\ \A s \in DOMAIN blocks : Formed(blocks[s]) /\ Inserted(blocks[s], known)

(* Without an open tree nothing is left of the last one.                   *)
Blank ==
  /\ nodes = NoNodes /\ bitmap = {NoSlot} /\ root = NoSlot /\ mKeyNum = 0
  /\ key = Least(Keys) /\ val = Least(Values) /\ cur = NoSlot
  /\ path = <<>> /\ split = NoSplit /\ ret = TRUE
  /\ toWrite = {} /\ freed = {}
  /\ ~trusted

(* What the calls have to do with each other.                              *)
Ordered ==
  /\ ~Open => Blank
  /\ pc = "create" => file = "empty"
  /\ Open => file = "headed"
  /\ file # "headed" => blocks = NoNodes /\ ~whole
  /\ Open /\ ~trusted => pc = "idle" /\ freed = {}
  /\ freed # {} => pc = "idle"
  /\ pc # "commit" => toWrite = {}

(* No block of the file has a lower number than a block that is not there. *)
Dense(S) == \A s \in S, u \in Slots : u <= s => u \in S

(* While a Commit is under way.                                            *)
Committing ==
  /\ ~whole
  /\ header = [keyNum |-> mKeyNum, root |-> root]
  /\ Exact
  /\ \A s \in DOMAIN nodes \ toWrite : s \in DOMAIN blocks /\ blocks[s] = nodes[s]

(* A leaf splits only when the bitmap knows every block.                   *)
SplitSafe ==
  /\ pc = "descend" => Readable \subseteq bitmap \/ View[Leads(View, key)[cur]].keyNum < MaxElements
  /\ pc = "ascend" => Readable \subseteq bitmap

(* An insertion has what it needs in the cache.                            *)
AtHand ==
  /\ cur \in Readable
  /\ <<key, val>> \in known
  /\ \A i \in 1 .. Len(path) : path[i] \in DOMAIN nodes
  /\ pc # "descend" => cur \in DOMAIN nodes
  /\ pc = "ascend" => split.left \in Readable /\ split.right \in Readable

(* What insertions rely on beside the tree.                                *)
Provided ==
  /\ Dense(Readable)
  /\ bitmap \subseteq Readable \cup {NoSlot}
  /\ Running => AtHand
  /\ SplitSafe
  /\ pc = "commit" => Committing

(* An open tree that does not come from a file in pieces.                  *)
Trusted == T!TreeInv /\ Provided

-----------------------------------------------------------------------------
(* A tree between two calls.                                               *)
LeavesOf(N) == {s \in DOMAIN N : N[s].leaf}

Spread(N, r, dom, hgt) ==
  /\ dom[r] = Keys
  /\ \A s \in DOMAIN N : KeysOf(N[s]) \subseteq dom[s]
  /\ \A s \in DOMAIN N : hgt[s] <= hgt[r] /\ (N[s].leaf <=> hgt[s] = 0)
  /\ \A s \in DOMAIN N \ LeavesOf(N) : \A c \in Pointers(N[s]) :
       dom[c] = {k \in dom[s] : Child(N[s], k) = c} /\ hgt[s] = hgt[c] + 1
  /\ \A s, t \in DOMAIN N : s # t /\ hgt[s] = hgt[t] => dom[s] \cap dom[t] = {}
  /\ T!Linked(LeavesOf(N), [s \in LeavesOf(N) |-> N[s].last], dom)

GoodTree(N, r) ==
  /\ DOMAIN N \subseteq Slots /\ r \in DOMAIN N
  /\ \A s \in DOMAIN N : IsNode(N[s], DOMAIN N) /\ CountFits(N[s]) /\ (s # r => HalfFull(N[s]))
  /\ \A s \in DOMAIN N \ LeavesOf(N) : T!Distinct(N[s])
  /\ \E dom \in [DOMAIN N -> SUBSET Keys], hgt \in [DOMAIN N -> Nat] : Spread(N, r, dom, hgt)

PairsOf(N) == UNION {{<<k, N[s].ent[k]>> : k \in KeysOf(N[s])} : s \in LeavesOf(N)}

(* The file as Open and the loads that follow it read it.                  *)
FileView == [s \in DOMAIN blocks |-> GetNode(blocks[s])]

(* A file on which the last Commit was completed.                          *)
Whole ==
  /\ file = "headed"
  /\ GoodTree(FileView, header.root)
  /\ saved = PairsOf(FileView)

StoreInv ==
  /\ Typed
  /\ Ordered
  /\ Dense(DOMAIN blocks)
  /\ Open /\ trusted => Trusted
  /\ whole => Whole

-----------------------------------------------------------------------------
(* What is read after a step.                                              *)
LEMMA ViewIs ==
  /\ DOMAIN View = Readable
  /\ \A s \in Readable : View[s] = Node(s)
  /\ \A s \in DOMAIN nodes : s \in Readable /\ View[s] = nodes[s]
  /\ \A s \in DOMAIN blocks : s \in Readable /\ (s \notin DOMAIN nodes => View[s] = GetNode(blocks[s]))
BY DEF View, Readable, Node, Cached

LEMMA ViewPut ==
  ASSUME NEW s \in DOMAIN nodes, NEW m, nodes' = [nodes EXCEPT ![s] = m], UNCHANGED blocks
  PROVE  View' = [View EXCEPT ![s] = m] /\ Readable' = Readable
<1>1. DOMAIN nodes' = DOMAIN nodes /\ Readable' = Readable  BY DEF Readable
<1>2. View' = [t \in Readable |-> Node(t)']  BY <1>1 DEF View
<1>3. ASSUME NEW t \in Readable PROVE Node(t)' = [View EXCEPT ![s] = m][t]
  BY <1>1 DEF Node, View, Cached
<1> QED  BY <1>1, <1>2, <1>3 DEF View, Readable

(* A map after the split of s: a takes its place, b a new one.             *)
Parted(f, s, new, a, b) ==
  [t \in DOMAIN f \cup {new} |-> IF t = new THEN b ELSE IF t = s THEN a ELSE f[t]]

LEMMA ViewSplit ==
  ASSUME NEW s \in DOMAIN nodes, NEW new, NEW a, NEW b, UNCHANGED blocks,
         nodes' = Parted(nodes, s, new, a, b)
  PROVE  View' = Parted(View, s, new, a, b) /\ Readable' = Readable \cup {new}
<1>1. DOMAIN nodes' = DOMAIN nodes \cup {new} /\ Readable' = Readable \cup {new}
  BY DEF Readable, Parted
<1>2. View' = [t \in Readable \cup {new} |-> Node(t)']  BY <1>1 DEF View
<1>3. ASSUME NEW t \in Readable \cup {new}
      PROVE  Node(t)' = IF t = new THEN b ELSE IF t = s THEN a ELSE View[t]
  BY <1>1 DEF Node, View, Cached, Readable, Parted
<1> QED  BY <1>1, <1>2, <1>3, ViewIs DEF Parted

LEMMA ViewRoot ==
  ASSUME NEW new, NEW b, UNCHANGED blocks,
         nodes' = [t \in DOMAIN nodes \cup {new} |-> IF t = new THEN b ELSE nodes[t]]
  PROVE  /\ View' = [t \in DOMAIN View \cup {new} |-> IF t = new THEN b ELSE View[t]]
         /\ Readable' = Readable \cup {new}
<1>1. DOMAIN nodes' = DOMAIN nodes \cup {new} /\ Readable' = Readable \cup {new}  BY DEF Readable
<1>2. View' = [t \in Readable \cup {new} |-> Node(t)']  BY <1>1 DEF View
<1>3. ASSUME NEW t \in Readable \cup {new}
      PROVE  Node(t)' = IF t = new THEN b ELSE View[t]
  BY <1>1 DEF Node, View, Cached, Readable
<1> QED  BY <1>1, <1>2, <1>3, ViewIs

(* Loading a node, and writing one, do not change it.                      *)
LEMMA ViewLoad ==
  ASSUME NEW S \in SUBSET Readable, UNCHANGED blocks, nodes' = [s \in DOMAIN nodes \cup S |-> Node(s)]
  PROVE  /\ View' = View /\ Readable' = Readable
         /\ \A s : Node(s)' = Node(s)
<1>1. DOMAIN nodes' = DOMAIN nodes \cup S /\ Readable' = Readable  BY DEF Readable
<1>2. \A s : Node(s)' = Node(s)  BY <1>1 DEF Node, Cached
<1> QED  BY <1>1, <1>2 DEF View

LEMMA ViewSame ==
  ASSUME UNCHANGED <<nodes, blocks>>
  PROVE  View' = View /\ Readable' = Readable /\ \A s : Node(s)' = Node(s)
<1>1. Readable' = Readable  BY DEF Readable
<1>2. \A s : Node(s)' = Node(s)  BY DEF Node, Cached
<1> QED  BY <1>1, <1>2 DEF View

-----------------------------------------------------------------------------
(* A step of an insertion is one of the tree that is read.                 *)

(* The node a running call is on, as the tree has it.                      *)
LEMMA OnNode ==
  ASSUME StoreInv, Open, trusted, Running, Cached(cur)
  PROVE  /\ Trusted /\ AtHand /\ T!TypeOK
         /\ cur \in DOMAIN nodes /\ cur \in Readable /\ View[cur] = nodes[cur]
         /\ pc # "commit"
         /\ T!IsNode(nodes[cur], Readable)
<1>1. Trusted /\ AtHand /\ T!TypeOK  BY DEF StoreInv, Trusted, Provided, T!TreeInv
<1>2. cur \in DOMAIN nodes /\ cur \in Readable /\ View[cur] = nodes[cur]  BY ViewIs DEF Cached
<1>3. T!IsNode(nodes[cur], Readable)  BY <1>1, <1>2, ViewIs DEF T!TypeOK
<1> QED  BY <1>1, <1>2, <1>3 DEF Running

(* A child of an inner node can be read.                                   *)
LEMMA ChildReadable ==
  ASSUME T!TypeOK, T!KeyCounts, NEW s \in Readable, ~View[s].leaf, NEW k \in Keys
  PROVE  Child(View[s], k) \in Readable /\ Child(View[s], k) \in Pointers(View[s])
<1>1. PICK n : n = View[s]  OBVIOUS
<1>2. T!IsNode(n, Readable) /\ T!IsFiniteSet(T!KeysOf(n)) /\ ~n.leaf
  BY <1>1, ViewIs DEF T!TypeOK, T!KeyCounts, T!CountFits
<1>3. k \in Int  BY KeysAssumption
<1>4. T!Child(n, k) \in T!Pointers(n)  BY <1>2, <1>3, Given, T!ChildIsPointer
<1>5. T!Pointers(n) \subseteq Readable  BY <1>2 DEF T!IsNode, T!Pointers
<1> QED  BY <1>1, <1>4, <1>5, SameChild, SameAbove

LEMMA DescendMapped ==
  ASSUME StoreInv, Open, trusted, Cached(cur), Descend, UNCHANGED blocks
  PROVE  T!Descend /\ cur' \in Readable' /\ View' = View /\ Readable' = Readable
<1>1. Running  BY DEF Descend, Running
<1>2. /\ cur \in Readable /\ View[cur] = nodes[cur] /\ T!TypeOK /\ T!KeyCounts /\ key \in Keys
  BY <1>1, OnNode DEF Trusted, T!TreeInv, T!TypeOK
<1>3. View' = View /\ Readable' = Readable  BY ViewSame DEF Descend, tree
<1>4. cur' \in Readable  BY <1>2, ChildReadable DEF Descend
<1> QED  BY <1>1, <1>2, <1>3, <1>4, SameChild DEF Descend, tree, T!Descend, T!tree

LEMMA LeafInsertMapped ==
  ASSUME StoreInv, Open, trusted, Cached(cur), LeafInsert, UNCHANGED blocks
  PROVE  T!LeafInsert /\ Readable' = Readable
<1>1. Running  BY DEF LeafInsert, Running
<1>2. cur \in DOMAIN nodes /\ cur \in Readable /\ View[cur] = nodes[cur]  BY <1>1, OnNode
<1>3. PICK m : m = LeafPut(nodes[cur], key, val)  OBVIOUS
<1>4. nodes' = [nodes EXCEPT ![cur] = m]  BY <1>3 DEF LeafInsert
<1>5. View' = [View EXCEPT ![cur] = m] /\ Readable' = Readable  BY <1>2, <1>4, ViewPut DEF LeafInsert
<1>6. m = T!LeafPut(View[cur], key, val)  BY <1>2, <1>3, SameSmall
<1> QED  BY <1>1, <1>2, <1>5, <1>6 DEF LeafInsert, T!LeafInsert

(* The bitmap's free blocks are those of the tree.                         *)
LEMMA SameFree ==
  ASSUME StoreInv, Open, trusted, Running, Readable \subseteq bitmap
  PROVE  T!Free = Free /\ T!GetNewNodeSlot = GetNewNodeSlot /\ bitmap = Readable \cup {NoSlot}
<1>1. bitmap \subseteq Readable \cup {NoSlot} /\ NoSlot \in bitmap  BY DEF StoreInv, Trusted, Provided, Typed
<1>2. bitmap = Readable \cup {NoSlot}  BY <1>1
<1>3. T!Free = Free  BY <1>2 DEF T!Free, Free
<1> QED  BY <1>2, <1>3, SameSets DEF T!GetNewNodeSlot, GetNewNodeSlot

(* A search ends: what Leads computes is defined.                          *)
LEMMA LeadsIs ==
  ASSUME NEW N, NEW k, \A s \in DOMAIN N : ~N[s].leaf => Child(N[s], k) \in DOMAIN N
  PROVE  \A s \in DOMAIN N : Leads(N, k)[s] = IF N[s].leaf THEN s ELSE Leads(N, k)[Child(N[s], k)]
<1>1. PICK D : D = DOMAIN N  OBVIOUS
<1>2. PICK g : g = [s \in D |-> IF N[s].leaf THEN s ELSE Child(N[s], k)]  OBVIOUS
<1>3. g \in [D -> D]  BY <1>1, <1>2
<1>4. PICK L : L = [s \in D |-> {u \in T!Met(D, g, s) : N[u].leaf}]  OBVIOUS
<1>5. PICK f : f = [s \in D |-> CHOOSE t : t \in L[s]]  OBVIOUS
<1>6. ASSUME NEW s \in D
      PROVE  f[s] = IF N[s].leaf THEN s ELSE f[Child(N[s], k)]
  <2>1. /\ T!Met(D, g, s) = {s} \cup T!Met(D, g, g[s])
        /\ g[s] = s => T!Met(D, g, s) = {s}
    BY <1>3, Given, T!MetNext
  <2>2. CASE N[s].leaf
    <3>1. g[s] = s  BY <1>2, <2>2
    <3>2. L[s] = {s}  BY <1>4, <2>1, <2>2, <3>1
    <3> QED  BY <1>5, <2>2, <3>2
  <2>3. CASE ~N[s].leaf
    <3>1. g[s] = Child(N[s], k) /\ g[s] \in D  BY <1>2, <1>3, <2>3
    <3>2. L[s] = L[g[s]]  BY <1>4, <2>1, <2>3, <3>1
    <3> QED  BY <1>5, <2>3, <3>1, <3>2
  <2> QED  BY <2>2, <2>3
<1>7. f = [s \in D |-> IF N[s].leaf THEN s ELSE f[Child(N[s], k)]]  BY <1>5, <1>6
<1>8. Leads(N, k) = [s \in D |-> IF N[s].leaf THEN s ELSE Leads(N, k)[Child(N[s], k)]]
  BY <1>1, <1>7 DEF Leads
<1> QED  BY <1>1, <1>8

(* A full leaf is met only when the bitmap knows every block.              *)
LEMMA Leading ==
  ASSUME T!TypeOK, T!KeyCounts, NEW k \in Keys, NEW s \in Readable
  PROVE  Leads(View, k)[s] = IF View[s].leaf THEN s ELSE Leads(View, k)[Child(View[s], k)]
<1>1. \A t \in DOMAIN View : ~View[t].leaf => Child(View[t], k) \in DOMAIN View
  BY ViewIs, ChildReadable
<1>2. PICK N : N = View  OBVIOUS
<1> QED  BY <1>1, <1>2, LeadsIs, ViewIs

LEMMA FullKnown ==
  ASSUME StoreInv, Open, trusted, pc = "descend", Cached(cur), nodes[cur].leaf,
         nodes[cur].keyNum >= MaxElements
  PROVE  Readable \subseteq bitmap
<1>1. /\ cur \in Readable /\ View[cur] = nodes[cur] /\ Trusted /\ T!TypeOK /\ T!KeyCounts
      /\ key \in Keys
  BY OnNode DEF Running, Trusted, T!TreeInv, T!TypeOK
<1>2. Leads(View, key)[cur] = cur  BY <1>1, Leading
<1>3. nodes[cur].keyNum \in Nat  BY <1>1, ViewIs DEF T!TypeOK, T!IsNode
<1> QED  BY <1>1, <1>2, <1>3, MaxElementsAssumption DEF Trusted, Provided, SplitSafe

LEMMA SplitSeen ==
  ASSUME NEW s \in DOMAIN nodes, NEW h, NEW new, RecordSplit(s, h, new), UNCHANGED blocks
  PROVE  View' = Parted(View, s, new, h.left, h.right) /\ Readable' = Readable \cup {new}
<1>1. PICK a, b : a = h.left /\ b = h.right  OBVIOUS
<1>2. nodes' = Parted(nodes, s, new, a, b)  BY <1>1 DEF RecordSplit, Parted
<1> QED  BY <1>1, <1>2, ViewSplit

LEMMA LeafSplitMapped ==
  ASSUME StoreInv, Open, trusted, Cached(cur), LeafSplit, UNCHANGED blocks
  PROVE  T!LeafSplit /\ Readable' = Readable \cup {GetNewNodeSlot} /\ Readable \subseteq bitmap
<1>1. Running /\ pc = "descend"  BY DEF LeafSplit, Running
<1>2. cur \in DOMAIN nodes /\ cur \in Readable /\ View[cur] = nodes[cur]  BY <1>1, OnNode
<1>3. PICK new : new = GetNewNodeSlot  OBVIOUS
<1>4. PICK h : h = SplitLeaf(nodes[cur], key, val, new)  OBVIOUS
<1>5. Readable \subseteq bitmap  BY <1>1, FullKnown DEF LeafSplit
<1>6. T!Free = Free /\ T!GetNewNodeSlot = new /\ bitmap = Readable \cup {NoSlot}
  BY <1>1, <1>3, <1>5, SameFree
<1>7. RecordSplit(cur, h, new)  BY <1>3, <1>4 DEF LeafSplit
<1>8. View' = Parted(View, cur, new, h.left, h.right) /\ Readable' = Readable \cup {new}
  BY <1>2, <1>7, SplitSeen
<1>9. h = T!SplitLeaf(View[cur], key, val, new)  BY <1>2, <1>4, SameSplitLeaf
<1>10. T!RecordSplit(cur, h, new)
  BY <1>1, <1>2, <1>6, <1>7, <1>8 DEF RecordSplit, T!RecordSplit, Parted
<1> QED  BY <1>1, <1>2, <1>3, <1>5, <1>6, <1>8, <1>9, <1>10 DEF LeafSplit, T!LeafSplit

(* The activation that resumes is on a node of the cache.                  *)
LEMMA OnTop ==
  ASSUME StoreInv, Open, trusted, pc = "ascend", path # <<>>
  PROVE  /\ Top(path) \in DOMAIN nodes /\ Top(path) \in Readable
         /\ View[Top(path)] = nodes[Top(path)]
<1>1. Trusted /\ AtHand /\ T!TypeOK  BY DEF StoreInv, Trusted, Provided, T!TreeInv, Running
<1>2. path \in Seq(Readable)  BY <1>1, ViewIs DEF T!TypeOK
<1>3. Len(path) \in 1 .. Len(path)  BY <1>2
<1> QED  BY <1>1, <1>3, ViewIs DEF AtHand, Top

LEMMA SplitKnown ==
  ASSUME StoreInv, Open, trusted, pc = "ascend"
  PROVE  split.left \in Readable /\ split.right \in Readable /\ cur \in DOMAIN nodes
         /\ cur \in Readable /\ Readable \subseteq bitmap
BY DEF StoreInv, Trusted, Provided, AtHand, SplitSafe, Running

LEMMA InnerInsertMapped ==
  ASSUME StoreInv, Open, trusted, InnerInsert, UNCHANGED blocks
  PROVE  T!InnerInsert /\ Readable' = Readable
<1>1. pc = "ascend" /\ path # <<>>  BY DEF InnerInsert
<1>2. PICK p : p = Top(path)  OBVIOUS
<1>3. p \in DOMAIN nodes /\ p \in Readable /\ View[p] = nodes[p]  BY <1>1, <1>2, OnTop
<1>4. PICK m : m = Counted(InnerPut(nodes[p], split.key, split.left, split.right))  OBVIOUS
<1>5. nodes' = [nodes EXCEPT ![p] = m]  BY <1>2, <1>4 DEF InnerInsert
<1>6. View' = [View EXCEPT ![p] = m] /\ Readable' = Readable  BY <1>3, <1>5, ViewPut
<1>7. m = T!Counted(T!InnerPut(View[p], split.key, split.left, split.right))
  BY <1>3, <1>4, SameSmall, SameInnerPut
<1>8. T!Top(path) = p /\ T!ButTop(path) = ButTop(path)  BY <1>2, SamePath
<1> QED  BY <1>1, <1>2, <1>3, <1>6, <1>7, <1>8, SplitKnown DEF InnerInsert, T!InnerInsert

LEMMA InnerSplitMapped ==
  ASSUME StoreInv, Open, trusted, InnerSplit, UNCHANGED blocks
  PROVE  T!InnerSplit /\ Readable' = Readable \cup {GetNewNodeSlot}
<1>1. pc = "ascend" /\ path # <<>> /\ Running  BY DEF InnerSplit, Running
<1>2. PICK p : p = Top(path)  OBVIOUS
<1>3. p \in DOMAIN nodes /\ p \in Readable /\ View[p] = nodes[p]  BY <1>1, <1>2, OnTop
<1>4. PICK new : new = GetNewNodeSlot  OBVIOUS
<1>5. PICK h : h = SplitInner(nodes[p], split.key, split.left, split.right)  OBVIOUS
<1>6. T!Free = Free /\ T!GetNewNodeSlot = new /\ bitmap = Readable \cup {NoSlot}
  BY <1>1, <1>4, SplitKnown, SameFree
<1>7. RecordSplit(p, h, new)  BY <1>2, <1>4, <1>5 DEF InnerSplit
<1>8. View' = Parted(View, p, new, h.left, h.right) /\ Readable' = Readable \cup {new}
  BY <1>3, <1>7, SplitSeen
<1>9. h = T!SplitInner(View[p], split.key, split.left, split.right)  BY <1>3, <1>5, SameSplitInner
<1>10. T!RecordSplit(p, h, new)
  BY <1>1, <1>3, <1>6, <1>7, <1>8 DEF RecordSplit, T!RecordSplit, Parted
<1>11. T!Top(path) = p /\ T!ButTop(path) = ButTop(path)  BY <1>2, SamePath
<1> QED
  BY <1>1, <1>2, <1>3, <1>4, <1>6, <1>8, <1>9, <1>10, <1>11, SplitKnown DEF InnerSplit, T!InnerSplit

LEMMA NewRootMapped ==
  ASSUME StoreInv, Open, trusted, NewRoot, UNCHANGED blocks
  PROVE  T!NewRoot /\ Readable' = Readable \cup {GetNewNodeSlot}
<1>1. pc = "ascend" /\ path = <<>> /\ Running  BY DEF NewRoot, Running
<1>2. PICK new : new = GetNewNodeSlot  OBVIOUS
<1>3. PICK m : m = RootOver(split.key, split.left, split.right)  OBVIOUS
<1>4. T!Free = Free /\ T!GetNewNodeSlot = new /\ bitmap = Readable \cup {NoSlot}
  BY <1>1, <1>2, SplitKnown, SameFree
<1>5. nodes' = [t \in DOMAIN nodes \cup {new} |-> IF t = new THEN m ELSE nodes[t]]
  BY <1>2, <1>3 DEF NewRoot
<1>6. /\ View' = [t \in DOMAIN View \cup {new} |-> IF t = new THEN m ELSE View[t]]
      /\ Readable' = Readable \cup {new}
  BY <1>5, ViewRoot
<1>7. m = T!RootOver(split.key, split.left, split.right)  BY <1>3, SameSmall
<1> QED
  BY <1>1, <1>2, <1>4, <1>6, <1>7, SplitKnown DEF NewRoot, T!NewRoot

LEMMA InsertReturnMapped ==
  ASSUME StoreInv, Open, trusted, InsertReturn, UNCHANGED blocks
  PROVE  T!InsertReturn /\ Readable' = Readable /\ View' = View
<1>1. View' = View /\ Readable' = Readable  BY ViewSame DEF InsertReturn, tree
<1> QED  BY <1>1 DEF InsertReturn, tree, T!InsertReturn, T!tree

-----------------------------------------------------------------------------
(* What the insertion relies on holds after each of its steps.             *)
LEMMA DenseGrows ==
  ASSUME NEW R \in SUBSET Slots, Dense(R), NEW B, B = R \cup {NoSlot}, Slots \ B # {},
         NEW new, new = Least(Slots \ B)
  PROVE  Dense(R \cup {new}) /\ new \in Slots /\ new \notin R
<1>1. PICK F : F = Slots \ B  OBVIOUS
<1>2. F \in SUBSET Slots /\ IsFiniteSet(Slots) /\ Slots \in SUBSET Int /\ F # {}
  BY <1>1, SlotsAssumption
<1> IsFiniteSet(F)  BY <1>2, FS_Subset
<1>3. T!IsFiniteSet(F)  BY <1>2, SameCount
<1>4. new \in F /\ \A y \in F : new <= y  BY <1>1, <1>2, <1>3, Given, T!LeastExists, SameSets
<1>5. ASSUME NEW u \in Slots, u <= new PROVE u \in R \cup {new}
  <2>1. CASE u \in F
    <3>1. u \in Int /\ new \in Int  BY <1>2, <1>4, <2>1
    <3> QED  BY <1>4, <1>5, <2>1, <3>1
  <2>2. CASE u \notin F  BY <1>1, <2>2, SlotsAssumption DEF NoSlot
  <2> QED  BY <2>1, <2>2
<1> QED  BY <1>1, <1>4, <1>5 DEF Dense

LEMMA DescendProvided ==
  ASSUME StoreInv, Open, trusted, Cached(cur), Descend, UNCHANGED blocks, UNCHANGED history
  PROVE  Provided'
<1>1. Running  BY DEF Descend, Running
<1>2. /\ T!TypeOK /\ T!KeyCounts /\ Provided /\ AtHand /\ cur \in DOMAIN nodes
      /\ cur \in Readable /\ View[cur] = nodes[cur] /\ key \in Keys
      /\ path \in Seq(Readable)
  BY <1>1, OnNode, ViewIs DEF Trusted, T!TreeInv, T!TypeOK
<1>3. cur' \in Readable' /\ View' = View /\ Readable' = Readable  BY DescendMapped
<1>4. /\ cur' = Child(nodes[cur], key) /\ path' = Append(path, cur) /\ pc' = "descend" /\ pc = "descend"
      /\ nodes' = nodes /\ key' = key /\ val' = val /\ known' = known /\ bitmap' = bitmap
      /\ ~nodes[cur].leaf
  BY DEF Descend, tree, history
<1>5. Leads(View, key)[cur] = Leads(View, key)[cur']  BY <1>2, <1>4, Leading
<1>6. SplitSafe'  BY <1>2, <1>3, <1>4, <1>5 DEF Provided, SplitSafe
<1>7. AtHand'
  <2>1. ASSUME NEW i \in 1 .. Len(path') PROVE path'[i] \in DOMAIN nodes
    BY <1>2, <1>4, <2>1 DEF AtHand
  <2> QED  BY <1>2, <1>3, <1>4, <2>1 DEF AtHand
<1> QED  BY <1>2, <1>3, <1>4, <1>6, <1>7 DEF Provided

LEMMA LeafInsertProvided ==
  ASSUME StoreInv, Open, trusted, Cached(cur), LeafInsert, UNCHANGED blocks, UNCHANGED history
  PROVE  Provided'
<1>1. Running  BY DEF LeafInsert, Running
<1>2. Provided /\ AtHand /\ cur \in DOMAIN nodes /\ Readable' = Readable
  BY <1>1, OnNode, LeafInsertMapped DEF Trusted
<1>3. /\ pc' = "done" /\ DOMAIN nodes' = DOMAIN nodes /\ UNCHANGED <<bitmap, key, val, cur, path, known>>
  BY DEF LeafInsert, history
<1> QED  BY <1>2, <1>3 DEF Provided, AtHand, SplitSafe

LEMMA LeafSplitProvided ==
  ASSUME StoreInv, Open, trusted, Cached(cur), LeafSplit, UNCHANGED blocks, UNCHANGED history
  PROVE  Provided'
<1>1. Running  BY DEF LeafSplit, Running
<1>2. PICK new : new = GetNewNodeSlot  OBVIOUS
<1>3. /\ Provided /\ AtHand /\ cur \in DOMAIN nodes /\ T!TypeOK
      /\ Readable' = Readable \cup {new} /\ Readable \subseteq bitmap
  BY <1>1, <1>2, OnNode, LeafSplitMapped DEF Trusted
<1>4. bitmap = Readable \cup {NoSlot} /\ Readable \subseteq Slots
  BY <1>1, <1>3, SameFree, ViewIs DEF T!TypeOK
<1>5. /\ pc' = "ascend" /\ DOMAIN nodes' = DOMAIN nodes \cup {new} /\ bitmap' = bitmap \cup {new}
      /\ split'.left = cur /\ split'.right = new /\ UNCHANGED <<key, val, cur, path, known>>
  BY <1>2 DEF LeafSplit, RecordSplit, history
<1>6. Dense(Readable')  BY <1>2, <1>3, <1>4, DenseGrows DEF LeafSplit, Free, GetNewNodeSlot, Provided
<1> QED  BY <1>3, <1>4, <1>5, <1>6 DEF Provided, AtHand, SplitSafe, Dense, Running

LEMMA InnerInsertProvided ==
  ASSUME StoreInv, Open, trusted, InnerInsert, UNCHANGED blocks, UNCHANGED history
  PROVE  Provided'
<1>1. pc = "ascend" /\ path # <<>> /\ Running  BY DEF InnerInsert, Running
<1>2. /\ Provided /\ AtHand /\ Readable' = Readable /\ Top(path) \in DOMAIN nodes
      /\ path \in Seq(Readable)
  BY <1>1, OnTop, InnerInsertMapped, ViewIs DEF StoreInv, Trusted, Provided, T!TreeInv, T!TypeOK
<1>3. /\ pc' = "done" /\ DOMAIN nodes' = DOMAIN nodes /\ UNCHANGED <<bitmap, key, val, known>>
      /\ cur' = Top(path) /\ path' = ButTop(path)
  BY DEF InnerInsert, history
<1>4. \A i \in 1 .. Len(path') : path'[i] \in DOMAIN nodes
  BY <1>1, <1>2, <1>3 DEF ButTop, AtHand
<1>5. AtHand'  BY <1>2, <1>3, <1>4, ViewIs DEF AtHand
<1> QED  BY <1>2, <1>3, <1>5 DEF Provided, SplitSafe

LEMMA InnerSplitProvided ==
  ASSUME StoreInv, Open, trusted, InnerSplit, UNCHANGED blocks, UNCHANGED history
  PROVE  Provided'
<1>1. pc = "ascend" /\ path # <<>> /\ Running  BY DEF InnerSplit, Running
<1>2. PICK new : new = GetNewNodeSlot  OBVIOUS
<1>3. /\ Provided /\ AtHand /\ Readable' = Readable \cup {new} /\ Top(path) \in DOMAIN nodes
      /\ path \in Seq(Readable) /\ Readable \subseteq Slots
  BY <1>1, <1>2, OnTop, InnerSplitMapped, ViewIs DEF StoreInv, Trusted, Provided, T!TreeInv, T!TypeOK
<1>4. bitmap = Readable \cup {NoSlot}  BY <1>1, SameFree, SplitKnown
<1>5. /\ pc' = "ascend" /\ DOMAIN nodes' = DOMAIN nodes \cup {new} /\ bitmap' = bitmap \cup {new}
      /\ split'.left = Top(path) /\ split'.right = new /\ UNCHANGED <<key, val, known>>
      /\ cur' = Top(path) /\ path' = ButTop(path)
  BY <1>2 DEF InnerSplit, RecordSplit, history
<1>6. Dense(Readable')  BY <1>2, <1>3, <1>4, DenseGrows DEF InnerSplit, Free, GetNewNodeSlot, Provided
<1>7. \A i \in 1 .. Len(path') : path'[i] \in DOMAIN nodes
  BY <1>1, <1>3, <1>5 DEF ButTop, AtHand
<1>8. AtHand'  BY <1>3, <1>5, <1>7, ViewIs DEF AtHand
<1> QED  BY <1>3, <1>4, <1>5, <1>6, <1>8 DEF Provided, SplitSafe, Dense

LEMMA NewRootProvided ==
  ASSUME StoreInv, Open, trusted, NewRoot, UNCHANGED blocks, UNCHANGED history
  PROVE  Provided'
<1>1. pc = "ascend" /\ Running  BY DEF NewRoot, Running
<1>2. PICK new : new = GetNewNodeSlot  OBVIOUS
<1>3. /\ Provided /\ AtHand /\ Readable' = Readable \cup {new} /\ Readable \subseteq Slots
  BY <1>1, <1>2, NewRootMapped, ViewIs DEF StoreInv, Trusted, Provided, T!TreeInv, T!TypeOK
<1>4. bitmap = Readable \cup {NoSlot}  BY <1>1, SameFree, SplitKnown
<1>5. /\ pc' = "done" /\ DOMAIN nodes' = DOMAIN nodes \cup {new} /\ bitmap' = bitmap \cup {new}
      /\ UNCHANGED <<key, val, cur, path, known>>
  BY <1>2 DEF NewRoot, history
<1>6. Dense(Readable')  BY <1>2, <1>3, <1>4, DenseGrows DEF NewRoot, Free, GetNewNodeSlot, Provided
<1>7. AtHand'  BY <1>1, <1>3, <1>5, ViewIs DEF AtHand
<1> QED  BY <1>3, <1>4, <1>5, <1>6, <1>7 DEF Provided, SplitSafe, Dense

LEMMA InsertReturnProvided ==
  ASSUME StoreInv, Open, trusted, InsertReturn, UNCHANGED blocks
  PROVE  Provided'
<1>1. Provided /\ Readable' = Readable /\ pc' = "idle" /\ bitmap' = bitmap
  BY InsertReturnMapped DEF StoreInv, Trusted, InsertReturn, tree
<1> QED  BY <1>1 DEF Provided, SplitSafe, Running

(* One step of an insertion.                                               *)
LEMMA InsertTrusted ==
  ASSUME StoreInv, Open, trusted, InsertStep, UNCHANGED history
  PROVE  Trusted' /\ T!Next
<1>1. UNCHANGED blocks /\ Cached(cur) /\ T!TreeInv
  BY DEF InsertStep, disk, StoreInv, Trusted
<1>2. T!Step /\ Provided'
  <2>1. CASE Descend  BY <1>1, <2>1, DescendMapped, DescendProvided DEF T!Step
  <2>2. CASE LeafInsert  BY <1>1, <2>2, LeafInsertMapped, LeafInsertProvided DEF T!Step
  <2>3. CASE LeafSplit  BY <1>1, <2>3, LeafSplitMapped, LeafSplitProvided DEF T!Step
  <2>4. CASE InnerInsert  BY <1>1, <2>4, InnerInsertMapped, InnerInsertProvided DEF T!Step
  <2>5. CASE InnerSplit  BY <1>1, <2>5, InnerSplitMapped, InnerSplitProvided DEF T!Step
  <2>6. CASE NewRoot  BY <1>1, <2>6, NewRootMapped, NewRootProvided DEF T!Step
  <2>7. CASE InsertReturn  BY <1>1, <2>7, InsertReturnMapped, InsertReturnProvided DEF T!Step
  <2> QED  BY <2>1, <2>2, <2>3, <2>4, <2>5, <2>6, <2>7 DEF InsertStep, Step
<1>3. T!Next  BY <1>2 DEF T!Next
<1>4. T!TreeInv'  BY <1>1, <1>3, Given, T!TreeStep
<1> QED  BY <1>2, <1>3, <1>4 DEF Trusted

-----------------------------------------------------------------------------
(* Nodes of a tree are formed.                                             *)
LEMMA NodeFormed ==
  ASSUME NEW n, NEW S, T!IsNode(n, S)
  PROVE  Formed(n) /\ KeysOf(n) \subseteq Keys
BY SameSets DEF T!IsNode, Formed

(* Contents are the pairs of the leaves.                                   *)
LEMMA ContentsAre ==
  /\ T!Contents = PairsOf(View)
  /\ \A s \in Readable : View[s].leaf => \A k \in KeysOf(View[s]) : <<k, View[s].ent[k]>> \in PairsOf(View)
  /\ \A z \in PairsOf(View) : \E s \in Readable : \E k \in KeysOf(View[s]) :
       View[s].leaf /\ z = <<k, View[s].ent[k]>>
BY ViewIs, SameSets DEF T!Contents, T!Leaves, PairsOf, LeavesOf

LEMMA ViewNext ==
  /\ DOMAIN View' = Readable'
  /\ \A s \in DOMAIN nodes' : s \in Readable' /\ View'[s] = nodes'[s]
BY DEF View, Readable, Node, Cached

LEMMA ContentsNext ==
  /\ T!Contents' = PairsOf(View)'
  /\ \A s \in Readable' : View'[s].leaf => \A k \in KeysOf(View'[s]) : <<k, View'[s].ent[k]>> \in PairsOf(View)'
BY ViewNext, SameSets DEF T!Contents, T!Leaves, PairsOf, LeavesOf

(* What is read of a block.                                                *)
LEMMA GetNodeIs ==
  ASSUME NEW b, Formed(b)
  PROVE  /\ Formed(GetNode(b)) /\ GetNode(b).leaf = b.leaf
         /\ KeysOf(GetNode(b)) \subseteq KeysOf(b)
         /\ \A k \in KeysOf(GetNode(b)) : GetNode(b).ent[k] = b.ent[k]
         /\ \A K : Inserted(b, K) => Inserted(GetNode(b), K)
<1>1. PICK D : D = {k \in KeysOf(b) : Cardinality(Below(KeysOf(b), k)) < b.keyNum}  OBVIOUS
<1>2. PICK p : p = IF D = KeysOf(b) THEN b.last ELSE NoSlot  OBVIOUS
<1>3. PICK f : f = Keep(b.ent, D)  OBVIOUS
<1>4. GetNode(b) = [b EXCEPT !.ent = f, !.keyNum = Cardinality(D), !.last = p]
  BY <1>1, <1>2, <1>3 DEF GetNode
<1>5. GetNode(b) = [leaf |-> b.leaf, ent |-> f, last |-> p, keyNum |-> Cardinality(D)]
  BY <1>4 DEF Formed
<1>6. DOMAIN f = D /\ f = [k \in D |-> b.ent[k]] /\ D \subseteq KeysOf(b)  BY <1>1, <1>3 DEF Keep
<1> QED  BY <1>5, <1>6 DEF Formed, KeysOf, Inserted

(* A node that counts its keys is read as it was written.                  *)
LEMMA ExactRead ==
  ASSUME NEW b, Formed(b), IsFiniteSet(KeysOf(b)), b.keyNum = Cardinality(KeysOf(b)), KeysOf(b) \subseteq Int
  PROVE  GetNode(b) = b
<1>1. PICK D : D = {k \in KeysOf(b) : Cardinality(Below(KeysOf(b), k)) < b.keyNum}  OBVIOUS
<1>2. ASSUME NEW k \in KeysOf(b) PROVE Cardinality(Below(KeysOf(b), k)) < Cardinality(KeysOf(b))
  <2>1. Below(KeysOf(b), k) \in SUBSET KeysOf(b) /\ Below(KeysOf(b), k) # KeysOf(b)
    BY DEF Below
  <2>2. /\ Cardinality(Below(KeysOf(b), k)) \in Nat /\ Cardinality(KeysOf(b)) \in Nat
        /\ Cardinality(Below(KeysOf(b), k)) <= Cardinality(KeysOf(b))
        /\ Cardinality(Below(KeysOf(b), k)) # Cardinality(KeysOf(b))
    BY <2>1, FS_Subset, FS_CardinalityType
  <2> QED  BY <2>2
<1>3. D = KeysOf(b)  BY <1>1, <1>2
<1>4. GetNode(b) = [b EXCEPT !.ent = Keep(b.ent, D), !.keyNum = Cardinality(D), !.last = b.last]
  BY <1>1, <1>3 DEF GetNode
<1>5. Keep(b.ent, D) = b.ent  BY <1>3 DEF Keep, Formed, KeysOf
<1> QED  BY <1>3, <1>4, <1>5 DEF Formed

(* What is read was inserted.                                              *)
LEMMA ReadInserted ==
  ASSUME Typed, NEW s \in Readable
  PROVE  Formed(View[s]) /\ Inserted(View[s], known) /\ KeysOf(View[s]) \subseteq Keys
<1>1. CASE s \in DOMAIN nodes  BY <1>1, ViewIs DEF Typed, StoreTypeOK
<1>2. CASE s \notin DOMAIN nodes
  <2>1. s \in DOMAIN blocks /\ View[s] = GetNode(blocks[s])  BY <1>2, ViewIs DEF Readable
  <2> QED  BY <2>1, GetNodeIs DEF Typed, StoreTypeOK
<1> QED  BY <1>1, <1>2

LEMMA PairsInserted ==
  ASSUME Typed
  PROVE  PairsOf(View) \subseteq known
<1>1. ASSUME NEW z \in PairsOf(View) PROVE z \in known
  <2>1. PICK s \in Readable : \E k \in KeysOf(View[s]) : View[s].leaf /\ z = <<k, View[s].ent[k]>>
    BY ContentsAre
  <2> QED  BY <2>1, ReadInserted DEF Inserted
<1> QED  BY <1>1

(* A step of an insertion gives its key the new value, or stores nothing.  *)
LEMMA ContentsStep ==
  ASSUME T!TreeInv, T!Step
  PROVE  \/ PairsOf(View)' = PairsOf(View)
         \/ /\ pc = "descend"
            /\ PairsOf(View)' = {q \in PairsOf(View) : q[1] # key} \cup {<<key, val>>}
<1>1. CASE T!Descend \/ T!InsertReturn
  <2>1. View' = View  BY <1>1 DEF T!Descend, T!InsertReturn, T!tree
  <2> QED  BY <2>1
<1>2. CASE T!LeafInsert
  <2>1. T!Contents' = T!Store!Overwrite(T!Contents, <<key, val>>)  BY <1>2, Given, T!LeafInsertApplies
  <2>2. pc = "descend"  BY <1>2 DEF T!LeafInsert
  <2> QED  BY <2>1, <2>2, ContentsAre, ContentsNext DEF T!Store!Overwrite
<1>3. CASE T!LeafSplit
  <2>1. T!Contents' = T!Store!Overwrite(T!Contents, <<key, val>>)  BY <1>3, Given, T!LeafSplitApplies
  <2>2. pc = "descend"  BY <1>3 DEF T!LeafSplit
  <2> QED  BY <2>1, <2>2, ContentsAre, ContentsNext DEF T!Store!Overwrite
<1>4. CASE T!InnerInsert \/ T!InnerSplit \/ T!NewRoot
  <2>1. T!Contents' = T!Contents  BY <1>4, Given, T!AscentKeeps
  <2> QED  BY <2>1, ContentsAre, ContentsNext
<1> QED  BY <1>1, <1>2, <1>3, <1>4 DEF T!Step

-----------------------------------------------------------------------------
(* The variables after a step of an insertion.                             *)
Grows(new) ==
  \/ DOMAIN nodes' = DOMAIN nodes /\ bitmap' = bitmap /\ root' = root
  \/ DOMAIN nodes' = DOMAIN nodes \cup {new} /\ bitmap' = bitmap \cup {new} /\ root' \in {root, new}

LEMMA InsertFrame ==
  ASSUME InsertStep
  PROVE  /\ Running
         /\ pc' = "idle" \/ Running'
         /\ pc = "descend" \/ ~(pc' = "descend")
         /\ Grows(GetNewNodeSlot)
         /\ UNCHANGED <<file, header, blocks, toWrite, freed, key, val>>
<1>1. UNCHANGED <<file, header, blocks, toWrite, freed>>  BY DEF InsertStep, disk
<1>2. CASE Descend  BY <1>1, <1>2 DEF Descend, Running, Grows, tree
<1>3. CASE LeafInsert  BY <1>1, <1>3 DEF LeafInsert, Running, Grows
<1>4. CASE LeafSplit  BY <1>1, <1>4 DEF LeafSplit, RecordSplit, Running, Grows
<1>5. CASE InnerInsert  BY <1>1, <1>5 DEF InnerInsert, Running, Grows
<1>6. CASE InnerSplit  BY <1>1, <1>6 DEF InnerSplit, RecordSplit, Running, Grows
<1>7. CASE NewRoot  BY <1>1, <1>7 DEF NewRoot, Running, Grows
<1>8. CASE InsertReturn  BY <1>1, <1>8 DEF InsertReturn, Running, Grows, tree
<1> QED  BY <1>2, <1>3, <1>4, <1>5, <1>6, <1>7, <1>8 DEF InsertStep, Step

(* The pairs of the tree are those of calls.                               *)
LEMMA InsertContents ==
  ASSUME StoreInv, Open, trusted, InsertStep, UNCHANGED history
  PROVE  /\ \/ PairsOf(View)' = PairsOf(View)
            \/ /\ <<key, val>> \in known
               /\ PairsOf(View)' = {q \in PairsOf(View) : q[1] # key} \cup {<<key, val>>}
         /\ PairsOf(View)' \subseteq known
<1>1. /\ Trusted /\ T!Next /\ Running /\ PairsOf(View) \subseteq known
  BY InsertTrusted, InsertFrame, PairsInserted DEF StoreInv
<1>2. T!Step
  <2>1. InsertStep => pc # "idle" /\ pc # "commit"  BY <1>1 DEF Running
  <2> QED  BY <1>1, <2>1 DEF T!Next, T!InsertCall, T!InsertFull
<1>3. <<key, val>> \in known  BY <1>1 DEF Trusted, Provided, AtHand
<1> QED  BY <1>1, <1>2, <1>3, ContentsStep DEF Trusted

Basic == mKeyNum \in 0 .. MaxKeyNum /\ key \in Keys /\ val \in Values /\ ret \in BOOLEAN

LEMMA TreeTypes == T!TypeOK => Basic
BY Zenon DEF T!TypeOK, Basic

LEMMA TreeTypesNext == T!TypeOK' => Basic'
BY TreeTypes, PTL

LEMMA InsertTyped ==
  ASSUME StoreInv, Open, trusted, InsertStep, UNCHANGED history
  PROVE  Typed'
<1>1. /\ Trusted' /\ T!TypeOK' /\ Running
      /\ pc' = "idle" \/ Running'
  BY InsertTrusted, InsertFrame DEF Trusted, T!TreeInv
<1>2. PICK new : Grows(new)  BY InsertFrame
<1>3. UNCHANGED <<file, header, blocks, toWrite, freed, known>> /\ Typed /\ Ordered
  BY InsertFrame DEF StoreInv, history
<1>4. toWrite' = {} /\ freed' = {}  BY <1>1, <1>3 DEF Ordered, Running
<1>5. Readable' \subseteq Slots /\ DOMAIN nodes' \subseteq Readable'  BY <1>1, ViewNext DEF T!TypeOK
<1>6. ASSUME NEW s \in DOMAIN nodes' PROVE Formed(nodes'[s]) /\ KeysOf(nodes'[s]) \subseteq Keys
  <2>1. s \in Readable' /\ View'[s] = nodes'[s]  BY ViewNext
  <2>2. T!IsNode(nodes'[s], DOMAIN View')  BY <1>1, <2>1, ViewNext DEF T!TypeOK
  <2> QED  BY <2>2, NodeFormed
<1>7. ASSUME NEW s \in DOMAIN nodes' PROVE Inserted(nodes'[s], known')
  <2>1. PairsOf(View)' \subseteq known  BY InsertContents
  <2>2. s \in Readable' /\ View'[s] = nodes'[s]  BY ViewNext
  <2> QED  BY <1>3, <2>1, <2>2, ContentsNext DEF Inserted
<1>8. bitmap' \subseteq Slots \cup {NoSlot}  BY <1>1, <1>5 DEF Trusted, Provided
<1>9. DOMAIN nodes' \subseteq bitmap' /\ root' \in DOMAIN nodes' /\ NoSlot \in bitmap'
  BY <1>2, <1>3 DEF Grows, Typed, StoreTypeOK, Open, Ordered
<1>10. StoreTypeOK'
  BY <1>3, <1>4, <1>5, <1>6, <1>8, <1>9 DEF Typed, StoreTypeOK
<1>11. mKeyNum' \in 0 .. MaxKeyNum /\ key' \in Keys /\ val' \in Values /\ ret' \in BOOLEAN
  BY <1>1, TreeTypesNext DEF Basic
<1>12. \A s \in DOMAIN blocks' : Formed(blocks'[s]) /\ Inserted(blocks'[s], known')
  BY <1>3 DEF Typed, Inserted
<1> QED  BY <1>1, <1>6, <1>7, <1>9, <1>10, <1>11, <1>12 DEF Typed

LEMMA InsertKeeps ==
  ASSUME StoreInv, Open, trusted, InsertStep, UNCHANGED history
  PROVE  StoreInv'
<1>1. Typed' /\ Trusted'  BY InsertTyped, InsertTrusted
<1>2. /\ Running
      /\ pc' = "idle" \/ Running'
      /\ UNCHANGED <<file, header, blocks, toWrite, freed, saved, whole, known, trusted>>
  BY InsertFrame DEF history
<1>3. Ordered'  BY <1>2 DEF StoreInv, Ordered, Running, Open
<1>4. whole' => Whole'  BY <1>2 DEF StoreInv, Whole, FileView
<1> QED  BY <1>1, <1>2, <1>3, <1>4 DEF StoreInv, Dense

-----------------------------------------------------------------------------
(* The nodes a walk finds.                                                 *)

(* Induction up to n, on the set of the numbers for which a fact holds.    *)
LEMMA UpTo ==
  ASSUME NEW n \in Nat, NEW S, 0 \in S, \A i \in 1 .. n : i - 1 \in S => i \in S
  PROVE  0 .. n \subseteq S
<1>1. SUFFICES ASSUME 0 .. n \ S # {} PROVE FALSE  OBVIOUS
<1>2. PICK m \in 0 .. n \ S : \A y \in 0 .. n \ S : m <= y
  <2>1. 0 .. n \ S \in SUBSET Nat  OBVIOUS
  <2> QED  BY <1>1, <2>1, Given, T!LeastNumber
<1>3. m \in 1 .. n /\ m - 1 \in 0 .. n /\ ~ (m <= m - 1)  BY <1>2
<1> QED  BY <1>2, <1>3

(* The values of a function that is defined by recursion over 0 .. n.      *)
Steps(n, S) == [1 .. n -> [S -> S]]

Unfolds(g, n, S, f0, step) ==
  g \in [0 .. n -> S] /\ g[0] = f0 /\ \A i \in 1 .. n : g[i] = step[i][g[i - 1]]

(* Such a function exists.                                                 *)
LEMMA RecursionExists ==
  ASSUME NEW n \in Nat, NEW S, NEW f0 \in S, NEW step \in Steps(n, S)
  PROVE  \E g : Unfolds(g, n, S, f0, step)
<1>0. step \in [1 .. n -> [S -> S]]  BY DEF Steps
<1> DEFINE Good(m) == \E g \in [0 .. m -> S] :
             g[0] = f0 /\ \A i \in 1 .. m : g[i] = step[i][g[i - 1]]
<1>1. PICK D : D = {m \in 0 .. n : Good(m)}  OBVIOUS
<1>2. 0 \in D
  <2>1. PICK g : g = [i \in 0 .. 0 |-> f0]  OBVIOUS
  <2>2. g \in [0 .. 0 -> S] /\ g[0] = f0 /\ \A i \in 1 .. 0 : g[i] = step[i][g[i - 1]]
    BY <2>1
  <2>3. Good(0)  BY <2>2
  <2> QED  BY <1>1, <2>3
<1>3. ASSUME NEW m \in 1 .. n, m - 1 \in D PROVE m \in D
  <2>1. PICK g \in [0 .. m - 1 -> S] :
          g[0] = f0 /\ \A i \in 1 .. m - 1 : g[i] = step[i][g[i - 1]]
    BY <1>1, <1>3
  <2>2. PICK h : h = [i \in 0 .. m |-> IF i = m THEN step[m][g[m - 1]] ELSE g[i]]  OBVIOUS
  <2>3. g[m - 1] \in S /\ step[m][g[m - 1]] \in S  BY <1>0, <2>1
  <2>4. h \in [0 .. m -> S]  BY <2>1, <2>2, <2>3
  <2>5. h[0] = f0  BY <2>1, <2>2
  <2>6. ASSUME NEW i \in 1 .. m PROVE h[i] = step[i][h[i - 1]]
    <3>1. CASE i = m  BY <2>2, <3>1
    <3>2. CASE i # m
      <4>1. i \in 1 .. m - 1 /\ i - 1 \in 0 .. m /\ i - 1 # m  BY <3>2
      <4> QED  BY <2>1, <2>2, <4>1
    <3> QED  BY <3>1, <3>2
  <2>7. Good(m) /\ m \in 0 .. n  BY <2>4, <2>5, <2>6
  <2> QED  BY <1>1, <2>7
<1>4. n \in D
  <2>1. 0 .. n \subseteq D  BY <1>2, <1>3, UpTo
  <2> QED  BY <2>1
<1> QED  BY <1>1, <1>4 DEF Unfolds


(* One more level.                                                         *)
Onward(N, S) == S \cup ((UNION {Pointers(N[s]) : s \in {t \in S : ~N[t].leaf}}) \cap DOMAIN N)

(* What Walk computes, level by level.                                     *)
LEMMA WalkSteps ==
  ASSUME NEW N, NEW start, IsFiniteSet(DOMAIN N)
  PROVE  \E f : /\ f \in [0 .. Cardinality(DOMAIN N) -> SUBSET DOMAIN N]
                /\ f[0] = start \cap DOMAIN N
                /\ \A n \in 1 .. Cardinality(DOMAIN N) : f[n] = Onward(N, f[n - 1])
                /\ Walk(N, start) = f[Cardinality(DOMAIN N)]
<1>1. PICK D : D = DOMAIN N  OBVIOUS
<1>2. PICK K : K = Cardinality(D)  OBVIOUS
<1>3. K \in Nat  BY <1>1, <1>2, FS_CardinalityType
<1>4. PICK A : A = start \cap D  OBVIOUS
<1>5. PICK step : step = [n \in 1 .. K |-> [S \in SUBSET D |-> Onward(N, S)]]  OBVIOUS
<1>6. step \in Steps(K, SUBSET D)  BY <1>1, <1>5 DEF Steps, Onward
<1>7. PICK g : Unfolds(g, K, SUBSET D, A, step)
  <2>1. A \in SUBSET D  BY <1>4
  <2> QED  BY <1>3, <1>6, <2>1, RecursionExists
<1>8. /\ g \in [0 .. K -> SUBSET D] /\ g[0] = A
      /\ \A n \in 1 .. K : g[n] = Onward(N, g[n - 1])
  <2>1. \A n \in 1 .. K : n - 1 \in 0 .. K  BY <1>3
  <2> QED  BY <1>5, <1>7, <2>1 DEF Unfolds
<1>9. g = [n \in 0 .. K |-> IF n = 0 THEN A ELSE Onward(N, g[n - 1])]
  <2>1. \A n \in 0 .. K : n # 0 => n \in 1 .. K  BY <1>3
  <2> QED  BY <1>8, <2>1
<1>10. PICK f : /\ f = [n \in 0 .. K |-> IF n = 0 THEN A ELSE Onward(N, f[n - 1])]
                /\ Walk(N, start) = f[K]
  BY <1>1, <1>2, <1>4, <1>9 DEF Walk, Onward
<1>11. f \in [0 .. K -> SUBSET D] /\ f[0] = A /\ \A n \in 1 .. K : f[n] = Onward(N, f[n - 1])
  <2>1. PICK X : X = {n \in 0 .. K : f[n] \in SUBSET D}  OBVIOUS
  <2>2. f[0] = A /\ \A n \in 1 .. K : f[n] = Onward(N, f[n - 1]) /\ n - 1 \in 0 .. K  BY <1>3, <1>10
  <2>3. 0 \in X  BY <1>3, <1>4, <2>1, <2>2
  <2>4. \A n \in 1 .. K : n - 1 \in X => n \in X  BY <1>1, <2>1, <2>2 DEF Onward
  <2>5. 0 .. K \subseteq X  BY <1>3, <2>3, <2>4, UpTo
  <2> QED  BY <1>10, <2>1, <2>2, <2>5
<1> QED  BY <1>1, <1>2, <1>4, <1>10, <1>11

(* It stays in the tree, begins at the start and goes on to every child.   *)
LEMMA WalkIs ==
  ASSUME NEW N, NEW start, IsFiniteSet(DOMAIN N)
  PROVE  /\ Walk(N, start) \subseteq DOMAIN N
         /\ start \cap DOMAIN N \subseteq Walk(N, start)
         /\ \A s \in Walk(N, start) : ~N[s].leaf => Pointers(N[s]) \cap DOMAIN N \subseteq Walk(N, start)
<1>1. PICK D : D = DOMAIN N  OBVIOUS
<1>2. PICK K : K = Cardinality(D)  OBVIOUS
<1>3. K \in Nat  BY <1>1, <1>2, FS_CardinalityType
<1>4. PICK f : /\ f \in [0 .. K -> SUBSET D]
               /\ f[0] = start \cap D
               /\ \A n \in 1 .. K : f[n] = Onward(N, f[n - 1])
               /\ Walk(N, start) = f[K]
  BY <1>1, <1>2, WalkSteps
<1>5. \A n \in 0 .. K : IsFiniteSet(f[n]) /\ Cardinality(f[n]) \in Nat
  BY <1>1, <1>4, FS_Subset, FS_CardinalityType
<1>6. PICK X : X = {n \in 0 .. K : f[0] \subseteq f[n] /\ (Onward(N, f[n]) = f[n] \/ Cardinality(f[n]) >= n)}
  OBVIOUS
<1>7. 0 \in X  BY <1>3, <1>5, <1>6
<1>8. ASSUME NEW n \in 1 .. K, n - 1 \in X PROVE n \in X
  <2>1. n \in 0 .. K /\ n - 1 \in 0 .. K /\ f[n] = Onward(N, f[n - 1])  BY <1>3, <1>4
  <2>2. f[n - 1] \subseteq f[n] /\ f[0] \subseteq f[n]  BY <1>6, <1>8, <2>1 DEF Onward
  <2>3. CASE f[n] = f[n - 1]  BY <1>6, <2>1, <2>2, <2>3
  <2>4. CASE f[n] # f[n - 1]
    <3>1. Cardinality(f[n - 1]) <= Cardinality(f[n]) /\ Cardinality(f[n - 1]) # Cardinality(f[n])
      BY <1>5, <2>1, <2>2, <2>4, FS_Subset
    <3>2. Cardinality(f[n - 1]) >= n - 1  BY <1>6, <1>8, <2>1, <2>4
    <3>3. Cardinality(f[n]) >= n  BY <1>5, <2>1, <3>1, <3>2
    <3> QED  BY <1>6, <2>1, <2>2, <3>3
  <2> QED  BY <2>3, <2>4
<1>9. K \in X
  <2>1. 0 .. K \subseteq X  BY <1>3, <1>7, <1>8, UpTo
  <2> QED  BY <1>3, <2>1
<1>10. Onward(N, f[K]) = f[K]
  <2>1. K \in 0 .. K /\ f[K] \in SUBSET D  BY <1>3, <1>4
  <2>2. CASE Cardinality(f[K]) >= K
    <3>1. Cardinality(f[K]) <= Cardinality(D)  BY <1>1, <2>1, FS_Subset
    <3>2. f[K] = D  BY <1>1, <1>2, <1>3, <1>5, <2>1, <2>2, <3>1, FS_Subset
    <3> QED  BY <1>1, <3>2 DEF Onward
  <2> QED  BY <1>6, <1>9, <2>2
<1>11. f[K] \subseteq D /\ f[0] \subseteq f[K]  BY <1>3, <1>4, <1>6, <1>9
<1>12. \A s \in f[K] : ~N[s].leaf => Pointers(N[s]) \cap D \subseteq f[K]
  BY <1>1, <1>10 DEF Onward
<1> QED  BY <1>1, <1>4, <1>11, <1>12

-----------------------------------------------------------------------------
(* What a search finds in an open tree: every block that can be read.      *)
Start == {root} \cup IF Pending THEN {split.right} ELSE {}

(* The ranges and heights of the tree, for a search.                       *)
Searched(dom, hgt) ==
  /\ dom \in [Readable -> SUBSET Keys] /\ hgt \in [Readable -> Nat]
  /\ \A k \in Keys : \E u \in Start : k \in dom[u] /\ hgt[u] = hgt[root]
  /\ \A s \in Readable : KeysOf(View[s]) \subseteq dom[s] /\ hgt[s] <= hgt[root]
  /\ \A s \in Readable : View[s].leaf <=> hgt[s] = 0
  /\ \A s \in Readable : ~View[s].leaf => \A c \in Pointers(View[s]) :
       /\ hgt[s] = hgt[c] + 1
       /\ \A k \in Keys : k \in dom[c] => k \in dom[s]
       /\ \A k \in dom[s] : Child(View[s], k) = c => \E u \in {c} \cup Start : k \in dom[u] /\ hgt[u] = hgt[c]
  /\ \A s, t \in Readable, k \in Keys : hgt[s] = hgt[t] /\ k \in dom[s] /\ k \in dom[t] => s = t

LEMMA Heights ==
  ASSUME StoreInv, Open, trusted
  PROVE  \E dom, hgt : Searched(dom, hgt)
<1>1. T!TypeOK /\ T!TreeInv /\ DOMAIN View = Readable /\ (Pending => Running)
  BY ViewIs DEF StoreInv, Trusted, T!TreeInv, Pending, Running
<1>2. PICK dom \in [Readable -> SUBSET Keys], hgt \in [Readable -> Nat] : T!Ranged(dom, hgt)
  BY <1>1 DEF T!TreeInv
<1>3. T!Pending <=> Pending  BY DEF T!Pending, Pending
<1>4. Pending => split.left \in Readable /\ split.right \in Readable  BY SplitKnown DEF Pending
<1>5. PICK h : h = IF split.left \in Readable /\ split.right \in Readable THEN split
                   ELSE [key |-> Least(Keys), left |-> root, right |-> root]
  OBVIOUS
<1>6. \A s : T!Joint(dom, s) = IF Pending /\ s = split.left THEN dom[s] \cup dom[split.right] ELSE dom[s]
  BY <1>3, <1>4 DEF T!Joint
<1>7. Pending => hgt[split.right] = hgt[split.left]
  BY <1>2, <1>3, <1>4 DEF T!Ranged, T!Leveled
<1>8. T!Inner = {s \in Readable : ~View[s].leaf}  BY <1>1 DEF T!Inner, T!Leaves
<1>9. /\ \A s \in Readable : KeysOf(View[s]) \subseteq dom[s] /\ hgt[s] <= hgt[root]
      /\ \A s \in Readable : View[s].leaf <=> hgt[s] = 0
  BY <1>1, <1>2, SameSets DEF T!Ranged, T!WellRanged, T!Leveled
<1>10. ASSUME NEW k \in Keys PROVE \E u \in Start : k \in dom[u] /\ hgt[u] = hgt[root]
  BY <1>2, <1>6, <1>7 DEF T!Ranged, T!WellRanged, Start
<1>11. ASSUME NEW s \in Readable, ~View[s].leaf, NEW c \in Pointers(View[s])
       PROVE  /\ hgt[s] = hgt[c] + 1
              /\ T!Joint(dom, c) = {k \in dom[s] : Child(View[s], k) = c}
  BY <1>2, <1>8, <1>11, SameAbove, SameChild DEF T!Ranged, T!WellRanged, T!Leveled
<1>12. ASSUME NEW s \in Readable, ~View[s].leaf, NEW c \in Pointers(View[s])
       PROVE  /\ \A k \in Keys : k \in dom[c] => k \in dom[s]
              /\ \A k \in dom[s] : Child(View[s], k) = c =>
                   \E u \in {c} \cup Start : k \in dom[u] /\ hgt[u] = hgt[c]
  BY <1>6, <1>7, <1>11, <1>12 DEF Start
<1>13. ASSUME NEW s \in Readable, NEW t \in Readable, NEW k \in Keys,
              hgt[s] = hgt[t], k \in dom[s], k \in dom[t]
       PROVE  s = t
  BY <1>1, <1>2, <1>13 DEF T!Ranged, T!Leveled
<1> QED  BY <1>2, <1>9, <1>10, <1>11, <1>12, <1>13 DEF Searched

(* A node has keys, unless it is the root.                                 *)
LEMMA NodeHasKey ==
  ASSUME T!KeyCounts, NEW s \in Readable, s # root
  PROVE  KeysOf(View[s]) # {}
<1>1. PICK n : n = View[s]  OBVIOUS
<1>2. T!HalfFull(n) /\ T!CountFits(n)  BY <1>1, ViewIs DEF T!KeyCounts
<1>3. Cardinality(KeysOf(n)) >= (MaxElements - 1) \div 2 /\ IsFiniteSet(KeysOf(n))
  BY <1>2, SameSets, SameCount DEF T!HalfFull, T!CountFits
<1>4. (MaxElements - 1) \div 2 >= 1  BY MaxElementsAssumption
<1>5. (MaxElements - 1) \div 2 \in Int /\ Cardinality(KeysOf(n)) \in Nat
  BY <1>3, MaxElementsAssumption, FS_CardinalityType
<1>6. Cardinality(KeysOf(n)) # 0  BY <1>3, <1>4, <1>5
<1> QED  BY <1>1, <1>6, FS_EmptySet

(* A pointer of the tree leads to a block that can be read.                *)
LEMMA PointersRead ==
  ASSUME T!TypeOK, NEW s \in Readable, ~View[s].leaf
  PROVE  Pointers(View[s]) \subseteq Readable
<1>1. PICK n : n = View[s]  OBVIOUS
<1>2. T!IsNode(n, Readable) /\ ~n.leaf  BY <1>1, ViewIs DEF T!TypeOK
<1>3. T!Pointers(n) \subseteq Readable  BY <1>2 DEF T!IsNode, T!Pointers
<1> QED  BY <1>1, <1>3, SameAbove

LEMMA FiniteRead == ASSUME Typed PROVE IsFiniteSet(Readable) /\ Readable \subseteq Slots
<1>1. Readable \subseteq Slots  BY DEF Typed, StoreTypeOK, Readable
<1> QED  BY <1>1, SlotsAssumption, FS_Subset

LEMMA InTreeIs ==
  ASSUME Typed
  PROVE  /\ InTree \subseteq Readable
         /\ Start \cap Readable \subseteq InTree
         /\ \A s \in InTree : ~View[s].leaf => Pointers(View[s]) \cap Readable \subseteq InTree
<1>1. PICK N : N = View  OBVIOUS
<1>2. DOMAIN N = Readable /\ IsFiniteSet(DOMAIN N)  BY <1>1, ViewIs, FiniteRead
<1>3. InTree = Walk(N, Start)  BY <1>1 DEF InTree, Start
<1> QED  BY <1>1, <1>2, <1>3, WalkIs

LEMMA AllInTree ==
  ASSUME StoreInv, Open, trusted
  PROVE  InTree = Readable
<1>1. Typed /\ T!TypeOK /\ T!KeyCounts  BY DEF StoreInv, Trusted, T!TreeInv
<1>2. Start \subseteq InTree
  <2>1. root \in Readable  BY <1>1, ViewIs DEF T!TypeOK
  <2>2. Pending => split.right \in Readable  BY SplitKnown DEF Pending
  <2> QED  BY <1>1, <2>1, <2>2, InTreeIs DEF Start
<1>3. PICK dom, hgt : Searched(dom, hgt)  BY Heights
<1>4. hgt \in [Readable -> Nat] /\ dom \in [Readable -> SUBSET Keys]  BY <1>3 DEF Searched
<1>5. ASSUME NEW t \in Readable, t # root PROVE t \in InTree
  <2>1. PICK k \in Keys : k \in dom[t]
    BY <1>1, <1>3, <1>4, <1>5, NodeHasKey DEF Searched
  <2>2. PICK H : H = {h \in Nat : h >= hgt[t] /\ \E u \in InTree : hgt[u] = h /\ k \in dom[u]}  OBVIOUS
  <2>3. H # {}
    <3>1. PICK u \in Start : k \in dom[u] /\ hgt[u] = hgt[root]  BY <1>3 DEF Searched
    <3>2. u \in InTree /\ u \in Readable /\ hgt[u] >= hgt[t]
      BY <1>1, <1>2, <1>3, <1>4, <3>1, InTreeIs DEF Searched
    <3> QED  BY <1>4, <2>2, <3>1, <3>2
  <2>4. PICK m \in H : \A y \in H : m <= y
    <3>1. H \in SUBSET Nat  BY <2>2
    <3> QED  BY <2>3, <3>1, Given, T!LeastNumber
  <2>5. PICK u \in InTree : hgt[u] = m /\ k \in dom[u]  BY <2>2, <2>4
  <2>6. u \in Readable /\ m \in Nat /\ m >= hgt[t] /\ hgt[t] \in Nat  BY <1>1, <1>4, <2>2, <2>4, InTreeIs
  <2>7. CASE m = hgt[t]
    <3>1. u = t  BY <1>3, <2>1, <2>5, <2>6, <2>7 DEF Searched
    <3> QED  BY <2>5, <3>1
  <2>8. CASE m # hgt[t]
    <3>1. ~View[u].leaf  BY <1>3, <2>5, <2>6, <2>8 DEF Searched
    <3>2. PICK c : c = Child(View[u], k)  OBVIOUS
    <3>3. c \in Readable /\ c \in Pointers(View[u])  BY <1>1, <2>6, <3>1, <3>2, ChildReadable
    <3>4. c \in InTree  BY <1>1, <2>5, <3>1, <3>3, InTreeIs
    <3>5. hgt[u] = hgt[c] + 1 /\ hgt[c] \in Nat  BY <1>3, <1>4, <2>6, <3>1, <3>3 DEF Searched
    <3>6. PICK x \in {c} \cup Start : k \in dom[x] /\ hgt[x] = hgt[c]
      BY <1>3, <2>5, <2>6, <3>1, <3>2, <3>3 DEF Searched
    <3>7. x \in InTree  BY <1>2, <3>4, <3>6
    <3>8. hgt[c] >= hgt[t] /\ ~(m <= hgt[c])  BY <2>5, <2>6, <2>8, <3>5
    <3>9. hgt[c] \in H  BY <2>2, <3>5, <3>6, <3>7, <3>8
    <3> QED  BY <2>4, <3>8, <3>9
  <2> QED  BY <2>7, <2>8
<1>6. root \in InTree  BY <1>2 DEF Start
<1> QED  BY <1>1, <1>5, <1>6, InTreeIs

(* The pairs that are found are those of the leaves.                       *)
LEMMA FoundIs ==
  ASSUME Typed
  PROVE  Found \subseteq PairsOf(View) /\ (InTree = Readable => Found = PairsOf(View))
<1>1. InTree \subseteq Readable  BY InTreeIs
<1>2. \A s \in Readable : Node(s) = View[s]  BY ViewIs
<1>3. LeavesOf(View) = {s \in Readable : View[s].leaf}  BY ViewIs DEF LeavesOf
<1>4. Found = UNION {{<<k, View[s].ent[k]>> : k \in KeysOf(View[s])} : s \in {t \in InTree : View[t].leaf}}
  BY <1>1, <1>2 DEF Found
<1>5. {t \in InTree : View[t].leaf} \subseteq LeavesOf(View)  BY <1>1, <1>3
<1> QED  BY <1>3, <1>4, <1>5 DEF PairsOf

LEMMA FoundWhole == ASSUME StoreInv, Open, trusted PROVE Found = PairsOf(View)
BY AllInTree, FoundIs DEF StoreInv

-----------------------------------------------------------------------------
(* Loads.                                                                  *)
SameFile == UNCHANGED <<file, header, blocks, saved, whole>>

LEMMA WholeKept == ASSUME StoreInv, SameFile PROVE whole' => Whole'
BY DEF StoreInv, Whole, FileView, SameFile

LEMMA NodesRead ==
  ASSUME Typed, NEW S \in SUBSET Readable, nodes' = [s \in DOMAIN nodes \cup S |-> Node(s)],
         UNCHANGED known
  PROVE  \A s \in DOMAIN nodes' :
           /\ s \in Readable /\ nodes'[s] = View[s]
           /\ Formed(nodes'[s]) /\ Inserted(nodes'[s], known') /\ KeysOf(nodes'[s]) \subseteq Keys
<1>1. ASSUME NEW s \in DOMAIN nodes' PROVE s \in Readable /\ nodes'[s] = View[s]
  BY ViewIs
<1>2. ASSUME NEW n, Inserted(n, known) PROVE Inserted(n, known')
  BY <1>2
<1> QED  BY <1>1, <1>2, ReadInserted

LEMMA LoadTyped ==
  ASSUME Typed, Ordered, Open, freed = {}, pc \in {"idle", "descend"}, NEW S \in SUBSET Readable,
         nodes' = [s \in DOMAIN nodes \cup S |-> Node(s)], bitmap' = bitmap \cup DOMAIN nodes',
         SameFile, UNCHANGED <<root, mKeyNum, pc, key, val, ret, toWrite, freed, known>>
  PROVE  Typed'
<1>1. DOMAIN nodes' = DOMAIN nodes \cup S /\ DOMAIN nodes' \subseteq Slots  BY FiniteRead, ViewIs
<1>2. \A s \in DOMAIN nodes' : Formed(nodes'[s]) /\ Inserted(nodes'[s], known') /\ KeysOf(nodes'[s]) \subseteq Keys
  BY NodesRead
<1>3. StoreTypeOK'
  BY <1>1, <1>2 DEF Typed, StoreTypeOK, SameFile, Open, Ordered
<1>4. \A s \in DOMAIN blocks' : Formed(blocks'[s]) /\ Inserted(blocks'[s], known')
  BY DEF Typed, Inserted, SameFile
<1> QED  BY <1>2, <1>3, <1>4 DEF Typed, Running

LEMMA LoadTrusted ==
  ASSUME StoreInv, Open, trusted, pc \in {"idle", "descend"}, NEW S \in SUBSET Readable,
         nodes' = [s \in DOMAIN nodes \cup S |-> Node(s)], bitmap' = bitmap \cup DOMAIN nodes',
         SameFile, UNCHANGED <<root, mKeyNum, pc, key, val, cur, path, split, ret, known>>
  PROVE  Trusted' /\ View' = View
<1>1. Trusted /\ Provided  BY DEF StoreInv, Trusted
<1>2. View' = View /\ Readable' = Readable  BY ViewLoad DEF SameFile
<1>3. T!TreeInv'
  <2>1. UNCHANGED T!vars  BY <1>2 DEF T!vars
  <2> QED  BY <1>1, <2>1, Given, T!StutterInv DEF Trusted
<1>4. DOMAIN nodes' = DOMAIN nodes \cup S /\ DOMAIN nodes' \subseteq Readable  BY ViewIs
<1>5. Provided'
  <2>1. Dense(Readable') /\ bitmap' \subseteq Readable' \cup {NoSlot}  BY <1>1, <1>2, <1>4 DEF Provided
  <2>2. SplitSafe'  BY <1>1, <1>2 DEF Provided, SplitSafe
  <2>3. (Running => AtHand)'  BY <1>1, <1>2, <1>4 DEF Provided, AtHand, Running
  <2> QED  BY <2>1, <2>2, <2>3 DEF Provided
<1> QED  BY <1>2, <1>3, <1>5 DEF Trusted

LEMMA LoadKeeps ==
  ASSUME StoreInv, Open, freed = {}, pc \in {"idle", "descend"}, NEW S \in SUBSET Readable,
         nodes' = [s \in DOMAIN nodes \cup S |-> Node(s)], bitmap' = bitmap \cup DOMAIN nodes',
         UNCHANGED <<root, mKeyNum, pc, busy, disk, toWrite, freed, history>>
  PROVE  StoreInv' /\ View' = View
<1>1. SameFile /\ UNCHANGED <<key, val, cur, path, split, ret, known, trusted>>
  BY DEF SameFile, busy, disk, history
<1>2. Typed' /\ (trusted => Trusted')  BY <1>1, LoadTyped, LoadTrusted DEF StoreInv
<1>3. Ordered'  BY <1>1 DEF StoreInv, Ordered, Open, SameFile
<1>4. whole' => Whole'  BY <1>1, WholeKept
<1>5. View' = View  BY <1>1, ViewLoad DEF SameFile
<1> QED  BY <1>1, <1>2, <1>3, <1>4, <1>5 DEF StoreInv, Dense, SameFile

LEMMA LoadChildKeeps ==
  ASSUME StoreInv, LoadChild, UNCHANGED history
  PROVE  StoreInv' /\ View' = View /\ Open /\ trusted
<1>1. Open /\ trusted /\ freed = {} /\ Typed  BY DEF LoadChild, Open, StoreInv, Ordered
<1>2. {cur} \in SUBSET Readable  BY DEF LoadChild, Readable
<1>3. bitmap' = bitmap \cup DOMAIN nodes'
  <2>1. DOMAIN nodes' = DOMAIN nodes \cup {cur} /\ bitmap' = bitmap \cup {cur}  BY DEF LoadChild
  <2> QED  BY <1>1, <2>1 DEF Typed, StoreTypeOK
<1> QED  BY <1>1, <1>2, <1>3, LoadKeeps DEF LoadChild

(* DumpTree.                                                               *)
LEMMA DumpKeeps ==
  ASSUME StoreInv, freed = {}, NEW lost \in SUBSET (DOMAIN blocks \ DOMAIN nodes), Dump(lost),
         UNCHANGED history
  PROVE  StoreInv' /\ View' = View /\ Open
<1>1. Open /\ Typed  BY DEF Dump, Open, StoreInv
<1>2. PICK N : N = Keep(View, Readable \ lost)  OBVIOUS
<1>3. DOMAIN N = Readable \ lost /\ IsFiniteSet(DOMAIN N)
  <2>1. DOMAIN N = Readable \ lost  BY <1>2 DEF Keep
  <2> QED  BY <1>1, <2>1, FiniteRead, FS_Subset
<1>4. PICK S : S = Walk(N, {root})  OBVIOUS
<1>5. S \in SUBSET Readable
  <2>1. Walk(N, {root}) \subseteq DOMAIN N  BY <1>3, WalkIs
  <2> QED  BY <1>3, <1>4, <2>1
<1>6. nodes' = [s \in DOMAIN nodes \cup S |-> Node(s)]  BY <1>2, <1>4 DEF Dump
<1> QED  BY <1>1, <1>5, <1>6, LoadKeeps DEF Dump

(* The child of a descent cannot be read.                                  *)
LEMMA LoadFailsKeeps ==
  ASSUME StoreInv, LoadFails, UNCHANGED history
  PROVE  StoreInv' /\ View' = View /\ Open /\ trusted
<1>1. Open /\ trusted /\ freed = {} /\ Typed /\ toWrite = {} /\ Trusted /\ Provided
  BY DEF LoadFails, Open, StoreInv, Ordered, Trusted
<1>2. /\ SameFile /\ UNCHANGED <<key, val, cur, path, split, nodes, bitmap, root, mKeyNum, known, trusted, toWrite, freed>>
      /\ pc = "descend" /\ pc' = "idle" /\ ret' = FALSE
  BY DEF LoadFails, SameFile, tree, disk, history
<1>3. View' = View /\ Readable' = Readable  BY <1>2, ViewSame DEF SameFile
<1>4. T!TreeInv'
  <2>1. UNCHANGED T!tree  BY <1>2, <1>3 DEF T!tree
  <2>2. T!TreeInv  BY <1>1 DEF Trusted
  <2> QED  BY <1>2, <1>3, <2>1, <2>2, Given, T!Abandoned
<1>5. Provided'  BY <1>1, <1>2, <1>3 DEF Provided, SplitSafe, Running
<1>6. Typed'
  <2>1. StoreTypeOK'  BY <1>1, <1>2 DEF Typed, StoreTypeOK, SameFile, Open
  <2> QED  BY <1>1, <1>2, <2>1 DEF Typed, SameFile, Inserted
<1>7. Ordered'  BY <1>1, <1>2 DEF StoreInv, Ordered, Open, SameFile
<1>8. whole' => Whole'  BY <1>2, WholeKept
<1> QED  BY <1>1, <1>2, <1>3, <1>4, <1>5, <1>6, <1>7, <1>8 DEF StoreInv, Dense, SameFile, Trusted

-----------------------------------------------------------------------------
(* The caller asks for an insertion.                                       *)
LEMMA CallMapped ==
  ASSUME StoreInv, trusted, pc = "idle", NEW k \in Keys, NEW v \in Values, InsertCall(k, v), UNCHANGED blocks
  PROVE  T!TreeInv' /\ View' = View /\ Readable' = Readable
<1>1. T!TreeInv  BY DEF StoreInv, Trusted, Open
<1>2. /\ UNCHANGED <<nodes, bitmap, root, mKeyNum, split, ret>>
      /\ mKeyNum + 1 <= MaxKeyNum /\ pc' = "descend" /\ key' = k /\ val' = v /\ cur' = root /\ path' = <<>>
  BY DEF InsertCall, tree
<1>3. View' = View /\ Readable' = Readable  BY <1>2, ViewSame
<1>4. T!InsertCall(k, v)  BY <1>2, <1>3 DEF T!InsertCall, T!tree
<1> QED  BY <1>1, <1>3, <1>4, Given, T!InsertCallInv

LEMMA FullMapped ==
  ASSUME StoreInv, trusted, pc = "idle", InsertFull, UNCHANGED blocks
  PROVE  T!TreeInv' /\ View' = View /\ Readable' = Readable
<1>1. T!TreeInv  BY DEF StoreInv, Trusted, Open
<1>2. /\ UNCHANGED <<nodes, bitmap, root, mKeyNum, split, key, val, cur, path, pc>>
      /\ mKeyNum + 1 > MaxKeyNum /\ ret' = FALSE
  BY DEF InsertFull, tree
<1>3. View' = View /\ Readable' = Readable  BY <1>2, ViewSame
<1>4. T!InsertFull  BY <1>2, <1>3 DEF T!InsertFull, T!tree
<1> QED  BY <1>1, <1>3, <1>4, Given, T!InsertFullInv

(* The leaf that is searched has room, or every block is in the bitmap.    *)
LEMMA CallSafe ==
  ASSUME StoreInv, trusted, pc = "idle", NEW k \in Keys, MapKnown \/ Node(LeafFor(k)).keyNum < MaxElements
  PROVE  Readable \subseteq bitmap \/ View[Leads(View, k)[root]].keyNum < MaxElements
<1>1. CASE MapKnown
  <2>1. InTree = Readable  BY AllInTree DEF Open
  <2> QED  BY <1>1, <2>1 DEF MapKnown
<1>2. CASE Node(LeafFor(k)).keyNum < MaxElements
  <2>1. /\ T!TypeOK /\ T!KeyCounts /\ root \in Readable /\ Typed
    BY ViewIs DEF StoreInv, Trusted, T!TreeInv, T!TypeOK, Open
  <2>2. PICK dom, hgt : Searched(dom, hgt)  BY Heights DEF Open
  <2>3. PICK L : L = Leads(View, k)  OBVIOUS
  <2>4. \A s \in Readable : L[s] = IF View[s].leaf THEN s ELSE L[Child(View[s], k)]
    BY <2>1, <2>3, Leading
  <2>5. L[root] \in Readable
    <3>1. PICK X : X = {h \in Nat : \E s \in Readable : hgt[s] = h /\ L[s] \notin Readable}  OBVIOUS
    <3>2. ASSUME X # {} PROVE FALSE
      <4>1. PICK m \in X : \A y \in X : m <= y
        <5>1. X \in SUBSET Nat  BY <3>1
        <5> QED  BY <3>2, <5>1, Given, T!LeastNumber
      <4>2. PICK s \in Readable : hgt[s] = m /\ L[s] \notin Readable  BY <3>1, <4>1
      <4>3. ~View[s].leaf  BY <2>4, <4>2
      <4>4. PICK c : c = Child(View[s], k)  OBVIOUS
      <4>5. c \in Readable /\ c \in Pointers(View[s])  BY <2>1, <4>3, <4>4, ChildReadable
      <4>6. hgt[s] = hgt[c] + 1 /\ hgt[c] \in Nat  BY <2>2, <4>3, <4>5 DEF Searched
      <4>7. L[c] \notin Readable  BY <2>4, <4>2, <4>3, <4>4
      <4>8. hgt[c] \in X /\ ~(m <= hgt[c])  BY <3>1, <4>2, <4>5, <4>6, <4>7
      <4> QED  BY <4>1, <4>8
    <3>3. hgt[root] \in Nat  BY <2>1, <2>2 DEF Searched
    <3> QED  BY <2>1, <3>1, <3>2, <3>3
  <2>6. Node(L[root]) = View[L[root]]  BY <2>5, ViewIs
  <2> QED  BY <1>2, <2>3, <2>6 DEF LeafFor
<1> QED  BY <1>1, <1>2

LEMMA RequestKeeps ==
  ASSUME StoreInv, NEW k \in Keys, NEW v \in Values, MCRequest(k, v)
  PROVE  StoreInv' /\ View' = View /\ Open /\ trusted
<1>1. /\ pc = "idle" /\ trusted /\ freed = {} /\ toWrite = {} /\ Trusted /\ Provided /\ Typed /\ Ordered
      /\ Open
      /\ InsertCall(k, v) \/ InsertFull
  BY DEF MCRequest, Request, StoreInv, Open, Trusted, Ordered
<1>2. UNCHANGED <<file, header, blocks, toWrite, freed, saved, whole, trusted>>
  BY DEF MCRequest, Request, disk
<1>3. SameFile  BY <1>2 DEF SameFile
<1>4. known' = IF pc' = "descend" THEN known \cup {<<k, v>>} ELSE known  BY DEF MCRequest
<1>5. T!TreeInv' /\ View' = View /\ Readable' = Readable
  BY <1>1, <1>2, CallMapped, FullMapped
<1>6. UNCHANGED <<nodes, bitmap, root, mKeyNum>> /\ pc' \in {"idle", "descend"}
  BY <1>1 DEF InsertCall, InsertFull, tree
<1>7. \A n : Inserted(n, known) => Inserted(n, known')  BY <1>4 DEF Inserted
<1>8. Typed'
  <2>1. Basic'
    <3>1. T!TypeOK'  BY <1>5 DEF T!TreeInv
    <3> QED  BY <3>1, TreeTypesNext
  <2>2. StoreTypeOK'  BY <1>1, <1>2, <1>6 DEF Typed, StoreTypeOK, Open
  <2> QED  BY <1>1, <1>2, <1>6, <1>7, <2>1, <2>2 DEF Typed, Basic, Running
<1>9. Ordered'  BY <1>1, <1>2, <1>6 DEF Ordered, Open
<1>10. Provided'
  <2>1. CASE InsertCall(k, v)
    <3>1. pc' = "descend" /\ cur' = root /\ path' = <<>> /\ key' = k /\ val' = v
      BY <2>1 DEF InsertCall
    <3>2. root \in Readable  BY <1>1, ViewIs DEF Typed, StoreTypeOK
    <3>3. AtHand'  BY <1>4, <1>5, <3>1, <3>2 DEF AtHand
    <3>4. MapKnown \/ Node(LeafFor(k)).keyNum < MaxElements  BY DEF MCRequest
    <3>5. SplitSafe'  BY <1>1, <1>5, <1>6, <3>1, <3>4, CallSafe DEF SplitSafe
    <3> QED  BY <1>1, <1>5, <1>6, <3>1, <3>3, <3>5 DEF Provided
  <2>2. CASE InsertFull
    <3>1. pc' = "idle"  BY <1>1, <2>2 DEF InsertFull
    <3> QED  BY <1>1, <1>5, <1>6, <3>1 DEF Provided, SplitSafe, Running
  <2> QED  BY <1>1, <2>1, <2>2
<1>11. whole' => Whole'  BY <1>3, WholeKept
<1> QED  BY <1>1, <1>2, <1>5, <1>8, <1>9, <1>10, <1>11 DEF StoreInv, Dense, Trusted

-----------------------------------------------------------------------------
(* Open.                                                                   *)
LEMMA LowestKey == Least(Keys) \in Keys /\ Least(Values) \in Values
<1>1. Least(Keys) \in Keys
  <2>1. PICK x \in Keys : \A y \in Keys : x <= y  BY StoreAssumption
  <2> QED  BY <2>1 DEF Least
<1>2. Least(Values) \in Values
  <2>1. Values \in SUBSET Nat /\ Values # {}  BY ValuesAssumption, StoreAssumption
  <2>2. PICK x \in Values : \A y \in Values : x <= y  BY <2>1, Given, T!LeastNumber
  <2> QED  BY <2>2 DEF Least
<1> QED  BY <1>1, <1>2

(* The variables of the call, before the first one.                        *)
AtRest ==
  /\ pc = "idle"
  /\ key = Least(Keys) /\ val = Least(Values) /\ cur = NoSlot
  /\ path = <<>> /\ split = NoSplit /\ ret = TRUE
  /\ mKeyNum \in 0 .. MaxKeyNum

(* A new tree is one in the initial state.                                 *)
Fresh ==
  /\ AtRest
  /\ mKeyNum = 0
  /\ View = [s \in {FirstSlot} |-> EmptyLeaf]
  /\ root = FirstSlot

LEMMA NoSlotUnread == NoSlot \notin Slots BY SlotsAssumption DEF NoSlot

LEMMA FreshTree == Fresh => T!TreeInv
<1> SUFFICES ASSUME Fresh PROVE T!TreeInv  OBVIOUS
<1>1. Readable = {FirstSlot}  BY ViewIs DEF Fresh
<1>2. T!FirstSlot = FirstSlot /\ T!EmptyLeaf = EmptyLeaf /\ T!NoSlot = NoSlot
  BY SameSets DEF T!FirstSlot, FirstSlot
<1>3. cur \in Readable => cur = FirstSlot  BY <1>1
<1>4. split.left \in Readable => split.left = FirstSlot  BY <1>1
<1>5. split.right \in Readable => split.right = FirstSlot  BY <1>1
<1>6. split = [key |-> key, left |-> NoSlot, right |-> NoSlot]  BY DEF Fresh, AtRest, NoSplit
<1>7. T!Init  BY <1>1, <1>2, <1>3, <1>4, <1>5, <1>6, LowestKey DEF Fresh, AtRest, T!Init
<1> QED  BY <1>7, Given, T!InitInv

(* A tree that was written whole is one between two calls.                 *)
Reopened == AtRest /\ GoodTree(View, root)

LEMMA WholeTree == Reopened => T!TreeInv
<1> SUFFICES ASSUME Reopened PROVE T!TreeInv  OBVIOUS
<1>1. DOMAIN View = Readable /\ AtRest /\ GoodTree(View, root)  BY ViewIs DEF Reopened
<1>2. Readable \subseteq Slots /\ NoSlot \notin Readable /\ root \in Readable
  BY <1>1, NoSlotUnread DEF GoodTree
<1>3. PICK dom \in [Readable -> SUBSET Keys], hgt \in [Readable -> Nat] : Spread(View, root, dom, hgt)
  BY <1>1 DEF GoodTree
<1>4. ~T!Pending /\ ~T!InTree /\ ~(pc = "commit") /\ pc = "idle"  BY <1>1 DEF AtRest, T!Pending, T!InTree
<1>5. T!Leaves = LeavesOf(View) /\ T!Inner = Readable \ LeavesOf(View)
  BY <1>1 DEF T!Leaves, LeavesOf, T!Inner
<1>6. split.left = NoSlot  BY <1>1 DEF AtRest, NoSplit
<1>7. ASSUME NEW s \in Readable
      PROVE  T!IsNode(View[s], Readable) /\ T!CountFits(View[s]) /\ (s # root => T!HalfFull(View[s]))
  <2>1. PICK n : n = View[s]  OBVIOUS
  <2>2. IsNode(n, Readable) /\ CountFits(n) /\ (s # root => HalfFull(n))  BY <1>1, <2>1 DEF GoodTree
  <2>3. T!IsNode(n, Readable)  BY <2>2, SameSets DEF IsNode, T!IsNode
  <2>4. T!CountFits(n)  BY <2>2, SameSets, SameCount DEF CountFits, T!CountFits
  <2>5. HalfFull(n) => T!HalfFull(n)  BY SameSets, SameCount DEF HalfFull, T!HalfFull
  <2> QED  BY <2>1, <2>2, <2>3, <2>4, <2>5
<1>8. T!TypeOK
  <2>1. PICK c : c = IF cur \in Readable THEN cur ELSE root  OBVIOUS
  <2>2. PICK p : p = IF pc = "commit" THEN "idle" ELSE pc  OBVIOUS
  <2>3. PICK h : h = IF split.left \in Readable /\ split.right \in Readable THEN split
                     ELSE [key |-> Least(Keys), left |-> root, right |-> root]
    OBVIOUS
  <2>4. c \in Readable /\ p = "idle" /\ h \in [key : Keys, left : Readable, right : Readable]
    BY <1>2, <1>4, <1>6, <2>1, <2>2, <2>3, LowestKey
  <2>5. /\ key \in Keys /\ val \in Values /\ path \in Seq(Readable) /\ mKeyNum \in 0 .. MaxKeyNum
        /\ ret \in BOOLEAN
    BY <1>1, LowestKey DEF AtRest
  <2> QED  BY <1>1, <1>2, <1>7, <2>1, <2>2, <2>3, <2>4, <2>5, SameSets DEF T!TypeOK
<1>9. T!KeyCounts  BY <1>1, <1>7 DEF T!KeyCounts
<1>10. T!Admitted /\ T!LeftKept  BY <1>4 DEF T!Admitted, T!LeftKept
<1>11. T!InnerDistinct  BY <1>1, <1>5 DEF GoodTree, T!InnerDistinct
<1>12. T!Ranged(dom, hgt)
  <2>1. \A s : T!Joint(dom, s) = dom[s]  BY <1>4 DEF T!Joint
  <2>2. T!WellRanged(dom)
    BY <1>1, <1>3, <1>4, <1>5, <2>1, SameSets, SameAbove, SameChild DEF T!WellRanged, Spread
  <2>3. T!Leveled(hgt, dom)
    BY <1>1, <1>3, <1>4, <1>5, SameAbove DEF T!Leveled, Spread
  <2>4. T!Chained(dom)  BY <1>3, <1>5 DEF T!Chained, T!NextLeaf, Spread
  <2> QED  BY <1>1, <1>3, <1>4, <2>2, <2>3, <2>4 DEF T!Ranged, Spread
<1> QED  BY <1>1, <1>3, <1>4, <1>8, <1>9, <1>10, <1>11, <1>12 DEF T!TreeInv

LEMMA TreeNext == (Fresh \/ Reopened)' => T!TreeInv'
BY FreshTree, WholeTree, PTL

LEMMA BlankRest ==
  ASSUME Blank, pc' = "idle", mKeyNum' \in 0 .. MaxKeyNum, UNCHANGED busy
  PROVE  AtRest'
BY DEF Blank, AtRest, busy, NoSplit

LEMMA CreatesKeeps ==
  ASSUME StoreInv, OpenCreates, MCOpen
  PROVE  StoreInv' /\ View' = View /\ ~Open /\ ~Open'
<1>1. /\ ~Open /\ Blank /\ Typed /\ ~whole /\ blocks = NoNodes
      /\ pc' = "create" /\ file' = "empty" /\ trusted' = FALSE
      /\ UNCHANGED <<nodes, bitmap, root, mKeyNum, busy, header, blocks, toWrite, freed, saved, whole, known>>
  BY DEF OpenCreates, MCOpen, StoreInv, Ordered, Open
<1>2. UNCHANGED <<key, val, cur, path, split, ret>>  BY <1>1 DEF busy
<1>3. Typed'  BY <1>1, <1>2 DEF Typed, StoreTypeOK, Open, Inserted
<1>4. Ordered'  BY <1>1, <1>2 DEF Ordered, Open, Blank, NoSplit
<1>5. View' = View  BY <1>1, ViewSame
<1> QED  BY <1>1, <1>3, <1>4, <1>5 DEF StoreInv, Dense, Open

LEMMA FirstNode ==
  /\ Formed(EmptyLeaf) /\ KeysOf(EmptyLeaf) = {} /\ EmptyLeaf.leaf
  /\ \A K : Inserted(EmptyLeaf, K)
BY DEF EmptyLeaf, Formed, KeysOf, Inserted

LEMMA FirstKeeps ==
  ASSUME StoreInv, OpenFirst, MCOpen
  PROVE  StoreInv' /\ ~Open /\ ~whole /\ Open' /\ trusted' /\ PairsOf(View)' = {}
<1>0. header' \in [keyNum : 0 .. MaxKeyNum, root : Slots \cup {NoSlot}]
  <2>1. 0 \in 0 .. MaxKeyNum  BY MaxKeyNumAssumption
  <2> QED  BY <2>1 DEF OpenFirst
<1>1. /\ ~Open /\ Blank /\ Typed /\ ~whole /\ blocks = NoNodes
      /\ pc' = "idle" /\ file' = "headed" /\ trusted'
      /\ nodes' = [s \in {FirstSlot} |-> EmptyLeaf]
      /\ bitmap' = {NoSlot, FirstSlot} /\ root' = FirstSlot
      /\ UNCHANGED <<mKeyNum, busy, blocks, toWrite, freed, saved, whole, known>>
  BY DEF OpenFirst, MCOpen, StoreInv, Ordered, Open
<1>2. UNCHANGED <<key, val, cur, path, split, ret>>  BY <1>1 DEF busy
<1>3. FirstSlot \in Slots
  <2>1. T!FirstSlot \in Slots  BY Given, T!FirstSlotIsSlot
  <2> QED  BY <2>1, SameSets DEF T!FirstSlot, FirstSlot
<1>4. DOMAIN nodes' = {FirstSlot} /\ nodes'[FirstSlot] = EmptyLeaf  BY <1>1
<1>5. Readable' = {FirstSlot} /\ View' = [s \in {FirstSlot} |-> EmptyLeaf]
  <2>1. Readable' = {FirstSlot}  BY <1>1, <1>4 DEF Readable, NoNodes
  <2>2. View' = [s \in {FirstSlot} |-> Node(s)']  BY <2>1 DEF View
  <2>3. Node(FirstSlot)' = EmptyLeaf  BY <1>4 DEF Node, Cached
  <2> QED  BY <2>1, <2>2, <2>3
<1>6. T!TreeInv'
  <2>1. mKeyNum' = 0 /\ mKeyNum' \in 0 .. MaxKeyNum  BY <1>1, MaxKeyNumAssumption DEF Blank
  <2>2. AtRest'  BY <1>1, <2>1, BlankRest
  <2>3. Fresh'  BY <1>1, <1>5, <2>1, <2>2 DEF Fresh
  <2> QED  BY <2>3, TreeNext
<1>7. Typed'
  <2>1. StoreTypeOK'  BY <1>0, <1>1, <1>3, <1>4, FirstNode DEF Typed, StoreTypeOK, Blank, NoNodes
  <2> QED  BY <1>1, <1>2, <1>4, <2>1, FirstNode DEF Typed, NoNodes
<1>8. Ordered'  BY <1>1 DEF Ordered, Open, Blank
<1>9. Provided'
  <2>1. Dense(Readable')
    <3>1. Slots \in SUBSET Int /\ Slots # {} /\ T!IsFiniteSet(Slots)  BY SlotsAssumption, Given
    <3>2. \A y \in Slots : T!Least(Slots) <= y /\ T!Least(Slots) \in Slots  BY <3>1, Given, T!LeastExists
    <3>3. \A y \in Slots : FirstSlot <= y /\ y \in Int  BY <3>1, <3>2, SameSets DEF FirstSlot
    <3>4. \A y \in Slots : y <= FirstSlot => y = FirstSlot  BY <1>3, <3>3
    <3> QED  BY <1>5, <3>4 DEF Dense
  <2> QED  BY <1>1, <1>5, <2>1 DEF Provided, SplitSafe, Running
<1>10. Open' /\ Trusted'  BY <1>1, <1>6, <1>9 DEF Open, Trusted
<1>11. PairsOf(View)' = {}
  <2>1. PairsOf([s \in {FirstSlot} |-> EmptyLeaf]) = {}  BY FirstNode DEF PairsOf, LeavesOf
  <2> QED  BY <1>5, <2>1 DEF PairsOf, LeavesOf
<1>12. Dense(DOMAIN blocks')  BY <1>1 DEF Dense, NoNodes
<1> QED  BY <1>1, <1>7, <1>8, <1>10, <1>11, <1>12 DEF StoreInv

LEMMA ExistingKeeps ==
  ASSUME StoreInv, OpenExisting, MCOpen
  PROVE  StoreInv' /\ ~Open /\ Open' /\ (trusted' <=> whole) /\ View' = FileView /\ UNCHANGED <<saved, whole, known>>
<1>1. /\ ~Open /\ Blank /\ Typed /\ file = "headed" /\ header.root \in DOMAIN blocks
      /\ pc' = "idle" /\ trusted' = (pc' = "idle" /\ (file # "headed" \/ whole))
      /\ nodes' = [s \in {header.root} |-> GetNode(blocks[s])]
      /\ bitmap' = {NoSlot, header.root} /\ root' = header.root /\ mKeyNum' = header.keyNum
      /\ UNCHANGED <<busy, disk, toWrite, freed, saved, whole, known>>
  BY DEF OpenExisting, MCOpen, StoreInv, Ordered, Open
<1>2. UNCHANGED <<key, val, cur, path, split, ret>>  BY <1>1 DEF busy
<1>3. SameFile  BY <1>1 DEF SameFile, disk
<1>4. trusted' <=> whole  BY <1>1
<1>5. header.root \in Slots /\ header.keyNum \in 0 .. MaxKeyNum /\ DOMAIN blocks \subseteq Slots
  BY <1>1 DEF Typed, StoreTypeOK
<1>6. DOMAIN nodes' = {header.root} /\ nodes'[header.root] = GetNode(blocks[header.root])  BY <1>1
<1>7. View' = FileView /\ Readable' = DOMAIN blocks
  <2>1. Readable' = DOMAIN blocks  BY <1>1, <1>3, <1>6 DEF Readable, SameFile
  <2>2. View' = [s \in DOMAIN blocks |-> Node(s)']  BY <2>1 DEF View
  <2>3. \A s \in DOMAIN blocks : Node(s)' = GetNode(blocks[s])  BY <1>3, <1>6 DEF Node, Cached, SameFile
  <2> QED  BY <2>1, <2>2, <2>3 DEF FileView
<1>8. /\ Formed(nodes'[header.root]) /\ Inserted(nodes'[header.root], known')
      /\ KeysOf(nodes'[header.root]) \subseteq Keys
  BY <1>1, <1>6, GetNodeIs DEF Typed, StoreTypeOK
<1>9. Typed'
  <2>1. StoreTypeOK'  BY <1>1, <1>3, <1>5, <1>6, <1>8 DEF Typed, StoreTypeOK, Blank, SameFile
  <2> QED  BY <1>1, <1>2, <1>3, <1>5, <1>6, <1>8, <2>1 DEF Typed, SameFile
<1>10. Ordered'  BY <1>1, <1>3 DEF Ordered, Open, Blank, SameFile
<1>11. ASSUME whole PROVE Trusted'
  <2>1. GoodTree(View, root)'
    <3>1. GoodTree(FileView, header.root)  BY <1>11 DEF StoreInv, Whole
    <3>2. root' = header.root  BY <1>1
    <3> QED  BY <1>7, <3>1, <3>2
  <2>2. mKeyNum' \in 0 .. MaxKeyNum  BY <1>1, <1>5
  <2>3. AtRest'  BY <1>1, <2>2, BlankRest
  <2>4. Reopened'  BY <2>1, <2>3 DEF Reopened
  <2>5. T!TreeInv'  BY <2>4, TreeNext
  <2>6. Dense(Readable')  BY <1>7 DEF StoreInv
  <2> QED  BY <1>1, <1>7, <2>5, <2>6 DEF Trusted, Provided, SplitSafe, Running
<1>12. whole' => Whole'  BY <1>3, WholeKept
<1>13. Dense(DOMAIN blocks')  BY <1>3 DEF StoreInv, SameFile
<1> QED  BY <1>1, <1>4, <1>7, <1>9, <1>10, <1>11, <1>12, <1>13 DEF StoreInv, Open

LEMMA OpenFailsKeeps ==
  ASSUME StoreInv, OpenFails, MCOpen
  PROVE  StoreInv' /\ ~Open /\ ~Open'
<1>1. /\ ~Open /\ Blank /\ UNCHANGED <<nodes, bitmap, root, mKeyNum, pc, busy, disk, toWrite, freed>>
      /\ pc = "closed" /\ trusted' = FALSE /\ UNCHANGED <<saved, whole, known>>
  BY DEF OpenFails, MCOpen, StoreInv, Ordered, Open, storeVars, vars, busy
<1>2. SameFile /\ UNCHANGED <<key, val, cur, path, split, ret>>  BY <1>1 DEF SameFile, disk, busy
<1>3. Typed'  BY <1>1, <1>2 DEF StoreInv, Typed, StoreTypeOK, Inserted, Open, SameFile, Running
<1>4. Ordered'  BY <1>1, <1>2 DEF StoreInv, Ordered, Open, Blank, SameFile
<1>5. whole' => Whole'  BY <1>2, WholeKept
<1>6. Dense(DOMAIN blocks')  BY <1>2 DEF StoreInv, SameFile
<1> QED  BY <1>1, <1>3, <1>4, <1>5, <1>6 DEF StoreInv, Open

(* The process stops.                                                      *)
LEMMA StopKeeps ==
  ASSUME StoreInv, MCStop
  PROVE  StoreInv' /\ ~Open'
<1>1. /\ nodes' = NoNodes /\ bitmap' = {NoSlot} /\ root' = NoSlot /\ mKeyNum' = 0
      /\ pc' = "closed"
      /\ key' = Least(Keys) /\ val' = Least(Values) /\ cur' = NoSlot
      /\ path' = <<>> /\ split' = NoSplit /\ ret' = TRUE
      /\ toWrite' = {} /\ freed' = {}
      /\ trusted' = FALSE /\ UNCHANGED <<saved, whole, known>>
      /\ SameFile
  BY DEF MCStop, Stop, SameFile, disk
<1>2. Typed'
  <2>1. StoreTypeOK'  BY <1>1 DEF StoreInv, Typed, StoreTypeOK, NoNodes, Open, SameFile
  <2> QED  BY <1>1, <2>1, LowestKey, MaxKeyNumAssumption DEF StoreInv, Typed, NoNodes, SameFile
<1>3. Ordered'
  <2>1. Blank'  BY <1>1 DEF Blank, NoSplit, NoNodes
  <2> QED  BY <1>1, <2>1 DEF StoreInv, Ordered, Open, SameFile
<1>4. whole' => Whole'  BY <1>1, WholeKept
<1>5. Dense(DOMAIN blocks')  BY <1>1 DEF StoreInv, SameFile
<1> QED  BY <1>1, <1>2, <1>3, <1>4, <1>5 DEF StoreInv, Open

-----------------------------------------------------------------------------
(* Commit.                                                                 *)

(* A tree between two calls is a good one.                                 *)
LEMMA GoodBetween ==
  ASSUME StoreInv, trusted, pc \in {"idle", "commit"}
  PROVE  GoodTree(View, root)
<1>1. T!TreeInv /\ DOMAIN View = Readable /\ T!TypeOK /\ T!KeyCounts /\ T!InnerDistinct
  BY ViewIs DEF StoreInv, Trusted, Open, T!TreeInv
<1>2. ~T!Pending /\ T!Leaves = LeavesOf(View) /\ T!Inner = Readable \ LeavesOf(View)
  BY <1>1 DEF T!Pending, T!Leaves, T!Inner, LeavesOf
<1>3. PICK dom \in [Readable -> SUBSET Keys], hgt \in [Readable -> Nat] : T!Ranged(dom, hgt)
  BY <1>1 DEF T!TreeInv
<1>4. ASSUME NEW s \in Readable
      PROVE  IsNode(View[s], Readable) /\ CountFits(View[s]) /\ (s # root => HalfFull(View[s]))
  <2>1. PICK n : n = View[s]  OBVIOUS
  <2>2. T!IsNode(n, Readable) /\ T!CountFits(n) /\ (s # root => T!HalfFull(n))
    BY <1>1, <2>1 DEF T!TypeOK, T!KeyCounts
  <2>3. IsNode(n, Readable)  BY <2>2, SameSets DEF IsNode, T!IsNode
  <2>4. CountFits(n)  BY <2>2, SameSets, SameCount DEF CountFits, T!CountFits
  <2>5. T!HalfFull(n) => HalfFull(n)  BY SameSets, SameCount DEF HalfFull, T!HalfFull
  <2> QED  BY <2>1, <2>2, <2>3, <2>4, <2>5
<1>5. \A s \in Readable \ LeavesOf(View) : T!Distinct(View[s])  BY <1>1, <1>2 DEF T!InnerDistinct
<1>6. Spread(View, root, dom, hgt)
  <2>1. \A s : T!Joint(dom, s) = dom[s]  BY <1>2 DEF T!Joint
  <2>2. /\ dom[root] = Keys
        /\ \A s \in Readable : KeysOf(View[s]) \subseteq dom[s]
        /\ \A s \in Readable \ LeavesOf(View) : \A c \in Pointers(View[s]) :
             dom[c] = {k \in dom[s] : Child(View[s], k) = c}
    BY <1>1, <1>2, <1>3, <2>1, SameSets, SameAbove, SameChild DEF T!Ranged, T!WellRanged
  <2>3. /\ \A s \in Readable : hgt[s] <= hgt[root] /\ (View[s].leaf <=> hgt[s] = 0)
        /\ \A s \in Readable \ LeavesOf(View) : \A c \in Pointers(View[s]) : hgt[s] = hgt[c] + 1
        /\ \A s, t \in Readable : s # t /\ hgt[s] = hgt[t] => dom[s] \cap dom[t] = {}
    BY <1>1, <1>2, <1>3, SameAbove DEF T!Ranged, T!Leveled
  <2>4. T!Linked(LeavesOf(View), [s \in LeavesOf(View) |-> View[s].last], dom)
    BY <1>2, <1>3 DEF T!Ranged, T!Chained, T!NextLeaf
  <2> QED  BY <1>1, <2>2, <2>3, <2>4 DEF Spread
<1>7. Readable \subseteq Slots /\ root \in Readable  BY <1>1 DEF T!TypeOK
<1> QED  BY <1>1, <1>3, <1>4, <1>5, <1>6, <1>7 DEF GoodTree

(* Writing changes nothing in memory.                                      *)
LEMMA CommitTree ==
  ASSUME StoreInv, trusted, pc \in {"idle", "commit"}, pc' \in {"idle", "commit"},
         View' = View, Readable' = Readable, UNCHANGED <<tree, mKeyNum, busy>>
  PROVE  T!TreeInv'
<1>1. UNCHANGED <<root, mKeyNum, key, val, cur, path, split, ret>>  BY DEF tree, busy
<1>2. UNCHANGED T!vars  BY <1>1 DEF T!vars
<1>3. T!TreeInv  BY DEF StoreInv, Trusted, Open
<1> QED  BY <1>2, <1>3, Given, T!StutterInv

LEMMA HeaderKeeps ==
  ASSUME StoreInv, trusted, freed = {}, Exact, CommitHeader, whole' = FALSE, UNCHANGED <<saved, known, trusted>>
  PROVE  StoreInv' /\ View' = View /\ Open /\ Open'
<1>1. /\ pc = "idle" /\ pc' = "commit" /\ header' = [keyNum |-> mKeyNum, root |-> root]
      /\ toWrite' = DOMAIN nodes
      /\ UNCHANGED <<nodes, bitmap, root, mKeyNum, busy, file, blocks, freed>>
      /\ UNCHANGED tree
  BY DEF CommitHeader, tree
<1>2. UNCHANGED <<key, val, cur, path, split, ret>>  BY <1>1 DEF busy
<1>3. Open /\ Open' /\ Typed /\ Ordered /\ Provided /\ root \in Slots
  BY <1>1 DEF Open, StoreInv, Trusted, Typed, StoreTypeOK
<1>4. View' = View /\ Readable' = Readable  BY <1>1, ViewSame
<1>5. T!TreeInv'  BY <1>1, <1>4, CommitTree
<1>6. header' \in [keyNum : 0 .. MaxKeyNum, root : Slots \cup {NoSlot}]  BY <1>1, <1>3 DEF Typed
<1>7. Typed'
  <2>1. StoreTypeOK'  BY <1>1, <1>3, <1>6 DEF Typed, StoreTypeOK
  <2> QED  BY <1>1, <1>2, <1>3, <2>1 DEF Typed, Inserted
<1>8. Ordered'  BY <1>1, <1>3 DEF Ordered
<1>9. Committing'  BY <1>1 DEF Committing, Exact
<1>10. Provided'  BY <1>1, <1>3, <1>4, <1>9 DEF Provided, SplitSafe, Running
<1> QED  BY <1>1, <1>3, <1>4, <1>5, <1>7, <1>8, <1>10 DEF StoreInv, Dense, Trusted

LEMMA ZeroFormed == Formed(ZeroBlock) /\ KeysOf(ZeroBlock) = {} /\ \A K : Inserted(ZeroBlock, K)
BY DEF ZeroBlock, Formed, KeysOf, Inserted

LEMMA WriteKeeps ==
  ASSUME StoreInv, NEW s \in Slots, CommitNode(s), UNCHANGED history
  PROVE  StoreInv' /\ View' = View /\ Open /\ trusted
<1>1. PICK B : B = DOMAIN blocks \cup {u \in Slots : u <= s}  OBVIOUS
<1>2. /\ pc = "commit" /\ pc' = "commit" /\ s \in toWrite /\ toWrite' = toWrite \ {s}
      /\ blocks' = [t \in B |-> IF t = s THEN nodes[s] ELSE IF t \in DOMAIN blocks THEN blocks[t] ELSE ZeroBlock]
      /\ UNCHANGED <<nodes, bitmap, root, mKeyNum, busy, file, header, freed>>
      /\ UNCHANGED tree /\ UNCHANGED <<saved, whole, known, trusted>>
  BY <1>1 DEF CommitNode, tree, history
<1>3. UNCHANGED <<key, val, cur, path, split, ret>>  BY <1>2 DEF busy
<1>4. Open /\ trusted /\ Open' /\ Typed /\ Ordered /\ Provided /\ Committing /\ Trusted
  BY <1>2 DEF Open, StoreInv, Trusted, Ordered, Provided
<1>5. s \in DOMAIN nodes /\ DOMAIN nodes \subseteq Slots /\ DOMAIN blocks \subseteq Slots
  BY <1>2, <1>4 DEF Typed, StoreTypeOK
<1>6. DOMAIN blocks' = B /\ B \subseteq Slots /\ s \in B /\ \A t \in B : t \in Readable
  <2>1. Dense(Readable) /\ s \in Readable  BY <1>4, <1>5, ViewIs DEF Provided
  <2>2. s <= s  BY <1>5, SlotsAssumption
  <2> QED  BY <1>1, <1>2, <1>5, <2>1, <2>2 DEF Dense, Readable
<1>7. View' = View /\ Readable' = Readable
  <2>1. Readable' = Readable  BY <1>1, <1>2, <1>6 DEF Readable
  <2>2. ASSUME NEW t \in Readable PROVE Node(t)' = Node(t)
    <3>1. CASE t \in DOMAIN nodes  BY <1>2, <3>1 DEF Node, Cached
    <3>2. CASE t \notin DOMAIN nodes
      <4>1. t \in DOMAIN blocks /\ t # s /\ t \in B  BY <1>1, <1>5, <3>2 DEF Readable
      <4> QED  BY <1>2, <3>2, <4>1 DEF Node, Cached
    <3> QED  BY <3>1, <3>2
  <2> QED  BY <2>1, <2>2 DEF View
<1>8. T!TreeInv'  BY <1>2, <1>4, <1>7, CommitTree
<1>9. \A t \in B : Formed(blocks'[t]) /\ Inserted(blocks'[t], known) /\ KeysOf(blocks'[t]) \subseteq Keys
  <2>1. \A t \in DOMAIN blocks : Formed(blocks[t]) /\ Inserted(blocks[t], known) /\ KeysOf(blocks[t]) \subseteq Keys
    BY <1>4 DEF Typed, StoreTypeOK
  <2>2. Formed(nodes[s]) /\ Inserted(nodes[s], known) /\ KeysOf(nodes[s]) \subseteq Keys
    BY <1>4, <1>5 DEF Typed, StoreTypeOK
  <2> QED  BY <1>2, <2>1, <2>2, ZeroFormed
<1>10. Typed'
  <2>1. StoreTypeOK'  BY <1>2, <1>4, <1>6, <1>9 DEF Typed, StoreTypeOK
  <2> QED  BY <1>2, <1>3, <1>4, <1>6, <1>9, <2>1 DEF Typed
<1>11. Ordered'  BY <1>2, <1>4 DEF Ordered
<1>12. Committing'
  <2>1. ASSUME NEW t \in DOMAIN nodes \ toWrite' PROVE t \in DOMAIN blocks' /\ blocks'[t] = nodes[t]
    BY <1>1, <1>2, <1>4, <1>6 DEF Committing
  <2> QED  BY <1>2, <1>4, <2>1 DEF Committing, Exact
<1>13. Provided'  BY <1>2, <1>4, <1>7, <1>12 DEF Provided, SplitSafe, Running
<1>14. Dense(DOMAIN blocks')
  <2>1. ASSUME NEW x \in B, NEW u \in Slots, u <= x PROVE u \in B
    <3>1. CASE x \in DOMAIN blocks  BY <1>1, <2>1, <3>1 DEF StoreInv, Dense
    <3>2. CASE x \notin DOMAIN blocks
      <4>1. x <= s /\ x \in Int /\ u \in Int /\ s \in Int  BY <1>1, <1>5, <1>6, <3>2, SlotsAssumption
      <4>2. u <= s  BY <2>1, <4>1
      <4> QED  BY <1>1, <4>2
    <3> QED  BY <3>1, <3>2
  <2> QED  BY <1>6, <2>1 DEF Dense
<1>15. ~whole'  BY <1>2, <1>4 DEF Committing
<1> QED  BY <1>4, <1>7, <1>8, <1>10, <1>11, <1>13, <1>14, <1>15 DEF StoreInv, Trusted

LEMMA CommitFailsKeeps ==
  ASSUME StoreInv, CommitFails, UNCHANGED history
  PROVE  StoreInv' /\ View' = View /\ Open /\ trusted
<1>1. /\ pc = "commit" /\ pc' = "idle" /\ toWrite' = {}
      /\ UNCHANGED <<nodes, bitmap, root, mKeyNum, busy, file, header, blocks, freed>>
      /\ UNCHANGED tree /\ UNCHANGED <<saved, whole, known, trusted>> /\ SameFile
  BY DEF CommitFails, tree, history, disk, SameFile
<1>2. UNCHANGED <<key, val, cur, path, split, ret>>  BY <1>1 DEF busy
<1>3. Open /\ trusted /\ Open' /\ Typed /\ Ordered /\ Provided
  BY <1>1 DEF Open, StoreInv, Trusted, Ordered
<1>4. View' = View /\ Readable' = Readable  BY <1>1, ViewSame
<1>5. T!TreeInv'  BY <1>1, <1>3, <1>4, CommitTree
<1>6. Typed'
  <2>1. StoreTypeOK'  BY <1>1, <1>3 DEF Typed, StoreTypeOK
  <2> QED  BY <1>1, <1>2, <1>3, <2>1 DEF Typed, Inserted
<1>7. Ordered'  BY <1>1, <1>3 DEF Ordered
<1>8. Provided'  BY <1>1, <1>3, <1>4 DEF Provided, SplitSafe, Running
<1>9. whole' => Whole'  BY <1>1, WholeKept
<1> QED  BY <1>1, <1>3, <1>4, <1>5, <1>6, <1>7, <1>8, <1>9 DEF StoreInv, Dense, Trusted

(* When everything is written the file reads as the tree did.              *)
LEMMA WrittenWhole ==
  ASSUME StoreInv, Open, trusted, pc = "commit", toWrite = {}
  PROVE  FileView = View /\ header.root = root
<1>1. Typed /\ Committing /\ T!KeyCounts  BY DEF StoreInv, Trusted, Provided, T!TreeInv
<1>2. Readable = DOMAIN blocks /\ \A s \in DOMAIN nodes : s \in DOMAIN blocks /\ blocks[s] = nodes[s]
  BY <1>1 DEF Committing, Readable
<1>3. ASSUME NEW s \in DOMAIN nodes PROVE GetNode(nodes[s]) = nodes[s]
  <2>1. PICK n : n = nodes[s]  OBVIOUS
  <2>2. Formed(n) /\ KeysOf(n) \subseteq Keys /\ n.keyNum = Cardinality(KeysOf(n))
    BY <1>1, <2>1 DEF Typed, StoreTypeOK, Committing, Exact
  <2>3. T!CountFits(n)  BY <1>1, <2>1, ViewIs DEF T!KeyCounts
  <2>4. IsFiniteSet(KeysOf(n)) /\ KeysOf(n) \subseteq Int
    BY <2>2, <2>3, SameSets, SameCount, KeysAssumption DEF T!CountFits
  <2> QED  BY <2>1, <2>2, <2>4, ExactRead
<1>4. \A s \in Readable : GetNode(blocks[s]) = View[s]  BY <1>2, <1>3, ViewIs
<1> QED  BY <1>1, <1>2, <1>4, ViewIs DEF FileView, View, Committing

LEMMA ReturnsKeeps ==
  ASSUME StoreInv, CommitReturns, saved' = Found, whole' = TRUE, UNCHANGED <<known, trusted>>
  PROVE  StoreInv' /\ View' = View /\ Open /\ trusted
<1>1. /\ pc = "commit" /\ pc' = "idle" /\ toWrite = {} /\ toWrite' = {} /\ freed' = DOMAIN nodes
      /\ UNCHANGED <<nodes, bitmap, root, mKeyNum, busy, file, header, blocks>>
      /\ UNCHANGED tree
  BY DEF CommitReturns, tree, disk
<1>2. UNCHANGED <<key, val, cur, path, split, ret>>  BY <1>1 DEF busy
<1>3. Open /\ trusted /\ Open' /\ Typed /\ Ordered /\ Provided
  BY <1>1 DEF Open, StoreInv, Trusted, Ordered
<1>4. View' = View /\ Readable' = Readable  BY <1>1, ViewSame
<1>5. T!TreeInv'  BY <1>1, <1>3, <1>4, CommitTree
<1>6. Typed'
  <2>1. StoreTypeOK'  BY <1>1, <1>3 DEF Typed, StoreTypeOK
  <2> QED  BY <1>1, <1>2, <1>3, <2>1 DEF Typed, Inserted
<1>7. Ordered'  BY <1>1, <1>3 DEF Ordered
<1>8. Provided'  BY <1>1, <1>3, <1>4 DEF Provided, SplitSafe, Running
<1>9. Whole'
  <2>1. FileView' = View /\ header'.root = root
    <3>1. FileView' = FileView  BY <1>1 DEF FileView
    <3> QED  BY <1>1, <1>3, <3>1, WrittenWhole
  <2>2. GoodTree(View, root)  BY <1>1, <1>3, GoodBetween
  <2>3. saved' = PairsOf(View)  BY <1>3, FoundWhole
  <2>4. file' = "headed"  BY <1>1, <1>3 DEF Ordered
  <2>5. Whole' = (file' = "headed" /\ GoodTree(FileView', header'.root) /\ saved' = PairsOf(FileView'))
    BY DEF Whole, GoodTree, Spread, PairsOf, LeavesOf, FileView
  <2> QED  BY <2>1, <2>2, <2>3, <2>4, <2>5
<1> QED  BY <1>1, <1>3, <1>4, <1>5, <1>6, <1>7, <1>8, <1>9 DEF StoreInv, Dense, Trusted

-----------------------------------------------------------------------------
(* The invariant is inductive.                                             *)
LEMMA InitKeeps == MCInit => StoreInv
<1> SUFFICES ASSUME MCInit PROVE StoreInv  OBVIOUS
<1>1. /\ nodes = NoNodes /\ bitmap = {NoSlot} /\ root = NoSlot /\ mKeyNum = 0
      /\ pc = "closed"
      /\ key = Least(Keys) /\ val = Least(Values) /\ cur = NoSlot
      /\ path = <<>> /\ split = NoSplit /\ ret = TRUE
      /\ toWrite = {} /\ freed = {} /\ file = "none"
      /\ header = [keyNum |-> 0, root |-> NoSlot] /\ blocks = NoNodes
      /\ whole = FALSE /\ trusted = FALSE
  BY DEF MCInit, StoreInit
<1>2. DOMAIN nodes = {} /\ DOMAIN blocks = {} /\ 0 \in 0 .. MaxKeyNum  BY <1>1, MaxKeyNumAssumption DEF NoNodes
<1>3. StoreTypeOK  BY <1>1, <1>2 DEF StoreTypeOK, Open
<1>4. Typed  BY <1>1, <1>2, <1>3, LowestKey DEF Typed
<1>5. Ordered  BY <1>1 DEF Ordered, Open, Blank
<1> QED  BY <1>1, <1>2, <1>4, <1>5 DEF StoreInv, Dense, Open

LEMMA StutterKeeps == ASSUME StoreInv, UNCHANGED mcvars PROVE StoreInv'
<1>1. /\ UNCHANGED <<nodes, bitmap, root, mKeyNum, pc, key, val, cur, path, split, ret>>
      /\ UNCHANGED <<file, header, blocks, toWrite, freed, saved, whole, known, trusted>>
  BY DEF mcvars, storeVars, vars, disk, history
<1>2. View' = View /\ Readable' = Readable  BY <1>1, ViewSame
<1>3. SameFile  BY <1>1 DEF SameFile
<1>4. Typed'
  <2>1. StoreTypeOK'  BY <1>1 DEF StoreInv, Typed, StoreTypeOK, Open
  <2> QED  BY <1>1, <2>1 DEF StoreInv, Typed, Inserted, Running
<1>5. Ordered'  BY <1>1 DEF StoreInv, Ordered, Open, Blank
<1>6. ASSUME Open, trusted PROVE Trusted'
  <2>1. UNCHANGED T!vars  BY <1>1, <1>2 DEF T!vars
  <2>2. T!TreeInv'  BY <1>6, <2>1, Given, T!StutterInv DEF StoreInv, Trusted
  <2>3. Provided'
    BY <1>1, <1>2, <1>6 DEF StoreInv, Trusted, Provided, SplitSafe, Running, AtHand, Committing, Exact
  <2> QED  BY <2>2, <2>3 DEF Trusted
<1>7. whole' => Whole'  BY <1>3, WholeKept
<1> QED  BY <1>1, <1>4, <1>5, <1>6, <1>7 DEF StoreInv, Dense, Open

LEMMA StepKeeps == ASSUME StoreInv, [SafeNext]_mcvars PROVE StoreInv'
<1>1. CASE MCOpen
  BY <1>1, CreatesKeeps, FirstKeeps, ExistingKeeps, OpenFailsKeeps DEF MCOpen
<1>2. CASE MCCommit
  <2>1. CASE trusted /\ freed = {} /\ Exact /\ CommitHeader /\ whole' = FALSE /\ UNCHANGED <<saved, known, trusted>>
    BY <2>1, HeaderKeeps
  <2>2. CASE CommitReturns /\ saved' = Found /\ whole' = TRUE /\ UNCHANGED <<known, trusted>>
    BY <2>2, ReturnsKeeps
  <2>3. CASE CommitFails /\ UNCHANGED history  BY <2>3, CommitFailsKeeps
  <2>4. ASSUME NEW s \in Slots, CommitNode(s), UNCHANGED history PROVE StoreInv'
    BY <2>4, WriteKeeps
  <2> QED  BY <1>2, <2>1, <2>2, <2>3, <2>4 DEF MCCommit
<1>3. CASE MCStop  BY <1>3, StopKeeps
<1>4. CASE MCRest
  <2>1. CASE InsertStep /\ UNCHANGED history
    <3>1. Running  BY <2>1, InsertFrame
    <3>2. Open /\ trusted  BY <3>1 DEF StoreInv, Ordered, Running, Open
    <3> QED  BY <2>1, <3>2, InsertKeeps
  <2>2. CASE LoadChild /\ UNCHANGED history  BY <2>2, LoadChildKeeps
  <2>3. CASE LoadFails /\ UNCHANGED history  BY <2>3, LoadFailsKeeps
  <2>4. ASSUME freed = {}, NEW lost \in SUBSET (DOMAIN blocks \ DOMAIN nodes), Dump(lost), UNCHANGED history
        PROVE  StoreInv'
    BY <2>4, DumpKeeps
  <2> QED  BY <1>4, <2>1, <2>2, <2>3, <2>4 DEF MCRest
<1>5. ASSUME NEW k \in Keys, NEW v \in Values, MCRequest(k, v) PROVE StoreInv'
  BY <1>5, RequestKeeps
<1>6. CASE UNCHANGED mcvars  BY <1>6, StutterKeeps
<1> QED  BY <1>1, <1>2, <1>3, <1>4, <1>5, <1>6 DEF SafeNext

(* In every state of every run that keeps to the safe uses, an open tree   *)
(* is a search tree on what can be read, and a committed file is one.      *)
THEOREM StoreInvariant == SafeSpec => []StoreInv
<1>1. MCInit => StoreInv  BY InitKeeps
<1>2. StoreInv /\ [SafeNext]_mcvars => StoreInv'  BY StepKeeps
<1> QED  BY <1>1, <1>2, PTL DEF SafeSpec

(* Every variable has its type in every state: the cached nodes have their *)
(* bits, and the root of an open tree is in the cache.                     *)
THEOREM StoreTyped == SafeSpec => []StoreTypeOK
<1>1. StoreInv => StoreTypeOK  BY DEF StoreInv, Typed
<1> QED  BY <1>1, StoreInvariant, PTL

-----------------------------------------------------------------------------
(* The blocks of the tree.                                                 *)

(* A node has one pointer more than it has keys.                           *)
LEMMA PointerCount ==
  ASSUME NEW n, T!Distinct(n), IsFiniteSet(KeysOf(n))
  PROVE  Cardinality(Pointers(n)) = Cardinality(KeysOf(n)) + 1
<1>1. PICK K : K = KeysOf(n)  OBVIOUS
<1>2. PICK P : P = {n.ent[k] : k \in K}  OBVIOUS
<1>3. PICK f : f = [k \in K |-> n.ent[k]]  OBVIOUS
<1>4. ExistsBijection(K, P)
  <2>1. \A j, k \in K : n.ent[j] = n.ent[k] => j = k  BY <1>1, SameSets DEF T!Distinct
  <2>2. f \in [K -> P]  BY <1>2, <1>3
  <2>3. \A j, k \in K : f[j] = f[k] => j = k  BY <1>3, <2>1
  <2>4. \A p \in P : \E k \in K : f[k] = p  BY <1>2, <1>3
  <2> QED  BY <2>2, <2>3, <2>4 DEF ExistsBijection, Bijection, Injection, Surjection, IsInjective
<1>5. IsFiniteSet(P) /\ Cardinality(P) = Cardinality(K)  BY <1>1, <1>4, FS_Bijection
<1>6. n.last \notin P  BY <1>1, <1>2, SameSets DEF T!Distinct
<1>7. Pointers(n) = P \cup {n.last}  BY <1>1, <1>2 DEF Pointers
<1> QED  BY <1>1, <1>5, <1>6, <1>7, FS_AddElement

LEMMA UsedOnce == ASSUME StoreInv PROVE BlocksUsedOnce
<1> SUFFICES ASSUME trusted, Open PROVE BlocksUsedOnce  BY DEF BlocksUsedOnce
<1>1. /\ InTree = Readable /\ T!KeyCounts /\ T!TypeOK /\ T!InnerDistinct /\ Typed
      /\ \A s \in Readable : Node(s) = View[s]
  BY AllInTree, ViewIs DEF StoreInv, Trusted, T!TreeInv
<1>2. PICK dom, hgt : Searched(dom, hgt)  BY Heights
<1>3. root \in Readable  BY <1>1, ViewIs DEF T!TypeOK
<1>4. ASSUME NEW s \in Readable, ~View[s].leaf, NEW c \in Pointers(View[s])
      PROVE  c \in Readable /\ c # root /\ hgt[s] = hgt[c] + 1
  <2>1. c \in Readable  BY <1>1, <1>4, PointersRead
  <2>2. hgt[s] = hgt[c] + 1 /\ hgt[s] <= hgt[root] /\ hgt[c] \in Nat  BY <1>2, <1>4, <2>1 DEF Searched
  <2> QED  BY <2>1, <2>2
<1>5. ASSUME NEW s \in Readable, ~View[s].leaf, NEW t \in Readable, ~View[t].leaf,
             NEW c, c \in Pointers(View[s]), c \in Pointers(View[t])
      PROVE  s = t
  <2>1. c \in Readable /\ c # root /\ hgt[s] = hgt[c] + 1 /\ hgt[t] = hgt[c] + 1  BY <1>4, <1>5
  <2>2. PICK k \in Keys : k \in dom[c]
    BY <1>1, <1>2, <2>1, NodeHasKey DEF Searched
  <2>3. k \in dom[s] /\ k \in dom[t]  BY <1>2, <1>5, <2>2 DEF Searched
  <2> QED  BY <1>2, <2>1, <2>3 DEF Searched
<1>6. ASSUME NEW s \in Readable, ~View[s].leaf
      PROVE  Cardinality(Pointers(View[s])) = Cardinality(KeysOf(View[s])) + 1
  <2>1. PICK n : n = View[s]  OBVIOUS
  <2>2. T!Distinct(n)  BY <1>1, <1>6, <2>1, ViewIs DEF T!InnerDistinct, T!Inner, T!Leaves
  <2>3. T!CountFits(n)  BY <1>1, <2>1, ViewIs DEF T!KeyCounts
  <2>4. IsFiniteSet(KeysOf(n))  BY <2>3, SameSets, SameCount DEF T!CountFits
  <2> QED  BY <2>1, <2>2, <2>4, PointerCount
<1> QED  BY <1>1, <1>4, <1>5, <1>6 DEF BlocksUsedOnce

(* No block is used twice: two pointers of an open tree never lead to the  *)
(* same node, in the cache or in the file, and none leads to the root      *)
(* (GetNewNodeSlot, Open, GetNode).                                        *)
THEOREM BlocksOnce == SafeSpec => []BlocksUsedOnce
<1>1. StoreInv => BlocksUsedOnce  BY UsedOnce
<1> QED  BY <1>1, StoreInvariant, PTL

-----------------------------------------------------------------------------
(* A file that holds a good tree can be read to the leaves.                *)
LEMMA ReadsOn ==
  ASSUME NEW N, NEW r, GoodTree(N, r), NEW f,
         f = [s \in DOMAIN N |-> N[s].leaf \/ \A c \in Pointers(N[s]) : c \in DOMAIN N /\ f[c]]
  PROVE  \A s \in DOMAIN N : f[s]
<1>1. PICK D : D = DOMAIN N  OBVIOUS
<1>2. PICK dom \in [D -> SUBSET Keys], hgt \in [D -> Nat] : Spread(N, r, dom, hgt)  BY <1>1 DEF GoodTree
<1>3. PICK X : X = {h \in Nat : \E s \in D : hgt[s] = h /\ ~f[s]}  OBVIOUS
<1>4. ASSUME X # {} PROVE FALSE
  <2>1. PICK m \in X : \A y \in X : m <= y
    <3>1. X \in SUBSET Nat  BY <1>3
    <3> QED  BY <1>4, <3>1, Given, T!LeastNumber
  <2>2. PICK s \in D : hgt[s] = m /\ ~f[s]  BY <1>3, <2>1
  <2>3. ~N[s].leaf /\ \E c \in Pointers(N[s]) : ~(c \in D /\ f[c])  BY <1>1, <2>2
  <2>4. PICK c \in Pointers(N[s]) : ~(c \in D /\ f[c])  BY <2>3
  <2>5. c \in D
    <3>1. IsNode(N[s], D)  BY <1>1, <2>2 DEF GoodTree
    <3> QED  BY <2>3, <2>4, <3>1 DEF IsNode, Pointers
  <2>6. hgt[s] = hgt[c] + 1 /\ hgt[c] \in Nat  BY <1>1, <1>2, <2>2, <2>3, <2>4, <2>5 DEF Spread, LeavesOf
  <2>7. ~f[c]  BY <2>4, <2>5
  <2>8. hgt[c] \in X  BY <1>3, <2>5, <2>6, <2>7
  <2>9. ~(m <= hgt[c])  BY <2>2, <2>6
  <2> QED  BY <2>1, <2>8, <2>9
<1> QED  BY <1>1, <1>2, <1>3, <1>4

LEMMA ReadsFrom ==
  ASSUME NEW N, NEW r, GoodTree(N, r)
  PROVE  \E f : f = [s \in DOMAIN N |-> N[s].leaf \/ \A c \in Pointers(N[s]) : c \in DOMAIN N /\ f[c]]
<1>1. PICK f : f = [s \in DOMAIN N |-> TRUE]  OBVIOUS
<1>2. ASSUME NEW s \in DOMAIN N
      PROVE  (N[s].leaf \/ \A c \in Pointers(N[s]) : c \in DOMAIN N /\ f[c]) = TRUE
  <2>1. IsNode(N[s], DOMAIN N)  BY DEF GoodTree
  <2>2. N[s].leaf \in BOOLEAN  BY <2>1 DEF IsNode
  <2>3. ~N[s].leaf => \A c \in Pointers(N[s]) : c \in DOMAIN N /\ f[c]
    BY <1>1, <2>1 DEF IsNode, Pointers
  <2> QED  BY <2>2, <2>3
<1> QED  BY <1>1, <1>2

LEMMA Readability == ASSUME StoreInv PROVE FileReadable
<1> SUFFICES ASSUME whole, ~Open PROVE FileReadable  BY DEF FileReadable
<1>1. GoodTree(FileView, header.root)  BY DEF StoreInv, Whole
<1>2. PICK N : N = FileView  OBVIOUS
<1>3. DOMAIN N = DOMAIN blocks /\ \A s \in DOMAIN blocks : N[s] = GetNode(blocks[s])  BY <1>2 DEF FileView
<1>4. header.root \in DOMAIN blocks  BY <1>1, <1>2, <1>3 DEF GoodTree
<1>5. \E f : f = [s \in DOMAIN blocks |-> LET b == GetNode(blocks[s])
                                          IN  b.leaf \/ \A c \in Pointers(b) : c \in DOMAIN blocks /\ f[c]]
  <2>1. PICK f : f = [s \in DOMAIN N |-> N[s].leaf \/ \A c \in Pointers(N[s]) : c \in DOMAIN N /\ f[c]]
    BY <1>1, <1>2, ReadsFrom
  <2> QED  BY <1>3, <2>1
<1>6. ASSUME NEW f, f = [s \in DOMAIN blocks |-> LET b == GetNode(blocks[s])
                                                 IN  b.leaf \/ \A c \in Pointers(b) : c \in DOMAIN blocks /\ f[c]]
      PROVE  f[header.root]
  <2>1. f = [s \in DOMAIN N |-> N[s].leaf \/ \A c \in Pointers(N[s]) : c \in DOMAIN N /\ f[c]]
    BY <1>3, <1>6
  <2>2. \A s \in DOMAIN N : f[s]  BY <1>1, <1>2, <2>1, ReadsOn
  <2> QED  BY <1>3, <1>4, <2>2
<1> QED  BY <1>4, <1>5, <1>6 DEF FileReadable

(* After a Commit that returned, the file can be read: Open finds the root *)
(* and every pointer on the way to a leaf leads to a block of the file.    *)
THEOREM CommittedReadable == SafeSpec => []FileReadable
<1>1. StoreInv => FileReadable  BY Readability
<1> QED  BY <1>1, StoreInvariant, PTL

-----------------------------------------------------------------------------
(* Every step is one of the durable store's.                               *)
LEMMA FoundSame ==
  ASSUME Typed, View' = View, UNCHANGED <<root, pc, split>>
  PROVE  Found' = Found /\ (Open' <=> Open)
<1>1. DOMAIN View = Readable /\ DOMAIN View' = Readable'  BY ViewIs, ViewNext
<1>2. InTree' = InTree  BY DEF InTree, Pending, Walk
<1>3. \A s \in Readable : Node(s)' = Node(s)
  <2>1. \A s \in Readable : View[s] = Node(s) /\ View'[s] = Node(s)'  BY <1>1 DEF View
  <2> QED  BY <2>1
<1>4. InTree \subseteq Readable  BY InTreeIs
<1> QED  BY <1>2, <1>3, <1>4 DEF Found, Open

FoundAll == Found = PairsOf(View)

LEMMA FoundTrusted == StoreInv /\ Open /\ trusted => FoundAll
BY FoundWhole DEF FoundAll

LEMMA FoundNext == (StoreInv /\ Open /\ trusted)' => Found' = PairsOf(View)'
<1>1. (StoreInv /\ Open /\ trusted)' => FoundAll'  BY FoundTrusted, PTL
<1> QED  BY <1>1 DEF FoundAll

LEMMA FoundKnown == StoreInv => Found \subseteq known
<1> SUFFICES ASSUME StoreInv PROVE Found \subseteq known  OBVIOUS
<1> QED  BY FoundIs, PairsInserted DEF StoreInv

LEMMA FoundKnownNext == StoreInv' => (Found \subseteq known)'
BY FoundKnown, PTL

(* What is found is never the mark of a tree that is not open.             *)
LEMMA FoundOpen == Found # Durable!Closed
<1>1. \A z \in Found : \E k, v : z = <<k, v>>  BY DEF Found
<1>2. \A k, v : <<k, v>> # <<>>  OBVIOUS
<1> QED  BY <1>1, <1>2 DEF Durable!Closed

LEMMA StoredIs ==
  /\ Open => Stored = Found /\ Stored # Durable!Closed
  /\ ~Open => Stored = Durable!Closed
BY FoundOpen DEF Stored, Durable!Closed

LEMMA StoredNext ==
  /\ Open' => Stored' = Found'
  /\ ~Open' => Stored' = Durable!Closed
BY DEF Stored, Durable!Closed

(* A step after which the same tree is read.                               *)
LEMMA KeptTree ==
  ASSUME StoreInv, StoreInv', Open, Open', trusted, trusted', View' = View
  PROVE  Stored' = Stored
<1>1. Found' = PairsOf(View)'  BY FoundNext
<1>2. PairsOf(View)' = PairsOf(View)  BY DEF PairsOf, LeavesOf
<1> QED  BY <1>1, <1>2, FoundWhole, StoredIs, StoredNext

LEMMA OpenDurable ==
  ASSUME StoreInv, MCOpen
  PROVE  [Durable!Next]_(Durable!vars)
<1>0. UNCHANGED <<saved, whole, known>>  BY DEF MCOpen
<1>1. CASE OpenCreates
  <2>1. Stored' = Stored  BY <1>1, CreatesKeeps, StoredIs, StoredNext
  <2> QED  BY <1>0, <2>1 DEF Durable!vars
<1>2. CASE OpenFails
  <2>1. Stored' = Stored  BY <1>2, OpenFailsKeeps, StoredIs, StoredNext
  <2> QED  BY <1>0, <2>1 DEF Durable!vars
<1>3. CASE OpenFirst
  <2>1. StoreInv' /\ ~Open /\ ~whole /\ Open' /\ trusted' /\ PairsOf(View)' = {}  BY <1>3, FirstKeeps
  <2>2. Stored' = {} /\ Stored = Durable!Closed  BY <2>1, FoundNext, StoredIs, StoredNext
  <2>3. Durable!Open  BY <1>0, <2>1, <2>2 DEF Durable!Open
  <2> QED  BY <2>3 DEF Durable!Next
<1>4. CASE OpenExisting
  <2>1. StoreInv' /\ ~Open /\ Open' /\ (trusted' <=> whole) /\ View' = FileView  BY <1>4, ExistingKeeps
  <2>2. Stored' = Found' /\ Stored = Durable!Closed  BY <2>1, StoredIs, StoredNext
  <2>3. CASE whole
    <3>1. Found' = PairsOf(View)'  BY <2>1, <2>3, FoundNext
    <3>2. PairsOf(View)' = PairsOf(FileView)  BY <2>1 DEF PairsOf, LeavesOf
    <3>3. saved = PairsOf(FileView)  BY <2>3 DEF StoreInv, Whole
    <3>4. Durable!Open  BY <1>0, <2>2, <2>3, <3>1, <3>2, <3>3 DEF Durable!Open
    <3> QED  BY <3>4 DEF Durable!Next
  <2>4. CASE ~whole
    <3>1. Found' \subseteq known'  BY <2>1, FoundKnownNext
    <3>2. Durable!Open  BY <1>0, <2>2, <2>4, <3>1 DEF Durable!Open
    <3> QED  BY <3>2 DEF Durable!Next
  <2> QED  BY <2>3, <2>4
<1> QED  BY <1>1, <1>2, <1>3, <1>4 DEF MCOpen

LEMMA CommitDurable ==
  ASSUME StoreInv, MCCommit
  PROVE  [Durable!Next]_(Durable!vars)
<1>1. CASE trusted /\ freed = {} /\ Exact /\ CommitHeader /\ whole' = FALSE /\ UNCHANGED <<saved, known, trusted>>
  <2>1. StoreInv' /\ View' = View /\ Open /\ Open' /\ trusted /\ trusted'  BY <1>1, HeaderKeeps
  <2>2. Stored' = Stored /\ Stored # Durable!Closed  BY <2>1, KeptTree, StoredIs
  <2>3. Durable!CommitBegins  BY <1>1, <2>2 DEF Durable!CommitBegins
  <2> QED  BY <2>3 DEF Durable!Next
<1>2. CASE CommitReturns /\ saved' = Found /\ whole' = TRUE /\ UNCHANGED <<known, trusted>>
  <2>1. StoreInv' /\ View' = View /\ Open /\ trusted /\ trusted'  BY <1>2, ReturnsKeeps
  <2>2. Open'  BY <1>2 DEF CommitReturns, Open
  <2>3. Stored' = Stored /\ Stored # Durable!Closed /\ Stored = Found  BY <2>1, <2>2, KeptTree, StoredIs
  <2>4. Durable!CommitEnds  BY <1>2, <2>3 DEF Durable!CommitEnds
  <2> QED  BY <2>4 DEF Durable!Next
<1>3. CASE CommitFails /\ UNCHANGED history
  <2>1. StoreInv' /\ View' = View /\ Open /\ trusted /\ trusted'  BY <1>3, CommitFailsKeeps DEF history
  <2>2. Open'  BY <1>3 DEF CommitFails, Open
  <2>3. Stored' = Stored  BY <2>1, <2>2, KeptTree
  <2> QED  BY <1>3, <2>3 DEF Durable!vars, history
<1>4. ASSUME NEW s \in Slots, CommitNode(s), UNCHANGED history
      PROVE  [Durable!Next]_(Durable!vars)
  <2>1. StoreInv' /\ View' = View /\ Open /\ trusted /\ trusted'  BY <1>4, WriteKeeps DEF history
  <2>2. Open'  BY <1>4 DEF CommitNode, Open
  <2>3. Stored' = Stored  BY <2>1, <2>2, KeptTree
  <2> QED  BY <1>4, <2>3 DEF Durable!vars, history
<1> QED  BY <1>1, <1>2, <1>3, <1>4 DEF MCCommit

LEMMA RestDurable ==
  ASSUME StoreInv, MCRest
  PROVE  [Durable!Next]_(Durable!vars)
<1>0. UNCHANGED <<saved, whole, known, trusted>>  BY DEF MCRest, history
<1>1. CASE InsertStep /\ UNCHANGED history
  <2>1. Running /\ (pc' = "idle" \/ Running')  BY <1>1, InsertFrame
  <2>2. Open /\ trusted /\ Open' /\ trusted'
    BY <1>0, <2>1 DEF StoreInv, Ordered, Running, Open
  <2>3. StoreInv'  BY <1>1, <2>2, InsertKeeps
  <2>4. Stored = PairsOf(View) /\ Stored' = PairsOf(View)' /\ Stored # Durable!Closed
    BY <2>2, <2>3, FoundWhole, FoundNext, StoredIs, StoredNext
  <2>5. \/ PairsOf(View)' = PairsOf(View)
        \/ /\ <<key, val>> \in known
           /\ PairsOf(View)' = {q \in PairsOf(View) : q[1] # key} \cup {<<key, val>>}
    BY <1>1, <2>2, InsertContents
  <2>6. CASE PairsOf(View)' = PairsOf(View)  BY <1>0, <2>4, <2>6 DEF Durable!vars
  <2>7. CASE /\ <<key, val>> \in known
             /\ PairsOf(View)' = {q \in PairsOf(View) : q[1] # key} \cup {<<key, val>>}
    <3>1. PICK p \in known : p = <<key, val>>  BY <2>7
    <3>2. Stored' = {q \in Stored : q[1] # p[1]} \cup {p}  BY <2>4, <2>7, <3>1
    <3>3. Durable!Insert  BY <1>0, <2>4, <3>2 DEF Durable!Insert
    <3> QED  BY <3>3 DEF Durable!Next
  <2> QED  BY <2>5, <2>6, <2>7
<1>2. CASE LoadChild /\ UNCHANGED history
  <2>1. View' = View /\ UNCHANGED <<root, pc, split>>  BY <1>2, LoadChildKeeps DEF LoadChild, busy
  <2>2. Stored' = Stored  BY <2>1, FoundSame DEF Stored, StoreInv
  <2> QED  BY <1>0, <2>2 DEF Durable!vars
<1>3. CASE LoadFails /\ UNCHANGED history
  <2>1. StoreInv' /\ View' = View /\ Open /\ trusted /\ trusted' /\ Open'
    BY <1>0, <1>3, LoadFailsKeeps DEF LoadFails, Open
  <2>2. Stored' = Stored  BY <2>1, KeptTree
  <2> QED  BY <1>0, <2>2 DEF Durable!vars
<1>4. ASSUME freed = {}, NEW lost \in SUBSET (DOMAIN blocks \ DOMAIN nodes), Dump(lost), UNCHANGED history
      PROVE  [Durable!Next]_(Durable!vars)
  <2>1. View' = View /\ UNCHANGED <<root, pc, split>>  BY <1>4, DumpKeeps DEF Dump, busy
  <2>2. Stored' = Stored  BY <2>1, FoundSame DEF Stored, StoreInv
  <2> QED  BY <1>0, <2>2 DEF Durable!vars
<1> QED  BY <1>1, <1>2, <1>3, <1>4 DEF MCRest

LEMMA RequestDurable ==
  ASSUME StoreInv, NEW k \in Keys, NEW v \in Values, MCRequest(k, v)
  PROVE  [Durable!Next]_(Durable!vars)
<1>1. StoreInv' /\ View' = View /\ Open /\ trusted /\ trusted' /\ UNCHANGED <<saved, whole>>
  BY RequestKeeps DEF MCRequest
<1>2. pc' \in {"idle", "descend"}  BY DEF MCRequest, Request, InsertCall, InsertFull
<1>3. Stored' = Stored /\ Stored # Durable!Closed  BY <1>1, <1>2, KeptTree, StoredIs DEF Open
<1>4. CASE pc' = "descend"
  <2>1. known' = known \cup {<<k, v>>}  BY <1>4 DEF MCRequest
  <2>2. PICK p \in Keys \X Values : p = <<k, v>>  OBVIOUS
  <2>3. Durable!Call  BY <1>1, <1>3, <2>1, <2>2 DEF Durable!Call
  <2> QED  BY <2>3 DEF Durable!Next
<1>5. CASE pc' # "descend"
  <2>1. known' = known  BY <1>5 DEF MCRequest
  <2> QED  BY <1>1, <1>3, <2>1 DEF Durable!vars
<1> QED  BY <1>4, <1>5

LEMMA StepDurable ==
  ASSUME StoreInv, [SafeNext]_mcvars
  PROVE  [Durable!Next]_(Durable!vars)
<1>1. CASE MCOpen  BY <1>1, OpenDurable
<1>2. CASE MCCommit  BY <1>2, CommitDurable
<1>3. CASE MCStop
  <2>1. Stored' = Durable!Closed  BY <1>3, StopKeeps, StoredNext
  <2>2. Durable!Stop  BY <1>3, <2>1 DEF Durable!Stop, MCStop
  <2> QED  BY <2>2 DEF Durable!Next
<1>4. CASE MCRest  BY <1>4, RestDurable
<1>5. ASSUME NEW k \in Keys, NEW v \in Values, MCRequest(k, v) PROVE [Durable!Next]_(Durable!vars)
  BY <1>5, RequestDurable
<1>6. CASE UNCHANGED mcvars
  <2>1. UNCHANGED <<nodes, blocks, root, pc, split, saved, whole, known>>
    BY <1>6 DEF mcvars, storeVars, vars, disk, history
  <2>2. View' = View  BY <2>1, ViewSame
  <2>3. Stored' = Stored  BY <2>1, <2>2, FoundSame DEF Stored, StoreInv
  <2> QED  BY <2>1, <2>3 DEF Durable!vars
<1> QED  BY <1>1, <1>2, <1>3, <1>4, <1>5, <1>6 DEF SafeNext

(* Insert, Commit, a process that stops, and Open on the file it leaves do *)
(* to the pairs what DurableStore says: what a completed Commit wrote is   *)
(* what the next Open finds, and nothing is found that was not inserted.   *)
THEOREM StoreIsDurable == SafeSpec => ImplementsDurable
<1>1. MCInit => Durable!Init
  <2> SUFFICES ASSUME MCInit PROVE Durable!Init  OBVIOUS
  <2>1. ~Open  BY DEF MCInit, StoreInit, Open
  <2> QED  BY <2>1, StoredIs DEF MCInit, Durable!Init
<1>2. StoreInv /\ [SafeNext]_mcvars => [Durable!Next]_(Durable!vars)  BY StepDurable
<1> QED  BY <1>1, <1>2, StoreInvariant, PTL DEF SafeSpec, ImplementsDurable, Durable!Spec
=============================================================================
