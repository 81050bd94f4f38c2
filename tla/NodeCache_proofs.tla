--------------------------- MODULE NodeCache_proofs ---------------------------
(***************************************************************************)
(* The node cache and its hash table, for every initial size, limit, bound *)
(* of the list and sequence of calls.                                      *)
(*                                                                         *)
(* The divisor fits the size of the table or the next Insert expands       *)
(* (FitInv); with it every pair stays in the bucket of its key and the     *)
(* load is bounded (TableInv), through every expansion; the list has no    *)
(* block twice (ListInv); and, where removals lose nothing and every pair  *)
(* is re-inserted, the list is the front of the history of the additions   *)
(* and the table holds its pairs (HistoryInv).                             *)
(*                                                                         *)
(* Functions that the model defines by recursion over 0 .. n are unfolded  *)
(* here: they exist (RecursionExists), and what holds of their values      *)
(* follows by induction up to n (UpTo).                                    *)
(***************************************************************************)
EXTENDS MCNodeCache, SequenceTheorems, FiniteSetTheorems, WellFoundedInduction, TLAPS

SizeInv == mTableSize \in Nat /\ mTableSize >= 2

FitInv == SizeInv /\ DivisorFits

(* The bucket of a block number is one of the table.                       *)
BucketInTable(id) == mCacher!Hash(id) \in 0 .. mTableSize - 1

(* An Insert that does not expand first stays inside the table.            *)
InsertInTable == ~ mCacher!Loaded => \A id \in Ids : BucketInTable(id)

(* A set of numbers that is not empty has a least one.                    *)
LEMMA LeastNumber ==
  ASSUME NEW S \in SUBSET Nat, S # {}
  PROVE  \E x \in S : \A y \in S : x <= y
<1>1. PICK x \in S : \A y \in S : <<y, x>> \notin OpToRel(<, Nat)
  BY NatLessThanWellFounded, WFMin
<1>2. \A y \in S : ~(y < x)  BY <1>1 DEF OpToRel
<1> QED  BY <1>2

(* Induction up to n, on the set of the numbers for which a fact holds.    *)
LEMMA UpTo ==
  ASSUME NEW n \in Nat, NEW S, 0 \in S, \A i \in 1 .. n : i - 1 \in S => i \in S
  PROVE  0 .. n \subseteq S
<1>1. SUFFICES ASSUME 0 .. n \ S # {} PROVE FALSE  OBVIOUS
<1>2. PICK m \in 0 .. n \ S : \A y \in 0 .. n \ S : m <= y
  <2>1. 0 .. n \ S \in SUBSET Nat  OBVIOUS
  <2> QED  BY ONLY <1>1, <2>1, LeastNumber
<1>3. m \in 1 .. n /\ m - 1 \in 0 .. n /\ ~ (m <= m - 1)  BY <1>2
<1> QED  BY <1>2, <1>3

(* The values of a function that is defined by recursion over 0 .. n.      *)
Steps(n, S) == [1 .. n -> [S -> S]]

Unfolds(g, n, S, f0, step) ==
  g \in [0 .. n -> S] /\ g[0] = f0 /\ \A i \in 1 .. n : g[i] = step[i][g[i - 1]]

(* Such a function exists.                                                 *)
LEMMA RecursionExists ==
  ASSUME NEW n \in Nat, NEW S, NEW f0 \in S, NEW step \in Steps(n, S)
  PROVE  \E g : Unfolds(g, n, S, f0, step)
<1>0. step \in [1 .. n -> [S -> S]]  BY DEF Steps
<1> DEFINE Good(m) == \E g \in [0 .. m -> S] :
             g[0] = f0 /\ \A i \in 1 .. m : g[i] = step[i][g[i - 1]]
<1>1. PICK D : D = {m \in 0 .. n : Good(m)}  OBVIOUS
<1>2. 0 \in D
  <2>1. PICK g : g = [i \in 0 .. 0 |-> f0]  OBVIOUS
  <2>2. g \in [0 .. 0 -> S] /\ g[0] = f0 /\ \A i \in 1 .. 0 : g[i] = step[i][g[i - 1]]
    BY <2>1
  <2>3. Good(0)  BY <2>2
  <2> QED  BY <1>1, <2>3
<1>3. ASSUME NEW m \in 1 .. n, m - 1 \in D PROVE m \in D
  <2>1. PICK g \in [0 .. m - 1 -> S] :
          g[0] = f0 /\ \A i \in 1 .. m - 1 : g[i] = step[i][g[i - 1]]
    BY <1>1, <1>3
  <2>2. PICK h : h = [i \in 0 .. m |-> IF i = m THEN step[m][g[m - 1]] ELSE g[i]]  OBVIOUS
  <2>3. g[m - 1] \in S /\ step[m][g[m - 1]] \in S  BY <1>0, <2>1
  <2>4. h \in [0 .. m -> S]  BY <2>1, <2>2, <2>3
  <2>5. h[0] = f0  BY <2>1, <2>2
  <2>6. ASSUME NEW i \in 1 .. m PROVE h[i] = step[i][h[i - 1]]
    <3>1. CASE i = m  BY <2>2, <3>1
    <3>2. CASE i # m
      <4>1. i \in 1 .. m - 1 /\ i - 1 \in 0 .. m /\ i - 1 # m  BY <3>2
      <4> QED  BY <2>1, <2>2, <4>1
    <3> QED  BY <3>1, <3>2
  <2>7. Good(m) /\ m \in 0 .. n  BY <2>4, <2>5, <2>6
  <2> QED  BY <1>1, <2>7
<1>4. n \in D
  <2>1. 0 .. n \subseteq D  BY <1>2, <1>3, UpTo
  <2> QED  BY <2>1
<1> QED  BY <1>1, <1>4 DEF Unfolds

(* There is a greatest prime below every size, and GetHashKey finds it: 1  *)
(* has no divisor between 2 and 0, so that it passes for one.              *)
LEMMA DivisorBelowSize ==
  ASSUME NEW n \in Nat, n >= 2
  PROVE  mCacher!HashKeyFor(n) \in 1 .. n - 1
<1>1. PICK S : S = {d \in 1 .. n - 1 : mCacher!IsPrime(n - d)}  OBVIOUS
<1>2. n - 1 \in S
  <2>1. mCacher!IsPrime(1)
    <3>1. 2 .. 1 - 1 = {}  OBVIOUS
    <3> QED  BY <3>1 DEF mCacher!IsPrime
  <2>2. n - (n - 1) = 1 /\ n - 1 \in 1 .. n - 1  OBVIOUS
  <2> QED  BY <1>1, <2>1, <2>2
<1>3. PICK d \in S : \A e \in S : d <= e
  <2>1. \A e \in S : e \in 1 .. n - 1  BY <1>1
  <2>2. \A e \in 1 .. n - 1 : e \in Nat  OBVIOUS
  <2>3. S \in SUBSET Nat  BY ONLY <2>1, <2>2
  <2>4. S # {}  BY <1>2
  <2> QED  BY <2>3, <2>4, LeastNumber
<1>4. PICK p : p = n - d  OBVIOUS
<1>5. d \in 1 .. n - 1 /\ p \in 1 .. n - 1 /\ mCacher!IsPrime(p)  BY <1>1, <1>3, <1>4
<1>6. ASSUME NEW q \in p + 1 .. n - 1 PROVE ~ mCacher!IsPrime(q)
  <2>1. PICK e : e = n - q  OBVIOUS
  <2>2. e \in 1 .. n - 1 /\ e < d /\ n - e = q /\ e \in Nat  BY <1>4, <1>5, <2>1
  <2>3. e \notin S  BY <1>3, <1>5, <2>2
  <2> QED  BY <1>1, <2>2, <2>3
<1> QED  BY <1>5, <1>6 DEF mCacher!HashKeyFor

(* Insert keeps the divisor in step with the size and the load.            *)
LEMMA InsertFits ==
  ASSUME FitInv, NEW id \in Ids, NEW node \in Nodes, mCacher!Insert(id, node)
  PROVE  FitInv'
<1>1. CASE mCacher!InsertInPlace(id, node)
  <2>1. ~ mCacher!Loaded /\ mTableSize' = mTableSize /\ mHashKey' = mHashKey
    BY <1>1 DEF mCacher!InsertInPlace
  <2>2. mHashKey = mCacher!HashKeyFor(mTableSize)
    BY <2>1 DEF FitInv, DivisorFits, mCacher!DivisorFits
  <2> QED  BY <2>1, <2>2 DEF FitInv, SizeInv, DivisorFits, mCacher!DivisorFits
<1>2. CASE mCacher!InsertExpanding(id, node)
  <2>1. mTableSize' = 2 * mTableSize /\ mHashKey' = mCacher!HashKeyFor(2 * mTableSize)
    BY <1>2 DEF mCacher!InsertExpanding, mCacher!GrownDivisor
  <2>2. mTableSize' \in Nat /\ mTableSize' >= 2
    <3>1. 2 * mTableSize \in Nat /\ 2 * mTableSize >= 2  BY DEF FitInv, SizeInv
    <3> QED  BY <2>1, <3>1
  <2>3. mHashKey' = mCacher!HashKeyFor(mTableSize')  BY <2>1
  <2> QED  BY <2>2, <2>3 DEF FitInv, SizeInv, DivisorFits, mCacher!DivisorFits
<1>3. CASE mCacher!InsertRefused(id, node)
  BY <1>3 DEF mCacher!InsertRefused, FitInv, SizeInv, DivisorFits, mCacher!DivisorFits, mCacher!Loaded
<1>4. CASE mCacher!InsertExpandFails(id, node)
  BY <1>4 DEF mCacher!InsertExpandFails, mCacher!GrownDivisor, FitInv, SizeInv, DivisorFits,
              mCacher!DivisorFits, mCacher!Loaded
<1> QED  BY <1>1, <1>2, <1>3, <1>4 DEF mCacher!Insert

(* The size, the divisor and the counter that a step does not touch.       *)
LEMMA SameFits ==
  ASSUME FitInv, UNCHANGED <<mTableSize, mHashKey, mItemNum>>
  PROVE  FitInv'
BY DEF FitInv, SizeInv, DivisorFits, mCacher!DivisorFits, mCacher!Loaded

(* Every call keeps them, also a removal with the wrong divisor.           *)
LEMMA CallFits == ASSUME FitInv, [Next]_vars PROVE FitInv'
<1>1. ASSUME NEW id \in Ids, NEW node \in Nodes, AddNode(node, id) PROVE FitInv'
  BY <1>1, InsertFits DEF AddNode
<1>2. ASSUME NEW id \in Ids, RemoveNode(id) PROVE FitInv'
  BY <1>2, SameFits DEF RemoveNode, mCacher!RemoveKey
<1>3. CASE Clear  BY <1>3, SameFits DEF Clear
<1>4. CASE UNCHANGED vars  BY <1>4, SameFits DEF vars
<1> QED  BY <1>1, <1>2, <1>3, <1>4 DEF Next

(* The constructor.                                                        *)
LEMMA InitFits == ASSUME Init PROVE FitInv
<1>1. mTableSize = InitSize /\ mHashKey = mCacher!HashKeyFor(InitSize)
  BY DEF Init, mCacher!Init
<1> QED  BY <1>1, InitSizeAssumption DEF FitInv, SizeInv, DivisorFits, mCacher!DivisorFits

(* The divisor belongs to the size of the table, except after an expansion *)
(* that failed: then the next Insert expands first.  This holds whatever   *)
(* is removed, also where removals lose pairs.                             *)
THEOREM DivisorAlwaysFits == Spec => []DivisorFits
<1>1. Init => FitInv  BY InitFits
<1>2. FitInv /\ [Next]_vars => FitInv'  BY CallFits
<1>3. FitInv => DivisorFits  BY DEF FitInv
<1> QED  BY <1>1, <1>2, <1>3, PTL DEF Spec

(* No Insert goes to a bucket outside the table.                           *)
THEOREM InsertsStayInTable == Spec => []InsertInTable
<1>1. Init => FitInv  BY InitFits
<1>2. FitInv /\ [Next]_vars => FitInv'  BY CallFits
<1>3. ASSUME FitInv PROVE InsertInTable
  <2>1. SUFFICES ASSUME ~ mCacher!Loaded, NEW id \in Ids PROVE BucketInTable(id)
    BY DEF InsertInTable
  <2>2. mHashKey = mCacher!HashKeyFor(mTableSize)
    BY <1>3, <2>1 DEF FitInv, DivisorFits, mCacher!DivisorFits
  <2>3. mTableSize \in Nat /\ mTableSize >= 2  BY <1>3 DEF FitInv, SizeInv
  <2>4. mHashKey \in 1 .. mTableSize - 1  BY <2>2, <2>3, DivisorBelowSize
  <2>5. id \in Nat  BY BlocksAssumption
  <2>6. PICK h : h = mHashKey  OBVIOUS
  <2>7. h \in Nat /\ h > 0 /\ h <= mTableSize - 1  BY <2>3, <2>4, <2>6
  <2>8. id % h \in 0 .. h - 1  BY <2>5, <2>7
  <2>9. id % h \in 0 .. mTableSize - 1  BY <2>3, <2>7, <2>8
  <2> QED  BY <2>6, <2>9 DEF BucketInTable, mCacher!Hash
<1> QED  BY <1>1, <1>2, <1>3, PTL DEF Spec

-----------------------------------------------------------------------------
Pairs == Ids \X Nodes

Without(S, k) == {p \in S : p[1] # k}

(* A chain with one pair for each of its keys.                             *)
OnePerKey(c) ==
  /\ c \in Seq(Pairs)
  /\ \A i, j \in DOMAIN c : c[i][1] = c[j][1] => i = j

(* What Insert makes of a chain.                                           *)
LEMMA PutPair ==
  ASSUME NEW c, OnePerKey(c), NEW k \in Ids, NEW v \in Nodes,
         NEW d, d = mCacher!PutInChain(c, k, v)
  PROVE  /\ OnePerKey(d)
         /\ ToSet(d) = Without(ToSet(c), k) \cup {<<k, v>>}
<1>1. c \in Seq(Pairs) /\ Len(c) \in Nat /\ DOMAIN c = 1 .. Len(c) /\ <<k, v>> \in Pairs
  BY LenProperties DEF OnePerKey, Pairs
<1>2. CASE mCacher!Positions(c, k) = {}
  <2>1. d = <<<<k, v>>>> \o c  BY <1>2 DEF mCacher!PutInChain
  <2>2. \A i \in DOMAIN c : c[i][1] # k  BY <1>2 DEF mCacher!Positions
  <2>3. PICK s : s = <<<<k, v>>>>  OBVIOUS
  <2>4. s \in Seq(Pairs) /\ Len(s) = 1 /\ s[1] = <<k, v>>  BY <1>1, <2>3
  <2>5. /\ d \in Seq(Pairs) /\ Len(d) = 1 + Len(c)
        /\ \A i \in 1 .. 1 + Len(c) : d[i] = IF i <= 1 THEN s[i] ELSE c[i - 1]
    BY <1>1, <2>1, <2>3, <2>4, ConcatProperties
  <2>6. DOMAIN d = 1 .. 1 + Len(c)  BY <2>5, LenProperties
  <2>7. d[1] = <<k, v>> /\ \A i \in 2 .. 1 + Len(c) : i - 1 \in DOMAIN c /\ d[i] = c[i - 1]
    BY <1>1, <2>4, <2>5
  <2>8. \A i \in DOMAIN d : i = 1 \/ i \in 2 .. 1 + Len(c)  BY <1>1, <2>6
  <2>9. \A i, j \in DOMAIN d : d[i][1] = d[j][1] => i = j
    <3>1. SUFFICES ASSUME NEW i \in DOMAIN d, NEW j \in DOMAIN d, d[i][1] = d[j][1] PROVE i = j
      OBVIOUS
    <3>2. CASE i = 1  BY <2>2, <2>7, <2>8, <3>1, <3>2
    <3>3. CASE j = 1  BY <2>2, <2>7, <2>8, <3>1, <3>3
    <3>4. CASE i # 1 /\ j # 1
      <4>1. i - 1 \in DOMAIN c /\ j - 1 \in DOMAIN c /\ c[i - 1][1] = c[j - 1][1] /\ i \in Int /\ j \in Int
        BY <1>1, <2>7, <2>8, <3>1, <3>4
      <4>2. i - 1 = j - 1  BY <4>1 DEF OnePerKey
      <4> QED  BY <4>1, <4>2
    <3> QED  BY <3>2, <3>3, <3>4
  <2>10. \A p \in ToSet(d) : p \in Without(ToSet(c), k) \cup {<<k, v>>}
    <3>1. SUFFICES ASSUME NEW i \in DOMAIN d
                   PROVE  d[i] \in Without(ToSet(c), k) \cup {<<k, v>>}
      BY DEF ToSet
    <3>2. CASE i = 1  BY <2>7, <3>2
    <3>3. CASE i # 1
      <4>1. i - 1 \in DOMAIN c /\ d[i] = c[i - 1]  BY <2>7, <2>8, <3>3
      <4> QED  BY <2>2, <4>1 DEF ToSet, Without
    <3> QED  BY <3>2, <3>3
  <2>11. \A p \in ToSet(c) : p \in ToSet(d)
    <3>1. SUFFICES ASSUME NEW i \in DOMAIN c PROVE c[i] \in ToSet(d)  BY DEF ToSet
    <3>2. i + 1 \in 2 .. 1 + Len(c) /\ (i + 1) - 1 = i  BY <1>1
    <3> QED  BY <2>6, <2>7, <3>2 DEF ToSet
  <2>12. <<k, v>> \in ToSet(d)  BY <1>1, <2>6, <2>7 DEF ToSet
  <2> QED  BY <2>5, <2>9, <2>10, <2>11, <2>12 DEF OnePerKey, Without
<1>3. CASE mCacher!Positions(c, k) # {}
  <2>1. d = [i \in DOMAIN c |-> IF c[i][1] = k THEN <<k, v>> ELSE c[i]]
    BY <1>3 DEF mCacher!PutInChain
  <2>2. PICK m \in DOMAIN c : c[m][1] = k  BY <1>3 DEF mCacher!Positions
  <2>3. \A i \in DOMAIN c : c[i] \in Pairs  BY <1>1
  <2>4. DOMAIN d = DOMAIN c /\ \A i \in DOMAIN c : d[i] = IF c[i][1] = k THEN <<k, v>> ELSE c[i]
    BY <2>1
  <2>5. d \in Seq(Pairs)
    <3>1. d \in [1 .. Len(c) -> Pairs]  BY <1>1, <2>1, <2>3
    <3> QED  BY <1>1, <3>1
  <2>6. \A i \in DOMAIN c : d[i][1] = c[i][1]  BY <2>4
  <2>7. OnePerKey(d)  BY <2>4, <2>5, <2>6 DEF OnePerKey
  <2>8. \A p \in ToSet(d) : p \in Without(ToSet(c), k) \cup {<<k, v>>}
    BY <2>4 DEF ToSet, Without
  <2>9. \A p \in Without(ToSet(c), k) : p \in ToSet(d)
    BY <2>4 DEF ToSet, Without
  <2>10. <<k, v>> \in ToSet(d)  BY <2>2, <2>4 DEF ToSet
  <2> QED  BY <2>7, <2>8, <2>9, <2>10
<1> QED  BY <1>2, <1>3

(* What RemoveKey makes of a chain: the pair goes, and no other one when   *)
(* it is not the head of a longer chain.                                   *)
LEMMA UnlinkPair ==
  ASSUME NEW c, OnePerKey(c), NEW k \in Ids, NEW d, d = mCacher!UnlinkFrom(c, k)
  PROVE  /\ OnePerKey(d)
         /\ ToSet(d) \subseteq Without(ToSet(c), k)
         /\ (c # <<>> /\ c[1][1] = k => Len(c) = 1) => ToSet(d) = Without(ToSet(c), k)
<1>1. c \in Seq(Pairs) /\ Len(c) \in Nat /\ DOMAIN c = 1 .. Len(c)
  BY LenProperties DEF OnePerKey
<1>2. CASE mCacher!Positions(c, k) = {}
  <2>1. d = c  BY <1>2 DEF mCacher!UnlinkFrom
  <2>2. \A i \in DOMAIN c : c[i][1] # k  BY <1>2 DEF mCacher!Positions
  <2>3. Without(ToSet(c), k) = ToSet(c)  BY <2>2 DEF Without, ToSet
  <2> QED  BY <2>1, <2>3
<1>3. CASE mCacher!Positions(c, k) # {} /\ c[1][1] = k
  <2>1. d = <<>>  BY <1>3 DEF mCacher!UnlinkFrom
  <2>2. ToSet(d) = {} /\ OnePerKey(d)
    <3>1. d \in Seq(Pairs) /\ DOMAIN d = {}  BY <2>1
    <3> QED  BY <3>1 DEF OnePerKey, ToSet
  <2>3. ASSUME Len(c) = 1 PROVE Without(ToSet(c), k) = {}
    BY <1>1, <1>3, <2>3 DEF Without, ToSet
  <2>4. c # <<>>  BY <1>3 DEF mCacher!Positions
  <2> QED  BY <1>3, <2>2, <2>3, <2>4
<1>4. CASE mCacher!Positions(c, k) # {} /\ c[1][1] # k
  <2>1. PICK S : S = mCacher!Positions(c, k)  OBVIOUS
  <2>2. S \in SUBSET Nat /\ S # {}  BY <1>1, <1>4, <2>1 DEF mCacher!Positions
  <2>3. PICK m : m = CHOOSE i \in S : \A j \in S : i <= j  OBVIOUS
  <2>4. m \in S  BY <2>2, <2>3, LeastNumber
  <2>5. m \in DOMAIN c /\ c[m][1] = k  BY <2>1, <2>4 DEF mCacher!Positions
  <2>6. d = RemoveAt(c, m)  BY <1>4, <2>1, <2>3 DEF mCacher!UnlinkFrom, mCacher!RemoveAt, RemoveAt
  <2>7. PICK a, b : a = SubSeq(c, 1, m - 1) /\ b = SubSeq(c, m + 1, Len(c))  OBVIOUS
  <2>8. m \in 1 .. Len(c) /\ m \in Int  BY <1>1, <2>5
  <2>9. a \in Seq(Pairs) /\ Len(a) = m - 1 /\ \A i \in 1 .. m - 1 : a[i] = c[i]
    <3>1. \A i \in 1 .. m - 1 : c[i] \in Pairs  BY <1>1, <2>8
    <3>2. 1 \in Int /\ m - 1 \in Int  BY <2>8
    <3>3. /\ a \in Seq(Pairs) /\ Len(a) = IF 1 <= m - 1 THEN (m - 1) - 1 + 1 ELSE 0
          /\ \A i \in 1 .. (m - 1) - 1 + 1 : a[i] = c[1 + i - 1]
      BY <2>7, <3>1, <3>2, SubSeqProperties
    <3> QED  BY <2>8, <3>3
  <2>10. b \in Seq(Pairs) /\ Len(b) = Len(c) - m /\ \A i \in 1 .. Len(c) - m : b[i] = c[m + i]
    <3>1. \A i \in m + 1 .. Len(c) : c[i] \in Pairs  BY <1>1, <2>8
    <3>2. m + 1 \in Int /\ Len(c) \in Int  BY <1>1, <2>8
    <3>3. /\ b \in Seq(Pairs) /\ Len(b) = IF m + 1 <= Len(c) THEN Len(c) - (m + 1) + 1 ELSE 0
          /\ \A i \in 1 .. Len(c) - (m + 1) + 1 : b[i] = c[(m + 1) + i - 1]
      BY <2>7, <3>1, <3>2, SubSeqProperties
    <3>4. Len(c) - (m + 1) + 1 = Len(c) - m /\ (~ (m + 1 <= Len(c)) => Len(c) - m = 0)
      <4>1. PICK n : n = Len(c)  OBVIOUS
      <4>2. n \in Nat /\ m \in Nat /\ m <= n  BY <1>1, <2>8, <4>1
      <4>3. n - (m + 1) + 1 = n - m /\ (~ (m + 1 <= n) => n - m = 0)  BY ONLY <4>2
      <4> QED  BY <4>1, <4>3
    <3>5. \A i \in 1 .. Len(c) - m : (m + 1) + i - 1 = m + i  BY <1>1, <2>8
    <3>6. Len(b) = Len(c) - m  BY <1>1, <2>8, <3>3, <3>4
    <3> QED  BY <3>3, <3>4, <3>5, <3>6
  <2>11. /\ d \in Seq(Pairs) /\ Len(d) = Len(c) - 1
         /\ \A i \in 1 .. Len(c) - 1 : d[i] = IF i <= m - 1 THEN a[i] ELSE b[i - (m - 1)]
    <3>1. d = a \o b  BY <2>6, <2>7 DEF RemoveAt
    <3>2. Len(a) + Len(b) = Len(c) - 1  BY <1>1, <2>8, <2>9, <2>10
    <3> QED  BY <2>9, <2>10, <3>1, <3>2, ConcatProperties
  <2>12. \A i \in 1 .. Len(c) - 1 : d[i] = IF i < m THEN c[i] ELSE c[i + 1]
    <3>1. SUFFICES ASSUME NEW i \in 1 .. Len(c) - 1 PROVE d[i] = IF i < m THEN c[i] ELSE c[i + 1]
      OBVIOUS
    <3>2. CASE i < m
      <4>1. i <= m - 1 /\ i \in 1 .. m - 1  BY <1>1, <2>8, <3>2
      <4> QED  BY <2>9, <2>11, <3>2, <4>1
    <3>3. CASE ~ (i < m)
      <4>1. ~ (i <= m - 1) /\ i - (m - 1) \in 1 .. Len(c) - m /\ m + (i - (m - 1)) = i + 1
        BY <1>1, <2>8, <3>3
      <4> QED  BY <2>10, <2>11, <3>3, <4>1
    <3> QED  BY <3>2, <3>3
  <2>13. DOMAIN d = 1 .. Len(c) - 1  BY <2>11, LenProperties
  <2>14. \A i, j \in DOMAIN d : d[i][1] = d[j][1] => i = j
    <3>1. SUFFICES ASSUME NEW i \in DOMAIN d, NEW j \in DOMAIN d, d[i][1] = d[j][1] PROVE i = j
      OBVIOUS
    <3>2. PICK p, q : p = (IF i < m THEN i ELSE i + 1) /\ q = (IF j < m THEN j ELSE j + 1)  OBVIOUS
    <3>3. p \in DOMAIN c /\ q \in DOMAIN c /\ d[i] = c[p] /\ d[j] = c[q]
      BY <1>1, <2>8, <2>12, <2>13, <3>2
    <3>4. p = q  BY <3>1, <3>3 DEF OnePerKey
    <3> QED  BY <1>1, <2>8, <2>13, <3>2, <3>4
  <2>15. \A p \in ToSet(d) : p \in Without(ToSet(c), k)
    <3>1. SUFFICES ASSUME NEW i \in DOMAIN d PROVE d[i] \in Without(ToSet(c), k)  BY DEF ToSet
    <3>2. PICK p : p = IF i < m THEN i ELSE i + 1  OBVIOUS
    <3>3. p \in DOMAIN c /\ d[i] = c[p] /\ p # m  BY <1>1, <2>8, <2>12, <2>13, <3>2
    <3>4. c[p][1] # k  BY <2>5, <3>3 DEF OnePerKey
    <3> QED  BY <3>3, <3>4 DEF ToSet, Without
  <2>16. \A p \in Without(ToSet(c), k) : p \in ToSet(d)
    <3>1. SUFFICES ASSUME NEW q \in DOMAIN c, c[q][1] # k PROVE c[q] \in ToSet(d)
      BY DEF ToSet, Without
    <3>2. PICK i : i = IF q < m THEN q ELSE q - 1  OBVIOUS
    <3>3. q # m /\ q \in 1 .. Len(c)  BY <1>1, <2>5, <3>1
    <3>4. i \in 1 .. Len(c) - 1 /\ (IF i < m THEN c[i] ELSE c[i + 1]) = c[q]
      BY <1>1, <2>8, <3>2, <3>3
    <3> QED  BY <2>12, <2>13, <3>4 DEF ToSet
  <2> QED  BY <2>11, <2>14, <2>15, <2>16 DEF OnePerKey
<1> QED  BY <1>2, <1>3, <1>4

(* A table of n chains in which h tells the bucket of every pair.          *)
Placed(t, n, h) ==
  /\ t \in [0 .. n - 1 -> Seq(Pairs)]
  /\ \A b \in 0 .. n - 1 :
       OnePerKey(t[b]) /\ \A i \in DOMAIN t[b] : t[b][i][1] % h = b

(* The pairs of a table are those of its chains.                           *)
LEMMA InSomeChain ==
  ASSUME NEW t, NEW D, DOMAIN t = D
  PROVE  \A p : p \in mCacher!Elements(t) <=> \E b \in D : p \in ToSet(t[b])
BY DEF mCacher!Elements, mCacher!ToSet, ToSet

(* Where the pairs of a table are.                                         *)
LEMMA TableElements ==
  ASSUME NEW t, NEW n, NEW h, Placed(t, n, h)
  PROVE  /\ \A p : p \in mCacher!Elements(t) <=> \E b \in 0 .. n - 1 : p \in ToSet(t[b])
         /\ \A p \in mCacher!Elements(t) : p \in Pairs /\ p[1] % h \in 0 .. n - 1
         /\ \A b \in 0 .. n - 1 : \A p \in ToSet(t[b]) : p[1] % h = b
         /\ \A p \in mCacher!Elements(t) : p \in ToSet(t[p[1] % h])
         /\ \A p, q \in mCacher!Elements(t) : p[1] = q[1] => p = q
<1>1. DOMAIN t = 0 .. n - 1 /\ \A b \in 0 .. n - 1 : OnePerKey(t[b]) /\ t[b] \in Seq(Pairs)
  BY DEF Placed, OnePerKey
<1>2. \A p : p \in mCacher!Elements(t) <=> \E b \in 0 .. n - 1 : p \in ToSet(t[b])
  BY <1>1 DEF mCacher!Elements, mCacher!ToSet, ToSet
<1>3. \A b \in 0 .. n - 1 : \A p \in ToSet(t[b]) : p[1] % h = b /\ p \in Pairs
  <2>1. SUFFICES ASSUME NEW b \in 0 .. n - 1, NEW i \in DOMAIN t[b]
                 PROVE  t[b][i][1] % h = b /\ t[b][i] \in Pairs
    BY DEF ToSet
  <2>2. i \in 1 .. Len(t[b])  BY <1>1, <2>1, LenProperties
  <2> QED  BY <1>1, <2>1, <2>2, ElementOfSeq DEF Placed
<1>4. \A p \in mCacher!Elements(t) : p \in ToSet(t[p[1] % h])  BY <1>2, <1>3
<1>5. \A p, q \in mCacher!Elements(t) : p[1] = q[1] => p = q
  <2>1. SUFFICES ASSUME NEW p \in mCacher!Elements(t), NEW q \in mCacher!Elements(t), p[1] = q[1]
                 PROVE  p = q
    OBVIOUS
  <2>2. PICK b \in 0 .. n - 1 : p \in ToSet(t[b])  BY <1>2
  <2>3. q \in ToSet(t[b])  BY <1>2, <1>3, <2>1, <2>2
  <2> QED  BY <1>1, <2>1, <2>2, <2>3 DEF OnePerKey, ToSet
<1> QED  BY <1>2, <1>3, <1>4, <1>5

(* One chain of a table replaced by another one.                           *)
LEMMA ChangeChain ==
  ASSUME NEW n, NEW h, NEW t, NEW b, NEW d, NEW u,
         Placed(t, n, h), b \in 0 .. n - 1, OnePerKey(d),
         \A p \in ToSet(d) : p[1] % h = b,
         DOMAIN u = 0 .. n - 1, u \in [0 .. n - 1 -> Seq(Pairs)],
         u[b] = d, \A c \in 0 .. n - 1 : c # b => u[c] = t[c]
  PROVE  /\ Placed(u, n, h)
         /\ \A p : p \in mCacher!Elements(u)
                   <=> (p \in mCacher!Elements(t) /\ p[1] % h # b) \/ p \in ToSet(d)
<1>1. u \in [0 .. n - 1 -> Seq(Pairs)] /\ u[b] = d /\ \A c \in 0 .. n - 1 : c # b => u[c] = t[c]
  OBVIOUS
<1>2. Placed(u, n, h)
  <2>1. ASSUME NEW c \in 0 .. n - 1
        PROVE  OnePerKey(u[c]) /\ \A i \in DOMAIN u[c] : u[c][i][1] % h = c
    <3>1. CASE c = b  BY <1>1, <3>1 DEF ToSet
    <3>2. CASE c # b  BY <1>1, <3>2 DEF Placed
    <3> QED  BY <3>1, <3>2
  <2> QED  BY <1>1, <2>1 DEF Placed
<1>3. \A p : p \in mCacher!Elements(u)
               <=> (p \in mCacher!Elements(t) /\ p[1] % h # b) \/ p \in ToSet(d)
  <2>1. /\ \A p : p \in mCacher!Elements(t) <=> \E c \in 0 .. n - 1 : p \in ToSet(t[c])
        /\ \A c \in 0 .. n - 1 : \A p \in ToSet(t[c]) : p[1] % h = c
    BY TableElements
  <2>2. \A p : p \in mCacher!Elements(u) <=> \E c \in 0 .. n - 1 : p \in ToSet(u[c])
    <3>1. DOMAIN u = 0 .. n - 1  BY <1>1
    <3> QED  BY <3>1, InSomeChain
  <2>3. b \in 0 .. n - 1 /\ u[b] = d /\ \A c \in 0 .. n - 1 : c # b => u[c] = t[c]
    BY <1>1
  <2>4. \A p \in ToSet(d) : p[1] % h = b  OBVIOUS
  <2>5. ASSUME NEW p, p \in mCacher!Elements(u)
        PROVE  (p \in mCacher!Elements(t) /\ p[1] % h # b) \/ p \in ToSet(d)
    <3>1. PICK c \in 0 .. n - 1 : p \in ToSet(u[c])  BY <2>2, <2>5
    <3>2. CASE c = b  BY <2>3, <3>1, <3>2
    <3>3. CASE c # b
      <4>1. p \in ToSet(t[c])  BY <2>3, <3>1, <3>3
      <4>2. p[1] % h # b /\ p \in mCacher!Elements(t)  BY <2>1, <3>3, <4>1
      <4> QED  BY <4>2
    <3> QED  BY <3>2, <3>3
  <2>6. ASSUME NEW p \in mCacher!Elements(t), p[1] % h # b PROVE p \in mCacher!Elements(u)
    <3>1. PICK c \in 0 .. n - 1 : p \in ToSet(t[c])  BY <2>1
    <3>2. c # b  BY <2>1, <2>6, <3>1
    <3> QED  BY <2>2, <2>3, <3>1, <3>2
  <2>7. ASSUME NEW p \in ToSet(d) PROVE p \in mCacher!Elements(u)
    BY <2>2, <2>3, <2>7
  <2> QED  BY <2>5, <2>6, <2>7
<1> QED  BY <1>2, <1>3

(* A divisor below the size leads to a bucket of the table.                *)
LEMMA BucketOf ==
  ASSUME NEW k \in Ids, NEW n \in Nat, NEW h \in 1 .. n - 1
  PROVE  k % h \in 0 .. n - 1
<1>1. k \in Nat /\ h \in Nat /\ h > 0 /\ h <= n - 1  BY BlocksAssumption
<1>2. k % h \in 0 .. h - 1  BY <1>1
<1> QED  BY <1>1, <1>2

PutAt(t, b, k, v) == [t EXCEPT ![b] = mCacher!PutInChain(@, k, v)]
UnlinkAt(t, b, k) == [t EXCEPT ![b] = mCacher!UnlinkFrom(@, k)]

(* What Insert makes of a table.                                           *)
LEMMA PutInTable ==
  ASSUME NEW n \in Nat, NEW h \in 1 .. n - 1, NEW t, Placed(t, n, h),
         NEW k \in Ids, NEW v \in Nodes, NEW u, u = PutAt(t, k % h, k, v)
  PROVE  /\ Placed(u, n, h)
         /\ mCacher!Elements(u) = Without(mCacher!Elements(t), k) \cup {<<k, v>>}
<1>1. PICK b : b = k % h  OBVIOUS
<1>2. b \in 0 .. n - 1  BY <1>1, BucketOf
<1>3. PICK d : d = mCacher!PutInChain(t[b], k, v)  OBVIOUS
<1>4. OnePerKey(t[b])  BY <1>2 DEF Placed
<1>5. OnePerKey(d) /\ ToSet(d) = Without(ToSet(t[b]), k) \cup {<<k, v>>}
  BY <1>3, <1>4, PutPair
<1>6. u = [t EXCEPT ![b] = d]  BY <1>1, <1>3 DEF PutAt
<1>7. /\ \A c \in 0 .. n - 1 : \A p \in ToSet(t[c]) : p[1] % h = c
      /\ \A p \in mCacher!Elements(t) : p \in ToSet(t[p[1] % h])
      /\ \A p : p \in mCacher!Elements(t) <=> \E c \in 0 .. n - 1 : p \in ToSet(t[c])
  BY TableElements
<1>8. \A p \in ToSet(d) : p[1] % h = b  BY <1>1, <1>2, <1>5, <1>7 DEF Without
<1>9. /\ Placed(u, n, h)
      /\ \A p : p \in mCacher!Elements(u)
                   <=> (p \in mCacher!Elements(t) /\ p[1] % h # b) \/ p \in ToSet(d)
  <2>1. OnePerKey(d)  BY <1>5
  <2>2. Placed(t, n, h)  OBVIOUS
  <2>3. u \in [0 .. n - 1 -> Seq(Pairs)] /\ DOMAIN u = 0 .. n - 1
    BY <1>6, <2>1, <2>2 DEF Placed, OnePerKey
  <2>4. u[b] = d /\ \A c \in 0 .. n - 1 : c # b => u[c] = t[c]
    BY <1>6, <1>2, <2>2 DEF Placed
  <2> QED  BY ONLY <1>2, <1>8, <2>1, <2>2, <2>3, <2>4, ChangeChain
<1>10. \A p \in mCacher!Elements(t) : p \in ToSet(t[b]) <=> p[1] % h = b  BY <1>2, <1>7
<1>11. \A p : p \in mCacher!Elements(u)
                <=> p \in Without(mCacher!Elements(t), k) \cup {<<k, v>>}
  BY <1>1, <1>2, <1>5, <1>7, <1>9, <1>10 DEF Without
<1> QED  BY <1>9, <1>11

(* What RemoveKey makes of a table.                                        *)
LEMMA UnlinkInTable ==
  ASSUME NEW n \in Nat, NEW h, NEW t, Placed(t, n, h),
         NEW k \in Ids, NEW b \in 0 .. n - 1,
         NEW u, u = UnlinkAt(t, b, k)
  PROVE  /\ Placed(u, n, h)
         /\ mCacher!Elements(u) \subseteq mCacher!Elements(t)
         /\ b = k % h => mCacher!Elements(u) \subseteq Without(mCacher!Elements(t), k)
         /\ b = k % h /\ (t[b] # <<>> /\ t[b][1][1] = k => Len(t[b]) = 1)
              => mCacher!Elements(u) = Without(mCacher!Elements(t), k)
<1>1. PICK d : d = mCacher!UnlinkFrom(t[b], k)  OBVIOUS
<1>2. OnePerKey(t[b])  BY DEF Placed
<1>3. /\ OnePerKey(d)
      /\ ToSet(d) \subseteq Without(ToSet(t[b]), k)
      /\ (t[b] # <<>> /\ t[b][1][1] = k => Len(t[b]) = 1) => ToSet(d) = Without(ToSet(t[b]), k)
  BY <1>1, <1>2, UnlinkPair
<1>4. u = [t EXCEPT ![b] = d]  BY <1>1 DEF UnlinkAt
<1>5. /\ \A c \in 0 .. n - 1 : \A p \in ToSet(t[c]) : p[1] % h = c
      /\ \A p \in mCacher!Elements(t) : p \in ToSet(t[p[1] % h])
      /\ \A p : p \in mCacher!Elements(t) <=> \E c \in 0 .. n - 1 : p \in ToSet(t[c])
  BY TableElements
<1>6. \A p \in ToSet(d) : p[1] % h = b  BY <1>3, <1>5 DEF Without
<1>7. /\ Placed(u, n, h)
      /\ \A p : p \in mCacher!Elements(u)
                   <=> (p \in mCacher!Elements(t) /\ p[1] % h # b) \/ p \in ToSet(d)
  <2>1. OnePerKey(d)  BY <1>3
  <2>2. Placed(t, n, h) /\ b \in 0 .. n - 1  OBVIOUS
  <2>3. u \in [0 .. n - 1 -> Seq(Pairs)] /\ DOMAIN u = 0 .. n - 1
    BY <1>4, <2>1, <2>2 DEF Placed, OnePerKey
  <2>4. u[b] = d /\ \A c \in 0 .. n - 1 : c # b => u[c] = t[c]
    BY <1>4, <2>2 DEF Placed
  <2> QED  BY ONLY <1>6, <2>1, <2>2, <2>3, <2>4, ChangeChain
<1>8. \A p \in mCacher!Elements(t) : p \in ToSet(t[b]) <=> p[1] % h = b  BY <1>5
<1>9. mCacher!Elements(u) \subseteq mCacher!Elements(t)
  BY <1>3, <1>5, <1>7 DEF Without
<1>10. ASSUME b = k % h, t[b] # <<>> /\ t[b][1][1] = k => Len(t[b]) = 1
       PROVE  mCacher!Elements(u) = Without(mCacher!Elements(t), k)
  BY <1>3, <1>5, <1>7, <1>8, <1>10 DEF Without
<1>11. ASSUME b = k % h PROVE mCacher!Elements(u) \subseteq Without(mCacher!Elements(t), k)
  BY <1>3, <1>5, <1>7, <1>8, <1>11 DEF Without
<1> QED  BY <1>7, <1>9, <1>10, <1>11

(* RemoveKey with any divisor: it leaves alone what it does not find.      *)
LEMMA UnlinkKey ==
  ASSUME NEW n \in Nat, NEW h, NEW t, Placed(t, n, h),
         NEW k \in Ids, NEW u, u = mCacher!Unlink(t, k)
  PROVE  /\ Placed(u, n, h)
         /\ mCacher!Elements(u) \subseteq mCacher!Elements(t)
         /\ mHashKey = h /\ h \in 1 .. n - 1
              => mCacher!Elements(u) \subseteq Without(mCacher!Elements(t), k)
<1>1. PICK b : b = mCacher!Hash(k)  OBVIOUS
<1>2. DOMAIN t = 0 .. n - 1  BY DEF Placed
<1>3. CASE b \in 0 .. n - 1
  <2>1. u = UnlinkAt(t, b, k)  BY <1>1, <1>2, <1>3 DEF mCacher!Unlink, UnlinkAt
  <2>2. mHashKey = h => b = k % h  BY <1>1 DEF mCacher!Hash
  <2> QED  BY <1>3, <2>1, <2>2, UnlinkInTable
<1>4. CASE b \notin 0 .. n - 1
  <2>1. u = t  BY <1>1, <1>2, <1>4 DEF mCacher!Unlink
  <2>2. ~ (mHashKey = h /\ h \in 1 .. n - 1)  BY <1>1, <1>4, BucketOf DEF mCacher!Hash
  <2> QED  BY <2>1, <2>2
<1> QED  BY <1>3, <1>4

(* The elements of two sequences put together.                             *)
LEMMA ConcatSet ==
  ASSUME NEW S, NEW a \in Seq(S), NEW b \in Seq(S)
  PROVE  \A p : p \in ToSet(a \o b) <=> p \in ToSet(a) \/ p \in ToSet(b)
<1>1. Len(a) \in Nat /\ Len(b) \in Nat /\ DOMAIN a = 1 .. Len(a) /\ DOMAIN b = 1 .. Len(b)
  BY LenProperties
<1>2. PICK c : c = a \o b  OBVIOUS
<1>3. /\ c \in Seq(S) /\ Len(c) = Len(a) + Len(b)
      /\ \A i \in 1 .. Len(a) + Len(b) : c[i] = IF i <= Len(a) THEN a[i] ELSE b[i - Len(a)]
  BY <1>2, ConcatProperties
<1>4. DOMAIN c = 1 .. Len(a) + Len(b)  BY <1>3, LenProperties
<1>5. ASSUME NEW i \in DOMAIN c PROVE c[i] \in ToSet(a) \/ c[i] \in ToSet(b)
  <2>1. CASE i <= Len(a)
    <3>1. i \in DOMAIN a /\ c[i] = a[i]  BY <1>1, <1>3, <1>4, <2>1
    <3> QED  BY <3>1 DEF ToSet
  <2>2. CASE ~ (i <= Len(a))
    <3>1. i - Len(a) \in DOMAIN b /\ c[i] = b[i - Len(a)]  BY <1>1, <1>3, <1>4, <2>2
    <3> QED  BY <3>1 DEF ToSet
  <2> QED  BY <2>1, <2>2
<1>6. ASSUME NEW i \in DOMAIN a PROVE a[i] \in ToSet(c)
  <2>1. i \in DOMAIN c /\ c[i] = a[i]  BY <1>1, <1>3, <1>4
  <2> QED  BY <2>1 DEF ToSet
<1>7. ASSUME NEW i \in DOMAIN b PROVE b[i] \in ToSet(c)
  <2>1. /\ i + Len(a) \in DOMAIN c /\ ~ (i + Len(a) <= Len(a)) /\ (i + Len(a)) - Len(a) = i
    BY <1>1, <1>4
  <2>2. c[i + Len(a)] = b[i]  BY <1>3, <1>4, <2>1
  <2> QED  BY <2>1, <2>2 DEF ToSet
<1>8. \A p \in ToSet(c) : p \in ToSet(a) \/ p \in ToSet(b)  BY <1>5 DEF ToSet
<1>9. \A p \in ToSet(a) : p \in ToSet(c)  BY <1>6 DEF ToSet
<1>10. \A p \in ToSet(b) : p \in ToSet(c)  BY <1>7 DEF ToSet
<1> QED  BY <1>2, <1>8, <1>9, <1>10

(* ExpandHashTable visits every pair of the table.                         *)
LEMMA VisitsAll ==
  ASSUME mTableSize \in Nat, NEW h, Placed(mTable, mTableSize, h)
  PROVE  /\ mCacher!AllPairs \in Seq(Pairs)
         /\ \A p : p \in ToSet(mCacher!AllPairs) <=> p \in mCacher!Elements(mTable)
<1> DEFINE n == mTableSize
           def(g) == [b \in 0 .. n |-> IF b = 0 THEN <<>> ELSE g[b - 1] \o mTable[b - 1]]
           upTo == CHOOSE g : g = def(g)
<1>1. \A b \in 1 .. n : b - 1 \in 0 .. n - 1 /\ mTable[b - 1] \in Seq(Pairs)
  BY DEF Placed
<1>2. \E g : g = def(g)
  <2>1. PICK step : step = [b \in 1 .. n |-> [s \in Seq(Pairs) |-> s \o mTable[b - 1]]]
    OBVIOUS
  <2>2. step \in Steps(n, Seq(Pairs))
    <3>1. ASSUME NEW b \in 1 .. n, NEW s \in Seq(Pairs) PROVE s \o mTable[b - 1] \in Seq(Pairs)
      BY <1>1, ConcatProperties
    <3> QED  BY <2>1, <3>1 DEF Steps
  <2>3. <<>> \in Seq(Pairs)  OBVIOUS
  <2>4. PICK g : Unfolds(g, n, Seq(Pairs), <<>>, step)  BY <2>2, <2>3, RecursionExists
  <2>5. ASSUME NEW i \in 0 .. n, i # 0 PROVE g[i] = g[i - 1] \o mTable[i - 1]
    <3>1. i \in 1 .. n /\ i - 1 \in 0 .. n  BY <2>5
    <3> QED  BY <2>1, <2>4, <3>1 DEF Unfolds
  <2>6. g = def(g)  BY <2>4, <2>5 DEF Unfolds
  <2> QED  BY <2>6
<1>3. upTo = def(upTo)  BY <1>2
<1>4. mCacher!AllPairs = upTo[n]  BY DEF mCacher!AllPairs
<1> HIDE DEF upTo
<1>5. upTo[0] = <<>> /\ \A b \in 1 .. n : upTo[b] = upTo[b - 1] \o mTable[b - 1]
  BY <1>3
<1> DEFINE Right(m) == /\ upTo[m] \in Seq(Pairs)
                       /\ \A p : p \in ToSet(upTo[m]) <=> \E b \in 0 .. m - 1 : p \in ToSet(mTable[b])
<1>6. PICK D : D = {m \in 0 .. n : Right(m)}  OBVIOUS
<1>7. 0 \in D
  <2>1. upTo[0] \in Seq(Pairs) /\ DOMAIN upTo[0] = {}  BY <1>5
  <2>2. ToSet(upTo[0]) = {} /\ 0 .. 0 - 1 = {}  BY <2>1 DEF ToSet
  <2> QED  BY <1>6, <2>1, <2>2
<1>8. ASSUME NEW m \in 1 .. n, m - 1 \in D PROVE m \in D
  <2>1. Right(m - 1) /\ m - 1 \in 0 .. n  BY <1>6, <1>8
  <2>2. upTo[m] = upTo[m - 1] \o mTable[m - 1] /\ mTable[m - 1] \in Seq(Pairs)  BY <1>1, <1>5
  <2>3. upTo[m] \in Seq(Pairs)  BY <2>1, <2>2, ConcatProperties
  <2>4. \A p : p \in ToSet(upTo[m]) <=> p \in ToSet(upTo[m - 1]) \/ p \in ToSet(mTable[m - 1])
    BY <2>1, <2>2, ConcatSet
  <2>5. \A b : b \in 0 .. m - 1 <=> b \in 0 .. (m - 1) - 1 \/ b = m - 1  OBVIOUS
  <2>6. Right(m)  BY <2>1, <2>3, <2>4, <2>5
  <2>7. m \in 0 .. n  OBVIOUS
  <2> QED  BY <1>6, <2>6, <2>7
<1>9. n \in D
  <2>1. 0 .. n \subseteq D  BY <1>7, <1>8, UpTo
  <2> QED  BY <2>1
<1>10. Right(n)  BY <1>6, <1>9
<1>11. DOMAIN mTable = 0 .. n - 1  BY DEF Placed
<1> QED  BY <1>4, <1>10, <1>11, InSomeChain

(* A table of empty chains.                                                *)
LEMMA NoPairs ==
  ASSUME NEW n, NEW h, NEW t, t = mCacher!EmptyTable(n)
  PROVE  Placed(t, n, h) /\ \A p : p \notin mCacher!Elements(t)
<1>1. t = [b \in 0 .. n - 1 |-> <<>>]  BY DEF mCacher!EmptyTable
<1>2. OnePerKey(<<>>) /\ DOMAIN <<>> = {} /\ <<>> \in Seq(Pairs)  BY DEF OnePerKey
<1>3. Placed(t, n, h)
  <2>1. t \in [0 .. n - 1 -> Seq(Pairs)]  BY <1>1, <1>2
  <2>2. \A b \in 0 .. n - 1 : t[b] = <<>>  BY <1>1
  <2>3. \A b \in 0 .. n - 1 : OnePerKey(t[b]) /\ \A i \in DOMAIN t[b] : t[b][i][1] % h = b
    BY <1>2, <2>2
  <2> QED  BY <2>1, <2>3 DEF Placed
<1>4. DOMAIN t = 0 .. n - 1 /\ \A b \in 0 .. n - 1 : ToSet(t[b]) = {}
  BY <1>1, <1>2 DEF ToSet
<1> QED  BY <1>3, <1>4, InSomeChain

(* Re-inserting the old pairs into a table twice as large keeps exactly    *)
(* those for which there is a node.                                        *)
LEMMA RehashKeeps ==
  ASSUME mTableSize \in Nat, mTableSize >= 2, NEW h, Placed(mTable, mTableSize, h), NEW kept
  PROVE  /\ Placed(mCacher!Rehash(kept), 2 * mTableSize, mCacher!GrownDivisor)
         /\ \A p : p \in mCacher!Elements(mCacher!Rehash(kept))
                     <=> p \in mCacher!Elements(mTable) /\ p \in kept
<1> DEFINE size == 2 * mTableSize
           d == mCacher!GrownDivisor
           pairs == mCacher!AllPairs
           again(table, p) ==
             IF p \notin kept THEN table
             ELSE [table EXCEPT ![p[1] % d] = mCacher!PutInChain(@, p[1], p[2])]
           def(g) == [n \in 0 .. Len(pairs) |->
                        IF n = 0 THEN mCacher!EmptyTable(size) ELSE again(g[n - 1], pairs[n])]
           after == CHOOSE g : g = def(g)
           Good == {t \in [0 .. size - 1 -> Seq(Pairs)] : Placed(t, size, d)}
<1>1. size \in Nat /\ d \in 1 .. size - 1
  <2>1. size \in Nat /\ size >= 2  OBVIOUS
  <2>2. mCacher!GrownDivisor = mCacher!HashKeyFor(size)  BY DEF mCacher!GrownDivisor
  <2> QED  BY <2>1, <2>2, DivisorBelowSize
<1>2. /\ pairs \in Seq(Pairs) /\ Len(pairs) \in Nat /\ DOMAIN pairs = 1 .. Len(pairs)
      /\ \A p : p \in ToSet(pairs) <=> p \in mCacher!Elements(mTable)
  BY VisitsAll, LenProperties
<1>3. /\ mCacher!EmptyTable(size) \in Good
      /\ \A p : p \notin mCacher!Elements(mCacher!EmptyTable(size))
  <2>1. PICK e : e = mCacher!EmptyTable(size)  OBVIOUS
  <2>2. Placed(e, size, d) /\ \A p : p \notin mCacher!Elements(e)  BY <2>1, NoPairs
  <2> QED  BY <2>1, <2>2 DEF Placed
<1> HIDE DEF size, d, pairs
<1>4. ASSUME NEW t \in Good, NEW p \in Pairs
      PROVE  /\ again(t, p) \in Good
             /\ \A q : q \in mCacher!Elements(again(t, p))
                         <=> \/ q \in mCacher!Elements(t) /\ ~ (p \in kept /\ q[1] = p[1])
                             \/ q = p /\ p \in kept
  <2>1. CASE p \notin kept  BY <2>1
  <2>2. CASE p \in kept
    <3>1. PICK k \in Ids, v \in Nodes : p = <<k, v>>  BY DEF Pairs
    <3>2. PICK u : u = PutAt(t, k % d, k, v)  OBVIOUS
    <3>3. u = again(t, p)  BY <2>2, <3>1, <3>2 DEF PutAt
    <3>4. Placed(t, size, d)  OBVIOUS
    <3>5. /\ Placed(u, size, d)
          /\ mCacher!Elements(u) = Without(mCacher!Elements(t), k) \cup {<<k, v>>}
      BY <1>1, <3>2, <3>4, PutInTable
    <3>6. u \in Good  BY <3>5 DEF Placed
    <3> QED  BY <2>2, <3>1, <3>3, <3>5, <3>6 DEF Without
  <2> QED  BY <2>1, <2>2
<1> HIDE DEF Good, again
<1>5. \E g : g = def(g)
  <2>1. PICK step : step = [n \in 1 .. Len(pairs) |-> [t \in Good |-> again(t, pairs[n])]]
    OBVIOUS
  <2>2. step \in Steps(Len(pairs), Good)
    <3>1. \A n \in 1 .. Len(pairs) : pairs[n] \in Pairs  BY <1>2
    <3> QED  BY <1>4, <2>1, <3>1 DEF Steps
  <2>3. PICK g : Unfolds(g, Len(pairs), Good, mCacher!EmptyTable(size), step)
    BY <1>2, <1>3, <2>2, RecursionExists
  <2>4. ASSUME NEW i \in 0 .. Len(pairs), i # 0 PROVE g[i] = again(g[i - 1], pairs[i])
    <3>1. i \in 1 .. Len(pairs) /\ i - 1 \in 0 .. Len(pairs)  BY <1>2, <2>4
    <3> QED  BY <2>1, <2>3, <3>1 DEF Unfolds
  <2>5. g = def(g)  BY <2>3, <2>4 DEF Unfolds
  <2> QED  BY <2>5
<1>6. after = def(after)  BY <1>5
<1>7. mCacher!Rehash(kept) = after[Len(pairs)]
  BY DEF mCacher!Rehash, again, size, d, pairs
<1> HIDE DEF after
<1>8. /\ after[0] = mCacher!EmptyTable(size)
      /\ \A n \in 1 .. Len(pairs) : after[n] = again(after[n - 1], pairs[n])
  BY <1>2, <1>6
<1> DEFINE Right(m) == /\ after[m] \in Good
                       /\ \A p : p \in mCacher!Elements(after[m])
                                   <=> p \in kept /\ \E i \in 1 .. m : pairs[i] = p
<1>9. PICK D : D = {m \in 0 .. Len(pairs) : Right(m)}  OBVIOUS
<1>10. 0 \in D
  <2>1. Right(0)  BY <1>3, <1>8
  <2> QED  BY <1>2, <1>9, <2>1
<1>11. ASSUME NEW m \in 1 .. Len(pairs), m - 1 \in D PROVE m \in D
  <2>1. Right(m - 1)  BY <1>9, <1>11
  <2>2. PICK t : t = after[m - 1]  OBVIOUS
  <2>3. t \in Good /\ after[m] = again(t, pairs[m])  BY <1>8, <2>1, <2>2
  <2>4. pairs[m] \in Pairs  BY <1>2
  <2>5. /\ after[m] \in Good
        /\ \A q : q \in mCacher!Elements(after[m])
                    <=> \/ q \in mCacher!Elements(t) /\ ~ (pairs[m] \in kept /\ q[1] = pairs[m][1])
                        \/ q = pairs[m] /\ pairs[m] \in kept
    BY <1>4, <2>3, <2>4
  <2>6. \A p : p \in mCacher!Elements(t) <=> p \in kept /\ \E i \in 1 .. m - 1 : pairs[i] = p
    BY <2>1, <2>2
  <2>7. \A p, q \in mCacher!Elements(mTable) : p[1] = q[1] => p = q  BY TableElements
  <2>8. \A i \in 1 .. Len(pairs) : pairs[i] \in mCacher!Elements(mTable)  BY <1>2 DEF ToSet
  <2>9. \A i : i \in 1 .. m <=> i \in 1 .. m - 1 \/ i = m  BY <1>2
  <2>10. \A i \in 1 .. m : i \in 1 .. Len(pairs)  BY <1>2
  <2>11. ASSUME NEW q, q \in mCacher!Elements(t), q[1] = pairs[m][1] PROVE q = pairs[m]
    <3>1. q \in mCacher!Elements(mTable)  BY <2>6, <2>8, <2>9, <2>10, <2>11
    <3> QED  BY <2>7, <2>8, <2>11, <3>1
  <2>12. \A q : q \in mCacher!Elements(after[m]) <=> q \in mCacher!Elements(t) \/ (q = pairs[m] /\ pairs[m] \in kept)
    BY <2>5, <2>11
  <2>13. \A p : p \in mCacher!Elements(after[m]) <=> p \in kept /\ \E i \in 1 .. m : pairs[i] = p
    BY <2>6, <2>9, <2>12
  <2>14. m \in 0 .. Len(pairs)  BY <1>2
  <2>15. Right(m)  BY <2>5, <2>13
  <2> QED  BY <1>9, <2>14, <2>15
<1>12. Len(pairs) \in D
  <2>1. 0 .. Len(pairs) \subseteq D  BY <1>2, <1>10, <1>11, UpTo
  <2> QED  BY <1>2, <2>1
<1>13. Right(Len(pairs))  BY <1>9, <1>12
<1>14. Placed(after[Len(pairs)], size, d)  BY <1>13 DEF Good
<1>15. \A p : (\E i \in 1 .. Len(pairs) : pairs[i] = p) <=> p \in mCacher!Elements(mTable)
  BY <1>2 DEF ToSet
<1> QED  BY <1>7, <1>13, <1>14, <1>15 DEF size, d

(* What Clear makes of the table: with the right divisor nothing is left.  *)
LEMMA ClearedTable ==
  ASSUME mTableSize \in Nat, NEW h, Placed(mTable, mTableSize, h),
         NEW u, u = Unlinked(mCacher!AllPairs)
  PROVE  /\ Placed(u, mTableSize, h)
         /\ mCacher!Elements(u) \subseteq mCacher!Elements(mTable)
         /\ mHashKey = h /\ h \in 1 .. mTableSize - 1 => \A p : p \notin mCacher!Elements(u)
<1> DEFINE n == mTableSize
           pairs == mCacher!AllPairs
           def(g) == [m \in 0 .. Len(pairs) |->
                        IF m = 0 THEN mTable ELSE mCacher!Unlink(g[m - 1], pairs[m][1])]
           after == CHOOSE g : g = def(g)
           Good == {t \in [0 .. n - 1 -> Seq(Pairs)] : Placed(t, n, h)}
           right == mHashKey = h /\ h \in 1 .. n - 1
<1>1. mTable \in Good /\ n \in Nat  BY DEF Placed
<1>2. /\ pairs \in Seq(Pairs) /\ Len(pairs) \in Nat /\ DOMAIN pairs = 1 .. Len(pairs)
      /\ \A p : p \in ToSet(pairs) <=> p \in mCacher!Elements(mTable)
  BY VisitsAll, LenProperties
<1> HIDE DEF pairs
<1>3. \A m \in 1 .. Len(pairs) : pairs[m] \in Pairs /\ pairs[m][1] \in Ids
  <2>1. \A m \in 1 .. Len(pairs) : pairs[m] \in Pairs  BY <1>2
  <2> QED  BY <2>1 DEF Pairs
<1>4. ASSUME NEW t \in Good, NEW k \in Ids
      PROVE  /\ mCacher!Unlink(t, k) \in Good
             /\ mCacher!Elements(mCacher!Unlink(t, k)) \subseteq mCacher!Elements(t)
             /\ right => \A p \in mCacher!Elements(mCacher!Unlink(t, k)) : p[1] # k
  <2>1. PICK w : w = mCacher!Unlink(t, k)  OBVIOUS
  <2>2. Placed(t, n, h)  OBVIOUS
  <2>3. /\ Placed(w, n, h) /\ mCacher!Elements(w) \subseteq mCacher!Elements(t)
        /\ right => mCacher!Elements(w) \subseteq Without(mCacher!Elements(t), k)
    BY <1>1, <2>1, <2>2, UnlinkKey
  <2>4. w \in Good  BY <2>3 DEF Placed
  <2>5. right => \A p \in mCacher!Elements(w) : p[1] # k  BY <2>3 DEF Without
  <2> QED  BY <2>1, <2>3, <2>4, <2>5
<1> HIDE DEF Good, right
<1>5. \E g : g = def(g)
  <2>1. PICK step : step = [m \in 1 .. Len(pairs) |-> [t \in Good |-> mCacher!Unlink(t, pairs[m][1])]]
    OBVIOUS
  <2>2. step \in Steps(Len(pairs), Good)  BY <1>3, <1>4, <2>1 DEF Steps
  <2>3. PICK g : Unfolds(g, Len(pairs), Good, mTable, step)
    BY <1>1, <1>2, <2>2, RecursionExists
  <2>4. ASSUME NEW i \in 0 .. Len(pairs), i # 0 PROVE g[i] = mCacher!Unlink(g[i - 1], pairs[i][1])
    <3>1. i \in 1 .. Len(pairs) /\ i - 1 \in 0 .. Len(pairs)  BY <1>2, <2>4
    <3> QED  BY <2>1, <2>3, <3>1 DEF Unfolds
  <2>5. g = def(g)  BY <2>3, <2>4 DEF Unfolds
  <2> QED  BY <2>5
<1>6. after = def(after)  BY <1>5
<1>7. u = after[Len(pairs)]  BY DEF Unlinked, pairs
<1> HIDE DEF after
<1>8. /\ after[0] = mTable
      /\ \A m \in 1 .. Len(pairs) : after[m] = mCacher!Unlink(after[m - 1], pairs[m][1])
  BY <1>2, <1>6
<1> DEFINE Left(m) == /\ after[m] \in Good
                      /\ mCacher!Elements(after[m]) \subseteq mCacher!Elements(mTable)
                      /\ right => \A p \in mCacher!Elements(after[m]) :
                                    \A i \in 1 .. m : pairs[i][1] # p[1]
<1>9. PICK D : D = {m \in 0 .. Len(pairs) : Left(m)}  OBVIOUS
<1>10. 0 \in D
  <2>1. Left(0)  BY <1>1, <1>8
  <2> QED  BY <1>2, <1>9, <2>1
<1>11. ASSUME NEW m \in 1 .. Len(pairs), m - 1 \in D PROVE m \in D
  <2>1. Left(m - 1)  BY <1>9, <1>11
  <2>2. PICK t, k : t = after[m - 1] /\ k = pairs[m][1]  OBVIOUS
  <2>3. t \in Good /\ k \in Ids /\ after[m] = mCacher!Unlink(t, k)  BY <1>3, <1>8, <2>1, <2>2
  <2>4. /\ after[m] \in Good /\ mCacher!Elements(after[m]) \subseteq mCacher!Elements(t)
        /\ right => \A p \in mCacher!Elements(after[m]) : p[1] # k
    BY <1>4, <2>3
  <2>5. \A i : i \in 1 .. m <=> i \in 1 .. m - 1 \/ i = m  BY <1>2
  <2>6. Left(m)  BY <2>1, <2>2, <2>4, <2>5
  <2>7. m \in 0 .. Len(pairs)  BY <1>2
  <2> QED  BY <1>9, <2>6, <2>7
<1>12. Len(pairs) \in D
  <2>1. 0 .. Len(pairs) \subseteq D  BY <1>2, <1>10, <1>11, UpTo
  <2> QED  BY <1>2, <2>1
<1>13. Left(Len(pairs))  BY <1>9, <1>12
<1>14. \A p \in mCacher!Elements(mTable) : \E i \in 1 .. Len(pairs) : pairs[i] = p
  BY <1>2 DEF ToSet
<1>15. right => \A p : p \notin mCacher!Elements(u)  BY <1>7, <1>13, <1>14
<1>16. Placed(u, n, h)  BY <1>7, <1>13 DEF Good
<1> QED  BY <1>7, <1>13, <1>15, <1>16 DEF right

TableInv ==
  /\ SizeInv
  /\ mTableSize >= InitSize /\ mTableSize < SizeLimit
  /\ mHashKey \in Nat \ {0}
  /\ DivisorFits
  /\ Placed(mTable, mTableSize, mCacher!HashKeyFor(mTableSize))
  /\ mItemNum \in Nat /\ 4 * (mItemNum - 1) <= 3 * mTableSize
  /\ IsFiniteSet(mCacher!Stored) /\ Cardinality(mCacher!Stored) <= mItemNum

(* The model of the hash table counts as this module does.                 *)
LEMMA SameCount == ASSUME NEW S PROVE mCacher!Cardinality(S) = Cardinality(S)
BY DEF mCacher!Cardinality, Cardinality

(* The counter of a table that takes one more pair, and the size it has.   *)
LEMMA LoadBound ==
  ASSUME NEW m \in Nat, NEW n \in Nat, NEW s \in Nat, m <= n + 1, s >= 2
  PROVE  /\ 4 * n <= 3 * s => 4 * (m - 1) <= 3 * s
         /\ 4 * (n - 1) <= 3 * s => 4 * (m - 1) <= 3 * (2 * s)
OBVIOUS

(* A set of pairs after one more pair has been put into it.                *)
LEMMA OneMore ==
  ASSUME NEW S, IsFiniteSet(S), NEW k, NEW x, NEW T, T = Without(S, k) \cup {x}
  PROVE  /\ IsFiniteSet(T) /\ Cardinality(T) \in Nat /\ Cardinality(S) \in Nat
         /\ Cardinality(T) <= Cardinality(S) + 1
         /\ (\E p \in S : p[1] = k) => Cardinality(T) <= Cardinality(S)
<1>1. PICK W : W = Without(S, k)  OBVIOUS
<1>2. W \in SUBSET S  BY <1>1 DEF Without
<1>3. IsFiniteSet(W) /\ Cardinality(W) <= Cardinality(S)  BY <1>2, FS_Subset
<1>4. Cardinality(W) \in Nat /\ Cardinality(S) \in Nat  BY <1>3, FS_CardinalityType
<1>5. IsFiniteSet(T) /\ Cardinality(T) <= Cardinality(W) + 1
  <2>1. /\ IsFiniteSet(W \cup {x})
        /\ Cardinality(W \cup {x}) = IF x \in W THEN Cardinality(W) ELSE Cardinality(W) + 1
    BY <1>3, FS_AddElement
  <2>2. T = W \cup {x}  BY <1>1
  <2>3. /\ IsFiniteSet(T)
        /\ Cardinality(T) = IF x \in W THEN Cardinality(W) ELSE Cardinality(W) + 1
    BY <2>1, <2>2
  <2> QED  BY ONLY <1>4, <2>3
<1>6. Cardinality(T) \in Nat  BY <1>5, FS_CardinalityType
<1>7. ASSUME NEW p \in S, p[1] = k PROVE Cardinality(W) <= Cardinality(S) - 1
  <2>1. p \notin W  BY <1>1, <1>7 DEF Without
  <2>2. IsFiniteSet(S \ {p}) /\ Cardinality(S \ {p}) = Cardinality(S) - 1
    BY <1>7, FS_RemoveElement
  <2>3. W \in SUBSET (S \ {p})  BY <1>2, <2>1
  <2> QED  BY <2>2, <2>3, FS_Subset
<1> QED  BY <1>3, <1>4, <1>5, <1>6, <1>7

(* The constructor.                                                        *)
LEMMA InitTable == ASSUME Init PROVE TableInv
<1>1. /\ mTable = mCacher!EmptyTable(InitSize) /\ mTableSize = InitSize
      /\ mHashKey = mCacher!HashKeyFor(InitSize) /\ mItemNum = 0
  BY DEF Init, mCacher!Init
<1>2. FitInv  BY InitFits
<1>3. mHashKey \in Nat \ {0}
  <2>1. mHashKey \in 1 .. InitSize - 1  BY <1>1, InitSizeAssumption, DivisorBelowSize
  <2> QED  BY <2>1, InitSizeAssumption
<1>4. /\ Placed(mTable, mTableSize, mCacher!HashKeyFor(mTableSize))
      /\ \A p : p \notin mCacher!Stored
  BY <1>1, NoPairs DEF mCacher!Stored
<1>5. mCacher!Stored = {}  BY <1>4
<1>6. IsFiniteSet(mCacher!Stored) /\ Cardinality(mCacher!Stored) = 0
  BY <1>5, FS_EmptySet
<1> QED  BY <1>1, <1>2, <1>3, <1>4, <1>6, InitSizeAssumption, SizeLimitAssumption DEF TableInv, FitInv

(* Insert: the table stays sound, and what it holds is what it held, less  *)
(* the pairs that an expansion lost, with the new pair when it says so.    *)
LEMMA InsertTable ==
  ASSUME TableInv, NEW id \in Ids, NEW node \in Nodes, mCacher!Insert(id, node)
  PROVE  /\ TableInv'
         /\ \E ok \in BOOLEAN, kept \in mCacher!Survivors :
              /\ call' = <<"insert", id, node, ok>>
              /\ \A p : p \in mCacher!Stored'
                          <=> \/ p \in mCacher!Stored /\ p \in kept /\ (ok => p[1] # id)
                              \/ ok /\ p = <<id, node>>
<1> DEFINE size == mTableSize
           h == mCacher!HashKeyFor(size)
<1>1. FitInv /\ FitInv'
  <2>1. FitInv  BY DEF TableInv, FitInv
  <2> QED  BY <2>1, InsertFits
<1>2. size \in Nat /\ size >= 2 /\ h \in 1 .. size - 1 /\ Placed(mTable, size, h)
  BY DivisorBelowSize DEF TableInv, SizeInv
<1>3. mCacher!Stored \in mCacher!Survivors  BY DEF mCacher!Survivors, mCacher!Stored
<1> DEFINE Holds(ok, kept) ==
             \A p : p \in mCacher!Stored'
                      <=> \/ p \in mCacher!Stored /\ p \in kept /\ (ok => p[1] # id)
                          \/ ok /\ p = <<id, node>>
<1>4. CASE UNCHANGED <<mTable, mTableSize, mItemNum>> /\ call' = <<"insert", id, node, FALSE>>
           /\ mHashKey' \in Nat \ {0}
  <2>1. mCacher!Stored' = mCacher!Stored  BY <1>4 DEF mCacher!Stored, mCacher!Elements, mCacher!ToSet
  <2>2. TableInv'  BY <1>1, <1>4, <2>1 DEF TableInv, FitInv, SizeInv, Placed, OnePerKey, mCacher!HashKeyFor, mCacher!IsPrime
  <2>3. Holds(FALSE, mCacher!Stored)  BY <2>1
  <2> QED  BY <1>3, <1>4, <2>2, <2>3
<1>5. CASE mCacher!InsertInPlace(id, node)
  <2>1. ~ mCacher!Loaded /\ UNCHANGED <<mTableSize, mHashKey>>  BY <1>5 DEF mCacher!InsertInPlace
  <2>2. mHashKey = h  BY <2>1 DEF TableInv, DivisorFits, mCacher!DivisorFits
  <2>3. PICK ok \in mCacher!Allocated(mTable[mCacher!Hash(id)], id) :
          /\ mTable' = IF ok THEN [mTable EXCEPT ![mCacher!Hash(id)] = mCacher!PutInChain(@, id, node)]
                       ELSE mTable
          /\ mItemNum' = IF ok /\ mCacher!Positions(mTable[mCacher!Hash(id)], id) = {} THEN mItemNum + 1
                         ELSE mItemNum
          /\ call' = <<"insert", id, node, ok>>
    BY <1>5 DEF mCacher!InsertInPlace
  <2>4. ok \in BOOLEAN  BY <2>3 DEF mCacher!Allocated
  <2>5. CASE ~ ok
    <3>1. mTable' = mTable /\ mItemNum' = mItemNum /\ call' = <<"insert", id, node, FALSE>>
      BY <2>3, <2>4, <2>5
    <3>2. mHashKey' \in Nat \ {0}  BY <2>1 DEF TableInv
    <3> QED  BY <1>4, <2>1, <3>1, <3>2
  <2>6. CASE ok
    <3>1. mTable' = PutAt(mTable, id % h, id, node)
      BY <2>2, <2>3, <2>6 DEF PutAt, mCacher!Hash
    <3>2. /\ Placed(mTable', size, h)
          /\ mCacher!Elements(mTable') = Without(mCacher!Elements(mTable), id) \cup {<<id, node>>}
      BY <1>2, <3>1, PutInTable
    <3>3. mCacher!Stored' = Without(mCacher!Stored, id) \cup {<<id, node>>}
      BY <3>2 DEF mCacher!Stored, mCacher!Elements, mCacher!ToSet
    <3>4. IsFiniteSet(mCacher!Stored) /\ Cardinality(mCacher!Stored) <= mItemNum /\ mItemNum \in Nat
      BY DEF TableInv
    <3>5. /\ IsFiniteSet(mCacher!Stored') /\ Cardinality(mCacher!Stored') \in Nat
          /\ Cardinality(mCacher!Stored) \in Nat
          /\ Cardinality(mCacher!Stored') <= Cardinality(mCacher!Stored) + 1
          /\ (\E p \in mCacher!Stored : p[1] = id) => Cardinality(mCacher!Stored') <= Cardinality(mCacher!Stored)
      BY <3>3, <3>4, OneMore
    <3>6. Cardinality(mCacher!Stored') <= mItemNum' /\ mItemNum' \in Nat
      <4>1. CASE mCacher!Positions(mTable[mCacher!Hash(id)], id) = {}
        <5>1. mItemNum' = mItemNum + 1  BY <2>3, <2>6, <4>1
        <5> QED  BY <3>4, <3>5, <5>1
      <4>2. CASE mCacher!Positions(mTable[mCacher!Hash(id)], id) # {}
        <5>1. mItemNum' = mItemNum  BY <2>3, <4>2
        <5>2. PICK b : b = mCacher!Hash(id)  OBVIOUS
        <5>3. b \in 0 .. size - 1  BY <1>2, <2>2, <5>2, BucketOf DEF mCacher!Hash
        <5>4. PICK i \in DOMAIN mTable[b] : mTable[b][i][1] = id
          BY <4>2, <5>2 DEF mCacher!Positions
        <5>5. mTable[b][i] \in ToSet(mTable[b])  BY <5>4 DEF ToSet
        <5>6. DOMAIN mTable = 0 .. size - 1  BY <1>2 DEF Placed
        <5>7. mTable[b][i] \in mCacher!Stored  BY <5>3, <5>5, <5>6, InSomeChain DEF mCacher!Stored
        <5> QED  BY <3>4, <3>5, <5>1, <5>4, <5>7
      <4> QED  BY <4>1, <4>2
    <3>7. 4 * (mItemNum' - 1) <= 3 * mTableSize'
      <4>1. mItemNum' <= mItemNum + 1  BY <2>3, <3>4
      <4>2. 4 * mItemNum <= 3 * size  BY <1>2, <2>1, <3>4 DEF mCacher!Loaded
      <4>3. PICK m : m = mItemNum'  OBVIOUS
      <4>4. m \in Nat /\ m <= mItemNum + 1  BY <3>6, <4>1, <4>3
      <4>5. 4 * (m - 1) <= 3 * size  BY <1>2, <3>4, <4>2, <4>4, LoadBound
      <4> QED  BY <2>1, <4>3, <4>5
    <3>8. TableInv'
      <4>1. Placed(mTable, mTableSize, mCacher!HashKeyFor(mTableSize))'
        BY <2>1, <3>2
      <4> QED  BY <1>1, <2>1, <3>5, <3>6, <3>7, <4>1 DEF TableInv, FitInv
    <3>9. Holds(ok, mCacher!Stored)  BY <2>6, <3>3 DEF Without
    <3> QED  BY <1>3, <2>3, <2>4, <3>8, <3>9
  <2> QED  BY <2>4, <2>5, <2>6
<1>6. CASE mCacher!InsertExpanding(id, node)
  <2>1. /\ mCacher!MayGrow /\ mTableSize' = 2 * size /\ mHashKey' = mCacher!GrownDivisor
        /\ mCacher!Loaded
    BY <1>6 DEF mCacher!InsertExpanding
  <2> DEFINE d == mCacher!GrownDivisor
  <2>2. 2 * size \in Nat /\ 2 * size >= 2 /\ d \in 1 .. 2 * size - 1 /\ d = mCacher!HashKeyFor(2 * size)
    <3>1. d = mCacher!HashKeyFor(2 * size)  BY DEF mCacher!GrownDivisor
    <3>2. 2 * size \in Nat /\ 2 * size >= 2  BY <1>2
    <3> QED  BY <3>1, <3>2, DivisorBelowSize
  <2>3. PICK kept \in mCacher!Survivors :
          \E ok \in mCacher!Allocated(mCacher!Rehash(kept)[id % d], id) :
            /\ mTable' = IF ok THEN [mCacher!Rehash(kept) EXCEPT ![id % d] = mCacher!PutInChain(@, id, node)]
                         ELSE mCacher!Rehash(kept)
            /\ mItemNum' = Cardinality(mCacher!Elements(mTable'))
            /\ call' = <<"insert", id, node, ok>>
    BY <1>6, SameCount DEF mCacher!InsertExpanding
  <2>4. PICK grown : grown = mCacher!Rehash(kept)  OBVIOUS
  <2>5. /\ Placed(grown, 2 * size, d)
        /\ \A p : p \in mCacher!Elements(grown) <=> p \in mCacher!Elements(mTable) /\ p \in kept
    BY <1>2, <2>4, RehashKeeps
  <2>6. PICK ok \in mCacher!Allocated(grown[id % d], id) :
          /\ mTable' = IF ok THEN PutAt(grown, id % d, id, node) ELSE grown
          /\ mItemNum' = Cardinality(mCacher!Elements(mTable'))
          /\ call' = <<"insert", id, node, ok>>
    BY <2>3, <2>4 DEF PutAt
  <2>7. ok \in BOOLEAN  BY <2>6 DEF mCacher!Allocated
  <2>8. PICK S : S = mCacher!Elements(grown)  OBVIOUS
  <2>9. S \subseteq mCacher!Stored /\ \A p : p \in S <=> p \in mCacher!Stored /\ p \in kept
    BY <2>5, <2>8 DEF mCacher!Stored
  <2>10. IsFiniteSet(mCacher!Stored) /\ Cardinality(mCacher!Stored) <= mItemNum /\ mItemNum \in Nat
    BY DEF TableInv
  <2>11. /\ IsFiniteSet(S) /\ Cardinality(S) \in Nat /\ Cardinality(mCacher!Stored) \in Nat
         /\ Cardinality(S) <= Cardinality(mCacher!Stored)
    BY <2>9, <2>10, FS_Subset, FS_CardinalityType
  <2>12. mCacher!Stored' = mCacher!Elements(mTable')
    BY DEF mCacher!Stored, mCacher!Elements, mCacher!ToSet
  <2>13. /\ Placed(mTable', 2 * size, d) /\ Holds(ok, kept)
         /\ IsFiniteSet(mCacher!Stored') /\ Cardinality(mCacher!Stored') \in Nat
         /\ Cardinality(mCacher!Stored') <= Cardinality(S) + 1
    <3>1. CASE ok
      <4>1. mTable' = PutAt(grown, id % d, id, node)  BY <2>6, <3>1
      <4>2. /\ Placed(mTable', 2 * size, d)
            /\ mCacher!Elements(mTable') = Without(S, id) \cup {<<id, node>>}
        BY <2>2, <2>5, <2>8, <4>1, PutInTable
      <4>3. mCacher!Stored' = Without(S, id) \cup {<<id, node>>}  BY <2>12, <4>2
      <4>4. Holds(ok, kept)  BY <2>9, <3>1, <4>3 DEF Without
      <4> QED  BY <2>11, <4>2, <4>3, <4>4, OneMore
    <3>2. CASE ~ ok
      <4>1. mTable' = grown  BY <2>6, <3>2
      <4>2. mCacher!Stored' = S  BY <2>8, <2>12, <4>1
      <4> QED  BY <2>5, <2>9, <2>11, <3>2, <4>1, <4>2
    <3> QED  BY <3>1, <3>2
  <2>14. mItemNum' \in Nat /\ Cardinality(mCacher!Stored') <= mItemNum'
    BY <2>6, <2>12, <2>13
  <2>15. 4 * (mItemNum' - 1) <= 3 * mTableSize'
    <3>1. mItemNum' <= mItemNum + 1  BY <2>6, <2>10, <2>11, <2>12, <2>13
    <3>2. 4 * (mItemNum - 1) <= 3 * size  BY DEF TableInv
    <3>3. PICK m : m = mItemNum'  OBVIOUS
    <3>4. m \in Nat /\ m <= mItemNum + 1  BY <2>14, <3>1, <3>3
    <3>5. 4 * (m - 1) <= 3 * (2 * size)  BY <1>2, <2>10, <3>2, <3>4, LoadBound
    <3> QED  BY <2>1, <3>3, <3>5
  <2>16. Placed(mTable, mTableSize, mCacher!HashKeyFor(mTableSize))'
    BY <2>1, <2>2, <2>13
  <2>17. mTableSize' >= InitSize /\ mTableSize' < SizeLimit /\ mHashKey' \in Nat \ {0}
    BY <1>2, <2>1, <2>2, InitSizeAssumption DEF TableInv, mCacher!MayGrow
  <2>18. TableInv'
    BY <1>1, <2>13, <2>14, <2>15, <2>16, <2>17 DEF TableInv, FitInv
  <2> QED  BY <2>6, <2>7, <2>13, <2>18
<1>7. CASE mCacher!InsertRefused(id, node)
  <2>1. mHashKey' \in Nat \ {0}  BY <1>7 DEF mCacher!InsertRefused, TableInv
  <2> QED  BY <1>4, <1>7, <2>1 DEF mCacher!InsertRefused
<1>8. CASE mCacher!InsertExpandFails(id, node)
  <2>1. mCacher!GrownDivisor \in 1 .. 2 * size - 1
    <3>1. mCacher!GrownDivisor = mCacher!HashKeyFor(2 * size)  BY DEF mCacher!GrownDivisor
    <3>2. 2 * size \in Nat /\ 2 * size >= 2  BY <1>2
    <3> QED  BY <3>1, <3>2, DivisorBelowSize
  <2>2. mHashKey' \in Nat \ {0}  BY <1>2, <1>8, <2>1 DEF mCacher!InsertExpandFails
  <2> QED  BY <1>4, <1>8, <2>2 DEF mCacher!InsertExpandFails
<1> QED  BY <1>5, <1>6, <1>7, <1>8 DEF mCacher!Insert

(* A call that takes pairs out of the table and changes nothing else.      *)
LEMMA FewerPairs ==
  ASSUME TableInv, UNCHANGED <<mTableSize, mHashKey, mItemNum>>,
         Placed(mTable', mTableSize, mCacher!HashKeyFor(mTableSize)),
         mCacher!Elements(mTable') \subseteq mCacher!Elements(mTable)
  PROVE  TableInv'
<1>1. FitInv'
  <2>1. FitInv  BY DEF TableInv, FitInv
  <2> QED  BY <2>1, SameFits
<1>2. mCacher!Stored' = mCacher!Elements(mTable')
  BY DEF mCacher!Stored, mCacher!Elements, mCacher!ToSet
<1>3. /\ IsFiniteSet(mCacher!Stored') /\ Cardinality(mCacher!Stored') <= mItemNum'
  <2>1. IsFiniteSet(mCacher!Stored) /\ Cardinality(mCacher!Stored) <= mItemNum /\ mItemNum \in Nat
    BY DEF TableInv
  <2>2. mCacher!Stored' \in SUBSET mCacher!Stored  BY <1>2 DEF mCacher!Stored
  <2>3. /\ IsFiniteSet(mCacher!Stored') /\ Cardinality(mCacher!Stored') <= Cardinality(mCacher!Stored)
        /\ Cardinality(mCacher!Stored) \in Nat /\ Cardinality(mCacher!Stored') \in Nat
    BY <2>1, <2>2, FS_Subset, FS_CardinalityType
  <2> QED  BY <2>1, <2>3
<1>4. Placed(mTable, mTableSize, mCacher!HashKeyFor(mTableSize))'  OBVIOUS
<1> QED  BY <1>1, <1>3, <1>4 DEF TableInv, FitInv

(* The size of the table, and the divisor that fits it.                    *)
LEMMA RightSize ==
  ASSUME TableInv
  PROVE  /\ mTableSize \in Nat /\ mCacher!HashKeyFor(mTableSize) \in 1 .. mTableSize - 1
         /\ Placed(mTable, mTableSize, mCacher!HashKeyFor(mTableSize))
BY DivisorBelowSize DEF TableInv, SizeInv

(* RemoveKey.                                                              *)
LEMMA RemoveTable ==
  ASSUME TableInv, NEW id \in Ids, mCacher!RemoveKey(id)
  PROVE  /\ TableInv'
         /\ call' = <<"remove", id>>
         /\ Removable(id) => \A p : p \in mCacher!Stored' <=> p \in mCacher!Stored /\ p[1] # id
<1>1. PICK n, h : n = mTableSize /\ h = mCacher!HashKeyFor(n)  OBVIOUS
<1>2. n \in Nat /\ h \in 1 .. n - 1 /\ Placed(mTable, n, h)  BY <1>1, RightSize
<1>3. /\ mTable' = mCacher!Unlink(mTable, id)
      /\ call' = <<"remove", id>> /\ UNCHANGED <<mTableSize, mHashKey, mItemNum>>
  BY DEF mCacher!RemoveKey
<1>4. /\ Placed(mTable', n, h)
      /\ mCacher!Elements(mTable') \subseteq mCacher!Elements(mTable)
  BY <1>2, <1>3, UnlinkKey
<1>5. TableInv'  BY <1>1, <1>3, <1>4, FewerPairs
<1>6. ASSUME Removable(id)
      PROVE  \A p : p \in mCacher!Stored' <=> p \in mCacher!Stored /\ p[1] # id
  <2>1. PICK b : b = mCacher!Hash(id)  OBVIOUS
  <2>2. mHashKey = h /\ (mTable[b] # <<>> /\ mTable[b][1][1] = id => Len(mTable[b]) = 1)
    BY <1>1, <1>6, <2>1 DEF Removable, RightDivisor
  <2>3. b = id % h  BY <2>1, <2>2 DEF mCacher!Hash
  <2>4. b \in 0 .. n - 1  BY <1>2, <2>3, BucketOf
  <2>5. DOMAIN mTable = 0 .. n - 1  BY <1>2 DEF Placed
  <2>6. mTable' = UnlinkAt(mTable, b, id)  BY <1>3, <2>1, <2>4, <2>5 DEF mCacher!Unlink, UnlinkAt
  <2>7. mCacher!Elements(mTable') = Without(mCacher!Elements(mTable), id)
    <3>1. PICK t, u : t = mTable /\ u = UnlinkAt(t, b, id)  OBVIOUS
    <3>2. n \in Nat /\ Placed(t, n, h)  BY <1>2, <3>1
    <3>3. b = id % h /\ (t[b] # <<>> /\ t[b][1][1] = id => Len(t[b]) = 1)
             => mCacher!Elements(u) = Without(mCacher!Elements(t), id)
      BY <2>4, <3>1, <3>2, UnlinkInTable
    <3>4. mCacher!Elements(u) = Without(mCacher!Elements(t), id)  BY <2>2, <2>3, <3>1, <3>3
    <3> QED  BY <2>6, <3>1, <3>4
  <2>8. mCacher!Stored' = mCacher!Elements(mTable')
    BY DEF mCacher!Stored, mCacher!Elements, mCacher!ToSet
  <2> QED  BY <2>7, <2>8 DEF Without, mCacher!Stored
<1> QED  BY <1>3, <1>5, <1>6

(* Clear.                                                                  *)
LEMMA ClearTable ==
  ASSUME TableInv, Clear
  PROVE  TableInv' /\ (RightDivisor => mCacher!Stored' = {})
<1>1. PICK n, h : n = mTableSize /\ h = mCacher!HashKeyFor(n)  OBVIOUS
<1>2. n \in Nat /\ h \in 1 .. n - 1 /\ Placed(mTable, n, h)  BY <1>1, RightSize
<1>3. mTable' = Unlinked(mCacher!AllPairs) /\ UNCHANGED <<mTableSize, mHashKey, mItemNum>>
  BY DEF Clear
<1>4. /\ Placed(mTable', n, h)
      /\ mCacher!Elements(mTable') \subseteq mCacher!Elements(mTable)
      /\ mHashKey = h => \A p : p \notin mCacher!Elements(mTable')
  BY <1>1, <1>2, <1>3, ClearedTable
<1>5. TableInv'  BY <1>1, <1>3, <1>4, FewerPairs
<1>6. mCacher!Stored' = mCacher!Elements(mTable')
  BY DEF mCacher!Stored, mCacher!Elements, mCacher!ToSet
<1> QED  BY <1>1, <1>4, <1>5, <1>6 DEF RightDivisor

-----------------------------------------------------------------------------
Entries == [id : Ids, ptr : Nodes]

OnePerBlock(list) ==
  /\ list \in Seq(Entries)
  /\ \A i, j \in DOMAIN list : list[i].id = list[j].id => i = j

PrefixOf(p, s) == Len(p) <= Len(s) /\ \A i \in 1 .. Len(p) : p[i] = s[i]

(* What f counts up to when entries of some blocks are taken out of a list.*)
Keeping(f, list, ids) ==
  /\ f \in [0 .. Len(list) -> Seq(Entries)]
  /\ f[0] = <<>>
  /\ \A n \in 1 .. Len(list) :
       f[n] = IF list[n].id \in ids THEN f[n - 1] ELSE Append(f[n - 1], list[n])

(* RemoveNodeFromLUNCache in terms of its recursion.                       *)
LEMMA RemovalUnfolds ==
  ASSUME NEW list \in Seq(Entries), NEW ids
  PROVE  \E f : Keeping(f, list, ids) /\ RemoveNodeFromLUNCache(list, ids) = f[Len(list)]
<1> DEFINE def(g) == [n \in 0 .. Len(list) |->
                        IF n = 0 THEN <<>>
                        ELSE IF list[n].id \in ids THEN g[n - 1]
                        ELSE Append(g[n - 1], list[n])]
           kept == CHOOSE g : g = def(g)
           step == [n \in 1 .. Len(list) |-> [s \in Seq(Entries) |->
                      IF list[n].id \in ids THEN s ELSE Append(s, list[n])]]
<1>1. Len(list) \in Nat /\ \A n \in 1 .. Len(list) : list[n] \in Entries
  BY LenProperties, ElementOfSeq
<1>2. step \in Steps(Len(list), Seq(Entries))
  <2>1. ASSUME NEW n \in 1 .. Len(list), NEW s \in Seq(Entries)
        PROVE  (IF list[n].id \in ids THEN s ELSE Append(s, list[n])) \in Seq(Entries)
    BY <1>1
  <2> QED  BY <2>1 DEF Steps
<1>3. <<>> \in Seq(Entries)  OBVIOUS
<1>4. PICK s : s = step  OBVIOUS
<1>5. PICK g : Unfolds(g, Len(list), Seq(Entries), <<>>, s)
  BY <1>1, <1>2, <1>3, <1>4, RecursionExists
<1>6. ASSUME NEW n \in 1 .. Len(list)
      PROVE  g[n] = IF list[n].id \in ids THEN g[n - 1] ELSE Append(g[n - 1], list[n])
  <2>1. g[n - 1] \in Seq(Entries)  BY <1>1, <1>5 DEF Unfolds
  <2>2. g[n] = s[n][g[n - 1]]  BY <1>5 DEF Unfolds
  <2> QED  BY <1>4, <2>1, <2>2
<1>7. g = def(g)
  <2>1. g \in [0 .. Len(list) -> Seq(Entries)] /\ g[0] = <<>>  BY <1>5 DEF Unfolds
  <2>2. ASSUME NEW n \in 0 .. Len(list) PROVE g[n] = def(g)[n]
    <3>1. CASE n = 0  BY <2>1, <3>1
    <3>2. CASE n # 0
      <4>1. n \in 1 .. Len(list)  BY <1>1, <3>2
      <4> QED  BY <1>6, <3>2, <4>1
    <3> QED  BY <3>1, <3>2
  <2> QED  BY <2>1, <2>2
<1>8. kept = def(kept)  BY <1>7
<1>9. RemoveNodeFromLUNCache(list, ids) = kept[Len(list)]  BY DEF RemoveNodeFromLUNCache
<1> HIDE DEF kept
<1>10. /\ kept[0] = <<>>
       /\ \A n \in 1 .. Len(list) :
            kept[n] = IF list[n].id \in ids THEN kept[n - 1] ELSE Append(kept[n - 1], list[n])
  <2>1. 0 \in 0 .. Len(list)  BY <1>1
  <2>2. kept[0] = <<>>  BY <1>8, <2>1
  <2>3. ASSUME NEW n \in 1 .. Len(list)
        PROVE  kept[n] = IF list[n].id \in ids THEN kept[n - 1] ELSE Append(kept[n - 1], list[n])
    <3>1. n \in 0 .. Len(list) /\ n # 0  BY <1>1
    <3> QED  BY <1>8, <3>1, Zenon
  <2> QED  BY <2>2, <2>3
<1>11. PICK D : D = {n \in 0 .. Len(list) : kept[n] \in Seq(Entries)}  OBVIOUS
<1>12. 0 .. Len(list) \subseteq D
  <2>1. 0 \in D
    <3>1. 0 \in 0 .. Len(list) /\ kept[0] \in Seq(Entries)  BY <1>1, <1>3, <1>10
    <3> QED  BY <1>11, <3>1
  <2>2. ASSUME NEW n \in 1 .. Len(list), n - 1 \in D PROVE n \in D
    <3>1. kept[n - 1] \in Seq(Entries) /\ list[n] \in Entries  BY <1>1, <1>11, <2>2
    <3>2. kept[n] \in Seq(Entries)
      <4>1. kept[n] = kept[n - 1] \/ kept[n] = Append(kept[n - 1], list[n])  BY <1>10
      <4>2. Append(kept[n - 1], list[n]) \in Seq(Entries)  BY <3>1, AppendProperties
      <4> QED  BY <3>1, <4>1, <4>2, Zenon
    <3> QED  BY <1>1, <1>11, <3>2
  <2> QED  BY <1>1, <2>1, <2>2, UpTo
<1>13. kept \in [0 .. Len(list) -> Seq(Entries)]
  <2>1. \A n \in 0 .. Len(list) : kept[n] \in Seq(Entries)  BY <1>11, <1>12
  <2> QED  BY <1>8, <2>1
<1> QED  BY <1>9, <1>10, <1>13 DEF Keeping

(* What is left after the removal of some blocks from a list.              *)
LEMMA RemovalKeeps ==
  ASSUME NEW list, OnePerBlock(list), NEW ids, NEW r, r = RemoveNodeFromLUNCache(list, ids)
  PROVE  /\ OnePerBlock(r)
         /\ Len(r) <= Len(list)
         /\ \A j \in DOMAIN r : \E i \in DOMAIN list : r[j] = list[i] /\ list[i].id \notin ids
         /\ \A i \in DOMAIN list : list[i].id \notin ids => \E j \in DOMAIN r : r[j] = list[i]
<1>1. /\ list \in Seq(Entries) /\ Len(list) \in Nat /\ DOMAIN list = 1 .. Len(list)
      /\ \A n \in 1 .. Len(list) : list[n] \in Entries
  BY LenProperties, ElementOfSeq DEF OnePerBlock
<1>2. PICK f : Keeping(f, list, ids) /\ r = f[Len(list)]  BY <1>1, RemovalUnfolds
<1> DEFINE Right(n) ==
      /\ Len(f[n]) <= n
      /\ \A i, j \in 1 .. Len(f[n]) : f[n][i].id = f[n][j].id => i = j
      /\ \A j \in 1 .. Len(f[n]) : \E i \in 1 .. n : f[n][j] = list[i] /\ list[i].id \notin ids
      /\ \A i \in 1 .. n : list[i].id \notin ids => \E j \in 1 .. Len(f[n]) : f[n][j] = list[i]
<1>3. PICK D : D = {n \in 0 .. Len(list) : Right(n)}  OBVIOUS
<1>4. 0 \in D
  <2>1. f[0] = <<>> /\ Len(f[0]) = 0  BY <1>2 DEF Keeping
  <2>2. Right(0)  BY <2>1
  <2> QED  BY <1>1, <1>3, <2>2
<1>5. ASSUME NEW n \in 1 .. Len(list), n - 1 \in D PROVE n \in D
  <2>1. Right(n - 1) /\ n - 1 \in 0 .. Len(list)  BY <1>3, <1>5
  <2>2. PICK s, e : s = f[n - 1] /\ e = list[n]  OBVIOUS
  <2>3. s \in Seq(Entries) /\ e \in Entries /\ Len(s) \in Nat
    BY <1>1, <1>2, <2>1, <2>2, LenProperties DEF Keeping
  <2>4. \A i : i \in 1 .. n <=> i \in 1 .. n - 1 \/ i = n  BY <1>1
  <2>5. CASE e.id \in ids
    <3>1. f[n] = s  BY <1>2, <2>2, <2>5 DEF Keeping
    <3>2. Right(n)  BY <1>1, <2>1, <2>2, <2>3, <2>4, <2>5, <3>1
    <3> QED  BY <1>1, <1>3, <3>2
  <2>6. CASE e.id \notin ids
    <3>1. PICK t : t = f[n]  OBVIOUS
    <3>2. t = Append(s, e)  BY <1>2, <2>2, <2>6, <3>1 DEF Keeping
    <3>3. Len(t) = Len(s) + 1 /\ t[Len(s) + 1] = e /\ \A j \in 1 .. Len(s) : t[j] = s[j]
      BY <2>3, <3>2
    <3>4. \A j : j \in 1 .. Len(t) <=> j \in 1 .. Len(s) \/ j = Len(s) + 1  BY <2>3, <3>3
    <3>5. \A j \in 1 .. Len(s) : \E i \in 1 .. n - 1 : s[j] = list[i] /\ list[i].id \notin ids
      BY <2>1, <2>2
    <3>6. Len(t) <= n  BY <1>1, <2>1, <2>2, <2>3, <3>3
    <3>7. \A j \in 1 .. Len(s) : s[j].id # e.id
      <4>1. SUFFICES ASSUME NEW j \in 1 .. Len(s), s[j].id = e.id PROVE FALSE  OBVIOUS
      <4>2. PICK i \in 1 .. n - 1 : s[j] = list[i]  BY <3>5
      <4>3. i \in DOMAIN list /\ n \in DOMAIN list /\ i # n  BY <1>1
      <4> QED  BY <2>2, <4>1, <4>2, <4>3 DEF OnePerBlock
    <3>8. \A i, j \in 1 .. Len(t) : t[i].id = t[j].id => i = j
      <4>1. \A i, j \in 1 .. Len(s) : s[i].id = s[j].id => i = j  BY <2>1, <2>2
      <4> QED  BY <3>3, <3>4, <3>7, <4>1
    <3>9. \A j \in 1 .. Len(t) : \E i \in 1 .. n : t[j] = list[i] /\ list[i].id \notin ids
      <4>1. SUFFICES ASSUME NEW j \in 1 .. Len(t)
                     PROVE  \E i \in 1 .. n : t[j] = list[i] /\ list[i].id \notin ids
        OBVIOUS
      <4>2. CASE j \in 1 .. Len(s)
        <5>1. PICK i \in 1 .. n - 1 : s[j] = list[i] /\ list[i].id \notin ids  BY <3>5, <4>2
        <5> QED  BY <2>4, <3>3, <4>2, <5>1
      <4>3. CASE j = Len(s) + 1
        <5>1. t[j] = list[n] /\ list[n].id \notin ids /\ n \in 1 .. n
          BY <2>2, <2>4, <2>6, <3>3, <4>3
        <5> QED  BY <5>1
      <4> QED  BY <3>4, <4>2, <4>3
    <3>10. \A i \in 1 .. n : list[i].id \notin ids => \E j \in 1 .. Len(t) : t[j] = list[i]
      <4>1. SUFFICES ASSUME NEW i \in 1 .. n, list[i].id \notin ids
                     PROVE  \E j \in 1 .. Len(t) : t[j] = list[i]
        OBVIOUS
      <4>2. CASE i = n  BY <2>2, <3>3, <3>4, <4>2
      <4>3. CASE i # n
        <5>1. i \in 1 .. n - 1  BY <2>4, <4>3
        <5>2. PICK j \in 1 .. Len(s) : s[j] = list[i]  BY <2>1, <2>2, <4>1, <5>1
        <5> QED  BY <3>3, <3>4, <5>2
      <4> QED  BY <4>2, <4>3
    <3>11. Right(n)  BY <3>1, <3>6, <3>8, <3>9, <3>10
    <3> QED  BY <1>1, <1>3, <3>11
  <2> QED  BY <2>5, <2>6
<1>6. Right(Len(list))
  <2>1. 0 .. Len(list) \subseteq D  BY <1>1, <1>4, <1>5, UpTo
  <2>2. Len(list) \in D  BY <1>1, <2>1
  <2> QED  BY <1>3, <2>2
<1>7. r \in Seq(Entries) /\ DOMAIN r = 1 .. Len(r)
  <2>1. r \in Seq(Entries)  BY <1>1, <1>2 DEF Keeping
  <2> QED  BY <2>1, LenProperties
<1> QED  BY <1>1, <1>2, <1>6, <1>7 DEF OnePerBlock

(* The removal of some blocks from the front of a list gives the front of  *)
(* what is left of the list.                                               *)
LEMMA RemovalOfPrefix ==
  ASSUME NEW p \in Seq(Entries), NEW s \in Seq(Entries), PrefixOf(p, s), NEW ids
  PROVE  PrefixOf(RemoveNodeFromLUNCache(p, ids), RemoveNodeFromLUNCache(s, ids))
<1>1. Len(p) \in Nat /\ Len(s) \in Nat /\ Len(p) <= Len(s) /\ \A i \in 1 .. Len(p) : p[i] = s[i]
  BY LenProperties DEF PrefixOf
<1>2. PICK f : Keeping(f, p, ids) /\ RemoveNodeFromLUNCache(p, ids) = f[Len(p)]
  BY RemovalUnfolds
<1>3. PICK g : Keeping(g, s, ids) /\ RemoveNodeFromLUNCache(s, ids) = g[Len(s)]
  BY RemovalUnfolds
<1>4. f[Len(p)] = g[Len(p)]
  <2>1. PICK D : D = {n \in 0 .. Len(p) : f[n] = g[n]}  OBVIOUS
  <2>2. 0 \in D  BY <1>1, <1>2, <1>3, <2>1 DEF Keeping
  <2>3. ASSUME NEW n \in 1 .. Len(p), n - 1 \in D PROVE n \in D
    <3>1. f[n - 1] = g[n - 1] /\ p[n] = s[n] /\ n \in 1 .. Len(s) /\ n \in 0 .. Len(p)
      BY <1>1, <2>1, <2>3
    <3>2. f[n] = g[n]  BY <1>2, <1>3, <3>1 DEF Keeping
    <3> QED  BY <2>1, <3>1, <3>2
  <2>4. 0 .. Len(p) \subseteq D  BY <1>1, <2>2, <2>3, UpTo
  <2> QED  BY <1>1, <2>1, <2>4
<1>5. \A n \in 0 .. Len(s) : g[n] \in Seq(Entries) /\ Len(g[n]) \in Nat
  BY <1>3, LenProperties DEF Keeping
<1>6. PrefixOf(g[Len(p)], g[Len(s)])
  <2>1. PICK D : D = {n \in 0 .. Len(s) : n >= Len(p) => PrefixOf(g[Len(p)], g[n])}  OBVIOUS
  <2>2. PrefixOf(g[Len(p)], g[Len(p)])  BY <1>1, <1>5 DEF PrefixOf
  <2>3. 0 \in D
    <3>1. 0 >= Len(p) => Len(p) = 0  BY <1>1
    <3> QED  BY <1>1, <2>1, <2>2, <3>1
  <2>4. ASSUME NEW n \in 1 .. Len(s), n - 1 \in D PROVE n \in D
    <3>1. CASE n <= Len(p)
      <4>1. n >= Len(p) => n = Len(p)  BY <1>1, <3>1
      <4> QED  BY <1>1, <2>1, <2>2, <4>1
    <3>2. CASE ~ (n <= Len(p))
      <4>1. n - 1 >= Len(p) /\ n - 1 \in 0 .. Len(s) /\ n \in 0 .. Len(s) /\ Len(p) \in 0 .. Len(s)
        BY <1>1, <3>2
      <4>2. PICK a, b, c : a = g[Len(p)] /\ b = g[n - 1] /\ c = g[n]  OBVIOUS
      <4>3. PrefixOf(a, b)  BY <2>1, <2>4, <4>1, <4>2
      <4>4. b \in Seq(Entries) /\ Len(a) \in Nat /\ Len(b) \in Nat  BY <1>5, <4>1, <4>2
      <4>5. CASE s[n].id \in ids
        <5>1. c = b  BY <1>3, <4>2, <4>5 DEF Keeping
        <5> QED  BY <2>1, <4>1, <4>2, <4>3, <5>1
      <4>6. CASE s[n].id \notin ids
        <5>1. c = Append(b, s[n])  BY <1>3, <4>2, <4>6 DEF Keeping
        <5>2. Len(c) = Len(b) + 1 /\ \A j \in 1 .. Len(b) : c[j] = b[j]
          <6>1. s[n] \in Entries  BY ElementOfSeq
          <6> QED  BY <4>4, <5>1, <6>1
        <5>3. PrefixOf(a, c)  BY <4>3, <4>4, <5>2 DEF PrefixOf
        <5> QED  BY <2>1, <4>1, <4>2, <5>3
      <4> QED  BY <4>5, <4>6
    <3> QED  BY <1>1, <3>1, <3>2
  <2>5. 0 .. Len(s) \subseteq D  BY <1>1, <2>3, <2>4, UpTo
  <2> QED  BY <1>1, <2>1, <2>5
<1> QED  BY <1>2, <1>3, <1>4, <1>6

(* A new entry in front of a list without its block.                       *)
InFront(e, r) == <<e>> \o r

(* An entry put in front moves the others one place and keeps one per      *)
(* block.                                                                  *)
LEMMA NewFront ==
  ASSUME NEW r, OnePerBlock(r), NEW e \in Entries, \A j \in DOMAIN r : r[j].id # e.id,
         NEW l, l = InFront(e, r)
  PROVE  /\ OnePerBlock(l)
         /\ Len(l) = Len(r) + 1 /\ Len(r) \in Nat /\ DOMAIN l = 1 .. Len(r) + 1
         /\ l[1] = e /\ \A j \in 1 .. Len(r) : l[j + 1] = r[j]
         /\ \A i \in 1 .. Len(r) + 1 : i = 1 \/ (i - 1 \in 1 .. Len(r) /\ l[i] = r[i - 1])
<1>1. r \in Seq(Entries) /\ Len(r) \in Nat /\ DOMAIN r = 1 .. Len(r)
  BY LenProperties DEF OnePerBlock
<1>2. PICK s : s = <<e>>  OBVIOUS
<1>3. s \in Seq(Entries) /\ Len(s) = 1 /\ s[1] = e  BY <1>2
<1>4. /\ l \in Seq(Entries) /\ Len(l) = 1 + Len(r)
      /\ \A i \in 1 .. 1 + Len(r) : l[i] = IF i <= 1 THEN s[i] ELSE r[i - 1]
  BY <1>1, <1>2, <1>3, ConcatProperties DEF InFront
<1>5. DOMAIN l = 1 .. Len(r) + 1 /\ Len(l) = Len(r) + 1  BY <1>1, <1>4, LenProperties
<1>6. l[1] = e /\ \A j \in 1 .. Len(r) : l[j + 1] = r[j]
  <2>1. l[1] = e  BY <1>1, <1>3, <1>4
  <2>2. ASSUME NEW j \in 1 .. Len(r) PROVE l[j + 1] = r[j]
    <3>1. j + 1 \in 1 .. 1 + Len(r) /\ ~ (j + 1 <= 1) /\ (j + 1) - 1 = j  BY <1>1
    <3> QED  BY <1>4, <3>1
  <2> QED  BY <2>1, <2>2
<1>7. \A i \in 1 .. Len(r) + 1 : i = 1 \/ (i - 1 \in 1 .. Len(r) /\ l[i] = r[i - 1])
  <2>1. SUFFICES ASSUME NEW i \in 1 .. Len(r) + 1, i # 1
                 PROVE  i - 1 \in 1 .. Len(r) /\ l[i] = r[i - 1]
    OBVIOUS
  <2>2. i - 1 \in 1 .. Len(r) /\ (i - 1) + 1 = i  BY <1>1, <2>1
  <2> QED  BY <1>6, <2>2
<1>8. \A i, j \in DOMAIN l : l[i].id = l[j].id => i = j
  <2>1. SUFFICES ASSUME NEW i \in DOMAIN l, NEW j \in DOMAIN l, l[i].id = l[j].id PROVE i = j
    OBVIOUS
  <2>2. CASE i = 1  BY <1>1, <1>5, <1>6, <1>7, <2>1, <2>2
  <2>3. CASE j = 1  BY <1>1, <1>5, <1>6, <1>7, <2>1, <2>3
  <2>4. CASE i # 1 /\ j # 1
    <3>1. i - 1 \in DOMAIN r /\ j - 1 \in DOMAIN r /\ r[i - 1].id = r[j - 1].id
      BY <1>1, <1>5, <1>7, <2>1, <2>4
    <3>2. i - 1 = j - 1 /\ i \in Int /\ j \in Int  BY <1>1, <1>5, <3>1 DEF OnePerBlock
    <3> QED  BY <3>2
  <2> QED  BY <2>2, <2>3, <2>4
<1> QED  BY <1>1, <1>4, <1>5, <1>6, <1>7, <1>8 DEF OnePerBlock

(* The longer list that AddNodeIntoLUNCache builds before it cuts it.      *)
Longer(list, id, node) == <<[id |-> id, ptr |-> node]>> \o RemoveNodeFromLUNCache(list, {id})

(* It has every block once.                                                *)
LEMMA LongerList ==
  ASSUME NEW list, OnePerBlock(list), NEW id \in Ids, NEW node \in Nodes,
         NEW r, r = RemoveNodeFromLUNCache(list, {id}), NEW l, l = Longer(list, id, node)
  PROVE  /\ OnePerBlock(r) /\ OnePerBlock(l)
         /\ Len(l) = Len(r) + 1 /\ Len(r) \in Nat /\ DOMAIN l = 1 .. Len(r) + 1
         /\ l[1] = [id |-> id, ptr |-> node] /\ \A j \in 1 .. Len(r) : l[j + 1] = r[j]
         /\ \A i \in 1 .. Len(r) + 1 : i = 1 \/ (i - 1 \in 1 .. Len(r) /\ l[i] = r[i - 1])
<1>1. PICK e : e = [id |-> id, ptr |-> node]  OBVIOUS
<1>2. e \in Entries /\ e.id = id  BY <1>1 DEF Entries
<1>3. OnePerBlock(r) /\ \A j \in DOMAIN r : r[j].id # e.id  BY <1>2, RemovalKeeps
<1>4. l = InFront(e, r)  BY <1>1 DEF Longer, InFront
<1>5. /\ OnePerBlock(l)
      /\ Len(l) = Len(r) + 1 /\ Len(r) \in Nat /\ DOMAIN l = 1 .. Len(r) + 1
      /\ l[1] = e /\ \A j \in 1 .. Len(r) : l[j + 1] = r[j]
      /\ \A i \in 1 .. Len(r) + 1 : i = 1 \/ (i - 1 \in 1 .. Len(r) /\ l[i] = r[i - 1])
  BY ONLY <1>2, <1>3, <1>4, NewFront
<1> QED  BY <1>1, <1>3, <1>5

(* AddNodeIntoLUNCache: the front of the longer list, of a bounded length. *)
LEMMA AddedList ==
  ASSUME NEW list, OnePerBlock(list), NEW id \in Ids, NEW node \in Nodes,
         NEW l, l = Longer(list, id, node), NEW c, c = AddNodeIntoLUNCache(list, id, node)
  PROVE  OnePerBlock(c) /\ Len(c) <= MaxLUNCacheSize /\ PrefixOf(c, l)
<1>1. /\ OnePerBlock(l) /\ l \in Seq(Entries) /\ Len(l) \in Nat /\ DOMAIN l = 1 .. Len(l)
      /\ \A i \in 1 .. Len(l) : l[i] \in Entries
  <2>1. PICK r : r = RemoveNodeFromLUNCache(list, {id})  OBVIOUS
  <2>2. OnePerBlock(l)  BY <2>1, LongerList
  <2> QED  BY <2>2, LenProperties, ElementOfSeq DEF OnePerBlock
<1>2. c = IF Len(l) > MaxLUNCacheSize THEN SubSeq(l, 1, MaxLUNCacheSize) ELSE l
  BY DEF AddNodeIntoLUNCache, Longer
<1>3. MaxLUNCacheSize \in Nat /\ MaxLUNCacheSize >= 1  BY CacheSizeAssumption
<1>4. CASE Len(l) > MaxLUNCacheSize
  <2>1. PICK m : m = MaxLUNCacheSize  OBVIOUS
  <2>2. m \in Nat /\ m >= 1 /\ m < Len(l) /\ c = SubSeq(l, 1, m)  BY <1>1, <1>2, <1>3, <1>4, <2>1
  <2>3. \A i \in 1 .. m : l[i] \in Entries /\ i \in DOMAIN l  BY <1>1, <2>2
  <2>4. c \in Seq(Entries) /\ Len(c) = m /\ \A i \in 1 .. m : c[i] = l[i]
    <3>1. 1 \in Int /\ m \in Int  BY <2>2
    <3>2. /\ c \in Seq(Entries) /\ Len(c) = IF 1 <= m THEN m - 1 + 1 ELSE 0
          /\ \A i \in 1 .. m - 1 + 1 : c[i] = l[1 + i - 1]
      BY <2>2, <2>3, <3>1, SubSeqProperties
    <3> QED  BY <2>2, <3>2
  <2>5. DOMAIN c = 1 .. m  BY <2>4, LenProperties
  <2>6. OnePerBlock(c)  BY <1>1, <2>3, <2>4, <2>5 DEF OnePerBlock
  <2>7. PrefixOf(c, l)  BY <1>1, <2>2, <2>4 DEF PrefixOf
  <2> QED  BY <2>1, <2>2, <2>4, <2>6, <2>7
<1>5. CASE ~ (Len(l) > MaxLUNCacheSize)
  <2>1. c = l /\ Len(l) <= MaxLUNCacheSize  BY <1>1, <1>2, <1>3, <1>5
  <2>2. PrefixOf(l, l)  BY <1>1 DEF PrefixOf
  <2> QED  BY <1>1, <2>1, <2>2
<1> QED  BY <1>4, <1>5

(* The front of a front.                                                   *)
LEMMA PrefixTransitive ==
  ASSUME NEW a, NEW b, NEW c, Len(a) \in Nat, Len(b) \in Nat, Len(c) \in Nat,
         PrefixOf(a, b), PrefixOf(b, c)
  PROVE  PrefixOf(a, c)
BY DEF PrefixOf

ListInv == OnePerBlock(mLUNCache) /\ Len(mLUNCache) <= MaxLUNCacheSize

(* The constructor of the cache.                                           *)
LEMMA InitCache == ASSUME Init PROVE TableInv /\ ListInv
<1>1. TableInv  BY InitTable
<1>2. mLUNCache = <<>>  BY DEF Init
<1>3. OnePerBlock(<<>>) /\ Len(<<>>) = 0  BY DEF OnePerBlock
<1> QED  BY <1>1, <1>2, <1>3, CacheSizeAssumption DEF ListInv

(* Every call keeps the table and the list.                                *)
LEMMA CallCache == ASSUME TableInv, ListInv, [Next]_vars PROVE TableInv' /\ ListInv'
<1>1. ASSUME NEW ids, mLUNCache' = RemoveNodeFromLUNCache(mLUNCache, ids) PROVE ListInv'
  <2>1. PICK r : r = RemoveNodeFromLUNCache(mLUNCache, ids)  OBVIOUS
  <2>2. OnePerBlock(r) /\ Len(r) <= Len(mLUNCache)  BY <2>1, RemovalKeeps DEF ListInv
  <2>3. Len(r) \in Nat /\ Len(mLUNCache) \in Nat  BY <2>2, LenProperties DEF ListInv, OnePerBlock
  <2>4. Len(r) <= MaxLUNCacheSize  BY <2>2, <2>3, CacheSizeAssumption DEF ListInv
  <2>5. mLUNCache' = r  BY <1>1, <2>1
  <2> QED  BY <2>2, <2>4, <2>5 DEF ListInv
<1>2. ASSUME NEW id \in Ids, NEW node \in Nodes, AddNode(node, id) PROVE TableInv' /\ ListInv'
  <2>1. TableInv'  BY <1>2, InsertTable DEF AddNode
  <2>2. CASE mLUNCache' = mLUNCache  BY <2>1, <2>2 DEF ListInv
  <2>3. CASE mLUNCache' = AddNodeIntoLUNCache(mLUNCache, id, node)
    <3>1. PICK c : c = AddNodeIntoLUNCache(mLUNCache, id, node)  OBVIOUS
    <3>2. PICK l : l = Longer(mLUNCache, id, node)  OBVIOUS
    <3>3. OnePerBlock(c) /\ Len(c) <= MaxLUNCacheSize  BY <3>1, <3>2, AddedList DEF ListInv
    <3>4. mLUNCache' = c  BY <2>3, <3>1
    <3> QED  BY <2>1, <3>3, <3>4 DEF ListInv
  <2> QED  BY <1>2, <2>2, <2>3 DEF AddNode
<1>3. ASSUME NEW id \in Ids, RemoveNode(id) PROVE TableInv' /\ ListInv'
  BY <1>1, <1>3, RemoveTable DEF RemoveNode
<1>4. CASE Clear  BY <1>1, <1>4, ClearTable DEF Clear
<1>5. CASE UNCHANGED vars
  <2>1. UNCHANGED <<mTable, mTableSize, mHashKey, mItemNum, mLUNCache>>  BY <1>5 DEF vars
  <2>2. FitInv'
    <3>1. FitInv  BY DEF TableInv, FitInv
    <3> QED  BY <2>1, <3>1, SameFits
  <2>3. mCacher!Stored' = mCacher!Stored  BY <2>1 DEF mCacher!Stored, mCacher!Elements, mCacher!ToSet
  <2>4. Placed(mTable, mTableSize, mCacher!HashKeyFor(mTableSize))'  BY <2>1 DEF TableInv
  <2>5. TableInv'  BY <2>1, <2>2, <2>3, <2>4 DEF TableInv, FitInv
  <2> QED  BY <2>1, <2>5 DEF ListInv
<1> QED  BY <1>2, <1>3, <1>4, <1>5 DEF Next

(* The number of the pairs of a chain.                                     *)
LEMMA ChainCount ==
  ASSUME NEW c, OnePerKey(c)
  PROVE  mCacher!Cardinality(mCacher!ToSet(c)) = Len(c)
<1>1. c \in Seq(Pairs) /\ Len(c) \in Nat /\ DOMAIN c = 1 .. Len(c) /\ c \in [1 .. Len(c) -> Pairs]
  BY LenProperties DEF OnePerKey
<1>2. PICK T : T = ToSet(c)  OBVIOUS
<1>3. PICK n : n = Len(c)  OBVIOUS
<1>4. IsFiniteSet(1 .. n) /\ Cardinality(1 .. n) = n
  <2>1. n \in Nat  BY <1>1, <1>3
  <2>2. /\ IsFiniteSet(1 .. n) /\ Cardinality(1 .. n) = IF 1 > n THEN 0 ELSE n - 1 + 1
    BY <2>1, FS_Interval
  <2> QED  BY <2>1, <2>2
<1>5. c \in [1 .. n -> T] /\ \A t \in T : \E i \in 1 .. n : c[i] = t
  BY <1>1, <1>2, <1>3 DEF ToSet
<1>6. c \in Surjection(1 .. n, T)  BY <1>5 DEF Surjection
<1>7. c \in Injection(1 .. n, T)
  <2>1. \A i, j \in 1 .. n : c[i] = c[j] => i = j  BY <1>1, <1>3 DEF OnePerKey
  <2> QED  BY <1>5, <2>1 DEF Injection, IsInjective
<1>8. Cardinality(T) = Cardinality(1 .. n)  BY <1>4, <1>6, <1>7, FS_Surjection
<1>9. mCacher!ToSet(c) = T  BY <1>2 DEF mCacher!ToSet, ToSet
<1> QED  BY <1>3, <1>4, <1>8, <1>9, SameCount

(* The state has its type, whatever is added, removed and cleared.         *)
THEOREM CacheTypeOK == Spec => []TypeOK
<1>1. Init => TableInv /\ ListInv  BY InitCache
<1>2. (TableInv /\ ListInv) /\ [Next]_vars => (TableInv /\ ListInv)'  BY CallCache
<1>3. ASSUME TableInv, ListInv PROVE TypeOK
  <2>1. PICK n : n = mTableSize  OBVIOUS
  <2>2. /\ n \in Nat /\ n >= InitSize /\ n < SizeLimit /\ mHashKey \in Nat \ {0} /\ mItemNum \in Nat
        /\ mTable \in [0 .. n - 1 -> Seq(Pairs)]
    BY <1>3, <2>1 DEF TableInv, SizeInv, Placed
  <2>3. mCacher!TypeOK  BY <2>1, <2>2 DEF mCacher!TypeOK, Pairs
  <2> QED  BY <1>3, <2>3 DEF TypeOK, ListInv, OnePerBlock, Entries
<1> QED  BY <1>1, <1>2, <1>3, PTL DEF Spec

(* While an expansion re-inserts the old pairs, they always fit: it is     *)
(* never entered again from within.                                        *)
THEOREM RehashAlwaysFits == Spec => []RehashFits
<1>1. Init => TableInv /\ ListInv  BY InitCache
<1>2. (TableInv /\ ListInv) /\ [Next]_vars => (TableInv /\ ListInv)'  BY CallCache
<1>3. ASSUME TableInv PROVE RehashFits
  <2>1. PICK m : m = Cardinality(mCacher!Stored)  OBVIOUS
  <2>2. m \in Nat /\ m <= mItemNum /\ mItemNum \in Nat /\ mTableSize \in Nat
        /\ 4 * (mItemNum - 1) <= 3 * mTableSize
    BY <1>3, <2>1, FS_CardinalityType DEF TableInv, SizeInv
  <2>3. 4 * (m - 1) <= 3 * mTableSize  BY <2>2
  <2> QED  BY <2>1, <2>3, SameCount DEF RehashFits, mCacher!RehashFits
<1> QED  BY <1>1, <1>2, <1>3, PTL DEF Spec

(* Every pair is in the bucket of its key, one pair for each key, through  *)
(* every expansion, failed ones and removals with the wrong divisor        *)
(* included.                                                               *)
THEOREM AlwaysWellPlaced == Spec => []WellPlaced
<1>1. Init => TableInv /\ ListInv  BY InitCache
<1>2. (TableInv /\ ListInv) /\ [Next]_vars => (TableInv /\ ListInv)'  BY CallCache
<1>3. ASSUME TableInv PROVE WellPlaced
  <2>1. PICK n, h : n = mTableSize /\ h = mCacher!HashKeyFor(mTableSize)  OBVIOUS
  <2>2. Placed(mTable, n, h)  BY <1>3, <2>1 DEF TableInv
  <2>3. DOMAIN mTable = 0 .. n - 1 /\ \A b \in 0 .. n - 1 : OnePerKey(mTable[b])  BY <2>2 DEF Placed
  <2>4. \A b \in DOMAIN mTable : \A i \in DOMAIN mTable[b] : mTable[b][i][1] % h = b
    BY <2>2, <2>3 DEF Placed
  <2>5. \A p, q \in mCacher!Stored : p[1] = q[1] => p = q
    BY <2>2, TableElements DEF mCacher!Stored
  <2>6. \A b \in DOMAIN mTable : mCacher!Cardinality(mCacher!ToSet(mTable[b])) = Len(mTable[b])
    BY <2>3, ChainCount
  <2> QED  BY <2>1, <2>4, <2>5, <2>6 DEF WellPlaced, mCacher!WellPlaced
<1> QED  BY <1>1, <1>2, <1>3, PTL DEF Spec

-----------------------------------------------------------------------------
(* p is the pair of an entry of a list.                                    *)
PairIn(p, list) == \E i \in DOMAIN list : p = <<list[i].id, list[i].ptr>>

(* The pairs that are left after the removal of some blocks.               *)
LEMMA RemainingPairs ==
  ASSUME NEW list, OnePerBlock(list), NEW ids, NEW r, r = RemoveNodeFromLUNCache(list, ids)
  PROVE  \A p : PairIn(p, r) <=> PairIn(p, list) /\ p[1] \notin ids
<1>1. /\ \A j \in DOMAIN r : \E i \in DOMAIN list : r[j] = list[i] /\ list[i].id \notin ids
      /\ \A i \in DOMAIN list : list[i].id \notin ids => \E j \in DOMAIN r : r[j] = list[i]
  <2>1. \A j \in DOMAIN r : \E i \in DOMAIN list : r[j] = list[i] /\ list[i].id \notin ids
    BY RemovalKeeps
  <2>2. \A i \in DOMAIN list : list[i].id \notin ids => \E j \in DOMAIN r : r[j] = list[i]
    BY RemovalKeeps
  <2> QED  BY <2>1, <2>2
<1>2. ASSUME NEW p, PairIn(p, r) PROVE PairIn(p, list) /\ p[1] \notin ids
  <2>1. PICK j \in DOMAIN r : p = <<r[j].id, r[j].ptr>>  BY <1>2 DEF PairIn
  <2>2. PICK i \in DOMAIN list : r[j] = list[i] /\ list[i].id \notin ids  BY <1>1
  <2> QED  BY <2>1, <2>2 DEF PairIn
<1>3. ASSUME NEW p, PairIn(p, list), p[1] \notin ids PROVE PairIn(p, r)
  <2>1. PICK i \in DOMAIN list : p = <<list[i].id, list[i].ptr>>  BY <1>3 DEF PairIn
  <2>2. PICK j \in DOMAIN r : r[j] = list[i]  BY <1>1, <1>3, <2>1
  <2> QED  BY <2>1, <2>2 DEF PairIn
<1> QED  BY <1>2, <1>3

(* The pairs of the longer list.                                           *)
LEMMA PairsOfLonger ==
  ASSUME NEW list, OnePerBlock(list), NEW id \in Ids, NEW node \in Nodes,
         NEW l, l = Longer(list, id, node)
  PROVE  \A p : PairIn(p, l) <=> (PairIn(p, list) /\ p[1] # id) \/ p = <<id, node>>
<1>1. PICK r : r = RemoveNodeFromLUNCache(list, {id})  OBVIOUS
<1>2. /\ Len(r) \in Nat /\ DOMAIN l = 1 .. Len(r) + 1 /\ OnePerBlock(r)
      /\ l[1] = [id |-> id, ptr |-> node] /\ \A j \in 1 .. Len(r) : l[j + 1] = r[j]
      /\ \A i \in 1 .. Len(r) + 1 : i = 1 \/ (i - 1 \in 1 .. Len(r) /\ l[i] = r[i - 1])
  BY <1>1, LongerList
<1>3. DOMAIN r = 1 .. Len(r)  BY <1>2, LenProperties DEF OnePerBlock
<1>4. \A p : PairIn(p, r) <=> PairIn(p, list) /\ p[1] \notin {id}  BY <1>1, RemainingPairs
<1>5. ASSUME NEW p, PairIn(p, l) PROVE PairIn(p, r) \/ p = <<id, node>>
  <2>1. PICK i \in 1 .. Len(r) + 1 : p = <<l[i].id, l[i].ptr>>  BY <1>2, <1>5 DEF PairIn
  <2>2. CASE i = 1  BY <1>2, <2>1, <2>2
  <2>3. CASE i # 1
    <3>1. i - 1 \in DOMAIN r /\ l[i] = r[i - 1]  BY <1>2, <1>3, <2>3
    <3> QED  BY <2>1, <3>1 DEF PairIn
  <2> QED  BY <2>2, <2>3
<1>6. ASSUME NEW p, PairIn(p, r) PROVE PairIn(p, l)
  <2>1. PICK j \in DOMAIN r : p = <<r[j].id, r[j].ptr>>  BY <1>6 DEF PairIn
  <2>2. j + 1 \in DOMAIN l /\ l[j + 1] = r[j]  BY <1>2, <1>3
  <2> QED  BY <2>1, <2>2 DEF PairIn
<1>7. PairIn(<<id, node>>, l)
  <2>1. 1 \in DOMAIN l /\ l[1].id = id /\ l[1].ptr = node  BY <1>2
  <2> QED  BY <2>1 DEF PairIn
<1> QED  BY <1>4, <1>5, <1>6, <1>7

HoldsAdded == \A p : p \in mCacher!Stored <=> PairIn(p, added)

HistoryInv == OnePerBlock(added) /\ PrefixOf(mLUNCache, added) /\ HoldsAdded

SafeInv == TableInv /\ ListInv /\ HistoryInv

(* Initially nothing was added and nothing is held.                        *)
LEMMA InitSafe == ASSUME MCInit PROVE SafeInv
<1>1. TableInv /\ ListInv  BY InitCache DEF MCInit
<1>2. mLUNCache = <<>> /\ added = <<>> /\ mTable = mCacher!EmptyTable(InitSize)
  BY DEF MCInit, Init, mCacher!Init
<1>3. \A p : p \notin mCacher!Stored  BY <1>2, NoPairs DEF mCacher!Stored
<1>4. OnePerBlock(<<>>) /\ DOMAIN <<>> = {} /\ Len(<<>>) = 0  BY DEF OnePerBlock
<1>5. PrefixOf(<<>>, <<>>)  BY <1>4 DEF PrefixOf
<1>6. HoldsAdded  BY <1>2, <1>3, <1>4 DEF HoldsAdded, PairIn
<1> QED  BY <1>1, <1>2, <1>4, <1>5, <1>6 DEF SafeInv, HistoryInv

(* AddNode and the history of its callers.                                 *)
LEMMA AddSafe ==
  ASSUME "rehash" \notin Failures, SafeInv, NEW id \in Ids, NEW node \in Nodes, MCAdd(id, node)
  PROVE  SafeInv' /\ Calls!Insert(id, node)
<1>1. mCacher!Insert(id, node)  BY DEF MCAdd, AddNode
<1>2. TableInv'  BY <1>1, InsertTable DEF SafeInv
<1>3. PICK ok \in BOOLEAN, kept \in mCacher!Survivors :
        /\ call' = <<"insert", id, node, ok>>
        /\ \A p : p \in mCacher!Stored'
                    <=> \/ p \in mCacher!Stored /\ p \in kept /\ (ok => p[1] # id)
                        \/ ok /\ p = <<id, node>>
  BY <1>1, InsertTable DEF SafeInv
<1>4. kept = mCacher!Stored  BY DEF mCacher!Survivors, mCacher!Stored
<1>5. \A p : p \in mCacher!Stored'
               <=> (p \in mCacher!Stored /\ (ok => p[1] # id)) \/ (ok /\ p = <<id, node>>)
  BY <1>3, <1>4
<1>6. call'[4] = ok  BY <1>3
<1>7. Calls!Insert(id, node)
  <2>1. CASE ok
    <3>1. \A p : p \in mCacher!Stored' <=> p \in Calls!Without(id) \cup {<<id, node>>}
      BY <1>5, <2>1 DEF Calls!Without
    <3>2. mCacher!Stored' = Calls!Without(id) \cup {<<id, node>>}  BY <3>1
    <3> QED  BY <1>3, <2>1, <3>2 DEF Calls!Insert
  <2>2. CASE ~ ok
    <3>1. mCacher!Stored' = mCacher!Stored  BY <1>5, <2>2
    <3> QED  BY <1>3, <2>2, <3>1 DEF Calls!Insert
  <2> QED  BY <2>1, <2>2
<1>8. CASE ~ ok
  <2>1. mLUNCache' = mLUNCache /\ added' = added  BY <1>6, <1>8 DEF MCAdd, AddNode
  <2>2. \A p : p \in mCacher!Stored' <=> p \in mCacher!Stored  BY <1>5, <1>8
  <2>3. HoldsAdded'  BY <2>1, <2>2 DEF SafeInv, HistoryInv, HoldsAdded
  <2>4. HistoryInv' /\ ListInv'  BY <2>1, <2>3 DEF SafeInv, HistoryInv, ListInv
  <2> QED  BY <1>2, <1>7, <2>4 DEF SafeInv
<1>9. CASE ok
  <2>1. PICK c, l, m : /\ c = AddNodeIntoLUNCache(mLUNCache, id, node)
                       /\ l = Longer(mLUNCache, id, node) /\ m = Longer(added, id, node)
    OBVIOUS
  <2>2. mLUNCache' = c /\ added' = m
    BY <1>6, <1>9, <2>1 DEF MCAdd, AddNode, Others, Longer
  <2>3. OnePerBlock(mLUNCache) /\ OnePerBlock(added) /\ PrefixOf(mLUNCache, added) /\ HoldsAdded
    BY DEF SafeInv, ListInv, HistoryInv
  <2>4. OnePerBlock(c) /\ Len(c) <= MaxLUNCacheSize /\ PrefixOf(c, l)  BY <2>1, <2>3, AddedList
  <2>5. PICK r, s : r = RemoveNodeFromLUNCache(mLUNCache, {id}) /\ s = RemoveNodeFromLUNCache(added, {id})
    OBVIOUS
  <2>6. PrefixOf(r, s)  BY <2>3, <2>5, RemovalOfPrefix DEF OnePerBlock
  <2>7. /\ OnePerBlock(l) /\ Len(l) = Len(r) + 1 /\ Len(r) \in Nat
        /\ l[1] = [id |-> id, ptr |-> node]
        /\ \A i \in 1 .. Len(r) + 1 : i = 1 \/ (i - 1 \in 1 .. Len(r) /\ l[i] = r[i - 1])
    BY <2>1, <2>3, <2>5, LongerList
  <2>8. /\ OnePerBlock(m) /\ Len(m) = Len(s) + 1 /\ Len(s) \in Nat
        /\ m[1] = [id |-> id, ptr |-> node]
        /\ \A i \in 1 .. Len(s) + 1 : i = 1 \/ (i - 1 \in 1 .. Len(s) /\ m[i] = s[i - 1])
    BY <2>1, <2>3, <2>5, LongerList
  <2>9. PrefixOf(l, m)
    <3>1. Len(r) <= Len(s) /\ \A j \in 1 .. Len(r) : r[j] = s[j]  BY <2>6 DEF PrefixOf
    <3>2. Len(l) <= Len(m)  BY <2>7, <2>8, <3>1
    <3>3. ASSUME NEW i \in 1 .. Len(l) PROVE l[i] = m[i]
      <4>1. CASE i = 1  BY <2>7, <2>8, <4>1
      <4>2. CASE i # 1
        <5>1. i \in 1 .. Len(r) + 1 /\ i \in 1 .. Len(s) + 1  BY <2>7, <2>8, <3>1, <3>3
        <5>2. i - 1 \in 1 .. Len(r) /\ l[i] = r[i - 1] /\ m[i] = s[i - 1]
          BY <2>7, <2>8, <4>2, <5>1
        <5> QED  BY <3>1, <5>2
      <4> QED  BY <4>1, <4>2
    <3> QED  BY <3>2, <3>3 DEF PrefixOf
  <2>10. PrefixOf(c, m)
    <3>1. Len(c) \in Nat /\ Len(l) \in Nat /\ Len(m) \in Nat
      BY <2>4, <2>7, <2>8, LenProperties DEF OnePerBlock
    <3> QED  BY <2>4, <2>9, <3>1, PrefixTransitive
  <2>11. HoldsAdded'
    <3>1. \A p : PairIn(p, m) <=> (PairIn(p, added) /\ p[1] # id) \/ p = <<id, node>>
      BY <2>1, <2>3, PairsOfLonger
    <3>2. \A p : p \in mCacher!Stored' <=> PairIn(p, m)
      BY <1>5, <1>9, <2>3, <3>1 DEF HoldsAdded
    <3> QED  BY <2>2, <3>2 DEF HoldsAdded, PairIn
  <2>12. HistoryInv' /\ ListInv'
    BY <2>2, <2>4, <2>8, <2>10, <2>11 DEF HistoryInv, ListInv
  <2> QED  BY <1>2, <1>7, <2>12 DEF SafeInv
<1> QED  BY <1>8, <1>9

(* RemoveNode of a block whose removal loses no other one.                 *)
LEMMA RemoveSafe ==
  ASSUME SafeInv, NEW id \in Ids, Removable(id), MCRemove(id)
  PROVE  SafeInv' /\ Calls!Remove(id)
<1>1. mCacher!RemoveKey(id)  BY DEF MCRemove, RemoveNode
<1>2. TableInv' /\ call' = <<"remove", id>>  BY <1>1, RemoveTable DEF SafeInv
<1>3. \A p : p \in mCacher!Stored' <=> p \in mCacher!Stored /\ p[1] # id
  BY <1>1, RemoveTable DEF SafeInv
<1>4. PICK r, s : r = RemoveNodeFromLUNCache(mLUNCache, {id}) /\ s = RemoveNodeFromLUNCache(added, {id})
  OBVIOUS
<1>5. mLUNCache' = r /\ added' = s  BY <1>4 DEF MCRemove, RemoveNode, Others
<1>6. OnePerBlock(mLUNCache) /\ OnePerBlock(added) /\ PrefixOf(mLUNCache, added) /\ HoldsAdded
      /\ Len(mLUNCache) <= MaxLUNCacheSize
  BY DEF SafeInv, ListInv, HistoryInv
<1>7. PrefixOf(r, s)  BY <1>4, <1>6, RemovalOfPrefix DEF OnePerBlock
<1>8. OnePerBlock(r) /\ Len(r) <= Len(mLUNCache)  BY <1>4, <1>6, RemovalKeeps
<1>9. OnePerBlock(s)  BY <1>4, <1>6, RemovalKeeps
<1>10. ListInv'
  <2>1. Len(r) \in Nat /\ Len(mLUNCache) \in Nat  BY <1>6, <1>8, LenProperties DEF OnePerBlock
  <2>2. Len(r) <= MaxLUNCacheSize  BY <1>6, <1>8, <2>1, CacheSizeAssumption
  <2> QED  BY <1>5, <1>8, <2>2 DEF ListInv
<1>11. HoldsAdded'
  <2>1. \A p : PairIn(p, s) <=> PairIn(p, added) /\ p[1] \notin {id}
    BY <1>4, <1>6, RemainingPairs
  <2>2. \A p : p \in mCacher!Stored' <=> PairIn(p, s)  BY <1>3, <1>6, <2>1 DEF HoldsAdded
  <2> QED  BY <1>5, <2>2 DEF HoldsAdded, PairIn
<1>12. Calls!Remove(id)
  <2>1. \A p : p \in mCacher!Stored' <=> p \in Calls!Without(id)  BY <1>3 DEF Calls!Without
  <2>2. mCacher!Stored' = Calls!Without(id)  BY <2>1
  <2> QED  BY <1>2, <2>2 DEF Calls!Remove
<1> QED  BY <1>2, <1>5, <1>7, <1>9, <1>10, <1>11, <1>12 DEF SafeInv, HistoryInv

(* Clear with the right divisor.                                           *)
LEMMA ClearSafe ==
  ASSUME SafeInv, RightDivisor, MCClear
  PROVE  SafeInv' /\ Calls!Clear
<1>1. TableInv' /\ mCacher!Stored' = {} /\ call' = <<"clear">> /\ added' = <<>>
  BY ClearTable DEF MCClear, Clear, SafeInv
<1>2. PICK ids : ids = {p[1] : p \in mCacher!Stored}  OBVIOUS
<1>3. PICK r : r = RemoveNodeFromLUNCache(mLUNCache, ids)  OBVIOUS
<1>4. mLUNCache' = r  BY <1>2, <1>3 DEF MCClear, Clear
<1>5. OnePerBlock(mLUNCache) /\ OnePerBlock(added) /\ PrefixOf(mLUNCache, added) /\ HoldsAdded
  BY DEF SafeInv, ListInv, HistoryInv
<1>6. \A i \in DOMAIN mLUNCache : mLUNCache[i].id \in ids
  <2>1. SUFFICES ASSUME NEW i \in DOMAIN mLUNCache PROVE mLUNCache[i].id \in ids  OBVIOUS
  <2>2. DOMAIN mLUNCache = 1 .. Len(mLUNCache) /\ DOMAIN added = 1 .. Len(added)
        /\ Len(mLUNCache) \in Nat /\ Len(added) \in Nat
    BY <1>5, LenProperties DEF OnePerBlock
  <2>3. i \in DOMAIN added /\ mLUNCache[i] = added[i]  BY <1>5, <2>2 DEF PrefixOf
  <2>4. PairIn(<<added[i].id, added[i].ptr>>, added)  BY <2>3 DEF PairIn
  <2>5. <<added[i].id, added[i].ptr>> \in mCacher!Stored  BY <1>5, <2>4 DEF HoldsAdded
  <2> QED  BY <1>2, <2>3, <2>5
<1>7. OnePerBlock(r) /\ DOMAIN r = {}
  <2>1. OnePerBlock(r) /\ \A j \in DOMAIN r : \E i \in DOMAIN mLUNCache :
                            r[j] = mLUNCache[i] /\ mLUNCache[i].id \notin ids
    BY <1>3, <1>5, RemovalKeeps
  <2> QED  BY <1>6, <2>1
<1>8. Len(r) = 0 /\ r = <<>>
  <2>1. r \in Seq(Entries) /\ Len(r) \in Nat /\ DOMAIN r = 1 .. Len(r)
    BY <1>7, LenProperties DEF OnePerBlock
  <2>2. ~ (Len(r) >= 1)  BY <1>7, <2>1
  <2>3. Len(r) = 0  BY <2>1, <2>2
  <2> QED  BY <2>1, <2>3, EmptySeq
<1>9. OnePerBlock(<<>>) /\ DOMAIN <<>> = {} /\ Len(<<>>) = 0 /\ PrefixOf(<<>>, <<>>)
  <2>1. OnePerBlock(<<>>) /\ DOMAIN <<>> = {} /\ Len(<<>>) = 0  BY DEF OnePerBlock
  <2> QED  BY <2>1 DEF PrefixOf
<1>10. HoldsAdded'
  <2>1. \A p : ~ PairIn(p, <<>>)  BY <1>9 DEF PairIn
  <2> QED  BY <1>1, <2>1 DEF HoldsAdded, PairIn
<1>11. ListInv' /\ HistoryInv'
  BY <1>1, <1>4, <1>8, <1>9, <1>10, CacheSizeAssumption DEF ListInv, HistoryInv
<1>12. Calls!Clear  BY <1>1 DEF Calls!Clear
<1> QED  BY <1>1, <1>11, <1>12 DEF SafeInv

(* Every call keeps the invariant and is a call of the map.                *)
LEMMA SafeStep ==
  ASSUME "rehash" \notin Failures, SafeInv, [SafeNext]_mcvars
  PROVE  SafeInv' /\ [Calls!Next]_(Calls!vars)
<1>1. ASSUME NEW id \in Ids, NEW node \in Nodes, MCAdd(id, node)
      PROVE  SafeInv' /\ Calls!Next
  <2>1. SafeInv' /\ Calls!Insert(id, node)  BY <1>1, AddSafe
  <2> QED  BY <2>1 DEF Calls!Next
<1>2. ASSUME NEW id \in Ids, Removable(id), MCRemove(id) PROVE SafeInv' /\ Calls!Next
  <2>1. SafeInv' /\ Calls!Remove(id)  BY <1>2, RemoveSafe
  <2> QED  BY <2>1 DEF Calls!Next
<1>3. CASE RightDivisor /\ MCClear
  <2>1. SafeInv' /\ Calls!Clear  BY <1>3, ClearSafe
  <2> QED  BY <2>1 DEF Calls!Next
<1>4. CASE UNCHANGED mcvars
  <2>1. UNCHANGED vars /\ UNCHANGED <<mTable, call, mLUNCache, added>>  BY <1>4 DEF mcvars, vars
  <2>2. TableInv' /\ ListInv'  BY <2>1, CallCache DEF SafeInv
  <2>3. mCacher!Stored' = mCacher!Stored  BY <2>1 DEF mCacher!Stored, mCacher!Elements, mCacher!ToSet
  <2>4. HistoryInv'  BY <2>1, <2>3 DEF SafeInv, HistoryInv, HoldsAdded
  <2>5. UNCHANGED Calls!vars  BY <2>1, <2>3 DEF Calls!vars
  <2> QED  BY <2>2, <2>4, <2>5 DEF SafeInv
<1> QED  BY <1>1, <1>2, <1>3, <1>4 DEF SafeNext

(* What is in the bucket that GetNode searches.                            *)
LEMMA BucketHolds ==
  ASSUME SafeInv, NEW id \in Ids, NEW S, S = {p[2] : p \in mCacher!InOneBucket(id)},
         mCacher!Hash(id) \in DOMAIN mTable
  PROVE  /\ S \subseteq LastAdded(id)
         /\ RightDivisor => LastAdded(id) \subseteq S
<1>1. PICK n, h : n = mTableSize /\ h = mCacher!HashKeyFor(n)  OBVIOUS
<1>2. Placed(mTable, n, h)  BY <1>1, RightSize DEF SafeInv
<1>3. DOMAIN mTable = 0 .. n - 1  BY <1>2 DEF Placed
<1>4. /\ \A p : p \in mCacher!Stored <=> \E b \in 0 .. n - 1 : p \in ToSet(mTable[b])
      /\ \A p \in mCacher!Stored : p \in ToSet(mTable[p[1] % h])
  BY <1>2, TableElements DEF mCacher!Stored
<1>5. \A p : p \in mCacher!Stored <=> \E i \in DOMAIN added : p = <<added[i].id, added[i].ptr>>
  BY DEF SafeInv, HistoryInv, HoldsAdded, PairIn
<1>6. PICK b : b = mCacher!Hash(id)  OBVIOUS
<1>7. \A p : p \in mCacher!InOneBucket(id) <=> p \in ToSet(mTable[b]) /\ p[1] = id
  BY <1>6 DEF mCacher!InOneBucket, mCacher!Positions, ToSet
<1>8. ASSUME NEW x \in S PROVE x \in LastAdded(id)
  <2>1. PICK p \in mCacher!InOneBucket(id) : x = p[2]  OBVIOUS
  <2>2. p[1] = id /\ p \in mCacher!Stored  BY <1>3, <1>4, <1>6, <1>7
  <2>3. PICK i \in DOMAIN added : p = <<added[i].id, added[i].ptr>>  BY <1>5, <2>2
  <2>4. added[i].id = id /\ x = added[i].ptr  BY <2>1, <2>2, <2>3
  <2> QED  BY <2>4 DEF LastAdded
<1>9. ASSUME RightDivisor, NEW x \in LastAdded(id) PROVE x \in S
  <2>1. PICK i \in DOMAIN added : added[i].id = id /\ x = added[i].ptr  BY DEF LastAdded
  <2>2. PICK p : p = <<id, x>>  OBVIOUS
  <2>3. p \in mCacher!Stored /\ p[1] = id /\ p[2] = x  BY <1>5, <2>1, <2>2
  <2>4. b = id % h  BY <1>1, <1>6, <1>9 DEF RightDivisor, mCacher!Hash
  <2>5. p \in mCacher!InOneBucket(id)  BY <1>4, <1>7, <2>3, <2>4
  <2> QED  BY <2>3, <2>5
<1> QED  BY <1>8, <1>9

(* With the right divisor GetNode searches inside the table.               *)
LEMMA SearchesInside ==
  ASSUME TableInv, RightDivisor, NEW id \in Ids
  PROVE  mCacher!Hash(id) \in DOMAIN mTable
<1>1. PICK n, h : n = mTableSize /\ h = mCacher!HashKeyFor(n)  OBVIOUS
<1>2. n \in Nat /\ h \in 1 .. n - 1 /\ Placed(mTable, n, h)  BY <1>1, RightSize
<1>3. id % h \in 0 .. n - 1  BY <1>2, BucketOf
<1>4. mCacher!Hash(id) = id % h  BY <1>1 DEF RightDivisor, mCacher!Hash
<1> QED  BY <1>2, <1>3, <1>4 DEF Placed

(* As long as every pair that an expansion re-inserts finds a node: with   *)
(* the right divisor GetNode answers with what the last AddNode gave the   *)
(* block, and with NULL if there is nothing; after an expansion that       *)
(* failed it may miss a node, but finds none that was replaced or removed, *)
(* as long as it searches inside the table; and every node added and not   *)
(* removed is held, for the next expansion to place it.                    *)
THEOREM CacheFindsWhatWasAdded ==
  ASSUME "rehash" \notin Failures
  PROVE  SafeSpec => []FindsWhatWasAdded
<1>1. MCInit => SafeInv  BY InitSafe
<1>2. SafeInv /\ [SafeNext]_mcvars => SafeInv'  BY SafeStep
<1>3. ASSUME SafeInv PROVE FindsWhatWasAdded
  <2>1. \A p : p \in mCacher!Stored <=> \E i \in DOMAIN added : p = <<added[i].id, added[i].ptr>>
    BY <1>3 DEF SafeInv, HistoryInv, HoldsAdded, PairIn
  <2>2. \A p : p \in mCacher!Stored <=> p \in {<<added[i].id, added[i].ptr>> : i \in DOMAIN added}
    BY <2>1
  <2>3. mCacher!Stored = {<<added[i].id, added[i].ptr>> : i \in DOMAIN added}  BY <2>2
  <2>4. ASSUME NEW id \in Ids, mCacher!Hash(id) \in DOMAIN mTable
        PROVE  GetNode(id) \subseteq LastAdded(id) \cup {NULL}
    <3>1. PICK S : S = {p[2] : p \in mCacher!InOneBucket(id)}  OBVIOUS
    <3>2. S \subseteq LastAdded(id)  BY <1>3, <2>4, <3>1, BucketHolds
    <3>3. GetNode(id) = S \/ GetNode(id) = {NULL}  BY <2>4, <3>1 DEF GetNode
    <3> QED  BY <3>2, <3>3
  <2>5. ASSUME NEW id \in Ids, RightDivisor
        PROVE  GetNode(id) = IF LastAdded(id) = {} THEN {NULL} ELSE LastAdded(id)
    <3>1. PICK S : S = {p[2] : p \in mCacher!InOneBucket(id)}  OBVIOUS
    <3>2. mCacher!Hash(id) \in DOMAIN mTable  BY <1>3, <2>5, SearchesInside DEF SafeInv
    <3>3. S = LastAdded(id)  BY <1>3, <2>5, <3>1, <3>2, BucketHolds
    <3>4. S = {} <=> mCacher!InOneBucket(id) = {}  BY <3>1
    <3>5. CheckNodeExistance(id) <=> S # {}  BY <3>2, <3>4 DEF CheckNodeExistance, mCacher!CheckKey
    <3>6. CASE S = {}
      <4>1. GetNode(id) = {NULL}  BY <3>2, <3>5, <3>6 DEF GetNode
      <4> QED  BY <3>3, <3>6, <4>1
    <3>7. CASE S # {}
      <4>1. GetNode(id) = S  BY <3>1, <3>2, <3>5, <3>7 DEF GetNode
      <4> QED  BY <3>3, <3>7, <4>1
    <3> QED  BY <3>6, <3>7
  <2> QED  BY <2>3, <2>4, <2>5 DEF FindsWhatWasAdded
<1> QED  BY <1>1, <1>2, <1>3, PTL DEF SafeSpec

(* Every node that FlushCache may delete was added before every node that  *)
(* it may not: the list is always the front of the history.                *)
THEOREM CacheFlushesOldest ==
  ASSUME "rehash" \notin Failures
  PROVE  SafeSpec => []FlushesOldest
<1>1. MCInit => SafeInv  BY InitSafe
<1>2. SafeInv /\ [SafeNext]_mcvars => SafeInv'  BY SafeStep
<1>3. ASSUME SafeInv PROVE FlushesOldest
  <2>1. OnePerBlock(mLUNCache) /\ OnePerBlock(added) /\ PrefixOf(mLUNCache, added)
    BY <1>3 DEF SafeInv, ListInv, HistoryInv
  <2>2. /\ DOMAIN mLUNCache = 1 .. Len(mLUNCache) /\ DOMAIN added = 1 .. Len(added)
        /\ Len(mLUNCache) \in Nat /\ Len(added) \in Nat
    BY <2>1, LenProperties DEF OnePerBlock
  <2>3. /\ \A i \in 1 .. Len(mLUNCache) : i \in DOMAIN added /\ mLUNCache[i] = added[i]
        /\ Len(mLUNCache) <= Len(added)
    BY <2>1, <2>2 DEF PrefixOf
  <2>4. \A id \in Listed : \E i \in 1 .. Len(mLUNCache) : id = added[i].id
    BY <2>2, <2>3 DEF Listed
  <2>5. Listed \subseteq {added[i].id : i \in DOMAIN added}  BY <2>3, <2>4
  <2>6. ASSUME NEW i \in DOMAIN added, NEW j \in DOMAIN added,
               added[i].id \in GetToFlushNodes, added[j].id \in Listed
        PROVE  j < i
    <3>1. added[i].id \notin Listed  BY <2>6 DEF GetToFlushNodes
    <3>2. i \notin 1 .. Len(mLUNCache)  BY <2>2, <2>3, <3>1 DEF Listed
    <3>3. PICK k \in 1 .. Len(mLUNCache) : added[j].id = added[k].id  BY <2>4, <2>6
    <3>4. j = k  BY <2>1, <2>3, <3>3 DEF OnePerBlock
    <3> QED  BY <2>2, <3>2, <3>3, <3>4
  <2> QED  BY <2>5, <2>6 DEF FlushesOldest
<1> QED  BY <1>1, <1>2, <1>3, PTL DEF SafeSpec

(* The hash table under the cache implements a map from block numbers to   *)
(* nodes: every call of the cache is one step of the map.                  *)
THEOREM CacheImplementsMap ==
  ASSUME "rehash" \notin Failures
  PROVE  SafeSpec => ImplementsMap
<1>1. MCInit => SafeInv  BY InitSafe
<1>2. SafeInv /\ [SafeNext]_mcvars => SafeInv' /\ [Calls!Next]_(Calls!vars)  BY SafeStep
<1>3. ASSUME MCInit PROVE Calls!Init
  <2>1. mTable = mCacher!EmptyTable(InitSize) /\ call = <<>>  BY <1>3 DEF MCInit, Init, mCacher!Init
  <2>2. \A p : p \notin mCacher!Stored  BY <2>1, NoPairs DEF mCacher!Stored
  <2>3. mCacher!Stored = {}  BY <2>2
  <2> QED  BY <2>1, <2>3 DEF Calls!Init
<1> QED  BY <1>1, <1>2, <1>3, PTL DEF SafeSpec, ImplementsMap, Calls!Spec
=============================================================================
