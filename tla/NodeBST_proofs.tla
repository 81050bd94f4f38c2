---------------------------- MODULE NodeBST_proofs ----------------------------
(***************************************************************************)
(* The binary search tree of a node, for every finite set of byte strings, *)
(* while memcmp answers with a sign.                                       *)
(***************************************************************************)
EXTENDS MCNodeBST, SequenceTheorems, FiniteSetTheorems, WellFoundedInduction, TLAPS

-----------------------------------------------------------------------------
(* The order of byte strings.                                              *)

(* i is where it shows that a is below b.                                  *)
LessAt(a, b, i) ==
  /\ i \in 1 .. Len(b)
  /\ \A j \in 1 .. i - 1 : j <= Len(a) /\ a[j] = b[j]
  /\ \/ i = Len(a) + 1
     \/ i <= Len(a) /\ a[i] < b[i]

(* A set of numbers that is not empty has a least one.                     *)
LEMMA LeastNumber ==
  ASSUME NEW S \in SUBSET Nat, S # {}
  PROVE  \E x \in S : \A y \in S : x <= y
<1>1. PICK x \in S : \A y \in S : <<y, x>> \notin OpToRel(<, Nat)
  BY NatLessThanWellFounded, WFMin
<1>2. \A y \in S : ~(y < x)  BY <1>1 DEF OpToRel
<1> QED  BY <1>2

(* Min finds it.                                                           *)
LEMMA MinIs ==
  ASSUME NEW S \in SUBSET Nat, S # {}
  PROVE  Min(S) \in S /\ \A y \in S : Min(S) <= y
BY LeastNumber DEF Min

(* The shorter length.                                                     *)
LEMMA MinOfTwo ==
  ASSUME NEW m \in Nat, NEW n \in Nat
  PROVE  Min({m, n}) = IF m <= n THEN m ELSE n
<1>1. {m, n} \in SUBSET Nat /\ {m, n} # {}  OBVIOUS
<1>2. Min({m, n}) \in {m, n} /\ \A y \in {m, n} : Min({m, n}) <= y  BY <1>1, MinIs
<1> QED  BY <1>2

(* Keys are sequences of bytes.                                            *)
LEMMA KeyIsSeq ==
  ASSUME NEW a \in Keys
  PROVE  /\ a \in Seq(0..255) /\ Len(a) \in Nat /\ Len(a) >= 1 /\ a # Null
         /\ \A i \in 1 .. Len(a) : a[i] \in 0..255
<1>1. a \in Seq(0..255) /\ a # <<>>  BY KeysAssumption
<1> QED  BY <1>1, LenProperties, ElementOfSeq, EmptySeq DEF Null

(* Strings of one length that agree everywhere are the same.               *)
LEMMA SameString ==
  ASSUME NEW a \in Keys, NEW b \in Keys, Len(a) = Len(b), \A i \in 1 .. Len(a) : a[i] = b[i]
  PROVE  a = b
BY KeyIsSeq, SeqEqual

(* Less, by the place where it shows.                                      *)
LEMMA LessIs ==
  ASSUME NEW a \in Keys, NEW b \in Keys
  PROVE  Less(a, b) <=> \E i \in 1 .. Len(b) : LessAt(a, b, i)
<1> DEFINE m == Len(a)
           n == Len(b)
<1>1. /\ m \in Nat /\ n \in Nat /\ a \in Seq(0..255) /\ b \in Seq(0..255)
      /\ (\A i \in 1 .. m : a[i] \in 0..255) /\ \A i \in 1 .. n : b[i] \in 0..255
  BY KeyIsSeq
<1>2. ASSUME NEW i \in 0 .. m, i <= n
      PROVE  SubSeq(a, 1, i) = SubSeq(b, 1, i) <=> \A j \in 1 .. i : a[j] = b[j]
  <2>1. \A j \in 1 .. i : a[j] \in 0..255 /\ b[j] \in 0..255  BY <1>1, <1>2
  <2>2. /\ SubSeq(a, 1, i) \in Seq(0..255) /\ Len(SubSeq(a, 1, i)) = IF 1 <= i THEN i - 1 + 1 ELSE 0
        /\ \A j \in 1 .. i - 1 + 1 : SubSeq(a, 1, i)[j] = a[1 + j - 1]
    BY <2>1, <1>1, SubSeqProperties
  <2>3. /\ SubSeq(b, 1, i) \in Seq(0..255) /\ Len(SubSeq(b, 1, i)) = IF 1 <= i THEN i - 1 + 1 ELSE 0
        /\ \A j \in 1 .. i - 1 + 1 : SubSeq(b, 1, i)[j] = b[1 + j - 1]
    BY <2>1, <1>1, SubSeqProperties
  <2>4. Len(SubSeq(a, 1, i)) = i /\ \A j \in 1 .. i : SubSeq(a, 1, i)[j] = a[j]  BY <2>2, <1>1
  <2>5. Len(SubSeq(b, 1, i)) = i /\ \A j \in 1 .. i : SubSeq(b, 1, i)[j] = b[j]  BY <2>3, <1>1
  <2>6. ASSUME \A j \in 1 .. i : a[j] = b[j] PROVE SubSeq(a, 1, i) = SubSeq(b, 1, i)
    BY <2>2, <2>3, <2>4, <2>5, <2>6, SeqEqual
  <2> QED  BY <2>4, <2>5, <2>6
<1>3. IsStrictPrefix(a, b) <=> m < n /\ \A j \in 1 .. m : a[j] = b[j]
  <2>1. ASSUME m <= n PROVE SubSeq(a, 1, m) = SubSeq(b, 1, m) <=> \A j \in 1 .. m : a[j] = b[j]
    BY <1>1, <1>2, <2>1
  <2>2. m = n /\ (\A j \in 1 .. m : a[j] = b[j]) => a = b  BY SameString
  <2> QED  BY <1>1, <2>1, <2>2 DEF IsStrictPrefix, IsPrefix
<1>4. Min({m, n}) = IF m <= n THEN m ELSE n  BY <1>1, MinOfTwo
<1>5. Less(a, b) <=> \/ m < n /\ \A j \in 1 .. m : a[j] = b[j]
                     \/ \E i \in 1 .. n : i <= m /\ a[i] < b[i] /\ \A j \in 1 .. i - 1 : a[j] = b[j]
  <2>1. \A i \in 1 .. Min({m, n}) : i \in 1 .. n /\ i <= m /\ i - 1 \in 0 .. m /\ i - 1 <= n  BY <1>1, <1>4
  <2>2. \A i \in 1 .. n : i <= m => i \in 1 .. Min({m, n})  BY <1>1, <1>4
  <2>3. \A i \in 1 .. Min({m, n}) :
          SubSeq(a, 1, i - 1) = SubSeq(b, 1, i - 1) <=> \A j \in 1 .. i - 1 : a[j] = b[j]
    BY <2>1, <1>2
  <2> QED  BY <1>3, <2>1, <2>2, <2>3 DEF Less
<1>6. ASSUME m < n /\ \A j \in 1 .. m : a[j] = b[j] PROVE LessAt(a, b, m + 1) /\ m + 1 \in 1 .. n
  BY <1>1, <1>6 DEF LessAt
<1>7. ASSUME NEW i \in 1 .. n, i <= m, a[i] < b[i], \A j \in 1 .. i - 1 : a[j] = b[j]
      PROVE  LessAt(a, b, i)
  BY <1>1, <1>7 DEF LessAt
<1>8. ASSUME NEW i \in 1 .. n, LessAt(a, b, i)
      PROVE  \/ m < n /\ \A j \in 1 .. m : a[j] = b[j]
             \/ i <= m /\ a[i] < b[i] /\ \A j \in 1 .. i - 1 : a[j] = b[j]
  BY <1>1, <1>8 DEF LessAt
<1> QED  BY <1>5, <1>6, <1>7, <1>8

(* It is irreflexive, transitive and total.                                *)
LEMMA LessNever == ASSUME NEW a \in Keys PROVE ~Less(a, a)
<1>1. ASSUME NEW i \in 1 .. Len(a) PROVE ~LessAt(a, a, i)
  <2>1. Len(a) \in Nat /\ i # Len(a) + 1  BY KeyIsSeq
  <2>2. PICK x \in 0..255 : x = a[i]  BY KeyIsSeq
  <2>3. ~(x < x)  OBVIOUS
  <2> QED  BY <2>1, <2>2, <2>3 DEF LessAt
<1> QED  BY <1>1, LessIs

LEMMA LessThrough ==
  ASSUME NEW a \in Keys, NEW b \in Keys, NEW c \in Keys, Less(a, b), Less(b, c)
  PROVE  Less(a, c)
<1>1. PICK i \in 1 .. Len(b) : LessAt(a, b, i)  BY LessIs
<1>2. PICK j \in 1 .. Len(c) : LessAt(b, c, j)  BY LessIs
<1>3. /\ Len(a) \in Nat /\ Len(b) \in Nat /\ Len(c) \in Nat
      /\ (\A x \in 1 .. Len(a) : a[x] \in 0..255)
      /\ (\A x \in 1 .. Len(b) : b[x] \in 0..255)
      /\ (\A x \in 1 .. Len(c) : c[x] \in 0..255)
  BY KeyIsSeq
<1>4. CASE i <= j
  <2>1. i \in 1 .. Len(c)  BY <1>4
  <2>2. \A x \in 1 .. i - 1 : x \in 1 .. j - 1  BY <1>4
  <2>3. \A x \in 1 .. i - 1 : x <= Len(a) /\ a[x] = c[x]  BY <1>1, <1>2, <2>2 DEF LessAt
  <2>4. i <= Len(a) => a[i] < c[i]
    <3>1. CASE i = j
      <4>1. SUFFICES ASSUME i <= Len(a) PROVE a[i] < c[i]  OBVIOUS
      <4>2. a[i] < b[i] /\ i # Len(a) + 1  BY <1>1, <1>3, <4>1 DEF LessAt
      <4>3. b[i] < c[i]  BY <1>2, <1>3, <3>1 DEF LessAt
      <4>4. a[i] \in 0..255 /\ b[i] \in 0..255 /\ c[i] \in 0..255  BY <1>3, <3>1, <4>1
      <4>5. \A x, y, z \in 0..255 : x < y /\ y < z => x < z  OBVIOUS
      <4> QED  BY <4>2, <4>3, <4>4, <4>5
    <3>2. CASE i < j
      <4>1. i \in 1 .. j - 1  BY <3>2
      <4>2. b[i] = c[i]  BY <1>2, <4>1 DEF LessAt
      <4> QED  BY <1>1, <4>2 DEF LessAt
    <3> QED  BY <1>4, <3>1, <3>2
  <2>5. LessAt(a, c, i)  BY <1>1, <1>3, <2>1, <2>3, <2>4 DEF LessAt
  <2> QED  BY <2>1, <2>5, LessIs
<1>5. CASE j < i
  <2>1. j \in 1 .. i - 1 /\ j <= Len(a) /\ a[j] = b[j]  BY <1>1, <1>5 DEF LessAt
  <2>2. \A x \in 1 .. j - 1 : x \in 1 .. i - 1  BY <1>5
  <2>3. \A x \in 1 .. j - 1 : x <= Len(a) /\ a[x] = c[x]  BY <1>1, <1>2, <2>2 DEF LessAt
  <2>4. a[j] < c[j]  BY <1>2, <1>3, <2>1 DEF LessAt
  <2>5. LessAt(a, c, j)  BY <1>3, <2>1, <2>3, <2>4 DEF LessAt
  <2> QED  BY <2>5, LessIs
<1> QED  BY <1>4, <1>5

(* Where two strings differ for the first time, if they differ within the  *)
(* shorter one.                                                            *)
Differ(a, b) == {i \in 1 .. Min({Len(a), Len(b)}) : a[i] # b[i]}

LEMMA FirstDifference ==
  ASSUME NEW a \in Keys, NEW b \in Keys
  PROVE  /\ Differ(a, b) # {} =>
              LET i == Min(Differ(a, b))
              IN  /\ i \in 1 .. Len(a) /\ i \in 1 .. Len(b) /\ a[i] # b[i]
                  /\ a[i] \in 0..255 /\ b[i] \in 0..255
                  /\ \A j \in 1 .. i - 1 : j <= Len(a) /\ j <= Len(b) /\ a[j] = b[j]
         /\ Differ(a, b) = {} =>
              \A i \in 1 .. Len(a) : i <= Len(b) => a[i] = b[i]
<1>1. Len(a) \in Nat /\ Len(b) \in Nat
      /\ (\A x \in 1 .. Len(a) : a[x] \in 0..255) /\ \A x \in 1 .. Len(b) : b[x] \in 0..255
  BY KeyIsSeq
<1>2. Min({Len(a), Len(b)}) = IF Len(a) <= Len(b) THEN Len(a) ELSE Len(b)  BY <1>1, MinOfTwo
<1>3. ASSUME Differ(a, b) # {}
      PROVE  Min(Differ(a, b)) \in Differ(a, b) /\ \A y \in Differ(a, b) : Min(Differ(a, b)) <= y
  <2>1. Differ(a, b) \in SUBSET Nat  BY <1>1, <1>2 DEF Differ
  <2> QED  BY <1>3, <2>1, MinIs
<1>4. \A x : x \in Differ(a, b) <=> x \in 1 .. Len(a) /\ x \in 1 .. Len(b) /\ a[x] # b[x]
  BY <1>1, <1>2 DEF Differ
<1>5. ASSUME Differ(a, b) # {}, NEW j \in 1 .. Min(Differ(a, b)) - 1
      PROVE  j <= Len(a) /\ j <= Len(b) /\ a[j] = b[j]
  <2>1. PICK i : i = Min(Differ(a, b)) /\ i \in 1 .. Len(a) /\ i \in 1 .. Len(b)  BY <1>3, <1>4, <1>5
  <2>2. j \notin Differ(a, b)  BY <1>3, <1>5, <2>1
  <2> QED  BY <1>1, <1>4, <2>1, <2>2
<1>6. ASSUME Differ(a, b) # {}
      PROVE  LET i == Min(Differ(a, b))
             IN  i \in 1 .. Len(a) /\ i \in 1 .. Len(b) /\ a[i] # b[i]
  BY <1>3, <1>4, <1>6
<1>7. ASSUME Differ(a, b) = {}, NEW i \in 1 .. Len(a), i <= Len(b) PROVE a[i] = b[i]
  BY <1>1, <1>4, <1>7
<1> HIDE DEF Differ
<1> QED  BY <1>1, <1>5, <1>6, <1>7

LEMMA LessTotal ==
  ASSUME NEW a \in Keys, NEW b \in Keys
  PROVE  a = b \/ Less(a, b) \/ Less(b, a)
<1>1. Len(a) \in Nat /\ Len(b) \in Nat  BY KeyIsSeq
<1>2. CASE Differ(a, b) # {}
  <2>2. PICK i :
          /\ i \in 1 .. Len(a) /\ i \in 1 .. Len(b) /\ a[i] # b[i]
          /\ a[i] \in 0..255 /\ b[i] \in 0..255
          /\ \A j \in 1 .. i - 1 : j <= Len(a) /\ j <= Len(b) /\ a[j] = b[j]
    BY <1>2, FirstDifference
  <2>3. a[i] < b[i] \/ b[i] < a[i]
    <3>1. \A x, y \in 0..255 : x # y => x < y \/ y < x  OBVIOUS
    <3> QED  BY <2>2, <3>1
  <2>4. LessAt(a, b, i) \/ LessAt(b, a, i)  BY <1>1, <2>2, <2>3 DEF LessAt
  <2> QED  BY <2>2, <2>4, LessIs
<1>3. CASE Differ(a, b) = {}
  <2>1. \A i \in 1 .. Len(a) : i <= Len(b) => a[i] = b[i]  BY <1>3, FirstDifference
  <2>2. CASE Len(a) = Len(b)  BY <1>1, <2>1, <2>2, SameString
  <2>3. CASE Len(a) < Len(b)
    <3>1. LessAt(a, b, Len(a) + 1) /\ Len(a) + 1 \in 1 .. Len(b)  BY <1>1, <2>1, <2>3 DEF LessAt
    <3> QED  BY <3>1, LessIs
  <2>4. CASE Len(b) < Len(a)
    <3>1. LessAt(b, a, Len(b) + 1) /\ Len(b) + 1 \in 1 .. Len(a)  BY <1>1, <2>1, <2>4 DEF LessAt
    <3> QED  BY <3>1, LessIs
  <2> QED  BY <1>1, <2>2, <2>3, <2>4
<1> QED  BY <1>2, <1>3

(* BitComparer computes this order.                                        *)
LEMMA ComparerIs ==
  ASSUME NEW a \in Keys, NEW b \in Keys, ~ByteDifference
  PROVE  /\ a = b => BitComparer(a, b) = 0
         /\ Less(a, b) => BitComparer(a, b) = -1
         /\ Less(b, a) => BitComparer(a, b) = 1
<1>1. Len(a) \in Nat /\ Len(b) \in Nat  BY KeyIsSeq
<1>2. MemCmp(a, b) = IF Differ(a, b) = {} THEN 0
                     ELSE IF a[Min(Differ(a, b))] - b[Min(Differ(a, b))] > 0 THEN 1 ELSE -1
  BY DEF MemCmp, Differ
<1>3. Int8(1) = 1 /\ Int8(-1) = -1  BY DEF Int8
<1>4. CASE Differ(a, b) # {}
  <2>1. PICK i :
          /\ i \in 1 .. Len(a) /\ i = Min(Differ(a, b)) /\ i \in 1 .. Len(b) /\ a[i] # b[i]
          /\ a[i] \in 0..255 /\ b[i] \in 0..255
          /\ \A j \in 1 .. i - 1 : j <= Len(a) /\ j <= Len(b) /\ a[j] = b[j]
    BY <1>4, FirstDifference
  <2>2. PICK x \in 0..255 : x = a[i]  BY <2>1
  <2>3. PICK y \in 0..255 : y = b[i]  BY <2>1
  <2>4. x < y => LessAt(a, b, i)  BY <1>1, <2>1, <2>2, <2>3 DEF LessAt
  <2>5. y < x => LessAt(b, a, i)  BY <1>1, <2>1, <2>2, <2>3 DEF LessAt
  <2>6. x # y /\ (x < y \/ y < x)  BY <2>1, <2>2, <2>3
  <2>7. (x < y => Less(a, b)) /\ (y < x => Less(b, a))  BY <2>1, <2>4, <2>5, LessIs
  <2>8. ~(Less(a, b) /\ Less(b, a))  BY LessNever, LessThrough
  <2>9. MemCmp(a, b) = IF x - y > 0 THEN 1 ELSE -1  BY <1>2, <1>4, <2>1, <2>2, <2>3
  <2>10. BitComparer(a, b) = IF x - y > 0 THEN 1 ELSE -1
    BY <1>3, <2>9 DEF BitComparer
  <2> QED  BY <2>1, <2>2, <2>3, <2>6, <2>7, <2>8, <2>10
<1>5. CASE Differ(a, b) = {}
  <2>1. BitComparer(a, b) = IF Len(a) = Len(b) THEN 0 ELSE IF Len(a) > Len(b) THEN 1 ELSE -1
    BY <1>2, <1>5 DEF BitComparer
  <2>2. \A i \in 1 .. Len(a) : i <= Len(b) => a[i] = b[i]  BY <1>5, FirstDifference
  <2>3. Less(a, b) => Len(a) < Len(b)
    <3>1. ASSUME NEW i \in 1 .. Len(b), LessAt(a, b, i) PROVE Len(a) < Len(b)
      <4>1. i <= Len(a) => a[i] = b[i] /\ b[i] \in 0..255  BY <1>1, <2>2, KeyIsSeq
      <4>2. i <= Len(a) => ~(a[i] < b[i])
        <5>1. \A x \in 0..255 : ~(x < x)  OBVIOUS
        <5> QED  BY <4>1, <5>1
      <4>3. i = Len(a) + 1  BY <3>1, <4>2 DEF LessAt
      <4> QED  BY <1>1, <4>3
    <3> QED  BY <3>1, LessIs
  <2>4. Less(b, a) => Len(b) < Len(a)
    <3>1. ASSUME NEW i \in 1 .. Len(a), LessAt(b, a, i) PROVE Len(b) < Len(a)
      <4>1. i <= Len(b) => a[i] = b[i] /\ b[i] \in 0..255  BY <1>1, <2>2, KeyIsSeq
      <4>2. i <= Len(b) => ~(b[i] < a[i])
        <5>1. \A x \in 0..255 : ~(x < x)  OBVIOUS
        <5> QED  BY <4>1, <5>1
      <4>3. i = Len(b) + 1  BY <3>1, <4>2 DEF LessAt
      <4> QED  BY <1>1, <4>3
    <3> QED  BY <3>1, LessIs
  <2> QED  BY <1>1, <2>1, <2>3, <2>4
<1> QED  BY <1>4, <1>5

(* What the operations rely on: Precedes is a strict total order, and Cmp  *)
(* answers by it.                                                          *)
LEMMA KeyOrder ==
  ASSUME ~ByteDifference
  PROVE  /\ \A a \in Keys : ~Precedes[a][a]
         /\ \A a, b, c \in Keys : Precedes[a][b] /\ Precedes[b][c] => Precedes[a][c]
         /\ \A a, b \in Keys : a = b \/ Precedes[a][b] \/ Precedes[b][a]
         /\ \A a, b \in Keys : Cmp[a][b] \in {-1, 0, 1}
         /\ \A a, b \in Keys : Cmp[a][b] = 0 <=> a = b
         /\ \A a, b \in Keys : Cmp[a][b] = 1 <=> Precedes[b][a]
         /\ \A a, b \in Keys : Cmp[a][b] = -1 <=> Precedes[a][b]
<1>1. \A a, b \in Keys : (Precedes[a][b] <=> Less(a, b)) /\ Cmp[a][b] = BitComparer(a, b)
  BY DEF Precedes, Cmp
<1>2. \A a \in Keys : ~Less(a, a)  BY LessNever
<1>3. \A a, b, c \in Keys : Less(a, b) /\ Less(b, c) => Less(a, c)  BY LessThrough
<1>4. \A a, b \in Keys : a = b \/ Less(a, b) \/ Less(b, a)  BY LessTotal
<1>5. \A a, b \in Keys : /\ a = b => BitComparer(a, b) = 0
                         /\ Less(a, b) => BitComparer(a, b) = -1
                         /\ Less(b, a) => BitComparer(a, b) = 1
  BY ComparerIs
<1>6. \A a, b \in Keys : ~(Less(a, b) /\ Less(b, a))  BY <1>2, <1>3
<1>7. /\ \A a, b \in Keys : BitComparer(a, b) \in {-1, 0, 1}
      /\ \A a, b \in Keys : BitComparer(a, b) = 0 <=> a = b
      /\ \A a, b \in Keys : BitComparer(a, b) = 1 <=> Less(b, a)
      /\ \A a, b \in Keys : BitComparer(a, b) = -1 <=> Less(a, b)
  BY <1>2, <1>4, <1>5, <1>6
<1> QED  BY <1>1, <1>2, <1>3, <1>4, <1>7

-----------------------------------------------------------------------------
(* Functions defined by recursion.                                         *)

(* Induction up to n, on the set of the numbers for which a fact holds.    *)
LEMMA UpTo ==
  ASSUME NEW n \in Nat, NEW S, 0 \in S, \A i \in 1 .. n : i - 1 \in S => i \in S
  PROVE  0 .. n \subseteq S
<1>1. SUFFICES ASSUME 0 .. n \ S # {} PROVE FALSE  OBVIOUS
<1>2. PICK m \in 0 .. n \ S : \A y \in 0 .. n \ S : m <= y
  <2>1. 0 .. n \ S \in SUBSET Nat  OBVIOUS
  <2> QED  BY ONLY <1>1, <2>1, LeastNumber
<1>3. m \in 1 .. n /\ m - 1 \in 0 .. n /\ ~ (m <= m - 1)  BY <1>2
<1> QED  BY <1>2, <1>3

(* The values of a function that is defined by recursion over 0 .. n.      *)
Steps(n, S) == [1 .. n -> [S -> S]]

Unfolds(g, n, S, f0, step) ==
  g \in [0 .. n -> S] /\ g[0] = f0 /\ \A i \in 1 .. n : g[i] = step[i][g[i - 1]]

(* Such a function exists.                                                 *)
LEMMA RecursionExists ==
  ASSUME NEW n \in Nat, NEW S, NEW f0 \in S, NEW step \in Steps(n, S)
  PROVE  \E g : Unfolds(g, n, S, f0, step)
<1>0. step \in [1 .. n -> [S -> S]]  BY DEF Steps
<1> DEFINE Good(m) == \E g \in [0 .. m -> S] :
             g[0] = f0 /\ \A i \in 1 .. m : g[i] = step[i][g[i - 1]]
<1>1. PICK D : D = {m \in 0 .. n : Good(m)}  OBVIOUS
<1>2. 0 \in D
  <2>1. PICK g : g = [i \in 0 .. 0 |-> f0]  OBVIOUS
  <2>2. g \in [0 .. 0 -> S] /\ g[0] = f0 /\ \A i \in 1 .. 0 : g[i] = step[i][g[i - 1]]
    BY <2>1
  <2>3. Good(0)  BY <2>2
  <2> QED  BY <1>1, <2>3
<1>3. ASSUME NEW m \in 1 .. n, m - 1 \in D PROVE m \in D
  <2>1. PICK g \in [0 .. m - 1 -> S] :
          g[0] = f0 /\ \A i \in 1 .. m - 1 : g[i] = step[i][g[i - 1]]
    BY <1>1, <1>3
  <2>2. PICK h : h = [i \in 0 .. m |-> IF i = m THEN step[m][g[m - 1]] ELSE g[i]]  OBVIOUS
  <2>3. g[m - 1] \in S /\ step[m][g[m - 1]] \in S  BY <1>0, <2>1
  <2>4. h \in [0 .. m -> S]  BY <2>1, <2>2, <2>3
  <2>5. h[0] = f0  BY <2>1, <2>2
  <2>6. ASSUME NEW i \in 1 .. m PROVE h[i] = step[i][h[i - 1]]
    <3>1. CASE i = m  BY <2>2, <3>1
    <3>2. CASE i # m
      <4>1. i \in 1 .. m - 1 /\ i - 1 \in 0 .. m /\ i - 1 # m  BY <3>2
      <4> QED  BY <2>1, <2>2, <4>1
    <3> QED  BY <3>1, <3>2
  <2>7. Good(m) /\ m \in 0 .. n  BY <2>4, <2>5, <2>6
  <2> QED  BY <1>1, <2>7
<1>4. n \in D
  <2>1. 0 .. n \subseteq D  BY <1>2, <1>3, UpTo
  <2> QED  BY <2>1
<1> QED  BY <1>1, <1>4 DEF Unfolds

(* A way down: every node that is not an end names one of smaller weight.  *)
WayDown(D, weight, ends, nxt) ==
  /\ weight \in [D -> Nat]
  /\ ends \subseteq D
  /\ nxt \in [D \ ends -> D]
  /\ \A a \in D \ ends : weight[nxt[a]] < weight[a]
  /\ \E N \in Nat : \A a \in D : weight[a] <= N

(* A function on the nodes that is defined along it: f is given at the     *)
(* ends, and op makes the value at a node of the value at the one it names.*)
Solves(g, D, S, ends, nxt, f, op) ==
  g \in [D -> S] /\ \A a \in D : g[a] = IF a \in ends THEN f[a] ELSE op[a][g[nxt[a]]]

Rule(D, S, f, op) == f \in [D -> S] /\ op \in [D -> [S -> S]]

(* Induction upwards: what holds at the ends, and at a node if at the one  *)
(* it names, holds everywhere.                                             *)
LEMMA Upwards ==
  ASSUME NEW D, NEW weight, NEW ends, NEW nxt, WayDown(D, weight, ends, nxt),
         NEW X, ends \subseteq X, \A a \in D \ ends : nxt[a] \in X => a \in X
  PROVE  D \subseteq X
<1>1. SUFFICES ASSUME D \ X # {} PROVE FALSE  OBVIOUS
<1>2. PICK W : W = {weight[a] : a \in D \ X}  OBVIOUS
<1>3. W \in SUBSET Nat /\ W # {}  BY <1>1, <1>2 DEF WayDown
<1>4. PICK w \in W : \A v \in W : w <= v  BY <1>3, LeastNumber
<1>5. PICK a \in D \ X : weight[a] = w  BY <1>2, <1>4
<1>6. a \in D \ ends /\ nxt[a] \in D \ X  BY DEF WayDown
<1>7. weight[nxt[a]] < weight[a] /\ weight[nxt[a]] \in W /\ weight[a] \in Nat /\ weight[nxt[a]] \in Nat
  BY <1>2, <1>6 DEF WayDown
<1> QED  BY <1>4, <1>5, <1>7

(* Such a function exists.                                                 *)
LEMMA DownRecursion ==
  ASSUME NEW D, NEW weight, NEW ends, NEW nxt, WayDown(D, weight, ends, nxt),
         NEW S, NEW last0, NEW op, Rule(D, S, last0, op)
  PROVE  \E g : Solves(g, D, S, ends, nxt, last0, op)
<1>0. PICK N \in Nat : \A a \in D : weight[a] <= N  BY DEF WayDown
<1>r. last0 \in [D -> S] /\ op \in [D -> [S -> S]]  BY DEF Rule
<1>1. PICK T : T = [D -> S]  OBVIOUS
<1> DEFINE From(h) == [a \in D |-> IF a \in ends THEN last0[a] ELSE op[a][h[nxt[a]]]]
<1>2. ASSUME NEW h \in T PROVE From(h) \in T
  BY <1>1, <1>2, <1>r DEF WayDown
<1> HIDE DEF From
<1>3. PICK step : step = [i \in 1 .. N + 1 |-> [h \in T |-> From(h)]]  OBVIOUS
<1>4. step \in Steps(N + 1, T)  BY <1>2, <1>3 DEF Steps
<1>5. PICK g : Unfolds(g, N + 1, T, last0, step)
  <2>1. N + 1 \in Nat /\ last0 \in T  BY <1>1, <1>r
  <2> QED  BY ONLY <1>4, <2>1, RecursionExists
<1>6. g \in [0 .. N + 1 -> T] /\ g[0] = last0 /\ \A i \in 1 .. N + 1 : g[i] = From(g[i - 1])
  <2>1. \A i \in 1 .. N + 1 : i - 1 \in 0 .. N + 1  OBVIOUS
  <2> QED  BY <1>3, <1>5, <2>1 DEF Unfolds
<1>7. ASSUME NEW i \in 1 .. N + 1, NEW a \in D
      PROVE  g[i][a] = IF a \in ends THEN last0[a] ELSE op[a][g[i - 1][nxt[a]]]
  <2>1. g[i] = From(g[i - 1])  BY <1>6
  <2>2. From(g[i - 1])[a] = IF a \in ends THEN last0[a] ELSE op[a][g[i - 1][nxt[a]]]
    BY DEF From
  <2> QED  BY <2>1, <2>2
<1>8. PICK X : X = {i \in 0 .. N : \A a \in D : weight[a] <= i => g[i + 1][a] = g[i][a]}  OBVIOUS
<1>9. 0 \in X
  <2>1. ASSUME NEW a \in D, weight[a] <= 0 PROVE g[0 + 1][a] = g[0][a]
    <3>1. a \in ends
      <4>1. CASE a \notin ends
        <5>1. nxt[a] \in D /\ weight[nxt[a]] < weight[a]  BY <4>1 DEF WayDown
        <5> QED  BY <2>1, <5>1 DEF WayDown
      <4> QED  BY <4>1
    <3>2. 0 + 1 \in 1 .. N + 1  OBVIOUS
    <3>3. g[0 + 1][a] = last0[a]  BY <1>7, <3>1, <3>2
    <3> QED  BY <1>6, <3>3
  <2> QED  BY <1>8, <2>1
<1>10. ASSUME NEW i \in 1 .. N, i - 1 \in X PROVE i \in X
  <2>1. ASSUME NEW a \in D, weight[a] <= i PROVE g[i + 1][a] = g[i][a]
    <3>1. i + 1 \in 1 .. N + 1 /\ i \in 1 .. N + 1 /\ i - 1 + 1 = i /\ i + 1 - 1 = i  OBVIOUS
    <3>2. /\ g[i + 1][a] = IF a \in ends THEN last0[a] ELSE op[a][g[i][nxt[a]]]
          /\ g[i][a] = IF a \in ends THEN last0[a] ELSE op[a][g[i - 1][nxt[a]]]
      BY <1>7, <3>1
    <3>3. CASE a \in ends  BY <3>2, <3>3
    <3>4. CASE a \notin ends
      <4>1. nxt[a] \in D /\ weight[nxt[a]] \in Nat /\ weight[a] \in Nat /\ weight[nxt[a]] < weight[a]
        BY <3>4 DEF WayDown
      <4>2. weight[nxt[a]] <= i - 1  BY <2>1, <4>1
      <4>3. g[i][nxt[a]] = g[i - 1][nxt[a]]  BY <1>8, <1>10, <3>1, <4>1, <4>2
      <4> QED  BY <3>2, <3>4, <4>3
    <3> QED  BY <3>3, <3>4
  <2> QED  BY <1>8, <2>1
<1>11. N \in X
  <2>1. 0 .. N \subseteq X  BY <1>9, <1>10, UpTo
  <2> QED  BY <2>1
<1>12. \A a \in D : g[N][a] = IF a \in ends THEN last0[a] ELSE op[a][g[N][nxt[a]]]
  <2>1. N + 1 \in 1 .. N + 1 /\ N + 1 - 1 = N  OBVIOUS
  <2>2. \A a \in D : g[N + 1][a] = g[N][a]  BY <1>0, <1>8, <1>11
  <2> QED  BY <1>7, <2>1, <2>2
<1>13. g[N] \in [D -> S]  BY <1>1, <1>6
<1> QED  BY <1>12, <1>13 DEF Solves

-----------------------------------------------------------------------------
(* Search trees.                                                           *)

BSTNodes(P) == [pointer : P, left : Keys \cup {Null}, right : Keys \cup {Null}]

(* dom gives every BSTNode the set of the keys whose search meets it.      *)
Lower(dom, a) == {q \in dom[a] : Precedes[q][a]}
Upper(dom, a) == {q \in dom[a] : Precedes[a][q]}

(* The keys of R are looked for from c on.                                 *)
Leads(n, dom, c, R) ==
  IF c = Null THEN R \cap DOMAIN n = {} ELSE c \in DOMAIN n /\ dom[c] = R

Under(dom, a, b) == dom[a] \subseteq Lower(dom, b) \/ dom[a] \subseteq Upper(dom, b)

Shaped(t, dom, P) ==
  /\ t = [r |-> t.r, n |-> t.n]
  /\ DOMAIN t.n \subseteq Keys
  /\ t.n \in [DOMAIN t.n -> BSTNodes(P)]
  /\ dom \in [DOMAIN t.n -> SUBSET Keys]
  /\ Leads(t.n, dom, t.r, Keys)
  /\ \A a \in DOMAIN t.n : /\ a \in dom[a]
                           /\ Leads(t.n, dom, t.n[a].left, Lower(dom, a))
                           /\ Leads(t.n, dom, t.n[a].right, Upper(dom, a))
  /\ \A a, b \in DOMAIN t.n :
       a = b \/ dom[a] \cap dom[b] = {} \/ Under(dom, a, b) \/ Under(dom, b, a)

(* A tree with BSTNodes for the keys of D that carry the pointers of f.    *)
Carries(t, D, f, P) ==
  /\ \E dom : Shaped(t, dom, P)
  /\ DOMAIN t.n = D
  /\ \A q \in D : t.n[q].pointer = f[q]

(* Fewer keys are looked for below a BSTNode than from it on.              *)
LEMMA Narrower ==
  ASSUME ~ByteDifference, NEW t, NEW dom, NEW P, Shaped(t, dom, P)
  PROVE  LET size == [a \in DOMAIN t.n |-> Cardinality(dom[a])]
         IN  /\ size \in [DOMAIN t.n -> Nat]
             /\ \A a \in DOMAIN t.n : size[a] <= Cardinality(Keys)
             /\ \A a \in DOMAIN t.n :
                  /\ t.n[a].left # Null => t.n[a].left \in DOMAIN t.n /\ size[t.n[a].left] < size[a]
                  /\ t.n[a].right # Null => t.n[a].right \in DOMAIN t.n /\ size[t.n[a].right] < size[a]
<1> DEFINE D == DOMAIN t.n
           size == [a \in D |-> Cardinality(dom[a])]
<1>1. IsFiniteSet(Keys)  BY KeysAssumption
<1>2. ASSUME NEW a \in D PROVE IsFiniteSet(dom[a]) /\ Cardinality(dom[a]) \in Nat /\ Cardinality(dom[a]) <= Cardinality(Keys)
  <2>1. dom[a] \subseteq Keys  BY DEF Shaped
  <2> QED  BY <1>1, <2>1, FS_Subset, FS_CardinalityType
<1>3. ASSUME NEW a \in D, NEW c, NEW R, R \subseteq dom[a] \ {a}, Leads(t.n, dom, c, R), c # Null
      PROVE  c \in D /\ Cardinality(dom[c]) < Cardinality(dom[a])
  <2>1. c \in D /\ dom[c] = R  BY <1>3 DEF Leads
  <2>2. a \in dom[a] /\ R \subseteq dom[a] /\ R # dom[a]  BY <1>3 DEF Shaped
  <2> QED  BY <1>2, <2>1, <2>2, FS_Subset
<1>4. ASSUME NEW a \in D PROVE Lower(dom, a) \subseteq dom[a] \ {a} /\ Upper(dom, a) \subseteq dom[a] \ {a}
  BY KeyOrder DEF Lower, Upper, Shaped
<1>5. ASSUME NEW a \in D
      PROVE  /\ t.n[a].left # Null => t.n[a].left \in D /\ size[t.n[a].left] < size[a]
             /\ t.n[a].right # Null => t.n[a].right \in D /\ size[t.n[a].right] < size[a]
  <2>1. Leads(t.n, dom, t.n[a].left, Lower(dom, a)) /\ Leads(t.n, dom, t.n[a].right, Upper(dom, a))
    BY DEF Shaped
  <2> QED  BY <1>3, <1>4, <2>1
<1> QED  BY <1>2, <1>5

(* The search for k turns, at another key, to the side on which k lies.    *)
LEMMA Turn ==
  ASSUME ~ByteDifference, NEW t, NEW dom, NEW P, Shaped(t, dom, P),
         NEW k \in Keys, NEW a \in DOMAIN t.n, k \in dom[a]
  PROVE  /\ Cmp[a][k] = 0 <=> a = k
         /\ Cmp[a][k] = 1 <=> k \in Lower(dom, a)
         /\ k \in Lower(dom, a) => Toward(t.n, a, k) = t.n[a].left
         /\ k \in Upper(dom, a) => Toward(t.n, a, k) = t.n[a].right
         /\ a = k \/ k \in Lower(dom, a) \/ k \in Upper(dom, a)
         /\ a # k => /\ Toward(t.n, a, k) = Null => k \notin DOMAIN t.n
                     /\ Toward(t.n, a, k) # Null =>
                          Toward(t.n, a, k) \in DOMAIN t.n /\ k \in dom[Toward(t.n, a, k)]
<1>1. a \in Keys  BY DEF Shaped
<1>2. /\ Cmp[a][k] = 0 <=> a = k
      /\ Cmp[a][k] = 1 <=> Precedes[k][a]
      /\ a = k \/ Precedes[a][k] \/ Precedes[k][a]
      /\ ~(Precedes[a][k] /\ Precedes[k][a])
      /\ a = k => ~Precedes[a][k] /\ ~Precedes[k][a]
  BY <1>1, KeyOrder
<1>3. Leads(t.n, dom, t.n[a].left, Lower(dom, a)) /\ Leads(t.n, dom, t.n[a].right, Upper(dom, a))
  BY DEF Shaped
<1>4. /\ k \in Lower(dom, a) <=> Precedes[k][a]
      /\ k \in Upper(dom, a) <=> Precedes[a][k]
  BY DEF Lower, Upper
<1>5. /\ k \in Lower(dom, a) => Toward(t.n, a, k) = t.n[a].left
      /\ k \in Upper(dom, a) => Toward(t.n, a, k) = t.n[a].right
  BY <1>2, <1>4 DEF Toward
<1>6. CASE k \in Lower(dom, a)  BY <1>2, <1>3, <1>4, <1>5, <1>6 DEF Leads
<1>7. CASE k \in Upper(dom, a)  BY <1>2, <1>3, <1>4, <1>5, <1>7 DEF Leads
<1>8. CASE a = k  BY <1>2, <1>4, <1>8
<1> QED  BY <1>2, <1>4, <1>6, <1>7, <1>8

(* A turn to either child narrows the search.                              *)
LEMMA TowardDown ==
  ASSUME ~ByteDifference, NEW t, NEW dom, NEW P, Shaped(t, dom, P), NEW k \in Keys,
         NEW ends \in SUBSET DOMAIN t.n,
         \A a \in DOMAIN t.n : Toward(t.n, a, k) = Null => a \in ends
  PROVE  LET D == DOMAIN t.n
         IN  WayDown(D, [a \in D |-> Cardinality(dom[a])], ends,
                     [a \in D \ ends |-> Toward(t.n, a, k)])
<1> DEFINE D == DOMAIN t.n
           size == [a \in D |-> Cardinality(dom[a])]
           nxt == [a \in D \ ends |-> Toward(t.n, a, k)]
<1>1. /\ size \in [D -> Nat]
      /\ \A a \in D : size[a] <= Cardinality(Keys)
      /\ \A a \in D : /\ t.n[a].left # Null => t.n[a].left \in D /\ size[t.n[a].left] < size[a]
                      /\ t.n[a].right # Null => t.n[a].right \in D /\ size[t.n[a].right] < size[a]
  BY Narrower
<1> HIDE DEF size
<1>2. ASSUME NEW a \in D \ ends
      PROVE  nxt[a] \in D /\ size[nxt[a]] < size[a]
  <2>1. nxt[a] = Toward(t.n, a, k) /\ Toward(t.n, a, k) # Null  OBVIOUS
  <2>2. Toward(t.n, a, k) \in {t.n[a].left, t.n[a].right}  BY DEF Toward
  <2> QED  BY <1>1, <2>1, <2>2
<1>3. Cardinality(Keys) \in Nat  BY KeysAssumption, FS_CardinalityType
<1>4. WayDown(D, size, ends, nxt)  BY <1>1, <1>2, <1>3 DEF WayDown
<1> QED  BY <1>4 DEF size

(* Place ends at k, or at a BSTNode that has no child on the side of k.    *)
LEMMA PlaceIs ==
  ASSUME ~ByteDifference, NEW t, NEW dom, NEW P, Shaped(t, dom, P),
         NEW k \in Keys, t.r # Null
  PROVE  LET at == Place(t.n, t.r, k)
         IN  /\ at \in DOMAIN t.n
             /\ k \in dom[at]
             /\ at = k \/ (Toward(t.n, at, k) = Null /\ k \notin DOMAIN t.n)
<1>1. PICK D : D = DOMAIN t.n  OBVIOUS
<1>2. PICK ends : ends = {a \in D : Cmp[a][k] = 0 \/ Toward(t.n, a, k) = Null}  OBVIOUS
<1>3. PICK size : size = [a \in D |-> Cardinality(dom[a])]  OBVIOUS
<1>4. PICK nxt : nxt = [a \in D \ ends |-> Toward(t.n, a, k)]  OBVIOUS
<1>5. WayDown(D, size, ends, nxt)
  <2>1. ends \in SUBSET DOMAIN t.n /\ \A a \in DOMAIN t.n : Toward(t.n, a, k) = Null => a \in ends
    BY <1>1, <1>2
  <2> QED  BY <1>1, <1>3, <1>4, <2>1, TowardDown
<1> DEFINE Fits(f) == f = [at \in DOMAIN t.n |->
                             IF Cmp[at][k] = 0 \/ Toward(t.n, at, k) = Null THEN at
                             ELSE f[Toward(t.n, at, k)]]
<1>8. \E f : Fits(f)
  <2>1. PICK last0 : last0 = [a \in D |-> a]  OBVIOUS
  <2>2. PICK op : op = [a \in D |-> [s \in D |-> s]]  OBVIOUS
  <2>3. Rule(D, D, last0, op)  BY <2>1, <2>2 DEF Rule
  <2>4. PICK g : Solves(g, D, D, ends, nxt, last0, op)  BY ONLY <1>5, <2>3, DownRecursion
  <2>5. ASSUME NEW a \in D
        PROVE  g[a] = IF Cmp[a][k] = 0 \/ Toward(t.n, a, k) = Null THEN a ELSE g[Toward(t.n, a, k)]
    <3>1. CASE a \in ends  BY <1>2, <2>1, <2>4, <3>1 DEF Solves
    <3>2. CASE a \notin ends
      <4>1. nxt[a] = Toward(t.n, a, k) /\ nxt[a] \in D  BY <1>4, <1>5, <3>2 DEF WayDown
      <4>2. op[a][g[nxt[a]]] = g[nxt[a]]  BY <2>2, <2>4, <4>1 DEF Solves
      <4> QED  BY <1>2, <2>4, <3>2, <4>1, <4>2 DEF Solves
    <3> QED  BY <3>1, <3>2
  <2>6. Fits(g)  BY <1>1, <2>4, <2>5 DEF Solves
  <2> QED  BY <2>6
<1>9. PICK f : Fits(f) /\ Place(t.n, t.r, k) = f[t.r]
  <2>1. Fits(CHOOSE f : Fits(f))  BY <1>8
  <2>2. Place(t.n, t.r, k) = (CHOOSE f : Fits(f))[t.r]  BY DEF Place
  <2> QED  BY <2>1, <2>2
<1>10. \A a \in D : f[a] = IF Cmp[a][k] = 0 \/ Toward(t.n, a, k) = Null THEN a
                           ELSE f[Toward(t.n, a, k)]
  BY <1>1, <1>9
<1> HIDE DEF Fits
<1> DEFINE Ends(at) == /\ at \in D
                       /\ k \in dom[at]
                       /\ at = k \/ (Toward(t.n, at, k) = Null /\ k \notin D)
           Good(a) == k \in dom[a] => Ends(f[a])
<1>11. PICK X : X = {a \in D : Good(a)}  OBVIOUS
<1>12. ends \subseteq X
  <2>1. ASSUME NEW a \in ends PROVE Good(a)
    <3>1. f[a] = a  BY <1>2, <1>10
    <3>2. ASSUME k \in dom[a] PROVE a = k \/ (Toward(t.n, a, k) = Null /\ k \notin D)
      BY <1>1, <1>2, <3>2, Turn
    <3> QED  BY <1>2, <3>1, <3>2
  <2> QED  BY <1>2, <1>11, <2>1
<1>13. ASSUME NEW a \in D \ ends, nxt[a] \in X PROVE a \in X
  <2>1. SUFFICES ASSUME k \in dom[a] PROVE Ends(f[a])  BY <1>11
  <2>2. nxt[a] = Toward(t.n, a, k) /\ f[a] = f[nxt[a]] /\ Toward(t.n, a, k) # Null
    BY <1>2, <1>4, <1>10
  <2>3. a # k  BY <1>1, <1>2, <2>1, Turn
  <2>4. k \in dom[nxt[a]]  BY <1>1, <2>1, <2>2, <2>3, Turn
  <2>5. Good(nxt[a])  BY <1>11, <1>13
  <2> QED  BY <2>2, <2>4, <2>5
<1>14. D \subseteq X  BY <1>5, <1>12, <1>13, Upwards
<1>15. t.r \in D /\ k \in dom[t.r]  BY <1>1 DEF Shaped, Leads
<1>16. Good(t.r)  BY <1>11, <1>14, <1>15
<1> QED  BY <1>1, <1>9, <1>15, <1>16

(* SearchBST finds the keys of the tree and no others.                     *)
LEMMA SearchIs ==
  ASSUME ~ByteDifference, NEW t, NEW dom, NEW P, Shaped(t, dom, P), NEW k \in Keys
  PROVE  SearchBST(t, k) = IF k \in DOMAIN t.n THEN k ELSE Null
<1>1. CASE t.r = Null  BY <1>1 DEF Shaped, Leads, SearchBST
<1>2. CASE t.r # Null
  <2>1. PICK at : at = Place(t.n, t.r, k)  OBVIOUS
  <2>2. at \in DOMAIN t.n /\ k \in dom[at] /\ (at = k \/ k \notin DOMAIN t.n)  BY <1>2, <2>1, PlaceIs
  <2>3. Cmp[at][k] = 0 <=> at = k  BY <2>2, Turn
  <2> QED  BY <1>2, <2>1, <2>2, <2>3 DEF SearchBST
<1> QED  BY <1>1, <1>2

-----------------------------------------------------------------------------
(* The position of a key in the order of byte strings.                     *)
LEMMA RankIs ==
  ASSUME ~ByteDifference
  PROVE  /\ Rank \in [Keys -> Nat]
         /\ \A a, b \in Keys : Precedes[a][b] => Rank[a] < Rank[b]
         /\ \A a, b \in Keys : Rank[a] < Rank[b] => Precedes[a][b]
         /\ \A a, b \in Keys : Rank[a] = Rank[b] => a = b
<1> DEFINE Below(a) == {q \in Keys : Precedes[q][a]}
<1>1. \A a \in Keys : Rank[a] = Cardinality(Below(a))  BY DEF Rank
<1>2. ASSUME NEW a \in Keys PROVE IsFiniteSet(Below(a)) /\ Cardinality(Below(a)) \in Nat
  <2>1. Below(a) \subseteq Keys  OBVIOUS
  <2> QED  BY ONLY <2>1, KeysAssumption, FS_Subset, FS_CardinalityType
<1>3. Rank = [k \in Keys |-> Rank[k]]  BY DEF Rank
<1>4. ASSUME NEW a \in Keys, NEW b \in Keys, Precedes[a][b] PROVE Rank[a] < Rank[b]
  <2>1. Below(a) \subseteq Below(b)  BY <1>4, KeyOrder
  <2>2. a \in Below(b) /\ a \notin Below(a)  BY <1>4, KeyOrder
  <2>3. Cardinality(Below(a)) <= Cardinality(Below(b)) /\ Cardinality(Below(a)) # Cardinality(Below(b))
    <3> HIDE DEF Below
    <3> QED  BY <1>2, <2>1, <2>2, FS_Subset
  <2>4. /\ Rank[a] = Cardinality(Below(a)) /\ Rank[b] = Cardinality(Below(b))
        /\ Cardinality(Below(a)) \in Nat /\ Cardinality(Below(b)) \in Nat
    BY <1>1, <1>2
  <2> HIDE DEF Below
  <2> QED  BY <2>3, <2>4
<1>5. \A a \in Keys : Rank[a] \in Nat  BY <1>1, <1>2
<1>6. ASSUME NEW a \in Keys, NEW b \in Keys
      PROVE  (Rank[a] < Rank[b] => Precedes[a][b]) /\ (Rank[a] = Rank[b] => a = b)
  <2>1. a = b \/ Precedes[a][b] \/ Precedes[b][a]  BY KeyOrder
  <2>2. Rank[a] \in Nat /\ Rank[b] \in Nat  BY <1>5
  <2>3. (Precedes[a][b] => Rank[a] < Rank[b]) /\ (Precedes[b][a] => Rank[b] < Rank[a])  BY <1>4
  <2> QED  BY <2>1, <2>2, <2>3
<1> QED  BY <1>3, <1>4, <1>5, <1>6

LEMMA RankedIs ==
  ASSUME ~ByteDifference, NEW k \in Keys
  PROVE  Ranked[Rank[k]] = k
<1>1. Rank[k] \in {Rank[q] : q \in Keys}  OBVIOUS
<1>2. Ranked[Rank[k]] = CHOOSE q \in Keys : Rank[q] = Rank[k]  BY <1>1 DEF Ranked
<1>3. \A q \in Keys : Rank[q] = Rank[k] => q = k  BY RankIs
<1> QED  BY <1>2, <1>3

(* Keys have a least one.                                                  *)
LEMMA LeastKey ==
  ASSUME ~ByteDifference, NEW S \in SUBSET Keys, S # {}
  PROVE  \E s \in S : \A q \in S : q = s \/ Precedes[s][q]
<1>1. PICK R : R = {Rank[q] : q \in S}  OBVIOUS
<1>2. R \in SUBSET Nat /\ R # {}  BY <1>1, RankIs
<1>3. PICK m \in R : \A y \in R : m <= y  BY <1>2, LeastNumber
<1>4. PICK s \in S : Rank[s] = m  BY <1>1, <1>3
<1>5. ASSUME NEW q \in S PROVE q = s \/ Precedes[s][q]
  <2>1. Rank[s] <= Rank[q] /\ Rank[s] \in Nat /\ Rank[q] \in Nat  BY <1>1, <1>3, <1>4, RankIs
  <2>2. Rank[s] = Rank[q] \/ Rank[s] < Rank[q]  BY <2>1
  <2> QED  BY <2>2, RankIs
<1> QED  BY <1>5

-----------------------------------------------------------------------------
(* The way to the place of a key that is not in the tree.                  *)

(* s is the successor of k among the keys of D.                            *)
IsNext(D, k, s) ==
  s \in D /\ Precedes[k][s] /\ \A q \in D : Precedes[k][q] => q = s \/ Precedes[s][q]

(* The way goes through keys of the tree, and none above k is lower than   *)
(* all those met.                                                          *)
LEMMA WayHas ==
  ASSUME ~ByteDifference, NEW t, NEW dom, NEW P, Shaped(t, dom, P),
         NEW k \in Keys, k \notin DOMAIN t.n, t.r # Null
  PROVE  /\ Way(t.n, t.r, k) \subseteq DOMAIN t.n
         /\ \A q \in DOMAIN t.n : Precedes[k][q] =>
              \E s \in Way(t.n, t.r, k) : Precedes[k][s] /\ (s = q \/ Precedes[s][q])
<1>1. PICK D : D = DOMAIN t.n  OBVIOUS
<1>2. PICK ends : ends = {a \in D : Toward(t.n, a, k) = Null}  OBVIOUS
<1>3. PICK size : size = [a \in D |-> Cardinality(dom[a])]  OBVIOUS
<1>4. PICK nxt : nxt = [a \in D \ ends |-> Toward(t.n, a, k)]  OBVIOUS
<1>5. WayDown(D, size, ends, nxt)
  <2>1. ends \in SUBSET DOMAIN t.n /\ \A a \in DOMAIN t.n : Toward(t.n, a, k) = Null => a \in ends
    BY <1>1, <1>2
  <2> QED  BY <1>1, <1>3, <1>4, <2>1, TowardDown
<1> DEFINE Fits(f) == f = [at \in DOMAIN t.n |->
                             {at} \cup (IF Toward(t.n, at, k) = Null THEN {}
                                        ELSE f[Toward(t.n, at, k)])]
<1>6. \E f : Fits(f)
  <2>1. PICK last0 : last0 = [a \in D |-> {a}]  OBVIOUS
  <2>2. PICK op : op = [a \in D |-> [s \in SUBSET D |-> {a} \cup s]]  OBVIOUS
  <2>3. Rule(D, SUBSET D, last0, op)  BY <2>1, <2>2 DEF Rule
  <2>4. PICK g : Solves(g, D, SUBSET D, ends, nxt, last0, op)  BY ONLY <1>5, <2>3, DownRecursion
  <2>5. ASSUME NEW a \in D
        PROVE  g[a] = {a} \cup (IF Toward(t.n, a, k) = Null THEN {} ELSE g[Toward(t.n, a, k)])
    <3>1. CASE a \in ends  BY <1>2, <2>1, <2>4, <3>1 DEF Solves
    <3>2. CASE a \notin ends
      <4>1. nxt[a] = Toward(t.n, a, k) /\ nxt[a] \in D  BY <1>4, <1>5, <3>2 DEF WayDown
      <4>2. op[a][g[nxt[a]]] = {a} \cup g[nxt[a]]  BY <2>2, <2>4, <4>1 DEF Solves
      <4> QED  BY <1>2, <2>4, <3>2, <4>1, <4>2 DEF Solves
    <3> QED  BY <3>1, <3>2
  <2>6. Fits(g)  BY <1>1, <2>4, <2>5 DEF Solves
  <2> QED  BY <2>6
<1>7. PICK f : Fits(f) /\ Way(t.n, t.r, k) = f[t.r]
  <2>1. Fits(CHOOSE f : Fits(f))  BY <1>6
  <2>2. Way(t.n, t.r, k) = (CHOOSE f : Fits(f))[t.r]  BY DEF Way
  <2> QED  BY <2>1, <2>2
<1>8. \A a \in D : f[a] = {a} \cup (IF Toward(t.n, a, k) = Null THEN {} ELSE f[Toward(t.n, a, k)])
  BY <1>1, <1>7
<1> HIDE DEF Fits
<1> DEFINE Meets(a, q) == \E s \in f[a] : Precedes[k][s] /\ (s = q \/ Precedes[s][q])
           Good(a) == /\ f[a] \subseteq D
                      /\ k \in dom[a] => \A q \in D \cap dom[a] : Precedes[k][q] => Meets(a, q)
<1>9. PICK X : X = {a \in D : Good(a)}  OBVIOUS
<1>10. ASSUME NEW a \in D, k \in dom[a],
              Toward(t.n, a, k) # Null => Good(Toward(t.n, a, k)),
              NEW q \in D \cap dom[a], Precedes[k][q]
       PROVE  Meets(a, q)
  <2>1. a # k /\ a \in Keys /\ q \in Keys /\ a \in f[a]  BY <1>1, <1>8 DEF Shaped
  <2>2. CASE q = a \/ (Precedes[k][a] /\ Precedes[a][q])  BY <1>10, <2>1, <2>2
  <2>3. CASE Precedes[k][a] /\ Precedes[q][a]
    <3>1. k \in Lower(dom, a) /\ q \in Lower(dom, a)  BY <1>10, <2>3 DEF Lower
    <3>2. Toward(t.n, a, k) = t.n[a].left  BY <1>1, <1>10, <3>1, Turn
    <3>3. t.n[a].left # Null /\ t.n[a].left \in D /\ q \in dom[t.n[a].left] /\ k \in dom[t.n[a].left]
      BY <1>1, <3>1 DEF Shaped, Leads
    <3>4. Meets(t.n[a].left, q)  BY <1>10, <3>2, <3>3
    <3>5. f[t.n[a].left] \subseteq f[a]  BY <1>8, <3>2, <3>3
    <3> QED  BY <3>4, <3>5
  <2>4. CASE Precedes[a][k]
    <3>1. Precedes[a][q]  BY <1>10, <2>1, <2>4, KeyOrder
    <3>2. k \in Upper(dom, a) /\ q \in Upper(dom, a)  BY <1>10, <2>4, <3>1 DEF Upper
    <3>3. Toward(t.n, a, k) = t.n[a].right  BY <1>1, <1>10, <3>2, Turn
    <3>4. t.n[a].right # Null /\ t.n[a].right \in D /\ q \in dom[t.n[a].right] /\ k \in dom[t.n[a].right]
      BY <1>1, <3>2 DEF Shaped, Leads
    <3>5. Meets(t.n[a].right, q)  BY <1>10, <3>3, <3>4
    <3>6. f[t.n[a].right] \subseteq f[a]  BY <1>8, <3>3, <3>4
    <3> QED  BY <3>5, <3>6
  <2> QED  BY <2>1, <2>2, <2>3, <2>4, KeyOrder
<1>11. ASSUME NEW a \in D, Toward(t.n, a, k) # Null => Good(Toward(t.n, a, k)) PROVE a \in X
  <2>1. f[a] \subseteq D  BY <1>8, <1>11
  <2>2. Good(a)  BY <1>10, <1>11, <2>1
  <2> QED  BY <1>9, <2>2
<1>12. D \subseteq X
  <2>1. ends \subseteq X  BY <1>2, <1>11
  <2>2. ASSUME NEW a \in D \ ends, nxt[a] \in X PROVE a \in X
    <3>1. nxt[a] = Toward(t.n, a, k) /\ Good(nxt[a])  BY <1>4, <1>9, <2>2
    <3> QED  BY <1>11, <3>1
  <2> QED  BY <1>5, <2>1, <2>2, Upwards
<1>13. t.r \in D /\ dom[t.r] = Keys /\ D \subseteq Keys  BY <1>1 DEF Shaped, Leads
<1>14. Good(t.r)  BY <1>9, <1>12, <1>13
<1>15. \A q \in D : Precedes[k][q] => Meets(t.r, q)  BY <1>13, <1>14
<1> QED  BY <1>1, <1>7, <1>14, <1>15

(* Above and Subsequent find the successor.                                *)
LEMMA SuccessorIs ==
  ASSUME ~ByteDifference, NEW t, NEW dom, NEW P, Shaped(t, dom, P),
         NEW k \in Keys, k \notin DOMAIN t.n
  PROVE  /\ Above(t, k) = {} <=> \A q \in DOMAIN t.n : ~Precedes[k][q]
         /\ Above(t, k) # {} => IsNext(DOMAIN t.n, k, Subsequent(Above(t, k)))
<1>1. PICK D : D = DOMAIN t.n  OBVIOUS
<1>2. D \in SUBSET Keys  BY <1>1 DEF Shaped
<1>3. /\ Above(t, k) \subseteq {q \in D : Precedes[k][q]}
      /\ \A q \in D : Precedes[k][q] =>
           \E s \in Above(t, k) : s = q \/ Precedes[s][q]
  <2>1. CASE t.r = Null  BY <1>1, <1>2, <2>1 DEF Shaped, Leads, Above
  <2>2. CASE t.r # Null
    <3>1. PICK W : W = Way(t.n, t.r, k)  OBVIOUS
    <3>2. /\ W \subseteq D
          /\ \A q \in D : Precedes[k][q] =>
               \E s \in W : Precedes[k][s] /\ (s = q \/ Precedes[s][q])
      BY <1>1, <2>2, <3>1, WayHas
    <3>3. Above(t, k) = {q \in W : Cmp[q][k] = 1}  BY <2>2, <3>1 DEF Above
    <3>4. \A q \in W : Cmp[q][k] = 1 <=> Precedes[k][q]  BY <1>2, <3>2, KeyOrder
    <3>5. Above(t, k) = {q \in W : Precedes[k][q]}  BY <3>3, <3>4
    <3> QED  BY <3>2, <3>5
  <2> QED  BY <2>1, <2>2
<1>4. PICK A : A = Above(t, k)  OBVIOUS
<1>5. ASSUME A # {}
      PROVE  IsNext(D, k, Subsequent(A))
  <2>1. A \in SUBSET Keys  BY <1>2, <1>3, <1>4
  <2>2. PICK s \in A : \A q \in A : q = s \/ Precedes[s][q]  BY <1>5, <2>1, LeastKey
  <2>3. \A p \in A : Cmp[s][p] <= 0
    <3>1. ASSUME NEW p \in A PROVE Cmp[s][p] <= 0
      <4>1. s \in Keys /\ p \in Keys /\ (p = s \/ Precedes[s][p])  BY <2>1, <2>2
      <4>2. Cmp[s][p] = 0 \/ Cmp[s][p] = -1  BY <4>1, KeyOrder
      <4> QED  BY <4>2
    <3> QED  BY <3>1
  <2>4. PICK u : u = Subsequent(A)  OBVIOUS
  <2>5. u \in A /\ \A p \in A : Cmp[u][p] <= 0  BY <2>3, <2>4 DEF Subsequent
  <2>6. \A p \in A : p = u \/ Precedes[u][p]
    <3>1. ASSUME NEW p \in A PROVE p = u \/ Precedes[u][p]
      <4>1. u \in Keys /\ p \in Keys /\ Cmp[u][p] <= 0  BY <2>1, <2>5
      <4>2. Cmp[u][p] # 1  BY <4>1
      <4> QED  BY <4>1, <4>2, KeyOrder
    <3> QED  BY <3>1
  <2>7. ASSUME NEW q \in D, Precedes[k][q] PROVE q = u \/ Precedes[u][q]
    <3>1. PICK p \in A : p = q \/ Precedes[p][q]  BY <1>3, <1>4, <2>7
    <3>2. p = u \/ Precedes[u][p]  BY <2>6
    <3>3. p \in Keys /\ q \in Keys /\ u \in Keys  BY <1>2, <2>1, <2>5
    <3> QED  BY <3>1, <3>2, <3>3, KeyOrder
  <2>8. u \in D /\ Precedes[k][u]  BY <1>3, <1>4, <2>5
  <2> QED  BY <2>4, <2>7, <2>8 DEF IsNext
<1>6. A = {} <=> \A q \in D : ~Precedes[k][q]  BY <1>3, <1>4
<1> QED  BY <1>1, <1>4, <1>5, <1>6

-----------------------------------------------------------------------------
(* Insertion into the tree.                                                *)

(* The pointers of a tree with a new key.                                  *)
Put(D, f, k, p) == [q \in D \cup {k} |-> IF q = k THEN p ELSE f[q]]

(* A tree with k below `at', on its side.                                  *)
Hung(n, at, k, p) ==
  [q \in DOMAIN n \cup {k} |->
     IF q = k THEN Fresh(p)
     ELSE IF q = at THEN [pointer |-> n[at].pointer,
                          left |-> IF Cmp[at][k] = 1 THEN k ELSE n[at].left,
                          right |-> IF Cmp[at][k] = 1 THEN n[at].right ELSE k]
     ELSE n[q]]

Spliced(n, at, k, p) ==
  IF Cmp[at][k] = 1 THEN [With(n, k, Fresh(p)) EXCEPT ![at].left = k]
  ELSE [With(n, k, Fresh(p)) EXCEPT ![at].right = k]

HungTree(t, at, k, p) == [r |-> t.r, n |-> Hung(t.n, at, k, p)]

LEMMA HungIs ==
  ASSUME NEW D \in SUBSET Keys, NEW P, NEW n \in [D -> BSTNodes(P)], NEW k \in Keys \ D,
         NEW p \in P, NEW at \in D
  PROVE  Spliced(n, at, k, p) = Hung(n, at, k, p)
<1>1. PICK E : E = D \cup {k}  OBVIOUS
<1>2. PICK w : w = With(n, k, Fresh(p))  OBVIOUS
<1>3. w = [q \in E |-> IF q = k THEN Fresh(p) ELSE n[q]]  BY <1>1, <1>2 DEF With
<1>4. w \in [E -> BSTNodes(P)] /\ at \in E /\ w[at] = n[at] /\ at # k
  BY <1>1, <1>3 DEF Fresh, BSTNodes
<1>5. [w EXCEPT ![at].left = k] =
        [q \in E |-> IF q = at THEN [pointer |-> n[at].pointer, left |-> k, right |-> n[at].right] ELSE w[q]]
  <2>1. [w EXCEPT ![at].left = k] = [q \in E |-> IF q = at THEN [w[at] EXCEPT !.left = k] ELSE w[q]]
    BY <1>4
  <2>2. PICK e : e = w[at]  OBVIOUS
  <2>3. [e EXCEPT !.left = k] = [pointer |-> e.pointer, left |-> k, right |-> e.right]
    BY <1>4, <2>2 DEF BSTNodes
  <2> QED  BY <1>4, <2>1, <2>2, <2>3
<1>6. [w EXCEPT ![at].right = k] =
        [q \in E |-> IF q = at THEN [pointer |-> n[at].pointer, left |-> n[at].left, right |-> k] ELSE w[q]]
  <2>1. [w EXCEPT ![at].right = k] = [q \in E |-> IF q = at THEN [w[at] EXCEPT !.right = k] ELSE w[q]]
    BY <1>4
  <2>2. PICK e : e = w[at]  OBVIOUS
  <2>3. [e EXCEPT !.right = k] = [pointer |-> e.pointer, left |-> e.left, right |-> k]
    BY <1>4, <2>2 DEF BSTNodes
  <2> QED  BY <1>4, <2>1, <2>2, <2>3
<1>7. CASE Cmp[at][k] = 1
  <2>1. Hung(n, at, k, p) =
          [q \in E |-> IF q = at THEN [pointer |-> n[at].pointer, left |-> k, right |-> n[at].right] ELSE w[q]]
    BY <1>1, <1>3, <1>4, <1>7 DEF Hung
  <2> QED  BY <1>2, <1>5, <1>7, <2>1 DEF Spliced
<1>8. CASE Cmp[at][k] # 1
  <2>1. Hung(n, at, k, p) =
          [q \in E |-> IF q = at THEN [pointer |-> n[at].pointer, left |-> n[at].left, right |-> k] ELSE w[q]]
    BY <1>1, <1>3, <1>4, <1>8 DEF Hung
  <2> QED  BY <1>2, <1>6, <1>8, <2>1 DEF Spliced
<1> QED  BY <1>7, <1>8

(* k is hung up below `at', where nothing is: its range is that side.      *)
LEMMA HungUp ==
  ASSUME ~ByteDifference, NEW t, NEW dom, NEW P, Shaped(t, dom, P),
         NEW k \in Keys, k \notin DOMAIN t.n, NEW p \in P,
         NEW at \in DOMAIN t.n, k \in dom[at], Toward(t.n, at, k) = Null
  PROVE  LET u == HungTree(t, at, k, p)
         IN  /\ \E d : Shaped(u, d, P)
             /\ DOMAIN u.n = DOMAIN t.n \cup {k}
             /\ \A q \in DOMAIN t.n : u.n[q].pointer = t.n[q].pointer
             /\ u.n[k].pointer = p
<1>a. PICK n : n = Hung(t.n, at, k, p)  OBVIOUS
<1>b. PICK u : u = HungTree(t, at, k, p)  OBVIOUS
<1>1. PICK D : D = DOMAIN t.n  OBVIOUS
<1>2. PICK R : R = IF Cmp[at][k] = 1 THEN Lower(dom, at) ELSE Upper(dom, at)  OBVIOUS
<1>3. PICK d : d = [q \in D \cup {k} |-> IF q = k THEN R ELSE dom[q]]  OBVIOUS
<1>4. D \subseteq Keys /\ at # k /\ k # Null /\ \A q \in D : q # Null /\ dom[q] \subseteq Keys /\ q \in dom[q]
  BY <1>1, KeyIsSeq DEF Shaped
<1>5. /\ k \in R /\ R \subseteq dom[at] /\ R \cap D = {} /\ at \notin R
      /\ R = Lower(dom, at) \/ R = Upper(dom, at)
      /\ Cmp[at][k] = 1 <=> k \in Lower(dom, at)
      /\ Cmp[at][k] # 1 <=> k \in Upper(dom, at)
  <2>1. at \in Keys /\ k \in Keys  BY <1>1, <1>4
  <2>2. /\ Cmp[at][k] = 1 => k \in Lower(dom, at) /\ t.n[at].left = Null /\ k \notin Upper(dom, at)
        /\ Cmp[at][k] # 1 => k \in Upper(dom, at) /\ t.n[at].right = Null /\ k \notin Lower(dom, at)
    <3>1. CASE Cmp[at][k] = 1
      <4>1. k \in Lower(dom, at) /\ t.n[at].left = Null  BY <3>1, Turn
      <4> QED  BY <2>1, <3>1, <4>1, KeyOrder DEF Lower, Upper
    <3>2. CASE Cmp[at][k] # 1
      <4>1. k \in Upper(dom, at) /\ t.n[at].right = Null  BY <1>4, <3>2, Turn
      <4> QED  BY <2>1, <3>2, <4>1, KeyOrder DEF Lower, Upper
    <3> QED  BY <3>1, <3>2
  <2>3. /\ t.n[at].left = Null => Lower(dom, at) \cap D = {}
        /\ t.n[at].right = Null => Upper(dom, at) \cap D = {}
    BY <1>1 DEF Shaped, Leads
  <2>4. at \notin Lower(dom, at) /\ at \notin Upper(dom, at)  BY <2>1, KeyOrder DEF Lower, Upper
  <2>5. Lower(dom, at) \subseteq dom[at] /\ Upper(dom, at) \subseteq dom[at]  BY DEF Lower, Upper
  <2> QED  BY <1>2, <2>2, <2>3, <2>4, <2>5
<1>6. Lower(dom, at) \cap Upper(dom, at) = {}  BY <1>1, <1>4, KeyOrder DEF Lower, Upper
<1>7. u.n = n /\ u.r = t.r /\ u = [r |-> u.r, n |-> u.n]  BY <1>a, <1>b DEF HungTree
<1>9. /\ DOMAIN n = D \cup {k}
      /\ \A q \in D \ {at} : n[q] = t.n[q]
      /\ n[k] = [pointer |-> p, left |-> Null, right |-> Null]
      /\ n[at] = [pointer |-> t.n[at].pointer,
                  left |-> IF Cmp[at][k] = 1 THEN k ELSE t.n[at].left,
                  right |-> IF Cmp[at][k] = 1 THEN t.n[at].right ELSE k]
  BY <1>1, <1>4, <1>a DEF Hung, Fresh
<1>10. n \in [DOMAIN n -> BSTNodes(P)]
  <2>1. ASSUME NEW q \in D \cup {k} PROVE n[q] \in BSTNodes(P)
    <3>1. CASE q = k  BY <1>9, <3>1 DEF BSTNodes
    <3>2. CASE q = at
      <4>1. t.n[at] \in BSTNodes(P)  BY DEF Shaped
      <4> QED  BY <1>9, <3>2, <4>1 DEF BSTNodes
    <3>3. CASE q \in D \ {at}  BY <1>1, <1>9, <3>3 DEF Shaped
    <3> QED  BY <2>1, <3>1, <3>2, <3>3
  <2>2. n = [q \in DOMAIN n |-> n[q]]  BY <1>a DEF Hung
  <2> QED  BY <1>9, <2>1, <2>2
<1>11. d \in [DOMAIN n -> SUBSET Keys]
  <2>1. R \subseteq Keys  BY <1>1, <1>4, <1>5
  <2> QED  BY <1>3, <1>4, <1>9, <2>1
<1>12. Leads(n, d, t.r, Keys)
  <2>1. t.r # Null /\ t.r \in D /\ dom[t.r] = Keys  BY <1>1, <1>4 DEF Shaped, Leads
  <2>2. t.r # k  BY <1>1, <2>1
  <2> QED  BY <1>3, <1>9, <2>1, <2>2 DEF Leads
<1>13. ASSUME NEW a \in D
       PROVE  Lower(d, a) = Lower(dom, a) /\ Upper(d, a) = Upper(dom, a) /\ d[a] = dom[a]
  BY <1>1, <1>3 DEF Lower, Upper
(* A side that k falls into and that is empty is the side of `at'.         *)
<1>14. ASSUME NEW a \in D, NEW S, S \in {Lower(dom, a), Upper(dom, a)}, S \cap D = {}, k \in S
       PROVE  a = at /\ S = R
  <2>1. S \subseteq dom[a] /\ k \in dom[a]  BY <1>14 DEF Lower, Upper
  <2>2. CASE a = at
    <3>1. S = Lower(dom, at) \/ S = Upper(dom, at)  BY <1>14, <2>2
    <3> QED  BY <1>5, <1>6, <1>14, <2>2, <3>1
  <2>3. CASE a # at
    <3>1. Under(dom, a, at) \/ Under(dom, at, a)  BY <1>1, <2>1, <2>3 DEF Shaped
    <3>2. CASE Under(dom, at, a)
      <4>1. Lower(dom, a) \cap Upper(dom, a) = {}  BY <1>1, <1>4, KeyOrder DEF Lower, Upper
      <4>2. dom[at] \subseteq S  BY <1>14, <3>2, <4>1 DEF Under
      <4> QED  BY <1>1, <1>4, <1>14, <4>2
    <3>3. CASE Under(dom, a, at)
      <4>1. dom[a] \subseteq R  BY <1>5, <1>6, <2>1, <3>3 DEF Under
      <4> QED  BY <1>4, <1>5, <4>1
    <3> QED  BY <3>1, <3>2, <3>3
  <2> QED  BY <2>2, <2>3
<1>15. ASSUME NEW a \in DOMAIN n
       PROVE  /\ a \in d[a]
              /\ Leads(n, d, n[a].left, Lower(d, a))
              /\ Leads(n, d, n[a].right, Upper(d, a))
  <2>1. CASE a = k
    <3>1. d[a] = R /\ n[a].left = Null /\ n[a].right = Null  BY <1>3, <1>9, <2>1
    <3>2. Lower(d, a) \subseteq R \ {k} /\ Upper(d, a) \subseteq R \ {k}
      BY <2>1, <3>1, KeyOrder DEF Lower, Upper
    <3> QED  BY <1>5, <1>9, <2>1, <3>1, <3>2 DEF Leads
  <2>2. CASE a \in D
    <3>1. Leads(t.n, dom, t.n[a].left, Lower(dom, a)) /\ Leads(t.n, dom, t.n[a].right, Upper(dom, a))
      BY <1>1, <2>2 DEF Shaped
    <3>2. ASSUME NEW c, NEW S, Leads(t.n, dom, c, S), c # Null \/ k \notin S
          PROVE  Leads(n, d, c, S)
      <4>1. CASE c = Null  BY <1>1, <1>9, <3>2, <4>1 DEF Leads
      <4>2. CASE c # Null  BY <1>1, <1>3, <1>9, <3>2, <4>2 DEF Leads
      <4> QED  BY <4>1, <4>2
    <3>3. Leads(n, d, k, R)  BY <1>3, <1>4, <1>9 DEF Leads
    <3>4. CASE a = at
      <4>1. CASE Cmp[at][k] = 1
        <5>1. k \notin Upper(dom, a)  BY <1>5, <1>6, <3>4, <4>1
        <5>2. R = Lower(dom, a) /\ n[a].left = k /\ n[a].right = t.n[a].right
          BY <1>2, <1>9, <3>4, <4>1
        <5>3. a \in d[a] /\ Lower(d, a) = Lower(dom, a) /\ Upper(d, a) = Upper(dom, a)
          BY <1>1, <1>4, <1>13, <2>2
        <5> QED  BY <3>1, <3>2, <3>3, <5>1, <5>2, <5>3
      <4>2. CASE Cmp[at][k] # 1
        <5>1. k \notin Lower(dom, a)  BY <1>5, <1>6, <3>4, <4>2
        <5>2. R = Upper(dom, a) /\ n[a].right = k /\ n[a].left = t.n[a].left
          BY <1>2, <1>9, <3>4, <4>2
        <5>3. a \in d[a] /\ Lower(d, a) = Lower(dom, a) /\ Upper(d, a) = Upper(dom, a)
          BY <1>1, <1>4, <1>13, <2>2
        <5> QED  BY <3>1, <3>2, <3>3, <5>1, <5>2, <5>3
      <4> QED  BY <4>1, <4>2
    <3>5. CASE a # at
      <4>1. n[a] = t.n[a]  BY <1>9, <2>2, <3>5
      <4>2. t.n[a].left # Null \/ k \notin Lower(dom, a)
        BY <1>1, <1>14, <2>2, <3>1, <3>5 DEF Leads
      <4>3. t.n[a].right # Null \/ k \notin Upper(dom, a)
        BY <1>1, <1>14, <2>2, <3>1, <3>5 DEF Leads
      <4>4. Leads(n, d, t.n[a].left, Lower(dom, a)) /\ Leads(n, d, t.n[a].right, Upper(dom, a))
        BY <3>1, <3>2, <4>2, <4>3
      <4> QED  BY <1>4, <1>13, <2>2, <4>1, <4>4
    <3> QED  BY <3>4, <3>5
  <2> QED  BY <1>9, <2>1, <2>2
<1>16. ASSUME NEW b \in D PROVE R \cap dom[b] = {} \/ Under(d, k, b)
  <2>1. d[k] = R  BY <1>3
  <2>2. CASE b = at
    <3>1. Lower(d, at) = Lower(dom, at) /\ Upper(d, at) = Upper(dom, at)  BY <1>1, <1>13
    <3>2. Under(d, k, at)  BY <1>5, <2>1, <3>1 DEF Under
    <3> QED  BY <2>2, <3>2
  <2>3. CASE b # at
    <3>1. dom[at] \cap dom[b] = {} \/ Under(dom, at, b) \/ Under(dom, b, at)  BY <1>1, <2>3 DEF Shaped
    <3>2. CASE dom[at] \cap dom[b] = {}  BY <1>5, <3>2
    <3>3. CASE Under(dom, at, b)  BY <1>5, <1>13, <2>1, <3>3 DEF Under
    <3>4. CASE Under(dom, b, at)
      <4>1. b \in dom[b] /\ b \notin R  BY <1>4, <1>5
      <4>2. dom[b] \cap R = {}  BY <1>5, <1>6, <3>4, <4>1 DEF Under
      <4> QED  BY <4>2
    <3> QED  BY <3>1, <3>2, <3>3, <3>4
  <2> QED  BY <2>2, <2>3
<1>17. ASSUME NEW a \in DOMAIN n, NEW b \in DOMAIN n
       PROVE  a = b \/ d[a] \cap d[b] = {} \/ Under(d, a, b) \/ Under(d, b, a)
  <2>1. CASE a \in D /\ b \in D
    <3>1. a = b \/ dom[a] \cap dom[b] = {} \/ Under(dom, a, b) \/ Under(dom, b, a)
      BY <1>1, <2>1 DEF Shaped
    <3> QED  BY <1>13, <2>1, <3>1 DEF Under
  <2>2. CASE a = k /\ b \in D  BY <1>3, <1>13, <1>16, <2>2
  <2>3. CASE b = k /\ a \in D  BY <1>3, <1>13, <1>16, <2>3
  <2> QED  BY <1>9, <2>1, <2>2, <2>3
<1>18. Shaped(u, d, P)
  <2>1. u.n = n /\ u.r = t.r  BY <1>7
  <2>2. u = [r |-> u.r, n |-> u.n] /\ DOMAIN n \subseteq Keys  BY <1>4, <1>7, <1>9
  <2> QED  BY <1>10, <1>11, <1>12, <1>15, <1>17, <2>1, <2>2 DEF Shaped
<1> QED  BY <1>1, <1>7, <1>9, <1>18, <1>b

(* A BSTNode gets another pointer.                                         *)
Repoint(t, s, p) == [r |-> t.r, n |-> [t.n EXCEPT ![s].pointer = p]]

LEMMA Repointed ==
  ASSUME NEW t, NEW D, NEW f, NEW P, Carries(t, D, f, P), NEW s \in D, NEW p \in P
  PROVE  Carries(Repoint(t, s, p), D, Put(D, f, s, p), P)
<1>1. PICK dom : Shaped(t, dom, P)  BY DEF Carries
<1>2. DOMAIN t.n = D /\ D \subseteq Keys /\ \A q \in D : t.n[q].pointer = f[q]
  BY <1>1 DEF Carries, Shaped
<1>3. t = [r |-> t.r, n |-> t.n] /\ t.n \in [D -> BSTNodes(P)]  BY <1>1, <1>2 DEF Shaped
<1>4. PICK n : n = [t.n EXCEPT ![s].pointer = p]  OBVIOUS
<1>5. PICK u : u = [r |-> t.r, n |-> n]  OBVIOUS
<1>6. u = Repoint(t, s, p)  BY <1>4, <1>5 DEF Repoint
<1>7. n = [q \in D |-> IF q = s THEN [pointer |-> p, left |-> t.n[s].left, right |-> t.n[s].right]
                       ELSE t.n[q]]
  <2>1. n = [q \in D |-> IF q = s THEN [t.n[s] EXCEPT !.pointer = p] ELSE t.n[q]]  BY <1>3, <1>4
  <2>2. PICK e : e = t.n[s]  OBVIOUS
  <2>3. [e EXCEPT !.pointer = p] = [pointer |-> p, left |-> e.left, right |-> e.right]
    BY <1>3, <2>2 DEF BSTNodes
  <2> QED  BY <2>1, <2>2, <2>3
<1>8. /\ DOMAIN n = D
      /\ n \in [D -> BSTNodes(P)]
      /\ \A q \in D : /\ n[q].left = t.n[q].left /\ n[q].right = t.n[q].right
                      /\ n[q].pointer = IF q = s THEN p ELSE t.n[q].pointer
  <2>1. ASSUME NEW q \in D
        PROVE  /\ n[q] \in BSTNodes(P)
               /\ n[q].left = t.n[q].left /\ n[q].right = t.n[q].right
               /\ n[q].pointer = IF q = s THEN p ELSE t.n[q].pointer
    <3>1. t.n[q] \in BSTNodes(P)  BY <1>3
    <3> QED  BY <1>7, <3>1 DEF BSTNodes
  <2> QED  BY <1>7, <2>1
<1>9. Shaped(u, dom, P)
  <2>1. \A c, R : Leads(t.n, dom, c, R) => Leads(n, dom, c, R)  BY <1>2, <1>8 DEF Leads
  <2>2. u.n = n /\ u.r = t.r /\ u = [r |-> u.r, n |-> u.n]  BY <1>5
  <2>3. \A a \in D : /\ a \in dom[a]
                     /\ Leads(n, dom, n[a].left, Lower(dom, a))
                     /\ Leads(n, dom, n[a].right, Upper(dom, a))
    BY <1>1, <1>2, <1>8, <2>1 DEF Shaped
  <2>4. Leads(n, dom, t.r, Keys)  BY <1>1, <2>1 DEF Shaped
  <2>5. /\ dom \in [D -> SUBSET Keys]
        /\ \A a, b \in D :
             a = b \/ dom[a] \cap dom[b] = {} \/ Under(dom, a, b) \/ Under(dom, b, a)
    BY <1>1, <1>2 DEF Shaped
  <2> QED  BY <1>2, <1>8, <2>2, <2>3, <2>4, <2>5 DEF Shaped
<1>10. D \cup {s} = D  OBVIOUS
<1> QED  BY <1>2, <1>5, <1>6, <1>8, <1>9, <1>10 DEF Carries, Put

(* BSTInsertNode adds the key, or gives the key that is there the pointer. *)
LEMMA Inserted ==
  ASSUME ~ByteDifference, NEW t, NEW D, NEW f, NEW P, Carries(t, D, f, P),
         NEW k \in Keys, NEW p \in P
  PROVE  Carries(BSTInsertNode(t, k, p), D \cup {k}, Put(D, f, k, p), P)
<1>1. PICK dom : Shaped(t, dom, P)  BY DEF Carries
<1>2. DOMAIN t.n = D /\ D \subseteq Keys /\ \A q \in D : t.n[q].pointer = f[q]
  BY <1>1 DEF Carries, Shaped
<1>3. t = [r |-> t.r, n |-> t.n] /\ t.n \in [D -> BSTNodes(P)]  BY <1>1, <1>2 DEF Shaped
<1>4. PICK u : u = BSTInsertNode(t, k, p)  OBVIOUS
<1>5. CASE t.r = Null
  <2>1. D = {}  BY <1>1, <1>2, <1>5 DEF Shaped, Leads
  <2>2. u = [r |-> k, n |-> [q \in {k} |-> Fresh(p)]]
    <3>1. With(t.n, k, Fresh(p)) = [q \in {k} |-> Fresh(p)]  BY <1>2, <2>1 DEF With
    <3> QED  BY <1>4, <1>5, <3>1 DEF BSTInsertNode
  <2>3. PICK d : d = [q \in {k} |-> Keys]  OBVIOUS
  <2>4. k # Null /\ Lower(d, k) \cap {k} = {} /\ Upper(d, k) \cap {k} = {}
    BY KeyIsSeq, KeyOrder DEF Lower, Upper
  <2>5. DOMAIN u.n = {k} /\ u.r = k /\ u.n[k] = [pointer |-> p, left |-> Null, right |-> Null]
    BY <2>2 DEF Fresh
  <2>6. u.n \in [{k} -> BSTNodes(P)]  BY <2>2 DEF Fresh, BSTNodes
  <2>7. Shaped(u, d, P)
    <3>1. u = [r |-> u.r, n |-> u.n]  BY <2>2
    <3>2. Leads(u.n, d, u.r, Keys)  BY <2>3, <2>4, <2>5 DEF Leads
    <3>3. Leads(u.n, d, Null, Lower(d, k)) /\ Leads(u.n, d, Null, Upper(d, k))
      BY <2>4, <2>5 DEF Leads
    <3>4. d \in [{k} -> SUBSET Keys] /\ k \in d[k]  BY <2>3
    <3> QED  BY <2>5, <2>6, <3>1, <3>2, <3>3, <3>4 DEF Shaped
  <2> QED  BY <1>4, <2>1, <2>5, <2>7 DEF Carries, Put
<1>6. CASE t.r # Null
  <2>1. PICK at : at = Place(t.n, t.r, k)  OBVIOUS
  <2>2. at \in D /\ k \in dom[at] /\ (at = k \/ (Toward(t.n, at, k) = Null /\ k \notin D))
    BY <1>1, <1>2, <1>6, <2>1, PlaceIs
  <2>3. Cmp[at][k] = 0 <=> at = k  BY <1>1, <1>2, <2>2, Turn
  <2>4. CASE at = k
    <3>1. PICK n : n = [t.n EXCEPT ![k].pointer = p]  OBVIOUS
    <3>2. u = [t EXCEPT !.n = n]  BY <1>4, <1>6, <2>1, <2>3, <2>4, <3>1 DEF BSTInsertNode
    <3>3. u = [r |-> t.r, n |-> n]  BY <1>3, <3>2
    <3>4. u = Repoint(t, k, p)  BY <3>1, <3>3 DEF Repoint
    <3>5. Carries(u, D, Put(D, f, k, p), P)  BY <2>2, <2>4, <3>4, Repointed
    <3>6. D \cup {k} = D  BY <2>2, <2>4
    <3> QED  BY <1>4, <3>5, <3>6
  <2>5. CASE at # k
    <3>1. k \notin D /\ Toward(t.n, at, k) = Null /\ Cmp[at][k] # 0  BY <2>2, <2>3, <2>5
    <3>2. PICK n : n = Hung(t.n, at, k, p)  OBVIOUS
    <3>3. n = Spliced(t.n, at, k, p)
      <4>1. D \in SUBSET Keys /\ k \in Keys \ D  BY <1>2, <3>1
      <4> QED  BY <1>3, <2>2, <3>2, <4>1, HungIs
    <3>4. u = [r |-> t.r, n |-> n]
      <4>1. u = [t EXCEPT !.n = n]
        BY <1>4, <1>6, <2>1, <3>1, <3>3 DEF BSTInsertNode, Spliced
      <4> QED  BY <1>3, <4>1
    <3>5. /\ \E d : Shaped(u, d, P)
          /\ DOMAIN u.n = D \cup {k}
          /\ \A q \in D : u.n[q].pointer = t.n[q].pointer
          /\ u.n[k].pointer = p
      <4>1. u = HungTree(t, at, k, p)  BY <3>2, <3>4 DEF HungTree
      <4>2. k \notin DOMAIN t.n /\ at \in DOMAIN t.n  BY <1>2, <2>2, <3>1
      <4> QED  BY <1>1, <1>2, <2>2, <3>1, <4>1, <4>2, HungUp
    <3>6. \A q \in D \cup {k} : u.n[q].pointer = Put(D, f, k, p)[q]
      BY <1>2, <3>1, <3>5 DEF Put
    <3> QED  BY <1>4, <3>5, <3>6 DEF Carries
  <2> QED  BY <2>4, <2>5
<1> QED  BY <1>5, <1>6

(* The empty tree.                                                         *)
LEMMA EmptyIs ==
  ASSUME NEW f, NEW P
  PROVE  Carries(Empty, {}, f, P)
<1>1. PICK u : u = Empty  OBVIOUS
<1>2. u = [r |-> Null, n |-> [k \in {} |-> {}]]  BY <1>1 DEF Empty
<1>3. u.r = Null /\ u = [r |-> u.r, n |-> u.n] /\ DOMAIN u.n = {} /\ u.n = [k \in {} |-> {}]  BY <1>2
<1>4. PICK d : d = [k \in {} |-> {}]  OBVIOUS
<1>5. u.n \in [{} -> BSTNodes(P)] /\ d \in [{} -> SUBSET Keys]  BY <1>3, <1>4
<1>6. Leads(u.n, d, u.r, Keys)  BY <1>3 DEF Leads
<1>7. Shaped(u, d, P)  BY <1>3, <1>5, <1>6 DEF Shaped
<1> QED  BY <1>1, <1>3, <1>7 DEF Carries

-----------------------------------------------------------------------------
(* Sequences of one element, and sequences with a new front.         *)
LEMMA Single ==
  ASSUME NEW S, NEW a \in S
  PROVE  <<a>> \in Seq(S) /\ Len(<<a>>) = 1 /\ <<a>>[1] = a
OBVIOUS

LEMMA Fronted ==
  ASSUME NEW S, NEW a \in S, NEW s \in Seq(S)
  PROVE  /\ <<a>> \o s \in Seq(S)
         /\ Len(s) \in Nat
         /\ Len(<<a>> \o s) = Len(s) + 1
         /\ (<<a>> \o s)[1] = a
         /\ \A i \in 2 .. Len(s) + 1 : (<<a>> \o s)[i] = s[i - 1]
         /\ Head(<<a>> \o s) = a
         /\ Tail(<<a>> \o s) = s
         /\ <<a>> \o s # <<>>
<1>1. PICK u : u = <<a>> \o s  OBVIOUS
<1>2. <<a>> \in Seq(S) /\ Len(<<a>>) = 1 /\ <<a>>[1] = a /\ Len(s) \in Nat  OBVIOUS
<1>3. /\ u \in Seq(S)
      /\ Len(u) = 1 + Len(s)
      /\ \A i \in 1 .. 1 + Len(s) : u[i] = IF i <= 1 THEN <<a>>[i] ELSE s[i - 1]
  <2>1. /\ u \in Seq(S)
        /\ Len(u) = Len(<<a>>) + Len(s)
        /\ \A i \in 1 .. Len(<<a>>) + Len(s) : u[i] = IF i <= Len(<<a>>) THEN <<a>>[i] ELSE s[i - Len(<<a>>)]
    BY ONLY <1>1, <1>2, ConcatProperties
  <2> QED  BY <1>2, <2>1
<1>4. u[1] = a /\ \A i \in 2 .. Len(s) + 1 : u[i] = s[i - 1]
  <2>1. 1 \in 1 .. 1 + Len(s)  BY <1>2
  <2>2. \A i \in 2 .. Len(s) + 1 : i \in 1 .. 1 + Len(s) /\ ~ (i <= 1)  BY <1>2
  <2> QED  BY <1>2, <1>3, <2>1, <2>2
<1>5. u # <<>>  BY <1>2, <1>3
<1>6. Head(u) = a  BY <1>3, <1>4
<1>7. Tail(u) = s
  <2>1. /\ Tail(u) \in Seq(S)
        /\ Len(Tail(u)) = Len(u) - 1
        /\ \A i \in 1 .. Len(Tail(u)) : Tail(u)[i] = u[i + 1]
    BY <1>3, <1>5, HeadTailProperties
  <2>2. Len(Tail(u)) = Len(s)  BY <1>2, <1>3, <2>1
  <2>3. \A i \in 1 .. Len(Tail(u)) : Tail(u)[i] = s[i]
    <3>1. ASSUME NEW i \in 1 .. Len(Tail(u)) PROVE Tail(u)[i] = s[i]
      <4>1. i + 1 \in 2 .. Len(s) + 1 /\ i + 1 - 1 = i  BY <1>2, <2>2
      <4> QED  BY <1>4, <2>1, <4>1
    <3> QED  BY <3>1
  <2> QED  BY <2>1, <2>2, <2>3, SeqEqual
<1> QED  BY <1>1, <1>2, <1>3, <1>4, <1>5, <1>6, <1>7

LEMMA Uncons ==
  ASSUME NEW S, NEW s \in Seq(S), s # <<>>
  PROVE  /\ Len(s) \in Nat \ {0}
         /\ Head(s) = s[1] /\ s[1] \in S
         /\ Tail(s) \in Seq(S) /\ Len(Tail(s)) = Len(s) - 1
         /\ \A i \in 1 .. Len(s) - 1 : Tail(s)[i] = s[i + 1]
         /\ s = <<s[1]>> \o Tail(s)
<1>1. Len(s) \in Nat \ {0} /\ Head(s) = s[1]  BY EmptySeq
<1>2. /\ Tail(s) \in Seq(S) /\ Len(Tail(s)) = Len(s) - 1
      /\ \A i \in 1 .. Len(Tail(s)) : Tail(s)[i] = s[i + 1]
  BY HeadTailProperties
<1>3. s[1] \in S  BY <1>1, ElementOfSeq
<1>4. PICK r : r = Tail(s)  OBVIOUS
<1>5. PICK u : u = <<s[1]>> \o r  OBVIOUS
<1>6. u \in Seq(S) /\ Len(u) = Len(r) + 1 /\ u[1] = s[1] /\ \A i \in 2 .. Len(r) + 1 : u[i] = r[i - 1]
  BY <1>2, <1>3, <1>4, <1>5, Fronted
<1>7. Len(u) = Len(s)  BY <1>1, <1>2, <1>4, <1>6
<1>8. \A i \in 1 .. Len(u) : u[i] = s[i]
  <2>1. ASSUME NEW i \in 1 .. Len(u) PROVE u[i] = s[i]
    <3>1. CASE i = 1  BY <1>6, <3>1
    <3>2. CASE i # 1
      <4>1. i \in 2 .. Len(r) + 1 /\ i - 1 \in 1 .. Len(r) /\ i - 1 + 1 = i
        BY <1>1, <1>2, <1>4, <1>6, <3>2
      <4> QED  BY <1>2, <1>4, <1>6, <4>1
    <3> QED  BY <3>1, <3>2
  <2> QED  BY <2>1
<1>9. u = s  BY <1>6, <1>7, <1>8, SeqEqual
<1> QED  BY <1>1, <1>2, <1>3, <1>4, <1>5, <1>9

(* An element moves from the end of one sequence to the front of the next. *)
LEMMA AppendCat ==
  ASSUME NEW S, NEW s \in Seq(S), NEW r \in Seq(S), NEW a \in S
  PROVE  Append(s, a) \o r = s \o (<<a>> \o r)
<1>1. <<a>> \in Seq(S)  OBVIOUS
<1>2. Append(s, a) = s \o <<a>>  BY AppendIsConcat
<1> QED  BY <1>1, <1>2, ConcatAssociative

-----------------------------------------------------------------------------
(* The traversal.                                                          *)

Ascending(v) == \A i, j \in 1 .. Len(v) : i < j => Precedes[v[i]][v[j]]

(* q comes when stack element i is popped, or after it.                    *)
Waits(dom, s, i, q) == q = s[i] \/ q \in Upper(dom, s[i]) \/ (i = 1 /\ q \in dom[s[1]])

(* What is on the stack s while the keys of V have been visited: each       *)
(* element lies below the next one's left; everything visited is in front  *)
(* of it; the left of the one on top has been visited or not at all; and   *)
(* what has not been visited is waiting.                                   *)
Pending(D, dom, V, s) ==
  /\ s \in Seq(D \ V)
  /\ \A i, j \in 1 .. Len(s) : i < j => dom[s[i]] \subseteq Lower(dom, s[j])
  /\ \A v \in V, i \in 1 .. Len(s) : Precedes[v][s[i]]
  /\ s # <<>> => \/ D \cap Lower(dom, s[1]) \subseteq V
                 \/ \A v \in V, q \in dom[s[1]] : Precedes[v][q]
  /\ \A q \in D \ V : \E i \in 1 .. Len(s) : Waits(dom, s, i, q)

Ready(D, dom, V, s) ==
  Pending(D, dom, V, s) /\ s # <<>> /\ D \cap Lower(dom, s[1]) \subseteq V

(* A left child that has not been visited is pushed.                       *)
LEMMA Deeper ==
  ASSUME ~ByteDifference, NEW t, NEW dom, NEW P, Shaped(t, dom, P), NEW D, D = DOMAIN t.n,
         NEW V \in SUBSET D, NEW s, Pending(D, dom, V, s), s # <<>>,
         t.n[s[1]].left # Null, t.n[s[1]].left \notin V
  PROVE  Pending(D, dom, V, <<t.n[s[1]].left>> \o s)
<1>1. PICK c : c = t.n[s[1]].left  OBVIOUS
<1>2. PICK u : u = <<c>> \o s  OBVIOUS
<1>3. s \in Seq(D \ V) /\ Len(s) \in Nat \ {0} /\ s[1] \in D \ V  BY EmptySeq, ElementOfSeq DEF Pending
<1>4. \A i \in 1 .. Len(s) : s[i] \in D \ V  BY <1>3, ElementOfSeq
<1>5. c \in D \ V /\ dom[c] = Lower(dom, s[1]) /\ c \in dom[c]
  <2>1. Leads(t.n, dom, c, Lower(dom, s[1]))  BY <1>1, <1>3 DEF Shaped
  <2>2. c \in D /\ dom[c] = Lower(dom, s[1])  BY <1>1, <2>1 DEF Leads
  <2> QED  BY <1>1, <2>2 DEF Shaped
<1>6. u \in Seq(D \ V) /\ Len(u) = Len(s) + 1 /\ u[1] = c /\ (\A i \in 2 .. Len(s) + 1 : u[i] = s[i - 1]) /\ u # <<>>
  BY <1>2, <1>3, <1>5, Fronted
<1>7. \A i \in 2 .. Len(u) : i - 1 \in 1 .. Len(s) /\ u[i] = s[i - 1]  BY <1>3, <1>6
<1>8. \A v \in V, q \in dom[s[1]] : Precedes[v][q]
  <2>1. c \in D \cap Lower(dom, s[1]) /\ c \notin V  BY <1>5
  <2> QED  BY <2>1 DEF Pending
<1>9. \A v \in V, q \in dom[c] : Precedes[v][q]  BY <1>5, <1>8 DEF Lower
<1>10. ASSUME NEW i \in 1 .. Len(u), NEW j \in 1 .. Len(u), i < j
       PROVE  dom[u[i]] \subseteq Lower(dom, u[j])
  <2>1. j \in 2 .. Len(u) /\ 1 \in 1 .. Len(s)  BY <1>3, <1>6, <1>10
  <2>2. CASE i = 1
    <3>1. CASE j = 2  BY <1>5, <1>6, <1>7, <2>1, <2>2, <3>1
    <3>2. CASE j # 2
      <4>1. j - 1 \in 1 .. Len(s) /\ 1 < j - 1 /\ u[j] = s[j - 1]  BY <1>7, <2>1, <3>2
      <4>2. dom[s[1]] \subseteq Lower(dom, s[j - 1])  BY <2>1, <4>1 DEF Pending
      <4>3. dom[c] \subseteq dom[s[1]]  BY <1>5 DEF Lower
      <4> QED  BY <1>6, <2>2, <4>1, <4>2, <4>3
    <3> QED  BY <3>1, <3>2
  <2>3. CASE i # 1
    <3>1. i \in 2 .. Len(u) /\ i - 1 \in 1 .. Len(s) /\ j - 1 \in 1 .. Len(s) /\ i - 1 < j - 1
          /\ u[i] = s[i - 1] /\ u[j] = s[j - 1]
      BY <1>6, <1>7, <1>10, <2>1, <2>3
    <3> QED  BY <3>1 DEF Pending
  <2> QED  BY <2>2, <2>3
<1>11. ASSUME NEW v \in V, NEW i \in 1 .. Len(u) PROVE Precedes[v][u[i]]
  <2>1. CASE i = 1  BY <1>5, <1>6, <1>9, <2>1
  <2>2. CASE i # 1
    <3>1. i \in 2 .. Len(u)  BY <1>6, <2>2
    <3> QED  BY <1>7, <3>1 DEF Pending
  <2> QED  BY <2>1, <2>2
<1>12. ASSUME NEW q \in D \ V PROVE \E i \in 1 .. Len(u) : Waits(dom, u, i, q)
  <2>1. PICK i \in 1 .. Len(s) : Waits(dom, s, i, q)  BY DEF Pending
  <2>2. i + 1 \in 1 .. Len(u) /\ i + 1 \in 2 .. Len(u) /\ i + 1 - 1 = i /\ 1 \in 1 .. Len(u) /\ 1 \in 1 .. Len(s)
    BY <1>3, <1>6
  <2>3. u[i + 1] = s[i]  BY <1>7, <2>2
  <2>4. CASE q = s[i] \/ q \in Upper(dom, s[i])  BY <2>2, <2>3, <2>4 DEF Waits
  <2>5. CASE i = 1 /\ q \in dom[s[1]]
    <3>1. q = s[1] \/ q \in Lower(dom, s[1]) \/ q \in Upper(dom, s[1])
      <4>1. q \in Keys /\ s[1] \in Keys  BY <1>3 DEF Shaped
      <4> QED  BY <2>5, <4>1, KeyOrder DEF Lower, Upper
    <3>2. CASE q \in Lower(dom, s[1])  BY <1>5, <1>6, <2>2, <3>2 DEF Waits
    <3>3. CASE q = s[1] \/ q \in Upper(dom, s[1])  BY <2>4, <2>5, <3>3
    <3> QED  BY <3>1, <3>2, <3>3
  <2> QED  BY <2>1, <2>4, <2>5 DEF Waits
<1>13. Pending(D, dom, V, u)
  <2>1. \A v \in V, q \in dom[u[1]] : Precedes[v][q]  BY <1>6, <1>9
  <2> QED  BY <1>6, <1>10, <1>11, <1>12, <2>1 DEF Pending
<1> QED  BY <1>1, <1>2, <1>13

(* PushLeft goes down to what comes next.                                  *)
LEMMA SpineIs ==
  ASSUME ~ByteDifference, NEW t, NEW dom, NEW P, Shaped(t, dom, P), NEW D, D = DOMAIN t.n,
         NEW V \in SUBSET D, NEW s, Pending(D, dom, V, s), s # <<>>
  PROVE  Ready(D, dom, V, PushLeft(t.n, s, V \cup {t.r}))
<1>1. PICK counter : counter = V \cup {t.r}  OBVIOUS
<1>2. PICK ends : ends = {a \in D : t.n[a].left \in {Null} \cup counter}  OBVIOUS
<1>3. PICK size : size = [a \in D |-> Cardinality(dom[a])]  OBVIOUS
<1>4. PICK nxt : nxt = [a \in D \ ends |-> t.n[a].left]  OBVIOUS
<1>5. WayDown(D, size, ends, nxt)
  <2>1. /\ size \in [D -> Nat]
        /\ \A a \in D : size[a] <= Cardinality(Keys)
        /\ \A a \in D : t.n[a].left # Null => t.n[a].left \in D /\ size[t.n[a].left] < size[a]
    BY <1>3, Narrower
  <2>2. Cardinality(Keys) \in Nat  BY KeysAssumption, FS_CardinalityType
  <2> QED  BY <1>2, <1>4, <2>1, <2>2 DEF WayDown
<1> DEFINE Fits(f) == f = [at \in DOMAIN t.n |->
                             IF t.n[at].left \in {Null} \cup counter THEN <<at>>
                             ELSE Append(f[t.n[at].left], at)]
<1>6. \E f : Fits(f) /\ f \in [D -> Seq(D)]
  <2>1. PICK last0 : last0 = [a \in D |-> <<a>>]  OBVIOUS
  <2>2. PICK op : op = [a \in D |-> [z \in Seq(D) |-> Append(z, a)]]  OBVIOUS
  <2>3. Rule(D, Seq(D), last0, op)
    <3>1. PICK Q : Q = Seq(D)  OBVIOUS
    <3>2. \A a \in D : <<a>> \in Q  BY <3>1
    <3>3. \A a \in D, z \in Q : Append(z, a) \in Q  BY <3>1, AppendProperties
    <3>4. last0 \in [D -> Q]  BY <2>1, <3>2
    <3>5. op \in [D -> [Q -> Q]]  BY <2>2, <3>1, <3>3
    <3> QED  BY <3>1, <3>4, <3>5 DEF Rule
  <2>4. PICK g : Solves(g, D, Seq(D), ends, nxt, last0, op)  BY ONLY <1>5, <2>3, DownRecursion
  <2>5. ASSUME NEW a \in D
        PROVE  g[a] = IF t.n[a].left \in {Null} \cup counter THEN <<a>> ELSE Append(g[t.n[a].left], a)
    <3>1. CASE a \in ends  BY <1>2, <2>1, <2>4, <3>1 DEF Solves
    <3>2. CASE a \notin ends
      <4>1. nxt[a] = t.n[a].left /\ nxt[a] \in D  BY <1>4, <1>5, <3>2 DEF WayDown
      <4>2. op[a][g[nxt[a]]] = Append(g[nxt[a]], a)  BY <2>2, <2>4, <4>1 DEF Solves
      <4> QED  BY <1>2, <2>4, <3>2, <4>1, <4>2 DEF Solves
    <3> QED  BY <3>1, <3>2
  <2>6. Fits(g) /\ g \in [D -> Seq(D)]  BY <2>4, <2>5 DEF Solves
  <2> QED  BY <2>6
<1>7. PICK f : Fits(f) /\ PushLeft(t.n, s, counter) = f[Head(s)] \o Tail(s)
  <2>1. Fits(CHOOSE f : Fits(f))  BY <1>6
  <2>2. PushLeft(t.n, s, counter) = (CHOOSE f : Fits(f))[Head(s)] \o Tail(s)  BY DEF PushLeft
  <2> QED  BY <2>1, <2>2
<1>8. \A a \in D : f[a] = IF a \in ends THEN <<a>> ELSE Append(f[nxt[a]], a)
  BY <1>2, <1>4, <1>7
<1> HIDE DEF Fits
<1>9. ASSUME NEW a \in D, t.n[a].left # Null
      PROVE  t.n[a].left \in D \cap Lower(dom, a) /\ (t.n[a].left \in counter => t.n[a].left \in V)
  <2>1. Leads(t.n, dom, t.n[a].left, Lower(dom, a))  BY DEF Shaped
  <2>2. t.n[a].left \in D /\ dom[t.n[a].left] = Lower(dom, a)  BY <1>9, <2>1 DEF Leads
  <2>3. t.n[a].left \in Lower(dom, a)  BY <2>2 DEF Shaped
  <2>4. a \in Keys /\ a \notin Lower(dom, a)
    <3>1. a \in Keys  BY DEF Shaped
    <3> QED  BY <3>1, KeyOrder DEF Lower
  <2>5. t.r # Null => dom[t.r] = Keys  BY DEF Shaped, Leads
  <2>6. t.n[a].left # t.r  BY <1>9, <2>2, <2>4, <2>5
  <2> QED  BY <1>1, <2>2, <2>3, <2>6
<1> DEFINE Good(a) == /\ f[a] \in Seq(D)
                      /\ \A r \in Seq(D) : Pending(D, dom, V, <<a>> \o r) => Ready(D, dom, V, f[a] \o r)
<1>10. PICK X : X = {a \in D : Good(a)}  OBVIOUS
<1>11. ASSUME NEW a \in ends PROVE a \in X
  <2>1. a \in D /\ f[a] = <<a>> /\ f[a] \in Seq(D)
    <3>1. a \in D  BY <1>2
    <3>2. f[a] = <<a>>  BY <1>8, <3>1
    <3>3. <<a>> \in Seq(D)  BY <3>1, Single
    <3> QED  BY <3>1, <3>2, <3>3
  <2>2. ASSUME NEW r \in Seq(D), Pending(D, dom, V, <<a>> \o r) PROVE Ready(D, dom, V, f[a] \o r)
    <3>1. (<<a>> \o r)[1] = a /\ <<a>> \o r # <<>>  BY <2>1, Fronted
    <3>2. CASE t.n[a].left = Null
      <4>1. D \cap Lower(dom, a) = {}  BY <2>1, <3>2 DEF Shaped, Leads
      <4> QED  BY <2>1, <2>2, <3>1, <4>1 DEF Ready
    <3>3. CASE t.n[a].left # Null
      <4>1. t.n[a].left \in D \cap Lower(dom, a) /\ t.n[a].left \in V  BY <1>2, <1>9, <2>1, <3>3
      <4>2. t.n[a].left \in Keys /\ t.n[a].left \in dom[a]  BY <4>1 DEF Shaped, Lower
      <4>3. ~ Precedes[t.n[a].left][t.n[a].left]  BY <4>2, KeyOrder
      <4>4. D \cap Lower(dom, a) \subseteq V  BY <2>2, <3>1, <4>1, <4>2, <4>3 DEF Pending
      <4> QED  BY <2>1, <2>2, <3>1, <4>4 DEF Ready
    <3> QED  BY <3>2, <3>3
  <2>3. Good(a)  BY <2>1, <2>2
  <2> QED  BY <1>10, <2>1, <2>3
<1>12. ASSUME NEW a \in D \ ends, nxt[a] \in X PROVE a \in X
  <2>1. nxt[a] = t.n[a].left /\ nxt[a] # Null /\ nxt[a] \notin counter /\ nxt[a] \in D /\ nxt[a] \notin V
        /\ f[a] = Append(f[nxt[a]], a)
    BY <1>1, <1>2, <1>4, <1>8, <1>9
  <2>2. Good(nxt[a])  BY <1>10, <1>12
  <2>6. PICK z : z = f[nxt[a]]  OBVIOUS
  <2>7. z \in Seq(D) /\ a \in D /\ f[a] = Append(z, a)  BY <2>1, <2>2, <2>6
  <2>3. f[a] \in Seq(D)
    <3>1. Append(z, a) \in Seq(D)  BY <2>7, AppendProperties
    <3> QED  BY <2>7, <3>1
  <2>4. ASSUME NEW r \in Seq(D), Pending(D, dom, V, <<a>> \o r) PROVE Ready(D, dom, V, f[a] \o r)
    <3>1. PICK u : u = <<a>> \o r  OBVIOUS
    <3>2. u[1] = a /\ u # <<>> /\ u \in Seq(D)  BY <3>1, Fronted
    <3>3. Pending(D, dom, V, <<nxt[a]>> \o u)
      <4>1. Pending(D, dom, V, u)  BY <2>4, <3>1
      <4>2. t.n[u[1]].left = nxt[a]  BY <2>1, <3>2
      <4> QED  BY <2>1, <3>2, <4>1, <4>2, Deeper
    <3>4. Ready(D, dom, V, f[nxt[a]] \o u)  BY <2>2, <3>2, <3>3
    <3>5. f[nxt[a]] \o u = f[a] \o r  
      <4>1. Append(z, a) \o r = z \o (<<a>> \o r)  BY <2>7, AppendCat
      <4> QED  BY <2>7, <2>6, <3>1, <4>1
    <3> QED  BY <3>4, <3>5
  <2>5. Good(a)  BY <2>3, <2>4
  <2> QED  BY <1>10, <2>5
<1>13. D \subseteq X
  <2>1. ends \subseteq X  BY <1>11
  <2> QED  BY <1>5, <1>12, <2>1, Upwards
<1>14. s \in Seq(D \ V)  BY DEF Pending
<1>15. Head(s) \in D /\ Head(s) = s[1] /\ Tail(s) \in Seq(D) /\ s = <<s[1]>> \o Tail(s)
  <2>1. s \in Seq(D)  BY <1>14, SeqMonotonic
  <2> QED  BY <2>1, Uncons
<1>16. Good(Head(s))  BY <1>10, <1>13, <1>15
<1>17. Ready(D, dom, V, f[Head(s)] \o Tail(s))  BY <1>15, <1>16
<1> QED  BY <1>1, <1>7, <1>17

(* What is on top has been visited, its right child comes next.            *)
Popped(t, s) == IF t.n[s[1]].right = Null THEN Tail(s) ELSE <<t.n[s[1]].right>> \o Tail(s)

Moves(t, D, dom, V, s) ==
  /\ s[1] \in D \ V
  /\ \A v \in V : Precedes[v][s[1]]
  /\ Pending(D, dom, V \cup {s[1]}, Popped(t, s))

LEMMA Passed ==
  ASSUME ~ByteDifference, NEW t, NEW dom, NEW P, Shaped(t, dom, P), NEW D, D = DOMAIN t.n,
         NEW V \in SUBSET D, NEW s, Ready(D, dom, V, s)
  PROVE  Moves(t, D, dom, V, s)
<1>1. PICK a : a = s[1]  OBVIOUS
<1>2. PICK W : W = V \cup {a}  OBVIOUS
<1>3. PICK r : r = Tail(s)  OBVIOUS
<1>4. PICK c : c = t.n[a].right  OBVIOUS
<1>5. s \in Seq(D \ V) /\ s # <<>> /\ Pending(D, dom, V, s) /\ D \cap Lower(dom, a) \subseteq V
  BY <1>1 DEF Ready, Pending
<1>6. /\ Len(s) \in Nat \ {0} /\ a \in D \ V
      /\ r \in Seq(D \ V) /\ Len(r) = Len(s) - 1
      /\ \A i \in 1 .. Len(r) : r[i] = s[i + 1]
  BY <1>1, <1>3, <1>5, Uncons
<1>7. D \subseteq Keys /\ a \in dom[a] /\ \A q \in D : q \in dom[q] /\ dom[q] \subseteq Keys
  BY <1>6 DEF Shaped
<1>8. \A i \in 1 .. Len(r) : i + 1 \in 1 .. Len(s) /\ 1 < i + 1 /\ r[i] = s[i + 1] /\ r[i] \in D \ V
  <2>1. \A i \in 1 .. Len(r) : i + 1 \in 1 .. Len(s) /\ 1 < i + 1  BY <1>6
  <2> QED  BY <1>5, <1>6, <2>1, ElementOfSeq
<1>9. 1 \in 1 .. Len(s)  BY <1>6
<1>10. \A i \in 1 .. Len(r) : dom[a] \subseteq Lower(dom, r[i])  BY <1>1, <1>5, <1>8, <1>9 DEF Pending
<1>11. \A i \in 1 .. Len(r) : Precedes[a][r[i]] /\ r[i] # a /\ r[i] \in D \ W
  <2>1. ASSUME NEW i \in 1 .. Len(r) PROVE Precedes[a][r[i]] /\ r[i] # a
    <3>1. Precedes[a][r[i]]  BY <1>7, <1>10 DEF Lower
    <3>2. a \in Keys  BY <1>6, <1>7
    <3> QED  BY <3>1, <3>2, KeyOrder
  <2> QED  BY <1>2, <1>8, <2>1
<1>12. \A i, j \in 1 .. Len(r) : i < j => dom[r[i]] \subseteq Lower(dom, r[j])
  <2>1. \A i, j \in 1 .. Len(r) : i < j => i + 1 < j + 1  BY <1>6
  <2> QED  BY <1>5, <1>8, <2>1 DEF Pending
<1>13. \A v \in V : Precedes[v][a]  BY <1>1, <1>5, <1>9 DEF Pending
<1>14. \A v \in W, i \in 1 .. Len(r) : Precedes[v][r[i]]
  <2>1. \A v \in V, i \in 1 .. Len(r) : Precedes[v][r[i]]  BY <1>5, <1>8 DEF Pending
  <2> QED  BY <1>2, <1>11, <2>1
<1>15. ASSUME NEW q \in D \ W
       PROVE  q \in Upper(dom, a) \/ \E i \in 1 .. Len(r) : q = r[i] \/ q \in Upper(dom, r[i])
  <2>1. PICK i \in 1 .. Len(s) : Waits(dom, s, i, q)  BY <1>2, <1>5 DEF Pending
  <2>2. CASE i = 1
    <3>1. q = a \/ q \in Upper(dom, a) \/ q \in dom[a]  BY <1>1, <2>1, <2>2 DEF Waits
    <3>2. q # a /\ q \notin Lower(dom, a) /\ q \in Keys /\ a \in Keys  BY <1>2, <1>5, <1>6, <1>7
    <3> QED  BY <3>1, <3>2, KeyOrder DEF Lower, Upper
  <2>3. CASE i # 1
    <3>1. i - 1 \in 1 .. Len(r) /\ i - 1 + 1 = i  BY <1>6, <2>3
    <3>2. r[i - 1] = s[i]  BY <1>8, <3>1
    <3> QED  BY <2>1, <2>3, <3>1, <3>2 DEF Waits
  <2> QED  BY <2>2, <2>3
<1>16. r \in Seq(D \ W)
  <2>1. \A i \in 1 .. Len(r) : r[i] \in D \ W  BY <1>11
  <2>2. r \in [1 .. Len(r) -> D \ V] /\ Len(r) \in Nat  BY <1>6, LenProperties
  <2>3. r \in [1 .. Len(r) -> D \ W]  BY <2>1, <2>2
  <2> QED  BY <2>2, <2>3
<1>17. CASE c = Null
  <2>1. Upper(dom, a) \cap D = {}  BY <1>4, <1>6, <1>17 DEF Shaped, Leads
  <2>2. \A q \in D \ W : \E i \in 1 .. Len(r) : q = r[i] \/ q \in Upper(dom, r[i])  BY <1>15, <2>1
  <2>3. ASSUME r # <<>>, NEW q \in D \cap Lower(dom, r[1]), q \notin W PROVE FALSE
    <3>1. 1 \in 1 .. Len(r)  BY <1>6, <2>3, EmptySeq
    <3>2. PICK i \in 1 .. Len(r) : q = r[i] \/ q \in Upper(dom, r[i])  BY <2>2, <2>3
    <3>3. Precedes[q][r[1]] /\ (q = r[i] \/ Precedes[r[i]][q])  BY <2>3, <3>2 DEF Lower, Upper
    <3>4. r[1] \in Keys /\ r[i] \in Keys /\ q \in Keys  BY <1>7, <1>8, <3>1
    <3>5. i = 1 \/ Precedes[r[1]][r[i]]
      <4>1. CASE i # 1
        <5>1. 1 < i  BY <4>1
        <5>2. r[1] \in dom[r[1]] /\ dom[r[1]] \subseteq Lower(dom, r[i])
          BY <1>7, <1>8, <1>12, <3>1, <5>1
        <5> QED  BY <5>2 DEF Lower
      <4> QED  BY <4>1
    <3> QED  BY <3>3, <3>4, <3>5, KeyOrder
  <2>4. Pending(D, dom, W, r)
    <3>1. r # <<>> => D \cap Lower(dom, r[1]) \subseteq W  BY <2>3
    <3>2. \A q \in D \ W : \E i \in 1 .. Len(r) : Waits(dom, r, i, q)  BY <2>2 DEF Waits
    <3> QED  BY <1>12, <1>14, <1>16, <3>1, <3>2 DEF Pending
  <2> QED  BY <1>1, <1>2, <1>3, <1>4, <1>6, <1>13, <1>17, <2>4 DEF Popped, Moves
<1>18. CASE c # Null
  <2>1. c \in D /\ dom[c] = Upper(dom, a) /\ c \in dom[c]
    <3>1. Leads(t.n, dom, c, Upper(dom, a))  BY <1>4, <1>6 DEF Shaped
    <3> QED  BY <1>7, <1>18, <3>1 DEF Leads
  <2>2. \A v \in W, q \in dom[c] : Precedes[v][q]
    <3>1. ASSUME NEW v \in W, NEW q \in dom[c] PROVE Precedes[v][q]
      <4>1. Precedes[a][q] /\ q \in Keys /\ a \in Keys  BY <1>6, <1>7, <2>1 DEF Upper
      <4>2. v = a \/ (Precedes[v][a] /\ v \in Keys)  BY <1>2, <1>7, <1>13
      <4> QED  BY <4>1, <4>2, KeyOrder
    <3> QED  BY <3>1
  <2>3. c \in D \ W
    <3>1. \A v \in W : ~ Precedes[v][v]  BY <1>2, <1>6, <1>7, KeyOrder
    <3> QED  BY <2>1, <2>2, <3>1
  <2>4. PICK u : u = <<c>> \o r  OBVIOUS
  <2>5. u \in Seq(D \ W) /\ Len(u) = Len(r) + 1 /\ u[1] = c /\ u # <<>>
        /\ \A i \in 2 .. Len(r) + 1 : u[i] = r[i - 1]
    BY <1>16, <2>3, <2>4, Fronted
  <2>6. \A i \in 2 .. Len(u) : i - 1 \in 1 .. Len(r) /\ u[i] = r[i - 1]  BY <1>6, <2>5
  <2>7. dom[c] \subseteq dom[a]  BY <2>1 DEF Upper
  <2>8. ASSUME NEW i \in 1 .. Len(u), NEW j \in 1 .. Len(u), i < j
        PROVE  dom[u[i]] \subseteq Lower(dom, u[j])
    <3>1. j \in 2 .. Len(u) /\ Len(u) \in Nat  BY <1>6, <2>5, <2>8
    <3>2. j - 1 \in 1 .. Len(r) /\ u[j] = r[j - 1]  BY <2>6, <3>1
    <3>3. CASE i = 1
      <4>1. dom[a] \subseteq Lower(dom, r[j - 1])  BY <1>10, <3>2
      <4> QED  BY <2>5, <2>7, <3>2, <3>3, <4>1
    <3>4. CASE i # 1
      <4>1. i \in 2 .. Len(u) /\ i - 1 < j - 1  BY <2>8, <3>1, <3>4
      <4>2. i - 1 \in 1 .. Len(r) /\ u[i] = r[i - 1]  BY <2>6, <4>1
      <4> QED  BY <1>12, <3>2, <4>1, <4>2
    <3> QED  BY <3>3, <3>4
  <2>9. ASSUME NEW v \in W, NEW i \in 1 .. Len(u) PROVE Precedes[v][u[i]]
    <3>1. CASE i = 1  BY <2>1, <2>2, <2>5, <3>1
    <3>2. CASE i # 1
      <4>1. i \in 2 .. Len(u)  BY <2>5, <3>2
      <4> QED  BY <1>14, <2>6, <4>1
    <3> QED  BY <3>1, <3>2
  <2>10. ASSUME NEW q \in D \ W PROVE \E i \in 1 .. Len(u) : Waits(dom, u, i, q)
    <3>1. CASE q \in Upper(dom, a)
      <4>1. 1 \in 1 .. Len(u) /\ q \in dom[u[1]]  BY <1>6, <2>1, <2>5, <3>1
      <4> QED  BY <4>1 DEF Waits
    <3>2. CASE q \notin Upper(dom, a)
      <4>1. PICK i \in 1 .. Len(r) : q = r[i] \/ q \in Upper(dom, r[i])  BY <1>15, <3>2
      <4>2. i + 1 \in 2 .. Len(u) /\ i + 1 \in 1 .. Len(u) /\ i + 1 - 1 = i  BY <1>6, <2>5
      <4>3. u[i + 1] = r[i]  BY <2>6, <4>2
      <4> QED  BY <4>1, <4>2, <4>3 DEF Waits
    <3> QED  BY <3>1, <3>2
  <2>11. Pending(D, dom, W, u)
    <3>1. \A v \in W, q \in dom[u[1]] : Precedes[v][q]  BY <2>2, <2>5
    <3> QED  BY <2>5, <2>8, <2>9, <2>10, <3>1 DEF Pending
  <2> QED  BY <1>1, <1>2, <1>3, <1>4, <1>6, <1>13, <1>18, <2>4, <2>11 DEF Popped, Moves
<1> QED  BY <1>17, <1>18

(* A vector in ascending order holds each of its keys once.                *)
LEMMA Distinct ==
  ASSUME ~ByteDifference, NEW v \in Seq(Keys), Ascending(v)
  PROVE  /\ \A i, j \in 1 .. Len(v) : v[i] = v[j] => i = j
         /\ Cardinality(ToSet(v)) = Len(v)
         /\ ToSet(v) = {v[i] : i \in 1 .. Len(v)}
         /\ ToSet(v) \subseteq Keys
<1>1. Len(v) \in Nat /\ v \in [1 .. Len(v) -> Keys] /\ DOMAIN v = 1 .. Len(v)  BY LenProperties
<1>2. ToSet(v) = {v[i] : i \in 1 .. Len(v)}  BY <1>1 DEF ToSet
<1>3. ASSUME NEW i \in 1 .. Len(v), NEW j \in 1 .. Len(v), v[i] = v[j] PROVE i = j
  <2>1. v[i] \in Keys /\ v[j] \in Keys  BY <1>1
  <2>2. ~ (i < j) /\ ~ (j < i)  BY <1>3, <2>1, KeyOrder DEF Ascending
  <2> QED  BY <1>1, <2>2
<1>4. PICK T : T = ToSet(v)  OBVIOUS
<1>5. v \in [1 .. Len(v) -> T] /\ \A q \in T : \E i \in 1 .. Len(v) : v[i] = q  BY <1>1, <1>2, <1>4
<1>6. v \in Bijection(1 .. Len(v), T)
  <2>1. IsInjective(v)  BY <1>1, <1>3 DEF IsInjective
  <2> QED  BY <1>5, <2>1 DEF Bijection, Injection, Surjection
<1>7. ExistsBijection(1 .. Len(v), T)  BY <1>6 DEF ExistsBijection
<1>8. Cardinality(T) = Len(v)  BY <1>1, <1>7, FS_CountingElements
<1> QED  BY <1>1, <1>2, <1>3, <1>4, <1>8

(* The state of the traversal between two rounds.                          *)
Walks(D) == [stack : Seq(D), counter : SUBSET D, vec : Seq(D)]

Walk(t, dom, w) ==
  /\ w \in Walks(DOMAIN t.n)
  /\ Ascending(w.vec)
  /\ w.counter = ToSet(w.vec) \cup {t.r}
  /\ Pending(DOMAIN t.n, dom, ToSet(w.vec), w.stack)

LEMMA VisitIs ==
  ASSUME ~ByteDifference, NEW t, NEW dom, NEW P, Shaped(t, dom, P),
         NEW w, Walk(t, dom, w), w.stack # <<>>
  PROVE  Walk(t, dom, Visit(t.n, w)) /\ Len(Visit(t.n, w).vec) = Len(w.vec) + 1
<1>1. PICK D : D = DOMAIN t.n  OBVIOUS
<1>2. PICK V : V = ToSet(w.vec)  OBVIOUS
<1>3. w.vec \in Seq(D) /\ D \subseteq Keys /\ w.counter = V \cup {t.r} /\ w.counter \subseteq D
  BY <1>1, <1>2 DEF Walk, Walks, Shaped
<1>4. Len(w.vec) \in Nat /\ w.vec \in [1 .. Len(w.vec) -> D] /\ DOMAIN w.vec = 1 .. Len(w.vec)
  BY <1>3, LenProperties
<1>5. V = {w.vec[i] : i \in 1 .. Len(w.vec)} /\ V \in SUBSET D  BY <1>2, <1>4 DEF ToSet
<1>6. PICK s : s = PushLeft(t.n, w.stack, w.counter)  OBVIOUS
<1>7. Ready(D, dom, V, s)
  <2>1. Pending(D, dom, V, w.stack)  BY <1>1, <1>2 DEF Walk
  <2> QED  BY <1>1, <1>3, <1>5, <1>6, <2>1, SpineIs
<1>8. PICK a : a = s[1]  OBVIOUS
<1>9. s \in Seq(D \ V) /\ s # <<>>  BY <1>7 DEF Ready, Pending
<1>10. Head(s) = a /\ Tail(s) \in Seq(D \ V)  BY <1>8, <1>9, Uncons
<1>11. PICK r : r = IF t.n[a].right = Null THEN Tail(s) ELSE <<t.n[a].right>> \o Tail(s)  OBVIOUS
<1>12. a \in D \ V /\ (\A v \in V : Precedes[v][a]) /\ Pending(D, dom, V \cup {a}, r)
  <2>1. /\ s[1] \in D \ V
        /\ \A v \in V : Precedes[v][s[1]]
        /\ Pending(D, dom, V \cup {s[1]}, Popped(t, s))
    <3>1. ~ByteDifference /\ Shaped(t, dom, P) /\ D = DOMAIN t.n /\ V \in SUBSET D /\ Ready(D, dom, V, s)
      BY <1>1, <1>5, <1>7
    <3>2. Moves(t, D, dom, V, s)  BY ONLY <3>1, Passed
    <3> QED  BY <3>2 DEF Moves
  <2> QED  BY <1>8, <1>11, <2>1 DEF Popped
<1>13. PICK e : e = Append(w.vec, a)  OBVIOUS
<1>14. Visit(t.n, w) = [stack |-> r, counter |-> w.counter \cup {a}, vec |-> e]
  BY <1>6, <1>10, <1>11, <1>13 DEF Visit
<1>15. /\ e \in Seq(D) /\ Len(e) = Len(w.vec) + 1
       /\ (\A i \in 1 .. Len(w.vec) : e[i] = w.vec[i]) /\ e[Len(w.vec) + 1] = a
  BY <1>3, <1>12, <1>13, AppendProperties
<1>16. ToSet(e) = V \cup {a}
  <2>1. DOMAIN e = 1 .. Len(w.vec) + 1  BY <1>15, LenProperties
  <2>2. \A i \in 1 .. Len(w.vec) + 1 : i \in 1 .. Len(w.vec) \/ i = Len(w.vec) + 1  BY <1>4
  <2>3. Len(w.vec) + 1 \in 1 .. Len(w.vec) + 1 /\ 1 .. Len(w.vec) \subseteq 1 .. Len(w.vec) + 1  BY <1>4
  <2>4. ToSet(e) = {e[i] : i \in 1 .. Len(w.vec) + 1}  BY <2>1 DEF ToSet
  <2> QED  BY <1>5, <1>15, <2>2, <2>3, <2>4
<1>17. Ascending(e)
  <2>1. ASSUME NEW i \in 1 .. Len(e), NEW j \in 1 .. Len(e), i < j PROVE Precedes[e[i]][e[j]]
    <3>1. i \in 1 .. Len(w.vec)  BY <1>4, <1>15, <2>1
    <3>2. CASE j = Len(w.vec) + 1  BY <1>5, <1>12, <1>15, <3>1, <3>2
    <3>3. CASE j # Len(w.vec) + 1
      <4>1. j \in 1 .. Len(w.vec)  BY <1>4, <1>15, <3>3
      <4>2. Precedes[w.vec[i]][w.vec[j]]  BY <2>1, <3>1, <4>1 DEF Walk, Ascending
      <4> QED  BY <1>15, <3>1, <4>1, <4>2
    <3> QED  BY <3>2, <3>3
  <2> QED  BY <2>1 DEF Ascending
<1>18. r \in Seq(D)
  <2>1. r \in Seq(D \ (V \cup {a}))  BY <1>12 DEF Pending
  <2> QED  BY <2>1, SeqMonotonic
<1>19. PICK u : u = Visit(t.n, w)  OBVIOUS
<1>20. u.stack = r /\ u.counter = w.counter \cup {a} /\ u.vec = e  BY <1>14, <1>19
<1>21. u \in Walks(D)
  <2>1. w.counter \cup {a} \in SUBSET D  BY <1>3, <1>12
  <2> QED  BY <1>14, <1>15, <1>18, <1>19, <2>1 DEF Walks
<1>22. u.counter = ToSet(e) \cup {t.r}  BY <1>3, <1>16, <1>20
<1>23. Walk(t, dom, u)  BY <1>1, <1>12, <1>16, <1>17, <1>20, <1>21, <1>22 DEF Walk
<1> QED  BY <1>15, <1>19, <1>20, <1>23

(* The rounds of the traversal, one for every BSTNode.                     *)
LEMMA TraverseIs ==
  ASSUME ~ByteDifference, NEW t, NEW dom, NEW P, Shaped(t, dom, P), t.r # Null
  PROVE  /\ Traverse(t) \in Seq(DOMAIN t.n)
         /\ Ascending(Traverse(t))
         /\ ToSet(Traverse(t)) = DOMAIN t.n
<1>1. PICK D : D = DOMAIN t.n  OBVIOUS
<1>2. D \subseteq Keys /\ t.r \in D /\ dom[t.r] = Keys  BY <1>1 DEF Shaped, Leads
<1>3. IsFiniteSet(D) /\ Cardinality(D) \in Nat  BY <1>2, KeysAssumption, FS_Subset, FS_CardinalityType
<1>4. PICK limit \in Nat : limit = Cardinality(D) + 1  BY <1>3
<1>5. PICK S : S = {w \in Walks(D) : Walk(t, dom, w)}  OBVIOUS
<1>6. PICK w0 : w0 = [stack |-> <<t.r>>, counter |-> {t.r}, vec |-> <<>>]  OBVIOUS
<1>7. w0 \in S /\ Len(w0.vec) = 0
  <2>1. /\ <<t.r>> \in Seq(D) /\ <<t.r>> \in Seq(D \ {}) /\ Len(<<t.r>>) = 1 /\ <<t.r>>[1] = t.r
    BY <1>2, Single
  <2>2. <<>> \in Seq(D) /\ ToSet(<<>>) = {} /\ Len(<<>>) = 0 /\ Ascending(<<>>)
    BY DEF ToSet, Ascending
  <2>3. w0.stack = <<t.r>> /\ w0.counter = {t.r} /\ w0.vec = <<>>  BY <1>6
  <2>4. w0 \in Walks(D)  BY <1>2, <1>6, <2>1, <2>2 DEF Walks
  <2>5. PICK s : s = <<t.r>>  OBVIOUS
  <2>6. Pending(D, dom, {}, s)
    <3>1. s \in Seq(D \ {}) /\ Len(s) = 1 /\ s[1] = t.r  BY <2>1, <2>5
    <3>2. \A i, j \in 1 .. Len(s) : ~ (i < j)  BY <3>1
    <3>3. \A q \in D : 1 \in 1 .. Len(s) /\ Waits(dom, s, 1, q)  BY <1>2, <3>1 DEF Waits
    <3> QED  BY <3>1, <3>2, <3>3 DEF Pending
  <2>7. w0.counter = ToSet(w0.vec) \cup {t.r}  BY <2>2, <2>3
  <2> QED  BY <1>1, <1>5, <2>2, <2>3, <2>4, <2>5, <2>6, <2>7 DEF Walk
<1> DEFINE Go(w) == IF w.stack = <<>> THEN w ELSE Visit(t.n, w)
<1>8. ASSUME NEW w \in S PROVE Go(w) \in S /\ (w.stack # <<>> => Len(Go(w).vec) = Len(w.vec) + 1)
  <2>1. Walk(t, dom, w)  BY <1>5
  <2>2. CASE w.stack = <<>>  BY <2>2
  <2>3. CASE w.stack # <<>>
    <3>1. Walk(t, dom, Visit(t.n, w)) /\ Len(Visit(t.n, w).vec) = Len(w.vec) + 1
      BY <2>1, <2>3, VisitIs
    <3>2. Visit(t.n, w) \in S  BY <1>1, <1>5, <3>1 DEF Walk
    <3> QED  BY <2>3, <3>1, <3>2
  <2> QED  BY <2>2, <2>3
<1> DEFINE Fits(g) == g = [i \in 0 .. limit |-> IF i = 0 THEN w0 ELSE Go(g[i - 1])]
<1>9. \E g : Fits(g)
  <2> HIDE DEF Go
  <2>1. PICK step : step = [i \in 1 .. limit |-> [w \in S |-> Go(w)]]  OBVIOUS
  <2>2. step \in Steps(limit, S)  BY <1>8, <2>1 DEF Steps
  <2>3. PICK g : Unfolds(g, limit, S, w0, step)  BY ONLY <1>4, <1>7, <2>2, RecursionExists
  <2>4. ASSUME NEW i \in 0 .. limit PROVE g[i] = IF i = 0 THEN w0 ELSE Go(g[i - 1])
    <3>1. CASE i = 0  BY <2>3, <3>1 DEF Unfolds
    <3>2. CASE i # 0
      <4>1. i \in 1 .. limit /\ i - 1 \in 0 .. limit  BY <3>2
      <4>2. g[i - 1] \in S /\ g[i] = step[i][g[i - 1]]  BY <2>3, <4>1 DEF Unfolds
      <4> QED  BY <2>1, <3>2, <4>1, <4>2
    <3> QED  BY <3>1, <3>2
  <2>5. Fits(g)  BY <2>3, <2>4 DEF Unfolds
  <2> QED  BY <2>5
<1>10. PICK g : Fits(g) /\ Traverse(t) = g[limit].vec
  <2>1. Fits(CHOOSE g : Fits(g))  BY <1>9
  <2>2. Traverse(t) = (CHOOSE g : Fits(g))[limit].vec  BY <1>1, <1>4, <1>6 DEF Traverse
  <2> QED  BY <2>1, <2>2
<1>11. \A i \in 0 .. limit : g[i] = IF i = 0 THEN w0 ELSE Go(g[i - 1])  BY <1>10
<1> HIDE DEF Fits, Go
<1> DEFINE Good(i) == g[i] \in S /\ (g[i].stack = <<>> \/ Len(g[i].vec) = i)
<1>12. PICK X : X = {i \in 0 .. limit : Good(i)}  OBVIOUS
<1>13. 0 \in X  BY <1>4, <1>7, <1>11, <1>12
<1>14. ASSUME NEW i \in 1 .. limit, i - 1 \in X PROVE i \in X
  <2>1. Good(i - 1) /\ i \in 0 .. limit  BY <1>12, <1>14
  <2>2. g[i] = Go(g[i - 1])  BY <1>11, <2>1
  <2>3. CASE g[i - 1].stack = <<>>
    <3>1. g[i] = g[i - 1]  BY <2>2, <2>3 DEF Go
    <3> QED  BY <1>12, <2>1, <2>3, <3>1
  <2>4. CASE g[i - 1].stack # <<>>
    <3>1. Len(g[i].vec) = i - 1 + 1 /\ g[i] \in S  BY <1>8, <2>1, <2>2, <2>4
    <3>2. i - 1 + 1 = i  OBVIOUS
    <3> QED  BY <1>12, <2>1, <3>1, <3>2
  <2> QED  BY <2>3, <2>4
<1>15. Good(limit)
  <2>1. 0 .. limit \subseteq X  BY <1>13, <1>14, UpTo
  <2> QED  BY <1>12, <2>1
<1>16. PICK w : w = g[limit]  OBVIOUS
<1>17. Walk(t, dom, w) /\ (w.stack = <<>> \/ Len(w.vec) = limit) /\ Traverse(t) = w.vec
  BY <1>5, <1>10, <1>15, <1>16
<1>18. w.vec \in Seq(D) /\ w.vec \in Seq(Keys) /\ Ascending(w.vec)
  <2>1. w.vec \in Seq(D)  BY <1>1, <1>17 DEF Walk, Walks
  <2> QED  BY <1>2, <1>17, <2>1, SeqMonotonic DEF Walk
<1>19. ToSet(w.vec) \subseteq D
  <2>1. ToSet(w.vec) = {w.vec[i] : i \in 1 .. Len(w.vec)}  BY <1>18, Distinct
  <2> QED  BY <1>18, <2>1, ElementOfSeq
<1>20. w.stack = <<>>
  <2>1. Cardinality(ToSet(w.vec)) = Len(w.vec)  BY <1>18, Distinct
  <2>2. Cardinality(ToSet(w.vec)) <= Cardinality(D)  BY <1>3, <1>19, FS_Subset
  <2>3. Len(w.vec) # limit  BY <1>3, <1>4, <2>1, <2>2
  <2> QED  BY <1>17, <2>3
<1>21. D \subseteq ToSet(w.vec)
  <2>1. \A q \in D \ ToSet(w.vec) : \E i \in 1 .. Len(<<>>) : Waits(dom, <<>>, i, q)
    BY <1>1, <1>17, <1>20 DEF Walk, Pending
  <2>2. 1 .. Len(<<>>) = {}  OBVIOUS
  <2> QED  BY <2>1, <2>2
<1> QED  BY <1>1, <1>17, <1>18, <1>19, <1>21

(* GetBSTKeys lists the keys of the tree, once and in ascending order.     *)
LEMMA ListIs ==
  ASSUME ~ByteDifference, NEW t, NEW dom, NEW P, Shaped(t, dom, P)
  PROVE  /\ GetBSTKeys(t) \in Seq(DOMAIN t.n)
         /\ Ascending(GetBSTKeys(t))
         /\ ToSet(GetBSTKeys(t)) = DOMAIN t.n
         /\ Len(GetBSTKeys(t)) = Cardinality(DOMAIN t.n)
<1>1. PICK D : D = DOMAIN t.n  OBVIOUS
<1>2. PICK v : v = GetBSTKeys(t)  OBVIOUS
<1>3. v \in Seq(D) /\ Ascending(v) /\ ToSet(v) = D
  <2>1. CASE t.r = Null
    <3>1. D = {}  BY <1>1, <2>1 DEF Shaped, Leads
    <3>2. v = <<>>  BY <1>2, <2>1 DEF GetBSTKeys
    <3>3. <<>> \in Seq(D) /\ ToSet(<<>>) = {} /\ Ascending(<<>>)  BY DEF ToSet, Ascending
    <3> QED  BY <3>1, <3>2, <3>3
  <2>2. CASE t.r # Null
    <3>1. v = Traverse(t)  BY <1>2, <2>2 DEF GetBSTKeys
    <3> QED  BY <1>1, <2>2, <3>1, TraverseIs
  <2> QED  BY <2>1, <2>2
<1>4. v \in Seq(Keys)
  <2>1. D \subseteq Keys  BY <1>1 DEF Shaped
  <2> QED  BY <1>3, <2>1, SeqMonotonic
<1>5. Cardinality(D) = Len(v)  BY <1>3, <1>4, Distinct
<1> QED  BY <1>1, <1>2, <1>3, <1>5

-----------------------------------------------------------------------------
(* A tree from a vector of keys.                                           *)

Trees(P) == [r : Keys \cup {Null}, n : UNION {[E -> BSTNodes(P)] : E \in SUBSET Keys}]

ShapedTrees(P) == {t \in Trees(P) : \E dom : Shaped(t, dom, P)}

LEMMA TreesOf ==
  ASSUME NEW t, NEW D, NEW f, NEW P, Carries(t, D, f, P)
  PROVE  t \in ShapedTrees(P)
<1>1. PICK dom : Shaped(t, dom, P)  BY DEF Carries
<1>2. t.r \in Keys \cup {Null}  BY <1>1 DEF Shaped, Leads
<1>3. t.n \in UNION {[E -> BSTNodes(P)] : E \in SUBSET Keys}  BY <1>1 DEF Shaped
<1>4. t = [r |-> t.r, n |-> t.n]  BY <1>1 DEF Shaped
<1>5. t \in Trees(P)  BY <1>2, <1>3, <1>4 DEF Trees
<1> QED  BY <1>1, <1>5 DEF ShapedTrees

LEMMA CarriesSame ==
  ASSUME NEW t, NEW D, NEW f, NEW g, NEW P, Carries(t, D, f, P), \A q \in D : f[q] = g[q]
  PROVE  Carries(t, D, g, P)
BY DEF Carries

(* Built holds the keys of the vector with the pointers they had.          *)
LEMMA BuiltIs ==
  ASSUME ~ByteDifference, NEW P, NEW n, NEW vec \in Seq(Keys), NEW f,
         \A i \in 1 .. Len(vec) : n[vec[i]].pointer \in P /\ n[vec[i]].pointer = f[vec[i]]
  PROVE  Carries(Built(n, vec), ToSet(vec), f, P)
<1>1. PICK N \in Nat : N = Len(vec)  BY LenProperties
<1>2. \A i \in 1 .. N : vec[i] \in Keys  BY <1>1, ElementOfSeq
<1>3. ToSet(vec) = {vec[i] : i \in 1 .. N}
  <2>1. DOMAIN vec = 1 .. N  BY <1>1, LenProperties
  <2> QED  BY <2>1 DEF ToSet
<1>4. PICK S : S = ShapedTrees(P)  OBVIOUS
<1> DEFINE Grow(i, t) == BSTInsertNode(t, vec[i], n[vec[i]].pointer)
           Fits(g) == g = [i \in 0 .. N |-> IF i = 0 THEN Empty ELSE Grow(i, g[i - 1])]
<1>5. ASSUME NEW i \in 1 .. N, NEW t, NEW D, Carries(t, D, f, P)
      PROVE  Carries(Grow(i, t), D \cup {vec[i]}, f, P)
  <2>1. PICK p : p = n[vec[i]].pointer  OBVIOUS
  <2>2. p \in P /\ p = f[vec[i]] /\ vec[i] \in Keys  BY <1>1, <1>2, <2>1
  <2>3. Carries(Grow(i, t), D \cup {vec[i]}, Put(D, f, vec[i], p), P)
    BY <1>5, <2>1, <2>2, Inserted
  <2>4. \A q \in D \cup {vec[i]} : Put(D, f, vec[i], p)[q] = f[q]  BY <2>2 DEF Put
  <2> HIDE DEF Grow
  <2> QED  BY <2>3, <2>4, CarriesSame
<1>6. Carries(Empty, {}, f, P)  BY EmptyIs
<1>7. \E g : Fits(g)
  <2>1. PICK step : step = [i \in 1 .. N |-> [t \in S |-> Grow(i, t)]]  OBVIOUS
  <2>2. ASSUME NEW i \in 1 .. N, NEW t \in S PROVE Grow(i, t) \in S
    <3>1. PICK dom : Shaped(t, dom, P)  BY <1>4 DEF ShapedTrees
    <3>2. PICK h : h = [q \in DOMAIN t.n |-> t.n[q].pointer]  OBVIOUS
    <3>3. Carries(t, DOMAIN t.n, h, P)  BY <3>1, <3>2 DEF Carries
    <3>4. n[vec[i]].pointer \in P /\ vec[i] \in Keys  BY <1>1, <1>2
    <3>5. Carries(Grow(i, t), DOMAIN t.n \cup {vec[i]}, Put(DOMAIN t.n, h, vec[i], n[vec[i]].pointer), P)
      BY <3>3, <3>4, Inserted
    <3> HIDE DEF Grow
    <3> QED  BY <1>4, <3>5, TreesOf
  <2> HIDE DEF Grow
  <2>3. step \in Steps(N, S)  BY <2>1, <2>2 DEF Steps
  <2>4. Empty \in S  BY <1>4, <1>6, TreesOf
  <2>5. PICK e : e = Empty  OBVIOUS
  <2>6. PICK g : Unfolds(g, N, S, e, step)  BY <1>1, <2>3, <2>4, <2>5, RecursionExists
  <2>7. ASSUME NEW i \in 0 .. N PROVE g[i] = IF i = 0 THEN Empty ELSE Grow(i, g[i - 1])
    <3>1. CASE i = 0  BY <2>5, <2>6, <3>1 DEF Unfolds
    <3>2. CASE i # 0
      <4>1. i \in 1 .. N /\ i - 1 \in 0 .. N  BY <3>2
      <4>2. g[i - 1] \in S /\ g[i] = step[i][g[i - 1]]  BY <2>6, <4>1 DEF Unfolds
      <4> QED  BY <2>1, <3>2, <4>1, <4>2
    <3> QED  BY <3>1, <3>2
  <2>8. Fits(g)  BY <2>6, <2>7 DEF Unfolds
  <2> QED  BY <2>8
<1>8. PICK g : Fits(g) /\ Built(n, vec) = g[N]
  <2>1. Fits(CHOOSE g : Fits(g))  BY <1>7
  <2>2. Built(n, vec) = (CHOOSE g : Fits(g))[N]  BY <1>1 DEF Built
  <2> QED  BY <2>1, <2>2
<1>9. \A i \in 0 .. N : g[i] = IF i = 0 THEN Empty ELSE Grow(i, g[i - 1])  BY <1>8
<1> HIDE DEF Fits, Grow
<1> DEFINE Good(i) == Carries(g[i], {vec[j] : j \in 1 .. i}, f, P)
<1>10. PICK X : X = {i \in 0 .. N : Good(i)}  OBVIOUS
<1>11. 0 \in X
  <2>1. {vec[j] : j \in 1 .. 0} = {}  OBVIOUS
  <2>2. g[0] = Empty  BY <1>9
  <2>3. Good(0)  BY <1>6, <2>1, <2>2
  <2> QED  BY <1>10, <2>3
<1>12. ASSUME NEW i \in 1 .. N, i - 1 \in X PROVE i \in X
  <2>1. Good(i - 1) /\ i \in 0 .. N  BY <1>10, <1>12
  <2>2. g[i] = Grow(i, g[i - 1])  BY <1>9, <2>1
  <2>3. PICK D : D = {vec[j] : j \in 1 .. i - 1}  OBVIOUS
  <2>4. Carries(g[i], D \cup {vec[i]}, f, P)  BY <1>5, <2>1, <2>2, <2>3
  <2>5. {vec[j] : j \in 1 .. i} = D \cup {vec[i]}
    <3>1. \A j \in 1 .. i : j \in 1 .. i - 1 \/ j = i  OBVIOUS
    <3>2. i \in 1 .. i /\ 1 .. i - 1 \subseteq 1 .. i  OBVIOUS
    <3> QED  BY <2>3, <3>1, <3>2
  <2>6. Good(i)  BY <2>4, <2>5
  <2> QED  BY <1>10, <2>1, <2>6
<1>13. N \in X
  <2>1. 0 .. N \subseteq X  BY <1>11, <1>12, UpTo
  <2> QED  BY <2>1
<1> QED  BY <1>3, <1>8, <1>10, <1>13

-----------------------------------------------------------------------------
(* A child that was split.                                                 *)

(* u holds what was in D and k with l, and the successor of k got r.       *)
Spread(u, D, f, m, k, l, r, P) ==
  \/ /\ \A q \in D : ~ Precedes[k][q]
     /\ Carries(u.t, D \cup {k}, Put(D, f, k, l), P)
     /\ u.m = r
  \/ \E s : /\ IsNext(D, k, s)
            /\ Carries(u.t, D \cup {k}, Put(D \cup {k}, Put(D, f, k, l), s, r), P)
            /\ u.m = m

LEMMA SpreadIs ==
  ASSUME ~ByteDifference, NEW t, NEW D, NEW f, NEW P, Carries(t, D, f, P),
         NEW k \in Keys, k \notin D, NEW l \in P, NEW r \in P, NEW m
  PROVE  Spread(InsertSplittedKey(t, m, k, l, r), D, f, m, k, l, r, P)
<1>1. PICK dom : Shaped(t, dom, P)  BY DEF Carries
<1>2. DOMAIN t.n = D  BY DEF Carries
<1>3. PICK u : u = InsertSplittedKey(t, m, k, l, r)  OBVIOUS
<1>4. PICK e : e = BSTInsertNode(t, k, l)  OBVIOUS
<1>5. Carries(e, D \cup {k}, Put(D, f, k, l), P)  BY <1>4, Inserted
<1>6. PICK A : A = Above(t, k)  OBVIOUS
<1>7. /\ A = {} <=> \A q \in D : ~ Precedes[k][q]
      /\ A # {} => IsNext(D, k, Subsequent(A))
  <2>1. k \notin DOMAIN t.n  BY <1>2
  <2>2. /\ Above(t, k) = {} <=> \A q \in DOMAIN t.n : ~ Precedes[k][q]
        /\ Above(t, k) # {} => IsNext(DOMAIN t.n, k, Subsequent(Above(t, k)))
    BY <1>1, <2>1, SuccessorIs
  <2> QED  BY <1>2, <1>6, <2>2
<1>8. CASE A = {}
  <2>1. u = [t |-> e, m |-> r]  BY <1>3, <1>4, <1>6, <1>8 DEF InsertSplittedKey
  <2>2. u.t = e /\ u.m = r  BY <2>1
  <2> QED  BY <1>3, <1>5, <1>7, <1>8, <2>2 DEF Spread
<1>9. CASE A # {}
  <2>1. PICK s : s = Subsequent(A)  OBVIOUS
  <2>2. IsNext(D, k, s) /\ s \in D  BY <1>7, <1>9, <2>1 DEF IsNext
  <2>3. PICK g : g = [e EXCEPT !.n[s].pointer = r]  OBVIOUS
  <2>4. u = [t |-> g, m |-> m]  BY <1>3, <1>4, <1>6, <1>9, <2>1, <2>3 DEF InsertSplittedKey
  <2>5. e = [r |-> e.r, n |-> e.n]  BY <1>5 DEF Carries, Shaped
  <2>6. PICK n : n = [e.n EXCEPT ![s].pointer = r]  OBVIOUS
  <2>7. g = [e EXCEPT !.n = n]  BY <2>3, <2>6
  <2>8. g = [r |-> e.r, n |-> n]  BY <2>5, <2>7
  <2>9. g = Repoint(e, s, r)  BY <2>6, <2>8 DEF Repoint
  <2>10. Carries(g, D \cup {k}, Put(D \cup {k}, Put(D, f, k, l), s, r), P)
    <3>1. s \in D \cup {k}  BY <2>2
    <3> QED  BY <1>5, <2>9, <3>1, Repointed
  <2>11. u.t = g /\ u.m = m  BY <2>4
  <2> QED  BY <1>3, <2>2, <2>10, <2>11 DEF Spread
<1> QED  BY <1>8, <1>9

-----------------------------------------------------------------------------
(* The halves of a node.                                                   *)

(* A section of a vector in ascending order.                               *)
LEMMA CutIs ==
  ASSUME ~ByteDifference, NEW v \in Seq(Keys), Ascending(v),
         NEW i \in Nat \ {0}, NEW j \in Nat, j <= Len(v), i <= j + 1
  PROVE  LET c == SubSeq(v, i, j)
         IN  /\ c \in Seq(Keys)
             /\ ToSet(c) = {v[x] : x \in i .. j}
             /\ Cardinality(ToSet(c)) = j - i + 1
             /\ \A x \in 1 .. Len(c) : x + i - 1 \in i .. j /\ c[x] = v[x + i - 1]
<1>1. PICK c : c = SubSeq(v, i, j)  OBVIOUS
<1>2. Len(v) \in Nat /\ v \in [1 .. Len(v) -> Keys]  BY LenProperties
<1>3. \A x \in i .. j : x \in 1 .. Len(v) /\ v[x] \in Keys  BY <1>2
<1>4. /\ c \in Seq(Keys)
      /\ Len(c) = IF i <= j THEN j - i + 1 ELSE 0
      /\ \A x \in 1 .. j - i + 1 : c[x] = v[i + x - 1]
  BY <1>1, <1>3, SubSeqProperties
<1>5. Len(c) = j - i + 1  BY <1>4
<1>6. \A x \in 1 .. Len(c) : x + i - 1 \in i .. j /\ c[x] = v[x + i - 1]  BY <1>4, <1>5
<1>7. Ascending(c)
  <2>1. ASSUME NEW x \in 1 .. Len(c), NEW y \in 1 .. Len(c), x < y PROVE Precedes[c[x]][c[y]]
    <3>1. x + i - 1 \in 1 .. Len(v) /\ y + i - 1 \in 1 .. Len(v)  BY <1>3, <1>6
    <3>2. x + i - 1 < y + i - 1  BY <1>5, <2>1
    <3>3. Precedes[v[x + i - 1]][v[y + i - 1]]  BY <3>1, <3>2 DEF Ascending
    <3> QED  BY <1>6, <3>3
  <2> QED  BY <2>1 DEF Ascending
<1>8. Cardinality(ToSet(c)) = Len(c) /\ ToSet(c) = {c[x] : x \in 1 .. Len(c)}
  BY <1>4, <1>7, Distinct
<1>9. {c[x] : x \in 1 .. Len(c)} = {v[x] : x \in i .. j}
  <2>1. \A x \in i .. j : x - i + 1 \in 1 .. Len(c) /\ x = x - i + 1 + i - 1  BY <1>5
  <2>2. \A x \in i .. j : c[x - i + 1] = v[x]
    <3>1. TAKE x \in i .. j
    <3>2. c[x - i + 1] = v[x - i + 1 + i - 1]  BY <1>6, <2>1
    <3> QED  BY <2>1, <3>2
  <2>3. ASSUME NEW a \in {c[x] : x \in 1 .. Len(c)} PROVE a \in {v[x] : x \in i .. j}
    <3>1. PICK x \in 1 .. Len(c) : a = c[x]  BY <2>3
    <3> QED  BY <1>6, <3>1
  <2>4. ASSUME NEW a \in {v[x] : x \in i .. j} PROVE a \in {c[x] : x \in 1 .. Len(c)}
    <3>1. PICK x \in i .. j : a = v[x]  BY <2>4
    <3>2. x - i + 1 \in 1 .. Len(c) /\ c[x - i + 1] = a  BY <2>1, <2>2, <3>1
    <3> QED  BY <3>2
  <2> QED  BY <2>3, <2>4
<1> QED  BY <1>1, <1>4, <1>5, <1>6, <1>8, <1>9

(* The keys of D in front of s.                                            *)
InFront(D, s) == {q \in D : Precedes[q][s]}

(* The vector v of the keys of D has s in the middle.                      *)
Middle(D, v, s) ==
  LET pos == Len(v) \div 2
  IN  /\ s \in D
      /\ pos \in Nat /\ pos < Len(v)
      /\ Len(v) = Cardinality(D)
      /\ ToSet(SubSeq(v, 1, pos)) = InFront(D, s)
      /\ ToSet(SubSeq(v, pos + 1, Len(v))) = D \ InFront(D, s)
      /\ ToSet(SubSeq(v, pos + 2, Len(v))) = D \ (InFront(D, s) \cup {s})
      /\ Cardinality(InFront(D, s)) = pos
      /\ Cardinality(D \ InFront(D, s)) = Len(v) - pos
      /\ Cardinality(D \ (InFront(D, s) \cup {s})) = Len(v) - pos - 1

LEMMA MiddleIs ==
  ASSUME ~ByteDifference, NEW D \in SUBSET Keys, NEW v \in Seq(D), Ascending(v), ToSet(v) = D,
         Len(v) # 0
  PROVE  Middle(D, v, Splitter(v))
<1>1. PICK n \in Nat : n = Len(v)  BY LenProperties
<1>2. PICK pos \in Nat : pos = n \div 2 /\ pos < n /\ pos + 1 <= n  BY <1>1
<1>3. PICK s : s = Splitter(v)  OBVIOUS
<1>4. s = v[pos + 1]  BY <1>1, <1>2, <1>3 DEF Splitter
<1>5. v \in Seq(Keys) /\ \A x \in 1 .. n : v[x] \in D  BY <1>1, SeqMonotonic, ElementOfSeq
<1>6. D = {v[x] : x \in 1 .. n} /\ Cardinality(D) = n
      /\ \A x, y \in 1 .. n : v[x] = v[y] => x = y
  BY <1>1, <1>5, Distinct
<1>7. \A x, y \in 1 .. n : Precedes[v[x]][v[y]] <=> x < y
  <2>1. TAKE x, y \in 1 .. n
  <2>2. v[x] \in Keys /\ v[y] \in Keys  BY <1>5
  <2>3. x < y => Precedes[v[x]][v[y]]  BY <1>1 DEF Ascending
  <2>4. y < x => Precedes[v[y]][v[x]]  BY <1>1 DEF Ascending
  <2>5. x = y \/ x < y \/ y < x  OBVIOUS
  <2> QED  BY <2>2, <2>3, <2>4, <2>5, KeyOrder
<1>8. /\ ToSet(SubSeq(v, 1, pos)) = {v[x] : x \in 1 .. pos}
      /\ Cardinality(ToSet(SubSeq(v, 1, pos))) = pos - 1 + 1
  <2>1. 1 \in Nat \ {0} /\ pos <= Len(v) /\ 1 <= pos + 1  BY <1>1, <1>2
  <2> QED  BY <1>5, <2>1, CutIs
<1>9. /\ ToSet(SubSeq(v, pos + 1, n)) = {v[x] : x \in pos + 1 .. n}
      /\ Cardinality(ToSet(SubSeq(v, pos + 1, n))) = n - (pos + 1) + 1
  <2>1. pos + 1 \in Nat \ {0} /\ n <= Len(v) /\ pos + 1 <= n + 1  BY <1>1, <1>2
  <2> QED  BY <1>5, <2>1, CutIs
<1>10. /\ ToSet(SubSeq(v, pos + 2, n)) = {v[x] : x \in pos + 2 .. n}
       /\ Cardinality(ToSet(SubSeq(v, pos + 2, n))) = n - (pos + 2) + 1
  <2>1. pos + 2 \in Nat \ {0} /\ n <= Len(v) /\ pos + 2 <= n + 1  BY <1>1, <1>2
  <2> QED  BY <1>5, <2>1, CutIs
<1>11. pos + 1 \in 1 .. n  BY <1>2
<1>12. InFront(D, s) = {v[x] : x \in 1 .. pos}
  <2>1. \A x \in 1 .. n : Precedes[v[x]][s] <=> x < pos + 1  BY <1>4, <1>7, <1>11
  <2>2. \A x \in 1 .. n : x < pos + 1 <=> x \in 1 .. pos  BY <1>2
  <2>3. 1 .. pos \subseteq 1 .. n  BY <1>2
  <2> QED  BY <1>6, <2>1, <2>2, <2>3 DEF InFront
<1>13. D \ InFront(D, s) = {v[x] : x \in pos + 1 .. n}
  <2>1. \A x \in 1 .. n : v[x] \in InFront(D, s) <=> x \in 1 .. pos
    <3>1. TAKE x \in 1 .. n
    <3>2. 1 .. pos \subseteq 1 .. n  BY <1>2
    <3> QED  BY <1>6, <1>12, <3>2
  <2>2. \A x \in 1 .. n : x \notin 1 .. pos <=> x \in pos + 1 .. n  BY <1>2
  <2>3. pos + 1 .. n \subseteq 1 .. n  BY <1>2
  <2> QED  BY <1>6, <2>1, <2>2, <2>3
<1>14. D \ (InFront(D, s) \cup {s}) = {v[x] : x \in pos + 2 .. n}
  <2>1. \A x \in 1 .. n : v[x] = s <=> x = pos + 1  BY <1>4, <1>6, <1>11
  <2>2. \A x \in pos + 1 .. n : x # pos + 1 <=> x \in pos + 2 .. n  BY <1>2
  <2>3. pos + 1 .. n \subseteq 1 .. n /\ pos + 2 .. n \subseteq pos + 1 .. n  BY <1>2
  <2>4. D \ (InFront(D, s) \cup {s}) = {v[x] : x \in pos + 1 .. n} \ {s}  BY <1>13
  <2>5. {v[x] : x \in pos + 1 .. n} \ {s} = {v[x] : x \in pos + 2 .. n}
    BY <2>1, <2>2, <2>3
  <2> QED  BY <2>4, <2>5
<1>15. s \in D  BY <1>4, <1>5, <1>11
<1>16. pos - 1 + 1 = pos /\ n - (pos + 1) + 1 = n - pos /\ n - (pos + 2) + 1 = n - pos - 1  BY <1>2
<1>17. Len(v) \div 2 = pos  BY <1>1, <1>2
<1> HIDE DEF InFront, Splitter
<1> QED  BY <1>1, <1>2, <1>3, <1>6, <1>8, <1>9, <1>10, <1>12, <1>13, <1>14, <1>15, <1>16, <1>17 DEF Middle

-----------------------------------------------------------------------------
(* The invariant.                                                          *)

(* What the keys of the node carry.                                        *)
Stored == IF leaf THEN Values ELSE Slots
Carried == [q \in DOMAIN bst |-> bst[q].pointer]

Linked ==
  /\ leaf \in BOOLEAN
  /\ last \in IF leaf THEN Slots \cup {NoSlot} ELSE Slots
  /\ next \in Slots \cup {NoSlot}
  /\ next # NoSlot => ~leaf

(* An inner node may hold one key more than it counts.                     *)
Counts(isLeaf, D, n) ==
  /\ n \in 0 .. MaxElements
  /\ isLeaf => Cardinality(D) = n
  /\ ~isLeaf => Cardinality(D) \in {n, n + 1}

(* The keys above want are still below ptr, or not below least; those      *)
(* below ptr are all below least.                                          *)
Seeks(dom) ==
  /\ \A q \in DOMAIN bst : Precedes[want][q] =>
       \/ ptr # Null /\ q \in dom[ptr]
       \/ least # Null /\ (q = least \/ Precedes[least][q])
  /\ least # Null => /\ Precedes[want][least]
                     /\ ptr # Null => \A q \in dom[ptr] : Precedes[q][least]

Descends(dom) ==
  /\ want \in Keys
  /\ ptr \in DOMAIN bst \cup {Null} /\ least \in DOMAIN bst \cup {Null}
  /\ looping \in BOOLEAN
  /\ looping => ~leaf /\ next = NoSlot /\ Seeks(dom)
  /\ ~looping => ptr = Null /\ least = Null

BSTInv ==
  /\ Linked
  /\ Counts(leaf, DOMAIN bst, keyNum)
  /\ \E dom : Shaped(Tree, dom, Stored) /\ Descends(dom)

(* Seen from the tree.                                                     *)
LEMMA TreeIs ==
  ASSUME BSTInv
  PROVE  /\ Carries(Tree, DOMAIN bst, Carried, Stored)
         /\ DOMAIN bst \in SUBSET Keys
         /\ Carried \in [DOMAIN bst -> Stored]
         /\ Tree.n = bst /\ Tree.r = root
         /\ IsFiniteSet(DOMAIN bst) /\ Cardinality(DOMAIN bst) \in Nat
<1>1. Tree.n = bst /\ Tree.r = root  BY DEF Tree
<1>2. PICK dom : Shaped(Tree, dom, Stored)  BY DEF BSTInv
<1>3. DOMAIN bst \in SUBSET Keys /\ bst \in [DOMAIN bst -> BSTNodes(Stored)]  BY <1>1, <1>2 DEF Shaped
<1>4. Carries(Tree, DOMAIN bst, Carried, Stored)  BY <1>1, <1>2 DEF Carries, Carried
<1>5. Carried \in [DOMAIN bst -> Stored]  BY <1>3 DEF Carried, BSTNodes
<1>6. IsFiniteSet(DOMAIN bst) /\ Cardinality(DOMAIN bst) \in Nat
  BY <1>3, KeysAssumption, FS_Subset, FS_CardinalityType
<1> QED  BY <1>1, <1>3, <1>4, <1>5, <1>6

(* An operation that leaves a tree with the keys of D.                     *)
LEMMA Left ==
  ASSUME BSTInv, ~looping, NEW t, NEW D, NEW f, Carries(t, D, f, Stored), NEW m, NEW n,
         Becomes(t, m, n), m \in IF leaf THEN Slots \cup {NoSlot} ELSE Slots,
         Counts(leaf, D, n)
  PROVE  /\ BSTInv'
         /\ Stored' = Stored
         /\ DOMAIN bst' = D /\ \A q \in D : Carried'[q] = f[q]
<1>1. PICK dom : Shaped(t, dom, Stored)  BY DEF Carries
<1>2. t = [r |-> t.r, n |-> t.n] /\ DOMAIN t.n = D  BY <1>1 DEF Shaped, Carries
<1>3. /\ root' = t.r /\ bst' = t.n /\ last' = m /\ keyNum' = n /\ next' = NoSlot
      /\ leaf' = leaf /\ want' = want /\ looping' = looping /\ ptr' = ptr /\ least' = least
  BY DEF Becomes
<1>4. Tree' = t  BY <1>2, <1>3 DEF Tree
<1>5. Stored' = Stored  BY <1>3 DEF Stored
<1>6. want \in Keys /\ ptr = Null /\ least = Null  BY DEF BSTInv, Descends
<1>7. Descends(dom)'
  <2>1. looping' \in BOOLEAN /\ ~looping'
    <3>1. looping \in BOOLEAN  BY DEF BSTInv, Descends
    <3> QED  BY <1>3, <3>1, Zenon
  <2>2. want' \in Keys /\ ptr' = Null /\ least' = Null  BY <1>3, <1>6
  <2> QED  BY <2>1, <2>2 DEF Descends
<1>8. Linked'  BY <1>3 DEF BSTInv, Linked
<1>9. Counts(leaf, DOMAIN bst, keyNum)'  BY <1>2, <1>3
<1>10. Shaped(Tree, dom, Stored)'  BY <1>1, <1>4, <1>5 DEF Shaped, Leads, Lower, Upper, Under
<1>11. \A q \in D : Carried'[q] = f[q]  BY <1>2, <1>3 DEF Carried, Carries
<1> QED  BY <1>2, <1>3, <1>5, <1>7, <1>8, <1>9, <1>10, <1>11 DEF BSTInv

(* A section of the vector makes a tree with the pointers of the node.     *)
LEMMA SectionIs ==
  ASSUME ~ByteDifference, BSTInv, NEW c \in Seq(Keys), ToSet(c) \subseteq DOMAIN bst
  PROVE  Carries(Built(bst, c), ToSet(c), Carried, Stored)
<1>1. Carried \in [DOMAIN bst -> Stored]  BY TreeIs
<1>2. \A i \in 1 .. Len(c) : c[i] \in DOMAIN bst
  <2>1. DOMAIN c = 1 .. Len(c)  BY LenProperties
  <2> QED  BY <2>1 DEF ToSet
<1>3. \A i \in 1 .. Len(c) : bst[c[i]].pointer \in Stored /\ bst[c[i]].pointer = Carried[c[i]]
  <2>1. \A q \in DOMAIN bst : Carried[q] = bst[q].pointer /\ Carried[q] \in Stored  BY <1>1 DEF Carried
  <2> QED  BY <1>2, <2>1
<1> QED  BY <1>3, BuiltIs

(* The halves of a split, by the keys they have.                           *)
Split(D, v, s) ==
  LET pos == Len(v) \div 2
  IN  /\ Middle(D, v, s)
      /\ Carries(Half(v, 1, pos), InFront(D, s), Carried, Stored)
      /\ Carries(Half(v, pos + 1, Len(v)), D \ InFront(D, s), Carried, Stored)
      /\ Carries(Half(v, pos + 2, Len(v)), D \ (InFront(D, s) \cup {s}), Carried, Stored)

LEMMA SplitIs ==
  ASSUME ~ByteDifference, BSTInv, DOMAIN bst # {}
  PROVE  Split(DOMAIN bst, GetBSTKeys(Tree), Splitter(GetBSTKeys(Tree)))
<1>1. PICK D : D = DOMAIN bst  OBVIOUS
<1>2. PICK v : v = GetBSTKeys(Tree)  OBVIOUS
<1>3. PICK s : s = Splitter(v)  OBVIOUS
<1>4. D \in SUBSET Keys /\ Tree.n = bst /\ IsFiniteSet(D) /\ D # {}  BY <1>1, TreeIs
<1>5. PICK dom : Shaped(Tree, dom, Stored)  BY DEF BSTInv
<1>6. v \in Seq(D) /\ Ascending(v) /\ ToSet(v) = D /\ Len(v) = Cardinality(D)
  BY <1>1, <1>2, <1>4, <1>5, ListIs
<1>7. Len(v) # 0
  <2>1. Cardinality(D) # 0  BY <1>4, FS_EmptySet
  <2> QED  BY <1>6, <2>1
<1>8. Middle(D, v, s)  BY <1>3, <1>4, <1>6, <1>7, MiddleIs
<1>9. PICK pos : pos = Len(v) \div 2  OBVIOUS
<1>10. /\ pos \in Nat /\ pos < Len(v) /\ Len(v) \in Nat
       /\ ToSet(SubSeq(v, 1, pos)) = InFront(D, s)
       /\ ToSet(SubSeq(v, pos + 1, Len(v))) = D \ InFront(D, s)
       /\ ToSet(SubSeq(v, pos + 2, Len(v))) = D \ (InFront(D, s) \cup {s})
  BY <1>6, <1>8, <1>9, LenProperties DEF Middle
<1>11. ASSUME NEW i \in Nat \ {0}, NEW j \in Nat, j <= Len(v),
              ToSet(SubSeq(v, i, j)) \subseteq D
       PROVE  Carries(Half(v, i, j), ToSet(SubSeq(v, i, j)), Carried, Stored)
  <2>1. \A x \in i .. j : v[x] \in Keys
    <3>1. \A x \in i .. j : x \in 1 .. Len(v)  BY <1>10, <1>11
    <3> QED  BY <1>4, <1>6, <3>1, ElementOfSeq
  <2>2. PICK c : c = SubSeq(v, i, j)  OBVIOUS
  <2>3. c \in Seq(Keys)  BY <2>1, <2>2, SubSeqProperties
  <2>4. Carries(Built(bst, c), ToSet(c), Carried, Stored)  BY <1>1, <1>11, <2>2, <2>3, SectionIs
  <2> QED  BY <2>2, <2>4 DEF Half
<1>12. InFront(D, s) \subseteq D  BY DEF InFront
<1>13. Carries(Half(v, 1, pos), InFront(D, s), Carried, Stored)
  <2>1. 1 \in Nat \ {0} /\ pos <= Len(v)  BY <1>10
  <2> QED  BY <1>10, <1>11, <1>12, <2>1
<1>14. Carries(Half(v, pos + 1, Len(v)), D \ InFront(D, s), Carried, Stored)
  <2>1. pos + 1 \in Nat \ {0} /\ Len(v) <= Len(v)  BY <1>10
  <2> QED  BY <1>10, <1>11, <2>1
<1>15. Carries(Half(v, pos + 2, Len(v)), D \ (InFront(D, s) \cup {s}), Carried, Stored)
  <2>1. pos + 2 \in Nat \ {0} /\ Len(v) <= Len(v)  BY <1>10
  <2> QED  BY <1>10, <1>11, <2>1
<1> QED  BY <1>1, <1>2, <1>3, <1>8, <1>9, <1>13, <1>14, <1>15 DEF Split

-----------------------------------------------------------------------------
(* The operations.                                                         *)

(* What a leaf that is not full becomes.                                   *)
LEMMA LeafInsertIs ==
  ASSUME ~ByteDifference, BSTInv, NEW k \in Keys, NEW v \in Values, LeafInsert(k, v)
  PROVE  LET D == DOMAIN bst
             t == BSTInsertNode(Tree, k, v)
         IN  /\ Carries(t, D \cup {k}, Put(D, Carried, k, v), Stored)
             /\ Becomes(t, last, IF k \in D THEN keyNum ELSE keyNum + 1)
             /\ Counts(leaf, D \cup {k}, IF k \in D THEN keyNum ELSE keyNum + 1)
<1>1. PICK D : D = DOMAIN bst  OBVIOUS
<1>2. PICK t : t = BSTInsertNode(Tree, k, v)  OBVIOUS
<1>3. /\ Carries(Tree, D, Carried, Stored) /\ D \in SUBSET Keys /\ Tree.n = bst
      /\ IsFiniteSet(D) /\ Cardinality(D) \in Nat
  BY <1>1, TreeIs
<1>4. v \in Stored  BY DEF Stored, LeafInsert
<1>5. Carries(t, D \cup {k}, Put(D, Carried, k, v), Stored)  BY <1>2, <1>3, <1>4, Inserted
<1>6. PICK n : n = IF k \in D THEN keyNum ELSE keyNum + 1  OBVIOUS
<1>7. SearchBST(Tree, k) = IF k \in D THEN k ELSE Null
  <2>1. PICK dom : Shaped(Tree, dom, Stored)  BY DEF BSTInv
  <2> QED  BY <1>1, <1>3, <2>1, SearchIs
<1>8. k # Null  BY KeyIsSeq
<1>9. Becomes(t, last, n)  BY <1>2, <1>6, <1>7, <1>8 DEF LeafInsert
<1>10. Counts(leaf, D \cup {k}, n)
  <2>1. /\ leaf /\ keyNum < MaxElements /\ keyNum \in 0 .. MaxElements /\ Cardinality(D) = keyNum
    BY <1>1 DEF LeafInsert, BSTInv, Counts
  <2>2. Cardinality(D \cup {k}) = IF k \in D THEN Cardinality(D) ELSE Cardinality(D) + 1
    BY <1>3, FS_AddElement
  <2> QED  BY <1>6, <2>1, <2>2, MaxElementsAssumption DEF Counts
<1> QED  BY <1>1, <1>2, <1>5, <1>6, <1>9, <1>10

(* A key added to one half of the leaf, or not.                            *)
AddedTo(D, k, in) == IF in THEN D \cup {k} ELSE D

(* Either half of a full leaf: u carries the keys of E, k with v if `in'.  *)
HalfLeaf(u, m, E, k, v, in) ==
  /\ Carries(u, AddedTo(E, k, in), IF in THEN Put(E, Carried, k, v) ELSE Carried, Stored)
  /\ Becomes(u, m, Cardinality(AddedTo(E, k, in)))
  /\ Counts(leaf, AddedTo(E, k, in), Cardinality(AddedTo(E, k, in)))

LEMMA HalfLeafIs ==
  ASSUME ~ByteDifference, BSTInv, leaf, NEW h, NEW E, Carries(h, E, Carried, Stored),
         E \in SUBSET Keys, Cardinality(E) + 1 <= MaxElements,
         NEW k \in Keys, NEW v \in Values, NEW in \in BOOLEAN, NEW m, NEW u,
         u = IF in THEN BSTInsertNode(h, k, v) ELSE h,
         Becomes(u, m, Cardinality(DOMAIN u.n))
  PROVE  HalfLeaf(u, m, E, k, v, in)
<1>1. IsFiniteSet(E) /\ Cardinality(E) \in Nat  BY KeysAssumption, FS_Subset, FS_CardinalityType
<1>2. v \in Stored  BY DEF Stored
<1>3. Carries(u, AddedTo(E, k, in), IF in THEN Put(E, Carried, k, v) ELSE Carried, Stored)
  <2>1. CASE in
    <3>1. Carries(u, E \cup {k}, Put(E, Carried, k, v), Stored)  BY <1>2, <2>1, Inserted
    <3> QED  BY <2>1, <3>1 DEF AddedTo
  <2>2. CASE ~in  BY <2>2 DEF AddedTo
  <2> QED  BY <2>1, <2>2
<1>4. DOMAIN u.n = AddedTo(E, k, in)  BY <1>3 DEF Carries
<1>5. Cardinality(AddedTo(E, k, in)) \in 0 .. MaxElements
  <2>1. Cardinality(E \cup {k}) = IF k \in E THEN Cardinality(E) ELSE Cardinality(E) + 1
    BY <1>1, FS_AddElement
  <2> QED  BY <1>1, <2>1, MaxElementsAssumption DEF AddedTo
<1> QED  BY <1>3, <1>4, <1>5 DEF HalfLeaf, Counts

(* What a full leaf becomes.                                               *)
SplitOfLeaf(D, s, k, v, new) ==
  /\ s \in D
  /\ Cardinality(InFront(D, s)) = Cardinality(D) \div 2
  /\ \/ \E u : HalfLeaf(u, new, InFront(D, s), k, v, Precedes[k][s])
     \/ \E u : HalfLeaf(u, last, D \ InFront(D, s), k, v, ~Precedes[k][s])

LEMMA LeafSplitIs ==
  ASSUME ~ByteDifference, BSTInv, NEW k \in Keys, NEW v \in Values, NEW new \in Slots,
         LeafSplit(k, v, new)
  PROVE  \E s : SplitOfLeaf(DOMAIN bst, s, k, v, new)
<1>1. PICK D : D = DOMAIN bst  OBVIOUS
<1>2. D \in SUBSET Keys /\ IsFiniteSet(D) /\ Cardinality(D) \in Nat  BY <1>1, TreeIs
<1>3. leaf /\ Cardinality(D) = MaxElements
  <2>1. leaf /\ keyNum >= MaxElements  BY DEF LeafSplit
  <2>2. keyNum \in 0 .. MaxElements /\ Cardinality(D) = keyNum  BY <1>1, <2>1 DEF BSTInv, Counts
  <2> QED  BY <2>1, <2>2, MaxElementsAssumption
<1>4. D # {}  BY <1>3, FS_EmptySet, MaxElementsAssumption
<1>5. PICK vec : vec = GetBSTKeys(Tree)  OBVIOUS
<1>6. PICK s : s = Splitter(vec)  OBVIOUS
<1>7. Split(D, vec, s)  BY <1>1, <1>4, <1>5, <1>6, SplitIs
<1>8. PICK pos : pos = Len(vec) \div 2  OBVIOUS
<1>9. PICK l : l = Half(vec, 1, pos)  OBVIOUS
<1>10. PICK r : r = Half(vec, pos + 1, Len(vec))  OBVIOUS
<1>11. /\ s \in D /\ Cardinality(InFront(D, s)) = Cardinality(D) \div 2
       /\ Cardinality(D \ InFront(D, s)) = Cardinality(D) - Cardinality(D) \div 2
  BY <1>7, <1>8 DEF Split, Middle
<1>12. /\ Carries(l, InFront(D, s), Carried, Stored)
       /\ Carries(r, D \ InFront(D, s), Carried, Stored)
  BY <1>7, <1>8, <1>9, <1>10 DEF Split
<1>13. /\ Cardinality(InFront(D, s)) + 1 <= MaxElements
       /\ Cardinality(D \ InFront(D, s)) + 1 <= MaxElements
  BY <1>3, <1>11, MaxElementsAssumption
<1>14. PICK right : right = (Cmp[s][k] <= 0)  OBVIOUS
<1>15. right \in BOOLEAN  BY <1>14
<1>16. right <=> ~Precedes[k][s]
  <2>1. PICK c : c = Cmp[s][k]  OBVIOUS
  <2>2. c \in {-1, 0, 1} /\ (c = 1 <=> Precedes[k][s])  BY <1>2, <1>11, <2>1, KeyOrder
  <2>3. c <= 0 <=> c # 1  BY <2>2
  <2> QED  BY <1>14, <2>1, <2>2, <2>3
<1>17. \/ \E u : u = (IF right THEN l ELSE BSTInsertNode(l, k, v)) /\ Becomes(u, new, Cardinality(DOMAIN u.n))
       \/ \E u : u = (IF right THEN BSTInsertNode(r, k, v) ELSE r) /\ Becomes(u, last, Cardinality(DOMAIN u.n))
  BY <1>5, <1>6, <1>8, <1>9, <1>10, <1>14 DEF LeafSplit
<1>18. CASE \E u : u = (IF right THEN l ELSE BSTInsertNode(l, k, v)) /\ Becomes(u, new, Cardinality(DOMAIN u.n))
  <2>1. PICK u : u = (IF right THEN l ELSE BSTInsertNode(l, k, v)) /\ Becomes(u, new, Cardinality(DOMAIN u.n))
    BY <1>18
  <2>2. PICK in \in BOOLEAN : in = Precedes[k][s]  BY <1>2, <1>11 DEF Precedes, Less
  <2>3. u = IF in THEN BSTInsertNode(l, k, v) ELSE l  BY <1>16, <2>1, <2>2
  <2>4. InFront(D, s) \in SUBSET Keys  BY <1>2 DEF InFront
  <2>5. HalfLeaf(u, new, InFront(D, s), k, v, in)
    BY <1>3, <1>12, <1>13, <2>1, <2>3, <2>4, HalfLeafIs
  <2> QED  BY <1>1, <1>11, <2>2, <2>5 DEF SplitOfLeaf
<1>19. CASE \E u : u = (IF right THEN BSTInsertNode(r, k, v) ELSE r) /\ Becomes(u, last, Cardinality(DOMAIN u.n))
  <2>1. PICK u : u = (IF right THEN BSTInsertNode(r, k, v) ELSE r) /\ Becomes(u, last, Cardinality(DOMAIN u.n))
    BY <1>19
  <2>2. PICK in \in BOOLEAN : in = ~Precedes[k][s]  OBVIOUS
  <2>3. u = IF in THEN BSTInsertNode(r, k, v) ELSE r  BY <1>16, <2>1, <2>2
  <2>4. D \ InFront(D, s) \in SUBSET Keys  BY <1>2
  <2>5. HalfLeaf(u, last, D \ InFront(D, s), k, v, in)
    BY <1>3, <1>12, <1>13, <2>1, <2>3, <2>4, HalfLeafIs
  <2> QED  BY <1>1, <1>11, <2>2, <2>5 DEF SplitOfLeaf
<1> QED  BY <1>17, <1>18, <1>19

(* An inner node with k, l and r in the range of a child.                  *)
Receives(E, m, n, k, l, r) ==
  \E u : /\ Spread(u, E, Carried, m, k, l, r, Stored)
         /\ Becomes(u.t, u.m, n)
         /\ Counts(leaf, E \cup {k}, n)

(* What an inner node that is not full becomes.                            *)
LEMMA InnerInsertIs ==
  ASSUME ~ByteDifference, BSTInv, NEW k \in Keys, NEW new \in Slots, InnerInsert(k, new)
  PROVE  Receives(DOMAIN bst, last, keyNum + 1, k, next, new)
<1>1. PICK D : D = DOMAIN bst  OBVIOUS
<1>2. PICK u : u = InsertSplittedKey(Tree, last, k, next, new)  OBVIOUS
<1>3. Carries(Tree, D, Carried, Stored) /\ IsFiniteSet(D) /\ Cardinality(D) \in Nat  BY <1>1, TreeIs
<1>4. /\ ~leaf /\ next # NoSlot /\ k \notin D /\ keyNum < MaxElements
      /\ Becomes(u.t, u.m, keyNum + 1)
  BY <1>1, <1>2 DEF InnerInsert, ChildSplit, InRange
<1>5. next \in Stored /\ new \in Stored  BY <1>4 DEF BSTInv, Linked, Stored
<1>6. Spread(u, D, Carried, last, k, next, new, Stored)  BY <1>2, <1>3, <1>4, <1>5, SpreadIs
<1>7. Counts(leaf, D \cup {k}, keyNum + 1)
  <2>1. keyNum \in 0 .. MaxElements /\ Cardinality(D) \in {keyNum, keyNum + 1}
    BY <1>1, <1>4 DEF BSTInv, Counts
  <2>2. Cardinality(D \cup {k}) = Cardinality(D) + 1  BY <1>3, <1>4, FS_AddElement
  <2> QED  BY <1>4, <2>1, <2>2, MaxElementsAssumption DEF Counts
<1> QED  BY <1>1, <1>4, <1>6, <1>7 DEF Receives

(* Either half of a full inner node.                                       *)
HalfInner(E, m, k, l, r, in) ==
  IF in THEN Receives(E, m, Cardinality(E), k, l, r)
  ELSE \E t : /\ Carries(t, E, Carried, Stored)
              /\ Becomes(t, m, Cardinality(E))
              /\ Counts(leaf, E, Cardinality(E))

LEMMA HalfInnerIs ==
  ASSUME ~ByteDifference, ~leaf, NEW h, NEW E, Carries(h, E, Carried, Stored),
         E \in SUBSET Keys, Cardinality(E) <= MaxElements,
         NEW k \in Keys \ E, NEW l \in Stored, NEW r \in Stored, NEW in \in BOOLEAN, NEW m, NEW u,
         u = IF in THEN InsertSplittedKey(h, m, k, l, r) ELSE [t |-> h, m |-> m],
         Becomes(u.t, u.m, Cardinality(E))
  PROVE  HalfInner(E, m, k, l, r, in)
<1>1. IsFiniteSet(E) /\ Cardinality(E) \in Nat  BY KeysAssumption, FS_Subset, FS_CardinalityType
<1>2. Counts(leaf, E, Cardinality(E)) /\ Counts(leaf, E \cup {k}, Cardinality(E))
  <2>1. Cardinality(E \cup {k}) = Cardinality(E) + 1  BY <1>1, FS_AddElement
  <2> QED  BY <1>1, <2>1, MaxElementsAssumption DEF Counts
<1>3. CASE in
  <2>1. Spread(u, E, Carried, m, k, l, r, Stored)  BY <1>3, SpreadIs
  <2> QED  BY <1>2, <1>3, <2>1 DEF HalfInner, Receives
<1>4. CASE ~in
  <2>1. u.t = h /\ u.m = m  BY <1>4
  <2> QED  BY <1>2, <1>4, <2>1 DEF HalfInner
<1> QED  BY <1>3, <1>4

(* What a full inner node becomes.                                         *)
SplitOfInner(D, s, k, l, r) ==
  /\ s \in D
  /\ Cardinality(InFront(D, s)) = Cardinality(D) \div 2
  /\ \/ HalfInner(InFront(D, s), Carried[s], k, l, r, Precedes[k][s])
     \/ HalfInner(D \ (InFront(D, s) \cup {s}), last, k, l, r, ~Precedes[k][s])

LEMMA InnerSplitIs ==
  ASSUME ~ByteDifference, BSTInv, NEW k \in Keys, NEW new \in Slots, InnerSplit(k, new)
  PROVE  \E s : SplitOfInner(DOMAIN bst, s, k, next, new)
<1>1. PICK D : D = DOMAIN bst  OBVIOUS
<1>2. D \in SUBSET Keys /\ IsFiniteSet(D) /\ Cardinality(D) \in Nat  BY <1>1, TreeIs
<1>3. ~leaf /\ next # NoSlot /\ k \notin D /\ keyNum >= MaxElements
  BY <1>1 DEF InnerSplit, ChildSplit, InRange
<1>4. Cardinality(D) \in {MaxElements, MaxElements + 1}
  <2>1. keyNum \in 0 .. MaxElements /\ Cardinality(D) \in {keyNum, keyNum + 1}
    BY <1>1, <1>3 DEF BSTInv, Counts
  <2> QED  BY <1>3, <2>1, MaxElementsAssumption
<1>5. D # {}  BY <1>4, FS_EmptySet, MaxElementsAssumption
<1>6. PICK vec : vec = GetBSTKeys(Tree)  OBVIOUS
<1>7. PICK s : s = Splitter(vec)  OBVIOUS
<1>8. Split(D, vec, s)  BY <1>1, <1>5, <1>6, <1>7, SplitIs
<1>9. PICK pos : pos = Len(vec) \div 2  OBVIOUS
<1>10. PICK l : l = Half(vec, 1, pos)  OBVIOUS
<1>11. PICK r : r = Half(vec, pos + 2, Len(vec))  OBVIOUS
<1>12. /\ s \in D /\ Cardinality(InFront(D, s)) = pos /\ Len(vec) = Cardinality(D)
       /\ Cardinality(D \ (InFront(D, s) \cup {s})) = Len(vec) - pos - 1
  BY <1>8, <1>9 DEF Split, Middle
<1>13. /\ Carries(l, InFront(D, s), Carried, Stored)
       /\ Carries(r, D \ (InFront(D, s) \cup {s}), Carried, Stored)
  BY <1>8, <1>9, <1>10, <1>11 DEF Split
<1>14. pos <= MaxElements /\ Len(vec) - pos - 1 <= MaxElements
  BY <1>4, <1>9, <1>12, MaxElementsAssumption
<1>15. next \in Stored /\ new \in Stored  BY <1>3 DEF BSTInv, Linked, Stored
<1>16. bst[s].pointer = Carried[s]  BY <1>1, <1>12 DEF Carried
<1>17. Cmp[s][k] <= 0 <=> ~Precedes[k][s]
  <2>1. PICK c : c = Cmp[s][k]  OBVIOUS
  <2>2. c \in {-1, 0, 1} /\ (c = 1 <=> Precedes[k][s])  BY <1>2, <1>12, <2>1, KeyOrder
  <2>3. c <= 0 <=> c # 1  BY <2>2
  <2> QED  BY <2>1, <2>2, <2>3
<1>18. PICK m : m = Carried[s]  OBVIOUS
<1>19. PICK up : up = (Cmp[s][k] <= 0)  OBVIOUS
<1>20. \/ \E u : /\ u = IF up THEN [t |-> l, m |-> m] ELSE InsertSplittedKey(l, m, k, next, new)
                 /\ Becomes(u.t, u.m, pos)
       \/ \E u : /\ u = IF up THEN InsertSplittedKey(r, last, k, next, new) ELSE [t |-> r, m |-> last]
                 /\ Becomes(u.t, u.m, Len(vec) - pos - 1)
  BY <1>6, <1>7, <1>9, <1>10, <1>11, <1>16, <1>18, <1>19 DEF InnerSplit
<1>21. CASE \E u : /\ u = IF up THEN [t |-> l, m |-> m] ELSE InsertSplittedKey(l, m, k, next, new)
                   /\ Becomes(u.t, u.m, pos)
  <2>1. PICK u : /\ u = IF up THEN [t |-> l, m |-> m] ELSE InsertSplittedKey(l, m, k, next, new)
                 /\ Becomes(u.t, u.m, pos)
    BY <1>21
  <2>2. PICK in \in BOOLEAN : in = Precedes[k][s]  BY <1>2, <1>12 DEF Precedes, Less
  <2>3. u = IF in THEN InsertSplittedKey(l, m, k, next, new) ELSE [t |-> l, m |-> m]
    BY <1>17, <1>19, <2>1, <2>2
  <2>4. PICK E : E = InFront(D, s)  OBVIOUS
  <2>5. E \in SUBSET Keys /\ k \notin E /\ Cardinality(E) = pos /\ Carries(l, E, Carried, Stored)
    BY <1>2, <1>3, <1>12, <1>13, <2>4 DEF InFront
  <2>6. HalfInner(E, m, k, next, new, in)
    BY <1>3, <1>14, <1>15, <2>1, <2>3, <2>5, HalfInnerIs
  <2> QED  BY <1>1, <1>9, <1>12, <1>18, <2>2, <2>4, <2>6 DEF SplitOfInner
<1>22. CASE \E u : /\ u = IF up THEN InsertSplittedKey(r, last, k, next, new) ELSE [t |-> r, m |-> last]
                   /\ Becomes(u.t, u.m, Len(vec) - pos - 1)
  <2>1. PICK u : /\ u = IF up THEN InsertSplittedKey(r, last, k, next, new) ELSE [t |-> r, m |-> last]
                 /\ Becomes(u.t, u.m, Len(vec) - pos - 1)
    BY <1>22
  <2>2. PICK in \in BOOLEAN : in = ~Precedes[k][s]  OBVIOUS
  <2>3. u = IF in THEN InsertSplittedKey(r, last, k, next, new) ELSE [t |-> r, m |-> last]
    BY <1>17, <1>19, <2>1, <2>2
  <2>4. PICK E : E = D \ (InFront(D, s) \cup {s})  OBVIOUS
  <2>5. /\ E \in SUBSET Keys /\ k \notin E /\ Cardinality(E) = Len(vec) - pos - 1
        /\ Carries(r, E, Carried, Stored)
    BY <1>2, <1>3, <1>12, <1>13, <2>4
  <2>6. HalfInner(E, last, k, next, new, in)
    BY <1>3, <1>14, <1>15, <2>1, <2>3, <2>5, HalfInnerIs
  <2> QED  BY <1>1, <1>9, <1>12, <2>2, <2>4, <2>6 DEF SplitOfInner
<1> QED  BY <1>20, <1>21, <1>22

(* A node read back has the keys and pointers that were written.           *)
LEMMA ReloadIs ==
  ASSUME ~ByteDifference, BSTInv, Reload
  PROVE  \E t : /\ Carries(t, DOMAIN bst, Carried, Stored)
                /\ Becomes(t, last, keyNum)
                /\ Counts(leaf, DOMAIN bst, keyNum)
<1>1. PICK D : D = DOMAIN bst  OBVIOUS
<1>2. PICK v : v = GetBSTKeys(Tree)  OBVIOUS
<1>3. PICK dom : Shaped(Tree, dom, Stored)  BY DEF BSTInv
<1>4. D \in SUBSET Keys /\ Tree.n = bst  BY <1>1, TreeIs
<1>5. v \in Seq(D) /\ ToSet(v) = D  BY <1>1, <1>2, <1>3, <1>4, ListIs
<1>6. v \in Seq(Keys)  BY <1>4, <1>5, SeqMonotonic
<1>7. Carries(Built(bst, v), D, Carried, Stored)  BY <1>1, <1>5, <1>6, SectionIs
<1>8. Becomes(Built(bst, v), last, keyNum)  BY <1>2 DEF Reload
<1> QED  BY <1>1, <1>7, <1>8 DEF BSTInv

-----------------------------------------------------------------------------
(* The invariant is inductive.                                             *)

LEMMA InvStart ==
  ASSUME ~ByteDifference, Init
  PROVE  BSTInv
<1>1. /\ want \in Keys /\ looping = FALSE /\ ptr = Null /\ least = Null /\ next = NoSlot
  BY DEF Init
<1>2. \A dom : Descends(dom)  BY <1>1 DEF Descends
<1>3. CASE leaf = TRUE /\ root = Null /\ bst = Empty.n /\ last = NoSlot /\ keyNum = 0
  <2>1. Carries(Empty, {}, [q \in {} |-> Null], Stored)  BY EmptyIs
  <2>2. Tree = Empty /\ DOMAIN bst = {}  BY <1>3 DEF Tree, Empty
  <2>3. \E dom : Shaped(Tree, dom, Stored)  BY <2>1, <2>2 DEF Carries
  <2>4. Linked  BY <1>1, <1>3 DEF Linked
  <2>5. Counts(leaf, DOMAIN bst, keyNum)
    BY <1>3, <2>2, FS_EmptySet, MaxElementsAssumption DEF Counts
  <2> QED  BY <1>2, <2>3, <2>4, <2>5 DEF BSTInv
<1>4. ASSUME NEW k \in Keys, NEW l \in Slots, NEW r \in Slots,
             leaf = FALSE, root = k, bst = With(Empty.n, k, Fresh(l)), last = r, keyNum = 1
      PROVE  BSTInv
  <2>1. PICK f : f = [q \in {} |-> Null]  OBVIOUS
  <2>2. l \in Stored  BY <1>4 DEF Stored
  <2>3. Carries(Empty, {}, f, Stored)  BY EmptyIs
  <2>4. Carries(BSTInsertNode(Empty, k, l), {} \cup {k}, Put({}, f, k, l), Stored)
    BY <2>2, <2>3, Inserted
  <2>5. BSTInsertNode(Empty, k, l) = [r |-> k, n |-> With(Empty.n, k, Fresh(l))]
    <3>1. Empty.r = Null  BY DEF Empty
    <3> QED  BY <3>1, Zenon DEF BSTInsertNode
  <2>6. Tree = BSTInsertNode(Empty, k, l)  BY <1>4, <2>5 DEF Tree
  <2>7. \E dom : Shaped(Tree, dom, Stored)  BY <2>4, <2>6 DEF Carries
  <2>8. DOMAIN bst = {k}  BY <1>4 DEF With, Empty
  <2>9. Linked  BY <1>1, <1>4 DEF Linked
  <2>10. Counts(leaf, DOMAIN bst, keyNum)
    <3>1. Cardinality({k}) = 1  BY FS_Singleton
    <3>2. keyNum \in 0 .. MaxElements /\ keyNum = 1 /\ ~leaf  BY <1>4, MaxElementsAssumption
    <3> QED  BY <2>8, <3>1, <3>2 DEF Counts
  <2> QED  BY <1>2, <2>7, <2>9, <2>10 DEF BSTInv
<1> QED  BY <1>3, <1>4 DEF Init

(* The tree is not touched: what is left to show is the descent.           *)
LEMMA Same ==
  ASSUME BSTInv, UNCHANGED tree, NEW dom, Shaped(Tree, dom, Stored),
         next' \in Slots \cup {NoSlot}, ~leaf, Descends(dom)'
  PROVE  BSTInv'
<1>1. leaf' = leaf /\ root' = root /\ bst' = bst /\ last' = last /\ keyNum' = keyNum  BY DEF tree
<1>2. Tree' = Tree /\ Stored' = Stored  BY <1>1 DEF Tree, Stored
<1>3. Shaped(Tree, dom, Stored)'  BY <1>2 DEF Shaped, Leads, Lower, Upper, Under
<1>4. Linked'  BY <1>1 DEF BSTInv, Linked
<1>5. Counts(leaf, DOMAIN bst, keyNum)'  BY <1>1 DEF BSTInv
<1> QED  BY <1>3, <1>4, <1>5 DEF BSTInv

LEMMA DescendInv ==
  ASSUME ~ByteDifference, BSTInv, NEW k \in Keys, Descend(k)
  PROVE  BSTInv'
<1>1. PICK dom : Shaped(Tree, dom, Stored) /\ Descends(dom)  BY DEF BSTInv
<1>2. /\ ~leaf /\ want' = k /\ looping' = TRUE /\ ptr' = root /\ least' = Null /\ next' = NoSlot
      /\ UNCHANGED tree /\ leaf' = leaf /\ bst' = bst
  BY DEF Descend, tree
<1>3. root \in DOMAIN bst \cup {Null} /\ \A q \in DOMAIN bst : root # Null /\ q \in dom[root]
  <2>1. Tree.n = bst /\ Tree.r = root /\ DOMAIN bst \subseteq Keys  BY TreeIs
  <2>2. Leads(bst, dom, root, Keys)  BY <1>1, <2>1 DEF Shaped
  <2> QED  BY <2>1, <2>2 DEF Leads
<1>4. Seeks(dom)'  BY <1>2, <1>3 DEF Seeks
<1>5. Descends(dom)'  BY <1>2, <1>3, <1>4 DEF Descends
<1> QED  BY <1>1, <1>2, <1>5, Same

LEMMA TurnInv ==
  ASSUME ~ByteDifference, BSTInv, GoRight \/ GoLeft
  PROVE  BSTInv'
<1>1. PICK dom : Shaped(Tree, dom, Stored) /\ Descends(dom)  BY DEF BSTInv
<1>2. looping /\ ptr # Null /\ UNCHANGED <<tree, want, looping, next>>  BY DEF GoRight, GoLeft
<1>3. /\ leaf' = leaf /\ bst' = bst /\ want' = want /\ looping' = looping /\ next' = next
  BY <1>2 DEF tree
<1>4. /\ ~leaf /\ next = NoSlot /\ Seeks(dom) /\ want \in Keys
      /\ ptr \in DOMAIN bst /\ least \in DOMAIN bst \cup {Null}
  BY <1>1, <1>2 DEF Descends
<1>5. /\ Tree.n = bst /\ DOMAIN bst \in SUBSET Keys  BY TreeIs
<1>6. /\ Leads(bst, dom, bst[ptr].left, Lower(dom, ptr))
      /\ Leads(bst, dom, bst[ptr].right, Upper(dom, ptr))
      /\ dom \in [DOMAIN bst -> SUBSET Keys] /\ ptr \in dom[ptr]
  BY <1>1, <1>4, <1>5 DEF Shaped
<1>7. /\ \A q \in DOMAIN bst : Precedes[want][q] =>
           \/ q \in dom[ptr]
           \/ least # Null /\ (q = least \/ Precedes[least][q])
      /\ least # Null => /\ Precedes[want][least]
                         /\ \A q \in dom[ptr] : Precedes[q][least]
  BY <1>2, <1>4 DEF Seeks
<1>8. /\ ptr \in Keys /\ dom[ptr] \subseteq Keys  BY <1>4, <1>5, <1>6
<1>9. CASE GoRight
  <2>1. ptr' = bst[ptr].right /\ least' = least /\ Cmp[ptr][want] <= 0  BY <1>9 DEF GoRight
  <2>2. ~Precedes[want][ptr]
    <3>1. PICK c : c = Cmp[ptr][want]  OBVIOUS
    <3>2. c <= 0 /\ (c = 1 <=> Precedes[want][ptr])  BY <1>4, <1>8, <2>1, <3>1, KeyOrder
    <3>3. c # 1  BY <3>2
    <3> QED  BY <3>2, <3>3
  <2>3. PICK x : x = bst[ptr].right  OBVIOUS
  <2>4. x \in DOMAIN bst \cup {Null}  BY <1>6, <2>3 DEF Leads
  <2>5. x # Null => dom[x] = Upper(dom, ptr)  BY <1>6, <2>3 DEF Leads
  <2>6. ASSUME NEW q \in DOMAIN bst, Precedes[want][q], q \in dom[ptr] PROVE x # Null /\ q \in dom[x]
    <3>1. Precedes[ptr][q]  BY <1>4, <1>5, <1>8, <2>2, <2>6, KeyOrder
    <3>2. q \in Upper(dom, ptr)  BY <2>6, <3>1 DEF Upper
    <3>3. x # Null  BY <1>6, <2>3, <2>6, <3>2 DEF Leads
    <3> QED  BY <2>5, <3>2, <3>3
  <2>7. x # Null => dom[x] \subseteq dom[ptr]  BY <2>5 DEF Upper
  <2>8. ptr' = x /\ least' = least  BY <2>1, <2>3
  <2>9. Seeks(dom)'  BY <1>3, <1>7, <2>6, <2>7, <2>8 DEF Seeks
  <2>10. Descends(dom)'  BY <1>1, <1>3, <1>4, <2>4, <2>8, <2>9, <1>2 DEF Descends
  <2> QED  BY <1>1, <1>2, <1>3, <1>4, <2>10, Same
<1>10. CASE GoLeft
  <2>1. /\ ptr' = bst[ptr].left /\ Cmp[ptr][want] = 1
        /\ least' = IF least = Null \/ Cmp[ptr][least] < 0 THEN ptr ELSE least
    BY <1>10 DEF GoLeft
  <2>2. Precedes[want][ptr]  BY <1>4, <1>8, <2>1, KeyOrder
  <2>3. least' = ptr
    <3>1. CASE least = Null  BY <2>1, <3>1
    <3>2. CASE least # Null
      <4>1. Precedes[ptr][least] /\ least \in Keys  BY <1>4, <1>5, <1>6, <1>7, <3>2
      <4>2. Cmp[ptr][least] = -1  BY <1>8, <4>1, KeyOrder
      <4> QED  BY <2>1, <4>2
    <3> QED  BY <3>1, <3>2
  <2>4. PICK x : x = bst[ptr].left  OBVIOUS
  <2>5. x \in DOMAIN bst \cup {Null}  BY <1>6, <2>4 DEF Leads
  <2>6. x # Null => dom[x] = Lower(dom, ptr)  BY <1>6, <2>4 DEF Leads
  <2>7. ASSUME NEW q \in DOMAIN bst, Precedes[want][q]
        PROVE  (x # Null /\ q \in dom[x]) \/ q = ptr \/ Precedes[ptr][q]
    <3>1. CASE q \in dom[ptr]
      <4>1. q = ptr \/ Precedes[ptr][q] \/ Precedes[q][ptr]  BY <1>5, <1>8, KeyOrder
      <4>2. CASE Precedes[q][ptr]
        <5>1. q \in Lower(dom, ptr)  BY <3>1, <4>2 DEF Lower
        <5>2. x # Null  BY <1>6, <2>4, <5>1 DEF Leads
        <5> QED  BY <2>6, <5>1, <5>2
      <4> QED  BY <4>1, <4>2
    <3>2. CASE q \notin dom[ptr]
      <4>1. least # Null /\ (q = least \/ Precedes[least][q])  BY <1>7, <2>7, <3>2
      <4>2. Precedes[ptr][least] /\ least \in Keys  BY <1>4, <1>5, <1>6, <1>7, <4>1
      <4> QED  BY <1>5, <1>8, <4>1, <4>2, KeyOrder
    <3> QED  BY <3>1, <3>2
  <2>8. x # Null => \A q \in dom[x] : Precedes[q][ptr]  BY <2>6 DEF Lower
  <2>9. ptr' = x /\ ptr # Null  BY <1>2, <2>1, <2>4
  <2>10. Seeks(dom)'  BY <1>3, <2>2, <2>3, <2>7, <2>8, <2>9 DEF Seeks
  <2>11. Descends(dom)'  BY <1>1, <1>2, <1>3, <1>4, <2>3, <2>5, <2>9, <2>10 DEF Descends
  <2> QED  BY <1>1, <1>2, <1>3, <1>4, <2>11, Same
<1> QED  BY <1>9, <1>10

(* The loop ends with the child in whose range want lies.                  *)
Found ==
  IF \A q \in DOMAIN bst : ~Precedes[want][q] THEN last
  ELSE Carried[CHOOSE s : IsNext(DOMAIN bst, want, s)]

LEMMA NextOnce ==
  ASSUME ~ByteDifference, NEW D \in SUBSET Keys, NEW k \in Keys, NEW s, NEW z,
         IsNext(D, k, s), IsNext(D, k, z)
  PROVE  s = z
BY KeyOrder DEF IsNext

LEMMA ArriveIs ==
  ASSUME ~ByteDifference, BSTInv, Arrive
  PROVE  /\ BSTInv'
         /\ next = NoSlot /\ ~leaf
         /\ next' = Found
<1>1. PICK dom : Shaped(Tree, dom, Stored) /\ Descends(dom)  BY DEF BSTInv
<1>2. /\ looping /\ ptr = Null /\ looping' = FALSE /\ least' = Null
      /\ next' = IF least = Null THEN last ELSE bst[least].pointer
      /\ UNCHANGED tree /\ leaf' = leaf /\ bst' = bst /\ want' = want /\ ptr' = ptr
  BY DEF Arrive, tree
<1>3. ~leaf /\ next = NoSlot /\ Seeks(dom) /\ want \in Keys /\ least \in DOMAIN bst \cup {Null}
  BY <1>1, <1>2 DEF Descends
<1>4. /\ \A q \in DOMAIN bst : Precedes[want][q] =>
           least # Null /\ (q = least \/ Precedes[least][q])
      /\ least # Null => Precedes[want][least]
  BY <1>2, <1>3 DEF Seeks
<1>5. DOMAIN bst \in SUBSET Keys /\ Carried \in [DOMAIN bst -> Stored] /\ Stored = Slots
  BY <1>3, TreeIs DEF Stored
<1>6. last \in Slots  BY <1>3 DEF BSTInv, Linked
<1>7. next' = Found /\ next' \in Slots
  <2>1. CASE least = Null
    <3>1. \A q \in DOMAIN bst : ~Precedes[want][q]  BY <1>4, <2>1
    <3> QED  BY <1>2, <1>6, <2>1, <3>1 DEF Found
  <2>2. CASE least # Null
    <3>1. least \in DOMAIN bst /\ Precedes[want][least]  BY <1>3, <1>4, <2>2
    <3>2. IsNext(DOMAIN bst, want, least)  BY <1>4, <3>1 DEF IsNext
    <3>3. least = CHOOSE s : IsNext(DOMAIN bst, want, s)
      <4>1. IsNext(DOMAIN bst, want, CHOOSE s : IsNext(DOMAIN bst, want, s))  BY <3>2
      <4> QED  BY <1>3, <1>5, <3>2, <4>1, NextOnce
    <3>4. next' = Carried[least] /\ Carried[least] \in Slots  BY <1>2, <1>5, <2>2, <3>1 DEF Carried
    <3> QED  BY <3>1, <3>3, <3>4 DEF Found
  <2> QED  BY <2>1, <2>2
<1>8. Descends(dom)'  BY <1>2, <1>3 DEF Descends
<1>9. BSTInv'  BY <1>1, <1>2, <1>3, <1>7, <1>8, Same
<1> QED  BY <1>3, <1>7, <1>9

(* A child that was split leaves a node with the invariant.                *)
LEMMA ReceivesInv ==
  ASSUME ~ByteDifference, BSTInv, ~looping, ~leaf, NEW E, NEW m \in Slots, NEW n,
         NEW k, NEW l \in Slots, NEW r \in Slots, Receives(E, m, n, k, l, r)
  PROVE  BSTInv'
<1>1. PICK u : /\ Spread(u, E, Carried, m, k, l, r, Stored)
               /\ Becomes(u.t, u.m, n)
               /\ Counts(leaf, E \cup {k}, n)
  BY DEF Receives
<1>2. u.m \in Slots  BY <1>1 DEF Spread
<1>3. PICK g : Carries(u.t, E \cup {k}, g, Stored)  BY <1>1 DEF Spread
<1> QED  BY <1>1, <1>2, <1>3, Left

LEMMA HalfInnerInv ==
  ASSUME ~ByteDifference, BSTInv, ~looping, ~leaf, NEW E, NEW m \in Slots,
         NEW k, NEW l \in Slots, NEW r \in Slots, NEW in, HalfInner(E, m, k, l, r, in)
  PROVE  BSTInv'
<1>1. CASE in  BY <1>1, ReceivesInv DEF HalfInner
<1>2. CASE ~in
  <2>1. PICK t : /\ Carries(t, E, Carried, Stored)
                 /\ Becomes(t, m, Cardinality(E))
                 /\ Counts(leaf, E, Cardinality(E))
    BY <1>2 DEF HalfInner
  <2> QED  BY <2>1, Left
<1> QED  BY <1>1, <1>2

LEMMA HalfLeafInv ==
  ASSUME ~ByteDifference, BSTInv, ~looping, leaf, NEW u, NEW m \in Slots \cup {NoSlot}, NEW E,
         NEW k, NEW v, NEW in, HalfLeaf(u, m, E, k, v, in)
  PROVE  BSTInv'
<1>1. PICK F : F = AddedTo(E, k, in)  OBVIOUS
<1>2. PICK g : g = IF in THEN Put(E, Carried, k, v) ELSE Carried  OBVIOUS
<1>3. Carries(u, F, g, Stored) /\ Becomes(u, m, Cardinality(F)) /\ Counts(leaf, F, Cardinality(F))
  BY <1>1, <1>2 DEF HalfLeaf
<1> QED  BY <1>3, Left

(* No node is written or split in the middle of a descent.                 *)
LEMMA Apart ==
  ASSUME BSTInv
  PROVE  leaf => ~looping
BY DEF BSTInv, Descends

LEMMA InvStep ==
  ASSUME ~ByteDifference, BSTInv, Next
  PROVE  BSTInv'
<1>1. CASE GoRight \/ GoLeft  BY <1>1, TurnInv
<1>2. CASE Arrive  BY <1>2, ArriveIs
<1>3. CASE Reload
  <2>1. PICK t : /\ Carries(t, DOMAIN bst, Carried, Stored)
                 /\ Becomes(t, last, keyNum)
                 /\ Counts(leaf, DOMAIN bst, keyNum)
    BY <1>3, ReloadIs
  <2>2. ~looping  BY <1>3 DEF Reload
  <2>3. last \in IF leaf THEN Slots \cup {NoSlot} ELSE Slots  BY DEF BSTInv, Linked
  <2> QED  BY <2>1, <2>2, <2>3, Left
<1>4. ASSUME NEW k \in Keys, Descend(k) PROVE BSTInv'  BY <1>4, DescendInv
<1>5. ASSUME NEW k \in Keys, NEW v \in Values, LeafInsert(k, v) PROVE BSTInv'
  <2>1. PICK D : D = DOMAIN bst  OBVIOUS
  <2>2. PICK t : t = BSTInsertNode(Tree, k, v)  OBVIOUS
  <2>3. PICK n : n = IF k \in D THEN keyNum ELSE keyNum + 1  OBVIOUS
  <2>4. PICK g : g = Put(D, Carried, k, v)  OBVIOUS
  <2>5. Carries(t, D \cup {k}, g, Stored) /\ Becomes(t, last, n) /\ Counts(leaf, D \cup {k}, n)
    BY <1>5, <2>1, <2>2, <2>3, <2>4, LeafInsertIs
  <2>6. ~looping  BY <1>5, Apart DEF LeafInsert
  <2>7. last \in IF leaf THEN Slots \cup {NoSlot} ELSE Slots  BY DEF BSTInv, Linked
  <2> QED  BY <2>5, <2>6, <2>7, Left
<1>6. ASSUME NEW k \in Keys, NEW v \in Values, NEW new \in Slots, LeafSplit(k, v, new)
      PROVE  BSTInv'
  <2>1. PICK s : SplitOfLeaf(DOMAIN bst, s, k, v, new)  BY <1>6, LeafSplitIs
  <2>2. leaf /\ ~looping  BY <1>6, Apart DEF LeafSplit
  <2>3. last \in Slots \cup {NoSlot} /\ new \in Slots \cup {NoSlot}  BY <2>2 DEF BSTInv, Linked
  <2> QED  BY <2>1, <2>2, <2>3, HalfLeafInv DEF SplitOfLeaf
<1>7. ASSUME NEW k \in Keys, NEW new \in Slots, InnerInsert(k, new) PROVE BSTInv'
  <2>1. Receives(DOMAIN bst, last, keyNum + 1, k, next, new)  BY <1>7, InnerInsertIs
  <2>2. ~leaf /\ ~looping /\ next # NoSlot  BY <1>7 DEF InnerInsert, ChildSplit
  <2>3. last \in Slots /\ next \in Slots  BY <2>2 DEF BSTInv, Linked
  <2> QED  BY <2>1, <2>2, <2>3, ReceivesInv
<1>8. ASSUME NEW k \in Keys, NEW new \in Slots, InnerSplit(k, new) PROVE BSTInv'
  <2>1. PICK s : SplitOfInner(DOMAIN bst, s, k, next, new)  BY <1>8, InnerSplitIs
  <2>2. ~leaf /\ ~looping /\ next # NoSlot  BY <1>8 DEF InnerSplit, ChildSplit
  <2>3. last \in Slots /\ next \in Slots  BY <2>2 DEF BSTInv, Linked
  <2>4. Carried[s] \in Slots
    <3>1. s \in DOMAIN bst  BY <2>1 DEF SplitOfInner
    <3>2. Carried \in [DOMAIN bst -> Stored]  BY TreeIs
    <3> QED  BY <2>2, <3>1, <3>2 DEF Stored
  <2> QED  BY <2>1, <2>2, <2>3, <2>4, HalfInnerInv DEF SplitOfInner
<1> QED  BY <1>1, <1>2, <1>3, <1>4, <1>5, <1>6, <1>7, <1>8 DEF Next, Loop

LEMMA InvStutter ==
  ASSUME BSTInv, UNCHANGED vars
  PROVE  BSTInv'
<1>1. /\ leaf' = leaf /\ root' = root /\ bst' = bst /\ last' = last /\ keyNum' = keyNum
      /\ want' = want /\ looping' = looping /\ ptr' = ptr /\ least' = least /\ next' = next
  BY DEF vars, tree, loop
<1>2. Tree' = Tree /\ Stored' = Stored  BY <1>1 DEF Tree, Stored
<1>3. PICK dom : Shaped(Tree, dom, Stored) /\ Descends(dom)  BY DEF BSTInv
<1>4. Shaped(Tree, dom, Stored)'  BY <1>2, <1>3 DEF Shaped, Leads, Lower, Upper, Under
<1>5. Descends(dom)'
  <2>1. looping' \in BOOLEAN
    <3>1. looping \in BOOLEAN  BY <1>3 DEF Descends
    <3> QED  BY <1>1, <3>1, Zenon
  <2>2. Seeks(dom) => Seeks(dom)'  BY <1>1 DEF Seeks
  <2> QED  BY <1>1, <1>3, <2>1, <2>2 DEF Descends
<1>6. Linked'  BY <1>1 DEF BSTInv, Linked
<1>7. Counts(leaf, DOMAIN bst, keyNum)'  BY <1>1 DEF BSTInv
<1> QED  BY <1>4, <1>5, <1>6, <1>7 DEF BSTInv

LEMMA InvAlways ==
  ASSUME ~ByteDifference
  PROVE  Spec => []BSTInv
<1>1. Init => BSTInv  BY InvStart
<1>2. BSTInv /\ [Next]_vars => BSTInv'  BY InvStep, InvStutter
<1> QED  BY <1>1, <1>2, PTL DEF Spec

-----------------------------------------------------------------------------
(* What the runs check of the tree.                                        *)

LEMMA InvTypes ==
  ASSUME ~ByteDifference, BSTInv
  PROVE  TypeOK
<1>1. PICK dom : Shaped(Tree, dom, Stored) /\ Descends(dom)  BY DEF BSTInv
<1>2. PICK D : D = DOMAIN bst  OBVIOUS
<1>3. Tree.n = bst /\ Tree.r = root /\ D \subseteq Keys  BY <1>2, TreeIs
<1>4. bst \in [D -> BSTNodes(Stored)]  BY <1>1, <1>2, <1>3 DEF Shaped
<1>5. root \in D \cup {Null}  BY <1>1, <1>2, <1>3 DEF Shaped, Leads
<1>6. \A a \in D : bst[a].left \in D \cup {Null} /\ bst[a].right \in D \cup {Null}
  BY <1>1, <1>2, <1>3 DEF Shaped, Leads
<1>7. ASSUME NEW a \in D
      PROVE  bst[a] \in [pointer : Stored, left : D \cup {Null}, right : D \cup {Null}]
  <2>1. bst[a] \in BSTNodes(Stored)  BY <1>4
  <2> QED  BY <1>6, <2>1 DEF BSTNodes
<1>8. bst \in [D -> [pointer : Stored, left : D \cup {Null}, right : D \cup {Null}]]
  BY <1>4, <1>7
<1>9. bst \in [D -> [pointer : IF leaf THEN Values ELSE Slots, left : D \cup {Null}, right : D \cup {Null}]]
  BY <1>8 DEF Stored
<1>10. ptr \in D \cup {Null} /\ least \in D \cup {Null}  BY <1>1, <1>2 DEF Descends
<1>11. last \in (IF leaf THEN Slots \cup {NoSlot} ELSE Slots) /\ next \in Slots \cup {NoSlot}
       /\ keyNum \in 0..MaxElements
  BY DEF BSTInv, Linked, Counts
<1> QED  BY <1>2, <1>3, <1>5, <1>9, <1>10, <1>11 DEF TypeOK

(* The BSTNodes of a node stay linked to each other, its keys and pointers *)
(* have their types, and the counter stays within the capacity, whatever   *)
(* is inserted, split or read back.                                        *)
THEOREM TreesTyped ==
  ASSUME ~ByteDifference
  PROVE  Spec => []TypeOK
<1>1. BSTInv => TypeOK  BY InvTypes
<1> QED  BY <1>1, InvAlways, PTL

LEMMA InvAscending ==
  ASSUME ~ByteDifference, BSTInv
  PROVE  KeysAscending
<1>1. PICK dom : Shaped(Tree, dom, Stored)  BY DEF BSTInv
<1>2. PICK v : v = GetBSTKeys(Tree)  OBVIOUS
<1>3. Tree.n = bst  BY TreeIs
<1>4. v \in Seq(DOMAIN bst) /\ Ascending(v) /\ ToSet(v) = DOMAIN bst  BY <1>1, <1>2, <1>3, ListIs
<1>5. Len(v) \in Nat  BY <1>4, LenProperties
<1>6. \A i \in 1 .. Len(v) - 1 : Precedes[v[i]][v[i + 1]]
  <2>1. \A i \in 1 .. Len(v) - 1 : i \in 1 .. Len(v) /\ i + 1 \in 1 .. Len(v) /\ i < i + 1  BY <1>5
  <2> QED  BY <1>4, <2>1 DEF Ascending
<1> QED  BY <1>2, <1>4, <1>6 DEF KeysAscending

(* The traversal lists every key once and in ascending order, for every    *)
(* shape of the tree that insertions, splits and reloads can make.         *)
THEOREM TraversalAscends ==
  ASSUME ~ByteDifference
  PROVE  Spec => []KeysAscending
<1>1. BSTInv => KeysAscending  BY InvAscending
<1> QED  BY <1>1, InvAlways, PTL

(* SearchBST finds the keys that are in the tree, and no others.           *)
THEOREM SearchFinds ==
  ASSUME ~ByteDifference
  PROVE  Spec => []FindsStored
<1>1. ASSUME BSTInv PROVE FindsStored
  <2>1. PICK dom : Shaped(Tree, dom, Stored)  BY <1>1 DEF BSTInv
  <2>2. Tree.n = bst  BY <1>1, TreeIs
  <2>3. \A k \in Keys : SearchBST(Tree, k) = IF k \in DOMAIN bst THEN k ELSE Null
    BY <2>1, <2>2, SearchIs
  <2> QED  BY <2>3 DEF FindsStored
<1>2. BSTInv => FindsStored  BY <1>1
<1> QED  BY <1>2, InvAlways, PTL

-----------------------------------------------------------------------------
(* The node of module OrderedNode that the tree stands for.                *)

Ranks(D) == {Rank[k] : k \in D}

Ent(D, f) == [i \in Ranks(D) |-> f[Ranked[i]]]

NodeOf(isLeaf, D, f, m, n) == [leaf |-> isLeaf, ent |-> Ent(D, f), last |-> m, keyNum |-> n]

NodeNow == NodeOf(leaf, DOMAIN bst, Carried, last, keyNum)

(* The instance counts as this module does.                                *)
LEMMA SameCount == ASSUME NEW S PROVE Node!Cardinality(S) = Cardinality(S)
BY DEF Node!Cardinality, Cardinality

LEMMA EntIs ==
  ASSUME ~ByteDifference, NEW D \in SUBSET Keys, NEW f
  PROVE  /\ DOMAIN Ent(D, f) = Ranks(D)
         /\ \A q \in D : Rank[q] \in Ranks(D) /\ Ent(D, f)[Rank[q]] = f[q]
<1>1. \A q \in D : Rank[q] \in Ranks(D)  BY DEF Ranks
<1>2. \A q \in D : Ranked[Rank[q]] = q  BY RankedIs
<1> QED  BY <1>1, <1>2 DEF Ent

(* Two maps of the same keys.                                              *)
LEMMA SameEnt ==
  ASSUME ~ByteDifference, NEW D \in SUBSET Keys, NEW f, NEW g, \A q \in D : f[q] = g[q]
  PROVE  Ent(D, f) = Ent(D, g)
<1>1. \A i \in Ranks(D) : \E q \in D : i = Rank[q] /\ Ranked[i] = q  BY RankedIs DEF Ranks
<1> QED  BY <1>1 DEF Ent

LEMMA RanksIs ==
  ASSUME ~ByteDifference, NEW D \in SUBSET Keys, NEW E \in SUBSET D
  PROVE  /\ \A q \in Keys : Rank[q] \in Ranks(D) <=> q \in D
         /\ Ranks(D) \ Ranks(E) = Ranks(D \ E)
         /\ Ranks(E) \subseteq Ranks(D)
         /\ Cardinality(Ranks(D)) = Cardinality(D)
         /\ IsFiniteSet(D) /\ Cardinality(D) \in Nat
<1>1. \A a, b \in Keys : Rank[a] = Rank[b] => a = b  BY RankIs
<1>2. \A q \in Keys : Rank[q] \in Ranks(D) <=> q \in D  BY <1>1 DEF Ranks
<1>3. Ranks(D) \ Ranks(E) = Ranks(D \ E)  BY <1>1 DEF Ranks
<1>4. Ranks(E) \subseteq Ranks(D)  BY DEF Ranks
<1>5. IsFiniteSet(D) /\ Cardinality(D) \in Nat  BY KeysAssumption, FS_Subset, FS_CardinalityType
<1>6. Cardinality(Ranks(D)) = Cardinality(D)
  <2>1. PICK R : R = Ranks(D)  OBVIOUS
  <2>2. PICK h : h = [q \in D |-> Rank[q]]  OBVIOUS
  <2>3. h \in [D -> R] /\ (\A r \in R : \E q \in D : h[q] = r) /\ \A a, b \in D : h[a] = h[b] => a = b
    BY <1>1, <2>1, <2>2 DEF Ranks
  <2>4. h \in Bijection(D, R)
    <3>1. DOMAIN h = D  BY <2>2
    <3> QED  BY <2>3, <3>1 DEF Bijection, Injection, Surjection, IsInjective
  <2> QED  BY <1>5, <2>1, <2>4, FS_Bijection DEF ExistsBijection
<1> QED  BY <1>2, <1>3, <1>4, <1>5, <1>6

LEMMA PutEnt ==
  ASSUME ~ByteDifference, NEW D \in SUBSET Keys, NEW f, NEW k \in Keys, NEW p
  PROVE  Node!Put(Ent(D, f), Rank[k], p) = Ent(D \cup {k}, Put(D, f, k, p))
<1>1. DOMAIN Ent(D, f) = Ranks(D) /\ \A q \in D : Ent(D, f)[Rank[q]] = f[q]  BY EntIs
<1>2. PICK g : g = Put(D, f, k, p)  OBVIOUS
<1>3. \A q \in D \cup {k} : g[q] = IF q = k THEN p ELSE f[q]  BY <1>2 DEF Put
<1>4. Ranks(D) \cup {Rank[k]} = Ranks(D \cup {k})  BY DEF Ranks
<1>5. ASSUME NEW i \in Ranks(D \cup {k})
      PROVE  (IF i = Rank[k] THEN p ELSE Ent(D, f)[i]) = g[Ranked[i]]
  <2>1. PICK q \in D \cup {k} : i = Rank[q]  BY DEF Ranks
  <2>2. Ranked[i] = q  BY <2>1, RankedIs
  <2>3. q \in Keys /\ (Rank[q] = Rank[k] => q = k)  BY RankIs
  <2> QED  BY <1>1, <1>3, <2>1, <2>2, <2>3
<1>6. PICK e : e = Ent(D, f)  OBVIOUS
<1>7. Node!Put(e, Rank[k], p) = [i \in Ranks(D) \cup {Rank[k]} |-> IF i = Rank[k] THEN p ELSE e[i]]
  BY <1>1, <1>6 DEF Node!Put
<1> QED  BY <1>2, <1>4, <1>5, <1>6, <1>7 DEF Ent

LEMMA KeepEnt ==
  ASSUME ~ByteDifference, NEW D \in SUBSET Keys, NEW E \in SUBSET D, NEW f
  PROVE  Node!Keep(Ent(D, f), Ranks(E)) = Ent(E, f)
<1>1. Ranks(E) \subseteq Ranks(D)  BY RanksIs
<1>2. \A i \in Ranks(E) : Ent(D, f)[i] = f[Ranked[i]]  BY <1>1 DEF Ent
<1> QED  BY <1>2 DEF Node!Keep, Ent

LEMMA BelowRanks ==
  ASSUME ~ByteDifference, NEW D \in SUBSET Keys, NEW s \in Keys
  PROVE  Node!Below(Ranks(D), Rank[s]) = Ranks(InFront(D, s))
<1>1. \A a, b \in Keys : Rank[a] < Rank[b] <=> Precedes[a][b]  BY RankIs
<1>2. Node!Below(Ranks(D), Rank[s]) = {i \in Ranks(D) : i < Rank[s]}  BY DEF Node!Below
<1> QED  BY <1>1, <1>2 DEF Ranks, InFront

(* The key with half of the others in front of it is the only one.         *)
LEMMA SplitterRank ==
  ASSUME ~ByteDifference, NEW D \in SUBSET Keys, NEW s \in D,
         Cardinality(InFront(D, s)) = Cardinality(D) \div 2
  PROVE  Node!Splitter(Ranks(D)) = Rank[s]
<1> DEFINE Fits(i) == i \in Ranks(D) /\ Cardinality(Node!Below(Ranks(D), i)) = Cardinality(Ranks(D)) \div 2
<1>1. ASSUME NEW q \in D
      PROVE  /\ Cardinality(Node!Below(Ranks(D), Rank[q])) = Cardinality(InFront(D, q))
             /\ IsFiniteSet(InFront(D, q)) /\ InFront(D, q) \subseteq Keys
  <2>1. InFront(D, q) \in SUBSET Keys  BY DEF InFront
  <2>2. {} \in SUBSET InFront(D, q)  OBVIOUS
  <2>3. Cardinality(Ranks(InFront(D, q))) = Cardinality(InFront(D, q)) /\ IsFiniteSet(InFront(D, q))
    BY <2>1, <2>2, RanksIs
  <2> QED  BY <2>1, <2>3, BelowRanks
<1>2. Cardinality(Ranks(D)) = Cardinality(D)
  <2>1. {} \in SUBSET D  OBVIOUS
  <2> QED  BY <2>1, RanksIs
<1>3. Fits(Rank[s])  BY <1>1, <1>2, EntIs DEF Ranks
<1>4. ASSUME NEW a \in D, NEW b \in D, Precedes[a][b]
      PROVE  Cardinality(InFront(D, a)) # Cardinality(InFront(D, b))
  <2>1. InFront(D, a) \subseteq InFront(D, b)  BY <1>4, KeyOrder DEF InFront
  <2>2. a \in InFront(D, b) /\ a \notin InFront(D, a)  BY <1>4, KeyOrder DEF InFront
  <2>3. IsFiniteSet(InFront(D, b))  BY <1>1
  <2> QED  BY <2>1, <2>2, <2>3, FS_Subset
<1>5. ASSUME NEW i, Fits(i) PROVE i = Rank[s]
  <2>1. PICK q \in D : i = Rank[q]  BY <1>5 DEF Ranks
  <2>2. Cardinality(InFront(D, q)) = Cardinality(InFront(D, s))  BY <1>1, <1>2, <1>5, <2>1
  <2>3. ~Precedes[q][s] /\ ~Precedes[s][q]  BY <1>4, <2>2
  <2>4. q = s  BY <2>3, KeyOrder
  <2> QED  BY <2>1, <2>4
<1>6. Node!Splitter(Ranks(D)) = CHOOSE i : Fits(i)  BY SameCount DEF Node!Splitter
<1> HIDE DEF Fits
<1>7. Fits(CHOOSE i : Fits(i))  BY <1>3
<1> QED  BY <1>5, <1>6, <1>7

(* The keys of D above k.                                                  *)
Over(D, k) == {q \in D : Precedes[k][q]}

LEMMA AboveRanks ==
  ASSUME ~ByteDifference, NEW D \in SUBSET Keys, NEW f, NEW k \in Keys, NEW isLeaf, NEW m, NEW n
  PROVE  Node!Above(NodeOf(isLeaf, D, f, m, n), Rank[k]) = Ranks(Over(D, k))
<1>1. \A a, b \in Keys : Rank[b] > Rank[a] <=> Precedes[a][b]
  <2>1. \A a, b \in Keys : Rank[a] < Rank[b] <=> Precedes[a][b]  BY RankIs
  <2> QED  BY <2>1
<1>2. NodeOf(isLeaf, D, f, m, n).ent = Ent(D, f)  BY DEF NodeOf
<1>3. Node!KeysOf(NodeOf(isLeaf, D, f, m, n)) = Ranks(D)  BY <1>2, EntIs DEF Node!KeysOf
<1>4. Node!Above(NodeOf(isLeaf, D, f, m, n), Rank[k]) = {i \in Ranks(D) : i > Rank[k]}
  BY <1>3 DEF Node!Above
<1> QED  BY <1>1, <1>4 DEF Ranks, Over

LEMMA LeastRank ==
  ASSUME ~ByteDifference, NEW D \in SUBSET Keys, NEW k \in Keys, NEW s, IsNext(D, k, s)
  PROVE  /\ Node!Least(Ranks(Over(D, k))) = Rank[s]
         /\ Ranks(Over(D, k)) # {} /\ s \in D
<1> DEFINE Fits(i) == i \in Ranks(Over(D, k)) /\ \A j \in Ranks(Over(D, k)) : i <= j
<1>1. s \in D /\ s \in Over(D, k)  BY DEF IsNext, Over
<1>2. \A q \in Over(D, k) : q \in Keys /\ (q = s \/ Precedes[s][q])  BY DEF IsNext, Over
<1>3. \A a \in Keys : Rank[a] \in Nat  BY RankIs
<1>4. \A q \in Over(D, k) : Rank[s] <= Rank[q]
  <2>1. TAKE q \in Over(D, k)
  <2>2. CASE q = s  BY <1>1, <1>3, <2>2
  <2>3. CASE Precedes[s][q]
    <3>1. Rank[s] < Rank[q]  BY <1>1, <1>2, <2>3, RankIs
    <3> QED  BY <1>1, <1>2, <1>3, <3>1
  <2> QED  BY <1>2, <2>2, <2>3
<1>5. Fits(Rank[s])  BY <1>1, <1>4 DEF Ranks
<1>6. ASSUME NEW i, Fits(i) PROVE i = Rank[s]
  <2>1. i <= Rank[s] /\ Rank[s] <= i  BY <1>5, <1>6
  <2>2. i \in Nat /\ Rank[s] \in Nat  BY <1>1, <1>2, <1>3, <1>6 DEF Ranks
  <2> QED  BY <2>1, <2>2
<1>7. Node!Least(Ranks(Over(D, k))) = CHOOSE i : Fits(i)  BY DEF Node!Least
<1>8. Ranks(Over(D, k)) # {}  BY <1>5
<1> HIDE DEF Fits
<1>9. Fits(CHOOSE i : Fits(i))  BY <1>5
<1> QED  BY <1>1, <1>6, <1>7, <1>8, <1>9

(* Which child the node names for k.                                       *)
LEMMA ChildNone ==
  ASSUME ~ByteDifference, NEW D \in SUBSET Keys, NEW f, NEW k \in Keys, NEW isLeaf, NEW m, NEW n,
         \A q \in D : ~Precedes[k][q]
  PROVE  Node!Child(NodeOf(isLeaf, D, f, m, n), Rank[k]) = m
<1>1. Ranks(Over(D, k)) = {}  BY DEF Ranks, Over
<1>2. PICK e : e = NodeOf(isLeaf, D, f, m, n)  OBVIOUS
<1>3. e.last = m  BY <1>2 DEF NodeOf
<1>4. Node!Above(e, Rank[k]) = {}  BY <1>1, <1>2, AboveRanks
<1> QED  BY <1>2, <1>3, <1>4 DEF Node!Child

LEMMA ChildNext ==
  ASSUME ~ByteDifference, NEW D \in SUBSET Keys, NEW f, NEW k \in Keys, NEW isLeaf, NEW m, NEW n,
         NEW s, IsNext(D, k, s)
  PROVE  Node!Child(NodeOf(isLeaf, D, f, m, n), Rank[k]) = f[s]
<1>1. PICK e : e = NodeOf(isLeaf, D, f, m, n)  OBVIOUS
<1>2. e.ent = Ent(D, f)  BY <1>1 DEF NodeOf
<1>3. Node!Above(e, Rank[k]) = Ranks(Over(D, k))  BY <1>1, AboveRanks
<1>4. Node!Least(Ranks(Over(D, k))) = Rank[s] /\ Ranks(Over(D, k)) # {} /\ s \in D  BY LeastRank
<1>5. Ent(D, f)[Rank[s]] = f[s]  BY <1>4, EntIs
<1> QED  BY <1>1, <1>2, <1>3, <1>4, <1>5 DEF Node!Child

(* The count of a leaf that gets k.                                        *)
Recount(D, k, n) == IF k \in D THEN n ELSE n + 1

(* A node with these fields.                                               *)
IsRecord(w, isLeaf, e, m, n) ==
  w \in [leaf : {isLeaf}, ent : {e}, last : {m}, keyNum : {n}]

LEMMA RecordIs ==
  ASSUME NEW isLeaf, NEW e, NEW m, NEW n, NEW w
  PROVE  IsRecord(w, isLeaf, e, m, n) <=> w = [leaf |-> isLeaf, ent |-> e, last |-> m, keyNum |-> n]
<1>1. ASSUME IsRecord(w, isLeaf, e, m, n)
      PROVE  w = [leaf |-> isLeaf, ent |-> e, last |-> m, keyNum |-> n]
  <2>1. w \in [leaf : {isLeaf}, ent : {e}, last : {m}, keyNum : {n}]  BY <1>1 DEF IsRecord
  <2> QED  BY <2>1
<1>2. ASSUME w = [leaf |-> isLeaf, ent |-> e, last |-> m, keyNum |-> n]
      PROVE  IsRecord(w, isLeaf, e, m, n)
  BY <1>2 DEF IsRecord
<1> QED  BY <1>1, <1>2

(* The operations of module BTreeNode on such a node.                      *)
LEMMA LeafPutIs ==
  ASSUME ~ByteDifference, NEW D \in SUBSET Keys, NEW f, NEW m, NEW n \in Nat,
         NEW k \in Keys, NEW v, NEW isLeaf
  PROVE  Node!LeafPut(NodeOf(isLeaf, D, f, m, n), Rank[k], v)
           = NodeOf(isLeaf, D \cup {k}, Put(D, f, k, v), m, Recount(D, k, n))
<1>1. PICK e : e = Ent(D, f)  OBVIOUS
<1>2. NodeOf(isLeaf, D, f, m, n) = [leaf |-> isLeaf, ent |-> e, last |-> m, keyNum |-> n]
  BY <1>1 DEF NodeOf
<1>3. PICK w : w = [leaf |-> isLeaf, ent |-> e, last |-> m, keyNum |-> n]  OBVIOUS
<1>4. Rank[k] \in Node!KeysOf(w) <=> k \in D
  <2>1. Node!KeysOf(w) = Ranks(D)  BY <1>1, <1>3, EntIs DEF Node!KeysOf
  <2>2. {} \in SUBSET D  OBVIOUS
  <2>3. Rank[k] \in Ranks(D) <=> k \in D  BY <2>2, RanksIs
  <2> QED  BY <2>1, <2>3
<1>5. Node!Put(e, Rank[k], v) = Ent(D \cup {k}, Put(D, f, k, v))  BY <1>1, PutEnt
<1>6. PICK z : z = Recount(D, k, n)  OBVIOUS
<1>7. PICK d : d = Node!Put(e, Rank[k], v)  OBVIOUS
<1>8. Node!LeafPut(w, Rank[k], v) = [w EXCEPT !.ent = d, !.keyNum = z]
  BY <1>3, <1>4, <1>6, <1>7 DEF Node!LeafPut, Recount
<1>9. [w EXCEPT !.ent = d, !.keyNum = z] = [leaf |-> isLeaf, ent |-> d, last |-> m, keyNum |-> z]
  <2>1. IsRecord(w, isLeaf, e, m, n)  BY <1>3, RecordIs
  <2>2. IsRecord([w EXCEPT !.ent = d, !.keyNum = z], isLeaf, d, m, z)  BY ONLY <2>1 DEF IsRecord
  <2>3. PICK x : x = [w EXCEPT !.ent = d, !.keyNum = z]  OBVIOUS
  <2> QED  BY <2>2, <2>3, RecordIs
<1> QED  BY <1>2, <1>3, <1>5, <1>6, <1>7, <1>8, <1>9 DEF NodeOf

LEMMA HalfIs ==
  ASSUME ~ByteDifference, NEW D \in SUBSET Keys, NEW E \in SUBSET D, NEW f, NEW m, NEW n,
         NEW isLeaf, NEW p
  PROVE  Node!Half(NodeOf(isLeaf, D, f, m, n), Ranks(E), p) = NodeOf(isLeaf, E, f, p, Cardinality(E))
<1>1. PICK e : e = Ent(D, f)  OBVIOUS
<1>2. PICK w : w = [leaf |-> isLeaf, ent |-> e, last |-> m, keyNum |-> n]  OBVIOUS
<1>3. NodeOf(isLeaf, D, f, m, n) = w  BY <1>1, <1>2 DEF NodeOf
<1>4. Node!Keep(e, Ranks(E)) = Ent(E, f)  BY <1>1, KeepEnt
<1>5. Node!Cardinality(Ranks(E)) = Cardinality(E)
  <2>1. E \in SUBSET Keys /\ {} \in SUBSET E  OBVIOUS
  <2> QED  BY <2>1, RanksIs, SameCount
<1>6. PICK d : d = Ent(E, f)  OBVIOUS
<1>7. PICK c : c = Cardinality(E)  OBVIOUS
<1>8. Node!Half(w, Ranks(E), p) = [w EXCEPT !.ent = d, !.keyNum = c, !.last = p]
  BY <1>2, <1>4, <1>5, <1>6, <1>7 DEF Node!Half
<1>9. [w EXCEPT !.ent = d, !.keyNum = c, !.last = p]
        = [leaf |-> isLeaf, ent |-> d, last |-> p, keyNum |-> c]
  <2>1. IsRecord(w, isLeaf, e, m, n)  BY <1>2, RecordIs
  <2>2. IsRecord([w EXCEPT !.ent = d, !.keyNum = c, !.last = p], isLeaf, d, p, c)
    BY ONLY <2>1 DEF IsRecord
  <2>3. PICK x : x = [w EXCEPT !.ent = d, !.keyNum = c, !.last = p]  OBVIOUS
  <2> QED  BY <2>2, <2>3, RecordIs
<1> QED  BY <1>3, <1>6, <1>7, <1>8, <1>9 DEF NodeOf

(* An inner node that gets k is the node u leaves.                         *)
PutLike(u, w, isLeaf, E, n, k, l, r, P) ==
  \E g : /\ Carries(u.t, E \cup {k}, g, P)
         /\ Node!InnerPut(w, Rank[k], l, r) = NodeOf(isLeaf, E \cup {k}, g, u.m, n)

LEMMA InnerPutIs ==
  ASSUME ~ByteDifference, NEW E \in SUBSET Keys, NEW f, NEW m, NEW n, NEW isLeaf, NEW k \in Keys \ E,
         NEW l, NEW r, NEW P, NEW u, Spread(u, E, f, m, k, l, r, P)
  PROVE  PutLike(u, NodeOf(isLeaf, E, f, m, n), isLeaf, E, n, k, l, r, P)
<1>1. PICK e : e = Ent(E, f)  OBVIOUS
<1>2. PICK w : w = [leaf |-> isLeaf, ent |-> e, last |-> m, keyNum |-> n]  OBVIOUS
<1>3. NodeOf(isLeaf, E, f, m, n) = w  BY <1>1, <1>2 DEF NodeOf
<1>4. Node!Above(w, Rank[k]) = Ranks(Over(E, k))  BY <1>3, AboveRanks
<1>7. IsRecord(w, isLeaf, e, m, n)  BY <1>2, RecordIs
<1>5. CASE (\A q \in E : ~ Precedes[k][q]) /\ Carries(u.t, E \cup {k}, Put(E, f, k, l), P) /\ u.m = r
  <2>1. Ranks(Over(E, k)) = {}  BY <1>5 DEF Ranks, Over
  <2>2. PICK d : d = Node!Put(e, Rank[k], l)  OBVIOUS
  <2>3. Node!InnerPut(w, Rank[k], l, r) = [w EXCEPT !.ent = d, !.last = r]
    BY <1>2, <1>4, <2>1, <2>2 DEF Node!InnerPut
  <2>4. [w EXCEPT !.ent = d, !.last = r] = [leaf |-> isLeaf, ent |-> d, last |-> r, keyNum |-> n]
    <3>1. IsRecord([w EXCEPT !.ent = d, !.last = r], isLeaf, d, r, n)  BY ONLY <1>7 DEF IsRecord
    <3>2. PICK x : x = [w EXCEPT !.ent = d, !.last = r]  OBVIOUS
    <3> QED  BY <3>1, <3>2, RecordIs
  <2>5. d = Ent(E \cup {k}, Put(E, f, k, l))  BY <1>1, <2>2, PutEnt
  <2>6. Node!InnerPut(w, Rank[k], l, r) = NodeOf(isLeaf, E \cup {k}, Put(E, f, k, l), u.m, n)
    BY <1>5, <2>3, <2>4, <2>5 DEF NodeOf
  <2>7. PICK g : g = Put(E, f, k, l)  OBVIOUS
  <2> QED  BY <1>3, <1>5, <2>6, <2>7 DEF PutLike
<1>6. ASSUME NEW s, IsNext(E, k, s), u.m = m,
             Carries(u.t, E \cup {k}, Put(E \cup {k}, Put(E, f, k, l), s, r), P)
      PROVE  \E g : /\ Carries(u.t, E \cup {k}, g, P)
                    /\ Node!InnerPut(w, Rank[k], l, r) = NodeOf(isLeaf, E \cup {k}, g, u.m, n)
  <2>1. Node!Least(Ranks(Over(E, k))) = Rank[s] /\ Ranks(Over(E, k)) # {} /\ s \in E
    BY <1>6, LeastRank
  <2>2. PICK d : d = Node!Put(Node!Put(e, Rank[s], r), Rank[k], l)  OBVIOUS
  <2>3. Node!InnerPut(w, Rank[k], l, r) = [w EXCEPT !.ent = d, !.last = m]
    BY <1>2, <1>4, <2>1, <2>2 DEF Node!InnerPut
  <2>4. [w EXCEPT !.ent = d, !.last = m] = [leaf |-> isLeaf, ent |-> d, last |-> m, keyNum |-> n]
    <3>1. IsRecord([w EXCEPT !.ent = d, !.last = m], isLeaf, d, m, n)  BY ONLY <1>7 DEF IsRecord
    <3>2. PICK x : x = [w EXCEPT !.ent = d, !.last = m]  OBVIOUS
    <3> QED  BY <3>1, <3>2, RecordIs
  <2>5. Node!Put(e, Rank[s], r) = Ent(E, Put(E, f, s, r))
    <3>1. E \cup {s} = E /\ s \in Keys  BY <2>1
    <3>2. Node!Put(e, Rank[s], r) = Ent(E \cup {s}, Put(E, f, s, r))  BY <1>1, <3>1, PutEnt
    <3> QED  BY <3>1, <3>2
  <2>6. PICK h : h = Put(E, Put(E, f, s, r), k, l)  OBVIOUS
  <2>7. d = Ent(E \cup {k}, h)
    <3>1. PICK h0 : h0 = Put(E, f, s, r)  OBVIOUS
    <3>2. Node!Put(Ent(E, h0), Rank[k], l) = Ent(E \cup {k}, Put(E, h0, k, l))  BY PutEnt
    <3> QED  BY <2>2, <2>5, <2>6, <3>1, <3>2
  <2>8. PICK g : g = Put(E \cup {k}, Put(E, f, k, l), s, r)  OBVIOUS
  <2>9. \A q \in E \cup {k} : g[q] = h[q]  BY <2>1, <2>6, <2>8 DEF Put
  <2>10. Ent(E \cup {k}, h) = Ent(E \cup {k}, g)
    <3>1. E \cup {k} \in SUBSET Keys  OBVIOUS
    <3> QED  BY <2>9, <3>1, SameEnt
  <2>11. Node!InnerPut(w, Rank[k], l, r) = NodeOf(isLeaf, E \cup {k}, g, u.m, n)
    BY <1>6, <2>3, <2>4, <2>7, <2>10 DEF NodeOf
  <2> QED  BY <1>6, <2>8, <2>11
<1> QED  BY <1>3, <1>5, <1>6 DEF Spread, PutLike

(* The halves of a leaf.                                                   *)
LeafHalf(isLeaf, E, f, m, k, v, in) ==
  NodeOf(isLeaf, AddedTo(E, k, in), IF in THEN Put(E, f, k, v) ELSE f, m, Cardinality(AddedTo(E, k, in)))

LEMMA LeafHalfIs ==
  ASSUME ~ByteDifference, NEW E \in SUBSET Keys, NEW f, NEW m, NEW k \in Keys, NEW v, NEW in, NEW isLeaf,
         NEW h, h = NodeOf(isLeaf, E, f, m, Cardinality(E))
  PROVE  /\ in => LeafHalf(isLeaf, E, f, m, k, v, in) = Node!LeafPut(h, Rank[k], v)
         /\ ~in => LeafHalf(isLeaf, E, f, m, k, v, in) = h
<1>1. IsFiniteSet(E) /\ Cardinality(E) \in Nat  BY KeysAssumption, FS_Subset, FS_CardinalityType
<1>2. Cardinality(E \cup {k}) = Recount(E, k, Cardinality(E))
  BY <1>1, FS_AddElement DEF Recount
<1>3. CASE in
  <2>1. PICK c \in Nat : c = Cardinality(E)  BY <1>1
  <2>2. Node!LeafPut(NodeOf(isLeaf, E, f, m, c), Rank[k], v)
          = NodeOf(isLeaf, E \cup {k}, Put(E, f, k, v), m, Recount(E, k, c))
    BY LeafPutIs
  <2> QED  BY <1>2, <1>3, <2>1, <2>2 DEF LeafHalf, AddedTo
<1>4. CASE ~in  BY <1>4 DEF LeafHalf, AddedTo
<1> QED  BY <1>3, <1>4

LeafHalves(x, isLeaf, D, f, m, k, v, new, s) ==
  /\ x.left = LeafHalf(isLeaf, InFront(D, s), f, new, k, v, Precedes[k][s])
  /\ x.right = LeafHalf(isLeaf, D \ InFront(D, s), f, m, k, v, ~Precedes[k][s])

LEMMA SplitLeafIs ==
  ASSUME ~ByteDifference, NEW D \in SUBSET Keys, NEW f, NEW m, NEW n, NEW k \in Keys, NEW v, NEW new, NEW isLeaf,
         NEW s \in D, Cardinality(InFront(D, s)) = Cardinality(D) \div 2,
         NEW x, x = Node!SplitLeaf(NodeOf(isLeaf, D, f, m, n), Rank[k], v, new)
  PROVE  LeafHalves(x, isLeaf, D, f, m, k, v, new, s)
<1>1. PICK w : w = NodeOf(isLeaf, D, f, m, n)  OBVIOUS
<1>2. Node!KeysOf(w) = Ranks(D) /\ w.last = m
  <2>1. w.ent = Ent(D, f) /\ w.last = m  BY <1>1 DEF NodeOf
  <2> QED  BY <2>1, EntIs DEF Node!KeysOf
<1>3. Node!Splitter(Ranks(D)) = Rank[s]  BY SplitterRank
<1>4. PICK L : L = InFront(D, s)  OBVIOUS
<1>5. PICK R : R = D \ L  OBVIOUS
<1>6. L \in SUBSET D /\ R \in SUBSET D /\ L \in SUBSET Keys /\ R \in SUBSET Keys
  BY <1>4, <1>5 DEF InFront
<1>7. Node!Below(Ranks(D), Rank[s]) = Ranks(L)  BY <1>4, BelowRanks
<1>8. Ranks(D) \ Ranks(L) = Ranks(R)  BY <1>5, <1>6, RanksIs
<1>9. PICK l0 : l0 = NodeOf(isLeaf, L, f, new, Cardinality(L))  OBVIOUS
<1>10. PICK r0 : r0 = NodeOf(isLeaf, R, f, m, Cardinality(R))  OBVIOUS
<1>11. Node!Half(w, Ranks(L), new) = l0 /\ Node!Half(w, Ranks(R), m) = r0
  <2>1. Node!Half(w, Ranks(L), new) = l0  BY <1>1, <1>6, <1>9, HalfIs
  <2>2. Node!Half(w, Ranks(R), m) = r0  BY <1>1, <1>6, <1>10, HalfIs
  <2> QED  BY <2>1, <2>2
<1>12. Rank[s] <= Rank[k] <=> ~Precedes[k][s]
  <2>1. Rank[s] \in Nat /\ Rank[k] \in Nat  BY RankIs
  <2>2. Rank[k] < Rank[s] <=> Precedes[k][s]  BY RankIs
  <2> QED  BY <2>1, <2>2
<1>13. x = Node!SplitLeaf(w, Rank[k], v, new)  BY <1>1
<1>14. x = [key   |-> Rank[s],
            left  |-> IF Rank[s] <= Rank[k] THEN l0 ELSE Node!LeafPut(l0, Rank[k], v),
            right |-> IF Rank[s] <= Rank[k] THEN Node!LeafPut(r0, Rank[k], v) ELSE r0]
  BY <1>2, <1>3, <1>7, <1>8, <1>11, <1>13 DEF Node!SplitLeaf
<1>15. x.left = LeafHalf(isLeaf, L, f, new, k, v, Precedes[k][s])
  <2>1. x.left = IF Rank[s] <= Rank[k] THEN l0 ELSE Node!LeafPut(l0, Rank[k], v)  BY <1>14
  <2>2. PICK in : in = Precedes[k][s]  OBVIOUS
  <2>3. /\ in => LeafHalf(isLeaf, L, f, new, k, v, in) = Node!LeafPut(l0, Rank[k], v)
        /\ ~in => LeafHalf(isLeaf, L, f, new, k, v, in) = l0
    BY <1>6, <1>9, LeafHalfIs
  <2> QED  BY <1>12, <2>1, <2>2, <2>3
<1>16. x.right = LeafHalf(isLeaf, R, f, m, k, v, ~Precedes[k][s])
  <2>1. x.right = IF Rank[s] <= Rank[k] THEN Node!LeafPut(r0, Rank[k], v) ELSE r0  BY <1>14
  <2>2. PICK in : in = ~Precedes[k][s]  OBVIOUS
  <2>3. /\ in => LeafHalf(isLeaf, R, f, m, k, v, in) = Node!LeafPut(r0, Rank[k], v)
        /\ ~in => LeafHalf(isLeaf, R, f, m, k, v, in) = r0
    BY <1>6, <1>10, LeafHalfIs
  <2> QED  BY <1>12, <2>1, <2>2, <2>3
<1> QED  BY <1>4, <1>5, <1>15, <1>16 DEF LeafHalves

(* The halves of an inner node.                                            *)
InnerHalf(isLeaf, E, f, m, k, l, r, in) ==
  LET h == NodeOf(isLeaf, E, f, m, Cardinality(E))
  IN  IF in THEN Node!InnerPut(h, Rank[k], l, r) ELSE h

InnerHalves(x, isLeaf, D, f, m, k, l, r, s) ==
  /\ x.left = InnerHalf(isLeaf, InFront(D, s), f, f[s], k, l, r, Precedes[k][s])
  /\ x.right = InnerHalf(isLeaf, D \ (InFront(D, s) \cup {s}), f, m, k, l, r, ~Precedes[k][s])

LEMMA SplitInnerIs ==
  ASSUME ~ByteDifference, NEW D \in SUBSET Keys, NEW f, NEW m, NEW n, NEW k \in Keys, NEW l, NEW r, NEW isLeaf,
         NEW s \in D, Cardinality(InFront(D, s)) = Cardinality(D) \div 2,
         NEW x, x = Node!SplitInner(NodeOf(isLeaf, D, f, m, n), Rank[k], l, r)
  PROVE  InnerHalves(x, isLeaf, D, f, m, k, l, r, s)
<1>1. PICK w : w = NodeOf(isLeaf, D, f, m, n)  OBVIOUS
<1>2. Node!KeysOf(w) = Ranks(D) /\ w.last = m /\ w.ent[Rank[s]] = f[s]
  <2>1. w.ent = Ent(D, f) /\ w.last = m  BY <1>1 DEF NodeOf
  <2> QED  BY <2>1, EntIs DEF Node!KeysOf
<1>3. Node!Splitter(Ranks(D)) = Rank[s]  BY SplitterRank
<1>4. PICK L : L = InFront(D, s)  OBVIOUS
<1>5. PICK R : R = D \ (L \cup {s})  OBVIOUS
<1>6. L \in SUBSET D /\ R \in SUBSET D /\ L \cup {s} \in SUBSET D
  BY <1>4, <1>5 DEF InFront
<1>7. Node!Below(Ranks(D), Rank[s]) = Ranks(L)  BY <1>4, BelowRanks
<1>8. Ranks(D) \ (Ranks(L) \cup {Rank[s]}) = Ranks(R)
  <2>1. Ranks(L \cup {s}) = Ranks(L) \cup {Rank[s]}  BY DEF Ranks
  <2>2. PICK M : M = L \cup {s}  OBVIOUS
  <2>3. Ranks(D) \ Ranks(M) = Ranks(D \ M)  BY <1>6, <2>2, RanksIs
  <2> QED  BY <1>5, <2>1, <2>2, <2>3
<1>9. PICK l0 : l0 = NodeOf(isLeaf, L, f, f[s], Cardinality(L))  OBVIOUS
<1>10. PICK r0 : r0 = NodeOf(isLeaf, R, f, m, Cardinality(R))  OBVIOUS
<1>11. Node!Half(w, Ranks(L), f[s]) = l0 /\ Node!Half(w, Ranks(R), m) = r0
  <2>1. Node!Half(w, Ranks(L), f[s]) = l0  BY <1>1, <1>6, <1>9, HalfIs
  <2>2. Node!Half(w, Ranks(R), m) = r0  BY <1>1, <1>6, <1>10, HalfIs
  <2> QED  BY <2>1, <2>2
<1>12. Rank[s] <= Rank[k] <=> ~Precedes[k][s]
  <2>1. Rank[s] \in Nat /\ Rank[k] \in Nat  BY RankIs
  <2>2. Rank[k] < Rank[s] <=> Precedes[k][s]  BY RankIs
  <2> QED  BY <2>1, <2>2
<1>13. x = Node!SplitInner(w, Rank[k], l, r)  BY <1>1
<1>14. x = [key   |-> Rank[s],
            left  |-> IF Rank[s] <= Rank[k] THEN l0 ELSE Node!InnerPut(l0, Rank[k], l, r),
            right |-> IF Rank[s] <= Rank[k] THEN Node!InnerPut(r0, Rank[k], l, r) ELSE r0]
  BY <1>2, <1>3, <1>7, <1>8, <1>11, <1>13 DEF Node!SplitInner
<1>15. x.left = InnerHalf(isLeaf, L, f, f[s], k, l, r, Precedes[k][s])
  BY <1>9, <1>12, <1>14 DEF InnerHalf
<1>16. x.right = InnerHalf(isLeaf, R, f, m, k, l, r, ~Precedes[k][s])
  BY <1>10, <1>12, <1>14 DEF InnerHalf
<1> QED  BY <1>4, <1>5, <1>15, <1>16 DEF InnerHalves

-----------------------------------------------------------------------------
(* Every step of the tree is a step of the node, or none.                  *)

(* The node of the refinement mapping.                                     *)
Mapped ==
  [leaf |-> leaf,
   ent |-> [i \in {Rank[k] : k \in DOMAIN bst} |-> bst[Ranked[i]].pointer],
   last |-> last, keyNum |-> keyNum]

LEMMA MappedEnt ==
  ASSUME ~ByteDifference, NEW b, DOMAIN b \in SUBSET Keys
  PROVE  [i \in {Rank[k] : k \in DOMAIN b} |-> b[Ranked[i]].pointer]
           = Ent(DOMAIN b, [q \in DOMAIN b |-> b[q].pointer])
<1>1. \A i \in Ranks(DOMAIN b) : Ranked[i] \in DOMAIN b  BY RankedIs DEF Ranks
<1> QED  BY <1>1 DEF Ent, Ranks

LEMMA MappedIs ==
  ASSUME ~ByteDifference, BSTInv
  PROVE  Mapped = NodeNow
<1>1. DOMAIN bst \in SUBSET Keys  BY TreeIs
<1> QED  BY <1>1, MappedEnt DEF Mapped, NodeNow, NodeOf, Carried

LEMMA MappedNext ==
  ASSUME ~ByteDifference, BSTInv'
  PROVE  Mapped' = NodeNow'
<1>1. DOMAIN bst' \in SUBSET Keys
  <2>1. PICK dom : Shaped(Tree, dom, Stored)'  BY DEF BSTInv
  <2>2. Tree'.n = bst'  BY DEF Tree
  <2> QED  BY <2>1, <2>2 DEF Shaped
<1>2. PICK b : b = bst'  OBVIOUS
<1>3. [i \in {Rank[k] : k \in DOMAIN b} |-> b[Ranked[i]].pointer]
        = Ent(DOMAIN b, [q \in DOMAIN b |-> b[q].pointer])
  BY <1>1, <1>2, MappedEnt
<1>4. Mapped' = [leaf |-> leaf', ent |-> [i \in {Rank[k] : k \in DOMAIN b} |-> b[Ranked[i]].pointer],
                 last |-> last', keyNum |-> keyNum']
  BY <1>2 DEF Mapped
<1>5. NodeNow' = [leaf |-> leaf', ent |-> Ent(DOMAIN b, [q \in DOMAIN b |-> b[q].pointer]),
                  last |-> last', keyNum |-> keyNum']
  BY <1>2 DEF NodeNow, NodeOf, Carried
<1> QED  BY <1>3, <1>4, <1>5

(* The node an operation leaves.                                           *)
LEMMA LeftNode ==
  ASSUME ~ByteDifference, BSTInv, ~looping, NEW t, NEW D, NEW f, Carries(t, D, f, Stored),
         NEW m, NEW n, Becomes(t, m, n), m \in IF leaf THEN Slots \cup {NoSlot} ELSE Slots,
         Counts(leaf, D, n)
  PROVE  Mapped' = NodeOf(leaf, D, f, m, n) /\ next' = NoSlot /\ want' = want
<1>1. BSTInv' /\ DOMAIN bst' = D /\ \A q \in D : Carried'[q] = f[q]  BY Left
<1>2. /\ last' = m /\ keyNum' = n /\ next' = NoSlot /\ leaf' = leaf /\ want' = want
  BY DEF Becomes
<1>3. D \in SUBSET Keys  BY DEF Carries, Shaped
<1>4. PICK g : g = Carried'  OBVIOUS
<1>5. Ent(D, g) = Ent(D, f)  BY <1>1, <1>3, <1>4, SameEnt
<1>6. NodeNow' = NodeOf(leaf, D, f, m, n)  BY <1>1, <1>2, <1>4, <1>5 DEF NodeNow, NodeOf
<1> QED  BY <1>1, <1>2, <1>6, MappedNext

(* A descent asks for a key, and the answer is forgotten.                  *)
LEMMA AskIs ==
  ASSUME ~leaf, want' \in Keys, next' = NoSlot, Mapped' = Mapped
  PROVE  Node!Ask
<1>1. Rank[want]' \in {Rank[k] : k \in Keys}  OBVIOUS
<1>2. Node!NoSlot = NoSlot  BY DEF Node!NoSlot, NoSlot
<1> QED  BY <1>1, <1>2 DEF Node!Ask, Mapped

LEMMA SameMapped ==
  ASSUME UNCHANGED tree
  PROVE  Mapped' = Mapped
<1>1. leaf' = leaf /\ bst' = bst /\ last' = last /\ keyNum' = keyNum  BY DEF tree
<1> QED  BY <1>1 DEF Mapped

LEMMA AnswerIs ==
  ASSUME ~ByteDifference, BSTInv, Arrive
  PROVE  Node!Answer
<1>1. next = NoSlot /\ next' = Found  BY ArriveIs
<1>2. UNCHANGED <<tree, want>>  BY DEF Arrive
<1>3. Mapped' = Mapped /\ Mapped = NodeNow  BY <1>2, SameMapped, MappedIs
<1>4. want \in Keys /\ DOMAIN bst \in SUBSET Keys  BY TreeIs DEF BSTInv, Descends
<1>5. Node!Child(NodeNow, Rank[want]) = Found
  <2>1. PICK D \in SUBSET Keys : D = DOMAIN bst  BY <1>4
  <2>2. CASE \A q \in D : ~Precedes[want][q]
    <3>1. Node!Child(NodeOf(leaf, D, Carried, last, keyNum), Rank[want]) = last
      BY <1>4, <2>2, ChildNone
    <3> QED  BY <2>1, <2>2, <3>1 DEF NodeNow, Found
  <2>3. CASE ~ \A q \in D : ~Precedes[want][q]
    <3>1. \E s : IsNext(D, want, s)
      <4>1. Over(D, want) \in SUBSET Keys /\ Over(D, want) # {}  BY <2>3 DEF Over
      <4>2. PICK s \in Over(D, want) : \A q \in Over(D, want) : q = s \/ Precedes[s][q]
        BY <4>1, LeastKey
      <4> QED  BY <4>2 DEF IsNext, Over
    <3>2. PICK s : s = CHOOSE z : IsNext(D, want, z)  OBVIOUS
    <3>3. IsNext(D, want, s)  BY <3>1, <3>2
    <3>4. Node!Child(NodeOf(leaf, D, Carried, last, keyNum), Rank[want]) = Carried[s]
      BY <1>4, <3>3, ChildNext
    <3> QED  BY <2>1, <2>3, <3>2, <3>4 DEF NodeNow, Found
  <2> QED  BY <2>2, <2>3
<1>6. Node!Child(Mapped, Rank[want]) = next'  BY <1>1, <1>3, <1>5
<1>7. Node!NoSlot = NoSlot  BY DEF Node!NoSlot, NoSlot
<1>8. want' = want  BY <1>2
<1> QED  BY <1>1, <1>3, <1>6, <1>7, <1>8 DEF Node!Answer, Mapped

LEMMA PutValueIs ==
  ASSUME ~ByteDifference, BSTInv, NEW k \in Keys, NEW v \in Values, LeafInsert(k, v)
  PROVE  Node!PutValue(Rank[k], v)
<1>1. PICK D : D = DOMAIN bst  OBVIOUS
<1>2. PICK t : t = BSTInsertNode(Tree, k, v)  OBVIOUS
<1>3. PICK n : n = IF k \in D THEN keyNum ELSE keyNum + 1  OBVIOUS
<1>4. PICK g : g = Put(D, Carried, k, v)  OBVIOUS
<1>5. Carries(t, D \cup {k}, g, Stored) /\ Becomes(t, last, n) /\ Counts(leaf, D \cup {k}, n)
  BY <1>1, <1>2, <1>3, <1>4, LeafInsertIs
<1>6. ~looping /\ leaf /\ keyNum < MaxElements  BY Apart DEF LeafInsert
<1>7. /\ last \in (IF leaf THEN Slots \cup {NoSlot} ELSE Slots) /\ keyNum \in Nat
      /\ D \in SUBSET Keys
  BY <1>1, TreeIs DEF BSTInv, Linked, Counts
<1>8. Mapped' = NodeOf(leaf, D \cup {k}, g, last, n) /\ next' = NoSlot /\ want' = want
  BY <1>5, <1>6, <1>7, LeftNode
<1>9. Node!LeafPut(NodeOf(leaf, D, Carried, last, keyNum), Rank[k], v)
        = NodeOf(leaf, D \cup {k}, Put(D, Carried, k, v), last, Recount(D, k, keyNum))
  BY <1>7, LeafPutIs
<1>10. Mapped' = Node!LeafPut(Mapped, Rank[k], v)
  <2>1. Mapped = NodeOf(leaf, D, Carried, last, keyNum)  BY <1>1, MappedIs DEF NodeNow
  <2>2. Recount(D, k, keyNum) = n  BY <1>3 DEF Recount
  <2> QED  BY <1>4, <1>8, <1>9, <2>1, <2>2
<1>11. Rank[want]' = Rank[want] /\ Node!NoSlot = NoSlot  BY <1>8 DEF Node!NoSlot, NoSlot
<1>12. Mapped' \in {Node!LeafPut(Mapped, Rank[k], v)}  BY <1>10
<1> QED  BY <1>6, <1>8, <1>11, <1>12 DEF Node!PutValue, Node!Becomes, Mapped

LEMMA SplitValuesIs ==
  ASSUME ~ByteDifference, BSTInv, NEW k \in Keys, NEW v \in Values, NEW new \in Slots,
         LeafSplit(k, v, new)
  PROVE  Node!SplitValues(Rank[k], v, new)
<1>1. PICK D : D = DOMAIN bst  OBVIOUS
<1>2. PICK s : SplitOfLeaf(D, s, k, v, new)  BY <1>1, LeafSplitIs
<1>3. s \in D /\ Cardinality(InFront(D, s)) = Cardinality(D) \div 2  BY <1>2 DEF SplitOfLeaf
<1>4. ~looping /\ leaf /\ keyNum >= MaxElements  BY Apart DEF LeafSplit
<1>5. last \in Slots \cup {NoSlot} /\ D \in SUBSET Keys
  BY <1>1, <1>4, TreeIs DEF BSTInv, Linked
<1>6. ASSUME NEW u, NEW m \in Slots \cup {NoSlot}, NEW E, NEW in, HalfLeaf(u, m, E, k, v, in)
      PROVE  Mapped' = LeafHalf(leaf, E, Carried, m, k, v, in) /\ next' = NoSlot /\ want' = want
  <2>1. PICK F : F = AddedTo(E, k, in)  OBVIOUS
  <2>2. PICK g : g = IF in THEN Put(E, Carried, k, v) ELSE Carried  OBVIOUS
  <2>3. Carries(u, F, g, Stored) /\ Becomes(u, m, Cardinality(F)) /\ Counts(leaf, F, Cardinality(F))
    BY <1>6, <2>1, <2>2 DEF HalfLeaf
  <2>4. Mapped' = NodeOf(leaf, F, g, m, Cardinality(F)) /\ next' = NoSlot /\ want' = want
    BY <1>4, <2>3, LeftNode
  <2> QED  BY <2>1, <2>2, <2>4 DEF LeafHalf
<1>7. PICK x : x = Node!SplitLeaf(NodeOf(leaf, D, Carried, last, keyNum), Rank[k], v, new)  OBVIOUS
<1>8. /\ x.left = LeafHalf(leaf, InFront(D, s), Carried, new, k, v, Precedes[k][s])
      /\ x.right = LeafHalf(leaf, D \ InFront(D, s), Carried, last, k, v, ~Precedes[k][s])
  <2>1. LeafHalves(x, leaf, D, Carried, last, k, v, new, s)  BY <1>3, <1>5, <1>7, SplitLeafIs
  <2> QED  BY <2>1 DEF LeafHalves
<1>9. Mapped' \in {x.left, x.right} /\ next' = NoSlot /\ want' = want
  <2>1. CASE \E u : HalfLeaf(u, new, InFront(D, s), k, v, Precedes[k][s])
    <3>1. PICK u : HalfLeaf(u, new, InFront(D, s), k, v, Precedes[k][s])  BY <2>1
    <3>2. PICK in : in = Precedes[k][s]  OBVIOUS
    <3>3. Mapped' = LeafHalf(leaf, InFront(D, s), Carried, new, k, v, in) /\ next' = NoSlot /\ want' = want
      BY <1>6, <3>1, <3>2
    <3> QED  BY <1>8, <3>2, <3>3
  <2>2. CASE \E u : HalfLeaf(u, last, D \ InFront(D, s), k, v, ~Precedes[k][s])
    <3>1. PICK u : HalfLeaf(u, last, D \ InFront(D, s), k, v, ~Precedes[k][s])  BY <2>2
    <3>2. PICK in : in = ~Precedes[k][s]  OBVIOUS
    <3>3. Mapped' = LeafHalf(leaf, D \ InFront(D, s), Carried, last, k, v, in) /\ next' = NoSlot /\ want' = want
      BY <1>5, <1>6, <3>1, <3>2
    <3> QED  BY <1>8, <3>2, <3>3
  <2> QED  BY <1>2, <2>1, <2>2 DEF SplitOfLeaf
<1>10. x = Node!SplitLeaf(Mapped, Rank[k], v, new)
  <2>1. Mapped = NodeOf(leaf, D, Carried, last, keyNum)  BY <1>1, MappedIs DEF NodeNow
  <2> QED  BY <1>7, <2>1
<1>11. Rank[want]' = Rank[want] /\ Node!NoSlot = NoSlot  BY <1>9 DEF Node!NoSlot, NoSlot
<1>12. Mapped' \in {Node!SplitLeaf(Mapped, Rank[k], v, new).left,
                    Node!SplitLeaf(Mapped, Rank[k], v, new).right}
  BY <1>9, <1>10
<1> QED  BY <1>4, <1>9, <1>11, <1>12 DEF Node!SplitValues, Node!Becomes, Mapped

(* The node names the child that was split.                                *)
LEMMA ChildOfRange ==
  ASSUME ~ByteDifference, BSTInv, NEW k \in Keys, InRange(k, next)
  PROVE  Node!Child(Mapped, Rank[k]) = next
<1>1. PICK D : D = DOMAIN bst  OBVIOUS
<1>2. D \in SUBSET Keys  BY <1>1, TreeIs
<1>3. Mapped = NodeOf(leaf, D, Carried, last, keyNum)  BY <1>1, MappedIs DEF NodeNow
<1>4. PICK up : up = {q \in D : Precedes[k][q]}  OBVIOUS
<1> DEFINE Fits(q) == q \in up /\ \A p \in up : p = q \/ Precedes[q][p]
<1>5. next = IF up = {} THEN last ELSE bst[CHOOSE q : Fits(q)].pointer
  BY <1>1, <1>4 DEF InRange
<1>6. CASE up = {}
  <2>1. \A q \in D : ~Precedes[k][q]  BY <1>4, <1>6
  <2>2. Node!Child(NodeOf(leaf, D, Carried, last, keyNum), Rank[k]) = last  BY <1>2, <2>1, ChildNone
  <2> QED  BY <1>3, <1>5, <1>6, <2>2
<1>7. CASE up # {}
  <2>1. up \in SUBSET Keys  BY <1>2, <1>4
  <2>2. PICK z \in up : \A p \in up : p = z \/ Precedes[z][p]  BY <1>7, <2>1, LeastKey
  <2>3. Fits(z)  BY <2>2
  <2> HIDE DEF Fits
  <2>4. PICK s : s = CHOOSE q : Fits(q)  OBVIOUS
  <2>5. Fits(s)  BY <2>3, <2>4
  <2>6. IsNext(D, k, s) /\ s \in D  BY <1>4, <2>5 DEF IsNext, Fits
  <2>7. Node!Child(NodeOf(leaf, D, Carried, last, keyNum), Rank[k]) = Carried[s]
    BY <1>2, <2>6, ChildNext
  <2>8. Carried[s] = bst[s].pointer  BY <1>1, <2>6 DEF Carried
  <2> QED  BY <1>3, <1>5, <1>7, <2>4, <2>7, <2>8
<1> QED  BY <1>6, <1>7

LEMMA PutChildIs ==
  ASSUME ~ByteDifference, BSTInv, NEW k \in Keys, NEW new \in Slots, InnerInsert(k, new)
  PROVE  Node!PutChild(Rank[k], new)
<1>1. PICK D : D = DOMAIN bst  OBVIOUS
<1>2. Receives(D, last, keyNum + 1, k, next, new)  BY <1>1, InnerInsertIs
<1>3. /\ ~looping /\ ~leaf /\ keyNum < MaxElements /\ next # NoSlot /\ InRange(k, next)
      /\ k \notin D
  BY <1>1 DEF InnerInsert, ChildSplit, InRange
<1>4. /\ last \in Slots /\ next \in Slots /\ keyNum \in Nat /\ D \in SUBSET Keys
  BY <1>1, <1>3, TreeIs DEF BSTInv, Linked, Counts
<1>5. PICK u : /\ Spread(u, D, Carried, last, k, next, new, Stored)
               /\ Becomes(u.t, u.m, keyNum + 1)
               /\ Counts(leaf, D \cup {k}, keyNum + 1)
  BY <1>2 DEF Receives
<1>6. u.m \in Slots  BY <1>4, <1>5 DEF Spread
<1>7. PICK g : /\ Carries(u.t, D \cup {k}, g, Stored)
               /\ Node!InnerPut(NodeOf(leaf, D, Carried, last, keyNum), Rank[k], next, new)
                    = NodeOf(leaf, D \cup {k}, g, u.m, keyNum)
  <2>1. k \in Keys \ D  BY <1>3
  <2>2. PICK c, m, n, l, isLeaf, P :
          c = Carried /\ m = last /\ n = keyNum /\ l = next /\ isLeaf = leaf /\ P = Stored
    OBVIOUS
  <2>3. Spread(u, D, c, m, k, l, new, P)  BY <1>5, <2>2
  <2>4. PutLike(u, NodeOf(isLeaf, D, c, m, n), isLeaf, D, n, k, l, new, P)
    BY <1>4, <2>1, <2>3, InnerPutIs
  <2> QED  BY <2>2, <2>4 DEF PutLike
<1>8. Mapped' = NodeOf(leaf, D \cup {k}, g, u.m, keyNum + 1) /\ next' = NoSlot /\ want' = want
  BY <1>3, <1>5, <1>6, <1>7, LeftNode
<1>9. Mapped = NodeOf(leaf, D, Carried, last, keyNum)  BY <1>1, MappedIs DEF NodeNow
<1>10. Mapped' = Node!Counted(Node!InnerPut(Mapped, Rank[k], next, new))
  <2>1. PICK w : w = NodeOf(leaf, D \cup {k}, g, u.m, keyNum)  OBVIOUS
  <2>2. PICK e : e = Ent(D \cup {k}, g)  OBVIOUS
  <2>3. PICK m : m = u.m  OBVIOUS
  <2>4. PICK n \in Nat : n = keyNum  BY <1>4
  <2>5. IsRecord(w, leaf, e, m, n)
    <3>1. w = [leaf |-> leaf, ent |-> e, last |-> m, keyNum |-> n]  BY <2>1, <2>2, <2>3, <2>4 DEF NodeOf
    <3> QED  BY <3>1, RecordIs
  <2>6. PICK c : c = n + 1  OBVIOUS
  <2>7. IsRecord([w EXCEPT !.keyNum = c], leaf, e, m, c)  BY ONLY <2>5 DEF IsRecord
  <2>8. w.keyNum = n  BY <2>1, <2>4 DEF NodeOf
  <2>9. Node!Counted(w) = [w EXCEPT !.keyNum = c]  BY <2>6, <2>8 DEF Node!Counted
  <2>10. PICK x : x = Node!Counted(w)  OBVIOUS
  <2>11. x = [leaf |-> leaf, ent |-> e, last |-> m, keyNum |-> c]  BY <2>7, <2>9, <2>10, RecordIs
  <2>12. x = NodeOf(leaf, D \cup {k}, g, u.m, keyNum + 1)
    BY <2>2, <2>3, <2>4, <2>6, <2>11 DEF NodeOf
  <2> QED  BY <1>7, <1>8, <1>9, <2>1, <2>10, <2>12
<1>11. Rank[want]' = Rank[want] /\ Node!NoSlot = NoSlot  BY <1>8 DEF Node!NoSlot, NoSlot
<1>14. Mapped' \in {Node!Counted(Node!InnerPut(Mapped, Rank[k], next, new))}  BY <1>10
<1>12. Node!Child(Mapped, Rank[k]) = next  BY <1>3, ChildOfRange
<1>13. next # Node!NoSlot  BY <1>3 DEF Node!NoSlot, NoSlot
<1> QED  BY <1>3, <1>8, <1>11, <1>12, <1>13, <1>14 DEF Node!PutChild, Node!Becomes, Mapped

LEMMA SplitChildrenIs ==
  ASSUME ~ByteDifference, BSTInv, NEW k \in Keys, NEW new \in Slots, InnerSplit(k, new)
  PROVE  Node!SplitChildren(Rank[k], new)
<1>1. PICK D : D = DOMAIN bst  OBVIOUS
<1>2. PICK s : SplitOfInner(D, s, k, next, new)  BY <1>1, InnerSplitIs
<1>3. s \in D /\ Cardinality(InFront(D, s)) = Cardinality(D) \div 2  BY <1>2 DEF SplitOfInner
<1>4. /\ ~looping /\ ~leaf /\ keyNum >= MaxElements /\ next # NoSlot /\ InRange(k, next)
      /\ k \notin D
  BY <1>1 DEF InnerSplit, ChildSplit, InRange
<1>5. last \in Slots /\ next \in Slots /\ D \in SUBSET Keys /\ Carried[s] \in Slots
  <2>1. Carried \in [D -> Stored] /\ D \in SUBSET Keys  BY <1>1, TreeIs
  <2>2. Stored = Slots  BY <1>4 DEF Stored
  <2> QED  BY <1>3, <1>4, <2>1, <2>2 DEF BSTInv, Linked
<1>6. ASSUME NEW m \in Slots, NEW E \in SUBSET D, NEW in, HalfInner(E, m, k, next, new, in)
      PROVE  /\ Mapped' = InnerHalf(leaf, E, Carried, m, k, next, new, in)
             /\ next' = NoSlot /\ want' = want
  <2>1. PICK c : c = Cardinality(E)  OBVIOUS
  <2>2. PICK h : h = NodeOf(leaf, E, Carried, m, c)  OBVIOUS
  <2>3. CASE in
    <3>1. PICK u : /\ Spread(u, E, Carried, m, k, next, new, Stored)
                   /\ Becomes(u.t, u.m, c)
                   /\ Counts(leaf, E \cup {k}, c)
      BY <1>6, <2>1, <2>3 DEF HalfInner, Receives
    <3>2. u.m \in Slots  BY <1>5, <1>6, <3>1 DEF Spread
    <3>3. PICK g : /\ Carries(u.t, E \cup {k}, g, Stored)
                   /\ Node!InnerPut(NodeOf(leaf, E, Carried, m, c), Rank[k], next, new)
                        = NodeOf(leaf, E \cup {k}, g, u.m, c)
      <4>1. k \in Keys \ E /\ E \in SUBSET Keys  BY <1>4, <1>5, <1>6
      <4>2. PICK f, l, isLeaf, P : f = Carried /\ l = next /\ isLeaf = leaf /\ P = Stored  OBVIOUS
      <4>3. Spread(u, E, f, m, k, l, new, P)  BY <3>1, <4>2
      <4>4. PutLike(u, NodeOf(isLeaf, E, f, m, c), isLeaf, E, c, k, l, new, P)
        BY <4>1, <4>3, InnerPutIs
      <4> QED  BY <4>2, <4>4 DEF PutLike
    <3>4. Mapped' = NodeOf(leaf, E \cup {k}, g, u.m, c) /\ next' = NoSlot /\ want' = want
      BY <1>4, <3>1, <3>2, <3>3, LeftNode
    <3> QED  BY <2>1, <2>3, <3>3, <3>4 DEF InnerHalf
  <2>4. CASE ~in
    <3>1. PICK t : /\ Carries(t, E, Carried, Stored)
                   /\ Becomes(t, m, c)
                   /\ Counts(leaf, E, c)
      BY <1>6, <2>1, <2>4 DEF HalfInner
    <3>2. Mapped' = NodeOf(leaf, E, Carried, m, c) /\ next' = NoSlot /\ want' = want
      BY <1>4, <1>6, <3>1, LeftNode
    <3> QED  BY <2>1, <2>4, <3>2 DEF InnerHalf
  <2> QED  BY <2>3, <2>4
<1>7. PICK x : x = Node!SplitInner(NodeOf(leaf, D, Carried, last, keyNum), Rank[k], next, new)  OBVIOUS
<1>8. /\ x.left = InnerHalf(leaf, InFront(D, s), Carried, Carried[s], k, next, new, Precedes[k][s])
      /\ x.right = InnerHalf(leaf, D \ (InFront(D, s) \cup {s}), Carried, last, k, next, new, ~Precedes[k][s])
  <2>1. InnerHalves(x, leaf, D, Carried, last, k, next, new, s)  BY <1>3, <1>5, <1>7, SplitInnerIs
  <2> QED  BY <2>1 DEF InnerHalves
<1>9. Mapped' \in {x.left, x.right} /\ next' = NoSlot /\ want' = want
  <2>1. CASE HalfInner(InFront(D, s), Carried[s], k, next, new, Precedes[k][s])
    <3>1. PICK in : in = Precedes[k][s]  OBVIOUS
    <3>2. PICK E \in SUBSET D : E = InFront(D, s)  BY DEF InFront
    <3>3. PICK m \in Slots : m = Carried[s]  BY <1>5
    <3>4. HalfInner(E, m, k, next, new, in)  BY <2>1, <3>1, <3>2, <3>3
    <3>5. /\ Mapped' = InnerHalf(leaf, E, Carried, m, k, next, new, in)
          /\ next' = NoSlot /\ want' = want
      BY <1>6, <3>4
    <3> QED  BY <1>8, <3>1, <3>2, <3>3, <3>5
  <2>2. CASE HalfInner(D \ (InFront(D, s) \cup {s}), last, k, next, new, ~Precedes[k][s])
    <3>1. PICK in : in = ~Precedes[k][s]  OBVIOUS
    <3>2. PICK E \in SUBSET D : E = D \ (InFront(D, s) \cup {s})  OBVIOUS
    <3>3. HalfInner(E, last, k, next, new, in)  BY <2>2, <3>1, <3>2
    <3>4. /\ Mapped' = InnerHalf(leaf, E, Carried, last, k, next, new, in)
          /\ next' = NoSlot /\ want' = want
      BY <1>5, <1>6, <3>3
    <3> QED  BY <1>8, <3>1, <3>2, <3>4
  <2> QED  BY <1>2, <2>1, <2>2 DEF SplitOfInner
<1>10. x = Node!SplitInner(Mapped, Rank[k], next, new)
  <2>1. Mapped = NodeOf(leaf, D, Carried, last, keyNum)  BY <1>1, MappedIs DEF NodeNow
  <2> QED  BY <1>7, <2>1
<1>11. Rank[want]' = Rank[want] /\ Node!NoSlot = NoSlot  BY <1>9 DEF Node!NoSlot, NoSlot
<1>14. Mapped' \in {Node!SplitInner(Mapped, Rank[k], next, new).left,
                    Node!SplitInner(Mapped, Rank[k], next, new).right}
  BY <1>9, <1>10
<1>12. Node!Child(Mapped, Rank[k]) = next  BY <1>4, ChildOfRange
<1>13. next # Node!NoSlot  BY <1>4 DEF Node!NoSlot, NoSlot
<1> QED  BY <1>4, <1>9, <1>11, <1>12, <1>13, <1>14 DEF Node!SplitChildren, Node!Becomes, Mapped

-----------------------------------------------------------------------------
(* The first node is the empty leaf, or a root over two halves.            *)
LEMMA MappedStart ==
  ASSUME ~ByteDifference, Init
  PROVE  Node!Init
<1>1. BSTInv  BY InvStart
<1>2. Mapped = NodeOf(leaf, DOMAIN bst, Carried, last, keyNum)  BY <1>1, MappedIs DEF NodeNow
<1>3. want \in Keys /\ next = NoSlot  BY DEF Init
<1>4. Rank[want] \in {Rank[k] : k \in Keys} /\ next = Node!NoSlot  BY <1>3 DEF NoSlot, Node!NoSlot
<1>5. CASE leaf = TRUE /\ root = Null /\ bst = Empty.n /\ last = NoSlot /\ keyNum = 0
  <2>1. DOMAIN bst = {}  BY <1>5 DEF Empty
  <2>2. Mapped.ent = Ent({}, Carried) /\ Ent({}, Carried) = [i \in {} |-> Node!NoSlot]
    BY <1>2, <2>1 DEF NodeOf, Ent, Ranks
  <2>3. Mapped = [leaf |-> TRUE, ent |-> [i \in {} |-> Node!NoSlot], last |-> Node!NoSlot, keyNum |-> 0]
    BY <1>2, <1>5, <2>1, <2>2 DEF NodeOf, NoSlot, Node!NoSlot
  <2>4. Mapped = Node!EmptyLeaf  BY <2>3 DEF Node!EmptyLeaf
  <2> QED  BY <1>4, <2>4 DEF Node!Init, Mapped
<1>6. ASSUME NEW k \in Keys, NEW l \in Slots, NEW r \in Slots,
             leaf = FALSE, bst = With(Empty.n, k, Fresh(l)), last = r, keyNum = 1
      PROVE  Node!Init
  <2>1. DOMAIN bst = {k} /\ bst[k].pointer = l  BY <1>6 DEF With, Empty, Fresh
  <2>2. Ranks({k}) = {Rank[k]} /\ Ranked[Rank[k]] = k  BY RankedIs DEF Ranks
  <2>3. Ent(DOMAIN bst, Carried) = [i \in {Rank[k]} |-> l]
    BY <2>1, <2>2 DEF Ent, Carried
  <2>4. Mapped = [leaf |-> FALSE, ent |-> [i \in {Rank[k]} |-> l], last |-> r, keyNum |-> 1]
    BY <1>2, <1>6, <2>3 DEF NodeOf
  <2>5. Mapped = Node!RootOver(Rank[k], l, r)
    <3>1. PICK i : i = Rank[k]  OBVIOUS
    <3>2. PICK z : z = [q \in {} |-> Node!NoSlot]  OBVIOUS
    <3>3. DOMAIN z \cup {i} = {i}  BY <3>2
    <3>4. Node!Put(z, i, l) = [q \in {i} |-> l]  BY <3>3 DEF Node!Put
    <3>5. Node!RootOver(i, l, r) = [leaf |-> FALSE, ent |-> [q \in {i} |-> l], last |-> r, keyNum |-> 1]
      BY <3>2, <3>4 DEF Node!RootOver
    <3> QED  BY <2>4, <3>1, <3>5
  <2>6. \E i \in {Rank[q] : q \in Keys}, a, b \in Slots : Mapped = Node!RootOver(i, a, b)
    BY <2>5
  <2> QED  BY <1>4, <2>6 DEF Node!Init, Mapped
<1> QED  BY <1>5, <1>6 DEF Init

(* Reading the node back changes nothing but what was answered.            *)
LEMMA ReloadAsks ==
  ASSUME ~ByteDifference, BSTInv, Reload
  PROVE  Node!Ask \/ UNCHANGED Node!vars
<1>1. PICK t : /\ Carries(t, DOMAIN bst, Carried, Stored)
               /\ Becomes(t, last, keyNum)
               /\ Counts(leaf, DOMAIN bst, keyNum)
  BY ReloadIs
<1>2. PICK D : D = DOMAIN bst  OBVIOUS
<1>3. PICK f : f = Carried  OBVIOUS
<1>4. ~looping /\ (last \in IF leaf THEN Slots \cup {NoSlot} ELSE Slots)
  BY DEF Reload, BSTInv, Linked
<1>5. Mapped' = NodeOf(leaf, D, f, last, keyNum) /\ next' = NoSlot /\ want' = want
  BY <1>1, <1>2, <1>3, <1>4, LeftNode
<1>6. Mapped' = Mapped  BY <1>2, <1>3, <1>5, MappedIs DEF NodeNow
<1>7. want \in Keys /\ (next # NoSlot => ~leaf)  BY DEF BSTInv, Descends, Linked
<1>8. CASE next = NoSlot
  <2>1. Rank[want]' = Rank[want] /\ next' = next  BY <1>5, <1>8
  <2> QED  BY <1>6, <2>1 DEF Node!vars, Mapped
<1>9. CASE next # NoSlot  BY <1>5, <1>6, <1>7, <1>9, AskIs
<1> QED  BY <1>8, <1>9

LEMMA MappedStep ==
  ASSUME ~ByteDifference, BSTInv, Next
  PROVE  Node!Next \/ UNCHANGED Node!vars
<1>1. CASE GoRight \/ GoLeft
  <2>1. UNCHANGED tree /\ want' = want /\ next' = next  BY <1>1 DEF GoRight, GoLeft
  <2>2. Mapped' = Mapped /\ Rank[want]' = Rank[want]  BY <2>1, SameMapped
  <2> QED  BY <2>1, <2>2 DEF Node!vars, Mapped
<1>2. CASE Arrive
  <2>1. Node!Answer  BY <1>2, AnswerIs
  <2> QED  BY <2>1 DEF Node!Next
<1>3. CASE Reload
  <2>1. Node!Ask \/ UNCHANGED Node!vars  BY <1>3, ReloadAsks
  <2> QED  BY <2>1 DEF Node!Next
<1>4. ASSUME NEW k \in Keys, Descend(k) PROVE Node!Next
  <2>1. UNCHANGED tree /\ ~leaf /\ want' = k /\ next' = NoSlot  BY <1>4 DEF Descend
  <2>2. Node!Ask  BY <2>1, SameMapped, AskIs
  <2> QED  BY <2>2 DEF Node!Next
<1>5. ASSUME NEW k \in Keys, NEW v \in Values, LeafInsert(k, v) PROVE Node!Next
  <2>1. Node!PutValue(Rank[k], v)  BY <1>5, PutValueIs
  <2> QED  BY <2>1 DEF Node!Next
<1>6. ASSUME NEW k \in Keys, NEW v \in Values, NEW new \in Slots, LeafSplit(k, v, new)
      PROVE  Node!Next
  <2>1. Node!SplitValues(Rank[k], v, new)  BY <1>6, SplitValuesIs
  <2> QED  BY <2>1 DEF Node!Next
<1>7. ASSUME NEW k \in Keys, NEW new \in Slots, InnerInsert(k, new) PROVE Node!Next
  <2>1. Node!PutChild(Rank[k], new)  BY <1>7, PutChildIs
  <2> QED  BY <2>1 DEF Node!Next
<1>8. ASSUME NEW k \in Keys, NEW new \in Slots, InnerSplit(k, new) PROVE Node!Next
  <2>1. Node!SplitChildren(Rank[k], new)  BY <1>8, SplitChildrenIs
  <2> QED  BY <2>1 DEF Node!Next
<1> QED  BY <1>1, <1>2, <1>3, <1>4, <1>5, <1>6, <1>7, <1>8 DEF Next, Loop

(* The search tree of a node implements the ordered map with a counter of  *)
(* module BTreeNode: insertions, splits, reloads and the descent loop do   *)
(* to the keys and pointers of the node what the map promises, and tell a  *)
(* descent the child the map names, whatever the shape of the tree.        *)
THEOREM NodeRefined ==
  ASSUME ~ByteDifference
  PROVE  Spec => ImplementsNode
<1>1. Init => Node!Init  BY MappedStart
<1>2. BSTInv /\ [Next]_vars => [Node!Next]_(Node!vars)
  <2>1. ASSUME BSTInv, UNCHANGED vars PROVE UNCHANGED Node!vars
    <3>1. UNCHANGED tree /\ want' = want /\ next' = next  BY <2>1 DEF vars, loop
    <3>2. Mapped' = Mapped /\ Rank[want]' = Rank[want]  BY <3>1, SameMapped
    <3> QED  BY <3>1, <3>2 DEF Node!vars, Mapped
  <2> QED  BY <2>1, MappedStep
<1> QED  BY <1>1, <1>2, InvAlways, PTL DEF Spec, ImplementsNode, Node!Spec
=============================================================================
