------------------------------ MODULE HashTable ------------------------------
(***************************************************************************)
(* The chained hash table SimpleHashTable (common/HashTable.hpp), which    *)
(* holds the node cache of the B+ tree.  A chain is a sequence of          *)
(* <<key, value>> pairs, its head first.  Every operation is one step: the *)
(* table has no locks and one user.                                        *)
(***************************************************************************)
EXTENDS SequencesExt, Integers

CONSTANTS Keys,       (* the keys, block numbers where the cache uses it    *)
          Values,
          InitSize,   (* the size the constructor is given, normalized      *)
          SizeLimit,  (* 10000000: a table never gets that large            *)
          Failures    (* the allocations that may fail: "array" of a larger *)
                      (* table, "node" of a new pair, "rehash" of an old one*)

VARIABLES mTable,     (* mTablePtr: the chain of each bucket                *)
          mTableSize,
          mHashKey,   (* the divisor of the hash function                   *)
          mItemNum,   (* the counter that decides when to expand            *)
          call        (* the last call: its name, arguments and result      *)

vars == <<mTable, mTableSize, mHashKey, mItemNum, call>>

IsPrime(n) == \A d \in 2 .. n - 1 : n % d # 0

(* GetHashKey: the greatest prime below the table size, 1 for size 2.      *)
HashKeyFor(size) ==
  CHOOSE p \in 1 .. size - 1 : IsPrime(p) /\ \A q \in p + 1 .. size - 1 : ~IsPrime(q)

Hash(k) == k % mHashKey

EmptyTable(size) == [b \in 0 .. size - 1 |-> <<>>]

Init ==
  /\ mTable = EmptyTable(InitSize)
  /\ mTableSize = InitSize
  /\ mHashKey = HashKeyFor(InitSize)
  /\ mItemNum = 0
  /\ call = <<>>

Positions(chain, k) == {i \in DOMAIN chain : chain[i][1] = k}

(* Seeded fault: an update prepends a second pair for the key.             *)
PutInChain_NoUpdate(chain, k, v) == <<<<k, v>>>> \o chain

(* The chain after Insert walked it: the value updated in place, or a new  *)
(* pair at the head.                                                       *)
PutInChain(chain, k, v) ==
  IF Positions(chain, k) = {} THEN <<<<k, v>>>> \o chain
  ELSE [i \in DOMAIN chain |-> IF chain[i][1] = k THEN <<k, v>> ELSE chain[i]]

(* The pairs in the order ExpandHashTable visits them.                     *)
AllPairs ==
  LET upTo[b \in 0 .. mTableSize] == IF b = 0 THEN <<>> ELSE upTo[b - 1] \o mTable[b - 1]
  IN  upTo[mTableSize]

Elements(table) == UNION {ToSet(table[b]) : b \in DOMAIN table}

(* Seeded fault: the size is restored before the divisor is computed.      *)
GrownDivisor_Old == HashKeyFor(mTableSize)

(* The divisor ExpandHashTable sets before it allocates anything.          *)
GrownDivisor == HashKeyFor(2 * mTableSize)

MayGrow == 2 * mTableSize < SizeLimit

(* Re-insertion of the old pairs with the new divisor; `kept' are those    *)
(* for which the allocation of a new node succeeds.                        *)
Rehash(kept) ==
  LET pairs == AllPairs
      again(table, p) ==
        IF p \notin kept THEN table
        ELSE [table EXCEPT ![p[1] % GrownDivisor] = PutInChain(@, p[1], p[2])]
      after[n \in 0 .. Len(pairs)] ==
        IF n = 0 THEN EmptyTable(2 * mTableSize) ELSE again(after[n - 1], pairs[n])
  IN  after[Len(pairs)]

Survivors == IF "rehash" \in Failures THEN SUBSET Elements(mTable) ELSE {Elements(mTable)}

(* Seeded fault: the load is compared with the size.                       *)
Loaded_Full == mItemNum > mTableSize

(* The load that makes Insert expand first.                                *)
Loaded == 4 * mItemNum > 3 * mTableSize

(* Whether Insert gets the node it needs for a key that is new to a chain. *)
Allocated(chain, k) ==
  IF Positions(chain, k) = {} /\ "node" \in Failures THEN BOOLEAN ELSE {TRUE}

(* Insert into a table that need not grow.                                 *)
InsertInPlace(k, v) ==
  LET chain == mTable[Hash(k)]
  IN  /\ ~Loaded
      /\ \E ok \in Allocated(chain, k) :
           /\ mTable' = IF ok THEN [mTable EXCEPT ![Hash(k)] = PutInChain(@, k, v)] ELSE mTable
           /\ mItemNum' = IF ok /\ Positions(chain, k) = {} THEN mItemNum + 1 ELSE mItemNum
           /\ call' = <<"insert", k, v, ok>>
      /\ UNCHANGED <<mTableSize, mHashKey>>

(* Insert that expands first.  mItemNum restarts from the pairs that were  *)
(* re-inserted.                                                            *)
InsertExpanding(k, v) ==
  /\ Loaded
  /\ MayGrow
  /\ mTableSize' = 2 * mTableSize
  /\ mHashKey' = GrownDivisor
  /\ \E kept \in Survivors :
       LET grown == Rehash(kept)
           b     == k % GrownDivisor
       IN  \E ok \in Allocated(grown[b], k) :
             /\ mTable' = IF ok THEN [grown EXCEPT ![b] = PutInChain(@, k, v)] ELSE grown
             /\ mItemNum' = Cardinality(Elements(mTable'))
             /\ call' = <<"insert", k, v, ok>>

(* Insert into a table that would have to grow beyond its limit.           *)
InsertRefused(k, v) ==
  /\ Loaded
  /\ ~MayGrow
  /\ call' = <<"insert", k, v, FALSE>>
  /\ UNCHANGED <<mTable, mTableSize, mHashKey, mItemNum>>

(* Insert into a table that needs to grow while no memory is left for the  *)
(* larger one: it returns false, but the divisor has changed already.      *)
InsertExpandFails(k, v) ==
  /\ Loaded
  /\ MayGrow
  /\ "array" \in Failures
  /\ mHashKey' = GrownDivisor
  /\ call' = <<"insert", k, v, FALSE>>
  /\ UNCHANGED <<mTable, mTableSize, mItemNum>>

Insert(k, v) ==
  InsertInPlace(k, v) \/ InsertExpanding(k, v) \/ InsertRefused(k, v) \/ InsertExpandFails(k, v)

(* Seeded fault: the first pair of the bucket goes, whatever its key.      *)
UnlinkFrom_Head(chain, k) == IF chain = <<>> THEN chain ELSE Tail(chain)

(* RemoveKey in a chain.  When the pair is the first one, ptr = prevPtr    *)
(* and the bucket is set to NULL: the rest of the chain goes with it.      *)
UnlinkFrom(chain, k) ==
  IF Positions(chain, k) = {} THEN chain
  ELSE IF chain[1][1] = k THEN <<>>
  ELSE RemoveAt(chain, CHOOSE i \in Positions(chain, k) : \A j \in Positions(chain, k) : i <= j)

(* With a divisor that does not fit the table the bucket may lie outside   *)
(* it.  What the code reads there is undefined; here there is no chain.    *)
Unlink(table, k) ==
  IF Hash(k) \in DOMAIN table THEN [table EXCEPT ![Hash(k)] = UnlinkFrom(@, k)] ELSE table

(* RemoveKey.  It does not touch mItemNum.                                 *)
RemoveKey(k) ==
  /\ mTable' = Unlink(mTable, k)
  /\ call' = <<"remove", k>>
  /\ UNCHANGED <<mTableSize, mHashKey, mItemNum>>

Next ==
  \/ \E k \in Keys, v \in Values : Insert(k, v)
  \/ \E k \in Keys : RemoveKey(k)

Spec == Init /\ [][Next]_vars

-----------------------------------------------------------------------------
Stored == Elements(mTable)

(* CheckKey looks for the pair in the one bucket the divisor gives.        *)
InOneBucket(k) == {mTable[Hash(k)][i] : i \in Positions(mTable[Hash(k)], k)}

CheckKey(k) == Hash(k) \in DOMAIN mTable /\ InOneBucket(k) # {}

(* The state has its type.                                                 *)
TypeOK ==
  /\ mTableSize \in Nat /\ mTableSize >= InitSize /\ mTableSize < SizeLimit
  /\ DOMAIN mTable = 0 .. mTableSize - 1
  /\ \A b \in DOMAIN mTable : mTable[b] \in Seq(Keys \X Values)
  /\ mHashKey \in Nat \ {0}
  /\ mItemNum \in Nat

(***************************************************************************)
(* While old pairs are re-inserted, Insert compares the counter with the   *)
(* size of the old table.  The pairs always fit, so that ExpandHashTable   *)
(* is not entered again from within, which would free the chains that are  *)
(* being walked: the last pair is re-inserted with the others counted.     *)
(***************************************************************************)
RehashFits == 4 * (Cardinality(Stored) - 1) <= 3 * mTableSize

(***************************************************************************)
(* The divisor fits the table, except after an expansion that failed: then *)
(* the load still asks for an expansion, so that no pair is stored with    *)
(* the new divisor before the old pairs are.  Lookups and removals in      *)
(* between do use it, and miss pairs.                                      *)
(***************************************************************************)
DivisorFits ==
  \/ mHashKey = HashKeyFor(mTableSize)
  \/ mHashKey = HashKeyFor(2 * mTableSize) /\ Loaded

(* Every pair is in the bucket that the right divisor gives its key, which *)
(* is where it is looked for while mHashKey is that divisor; and there is  *)
(* one pair per key.                                                       *)
WellPlaced ==
  /\ \A b \in DOMAIN mTable : \A i \in DOMAIN mTable[b] :
       mTable[b][i][1] % HashKeyFor(mTableSize) = b
  /\ \A p, q \in Stored : p[1] = q[1] => p = q
  /\ \A b \in DOMAIN mTable : Cardinality(ToSet(mTable[b])) = Len(mTable[b])
==============================================================================
