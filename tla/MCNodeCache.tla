----------------------------- MODULE MCNodeCache -----------------------------
(***************************************************************************)
(* Bounded instances of NodeCache over its hash table.  SafeNext leaves    *)
(* out three uses that lose pairs which nobody removed, or keep those that *)
(* somebody did: removing the head of a longer chain, and removing or      *)
(* clearing while the divisor does not fit the table, after an expansion   *)
(* that failed.  Lookups are made at any time.  The history `added' is     *)
(* what the callers of the cache know.                                     *)
(***************************************************************************)
EXTENDS NodeCache

VARIABLE added   (* entries added and not removed, the latest first        *)

mcvars == <<vars, added>>

MCInit == Init /\ added = <<>>

Others(id) == RemoveNodeFromLUNCache(added, {id})

MCAdd(id, node) ==
  /\ AddNode(node, id)
  /\ added' = IF call'[4] THEN <<[id |-> id, ptr |-> node]>> \o Others(id) ELSE added

MCRemove(id) == RemoveNode(id) /\ added' = Others(id)

MCClear == Clear /\ added' = <<>>

RightDivisor == mHashKey = mCacher!HashKeyFor(mTableSize)

Removable(id) ==
  /\ RightDivisor
  /\ LET chain == mTable[mCacher!Hash(id)]
     IN  chain # <<>> /\ chain[1][1] = id => Len(chain) = 1

SafeNext ==
  \/ \E id \in Ids, node \in Nodes : MCAdd(id, node)
  \/ \E id \in Ids : Removable(id) /\ MCRemove(id)
  \/ RightDivisor /\ MCClear

SafeSpec == MCInit /\ [][SafeNext]_mcvars

-----------------------------------------------------------------------------
(* The properties of the hash table, here of the one inside the cache.     *)
RehashFits == mCacher!RehashFits
DivisorFits == mCacher!DivisorFits
WellPlaced == mCacher!WellPlaced
Calls == INSTANCE KeyMap WITH Keys <- Ids, Values <- Nodes, map <- mCacher!Stored
ImplementsMap == Calls!Spec

(* What the callers of the cache expect GetNode to answer.                 *)
LastAdded(id) == {added[i].ptr : i \in {j \in DOMAIN added : added[j].id = id}}

(* With the right divisor GetNode answers with the node that the last      *)
(* AddNode gave the block, and NULL if there is none; after an expansion   *)
(* that failed it may also answer NULL for a node that is there, but with  *)
(* no node that was replaced or removed, and so deleted by its owner, as   *)
(* long as it searches inside the table.  What it misses is not lost: the  *)
(* next expansion, which comes with the next AddNode that finds memory,    *)
(* finds exactly the pairs added and not removed.                          *)
FindsWhatWasAdded ==
  /\ \A id \in Ids :
       /\ RightDivisor =>
            GetNode(id) = IF LastAdded(id) = {} THEN {NULL} ELSE LastAdded(id)
       /\ mCacher!Hash(id) \in DOMAIN mTable => GetNode(id) \subseteq LastAdded(id) \cup {NULL}
  /\ mCacher!Stored = {<<added[i].id, added[i].ptr>> : i \in DOMAIN added}

(* Every node that may be flushed was added before every node that may not *)
(* (FlushCache deletes the former while its caller still uses nodes it has *)
(* added most recently), and nothing in the list is out of the cache.      *)
FlushesOldest ==
  /\ Listed \subseteq {added[i].id : i \in DOMAIN added}
  /\ \A i, j \in DOMAIN added :
       added[i].id \in GetToFlushNodes /\ added[j].id \in Listed => j < i
==============================================================================
