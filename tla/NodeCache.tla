------------------------------ MODULE NodeCache ------------------------------
(***************************************************************************)
(* The node cache of the B+ tree (XiaoDB/TreeNodeCacheManager.cpp): a hash *)
(* table from block numbers to nodes, and a list of the blocks used last,  *)
(* the latest first, that is never longer than MaxLUNCacheSize.  A node    *)
(* whose block is not in the list may be flushed.  The hash table is the   *)
(* one of module HashTable, with everything that can go wrong in it.       *)
(***************************************************************************)
EXTENDS SequencesExt, Integers

CONSTANTS Ids,              (* block numbers                               *)
          Nodes,            (* pointers to nodes                           *)
          MaxLUNCacheSize,  (* 500, or 5 in a debug build                  *)
          InitSize, SizeLimit, Failures   (* of the hash table             *)

ASSUME BlocksAssumption == Ids \subseteq Nat
ASSUME CacheSizeAssumption == MaxLUNCacheSize \in Nat \ {0}
ASSUME InitSizeAssumption == InitSize \in Nat /\ InitSize >= 2
ASSUME SizeLimitAssumption == SizeLimit \in Nat /\ SizeLimit > InitSize
ASSUME FailuresAssumption == Failures \subseteq {"array", "node", "rehash"}

VARIABLES mTable, mTableSize, mHashKey, mItemNum,  (* the hash table       *)
          call,                                    (* its last call        *)
          mLUNCache    (* the list, a sequence of [id |-> ..., ptr |-> ...] *)

mCacher == INSTANCE HashTable WITH Keys <- Ids, Values <- Nodes

tableVars == <<mTable, mTableSize, mHashKey, mItemNum, call>>
vars == <<mTable, mTableSize, mHashKey, mItemNum, call, mLUNCache>>

NULL == 0

Init == mCacher!Init /\ mLUNCache = <<>>

Listed == {mLUNCache[i].id : i \in DOMAIN mLUNCache}

(* The list without the entries of some blocks.                            *)
RemoveNodeFromLUNCache(list, ids) ==
  LET kept[n \in 0 .. Len(list)] ==
        IF n = 0 THEN <<>>
        ELSE IF list[n].id \in ids THEN kept[n - 1]
        ELSE Append(kept[n - 1], list[n])
  IN  kept[Len(list)]

(* Seeded fault: one entry too many is kept.                               *)
AddNodeIntoLUNCache_OneMore(list, id, node) ==
  LET longer == <<[id |-> id, ptr |-> node]>> \o RemoveNodeFromLUNCache(list, {id})
  IN  IF Len(longer) > MaxLUNCacheSize + 1 THEN SubSeq(longer, 1, MaxLUNCacheSize + 1) ELSE longer

(* A new entry in front, and as many entries as fit behind it.             *)
AddNodeIntoLUNCache(list, id, node) ==
  LET longer == <<[id |-> id, ptr |-> node]>> \o RemoveNodeFromLUNCache(list, {id})
  IN  IF Len(longer) > MaxLUNCacheSize THEN SubSeq(longer, 1, MaxLUNCacheSize) ELSE longer

(* AddNode, for a new block or one that is cached already.                 *)
AddNode(node, id) ==
  /\ mCacher!Insert(id, node)
  /\ mLUNCache' = IF call'[4] THEN AddNodeIntoLUNCache(mLUNCache, id, node) ELSE mLUNCache

(* Seeded fault: a node that is not in the list stays in the hash table.   *)
RemoveNode_IfListed(id) ==
  /\ IF id \in Listed THEN mCacher!RemoveKey(id) ELSE UNCHANGED tableVars
  /\ mLUNCache' = RemoveNodeFromLUNCache(mLUNCache, {id})

RemoveNode(id) ==
  /\ mCacher!RemoveKey(id)
  /\ mLUNCache' = RemoveNodeFromLUNCache(mLUNCache, {id})

(* The table after RemoveKey of the keys of some pairs, in their order.    *)
Unlinked(pairs) ==
  LET after[n \in 0 .. Len(pairs)] ==
        IF n = 0 THEN mTable ELSE mCacher!Unlink(after[n - 1], pairs[n][1])
  IN  after[Len(pairs)]

(* Clear calls RemoveKey for every key that is stored.  With a divisor     *)
(* that does not fit it empties the list, but takes from the table only    *)
(* what that divisor happens to find.  Size and counter stay in any case.  *)
Clear ==
  /\ mTable' = Unlinked(mCacher!AllPairs)
  /\ mLUNCache' = RemoveNodeFromLUNCache(mLUNCache, {p[1] : p \in mCacher!Stored})
  /\ call' = <<"clear">>
  /\ UNCHANGED <<mTableSize, mHashKey, mItemNum>>

Next ==
  \/ \E id \in Ids, node \in Nodes : AddNode(node, id)
  \/ \E id \in Ids : RemoveNode(id)
  \/ Clear

Spec == Init /\ [][Next]_vars

-----------------------------------------------------------------------------
CheckNodeExistance(id) == mCacher!CheckKey(id)

(* What GetNode may answer: the node in the one bucket that is searched,   *)
(* or NULL; anything, if that bucket lies outside the table.  It leaves    *)
(* the list alone.                                                         *)
GetNode(id) ==
  IF mCacher!Hash(id) \notin DOMAIN mTable THEN Nodes \cup {NULL}
  ELSE IF CheckNodeExistance(id) THEN {p[2] : p \in mCacher!InOneBucket(id)}
  ELSE {NULL}

(* Seeded fault: every cached node may be flushed.                         *)
GetToFlushNodes_All == {p[1] : p \in mCacher!Stored}

(* The cached blocks that are not in the list.                             *)
GetToFlushNodes == {p[1] : p \in mCacher!Stored} \ Listed

(* The state has its type.                                                 *)
TypeOK ==
  /\ mCacher!TypeOK
  /\ mLUNCache \in Seq([id : Ids, ptr : Nodes])
  /\ Len(mLUNCache) <= MaxLUNCacheSize
  /\ \A i, j \in DOMAIN mLUNCache : mLUNCache[i].id = mLUNCache[j].id => i = j
==============================================================================
