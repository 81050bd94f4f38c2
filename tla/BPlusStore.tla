------------------------------ MODULE BPlusStore ------------------------------
(***************************************************************************)
(* The B+ tree with its file (class BPlusTree, XiaoDB/BTree.cpp): Open     *)
(* creates or reads the file, RecursiveInsert and DumpTree load the nodes  *)
(* they need into the cache, Commit writes the header and then every       *)
(* cached node, and the process may stop between any two writes.           *)
(*                                                                         *)
(* Insertion is that of module BPlusTree, where `nodes' is the cache.  The *)
(* cache is below MAX_CACHED_NODE_NUM, so that FlushCache is not called.   *)
(***************************************************************************)
EXTENDS BPlusTree

VARIABLES file,      (* "none", "empty" or "headed"                         *)
          header,    (* the key counter and the root offset in block 0      *)
          blocks,    (* the other blocks of the file, by their number       *)
          toWrite,   (* the cached nodes Commit has still to write          *)
          freed      (* the nodes of the cache that have been deleted       *)

disk == <<file, header, blocks>>
busy == <<key, val, cur, path, split, ret>>
storeVars == <<vars, disk, toWrite, freed>>

NoNodes == [s \in {} |-> EmptyLeaf]

(* A block that was skipped when the file grew: zero bytes, which read as  *)
(* an inner node without keys whose pointer leads to the header.           *)
ZeroBlock == [leaf |-> FALSE, ent |-> [k \in {} |-> NoSlot], last |-> NoSlot, keyNum |-> 0]

(* There is a lowest byte string.                                          *)
ASSUME StoreAssumption == (\E k \in Keys : \A q \in Keys : k <= q) /\ Values # {}

NoSplit == [key |-> Least(Keys), left |-> NoSlot, right |-> NoSlot]

(* A process without an open tree, and no file yet.                        *)
StoreInit ==
  /\ nodes = NoNodes /\ bitmap = {NoSlot} /\ root = NoSlot /\ mKeyNum = 0
  /\ pc = "closed"
  /\ key = Least(Keys) /\ val = Least(Values) /\ cur = NoSlot
  /\ path = <<>> /\ split = NoSplit /\ ret = TRUE
  /\ toWrite = {} /\ freed = {}
  /\ file = "none"
  /\ header = [keyNum |-> 0, root |-> NoSlot]
  /\ blocks = NoNodes

(* The process exits, on its own account or not: ~BPlusTree does nothing.  *)
Stop ==
  /\ pc # "closed"
  /\ nodes' = NoNodes /\ bitmap' = {NoSlot} /\ root' = NoSlot /\ mKeyNum' = 0
  /\ pc' = "closed"
  /\ key' = Least(Keys) /\ val' = Least(Values) /\ cur' = NoSlot
  /\ path' = <<>> /\ split' = NoSplit /\ ret' = TRUE
  /\ toWrite' = {} /\ freed' = {}
  /\ UNCHANGED disk

-----------------------------------------------------------------------------
(* Open on a path without a file creates it ...                            *)
OpenCreates ==
  /\ pc = "closed" /\ file = "none"
  /\ file' = "empty"
  /\ pc' = "create"
  /\ UNCHANGED <<nodes, bitmap, root, mKeyNum, busy, header, blocks, toWrite, freed>>

(* ... and writes a header before it knows the root: the root offset in it *)
(* is whatever the new object's memory held.                               *)
OpenFirst ==
  /\ pc = "create"
  /\ file' = "headed"
  /\ \E garbage \in Slots \cup {NoSlot} : header' = [keyNum |-> 0, root |-> garbage]
  /\ nodes' = [s \in {FirstSlot} |-> EmptyLeaf]
  /\ bitmap' = {NoSlot, FirstSlot}
  /\ root' = FirstSlot
  /\ pc' = "idle"
  /\ UNCHANGED <<mKeyNum, busy, blocks, toWrite, freed>>

(* GetNode of a block: its keys are counted while they are inserted.  A    *)
(* block whose counter is lower than its number of keys is read up to the  *)
(* counter, and the bytes that follow are taken for mPointer: no block.    *)
GetNode(b) ==
  LET first == {k \in KeysOf(b) : Cardinality(Below(KeysOf(b), k)) < b.keyNum}
  IN  [b EXCEPT !.ent = Keep(@, first), !.keyNum = Cardinality(first),
                !.last = IF first = KeysOf(b) THEN @ ELSE NoSlot]

(* Seeded fault: the bit of the root's block stays clear.                  *)
OpenExisting_NoBit ==
  /\ pc = "closed" /\ file = "headed"
  /\ header.root \in DOMAIN blocks
  /\ nodes' = [s \in {header.root} |-> GetNode(blocks[s])]
  /\ root' = header.root
  /\ mKeyNum' = header.keyNum
  /\ pc' = "idle"
  /\ UNCHANGED <<bitmap, busy, disk, toWrite, freed>>

(* Open of a file with a header and a root (CheckData, GetNode).           *)
OpenExisting ==
  /\ pc = "closed" /\ file = "headed"
  /\ header.root \in DOMAIN blocks
  /\ nodes' = [s \in {header.root} |-> GetNode(blocks[s])]
  /\ bitmap' = {NoSlot, header.root}
  /\ root' = header.root
  /\ mKeyNum' = header.keyNum
  /\ pc' = "idle"
  /\ UNCHANGED <<busy, disk, toWrite, freed>>

(* "Cannot find delimiter in header" or "Cannot initialize root".          *)
OpenFails ==
  /\ pc = "closed"
  /\ file = "empty" \/ (file = "headed" /\ header.root \notin DOMAIN blocks)
  /\ UNCHANGED storeVars

-----------------------------------------------------------------------------
Cached(s) == s \in DOMAIN nodes

(* A node as a search would find it: in the cache, or in the file.         *)
Readable == DOMAIN nodes \cup DOMAIN blocks

(* Seeded fault: the file is read although the node is in the cache.       *)
Node_FromFile(s) == IF s \in DOMAIN blocks THEN GetNode(blocks[s]) ELSE nodes[s]

Node(s) == IF Cached(s) THEN nodes[s] ELSE GetNode(blocks[s])

(* The steps of Insert that need no file.                                  *)
InsertStep ==
  /\ Cached(cur)
  /\ Step
  /\ UNCHANGED <<disk, toWrite, freed>>

(* RecursiveInsert reads the child it descends into.                       *)
LoadChild ==
  /\ pc = "descend" /\ ~Cached(cur) /\ cur \in DOMAIN blocks
  /\ nodes' = [s \in DOMAIN nodes \cup {cur} |-> Node(s)]
  /\ bitmap' = bitmap \cup {cur}
  /\ UNCHANGED <<root, mKeyNum, pc, busy, disk, toWrite, freed>>

(* The child cannot be read, because of its contents or of an I/O error:   *)
(* Insert returns false.  No node has been backed up or made yet, so that  *)
(* InsertRollback finds nothing to do.                                     *)
LoadFails ==
  /\ pc = "descend" /\ ~Cached(cur)
  /\ ret' = FALSE
  /\ pc' = "idle"
  /\ UNCHANGED <<tree, mKeyNum, key, val, cur, path, split, disk, toWrite, freed>>

(* The tree as a search would find it.                                     *)
View == [s \in Readable |-> Node(s)]

(* The nodes of N that lead from `start' to a leaf, and the leaves.         *)
Walk(N, start) ==
  LET below(S) == UNION {Pointers(N[s]) : s \in {t \in S : ~N[t].leaf}}
      reach[n \in 0 .. Cardinality(DOMAIN N)] ==
        IF n = 0 THEN start \cap DOMAIN N
        ELSE LET near == reach[n - 1] IN near \cup (below(near) \cap DOMAIN N)
  IN  reach[Cardinality(DOMAIN N)]

(* DumpTree loads every node it passes; `lost' are the blocks that it does *)
(* not get at: one it cannot read, its later siblings, and what is behind. *)
Dump(lost) ==
  /\ pc = "idle"
  /\ nodes' = [s \in DOMAIN nodes \cup Walk(Keep(View, Readable \ lost), {root}) |-> Node(s)]
  /\ bitmap' = bitmap \cup DOMAIN nodes'
  /\ UNCHANGED <<root, mKeyNum, pc, busy, disk, toWrite, freed>>

-----------------------------------------------------------------------------
(* Commit.  The header first.                                              *)
CommitHeader ==
  /\ pc = "idle"
  /\ header' = [keyNum |-> mKeyNum, root |-> root]
  /\ toWrite' = DOMAIN nodes
  /\ pc' = "commit"
  /\ UNCHANGED <<tree, mKeyNum, busy, file, blocks, freed>>

(* Seeded fault: the block of the root is left as it is.                   *)
CommitNode_ButRoot(s) ==
  /\ pc = "commit" /\ s \in toWrite
  /\ toWrite' = toWrite \ {s}
  /\ blocks' = [t \in DOMAIN blocks \cup {u \in Slots : u <= s} |->
                  IF t = s /\ s # root THEN nodes[s]
                  ELSE IF t \in DOMAIN blocks THEN blocks[t] ELSE ZeroBlock]
  /\ UNCHANGED <<tree, mKeyNum, pc, busy, file, header, freed>>

(* One cached node, dirty or not.  The order is that of the hash table.    *)
CommitNode(s) ==
  /\ pc = "commit" /\ s \in toWrite
  /\ toWrite' = toWrite \ {s}
  /\ blocks' = [t \in DOMAIN blocks \cup {u \in Slots : u <= s} |->
                  IF t = s THEN nodes[s]
                  ELSE IF t \in DOMAIN blocks THEN blocks[t] ELSE ZeroBlock]
  /\ UNCHANGED <<tree, mKeyNum, pc, busy, file, header, freed>>

(* A write fails: Commit returns false and deletes nothing.                *)
CommitFails ==
  /\ pc = "commit" /\ toWrite # {}
  /\ pc' = "idle"
  /\ toWrite' = {}
  /\ UNCHANGED <<tree, mKeyNum, busy, disk, freed>>

(* Everything is written.  The nodes are deleted and stay in the cache.    *)
CommitReturns ==
  /\ pc = "commit" /\ toWrite = {}
  /\ pc' = "idle"
  /\ freed' = DOMAIN nodes
  /\ UNCHANGED <<tree, mKeyNum, busy, disk, toWrite>>

-----------------------------------------------------------------------------
(* What the caller may ask of an open tree.  After a Commit the nodes are  *)
(* gone, and what a further call does is undefined.                        *)
Request(k, v) ==
  /\ freed = {}
  /\ InsertCall(k, v) \/ InsertFull
  /\ UNCHANGED <<disk, toWrite, freed>>

StoreNext ==
  \/ OpenCreates \/ OpenFirst \/ OpenExisting \/ OpenFails \/ Stop
  \/ \E k \in Keys, v \in Values : Request(k, v)
  \/ InsertStep \/ LoadChild \/ LoadFails
  \/ freed = {} /\ \E lost \in SUBSET (DOMAIN blocks \ DOMAIN nodes) : Dump(lost)
  \/ freed = {} /\ CommitHeader
  \/ \E s \in Slots : CommitNode(s)
  \/ CommitFails \/ CommitReturns

StoreSpec == StoreInit /\ [][StoreNext]_storeVars
==============================================================================
