---------------------------- MODULE MCBPlusStore ----------------------------
(***************************************************************************)
(* Bounded instances of BPlusStore.  The history says what the callers     *)
(* know: what was committed last, whether a Commit has been interrupted    *)
(* since, what was ever inserted.                                          *)
(*                                                                         *)
(* SafeNext keeps to the uses of a reopened tree in which nothing is lost: *)
(* a leaf may split once the bitmap knows every block of the tree, that is *)
(* after a DumpTree, a file in pieces is only dumped, and what is written  *)
(* is counted as GetNode will count it.                                    *)
(***************************************************************************)
EXTENDS BPlusStore

VARIABLES saved, whole, known,
          trusted     (* the open tree does not come from a file in pieces  *)

history == <<saved, whole, known, trusted>>
mcvars == <<storeVars, history>>

MCInit == StoreInit /\ saved = {} /\ whole = FALSE /\ known = {} /\ trusted = FALSE

(* What a search for any key finds.                                        *)
InTree == Walk(View, {root} \cup IF Pending THEN {split.right} ELSE {})

Found == UNION {{<<k, Node(s).ent[k]>> : k \in KeysOf(Node(s))} : s \in {t \in InTree : Node(t).leaf}}

Open == pc \notin {"closed", "create"}

Stored == IF Open THEN Found ELSE {<<>>}

(* The leaf a search for k ends in, from each node of N.                   *)
Leads(N, k) ==
  LET from[s \in DOMAIN N] == IF N[s].leaf THEN s ELSE from[Child(N[s], k)]
  IN  from

LeafFor(k) == Leads(View, k)[root]

MapKnown == InTree \subseteq bitmap

(* One key may be given another value, once it is in the tree.             *)
Rewritten(k) == k = 2 /\ <<k, Least(Values)>> \in Found

MCRequest(k, v) ==
  /\ pc = "idle" /\ trusted
  /\ v = Least(Values) \/ Rewritten(k)
  /\ MapKnown \/ Node(LeafFor(k)).keyNum < MaxElements
  /\ Request(k, v)
  /\ known' = IF pc' = "descend" THEN known \cup {<<k, v>>} ELSE known
  /\ UNCHANGED <<saved, whole, trusted>>

AnyRequest(k, v) ==
  /\ pc = "idle" /\ trusted
  /\ Request(k, v)
  /\ known' = IF pc' = "descend" THEN known \cup {<<k, v>>} ELSE known
  /\ UNCHANGED <<saved, whole, trusted>>

MCOpen ==
  /\ OpenCreates \/ OpenFirst \/ OpenExisting \/ OpenFails
  /\ trusted' = (pc' = "idle" /\ (file # "headed" \/ whole))
  /\ UNCHANGED <<saved, whole, known>>

(* A node that counts one key too few is not read back whole.              *)
Exact == \A s \in DOMAIN nodes : nodes[s].keyNum = Cardinality(KeysOf(nodes[s]))

MCCommit ==
  \/ /\ trusted /\ freed = {} /\ Exact /\ CommitHeader
     /\ whole' = FALSE
     /\ UNCHANGED <<saved, known, trusted>>
  \/ /\ CommitReturns
     /\ saved' = Found /\ whole' = TRUE
     /\ UNCHANGED <<known, trusted>>
  \/ (CommitFails \/ \E s \in Slots : CommitNode(s)) /\ UNCHANGED history

MCStop == Stop /\ trusted' = FALSE /\ UNCHANGED <<saved, whole, known>>

MCRest ==
  /\ \/ InsertStep \/ LoadChild \/ LoadFails
     \/ freed = {} /\ \E lost \in SUBSET (DOMAIN blocks \ DOMAIN nodes) : Dump(lost)
  /\ UNCHANGED history

SafeNext ==
  MCOpen \/ MCCommit \/ MCStop \/ MCRest \/ \E k \in Keys, v \in Values : MCRequest(k, v)

SafeSpec == MCInit /\ [][SafeNext]_mcvars

(* Insertions whatever the bitmap knows.                                   *)
AnyNext == SafeNext \/ \E k \in Keys, v \in Values : AnyRequest(k, v)

AnySpec == MCInit /\ [][AnyNext]_mcvars

-----------------------------------------------------------------------------
(* The state has its type.                                                 *)
StoreTypeOK ==
  /\ file \in {"none", "empty", "headed"}
  /\ header \in [keyNum : 0 .. MaxKeyNum, root : Slots \cup {NoSlot}]
  /\ DOMAIN nodes \subseteq Slots /\ DOMAIN blocks \subseteq Slots
  /\ \A s \in DOMAIN nodes : KeysOf(nodes[s]) \subseteq Keys
  /\ \A s \in DOMAIN blocks : KeysOf(blocks[s]) \subseteq Keys
  /\ bitmap \subseteq Slots \cup {NoSlot}
  /\ DOMAIN nodes \subseteq bitmap
  /\ toWrite \subseteq DOMAIN nodes
  /\ freed \in {{}, DOMAIN nodes}
  /\ Open => root \in DOMAIN nodes

(* Insert, Commit, crash and reopening do to the pairs what DurableStore   *)
(* says: nothing inserted is lost by a step of an insertion or a load, a   *)
(* completed Commit is what the next Open finds, an insertion that fails   *)
(* changes nothing, and a file in pieces holds no pair of its own making.  *)
Durable == INSTANCE DurableStore WITH contents <- Stored
ImplementsDurable == Durable!Spec

(* A committed file can be read: Open finds the root, and every pointer on *)
(* the way from it to a leaf leads to a block of the file.                 *)
FileReadable ==
  whole /\ ~Open =>
    LET from[s \in DOMAIN blocks] ==
          LET b == GetNode(blocks[s])
          IN  b.leaf \/ \A c \in Pointers(b) : c \in DOMAIN blocks /\ from[c]
    IN  header.root \in DOMAIN blocks /\ from[header.root]

(* No block is used twice: two pointers of the tree never lead to the same *)
(* node, in the cache or in the file, and none leads back to the root.     *)
BlocksUsedOnce ==
  trusted /\ Open =>
    LET inner == {s \in InTree : ~Node(s).leaf}
    IN  /\ \A s \in inner : \A c \in Pointers(Node(s)) :
             /\ c # root
             /\ \A t \in inner : c \in Pointers(Node(t)) => s = t
        /\ \A s \in inner : Cardinality(Pointers(Node(s))) = Cardinality(KeysOf(Node(s))) + 1

(* "I use a bit map to indicate that whether a block is in use or not"     *)
(* (BTree.h): the block a split takes is in use nowhere in the tree.       *)
NewBlockUnused == [][pc = "descend" /\ pc' = "ascend" => split'.right \notin InTree]_mcvars
=============================================================================
