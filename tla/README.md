# Formal models of CLPIM

CLPIM is a command-line personal information manager in C++: a main program that
loads plugins (a TODO list, an RSS reader), a small key-value store of its own
(XiaoDB, a B+ tree in a file), and a library of helpers (hash table,
reference-counted pointer, file handler, calendar, configuration, HTTP fetcher).

This directory holds TLA+ models of its parts, the TLC configurations that check
them on small instances, and TLAPS proofs of what holds for every instance.
References such as `XiaoDB/BTree.cpp:937` are relative to the source tree.

Contents: 1 inventory, 2 what is modelled, 3 correspondence with the code, 4 runs,
5 bounds, 6 fairness, 7 proofs, 8 where the code and its comments disagree,
9 what is not modelled, 10 plan.

## 1. Inventory

| Component | State | Operations | Talks to | What is hard |
|---|---|---|---|---|
| B+ tree (`XiaoDB/BTree.*`, `BTreeCommon.h`) | root, bitmap of blocks, key counter, node cache, set of dirty nodes, backups | `Open`, `Insert` (`RecursiveInsert`, `SplitBTreeNode`, `BTreeNodeInsertSplittedKey`), `GetNode`, `Commit`, `FlushCache`, `InsertRollback`, `DumpTree`, `Delete` (unfinished) | node cache, file handler | splits that cascade over several levels; counters kept beside the data they count; failures between two steps of an insertion; a process that stops during `Commit`; a bitmap that is rebuilt only as nodes are read |
| BST in a node (`BTree.cpp`, `BTreeCommon.h`) | binary search tree of byte strings, one pointer per key | `BSTInsertNode`, `SearchBST`, `GetBSTKeys`, `CopyBST`, `BitComparer` | B+ tree | order of byte strings, hand-written traversals, truncated comparison result |
| Node cache (`XiaoDB/TreeNodeCacheManager.*`) | hash table, recency list (LUN) | `AddNode`, `RemoveNode`, `Clear`, `GetNode`, `CheckNodeExistance`, `GetToFlushNodes` | hash table, B+ tree | list and table must agree; whom to evict |
| Hash table (`common/HashTable.hpp`) | array of chains, size, divisor, item counter | `Insert`, `ExpandHashTable`, `CheckKey`, `RemoveKey`, `GetAllKeys` | node cache | expansion re-enters `Insert`; allocations that fail half way; stale divisor |
| `SharedPtr` (`common/shared_ptr/*`) | raw pointer and shared counter per handle | constructors, destructor, `operator=`, `Reset`, `Unique` | parsers, threads | the counter is shared by threads; increments are not locked |
| File handler (`common/FileUtil.*`) | file offset, read-ahead buffer | `Open`, `Read`, `Read(offset)`, `ReadLine`, `ReadWord`, `Write`, `Seek` | B+ tree, subscriptions, configuration | buffer and file offset drift apart; reads that return less |
| Calendar (`common/calendar.h`) | instant, zone, date, time, week and week day | `UpdateTime`, `SetTimeZone`, setters | TODO list | carries across days, months and leap years, in both directions |
| Main loop and plugins (`bin/CLPIM.cpp`, `include/Task.h`, `common/ConfManager.*`) | loaded plugins, the words of the file `conf` | load, run, add, remove, save | plugins | a plugin that fails to load; configuration truncated and rewritten |
| RSS reader (`plugins/RSSReader/*`) | subscriptions and their file, the temporary file, the current document | import, list, view, `DumpSubs` | fetcher, feed parser, file handler | one parser object and one temporary file shared by all views, cut-off answers, files overwritten in place |
| HTTP fetcher (`common/net/*`) | one socket | one blocking GET | RSS reader | partial answers |
| Log, text, random, time | none others rely on | formatting and I/O | all | - |

What makes each correct:

* B+ tree: a map from keys to values whose update takes effect exactly once per
  call; every key is found by a search wherever splits have moved it; nodes are
  never over-full or under-full; the leaves form one ordered chain; what a
  completed `Commit` wrote is what the next `Open` finds, and no block serves two
  nodes.
* BST in a node: an ordered map from keys to pointers whatever the order of
  insertion; the search loop ends.
* Node cache: answers with the node added last for a block; what may be evicted is
  older than what the caller may still hold.
* Hash table: a map; every pair is in the bucket a lookup searches, unless an
  expansion has failed and not been repeated yet; then nothing may be lost.
* `SharedPtr`: an object lives exactly as long as it has handles.
* File handler: a sequence of reads, writes and seeks acts as on a file with one
  cursor.
* Calendar: local time is the instant in its zone, by the Gregorian calendar.
* Main loop and configuration: what a visit of the configuration menu makes of the list
  of plugins takes effect as a whole with the next start; a program that runs has loaded
  all it was configured to load.
* RSS reader: subscriptions survive restarts; the feed shown is the feed chosen.

The full list of hazards, each at its line with the properties that cover it or
the reason why none does, is under `hazards` in `PROJECT.json`.

## 2. What is modelled

| Module | Role |
|---|---|
| `BTreeNode` | one node of the B+ tree as a record; the pure functions on it: insertion into a leaf, into an inner node, the two kinds of split |
| `BPlusTree` | insertion into the whole tree, one action per activation of `RecursiveInsert`; invariants |
| `BPlusTreeDump` | the two ways the leaves are read: `DumpTree` and the leaf chain |
| `OrderedStore` | abstract: a map with calls that take effect once |
| `BPlusStore` | the tree with its file: header and blocks, `Open`, loading, `Commit` write by write, a process that stops anywhere |
| `DurableStore` | abstract: what is open, what was saved, and what an interrupted `Commit` may leave |
| `NodeBST` | the binary tree inside a node over byte strings: comparison, insertion, traversal, search loop, split, write and reload |
| `OrderedNode` | abstract: a node as an ordered map, with the functions of `BTreeNode` |
| `HashTable` | the hash table, with failing allocations |
| `KeyMap` | abstract: a map |
| `NodeCache` | the node cache: hash table and recency list |
| `SharedPtr` | handles, counters and objects in several threads |
| `FileHandler` | buffer, kernel offset and file; each `read(2)` a step |
| `PlainFile` | abstract: a file with one cursor and calls that return at once |
| `Calendar` | the fields of a `Calendar` object and the carries of `TimeAdjust` |
| `RSSReader` | the reader: subscriptions, their file, the viewing loops, temporary file and document |
| `CLPIM` | the main program, configuration and the reader as one process that restarts |
| `PluginList` | abstract: a list that a menu changes and the next start reads |
| `SubscriptionBook` | abstract: subscriptions in memory and saved |
| `MC*` | instances for TLC: values of constants, bounded drivers, histories, symmetry |
| `BPlusTree_proofs` | node lemmas, the inductive invariant of the tree, its refinement of `OrderedStore`, the leaf chain and the dump |
| `BPlusStore_proofs` | the tree with its file: invariant, blocks used once, committed files, refinement of `DurableStore` |
| `NodeBST_proofs` | the binary tree inside a node, its loops, and its refinement of `OrderedNode` |
| `SharedPtr_proofs`, `NodeCache_proofs`, `FileHandler_proofs`, `Calendar_proofs`, `CLPIM_proofs` | invariants and theorems of these components |

Composition: `BPlusTree` extends `BTreeNode`; `BPlusStore` extends `BPlusTree` (the
actions of an insertion are taken over, wrapped by the conditions of loading);
`NodeCache` uses `HashTable` as its table; `CLPIM` extends `RSSReader`. Refinements:
`BPlusTree` of `OrderedStore`, `BPlusStore` of `DurableStore`, `NodeBST` of
`OrderedNode`, `HashTable` of `KeyMap`, `FileHandler` of `PlainFile`, `CLPIM` of
`SubscriptionBook` and of `PluginList`. `OrderedNode` closes the gap between `NodeBST` and the tree: it
is the node as `BTreeNode`, and so `BPlusTree`, sees it.

## 3. Correspondence with the code

**B+ tree.** The node cache maps block numbers to nodes; while every node stays
in it, it *is* the tree (`nodes`). A node's BST is abstracted to the map it
stores (`ent`), because everything else reads it in key order (`GetBSTKeys`);
`last` is `mPointer`, `keyNum` is `mKeyNum` of the node. Keys are integers: only
their order matters. `RecursiveInsert` is a recursion; its local variables are
`cur`, the stack of waiting activations is `path`, and what a callee hands back
through `hasNewKey`, `newKey` and `ptrInfo` is `pc = "ascend"` and `split`.

| Action | Code |
|---|---|
| `Init` | `Open` on a path with no file |
| `InsertCall`, `InsertFull` | `Insert` up to the recursive call; the limit on `mKeyNum` |
| `Descend` | choice of the child: the pointer of the least greater key, or `mPointer` |
| `LeafInsert`, `LeafSplit` | leaf with room / full leaf: `SplitBTreeNode` |
| `InnerInsert`, `InnerSplit` | `BTreeNodeInsertSplittedKey` into a node with room / full node |
| `NewRoot` | `Insert` after a split of the root |
| `InsertReturn` | end of `Insert`, `mKeyNum` |

Two details are kept although they look odd. `SplitBTreeNode` does not count the
splitter it puts into a half of an inner node (`BTree.cpp:1107`), so `keyNum`
of an inner node may be one too low and the node may hold one key more than
`MAX_ELEMENT_NUMBER`. And the tree counts an update as a new key
(`BTree.cpp:457`).

**The file of the tree.** `BPlusStore` lets `nodes` be the nodes in the cache and
adds the file: `file` tells whether it exists and has a header, `header` is what
`DumpHeader` wrote, `blocks` what `DumpNode` wrote, `toWrite` the dirty nodes,
`freed` the nodes a `Commit` has deleted while they stay in the cache
(`BTree.cpp:1684`). After a `Commit` the code can only be stopped or reopened
without touching freed memory, and the model allows no other step.

| Action | Code |
|---|---|
| `OpenCreates`, `OpenFirst` | `Open` on a path with no file, in two calls |
| `OpenExisting`, `OpenFails` | `Open`: header, root; the bitmap is cleared and knows block 0 and the root |
| `LoadChild`, `LoadFails` | `GetNode` of a child that is not in the cache; the insertion fails, with nothing to undo yet |
| `Request`, `InsertStep` | `Insert` and the actions of `BPlusTree`, once the nodes they use are in the cache |
| `Dump` | `DumpTree`, which loads every node it can read |
| `CommitHeader`, `CommitNode`, `CommitFails`, `CommitReturns` | `Commit`: the header first, then the nodes in the order of the hash table, modelled as any order |
| `Stop` | the process ends at any step |

A write of a block takes place as a whole or not at all. `mEndian` is
never initialised (`BTree.h:429`); the model takes the value at which nothing is
swapped. A new header's root offset is read before it is set; a file on which no
`Commit` completed may therefore fail to open, which `OpenFails` allows.

`MCBPlusStore`'s `SafeNext` is the use in which nothing is lost: an insertion is asked for
when the leaf its key leads to has room or the bitmap knows every block of the tree (after a
`DumpTree`, say; `store_reopen` shows what happens otherwise), a file a `Commit` left in
pieces is only dumped, and a `Commit` starts when no node counts a key too few (`Exact`).

**A node's BST.** `NodeBST` models byte strings as sequences and comparison as
`BitComparer` does it: `memcmp` over the shorter length, then the lengths.
`ByteDifference` tells which `memcmp` is linked: one that answers with a sign, or one
that answers with a difference, which `int8` truncates (`BTree.cpp:747`). The nodes of
the BST are records with `left` and `right`; `GetBSTKeys` is the loop with its stack,
the descent of `RecursiveInsert` a loop of its own, step by step. A node written to
its block and read back is rebuilt by insertion in key order.

**Hash table and node cache.** A chain is a sequence of pairs. Each operation is one
step (the table has one user and no locks). `Insert` with the `ExpandHashTable` it
calls first, re-insertion included, is one step; the allocation of the larger array
and that of a chain's node may fail (`Failures`); the divisor has changed before the
former does. `call` holds the last call with its result, so that `KeyMap` can say
what each call must have done. `RemoveKey` of the first pair of a chain drops the
chain, as in the code. A lookup and `RemoveKey` search the one bucket that `mHashKey`
gives. After an expansion that failed this may be the wrong bucket, in which they find
nothing, or one outside the array; what the code reads there is undefined, and the
model lets `RemoveKey` find no chain there and `GetNode` answer anything. In `NodeCache`,
`mLUNCache` is the recency list: `AddNode` puts
a block at its head, `GetNode` leaves the list alone, `GetToFlushNodes` is what has
fallen off the list; `Clear` calls `RemoveKey` for every key stored. `MCNodeCache`'s
`SafeNext` leaves out what loses pairs that nobody removed, or keeps some that were
removed (removing the head of a longer chain; removing or clearing with a divisor that does
not fit the table), so that the rest can be shown to implement a map. It leaves out no
expansion that fails, and lookups are made in every state.

**File handler.** `offset` is the kernel's offset, `ahead` the characters between
`mBegin` and `mEnd`. A read is a call (`ReadCall`, `ReadAtCall`), any number of steps
that fill the empty buffer (`Refill`, with any number of characters from 1 to
`BufferSize`), take from it (`TakeCount`, `TakeToSeparator`), and the end of file or
a failure (`ReadEnds`, `ReadFails`). `Write` takes no notice of the buffer: behind a
read that has read ahead it writes at the kernel's offset, not at the cursor.
`SafeSpec` of `MCFileHandler` writes only with nothing read ahead, as all callers in the
code do (a `Seek` comes first), and completely. `PlainFile` has a read at the end of the file
return true, as the code does (section 8).

**Calendar.** One variable per field. `UpdateTime` reads an instant in UTC and applies
the zone; `TimeAdjust` carries hours into days, months and years, forwards and
backwards, and moves week and week day along. Setters keep their quirks: a value
out of range sets the field to a default, `SetMonth` does not cut the day to the new
month, `SetTimeZone` ignores a change from -12 to 12 or back. The instances of
`MCCalendar` leave out what takes the week day out of step (section 8). `gmtime` is
external: it gives an instant's date in UTC.

**Program.** `mode` is where the process stands: off, in the loop of `main`, in one of
the menus, in the middle of `DumpSubs` (`dump`) or of the rewriting of `conf.ini`
(`save`). `subFile` is a sequence of characters, overwritten from its beginning write
by write and never truncated; `tmpFile` a sequence of pieces of feeds, likewise. `Lines` splits a file as repeated
`ReadLine` does, one line after the other. Names and urls are texts that are not empty
(the importer drops such entries, `subscription_importer.cpp`) and hold no line end
(they are XML attributes, in which a parser turns line ends into spaces). A
fetch brings any prefix of a feed, also none. `View` ignores the result of `SetSource`
and shows whatever document the parser holds. The configuration file is a sequence of words, and `Init` has one that
a user wrote by hand (`FirstConf`). `ReadBack` is what the constructor of `ConfManager`
keeps of it: words of more than one character that do not begin with `#`. `main` then loads
the plugins one by one (`load`). Two sets tell apart what two places in the code look
at: `Installed` are the names for which the menu finds a file (`ConfManager.cpp:93`),
`Loadable` those whose file `dlopen` takes and in which `dlsym` finds a `Maker` and a
`Cleaner` (`CLPIM.cpp:62-88`). The first name that is not loadable ends the process
(`LoadFails`). The configuration file is truncated by
`fopen("w")` before its lines are written. The process may be killed in every
mode but `dump` under `Spec`, and also there under `CrashSpec`.

**SharedPtr.** A handle is a variable of class `SharedPtr`, an id stands for a
counter and the object allocated with it. One handle is shared by the threads and
copied from, each thread has a handle of its own. Constructors, destructor,
`operator=` and `Reset` are split at every access to the counter: between
copying the pointer and incrementing (`Copy`, `Inc`), between the decrement and
the deletes (`Dec`, `Delete`), between the release of the old object and the
attachment to the new one (`Attach`). With `SMP` the increment and the
decrement are a load and a store, since `LOCK_PREFIX` is empty
(`common/shared_ptr/atomic.h:13`). `SafeSpec` is the use the class supports
today: a non-empty shared handle, `Reset` by a sole owner, `operator=` between
pointers to different objects.

## 4. Runs

| Run | Instance | Shows |
|---|---|---|
| `tree_insert` | `MCBPlusTree`: 5 keys in every order with repetitions, and 12 keys in nearly ascending or descending order | the tree implements `OrderedStore`, with every call ending; key counts; a balanced search tree at every step, also between a split and its parent's update (`SearchTree`); the splitter is new to its parent; leaf chain complete in the middle of a split; the dump in key order |
| `store` | `MCBPlusStore`: 4 keys, insertion, `Commit`, reopening, stops and failures everywhere | the pairs behave as `DurableStore` says; a committed file can be read from root to leaves; no block is used twice, as long as a leaf splits only with a complete bitmap |
| `node_bst` | `MCNodeBST`: 5 byte strings, prefixes of one another and byte 255 | keys ascending and found, the descent ends, the node implements `OrderedNode` |
| `hash_map` | `MCNodeCache`: 4 blocks that collide, two expansions, failing allocations | the table implements `KeyMap`; expansions are not nested; the divisor fits or the next insertion expands; every pair is where the right divisor looks; lookups find what was added last, and after an expansion that failed miss it at worst (`FindsWhatWasAdded`); what may be flushed is older than what may not |
| `shared_ptr_up` | three threads on one processor | no use after free, no leak, exact counts |
| `shared_ptr_smp_one` | one thread, two-step increments | no leak |
| `file` | `MCFileHandler`: files of at most 4 characters, a buffer of 2 | the file handler implements `PlainFile`; what is read ahead is in the file; every read returns |
| `calendar` | `MCCalendar`: ends of days, months, years and leap years, 5 zones | local time is the instant in its zone; the week day moves with the date, up to whole weeks |
| `program` | `MCCLPIM`: a plugin that loads, one that does not and two words that are not read back, three subscriptions, two feeds, restarts | subscriptions survive (`ImplementsBook`); what the menu does to the list of plugins takes effect as a whole with the next start (`ImplementsList`); a document that becomes current is that of a subscription, and is shown for the one it belongs to (`DocumentIsOfChosen`) |
| `shared_ptr_race` | violation | lost increment, use after free |
| `store_reopen` | violation | a split after a reopen takes a block that is in use |
| `feed_view` | violation | a feed shorter than the one before does not parse, and the previous one is shown |

Every property of a passing run has a *seeded fault* that violates it: an operator such
as `View_NoReturn`, named for the fault, just before the definition (`View`) it would
replace. They are paired under `mutants` in `PROJECT.json`.

## 5. Bounds

* `MaxElements` = 3 for `MAX_ELEMENT_NUMBER`, 5 in debug builds and 80 otherwise.
  3 is the least value for which both halves of a split inner node keep a key
  (`BPlusTree` assumes `>= 3`); all branches of the split code depend on
  comparisons of positions only.
* `tree_insert`: a behaviour either uses the 5 least keys in any order, which
  reaches leaf splits, a root split and updates in a split leaf, or takes each key
  from a window of two that moves upwards or downwards over 12 keys, which reaches
  three and four levels: an inner node splits only when it already has 3 keys, and
  that takes 10 keys in order. `MaxKeyNum` = 11 calls that succeed.
* `Slots` stands for the bitmap, which the code extends by `BITMAP_EXPAND_SIZE`
  when it is full. The instances have enough slots for every split; a split waits
  (the tree would otherwise have to fail, see section 9) when there is none.
* `store`: 4 keys, 4 slots, 5 keys counted: one leaf split and root split, after
  which a commit, a stop and a reopening leave a tree of which parts are on file
  only. One key may change its value, so that old and new contents differ.
* `node_bst`: nodes of up to four keys (a full node and the new key), among them strings
  with a common prefix and bytes on both sides of 127.
* `hash_map`: initial size 2, limit 16 for 10000000, so that two expansions fit and the
  third is refused by its limit; the blocks are 0, 1, 3 and 6, of which 0, 3 and 6
  collide in a table of four. A recency list of 2, so that
  with 4 blocks two nodes can be flushed. The initial size is a small even value
  instead of the constructor's argument.
* `SharedPtr`: 3 threads and 4 ids (ids are never reused, so that a use after a
  delete is visible); symmetry over threads and ids, which only meet in equalities.
* `file`: `BufferSize` = 2 with files up to 4 characters and reads of 0, 1 and 3
  characters: a read needs a part of a buffer, exactly one, and more than one;
  positions 0, 1 and 5, the last behind the end.
* `calendar`: 9 instants in the hours around the ends of a day, a month, a common and a
  leap February and a year; `MaxMoves` = 2 changes of zone after another setter (with a
  day the month does not have, each may lead a day further), and `MaxWeek` = 13 because
  `SetDay` lets the week day grow without bound. It is the driver (`MCSet`) that stops it
  there; that `TypeOK` holds says nothing of the 0 to 6 the code expects.
* `program`: the words `rssreader` (loads), `todo` (installed, does not load), `x` (installed,
  one character) and `#todo`; the file begins as `#todo rssreader`, so that a comment is lost
  with the first change. Names of one and two characters, so that no offset of one entry is that of
  another; a feed of two pieces and one of one piece, of the kinds RSS and Atom, so that a
  longer feed's tail can follow a shorter one.

## 6. Fairness

* `BPlusTree!FairSpec` and `MCBPlusTree`: `WF_vars(Step)`. `Insert` blocks on nothing, it
  has no lock, no wait and no retry, so that once called each of its steps is taken.
* `MCFileHandler`: `WF_vars(Reads)`, the steps of a read that was called. `read(2)` on a
  file returns; that it reports the end of the file only there is in `ReadEnds`'s guard.
* `MCNodeBST`: `WF_vars(Loop)`, the steps of a loop without waiting.

There is none for callers, who may stop calling, nor for the user of the program.
`OrderedStore!FairSpec` correspondingly promises that a call that was made takes
effect and returns.

## 7. Proofs

`SharedPtr_proofs` proves, for every set of threads and ids with `~SMP`, that
`SafeSpec` implies `[]TypeOK`, `[]CountExact`, `[]NoUseAfterFree` and
`[]FreedWithLastHandle`. None of them is inductive alone. The invariant `SafeInv`
adds: a thread that waits for its increment does so for the object of `Global`
(`IncOfGlobal`), which keeps that object alive; a thread that is about to delete
an object is its last user (`LastAlone`); empty pointers share nothing
(`EmptyAlone`, `EmptyCount`); no id is used before it is born (`BornFirst`); and
no thread is between a load and a store (`Atomic`). One lemma per action shows
that it is kept; counting uses the cardinality theorems of `FiniteSetTheorems`.

`BPlusTree_proofs` first proves what the node operations return for every finite set of
integer keys: the splitter exists and halves the node (`SplitterExists`), a search
goes to one of the node's pointers (`ChildIs`, `ChildIsPointer`), two keys with the
same child are not separated by a key of the node (`NoSeparatorBetween`), what
insertion and the two splits make of keys, values, counters and pointers
(`LeafPutFacts`, `SplitLeafFacts`, `InnerPutFacts`, `SplitInnerFacts`,
`RootOverFacts`), and where each search goes afterwards (`Rerouted`).

It then proves, for every set of integer keys, every finite set of slots
and every `MaxElements >= 3`, that `Spec` implies

* `[]TypeOK` (`TypeCorrect`), `[]KeyCounts` (`CountsKept`) and
  `[]SplitterIsNew` (`SplitterNeverDuplicate`);
* `[]SearchTree` (`Searchable`): the tree is a balanced search tree in every state.
  `SearchTree` computes ranges and heights by recursion over the tree; the proof
  carries ranges `dom` and heights `hgt` along as witnesses, with `WellRanged(dom)`
  and `Leveled(hgt, dom)`, and shows that the recursion yields just these.

None of these is inductive alone. `TreeInv` adds: an inner node points to each child
once (`InnerDistinct`); the left half of a split is half full although it may still
be the root (`LeftKept`); `path` is the way from the root that a search for `key`
takes, ends at `cur`, and climbs one level per entry (`OnPath`, `Ranged`); the split
that waits is the one of `cur`; `key` lies in the range of `cur`; and the counter
has room for the running call (`Admitted`). Each action keeps the witnesses or
replaces them in one place; `mPointer` of every leaf leads to the leaf
with the next higher range (`Chained`), so that the chain is a statement about
neighbours, which a split disturbs in one place only (`ChainSplit`). A split shares
the range of a node out between its halves (`SplitRange`, `SplitHeight`, lemma
`SplitShares`), a new root takes all keys.
While a split waits, its two halves share the range their parent knows of (`Joint`);
`PendingParent` derives from this what the parent relies on: the splitter lies in
its range and is none of its keys (the left half holds a smaller key, which goes to
the same child), no other node points to the half, and after the insertion every
search goes to the half its key belongs to.

The same module proves `Spec => Store!Spec` (`InsertImplementsStore`), the
refinement of `ImplementsStore` without its fairness: leaves have height 0, so their
ranges are disjoint, so no leaf but `cur` holds `key` (`OneLeaf`); `LeafInsert` and
`LeafSplit` therefore overwrite that one pair (`ContentsReplaced`), and all other
actions leave the leaves alone or are the call and the return.

It also proves `[]ChainComplete` (`ChainHolds`) and `[]DumpInOrder`
(`DumpHolds`). From `Chained` every leaf but the last is followed by the next in
the order of ranges, so that the recursive walk from the leftmost leaf lists each leaf
once (`ChainIs`, by induction over the leaves before a leaf). The dump of a
node of height h lists the pairs of the leaves whose ranges lie in its own, in order
(`DumpIs`, by induction over h): the keys of an inner node separate what its children
list (`ListsJoin`, `Flattened`, `UnderInner`).

`BPlusStore_proofs` proves, for every set of keys with a least one, every finite set of
slots and every `MaxElements >= 3`, that `SafeSpec` of `MCBPlusStore` implies
`[]StoreTypeOK` (`StoreTyped`), `[]BlocksUsedOnce` (`BlocksOnce`), `[]FileReadable`
(`CommittedReadable`) and `ImplementsDurable` (`StoreIsDurable`). Not all of a reopened tree is
in the cache, so the invariant is about `View`, the map a search reads: the
cached node where there is one, and `GetNode` of the block elsewhere. The module instantiates
`BPlusTree_proofs` with `View` as its nodes and all readable blocks as its bitmap (`T`).
Each action of an insertion is then an action of that tree (`DescendMapped` to
`InsertReturnMapped`), so that `T!TreeInv` is kept by the theorem's own step lemma; loading
a node, dumping and writing one are stutters of it (`ViewLoad`, `WriteKeeps`), and an insertion that
fails to load a child abandons a call that has changed nothing (`Abandoned`). `StoreInv` adds
to it what this needs:

* the blocks that can be read have no gap below them (`Dense`), so that a block `Commit`
  writes never fills one up that the tree already uses;
* the bitmap marks no block but readable ones, and all of them before a leaf splits
  (`SplitSafe`: it follows the running call down, whose leaf has room otherwise), so that
  `GetNewNodeSlot` hands out the block it would with a complete bitmap (`SameFree`);
* while a `Commit` is under way the header is that of the tree, and what is not in
  `toWrite` is on file as it is in the cache (`Committing`);
* after one that returned, the file read block by block is a good tree whose pairs are
  `saved` (`Whole`, `GoodTree`): this is what the next `Open` starts from (`WholeTree`).

That a search finds every readable block of the tree (`AllInTree`) is by descent through the
heights; with it what is found are the pairs of the leaves (`FoundWhole`), and the
refinement goes step by step (`StepDurable`). One condition is explicit in
`MCCommit`: `Commit` starts when every cached node counts its keys exactly
(`Exact`). A node that counts one too few, as an inner split may leave
it, is not read back whole (section 8), and the theorems would be false of it; no state of the
run `store` has one, so that the run is the same with and without the condition.

`NodeBST_proofs` proves, for every finite set of byte strings, every set of slots and
every `MaxElements >= 3`, while `memcmp` answers with a sign (`~ByteDifference`: with the
difference of the bytes the properties are false, section 8), that `Spec` implies
`[]TypeOK` (`TreesTyped`), `[]KeysAscending` (`TraversalAscends`), `[]FindsStored`
(`SearchFinds`) and the safety part of `OrderedNode` (`NodeRefined`). It begins with the
order: `BitComparer` then computes the order of byte strings, and that order is total.
The inductive invariant `BSTInv` has the tree with a witness `dom`, the set of keys below
each BSTNode (`Shaped`: the left subtree has the smaller of them, the right one the
greater), the counter with the number of keys (`Counts`), and what the loop knows in the
middle of a descent (`Descends`, `Seeks`: the keys above `want` that are not below `ptr`
have `least` as their least). `Shaped` is what search, insertion and traversal
need: the place of a key is found by going down (`dom` gets smaller), a new BSTNode is
put there and joins the sets on its way, and one round of the traversal takes the
least key that is not in the vector yet, whatever the tree's shape, because the stack
holds the BSTNodes whose own turn is still to come. A half of a split is a tree
built key by key. For the refinement, each key is mapped to its
rank in the order of byte strings; `Less` on keys is `<` on ranks, so that the splitter,
the successor and the child of a search are the same on both sides.

`FileHandler_proofs` proves, for every buffer size, every file and every set of
counts, positions and texts, that `SafeSpec` implies `[]TypeOK`
(`FileTypeCorrect`), `[]AheadIsInFile` (`BufferInFile`) and that the handler
implements `PlainFile` (`FileImplementsPlain`). The invariant `FileInv` adds what a
read in progress has collected: `got` followed by `ahead` is what the file holds just
before the kernel's offset (`InFile`), and a word or line being collected has no
separator in it (`Asked`). The cursor of `PlainFile` is the offset less both; a step that
refills or takes moves characters between the three and so is a stutter (`Moving`), a
step that returns is the whole call of `PlainFile` (`EndIs`, `CountedIs`).

`Calendar_proofs` proves `LocalTimeIsRight`: for every set of instants and zones, as long
as only the clock and the zone have been set, the date exists, the local time is the
instant in the zone, and the week day is that of the date. The carries are
compared with a day number of the proleptic Gregorian calendar: lemmas on quotients
(`QuotientStep`), on the lengths of years and months, then that the day after and the
day before are right (`NextDayRight`, `DayBeforeRight`), and from these that
`TimeAdjust` is (`TimeAdjustRight`). For all setters it proves `[]TypeOK`
(`FieldsTyped`) and `[]WeekInStep` (`WeekKeepsStep`): whatever `SafeSpec` sets, the week day
and the day number of the date agree modulo 7. The loops of `SetYear` and `SetMonth`
add up to a difference of day numbers (`TotalIs`, `YearDaysRight`, `MonthDaysRight`),
also for a day the month does not have. `MCCalendar`'s `SafeSpec` leaves out the
calls that section 8 lists.

`NodeCache_proofs` proves, for every initial size, limit and length of the recency
list, and for the unrestricted `Spec` with unsafe removals and failing allocations,

* that the divisor is that of the table's size or the next `Insert` expands
  first (`DivisorAlwaysFits`), so that no `Insert` goes to a bucket outside
  the array (`InsertsStayInTable`); it says nothing of lookups and removals, which do
  leave the array while the divisor is stale (section 8);
* `[]TypeOK` (`CacheTypeOK`), `[]RehashFits` (`RehashAlwaysFits`: the expansion inside
  an `Insert` re-inserts what fits and does not expand again) and `[]WellPlaced`
  (`AlwaysWellPlaced`). `TableInv` bounds the load by the item counter and
  says that every pair is in the bucket that the divisor of the table's size gives; a
  rehash keeps both, by induction over the pairs that are re-inserted (`RehashKeeps`), and
  removals and `Clear` only take pairs out (`UnlinkKey`, `ClearedTable`).

For `SafeSpec`, which leaves out the removals of section 3, and as long as every pair that
an expansion re-inserts finds a node, it proves that `GetNode`
with the right divisor answers with what was added last, that after an expansion that
failed it answers with that or with `NULL` as long as it searches inside the table, and that
nothing is lost meanwhile (`CacheFindsWhatWasAdded`), that what may be flushed is older than what may not (`CacheFlushesOldest`), and that the table
implements `KeyMap` (`CacheImplementsMap`). `HistoryInv` relates the table and the
recency list to the history of the calls: the list is a prefix of the blocks
in the order they were last added.

`CLPIM_proofs` proves all four properties of the run `program`, for all first files,
plugins, names, urls and feeds:

* `ImplementsList` (`PluginsKept`), the refinement of `PluginList`. `ReadBack` keeps no
  ignored word, and reading what was read changes nothing (`ReadBackReads`,
  `ReadBackAgain`). `ConfInv` adds that outside the menu the list in memory and the file
  read back to the same, that a menu in which nothing was noted as changed has
  nothing to save, and that in the loop of `main` exactly the plugins that were read are
  loaded. It does not say that the configuration loads: it may not (section 8).
* `ImplementsBook` (`SubscriptionsKept`), the refinement of `SubscriptionBook`. Two facts
  about the file carry it. What `DumpSubs` writes into an empty file is what the
  constructor reads (`RoundTrip`): the file is the entries of the names in order
  (`Layout`), each of them read as two lines (`EntryLines`), which `Pairs` puts together
  again (`PairsIs`). And what it writes over an old file leaves none of it,
  because imports only add, so that the new file is at least as long (`Longer`).
  `BookInv` says so at every step: outside `DumpSubs` the file is that of a map of
  which the running reader has lost nothing; while it is rewritten it begins with the
  texts written so far and is no longer than the new file.
* `DocumentIsOfChosen` (`DocumentsShown`): what is in the temporary file after a fetch
  begins with the first piece of the feed just fetched (`FetchedIs`), so that no other
  feed parses from it (`DocumentIs`).
* `[]TypeOK` (`TypeCorrect`), from all three parts of `ProgramInv`.

What a recursive function of a model computes is proved in two steps: the function
exists (`RecursionExists`, `BackwardExists`: the recursion goes up or down the numbers),
so that the definition may be unfolded, and a fact holds for all its values because
there is no least number for which it does not (`LeastNumber`, `UpTo`). The induction
theorems of the library, which take an operator as a parameter, are not needed.

Assumptions used are those the modules declare: `KeysAssumption`,
`ValuesAssumption`, `StoreAssumption` (there is a lowest key), `SlotsAssumption`, `MaxElementsAssumption`,
`MaxKeyNumAssumption`, `IdsAssumption`, `ThreadsAssumption`, `HandlesAssumption`,
`NoIdAssumption`, `SizesAssumption`, `CallsAssumption`, `InstantsAssumption`,
`NamesAssumption`, `TextsAssumption`, `FeedsAssumption`, `DifferenceAssumption` and the like. TLC evaluates all of them in the runs.

Only model-checked: liveness (that calls of `Insert`, reads and descents end), since the
provers know no fairness; `SharedPtr` with two-step increments. The three disagreements of section 8 that runs
show are counterexamples, not theorems.

## 8. Where the code and its comments disagree

Three are shown by runs of section 4 and quoted under `findings` in `PROJECT.json`: the
unlocked increment of the shared counter (`common/shared_ptr/atomic.h:13`), the block
handed out twice after a reopen (`XiaoDB/BTree.cpp:304`), and the feed that is shown
under another's title (`plugins/RSSReader/FeedParser/feed_parser.cpp:51`).

The models keep the following as the code has it; the checked instances stay
away from them, or no property needs the contrary.

B+ tree:

* `SplitBTreeNode` does not count the splitter it puts into a half of an inner node
  (`BTree.cpp:1107`); the wrong count is written by the next `Commit`, and the last
  key is not read back. The tree counts an update as a new key (`BTree.cpp:457`), where
  `BTree.h:444` speaks of the number of keys.
* Keys longer than `MAX_KEY_LEN` (80) are accepted by `Insert` and refused by `GetNode`.
* `Commit` deletes the nodes it wrote and leaves them in the cache (`BTree.cpp:1684`);
  `RemoveRollback` deletes a node it has just put back (`BTree.cpp:1784`).
* The file of a tree of which no `Commit` completed may never open again.
* With a `memcmp` that answers with a difference, `int8` turns a greater key into a
  smaller or an equal one (`BTree.cpp:747`), `KeysAscending` fails with `ByteDifference`
  = TRUE, and the descent loop, which tests for 1, does not end for 2 to 127.

Hash table and cache:

* `RemoveKey` of the head of a chain drops the chain (`HashTable.hpp:152`).
* After an expansion that failed, lookups and removals use a divisor that does not fit
  (`HashTable.hpp:263`) until the next one succeeds: `CheckKey` misses what is stored,
  `RemoveNode` leaves in the table what its caller goes on to delete
  (`TreeNodeCacheManager.cpp:41`), `Clear` empties the recency list but takes from the table
  only what the wrong divisor happens to find (`TreeNodeCacheManager.cpp:114`), and a bucket
  outside the array may be read.
* A pair whose node cannot be allocated is dropped during an expansion
  (`HashTable.hpp:282`); `mItemNum` only grows (`HashTable.hpp:144`).
* `GetNode` does not refresh the recency list (`TreeNodeCacheManager.cpp:48`), where
  `TreeNodeCacheManager.h:109` promises it: the list is in order of insertion, which is
  what `FlushesOldest` states.

`SharedPtr`: assignment between handles that share their object
(`shared_ptr.hpp:105`), the assertion on the counters of empty handles
(`shared_ptr.hpp:23`, `:103`), and `Reset` of a shared object, which deletes it under the
other handles (`shared_ptr.hpp:154`).

File handler: a `Write` behind a read that has read ahead goes to the kernel's offset; a
short `write(2)` is reported as success (`FileUtil.cpp:60`); a failed `Read(offset)`
drops what was read ahead; a `Read` at the end of the file returns true, where
`FileUtil.h:65` and `:75` say false; `Open` does not
close the descriptor it had.

Calendar: `SetYear` in February counts the wrong leap days; `SetMonth` does not cut the
day to the month; `SetDay` does not reduce the week day modulo 7, so that one call
may leave the range 0 to 6 (`calendar.h:39`), with which `Print` and `Time` then index
`weekStr` (`calendar.h:425`, `:451`); with a day the
month does not have it sets the first while it counts to the other; `SetTimeZone` with a
zone out of range sets the zone to 0 and leaves the time, and ignores a change between
-12 and 12.

Program and RSS reader:

* A process killed in `DumpSubs` leaves a subscription file that is partly the old and
  partly the new one; under `CrashSpec` `ImplementsBook` fails.
* The file `conf` is truncated before it is written (`ConfManager.cpp:135`): a kill in
  between loses every plugin. `PluginList` allows that, there and nowhere else.
* `conf` is read word by word (`ConfManager.cpp:43`). Plugin names of one character, which the
  menu accepts, are not read back. `README.TXT:5-11` shows comment lines, but only words that
  begin with `#` are ignored: the other words of a comment are taken for plugins,
  and `main` exits. Comments are lost with the first change in the menu.
* The menu says of a plugin whose file it finds that it "has been installed successfully"
  (`ConfManager.cpp:99`). `main` exits at every start from then on if the library has no
  `Maker` or no `Cleaner` for `dlsym`, so that the menu, in which it could be removed, is not
  reached again. The TODO list is such a plugin: its `Maker` is a C++ function in a
  namespace (`TODOManager.cpp:28`), not `extern "C"`, and it has no `Cleaner`.
* Subscriptions are listed from 1 and opened from 0: the first cannot be opened as listed,
  and the last number is refused. Of the items of a feed,
  too, the one behind the one listed is read, and none is there for the last number.
* Atom and RDF feeds give no items although `feed_parser.h:39` lists them. After a
  non-number at "Enter item ID" the loop asks for ever.

## 9. What is not modelled

* `FlushCache`: it is first called after 10000 loaded nodes, and deletes nodes an
  activation may still hold. `InsertRollback` beyond the case in which nothing has to be
  undone, and failing allocations inside a split: `BPlusTree` and `BPlusStore` describe
  insertion while memory holds out. A block that is written in part.
* `Delete`: `RecursiveDelete` and `RemoveKeyFromBTreeNode` are unfinished and do not
  compile (`keySet[i].mValue` on a pointer).
* What the code reads outside the array of a hash table, where a divisor that does not fit
  may lead it: a removal finds nothing there, a lookup may answer anything.
* `Open` on a tree that is open (`BTree.cpp:261-275`): it commits and opens the other file
  with the same object, whose cache and root stay.
* A stop inside `DumpSubs` in a run: `CrashSpec` describes it, no property of the program
  survives it.
* Relative seeks; the folder functions of `FileUtil`; the plugins other than the RSS
  reader, of which only loading matters.
* XML, items and HTTP contents, the socket calls one by one, logging, formatting, text
  helpers.
* `plugins/RSSReader/xercesc`: vendored headers of Xerces-C, about 107000 of the 115000
  lines of the tree.

## 10. Plan

1. `BPlusStore` with a small cache: `FlushCache` during a descent, `InsertRollback` with
   backups and failing allocations.
2. Feeds of the kind "other" and a third plugin in the instance of the program.
