# everdb-native in TLA+

everdb-native is a storage engine in C: a file of 4096-byte blocks mapped into
memory, with transactions over the blocks (copy on write), and arrays and
B+ trees built from them. This directory holds TLA+ models of it, the TLC runs
that check them on small files, and proofs (TLAPS) of what matters most about
the transactions, the arrays on top of them, the hash table and the files. Source lines are given as `txn.c:226`, relative to `src/src/`.

## 1. The system

| part | state | operations | used by |
|---|---|---|---|
| io (`io.c`) | the file, its descriptor `h_file`, its mapping `db->data`, `filesize`, `nblocks` | open, close, resize (unmap, grow or cut, map) | freelist, txn (abort), edb |
| freelist (`freelist.c`, `math.h`) | an array of block numbers in block 1, or in block 2 inside a transaction | allocate (pop, or grow the file), free (push) | txn |
| txn (`txn.c`) | `db->txn`: the record `blocks` (block → ALLOCATED, FREED or the block it copies), the file size at the beginning | begin, allocate, modify, free, commit, abort | edb |
| mem_hash (`mem_hash.h`) | an open-addressing table u32 → u32 | set (resizes), get | txn |
| edb (`edb.c`) | `db->objlist` (block 3 or its copy), `txn_id`, the caller's object handles | open, close, the transaction and block API, the array API on handles | programs |
| array (`array.c`) | in its root block: items, length, item size; when large, a page table | init, resize, get, set, push, pop | edb, freelist |
| page tables (`page.c`) | 512 direct and 512 index slots, `nblocks` | resize block by block, read and write lookup | array |
| btree (`btree.c`) | nodes of 510 keys | set (split), pop (steal, merge), get, first, last, grow | its tests only |
| hash (`hash.c`) | a stub | - | - |

**How they interact.** Everything is one process and one thread; the calls nest:
`edb_array_push` → `obj_write` → `txn_modify_block` → `freelist_allocate_block`
→ `io_resize` → (back up) `array_push` → `page_resize` → `edb_allocate_block` → ...
The allocator's own list is an array in blocks that the allocator hands out, and
is itself copied on write. What the process shares with anything else is the
file: the next process to open it finds whatever was stored through the mapping.

**What is hard.**
* A call can fail in the middle (`io_resize` unmaps the file first), and what
  it had already changed must be consistent or be undone by an abort.
* The commit overwrites the committed roots in place, in several steps, driven
  by the order of a hash table.
* The same block number changes its meaning several times in a transaction.
* Handles cache a root across transactions.
* A copy on write gives a block a new number, which whoever names the block has
  to be told: the page table, the index block, the parent node, the handle.
* A growth maps the file anew, and pointers taken before it dangle.
* A process that is killed leaves a file in whatever state the stores had
  reached.

**What makes each part correct.**
* *io, opening and closing*: an open that does not overwrite keeps the file,
  a failed one closes what it opened, and nothing else; lists found on file are whole.
* *txn, freelist*: no block is in two places or in none; until the commit
  the committed state is untouched; an abort restores it exactly, also after
  an I/O error; a commit publishes everything or nothing.
* *mem_hash*: it is a map, and every search ends.
* *edb, small arrays*: a call changes the array it names and no other; what was
  committed is what is read; a handle finds its object or an error; a call that
  fails leaks no block.
* *page tables, large arrays*: no two positions lead to one block, none is
  lost; growing and shrinking keep the items that remain.
* *btree*: keys stay sorted, the parent's keys are the largest of its children,
  no node is shared or lost; it is a map.

## 2. The modules

| module | what it is |
|---|---|
| `Txn` | `txn.c`, `freelist.c`, the block API of `edb.c`, `io_resize` |
| `BlockStore` | abstract: a store of blocks with one transaction at a time |
| `TxnProofs` | the inductive invariant `IInv` of `Txn`, its proof and what follows, and that `Txn` implements `BlockStore` |
| `MemHash`, `U32Map` | `mem_hash.h`, any hash function, resize entry by entry; abstract: a map whose unset keys are 0 |
| `MemHashProofs` | proofs about it, with the arithmetic of its probes |
| `FileIo` | `io.c`, `edb_open`, `edb_init`, `edb_close`: files, descriptors, mappings |
| `FileIoCallers` | `FileIo` under callers that know less or more of its limits |
| `FileIoProofs` | proofs about the two |
| `Objects` | extends `Txn`: object list, handles, array API, `txn_id` |
| `ObjectStore` | abstract: a store of arrays with transactions and handles |
| `ObjectsProofs` | proofs about `Objects`, on top of `TxnProofs`; the proof that it implements `ObjectStore` |
| `Reopen` | extends `Objects`: close, open, and a process killed anywhere |
| `ReopenProofs` | proofs about it, on top of `ObjectsProofs` |
| `PageTable` | extends `Txn`: `page.c`, one step per call of the block API |
| `PageTableProofs` | proofs about `PageTable`, on top of `TxnProofs`; the proof that it implements `ListStore` |
| `LargeArray` | extends `PageTable`: `array.c`, small and large |
| `LargeArrayProofs` | proofs about `LargeArray`, on top of `PageTableProofs`; the proof that it implements `ListStore`, with items for pages |
| `ListStore` | abstract: a list inside transactions; page tables and arrays implement it |
| `BTree`, `KeyStore` | `btree.c`; abstract: a map inside transactions |
| `MC...` | starts, bounds and callers for TLC |

`Objects`, `PageTable` and `LargeArray` use the actions of `Txn` (each extends the
module and conjoins them with its own variables), so that the layers are one
state machine; `UsesTxn` says that the composition is a behaviour of
`Txn`, that is, that `edb.c` is one of the callers `Txn` is about (checked, and proved in `ObjectsProofs`). `Txn.blocks`
is the map that `MemHash` implements. `FileIo` stands beside them: `Txn` has one
database that is open, and asks what a resize does to its blocks; `FileIo` has several,
and asks what it does to the files.

### Txn

| TLA+ | code |
|---|---|
| `fsize`, `nblocks` | length of the file; `db->nblocks` and `db->filesize`, 0 when unmapped |
| `flist[1]`, `flist[2]` | the arrays in the two free-list blocks |
| `data` | what the other blocks hold |
| `freelist`, `objlist` | `db->freelist`, `db->objlist` |
| `txn`, `blocks`, `ts_nblocks` | `db->txn`, its hash table, `ts->nblocks` |
| `pc`, `todo` | `txn_commit_master`'s loop and the entries it has not visited |
| `live` | the blocks the caller holds: a history variable, no code reads it |
| `rc` | what the last call returned |

One action is one call, except that a commit is `CommitStart`, one
`CommitObjlist` or `CommitEntry` for each entry of the record, in any order, and
`CommitEnd`. (The order in the code is that of the hash values.) `ResizeFails` and
`AbortFails` are the failures of `io_resize`: the file may have grown or not.
`FreelistAllocate` gives block, list and size after `freelist_allocate_block`;
the CHECK after it and the stores it makes are conjuncts of `Take`.

The caller (`Next`) uses only blocks it holds, writes only to blocks it got in
the current transaction, and after an I/O error makes no call but the abort: any
other would read an unmapped file. Free list and object list fit in
their root blocks (`BlocksAssumption`: at most 1021 blocks past the roots).

### MemHash

`mem_hash_set` is `SetInPlace`, or `mem_hash_resize`, a `Move` for each old
entry, and `SetAfterResize`. The hash function is a variable that never
changes, any injective function into `HashValue`: the code's function is
invertible. Arithmetic is modulo `Width` (2^32 in the code, 256 in the run).

### FileIo

| TLA+ | code |
|---|---|
| `files[f]` | a file: its length in blocks (-1: none), whether its last block is whole, whether it holds the two lists |
| `fds[i]` | what descriptor `i` of the process is open on |
| `dbs[d]` | an `edb`: `h_file`, `readonly`, `nblocks` (0 when unmapped), transaction open, `ts_nblocks`; and, for the properties, the file and the flag the caller asked for |
| `rc` | what the last call returned; `SIGSEGV` when a store ended the process |

`open(2)` gives the lowest free descriptor; `O_CREAT`, `O_TRUNC`,
`posix_fallocate`, `ftruncate` and `mmap` do to `files` what they do to a file.
A process may find files of any length, of databases or of other programs. A size that
`io_resize` computes is in blocks modulo `Width`: `nblocks << 12` is a 32-bit number, so `Width` is 2^20 in
the code (4 GB); `nblocks` itself is not cut, and the sizes that `io_resize` refuses (2^32 - 256 blocks, 16 TB) are not reached.
`GrownSizes` is the step by which `freelist_allocate_block` grows. `IoOpenFails` and `InitFails` are the failures of `io_open` and of
`edb_init`, at every system call they make, and `CloseZero` and `CloseAgain` what
the error path of `edb_open` then does to the descriptors: `io_open` has cleared the structure, so
the second `io_close` closes descriptor 0. `io_resize` resizes whatever its
descriptor is open on by then. `BeginFaults` is a `txn_begin` whose copy of the free list
goes to a mapping that is read-only or shorter than four blocks.

`FileIoCallers` has five callers. *any* makes every call. *working* opens one database
at a time, for writing, overwrites every file that is not a database yet, and neither opens
nor grows a file to `Width` blocks or more: the only way of opening after which everything works. *long*, *writing* and *several* each
drop that last condition, and *writing* and *several* one more.

### Objects

A handle is `[obj_id, txn_id, root]`, as in the code. A call that makes several
calls of the block API takes one step for each, and `call` says where it is, since
each can fail: `CreateStart`, `CreateAllocate`, `CreateList`, `CreateInit` for
`edb_array_create`; `obj_write` and then `ApplyPush`, `ApplyPop`
or `ApplySet` for the others. `Put` stores wherever the code does, without
asking whether the block may be written: that is what `UsesTxn` is for.

The array API has three limits the code does not state, and a caller that keeps
within them is `Careful`: one handle per object; a handle through which an array of an earlier
transaction was changed is kept to the end of the transaction; and such a transaction is aborted,
never committed. `CarefulFewSpec` is that caller, before `txn_id` reaches its maximum.
`ImplementsObjectStore` lets off the step in which a set returns OK (`SetReturns`), for it
stores nothing; `Reopen` does without it (`NothingSet`). The configurations of section 3 that expect a violation drop these conditions
one at a time and show what happens.

### Reopen

`Kill` and `edb_close` end the process (`MemoryLost`); `edb_open` maps the whole
file. What was stored through the shared mapping is on file, in order: a kill
is modelled, a power failure, which is worse, is not. `leaked` is a history
variable: the blocks a killed transaction had grown the file by. `ReopenSpec` is a `Careful`
caller whose process may be killed at any step (`Gentle`) but in one window of the commit, `Torn`: between the
copy of the object list into block 3 and that of the free list into block 1, when the two
name the same blocks. `KilledFewSpec` has the kills of that window as well; the run
reopen_killed shows what they leave.

### PageTable

A block is a sequence of `2 * LEVEL_ONE` words (1024 in the code). Of a table's words the first
half are data blocks and the second half index blocks, and the last word,
which is the last index block's too, is the header, `nblocks`. `page_resize` takes one step per
call of the block API: `GrowDirect`, `GrowIndex` and `GrowSlot` going up,
`ShrinkSlot`, `ShrinkIndex` and `ShrinkDirect` going down; `Fails` returns from between any two of
them with what has been done so far. `page_write_host_index` is two steps, its own and
`WritePage`, the caller's store into the block it was given. `call` says which
function is in progress and with what arguments; `root` is the table the caller holds
and `savedRoot` the one of the last commit, as a handle and an object list would keep them.

The code does not finish its copy on write. Two callers follow from where it stops:
`WritesNewPages` (it stores only into pages that this transaction allocated) and
`TakesFromNewIndex` (it takes no page from an index block of an earlier
transaction). `Careful` is both.

### LargeArray

An array with no pages is small: its items are in the root. `array_resize` and
`array_push` start a resize (`small`, `large` or `pages`, after the case of `array_resize`)
that runs through the steps of `PageTable`; `SavesItems`, `PagesResized`, `FirstPage`
and `FillsFirstPage` are what `array_resize` does around them: the first page's items are set
aside and put back. `array_data` of a large array is `LookupIndex` and `LookupPage`,
and the item is got, stored or popped in the step of the second. `call` holds the
locals of the functions in progress (page, item, value, what is left to push, what
was set aside) and, for the refinement only, the array `before` the call: until a
call returns, what it does is not seen. `Dead` is the end of the process: `abort()` in
`array_data`, or a read through a pointer that was taken before a remapping.

An item is `ITEM` words, its first tells it from others. `CarefulArray` looks up
pages of its own transaction only (`LooksUpNewPages`), in a transaction (`ReadsInTransaction`), and
does not take pages from an old index block (`ShrinksNewIndex`). An array that becomes small again
gives up all its pages, so for it the last holds from the lookup on that sets its first page aside. Inside a
call nothing is asked: that the pages `array_resize` and `array_push` look up by themselves are new
is proved.

### BTree

A node is `[leaf, size, key, data]` with both lists `SIZE` entries long; entries
past `size` keep what was there, as in the code, and the word after the last key is
`data[0]`. The functions recurse, so each is an operator on the heap (the
blocks, and what the block API knows of them: `used`, `fresh`, `given`, `spare`)
that answers with the heap it leaves, the return code and `*value`; a call is one
step, for nothing runs beside it. `maps` counts how often the call remapped the file,
and `UsedAfter` notes where the code goes on using a pointer it took before.
`fault` names the first thing that went wrong in memory: `stale`, `overrun`, `no entry`. The caller
makes the root writable first, as `obj_write` does, and grows the tree when it is
full. `Careful` avoids keys that would fall in the middle of a node that has to be
split, and popping 0.

## 3. The runs

| run | cfg | bounds | shows |
|---|---|---|---|
| txn | `MCTxn.cfg` | 7 blocks, 2 payloads | `TypeOK`, `BlocksPartitioned`, `AbortIsSafe`, `ImplementsBlockStore`, `RecoversFromIoError` |
| objects | `MCObjects.cfg` | 7 blocks, 2 handles (symmetric), 2 items, 2 transactions | `ObjectsTypeOK`, `RootsAreHeld`, `UsesTxn`, `ImplementsObjectStore` |
| reopen | `MCReopen.cfg` | 11 blocks, 1 handle, a grown file at the start | `NothingShared`, `OpensWhole`, `SurvivesRestarts` |
| mem_hash | `MCMemHash.cfg` | 4 keys, tables of 3, 7, 13, `Width` 256 | `HashTypeOK`, `SearchesEnd`, `ImplementsMap` |
| file_io | `MCFileIo.cfg` | 2 files (symmetric), 2 databases, 3 descriptors, `Width` 7, a disk of 8 blocks, files of any length on it | `FileIoTypeOK`, `DescriptorsAreOwned`, `WorkingOpenIsWhole`, `OpenKeepsShortFile` |
| page_table | `MCPageTable.cfg` | 5 pages, `LEVEL_ONE` 2, 14 blocks, 2 transactions | `TableIsWhole`, `CommitFreesNoPage`, `CommittedUntouched`, `ImplementsListStore` |
| large_array | `MCLargeArray.cfg` | 4 items of 3 words, `LEVEL_ONE` 4, 3 pages, 2 transactions | `StaysAlive`, `ImplementsItemList` |
| large_array_abort | `MCLargeArrayAbort.cfg` | 5 items of 5 words on 5 pages, 2 transactions | `SavedItemsKept` |
| btree | `MCBTree.cfg` | nodes of 8 keys, keys 1 to 10, 12 blocks, 1 commit | `SearchTree`, `SearchesFind`, `NothingLeaks`, `ImplementsKeyStore` |
| objects_commit | `MCObjectsCommit.cfg` | as objects, 2 arrays | *violated*: `CommitKeepsArrays` |
| reopen_killed | `MCReopenKilled.cfg` | as reopen, kills anywhere | *violated*: `OpensWhole` |
| btree_set | `MCBTreeSet.cfg` | as btree, any key at any time | *violated*: `SearchesFind` |

**Why the bounds are enough.**
* *txn.* Seven blocks are three for the caller: enough for an
  original, its copy and a third block that makes the free list non-empty, and so
  for every state of a record entry to meet every other; growing past seven
  fails, so a full disk is among the states. The number of transactions
  is not bounded. A growth by two blocks needs eight; it is in the run reopen, and
  the theorems cover a growth by any number.
* *objects.* Three blocks are the copy of the object list and two arrays, or an array and
  the copy of its root; `txn_id` stays below `TxnIdMax` (`FewTransactions`), which leaves
  two whole transactions: one that creates arrays, and one in which the handles of
  the first are stale and an array of the first can be changed and the change
  aborted. Arrays hold two different items, so that a push, a pop or a get of the
  wrong one shows; index 1 is out of bounds, the last item, or absent, as lengths
  0 to 2 have it (index 0 is in the run reopen).
* *reopen* starts from the file that kills leave when they cut off the first
  transactions at seven blocks, so that growths add two; ten to eleven blocks then hold two lists and
  two arrays.
* *mem_hash.* Four keys take the table through sizes 3, 7 and 13; of the hash
  values 0, 21 and 91 any two collide in one or two of them, and from 252 and 255 the
  first few probes wrap. Keys are interchangeable, so one order of hash values stands for all.
* *file_io.* Two files and two databases are enough for a descriptor to be taken by another
  file, and for a database to be closed under another; three descriptors for the program's own, and for
  opening to run out of them. A process finds any files of up to eight blocks: shorter than `Width`, as long
  (a size that is computed as 0), and longer (one that is computed as 1). A new database has four blocks and grows
  to six for the caller *working*, which then stops short of `Width`; for *any* the next step is a size computed as 0. Each
  growth may also fail, as on a full disk.
* *page_table.* With `LEVEL_ONE` 2 five pages are two direct ones and three of the four
  of the first index block, so a resize goes through the levels in both directions and
  an index block is made, copied, kept and freed. The first transaction builds a table, the second
  changes a committed one and commits or aborts.
* *large_array.* Two items fit in a root and two on a page: four items are an array
  that is small, becomes large, needs a second page, and back. In *large_array_abort* an
  item fills a page, so that five items need an index block.
* *btree.* Ten keys are a leaf that overflows, is grown, and splits again; three nodes and a
  root, from which pops steal and merge on both sides. Twelve blocks are enough for the
  copies of all of them. Depth 3 needs about thirty keys; `MCBTreeMerge.cfg` reaches it,
  for one caller.

**Callers.** Runs of `FileIoCallers` and `BTree` start with any of several callers and keep
it, so that one run covers them all. What a caller avoids is what a violated run or
configuration below is about.

**Fairness.** Only `RecoversFromIoError` needs any: `WF_vars(txn_abort)`. It says that
the caller goes on calling the abort, the only call that can work, and that
`io_resize` does not fail for ever. Nothing in the engine runs by itself, so no
other fairness is justified, and no run has any. Only large_array_abort may deadlock: a process that has
died takes no step.

**What the properties say.**
* `BlocksPartitioned`: each block past the roots is exactly one of free, held by
  the caller, waiting for the commit, the copy of the object list; at every step
  of a transaction and of its commit.
* `AbortIsSafe`: while a transaction is open, block 1 and the caller's old blocks
  cover the old file exactly, also when an I/O error or a failed abort came
  between.
* `ImplementsBlockStore`: the refinement. The caller's blocks and what they hold
  are the working store; the committed store is what the record and block 3
  preserve. It says that the committed state is isolated, that a commit publishes
  all, and that an abort restores contents, not only block numbers.
* `RootsAreHeld`: the blocks the array API holds are the roots of the
  objects in the list, one each, also after a create that failed.
* `ImplementsObjectStore`: each call does to the named array what it says and
  returns what the arrays hold; stale handles and handles of objects that an
  abort removed included. `edb_array_set` is let off.
* `NothingShared`, `OpensWhole`, `SurvivesRestarts`: after any sequence of kills,
  closes and opens the lists are whole and the arrays are the committed ones;
  blocks leak only where a kill or an I/O error left the file longer than its lists.
* `ImplementsMap`: a get finds what the last set of its key stored, through
  every resize; a resize changes no key.
* `SearchesEnd`: every search ends, if only because the probe number wraps.
* `DescriptorsAreOwned`: however an open fails, each file that is still open
  belongs to a database that can be closed.
* `OpenKeepsShortFile`: opening without overwrite keeps a file with something in it,
  of whatever program, also when the open fails half way, as long as its size in bytes fits in 32
  bits. `OpenKeepsFile` says it of every file, and fails (`MCFileIoLong.cfg`).
* `WorkingOpenIsWhole`: for the caller *working*, whenever a database is mapped its descriptor is open on
  its file, the mapping is inside the file, and the file holds the two lists.
* `TableIsWhole`: between calls the blocks held are those of the table, no page
  is shared between two positions and none is lost, also after a resize that
  failed half way.
* `CommittedUntouched`, `CommitFreesNoPage`: an open transaction stores nothing in a block of the
  committed state; what a commit frees is no page of the table it commits.
* `ImplementsListStore`, `ImplementsItemList`: a page table is a list of pages and an
  array a list of items. A resize may take several steps, each of which is a
  growth, a shrinking or a stutter of the list of pages; for an array each call is one step.
* `StaysAlive`: no lookup of a careful caller fails, which would abort the process, or maps the
  file anew while `array_data` keeps a pointer. `MCLargeArrayRead` and `MCLargeArrayStale`, below, are about callers that are not.
* `SavedItemsKept`: whatever is done to a committed large array, pages it loses
  included, an abort has the old items to go back to.
* `SearchTree`, `SearchesFind`: nodes are sorted, of one depth and no fewer entries than they should, a
  parent's keys are the largest of its children; get, first and last find what the leaves hold.
* `NothingLeaks`: all blocks in use are of the tree or of the committed one, and the committed one
  is still complete.
* `ImplementsKeyStore`: a set or a pop changes one key, through every split, merge and
  copy; an abort brings the committed map back.

### What the violated properties show

1. `CommitKeepsArrays` (`edb.c:224`). A push to an array of an earlier transaction is
   visible until the commit, which frees the old root and leaves it in the
   object list. The tests commit an array only in the transaction that creates it.
2. `OpensWhole` under any kill (`txn.c:240`). Between the copies of the object
   list and of the free list the file has the one of the new state and the
   other of the old.
3. `SearchesFind` for keys in any order (`btree.c:212`). After a split the key is compared with the largest
   key before the split, so a key of the upper half goes into the lower
   one, and becomes its largest (`btree.c:217`). `btree_get` finds that key; what it no longer finds are the keys of the upper
   half that are smaller, for it looks for them in the lower one. The tests set keys in order, and then
   no key goes there.

### Other disagreements, to be replayed

Each of these configurations ends with a counterexample; `tlc -config <cfg> <module>`
shows it. The quotation is what the code does not do. Modules are the ones the names begin with:
`MCFileIo`, `MCObjects`, `MCMemHash`, `MCPageTable`, `MCLargeArray`, `MCBTree`.

| cfg | violated | the code | the repository says |
|---|---|---|---|
| `MCObjectsSet` | `SetSets` | `edb.c:303`: `edb_array_set` calls `array_get`, which overwrites the caller's buffer with the old item. | `test/test_array_api.cpp:51` 'modify it to 43'; the comparison holds because the buffer was overwritten |
| `MCObjectsWrap` | `OpenedHandleFindsRoot` | `edb.c:284`: -1 is a `txn_id` that `db->txn_id` reaches when it wraps; a handle opened then keeps root 0. Counted to 3. | `edb.c:283` 'set txn_id to invalid so that the root will be populated' |
| `MCMemHashShort` | `SearchesAreShort` | `mem_hash.h:96`: a table of p entries is let grow to (p + 1) / 2 keys, as many entries as the probe sequence visits before it wraps. With the code's own hash function and keys 2 and 4, which a first transaction sets, a search for block 7 takes 65537 probes. | `mem_hash.h:16` 'Fast u32->u32 in-memory hash table' |
| `MCFileIoReadOnly` | `ReadOnlyRefuses` | `edb.c:53`: `readonly = 0` is an assignment, so `db->readonly` is 0; `edb_txn_begin` goes on, and its copy into the read-only mapping ends the process. | `edb.c:35` 'open db as read-only; all write ops will fail' |
| `MCFileIoNew` | `OpensWithRoots` | `edb.c:53`: for the same reason a new file that is not to be overwritten keeps one block; `edb_txn_begin` reads past its end. | `io.c:88` 'new or overwritten file', and at `io.c:89` a commented-out 'edb_init(db);' |
| `MCFileIoZero` | `KeepsItsFile` | `io.c:103`: after a failed `io_open`, `edb_open` (`edb.c:72`) closes descriptor 0; it may be the file of another database. | `edb.c:33` 'open everdb database file `fname`' |
| `MCFileIoLong` | `OpenKeepsFile` | `io.c:163`: `io_open` resizes a file to the blocks it has (`io.c:76`, `io.c:83`), and `nblocks << BLOCK_BITS` is computed in 32 bits. For a file of 4 GB or more, of whatever program, that is less than its length, so `ftruncate` (`io.c:221-223`) cuts it to its size modulo 2^32; at an exact multiple it empties it, and the open fails as well. `Width` is 7 blocks instead of 2^20. | only overwriting destroys: `edb.c:38-39` 'existing db will be destroyed' |
| `MCFileIoWidth` | `GrowKeepsFile` | `io.c:163`: `nblocks << BLOCK_BITS` in 32 bits is 0 at 2^20 blocks, less than `filesize`: `ftruncate` empties the file. `Width` is 7 instead. | `io.c:160` refuses sizes only from 'nblocks >= 0xffffff00' on |
| `MCPageTableShrink` | `CommittedUntouched` | `page.c:145`: a slot of an index block is cleared before `edb_modify_block` copies the block. | `README.md:23` ticks 'Port array structs to use transactions' |
| `MCPageTableWrite` | `CommitFreesNoPage` | `page.c:67`: the copies that `page_write_host_index` makes (`page.c:75`, `page.c:79`) are stored in no table; the commit frees the originals, which the table still names. | the same line |
| `MCPageTableHeader` | `TableIsWhole` | `page.c:123`: the last index slot is the word of the header; the number of pages is taken for a block. `LEVEL_ONE` is 2 instead of 512. | `test/unit/test_page.cpp:59-62` 'causes an allocation of a 2nd-level page table' |
| `MCLargeArrayRead` | `StaysAlive` | `array.c:157`: a read looks the page up with `page_write_host_index`, which fails without a transaction, and calls `abort()`. | `test/test_array_api.cpp:61` 'no transaction - read only', and reads (an array that fits in its root) |
| `MCLargeArrayStale` | `StaysAlive` | `array.c:162`: the lookup may grow the file; `pt->item_size` is then read through the old pointer. So are `array_get`, `array_set`, `array_pop`. | `freelist.c:25-26` 'all local pointers need to be updated!' |
| `MCBTreeStale` | `PointersAreFresh` | `btree.c:190`, `btree.c:258`: `bt` and `b0` are used after the recursive call, which may have grown the file. | the same line, and `test/unit/edb_mock.h:25` 'TODO invalidate block here to test that old pointer isn't being reused' |
| `MCBTreeValue` | `PopGivesValue` | `btree.c:330`: when two children were merged and their parent is not underfull, `CHECK(r)` takes the error path and `*value` becomes 0. | `btree.c:243` and `btree.c:326` 'this is still success' |
| `MCBTreeMerge` | `MergesFit` | `btree.c:319`: the same return makes the grandparent merge children that are not underfull; together they need not fit in a block. | `btree.c:325-327` returns it only below `EDB_BTREE_SPLIT` |
| `MCBTreeZero` | `PopsEntries` | `btree.c:239`: popping 0 from an empty leaf finds the 0 behind the entries, and the size becomes 2^32 - 1. | `test/unit/test_btree.cpp:116` requires `EDB_ERROR_BTREE_INVALID_KEY` |

## 4. The proofs

| module | theorems | of | assuming |
|---|---|---|---|
| `TxnProofs` | `TypeCorrect`, `NoBlockLostOrShared`, `AbortAlwaysSafe`, `Refinement`: `Txn` implements `BlockStore` | `Spec` of `Txn` | `BlocksAssumption`: 4 to 1025 blocks; `ValueAssumption` |
| `FileIoProofs` | `FileIoTypeCorrect`, `DescriptorsOwned`, `OpenKeepsShortFiles` | `Spec` of `FileIo`: every call, every failure, files of any length | `FileIoAssumption`: a disk of at least five blocks and a `Width` of at least six; descriptors are numbers, 0 among them |
| `MemHashProofs` | `HashTypeCorrect`, `SearchesAlwaysEnd`, `MapRefinement`: `MemHash` implements `U32Map` | `Spec` of `MemHash` | `KeyAssumption`: finitely many keys, at most half as many as the largest table has entries; `WidthAssumption`: `Width` is a power of two, and four times every table that the keys may fill fits in it; `HashAssumption`, `ValueAssumption` |
| `ObjectsProofs` | `ObjectsUseTxn`, `RootsAlwaysHeld`, `ObjectsLoseNoBlock`, `ObjectsTypeCorrect`, `CarefulCommitKeeps` | `CarefulFewSpec` of `Objects` | also `ArrayAssumption`: an array that fits in a block still fits when its last item goes, and whether a list of blocks fits depends on its length; `HandleAssumption`, `TxnIdAssumption` |
| `ObjectsProofs` | `ArraysImplementStore`: `Objects` implements `ObjectStore`, a set that returns OK let off | the same | the same; a handle that names nothing is not a number (`HandleAssumption`) |
| `ReopenProofs` | `NeverShared`, `AlwaysOpensWhole`, `ArraysSurviveRestarts` | `ReopenSpec` of `Reopen`: a careful caller, kills at every step outside `Torn`; a set that returns OK is not taken | those of `ObjectsProofs` |
| `FileIoProofs` | `WorkingFindsWhole` | `CallersSpec`, the caller *working* | the same |
| `PageTableProofs` | `TableAlwaysWhole`, `CommitKeepsPages`, `CommittedStaysUntouched`, `TableIsList`: `PageTable` implements `ListStore` | `CarefulTableSpec` of `PageTable`: the caller is `Careful` | those of `Txn`; `PageTableAssumption`: a first level of more than one page, tables with fewer pages than there are blocks, and blocks of `2 * LEVEL_ONE` words, each a block number or payload; and `TableFits`, below |
| `LargeArrayProofs` | `ArrayIsList`: `LargeArray` implements `ListStore`; `SavedItemsStay`, `CarefulCallsReturn`; `LargeArrayInvariance` | `CarefulArraySpec` of `LargeArray`: the caller is a `CarefulArray` | those of `Txn` and `PageTable`; `ArrayAssumption`: an item fits in the root; and `ArrayFits`, below |

They hold for every number of blocks, handles, objects, items, files, databases, descriptors, pages and keys, and for
every hash function without collisions. 2^32 and any number of keys up to 3210341 meet the
assumptions on `MemHash`.

**Txn: why the invariant has to be stronger.** `BlocksPartitioned` is not
inductive. `IInv` says that no block is shared (`NoneShared`, `AbortKept`), and it is a property of
each step that none is lost (`NextIInv`: `LosesNone`): the blocks no list leads to (`Lost`) at its end were so at its
start. A new file has none lost, which gives `BlocksPartitioned` (`NothingLost`); a
file that kills have left with some, as `Reopen` opens it, loses no more. A commit entry pushes the original of a copy; that the original is
not on the list yet follows only if no two entries copy the same block
and no copied block is also FREED (`RecordOK`). A free of a copy writes FREED
over the entry of its original, so the original's entry must be unset. An
allocation overwrites the entry of the block it takes, so a block on the free list, or past the
end of the file, must have none. The end of a commit drops the record, so the copy of
the object list must have been visited (`Roots`: it is in `todo` while
`objlist` points to it). An abort cuts the file to `ts_nblocks`, so that must
never be below the blocks that block 1 and the old blocks cover (`Sizes`,
`AbortIsSafe`), and after a failed abort the caller is back to the old blocks
(`Roots`). `TxnProofs` names these parts; each action is a lemma
there, with the parts it can disturb as its steps.

**Txn: the refinement.** Each action maps to one abstract action or to a stutter: an
allocation to `Allocate`, a copy to `Modify` (the abstract store only knows that
the block is renamed), `CommitStart` to `Commit`, the steps of its loop to
stutters (what they give up is no longer in the store), `CommitEnd` to `End`, the first abort
to `Abort`, whether `io_resize` succeeds or not, and its repetitions to
stutters. The step that needs the invariant is the abort: `live' = Committed`
have the contents they had, since nothing wrote to a block outside the record.

**Objects: who knows where a root is.** `obj_write` tells the handle, and nobody else, that it has
copied a root, so while a transaction is open the object list may name the old block.
`RootsAreHeld` speaks of the latest copies, and what keeps it true is a pact between list and handles:
a handle that is not stale knows the latest copy of its object's root (`HandlesKnow`), and where a
root has been copied there is such a handle (`CopiesKnown`). One handle per object
makes the first inductive, keeping changed handles the second. A handle that looks fresh is of
this transaction (`HandlesOK`: an older one has a smaller `txn_id`, one just opened the
largest), so at a begin, a commit and an abort all become stale, and the list must be
right by itself: block 3 lists the blocks an abort falls back on (`OldHeld`), and a commit finds no copied
root (`CommitOK`), which is where the third condition of `Careful` is used. `CallOK` is what
the calls of several steps rely on between them: the new root is held, and not in
the list yet. With that, each step is one of `Txn` (`ObjectsUseTxn`), so the invariant of
`Txn` holds of `Objects` and need not be proved again; `ObjectsLoseNoBlock` is what
`NoBlockLostOrShared` says of arrays. `CarefulCommitKeeps` says that the caller is careful
enough: the property that `objects_commit` violates holds of it.

**Objects: the refinement.** The abstract arrays are what the object list leads to through the
latest copies while the database is open, and what block 3 leads to while a commit or an
abort is under way (`Latest`, `RootsIn`). The proof reads them as a function of list,
record and contents (`Shown`), which the invariant allows whenever the file is mapped
(`WorkingIs`), and has a lemma for each call. What carries them is: a write
changes one array, since no two roots have the same latest copy (`Apart`), and not the
committed ones, since it goes to no block of `Committed` (`SavedKept`); a copy changes no
array, since block and contents move together (`CopyShows`); a call answers for the object its
handle names, since the handle's root is that object's (`HandlesKnow`, `HandleArray`); a
create is not seen until its last step (`Unseen`), where the array is empty and the
handle's number is its place in the list (`CallOK`); at a commit the list has no copied root, so
publishing the blocks publishes the arrays.

**Reopen: what a kill leaves.** A process that opens a file has blocks 1 and 3 to go by, so the invariant
(`ReopenInv`) says what they are at every step, not only when they are read: no block twice, and all
blocks up to the end of the last committed file in them or in `leaked` (`FileWhole`). While a process runs this follows
from what an abort could fall back on anyway (`ReadyWhole`): a transaction stores in neither
block. A commit has to be followed step by step (`CommitWhole`, `CommitLeaves`): it pushes only on the
copy of the free list, and puts back the object list before the end, which is where
`Torn` begins; the end puts back the free list and closes the window. Growing the file before a kill
adds to what leaks and to nothing else (`CoveredGrows`, `Leaves`). The process that opens the file
then starts from everything the invariants of `Txn` and `Objects` ask for (`OpenedBlocks`,
`OpenedObjects`), although not with `Init`, which is why `IInv` must not say that nothing is lost. `Lost` stays within `leaked`,
since no step of `Txn` loses a block; hence `NothingShared`. For
`ArraysSurviveRestarts` a kill is the abstract `Restart`, since block 3 leads to the arrays of the last
commit at each step outside the window (`LeavesShow`), and the steps between are those of `ArraysImplementStore`.

**PageTable.** The invariant (`TableInv`) joins `IInv`, the invariant of `Txn`,
with two tables that are `Whole`: a root, pages and index blocks, no two of them the same
block, and nothing else. `Saved` says it of the committed table and the blocks an abort gives back
(`Committed`); `Work` of the table the caller works on and the blocks it holds (`live`).
`TableIsWhole` alone is not inductive, because it is silent inside a call: between the steps of a
resize the table has an index block for one page more than it has pages
(`Holds(N, N + 1)`, going up), or a page less than its header says (`Holds(N - 1, N)`,
going down, where the slot is cleared before the header is counted down), and
`Work` has a case for each. Each case also says which blocks are of this transaction
(`New`): the root and, going down, the index blocks still to be visited.
That is what keeps `Saved`: a block that is new is in no committed state, so storing in it cannot
change the saved table. `TakesFromNewIndex` and `WritesNewPages` are used there and nowhere else.
`Rest` says that root and saved root differ only inside a transaction.

The proof has three layers. The first is about two contents of the disk and knows no
transaction: what `Whole` is after a word is stored, a block added, copied
or taken away (`AddIndex` and its like), where `Places` does the arithmetic of `INDEX0` and `INDEX1` and
`Apart` says that two pages share a word of the table only if they share the index block. The second says what
an allocation, a copy and a free do to the record (`AllocatedFacts`, `CopiedFacts`,
`ReleasedFacts`, from the step lemmas of `TxnProofs`). The third has a lemma for each action, which puts
the two together and names the step of the list it is: growing a page is `Append`, clearing a slot
cuts the list, a copied index block changes nothing.

`TableFits` says that no index block's number goes into the word of the header: at most
`LEVEL_ONE + (LEVEL_ONE - 1) * INDEX_SIZE` pages. It is a hypothesis of the theorems and
not an assumption on the constants, since the code does not enforce it:
`MCPageTableHeader.cfg` is what happens without. With `LEVEL_ONE` 512 that is 523776 pages, and as the
free list of the model fits in one block (`BlocksAssumption`: 1025 blocks), it follows there
from `MaxPages < MaxBlocks`. That bound is one on names only: a header that counts pages is a
word like a block number.

**LargeArray.** The invariant (`ArrayInv`) has the shape of `TableInv`: `IInv`, a committed array
(`SavedArray`), one the caller works on (`ArrayWork`) and `Rest`. Both arrays are `Sound`: the array has room for its items (`Room`),
and is a root and no other block, or a table that is `Whole`. `ImplementsItemList` alone is
not inductive, because a call is not seen until it returns: `call.before` must be found again at the
end, in an array that was taken apart meanwhile. So `ArrayWork` has a case for each place a call
can be at, and it says where the items of `before` are. In a
resize from one number of pages to another they are in the pages (`PageItems`): pages are only added
behind them, and of those taken away the length, which is cut at the end, counts no item. On the way to
a small array and to a large one the first items are those set aside in `kept` (`KeptItems`), since the
pages go, or the root is zeroed, until `PagesResized` or `FillsFirstPage` brings them back.
Of a push `Pushes` says that what it has still to append goes behind the last.

A lookup is carried by `NewPage`: the page it is on its way to, and the index block before it, are
of this transaction. A caller's own lookups have that from `LooksUpNewPages`; of those that
`array_resize` and `array_push` make by themselves it is shown that they come after a resize that has allocated the page.
So `Modify` never copies in a lookup, `LookupFails` cannot happen, and no lookup remaps the file:
this is `CarefulCallsReturn`. What `page_resize` does to the table is taken from `PageTableProofs`,
whose lemmas about the table's steps allow words of the root that are not the table's own (`Spare`): in an
array they are its length and item size.

`ArrayFits` is for arrays what `TableFits` is for tables, and a hypothesis for the same reason: no index block's
number goes into the three words at the end of the root
(`MaxPages <= LEVEL_ONE + (LEVEL_ONE - HEADERS) * INDEX_SIZE`, 521728 pages in the code), a length
is a word, and the longest array fits in the longest table.

`ShrinksNewIndex` is stronger than it was before the proof: it used to leave out the resize to
a small array, which takes pages from the index blocks too, and by way of a lookup. The run could not
tell, as its tables end before the first index block.

**FileIo.** The invariant (`Inv`) is the type invariant and
`OpenFilesAreEven`: a file whose last block is not whole is never mapped. That
one is needed because a resize cuts or fills to whole blocks, so a file that is open
must not be one of those that `io_open` refuses. Files and `nblocks` may be
`Width` or more; what a type invariant needs of a size is that the part that is mapped was once on the disk
(`FileSize(nblocks) <= DiskSize`, in `DbOK`). `OpenKeepsShortFiles` needs nothing of the invariant but the types:
the file is resized to the size it has, since that size is computed right. The
invariant does not say that a database's descriptor is open on its file: that is
false (`MCFileIoZero.cfg`). For the caller *working* it is proved, in
`FileIoProofs`: with at most one database open (`OneOpen`) descriptor 0 is
never one of a database, so the second `io_close` does no harm; and `AllWhole` adds to
`OpenIsWhole` what an abort relies on, that the file covers `ts_nblocks` and has the lists while the
database is unmapped, and that both sizes are below `Width`, so that a resize computes the size it is asked for.

**MemHash.** Three facts carry the proof. *The probes reach every slot*
(`ProbesReachAll`): they add (i * i + i) / 2 to the hash value, and modulo a
power of two i * i + i takes every even value. That is proved by halving
(`HitsDouble`: if i hits 2t modulo n, then i or i + n hits it modulo 2n), and from there
to a table of any size it takes the room that `WidthAssumption` asks for. So a search ends while
the table has a gap (`Gap`, by the pigeonhole principle); this is the wrap at 2^32 at work, for the probes before it
reach only half of a table of prime size. *There is always a gap* (`Room`): between sets at most
half the entries, and one, are in use; in a resize the new table has room for the keys
moved and unmoved, and the new one, though it only compares with those moved. *A key is where a search finds it*
(`Reached`): the probes before it are of other keys, which no set removes. `Reached` is what makes
`ImplementsMap` inductive: without it a set might put in a key twice. Each step then
leaves the entries in use as they were (a resize and its moves: stutters), or changes the one of a key (`Live`).

**Only model-checked.** `RecoversFromIoError` (liveness is beyond the prover);
what `PageTable` and `LargeArray` do for callers that are not
careful (they violate properties, as section 3 lists; `SavedItemsKept` holds of such a caller too in the run large_array_abort); and `BTree`, whose functions are recursive operators, which the prover cannot take.

## 5. Not modelled

* The commit and abort of nested transactions (`txn.c:266-336`, `txn.c:373-392`):
  `txn_begin` refuses to open one (`txn.c:173`), so no run of the program gets
  there.
* The Windows branches: `txn.c` and `mem_hash.h` do not compile there.
* `hash.c`, a stub; types, logging and the text of the CHECK macros (their early
  returns are guards of the actions).
* A free list that outgrows its root block (`array.c:91`, `txn.c:226`): more than
  1021 free blocks. The allocator would allocate for itself while it moves its own
  list. It would take `LargeArray` on top of an allocator that is itself a `LargeArray`, with
  blocks too small for anything else to be checked in.
* Allocations that fail inside a call of `btree.c`: only an abort can follow, and
  what it restores is a matter of `Txn`. (In `page.c` and `array.c` they are
  modelled.)
* Power failures: nothing is synced (`io.c:236`), so any subset of the stores may
  be missing; the kill of a process, which keeps all of them, already shows
  the missing order.
* Two processes on one file: nothing locks it (`io.c:53`).

Assumed: the callers described in section 2, and lists that fit in their root
blocks.

What would come next: the free list that outgrows its block; and `btree.c` as functions instead of recursive
operators, at least for trees of bounded depth, so that it can be proved about.

## 6. Running it

    tlc -config MCTxn.cfg MCTxn
    tlapm TxnProofs.tla

and so on: the tables of section 3 name the configurations, and `PROJECT.json` the
module of each, the source lines of each definition, and for every
property a mutant of the code that violates it.
