------------------------------- MODULE Txn -------------------------------
(***************************************************************************)
(* The transactional block store of everdb-native: txn.c, freelist.c, the  *)
(* block API of edb.c and the part of io_resize they depend on.            *)
(*                                                                         *)
(* The file is an array of blocks mapped at db->data.  Blocks 1 and 2 hold *)
(* the free list (an array of block numbers), block 3 the object list,     *)
(* everything from EDB_USER_DATA on belongs to the caller or is free.      *)
(* A transaction works on a copy of the free list in block 2, copies a     *)
(* block before it is modified, and records each new block in ts->blocks.  *)
(* txn_commit_master walks that record one entry at a time, in the order   *)
(* of the hash table (any order, here); each entry is a step of the model. *)
(*                                                                         *)
(* The free list is modelled while it fits in its root block, which is     *)
(* what BlocksAssumption says: then array_push and array_pop touch that    *)
(* block only.  The caller is any program that uses blocks it holds        *)
(* (`live') and writes to a block it got in the current transaction.       *)
(***************************************************************************)
EXTENDS Integers, Sequences, SequencesExt

CONSTANTS
  MaxBlocks,    \* what the disk can hold, in blocks
  Value,        \* what the payload of a block may be
  Zero          \* the payload of a block the file system has just provided

EDB_FREELIST_PRIMARY == 1
EDB_FREELIST_SECONDARY == 2
EDB_OBJLIST == 3
EDB_USER_DATA == 4

\* (BLOCK_SIZE - sizeof(array_header) - sizeof(page_header)) / sizeof(u32)
FREELIST_SMALL_CAPACITY == 1021

ASSUME BlocksAssumption ==
  /\ MaxBlocks \in Nat
  /\ EDB_USER_DATA <= MaxBlocks
  /\ MaxBlocks <= EDB_USER_DATA + FREELIST_SMALL_CAPACITY

ASSUME ValueAssumption == Zero \in Value

\* States of ts->blocks: 0 when unset, otherwise a marker or the block that
\* the key is a copy of.  The code's markers are numbers no block can have.
ALLOCATED == -1
FREED == -2

\* Return codes.
OK == 0
EDB_ERR_TXN_NO_TRANSACTION == 2001
EDB_ERR_TXN_INVALID_BLOCK == 2003
EDB_ERR_TXN_NOT_IMPLEMENTED == 2099
LOGIC_ERROR == -1     \* txn_modify_block of a freed block
IO_ERROR == -9        \* any failure of io_resize

VARIABLES
  fsize,        \* length of the file, in blocks
  nblocks,      \* db->nblocks (and db->filesize); 0 when nothing is mapped
  flist,        \* the arrays held by the two free-list blocks
  data,         \* the payload of every other block
  freelist,     \* db->freelist
  objlist,      \* db->objlist
  txn,          \* db->txn # NULL
  blocks,       \* db->txn->blocks
  ts_nblocks,   \* db->txn->nblocks
  pc,           \* "commit" while txn_commit_master runs its loop
  todo,         \* the entries that loop has still to visit
  live,         \* the blocks the caller holds
  rc            \* what the last call returned

io == <<fsize, nblocks>>
disk == <<flist, data>>
state == <<txn, blocks, ts_nblocks>>
loop == <<pc, todo>>
vars == <<io, disk, freelist, objlist, state, loop, live, rc>>

Block == 0 .. MaxBlocks - 1
UserBlock == EDB_USER_DATA .. MaxBlocks - 1
FreeListRoot == {EDB_FREELIST_PRIMARY, EDB_FREELIST_SECONDARY}

Unset == [b \in Block |-> 0]
Mapped == nblocks > 0

(***************************************************************************)
(* The helpers of freelist.c and io.c.                                     *)
(***************************************************************************)

\* next_power_of_two(x): the least power of two above x.  The values x takes
\* here are block counts shifted right by three, so below 2^8.
next_power_of_two(x) ==
  CHOOSE p \in {1, 2, 4, 8, 16, 32, 64, 128, 256} :
     /\ x < p
     /\ \A q \in {1, 2, 4, 8, 16, 32, 64, 128, 256} : x < q => p <= q

\* (nblocks + step) & ~(step - 1)
GrownSize(n) ==
  LET step == next_power_of_two(n \div 8) IN step * ((n + step) \div step)

\* Mutant: the loop that fills the free list starts at the block it returns.
FreelistAllocateFirstTwice(list, n) ==
  IF list # <<>>
  THEN [block |-> Last(list), list |-> Front(list), nblocks |-> n]
  ELSE [block |-> n,
        list |-> [i \in 1 .. GrownSize(n) - n |-> n + i - 1],
        nblocks |-> GrownSize(n)]

\* What freelist_allocate_block does to the working free list: pop the last
\* block, or grow the file, keep its first new block and push the others.
FreelistAllocate(list, n) ==
  IF list # <<>>
  THEN [block |-> Last(list), list |-> Front(list), nblocks |-> n]
  ELSE [block |-> n,
        list |-> [i \in 1 .. GrownSize(n) - n - 1 |-> n + i],
        nblocks |-> GrownSize(n)]

\* The file after io_resize(db, n): it grows or is cut only when db->filesize
\* says so, and db->filesize is 0 after an earlier failure.
ResizedFile(n) ==
  IF nblocks < n THEN IF fsize < n THEN n ELSE fsize
                 ELSE IF nblocks > n THEN n ELSE fsize

\* Blocks past the end of the file read as zeroes when the file grows again.
Truncated(d, n) == [b \in Block |-> IF b < n THEN d[b] ELSE Zero]

(***************************************************************************)
(* What the record of a transaction means.                                 *)
(***************************************************************************)

IsCopy(k) == blocks[k] > 0

\* Blocks of the last committed state that the record gives up on commit.
Given(K) == {k \in K : blocks[k] = FREED}
              \cup {blocks[k] : k \in {j \in K : IsCopy(j)}}

\* The entries of the record that have not been acted on yet.
Waiting == IF pc = "commit" THEN todo ELSE Block

Pending == Given(Waiting) \ {EDB_FREELIST_PRIMARY, EDB_OBJLIST}

\* The caller's blocks in the last committed state.
Committed ==
  IF txn /\ pc = "ready" THEN {b \in live : blocks[b] = 0} \cup Pending
                         ELSE live

-----------------------------------------------------------------------------

\* edb_open with overwrite, and edb_init: four blocks, two empty arrays.
Init ==
  /\ fsize = EDB_USER_DATA
  /\ nblocks = EDB_USER_DATA
  /\ flist = [f \in FreeListRoot |-> <<>>]
  /\ data = [b \in Block |-> Zero]
  /\ freelist = EDB_FREELIST_PRIMARY
  /\ objlist = EDB_OBJLIST
  /\ txn = FALSE
  /\ blocks = Unset
  /\ ts_nblocks = 0
  /\ pc = "ready"
  /\ todo = {}
  /\ live = {}
  /\ rc = OK

\* A call the caller may make now: no other call is running.
Ready == pc = "ready"

\* A call inside a transaction that can reach the mapped blocks.
InTxn == Ready /\ txn /\ Mapped

txn_begin ==
  /\ Ready /\ ~txn
  /\ flist' = [flist EXCEPT ![EDB_FREELIST_SECONDARY] =
                                 flist[EDB_FREELIST_PRIMARY]]
  /\ blocks' = [Unset EXCEPT ![EDB_FREELIST_SECONDARY] =
                                 EDB_FREELIST_PRIMARY]
  /\ freelist' = EDB_FREELIST_SECONDARY
  /\ txn' = TRUE
  /\ ts_nblocks' = nblocks
  /\ rc' = OK
  /\ UNCHANGED <<io, data, objlist, loop, live>>

\* A second begin finds the working free list already copied and gives up.
txn_begin_nested ==
  /\ InTxn
  /\ rc' = EDB_ERR_TXN_NOT_IMPLEMENTED
  /\ UNCHANGED <<io, disk, freelist, objlist, state, loop, live>>

NoTransaction ==
  /\ Ready /\ ~txn
  /\ rc' = EDB_ERR_TXN_NO_TRANSACTION
  /\ UNCHANGED <<io, disk, freelist, objlist, state, loop, live>>

\* The part every successful allocation shares: block a.block leaves the
\* working free list, the file grows if it must, the record notes s.
Take(a, s) ==
  /\ a.nblocks <= MaxBlocks
  /\ flist' = [flist EXCEPT ![freelist] = a.list]
  /\ nblocks' = a.nblocks
  /\ fsize' = ResizedFile(a.nblocks)
  /\ blocks' = [blocks EXCEPT ![a.block] = s]
  /\ rc' = OK

\* io_resize fails while the free list is empty (it must when the disk is
\* full): nothing is mapped any more, and the file may or may not have grown.
ResizeFails ==
  /\ flist[freelist] = <<>>
  /\ nblocks' = 0
  /\ fsize' \in {fsize, ResizedFile(GrownSize(nblocks))}
  /\ fsize' <= MaxBlocks
  /\ rc' = IO_ERROR
  /\ UNCHANGED <<disk, freelist, objlist, state, loop, live>>

txn_allocate_block ==
  /\ InTxn
  /\ LET a == FreelistAllocate(flist[freelist], nblocks) IN
       /\ Take(a, ALLOCATED)
       /\ live' = live \cup {a.block}
  /\ UNCHANGED <<data, freelist, objlist, txn, ts_nblocks, loop>>

\* txn_modify_block of a block of the last committed state: copy on write.
CopyOnWrite(b, a) ==
  /\ blocks[b] = 0
  /\ Take(a, b)
  /\ data' = [data EXCEPT ![a.block] = data[b]]
  /\ UNCHANGED <<freelist, txn, ts_nblocks, loop>>

txn_modify_block(b) ==
  /\ InTxn
  /\ LET a == FreelistAllocate(flist[freelist], nblocks) IN
       /\ CopyOnWrite(b, a)
       /\ live' = (live \ {b}) \cup {a.block}
  /\ UNCHANGED objlist

\* edb_modify_block(db, db->objlist, &db->objlist), as obj_create calls it.
ModifyObjlist ==
  /\ InTxn
  /\ LET a == FreelistAllocate(flist[freelist], nblocks) IN
       /\ CopyOnWrite(objlist, a)
       /\ objlist' = a.block
  /\ UNCHANGED live

\* A block allocated or copied in this transaction is modified in place.
ModifyAgain(b) ==
  /\ InTxn
  /\ blocks[b] # 0 /\ blocks[b] # FREED
  /\ rc' = OK
  /\ UNCHANGED <<io, disk, freelist, objlist, state, loop, live>>

\* The working free list after freelist_free_block(b).
Push(b) == flist' = [flist EXCEPT ![freelist] = Append(@, b)]

\* Three kinds of block can be freed: a new one goes back to the free list
\* at once, so does a copy, whose original is then given up instead, and a
\* committed one waits for the commit.
FreeAllocated(b) ==
  /\ blocks[b] = ALLOCATED
  /\ blocks' = [blocks EXCEPT ![b] = 0]
  /\ Push(b)

\* Mutant: the original of a freed copy is forgotten.
FreeCopyOnly(b) ==
  /\ IsCopy(b)
  /\ blocks' = [blocks EXCEPT ![b] = 0]
  /\ Push(b)

FreeCopy(b) ==
  /\ IsCopy(b)
  /\ blocks' = [blocks EXCEPT ![b] = 0, ![blocks[b]] = FREED]
  /\ Push(b)

\* Mutant: a block of the committed state is reused before the commit.
FreeCommittedNow(b) ==
  /\ blocks[b] = 0
  /\ Push(b)
  /\ UNCHANGED blocks

FreeCommitted(b) ==
  /\ blocks[b] = 0
  /\ blocks' = [blocks EXCEPT ![b] = FREED]
  /\ UNCHANGED flist

txn_free_block(b) ==
  /\ InTxn
  /\ FreeAllocated(b) \/ FreeCopy(b) \/ FreeCommitted(b)
  /\ live' = live \ {b}
  /\ rc' = OK
  /\ UNCHANGED <<io, data, freelist, objlist, txn, ts_nblocks, loop>>

\* The two calls the record lets txn.c refuse.
FreeRefused(b) ==
  /\ InTxn
  /\ blocks[b] = FREED
  /\ rc' = EDB_ERR_TXN_INVALID_BLOCK
  /\ UNCHANGED <<io, disk, freelist, objlist, state, loop, live>>

ModifyRefused(b) ==
  /\ InTxn
  /\ blocks[b] = FREED
  /\ rc' = LOGIC_ERROR
  /\ UNCHANGED <<io, disk, freelist, objlist, state, loop, live>>

\* The caller stores into a block through db->data.
Write(b, v) ==
  /\ InTxn
  /\ blocks[b] # 0 /\ blocks[b] # FREED
  /\ data' = [data EXCEPT ![b] = v]
  /\ UNCHANGED <<io, flist, freelist, objlist, state, loop, live, rc>>

-----------------------------------------------------------------------------

\* txn_commit enters txn_commit_master: the checks pass, the loop starts.
CommitStart ==
  /\ InTxn
  /\ blocks[EDB_FREELIST_SECONDARY] = EDB_FREELIST_PRIMARY
  /\ pc' = "commit"
  /\ todo' = {k \in Block : blocks[k] # 0}
  /\ UNCHANGED <<io, disk, freelist, objlist, state, live, rc>>

Committing(k) == pc = "commit" /\ k \in todo /\ todo' = todo \ {k}

\* Mutant: the copy of the object list is freed, and not copied back.
CommitObjlistNoCopy(k) ==
  /\ Committing(k)
  /\ k # EDB_FREELIST_SECONDARY /\ k = objlist
  /\ Push(k)
  /\ objlist' = EDB_OBJLIST
  /\ UNCHANGED <<io, data, freelist, state, pc, live, rc>>

\* The copy of the object list goes back to block 3, and is freed.
CommitObjlist(k) ==
  /\ Committing(k)
  /\ k # EDB_FREELIST_SECONDARY /\ k = objlist
  /\ data' = [data EXCEPT ![EDB_OBJLIST] = data[objlist]]
  /\ Push(k)
  /\ objlist' = EDB_OBJLIST
  /\ UNCHANGED <<io, freelist, state, pc, live, rc>>

\* Mutant: the commit treats a freed entry as a copy.
CommitEntryNoFreed(k) ==
  /\ Committing(k)
  /\ k = EDB_FREELIST_SECONDARY \/ k # objlist
  /\ IF k = EDB_FREELIST_SECONDARY \/ blocks[k] = ALLOCATED
     THEN UNCHANGED flist
     ELSE Push(blocks[k])
  /\ UNCHANGED <<io, data, freelist, objlist, state, pc, live, rc>>

\* Other entries: an allocated block stays, a freed block is freed, and so
\* is the original of a copy.  The free list's own copy is left for the end.
CommitEntry(k) ==
  /\ Committing(k)
  /\ k = EDB_FREELIST_SECONDARY \/ k # objlist
  /\ IF k = EDB_FREELIST_SECONDARY \/ blocks[k] = ALLOCATED
     THEN UNCHANGED flist
     ELSE Push(IF blocks[k] = FREED THEN k ELSE blocks[k])
  /\ UNCHANGED <<io, data, freelist, objlist, state, pc, live, rc>>

\* After the loop the free list is copied back and the record dropped.
CommitEnd ==
  /\ pc = "commit" /\ todo = {}
  /\ flist' = [flist EXCEPT ![EDB_FREELIST_PRIMARY] = flist[freelist]]
  /\ freelist' = EDB_FREELIST_PRIMARY
  /\ txn' = FALSE
  /\ blocks' = Unset
  /\ ts_nblocks' = 0
  /\ pc' = "ready"
  /\ rc' = OK
  /\ UNCHANGED <<io, data, objlist, todo, live>>

\* Mutant: the abort keeps the copy of the object list.
AbortFreelistOnly ==
  /\ Ready /\ txn
  /\ freelist' = EDB_FREELIST_PRIMARY
  /\ live' = Committed
  /\ UNCHANGED <<flist, objlist, loop>>

\* txn_abort_master resets the two roots, then cuts the file back; the caller
\* falls back on the blocks it held before.
AbortRoots ==
  /\ Ready /\ txn
  /\ freelist' = EDB_FREELIST_PRIMARY
  /\ objlist' = EDB_OBJLIST
  /\ live' = Committed
  /\ UNCHANGED <<flist, loop>>

txn_abort ==
  /\ AbortRoots
  /\ nblocks' = ts_nblocks
  /\ fsize' = ResizedFile(ts_nblocks)
  /\ data' = Truncated(data, fsize')
  /\ txn' = FALSE
  /\ blocks' = Unset
  /\ ts_nblocks' = 0
  /\ rc' = OK

\* Mutant: the record is dropped before io_resize can fail.
AbortFailsLate ==
  /\ AbortRoots
  /\ nblocks' = 0
  /\ fsize' \in {fsize, ResizedFile(ts_nblocks)}
  /\ data' = Truncated(data, fsize')
  /\ txn' = FALSE
  /\ blocks' = Unset
  /\ ts_nblocks' = 0
  /\ rc' = IO_ERROR

\* io_resize fails inside the abort: the transaction stays open, unmapped.
AbortFails ==
  /\ AbortRoots
  /\ nblocks' = 0
  /\ fsize' \in {fsize, ResizedFile(ts_nblocks)}
  /\ data' = Truncated(data, fsize')
  /\ rc' = IO_ERROR
  /\ UNCHANGED state

Next ==
  \/ txn_begin \/ txn_begin_nested \/ NoTransaction
  \/ txn_allocate_block
  \/ ModifyObjlist
  \/ InTxn /\ ResizeFails
  \/ \E b \in live : \/ txn_modify_block(b) \/ txn_free_block(b)
                     \/ \E v \in Value : Write(b, v)
  \/ \E b \in live \cup {objlist} : ModifyAgain(b)
  \/ \E b \in UserBlock : FreeRefused(b) \/ ModifyRefused(b)
  \/ objlist # EDB_OBJLIST /\ \E v \in Value : Write(objlist, v)
  \/ CommitStart
  \/ \E k \in todo : CommitObjlist(k) \/ CommitEntry(k)
  \/ CommitEnd
  \/ txn_abort \/ AbortFails

Spec == Init /\ [][Next]_vars

-----------------------------------------------------------------------------
(***************************************************************************)
(* Properties.                                                             *)
(***************************************************************************)

Contents(B) == [b \in B |-> data[b]]

\* An abort whose io_resize failed has already reset the two roots.
Aborting == txn /\ freelist = EDB_FREELIST_PRIMARY

\* Every variable keeps the values the C declarations and the code's use of
\* them allow.
TypeOK ==
  /\ fsize \in EDB_USER_DATA .. MaxBlocks
  /\ nblocks \in 0 .. MaxBlocks
  /\ flist \in [FreeListRoot -> Seq(UserBlock)]
  /\ data \in [Block -> Value]
  /\ freelist \in FreeListRoot
  /\ objlist \in {EDB_OBJLIST} \cup UserBlock
  /\ txn \in BOOLEAN
  /\ blocks \in [Block -> {ALLOCATED, FREED} \cup Block]
  /\ ts_nblocks \in 0 .. MaxBlocks
  /\ pc \in {"ready", "commit"}
  /\ todo \subseteq Block
  /\ live \subseteq UserBlock
  /\ rc \in {OK, LOGIC_ERROR, IO_ERROR, EDB_ERR_TXN_NO_TRANSACTION,
             EDB_ERR_TXN_INVALID_BLOCK, EDB_ERR_TXN_NOT_IMPLEMENTED}

Disjoint(A, B, C, D) ==
  /\ A \cap B = {} /\ A \cap C = {} /\ A \cap D = {}
  /\ B \cap C = {} /\ B \cap D = {} /\ C \cap D = {}

Copied == IF objlist = EDB_OBJLIST THEN {} ELSE {objlist}

\* No block is handed out twice and none is lost: at every point of a
\* transaction and of its commit, a block past the roots is exactly one of
\* free, held by the caller, waiting for the commit to free it, or the copy
\* of the object list; and the free list names no block twice
\* (freelist_allocate_block, freelist_free_block, txn_free_block,
\* txn_modify_block, txn_commit_master).
BlocksPartitioned ==
  (Mapped /\ ~Aborting) =>
    /\ IsInjective(flist[freelist])
    /\ Disjoint(Range(flist[freelist]), live, Pending, Copied)
    /\ Range(flist[freelist]) \cup live \cup Pending \cup Copied
         = EDB_USER_DATA .. nblocks - 1

\* What txn_abort_master falls back on is whole while a transaction is open,
\* however the calls in it went and even when io_resize failed: block 1
\* still holds the old free list, and with the caller's old blocks it covers
\* the old file exactly.
AbortIsSafe ==
  (txn /\ pc = "ready") =>
    /\ IsInjective(flist[EDB_FREELIST_PRIMARY])
    /\ Range(flist[EDB_FREELIST_PRIMARY]) \cap Committed = {}
    /\ Range(flist[EDB_FREELIST_PRIMARY]) \cup Committed
         = EDB_USER_DATA .. ts_nblocks - 1

\* The refinement: the caller's blocks with their contents are the working
\* store; the committed store is what the record and block 3 preserve.
Phase ==
  IF ~txn \/ Aborting THEN "closed"
  ELSE IF pc = "commit" THEN "committed" ELSE "open"

CommittedRoot ==
  IF txn /\ pc = "ready" THEN data[EDB_OBJLIST] ELSE data[objlist]

Store == INSTANCE BlockStore WITH
  Id <- UserBlock,
  phase <- Phase,
  working <- Contents(live),
  committed <- Contents(Committed),
  root <- data[objlist],
  committedRoot <- CommittedRoot

\* txn.c implements the store: isolation of the committed state until the
\* commit, all-or-nothing publication, and exact restoration by an abort.
ImplementsBlockStore == Store!Spec

\* A caller that goes on calling txn_abort, and an io_resize that does not
\* fail for ever.
FairSpec == Spec /\ WF_vars(txn_abort)

\* After an io_resize that failed, in an allocation or in an abort, nothing
\* is mapped and no call but the abort can work; the abort can always be
\* tried again, and ends with the file mapped and no transaction open.
RecoversFromIoError == ~Mapped ~> (Mapped /\ ~txn)
=============================================================================
