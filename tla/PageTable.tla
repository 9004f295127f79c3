----------------------------- MODULE PageTable -----------------------------
(***************************************************************************)
(* The page tables of everdb-native (page.c) over the block store of Txn.  *)
(*                                                                         *)
(* A block is a sequence of 2 * LEVEL_ONE words.  As a page table its      *)
(* first half are data blocks, its second half index blocks, and its last  *)
(* word, which is also the last index block's, is the header: the number   *)
(* of pages.  An index block is 2 * LEVEL_ONE data blocks.  The payload of *)
(* a data block is its first word.                                         *)
(*                                                                         *)
(* page_resize takes one step for each call of the block API: each can     *)
(* fail, and page_resize then returns with what it has done so far.  The   *)
(* caller has one table, makes its root writable before it changes the     *)
(* table, as obj_write does, and keeps the root it was given.              *)
(***************************************************************************)
EXTENDS Txn

CONSTANTS
  LEVEL_ONE,    \* 512 in the code
  MaxPages,     \* the longest table the caller asks for
  Payload       \* what the caller stores in a page

\* The words of a block are block numbers, counts of pages, and payload.
ASSUME PageTableAssumption ==
  /\ LEVEL_ONE \in Nat /\ LEVEL_ONE > 1
  /\ MaxPages \in Nat /\ MaxPages < MaxBlocks
  /\ Payload \subseteq Nat
  /\ Value = [1 .. 2 * LEVEL_ONE -> Block \cup Payload]
  /\ Zero = [i \in 1 .. 2 * LEVEL_ONE |-> 0]

VARIABLES
  root,         \* the caller's table, 0 when it has none
  savedRoot,    \* the one in the last committed state
  call          \* where a call in progress is

table == <<root, savedRoot, call>>
tableVars == <<vars, table>>

Idle == [at |-> "idle"]
Between == call = Idle

INDEX_SIZE == 2 * LEVEL_ONE
INDEX0(i) == (i - LEVEL_ONE) \div INDEX_SIZE
INDEX1(i) == (i - LEVEL_ONE) % INDEX_SIZE

\* The words of a table: pt->data_blocks[i], pt->index_blocks[j], and the
\* words of an index block.
Direct(i) == i + 1
IndexSlot(j) == LEVEL_ONE + j + 1
Header == 2 * LEVEL_ONE
DataSlot(i) == INDEX1(i) + 1

\* pt->nblocks.
Pages(r) == data[r][Header]

IndexBlock(r, i) == data[r][IndexSlot(INDEX0(i))]

\* page_read_host_index, for an index below pt->nblocks.
HostBlock(r, i) ==
  IF i < LEVEL_ONE THEN data[r][Direct(i)]
                   ELSE data[IndexBlock(r, i)][DataSlot(i)]

-----------------------------------------------------------------------------
(***************************************************************************)
(* The block API, followed by stores that turn the blocks' contents d into *)
(* D(b, d), where b is the block the call returned.                        *)
(***************************************************************************)

Allocate(D(_, _)) ==
  LET a == FreelistAllocate(flist[freelist], nblocks) IN
    /\ InTxn
    /\ Take(a, ALLOCATED)
    /\ live' = live \cup {a.block}
    /\ data' = D(a.block, data)
    /\ UNCHANGED <<freelist, objlist, txn, ts_nblocks, loop>>

Modify(b, D(_, _)) ==
  /\ InTxn
  /\ UNCHANGED <<freelist, objlist, txn, ts_nblocks, loop>>
  /\ \/ /\ blocks[b] \notin {0, FREED}
        /\ data' = D(b, data)
        /\ rc' = OK
        /\ UNCHANGED <<io, flist, blocks, live>>
     \/ /\ blocks[b] = 0
        /\ LET a == FreelistAllocate(flist[freelist], nblocks) IN
             /\ Take(a, b)
             /\ live' = (live \ {b}) \cup {a.block}
             /\ data' = D(a.block, [data EXCEPT ![a.block] = data[b]])

Release(b, d) ==
  /\ InTxn
  /\ FreeAllocated(b) \/ FreeCopy(b) \/ FreeCommitted(b)
  /\ live' = live \ {b}
  /\ data' = d
  /\ rc' = OK
  /\ UNCHANGED <<io, freelist, objlist, txn, ts_nblocks, loop>>

Same(b, d) == d

Goes(to) == call' = [call EXCEPT !.at = to]

-----------------------------------------------------------------------------
(***************************************************************************)
(* page_resize.                                                            *)
(***************************************************************************)

N == Pages(root)

\* Mutant: it does not make the root writable.
ResizeInPlace(n) ==
  /\ Between /\ InTxn /\ root # 0
  /\ n # N
  /\ call' = [at |-> "resize", n |-> n]
  /\ UNCHANGED <<vars, root, savedRoot>>

\* The root is writable, so the edb_modify_block it begins with does nothing.
page_resize(n) ==
  /\ Between /\ InTxn /\ root # 0
  /\ blocks[root] \notin {0, FREED}
  /\ n # N
  /\ call' = [at |-> "resize", n |-> n]
  /\ UNCHANGED <<vars, root, savedRoot>>

Resizing == call.at = "resize"

GrowDirect ==
  /\ Resizing /\ N < call.n /\ N < LEVEL_ONE
  /\ Allocate(LAMBDA b, d :
       [d EXCEPT ![root][Direct(N)] = b, ![root][Header] = N + 1])
  /\ UNCHANGED table

\* Mutant: a copied index block is not stored in the table.
GrowIndexKept ==
  /\ Resizing /\ N < call.n /\ N >= LEVEL_ONE
  /\ \/ IndexBlock(root, N) = 0 /\ Allocate(LAMBDA b, d :
          [d EXCEPT ![root][IndexSlot(INDEX0(N))] = b])
     \/ IndexBlock(root, N) # 0 /\ Modify(IndexBlock(root, N), Same)
  /\ Goes("slot")
  /\ UNCHANGED <<root, savedRoot>>

\* The index block, new (and not cleared) or copied, is stored in the table.
GrowIndex ==
  LET Stored(b, d) == [d EXCEPT ![root][IndexSlot(INDEX0(N))] = b] IN
    /\ Resizing /\ N < call.n /\ N >= LEVEL_ONE
    /\ \/ IndexBlock(root, N) = 0 /\ Allocate(Stored)
       \/ IndexBlock(root, N) # 0 /\ Modify(IndexBlock(root, N), Stored)
    /\ Goes("slot")
    /\ UNCHANGED <<root, savedRoot>>

\* Mutant: data_index is 0.
GrowFirstSlot ==
  /\ call.at = "slot"
  /\ Allocate(LAMBDA b, d :
       [d EXCEPT ![IndexBlock(root, N)][1] = b, ![root][Header] = N + 1])
  /\ Goes("resize")
  /\ UNCHANGED <<root, savedRoot>>

GrowSlot ==
  /\ call.at = "slot"
  /\ Allocate(LAMBDA b, d :
       [d EXCEPT ![IndexBlock(root, N)][DataSlot(N)] = b,
                 ![root][Header] = N + 1])
  /\ Goes("resize")
  /\ UNCHANGED <<root, savedRoot>>

\* The last page is freed, and its slot cleared where it is: in a block of
\* the committed state, when this transaction has not copied it yet.
ShrinkSlot ==
  /\ Resizing /\ N > call.n /\ N > LEVEL_ONE
  /\ Release(HostBlock(root, N - 1),
       [data EXCEPT ![IndexBlock(root, N - 1)][DataSlot(N - 1)] = 0])
  /\ Goes("cleared")
  /\ UNCHANGED <<root, savedRoot>>

\* Mutant: an index block whose last page has gone is kept.
ShrinkIndexKept ==
  LET i == N - 1
      Stored(b, d) == [d EXCEPT
        ![root][IndexSlot(INDEX0(i))] = IF INDEX1(i) = 0 THEN 0 ELSE b,
        ![root][Header] = i] IN
    /\ call.at = "cleared"
    /\ Modify(IndexBlock(root, i), Stored)
    /\ Goes("resize")
    /\ UNCHANGED <<root, savedRoot>>

\* Then the index block is freed with its last page, or made writable.
ShrinkIndex ==
  LET i == N - 1
      Stored(b, d) ==
        [d EXCEPT ![root][IndexSlot(INDEX0(i))] = b, ![root][Header] = i] IN
    /\ call.at = "cleared"
    /\ \/ INDEX1(i) = 0 /\ Release(IndexBlock(root, i), Stored(0, data))
       \/ INDEX1(i) # 0 /\ Modify(IndexBlock(root, i), Stored)
    /\ Goes("resize")
    /\ UNCHANGED <<root, savedRoot>>

ShrinkDirect ==
  /\ Resizing /\ N > call.n /\ N <= LEVEL_ONE
  /\ Release(HostBlock(root, N - 1),
       [data EXCEPT ![root][Direct(N - 1)] = 0, ![root][Header] = N - 1])
  /\ UNCHANGED table

ResizeReturns ==
  /\ Resizing /\ N = call.n
  /\ call' = Idle
  /\ UNCHANGED <<vars, root, savedRoot>>

-----------------------------------------------------------------------------
(***************************************************************************)
(* page_write_host_index, and the caller's store into the block it gave.   *)
(***************************************************************************)

Writing(i, w) == [at |-> "write", i |-> i, w |-> w]

\* The root is made writable (it is already), and the index block too; of a
\* copy of it nobody is told.
page_write_host_index(i, w) ==
  /\ Between /\ InTxn /\ root # 0
  /\ blocks[root] \notin {0, FREED}
  /\ i < N
  /\ \/ i < LEVEL_ONE /\ UNCHANGED vars
     \/ i >= LEVEL_ONE /\ Modify(IndexBlock(root, i), Same)
  /\ call' = Writing(i, w)
  /\ UNCHANGED <<root, savedRoot>>

\* The data block is made writable, nobody stores a copy's number either.
WritePage ==
  /\ call.at = "write"
  /\ Modify(HostBlock(root, call.i),
            LAMBDA b, d : [d EXCEPT ![b][1] = call.w])
  /\ call' = Idle
  /\ UNCHANGED <<root, savedRoot>>

\* The next call of the block API in progress has to allocate.
Old(b) == blocks[b] = 0

NeedsBlock ==
  \/ Resizing /\ N < call.n /\ N < LEVEL_ONE
  \/ /\ Resizing /\ N < call.n /\ N >= LEVEL_ONE
     /\ LET b == IndexBlock(root, N) IN b = 0 \/ Old(b)
  \/ call.at = "slot"
  \/ call.at = "cleared" /\ INDEX1(N - 1) # 0 /\ Old(IndexBlock(root, N - 1))
  \/ call.at = "write" /\ Old(HostBlock(root, call.i))

\* It fails, and page.c returns with what it has done so far; or a call that
\* begins with an allocation fails.
Fails ==
  /\ Between \/ NeedsBlock
  /\ InTxn /\ ResizeFails
  /\ call' = Idle
  /\ UNCHANGED <<root, savedRoot>>

-----------------------------------------------------------------------------
(***************************************************************************)
(* The caller's transactions.                                              *)
(***************************************************************************)

\* Allocate a root and clear it with page_init.
Create ==
  /\ Between /\ root = 0
  /\ Allocate(LAMBDA b, d : [d EXCEPT ![b] = Zero])
  /\ root' = FreelistAllocate(flist[freelist], nblocks).block
  /\ UNCHANGED <<savedRoot, call>>

\* edb_modify_block(db, root, &root) of a root of an earlier transaction.
MakeWritable ==
  /\ Between /\ root # 0 /\ blocks[root] = 0
  /\ Modify(root, Same)
  /\ root' = FreelistAllocate(flist[freelist], nblocks).block
  /\ UNCHANGED <<savedRoot, call>>

\* Without a transaction every call fails at its first edb_modify_block.
Refused == Between /\ NoTransaction /\ UNCHANGED table

Begin == Between /\ txn_begin /\ UNCHANGED table

Commit ==
  /\ Between
  /\ \/ CommitStart /\ savedRoot' = root
     \/ (CommitEnd \/ \E k \in todo : CommitEntry(k)) /\ UNCHANGED savedRoot
  /\ UNCHANGED <<root, call>>

Abort ==
  /\ Between
  /\ txn_abort \/ AbortFails
  /\ root' = savedRoot
  /\ UNCHANGED <<savedRoot, call>>

TableInit == Init /\ root = 0 /\ savedRoot = 0 /\ call = Idle

TableNext ==
  \/ Create \/ MakeWritable
  \/ \E n \in 0 .. MaxPages : page_resize(n)
  \/ GrowDirect \/ GrowIndex \/ GrowSlot
  \/ ShrinkSlot \/ ShrinkIndex \/ ShrinkDirect
  \/ ResizeReturns \/ Fails
  \/ \E i \in 0 .. MaxPages - 1, w \in Payload : page_write_host_index(i, w)
  \/ WritePage
  \/ Refused \/ Begin \/ Commit \/ Abort

TableSpec == TableInit /\ [][TableNext]_tableVars

-----------------------------------------------------------------------------
(***************************************************************************)
(* What the caller must not do.                                            *)
(***************************************************************************)

\* It stores into pages whose blocks this transaction has allocated or
\* copied, index block included.
WritesNewPages ==
  \A i \in 0 .. MaxPages - 1, w \in Payload :
    page_write_host_index(i, w) =>
      /\ ~Old(HostBlock(root, i))
      /\ i >= LEVEL_ONE => ~Old(IndexBlock(root, i))

\* It takes no page from an index block of an earlier transaction.
TakesFromNewIndex ==
  \A n \in 0 .. MaxPages :
    page_resize(n) =>
      \A i \in LEVEL_ONE .. MaxPages - 1 :
        i \in n .. N - 1 => ~Old(IndexBlock(root, i))

Careful == WritesNewPages /\ TakesFromNewIndex

CarefulTableSpec == TableInit /\ [][TableNext /\ Careful]_tableVars

-----------------------------------------------------------------------------

\* The blocks that table r is made of.
IndexBlocks(r) == {IndexBlock(r, i) : i \in LEVEL_ONE .. Pages(r) - 1}
DataBlocks(r) == {HostBlock(r, i) : i \in 0 .. Pages(r) - 1}

\* Between calls the blocks the caller holds are those of its table, each
\* page and each index block in one of its own: a resize that fails half way
\* or goes up and down through the levels shares none and loses none.
TableIsWhole ==
  (Mapped /\ ~Aborting /\ Between) =>
    IF root = 0 THEN live = {}
    ELSE /\ live = {root} \cup IndexBlocks(root) \cup DataBlocks(root)
         /\ root \notin IndexBlocks(root) \cup DataBlocks(root)
         /\ IndexBlocks(root) \cap DataBlocks(root) = {}
         /\ \A i, j \in 0 .. N - 1 :
              HostBlock(root, i) = HostBlock(root, j) => i = j

TablePhase ==
  IF ~txn \/ Aborting THEN "closed"
  ELSE IF pc = "commit" THEN "committed"
  ELSE IF Mapped THEN "open" ELSE "failed"

\* The payload of the first n pages of table r.
PagesOf(r, n) == [i \in 1 .. n |-> data[HostBlock(r, i - 1)][1]]

SavedPages == IF savedRoot = 0 THEN <<>> ELSE PagesOf(savedRoot, Pages(savedRoot))

\* A page whose slot has been cleared is gone.
WorkingPages ==
  IF TablePhase = "failed" THEN SavedPages
  ELSE IF root = 0 THEN <<>>
  ELSE PagesOf(root, IF call.at = "cleared" THEN N - 1 ELSE N)

PageList == INSTANCE ListStore WITH
  Word <- Block \cup Payload,
  phase <- TablePhase, list <- WorkingPages, saved <- SavedPages

\* A page table is a list of pages: a resize keeps those it does not remove, a
\* store changes the page it names, a commit keeps them all, and an abort
\* brings the old ones back.
ImplementsListStore == PageList!Spec

\* While a transaction is open nothing is stored in the blocks of the last
\* committed state.
CommittedUntouched ==
  [][(txn /\ pc = "ready" /\ txn') =>
       \A b \in Committed : data'[b] = data[b]]_tableVars

\* What a commit frees is not part of the table it has committed.
CommitFreesNoPage ==
  (Between /\ Mapped /\ ~txn /\ root # 0) =>
    Range(flist[freelist])
      \cap ({root} \cup IndexBlocks(root) \cup DataBlocks(root)) = {}
=============================================================================
