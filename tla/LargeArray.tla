----------------------------- MODULE LargeArray -----------------------------
(***************************************************************************)
(* The arrays of everdb-native (array.c) that may outgrow their root: an   *)
(* array with no pages is small and holds its items in the root itself, a  *)
(* large one holds them in the pages of the table PageTable.tla describes. *)
(*                                                                         *)
(* An item is ITEM words, of which the first tells it from the others; its *)
(* last word but one of the root is the array's length.  array_resize and  *)
(* the lookups of array_data go through page.c, one step for each call of  *)
(* the block API.  `call' holds the locals of the functions in progress.   *)
(***************************************************************************)
EXTENDS PageTable

CONSTANTS
  ITEM,       \* pt->item_size, in words
  MaxItems    \* the longest array the caller makes

\* sizeof(array_header) and sizeof(page_header) are three words.
HEADERS == 3

ASSUME ArrayAssumption == ITEM \in 1 .. INDEX_SIZE - HEADERS

small_capacity == (INDEX_SIZE - HEADERS) \div ITEM
items_per_block == INDEX_SIZE \div ITEM

LengthWord == Header - 1
array_length(r) == data[r][LengthWord]

array_capacity(r) ==
  IF Pages(r) = 0 THEN small_capacity ELSE Pages(r) * items_per_block

\* Where item i is in its block.
ItemWord(i) == ITEM * (i % items_per_block) + 1

Item(r, i) ==
  IF Pages(r) = 0 THEN data[r][ItemWord(i)]
                  ELSE data[HostBlock(r, i \div items_per_block)][ItemWord(i)]

Items(r) == [i \in 1 .. array_length(r) |-> Item(r, i - 1)]

Dead == [at |-> "dead"]

\* A call of the caller's, on an array it has made writable.
ArrayCall ==
  /\ Between /\ InTxn /\ root # 0
  /\ blocks[root] \notin {0, FREED}

\* The locals of a call: what it is doing, to which page and item, what it
\* stores, what array_push has still to append, the items it has set aside,
\* and (for the refinement only) the array as it was.
Locals(at, op, i, v, push, kept) ==
  [at |-> at, op |-> op, page |-> i \div items_per_block, item |-> i, v |-> v,
   n |-> 0, push |-> push, kept |-> kept,
   before |-> IF Between THEN Items(root) ELSE call.before]

Lookup(op, i, v) == Locals("lookup", op, i, v, <<>>, <<>>)

Resize(op, n, push, kept) ==
  [Locals("resize", op, 0, 0, push, kept) EXCEPT !.n = n]

\* The first words of block b, which hold small_capacity items.
SmallItems(b) == SubSeq(data[b], 1, small_capacity * ITEM)

Overwritten(block, words) ==
  [w \in DOMAIN block |-> IF w \in DOMAIN words THEN words[w] ELSE block[w]]

-----------------------------------------------------------------------------
(***************************************************************************)
(* array_data: a page is looked up by page_write_host_index, even to read. *)
(***************************************************************************)

\* The first remap leaves pt dangling, and pt->item_size is read through it.
Remapped == nblocks' # nblocks

LookupIndex ==
  /\ call.at = "lookup"
  /\ \/ call.page < LEVEL_ONE /\ UNCHANGED vars
     \/ call.page >= LEVEL_ONE /\ Modify(IndexBlock(root, call.page), Same)
  /\ Goes("page") \/ (Remapped /\ call' = Dead)
  /\ UNCHANGED <<root, savedRoot>>

\* The host block of the page is made writable, then used as D(b, d) says.
LookupPage(op, D(_, _)) ==
  /\ call.at = "page" /\ call.op = op
  /\ Modify(HostBlock(root, call.page), D)
  /\ UNCHANGED <<root, savedRoot>>

Returns == call' = Idle \/ (Remapped /\ call' = Dead)

GotItem == LookupPage("get", Same) /\ Returns

\* Mutant: the item is stored in the page that was there before.
StoresInPlace ==
  /\ call.at = "page" /\ call.op = "set"
  /\ data' = [data EXCEPT
       ![HostBlock(root, call.page)][ItemWord(call.item)] = call.v]
  /\ call' = Idle
  /\ UNCHANGED <<io, flist, freelist, objlist, state, loop, live, rc>>
  /\ UNCHANGED <<root, savedRoot>>

StoresItem == LookupPage("set", LAMBDA b, d :
                [d EXCEPT ![b][ItemWord(call.item)] = call.v]) /\ Returns

PopsItem == LookupPage("pop", LAMBDA b, d :
              [d EXCEPT ![root][LengthWord] = @ - 1]) /\ Returns

\* Mutant: a block is allocated for the copy before it is known that the page
\* is of this transaction and needs none.
LookupAllocates ==
  /\ call.at = "page"
  /\ ResizeFails
  /\ call' = IF call.op \in {"get", "set", "pop"} THEN Dead ELSE Idle
  /\ UNCHANGED <<root, savedRoot>>

\* io_resize fails in a lookup: array_data aborts the process, array_resize
\* returns the error.
LookupFails ==
  /\ \/ /\ call.at = "lookup" /\ call.page >= LEVEL_ONE
        /\ Old(IndexBlock(root, call.page))
     \/ call.at = "page" /\ Old(HostBlock(root, call.page))
  /\ ResizeFails
  /\ call' = IF call.op \in {"get", "set", "pop"} THEN Dead ELSE Idle
  /\ UNCHANGED <<root, savedRoot>>

-----------------------------------------------------------------------------
(***************************************************************************)
(* array_resize, on its own or in array_push.                              *)
(***************************************************************************)

\* After a resize that left the blocks as d, array_push appends its item.
Resized(d) ==
  IF call.push = <<>>
  THEN data' = d /\ call' = Idle
  ELSE /\ data' = [d EXCEPT ![root][LengthWord] = @ + 1]
       /\ call' = Lookup("set", d[root][LengthWord], call.push[1])

\* array_resize(capacity), in an array_push of push; nothing is left to do
\* when the number of pages stays the same.
ArrayResize(capacity, push) ==
  LET n == (capacity + items_per_block - 1) \div items_per_block IN
    /\ capacity # array_capacity(root)
    /\ \/ /\ capacity <= small_capacity /\ N # 0
          /\ call' = Locals("lookup", "small", 0, 0, push, <<>>)
          /\ UNCHANGED data
       \/ /\ capacity > small_capacity /\ n # N
          /\ IF N = 0
             THEN /\ call' = Resize("large", n, push, SmallItems(root))
                  /\ data' = [data EXCEPT ![root] = Overwritten(@,
                       [w \in 1 .. small_capacity * ITEM |-> 0])]
             ELSE call' = Resize("pages", n, push, <<>>) /\ UNCHANGED data

array_resize(capacity) ==
  /\ ArrayCall
  /\ ArrayResize(capacity, <<>>)
  /\ UNCHANGED <<io, flist, freelist, objlist, state, loop, live, rc>>
  /\ UNCHANGED <<root, savedRoot>>

\* The items of the first page are set aside before it is freed; how many
\* words they are is read through the pointer from before the lookup.
SavesItems ==
  /\ LookupPage("small", Same)
  /\ \/ call' = Resize("small", 0, call.push, SubSeq(data'[HostBlock(root, 0)],
                                                     1, small_capacity * ITEM))
     \/ Remapped /\ call' = Dead

\* Mutant: the items the smaller array has no room for are still counted.
PagesResizedLong ==
  /\ Resizing /\ N = call.n /\ call.op # "large"
  /\ Resized([data EXCEPT ![root] = Overwritten(@, call.kept)])
  /\ UNCHANGED <<io, flist, freelist, objlist, state, loop, live, rc>>
  /\ UNCHANGED <<root, savedRoot>>

\* page_resize has returned: items set aside go back into the root, and the
\* length is cut to the capacity.
PagesResized ==
  LET cut == IF array_length(root) > array_capacity(root)
             THEN array_capacity(root) ELSE array_length(root) IN
    /\ Resizing /\ N = call.n /\ call.op # "large"
    /\ Resized([data EXCEPT ![root] =
                  [Overwritten(@, call.kept) EXCEPT ![LengthWord] = cut]])
    /\ UNCHANGED <<io, flist, freelist, objlist, state, loop, live, rc>>
    /\ UNCHANGED <<root, savedRoot>>

\* Of an array that was small the first page is looked up,
FirstPage ==
  /\ Resizing /\ N = call.n /\ call.op = "large"
  /\ Goes("page")
  /\ UNCHANGED <<vars, root, savedRoot>>

\* and given the items; it is new, so that this makes no copy.
FillsFirstPage ==
  /\ call.at = "page" /\ call.op = "large"
  /\ LET b == HostBlock(root, 0) IN
       /\ blocks[b] \notin {0, FREED}
       /\ Resized([data EXCEPT ![b] = Overwritten(@, call.kept)])
  /\ UNCHANGED <<io, flist, freelist, objlist, state, loop, live, rc>>
  /\ UNCHANGED <<root, savedRoot>>

-----------------------------------------------------------------------------
(***************************************************************************)
(* The rest of the interface.  An index that is out of bounds is refused.  *)
(***************************************************************************)

array_push(v) ==
  LET length == array_length(root) IN
    /\ ArrayCall
    /\ IF length + 1 > array_capacity(root)
       THEN ArrayResize(length + 1, <<v>>)
       ELSE IF N = 0
       THEN /\ data' = [data EXCEPT ![root][LengthWord] = length + 1,
                                    ![root][ItemWord(length)] = v]
            /\ UNCHANGED call
       ELSE /\ data' = [data EXCEPT ![root][LengthWord] = length + 1]
            /\ call' = Lookup("set", length, v)
    /\ UNCHANGED <<io, flist, freelist, objlist, state, loop, live, rc>>
    /\ UNCHANGED <<root, savedRoot>>

array_set(i, v) ==
  /\ ArrayCall /\ i < array_length(root)
  /\ IF N = 0
     THEN data' = [data EXCEPT ![root][ItemWord(i)] = v] /\ UNCHANGED call
     ELSE call' = Lookup("set", i, v) /\ UNCHANGED data
  /\ UNCHANGED <<io, flist, freelist, objlist, state, loop, live, rc>>
  /\ UNCHANGED <<root, savedRoot>>

array_pop ==
  LET length == array_length(root) IN
    /\ ArrayCall /\ length > 0
    /\ IF N = 0
       THEN /\ data' = [data EXCEPT ![root][LengthWord] = length - 1]
            /\ UNCHANGED call
       ELSE call' = Lookup("pop", length - 1, 0) /\ UNCHANGED data
    /\ UNCHANGED <<io, flist, freelist, objlist, state, loop, live, rc>>
    /\ UNCHANGED <<root, savedRoot>>

\* Reading changes nothing in a small array.  In a large one it is a lookup,
\* for which there must be a transaction: without one the process aborts.
array_get(i) ==
  /\ Between /\ Ready /\ Mapped /\ root # 0
  /\ i < array_length(root) /\ N # 0
  /\ call' = IF txn THEN Lookup("get", i, 0) ELSE Dead
  /\ UNCHANGED <<vars, root, savedRoot>>

ArrayNext ==
  \/ Create \/ MakeWritable
  \/ \E c \in 0 .. MaxItems : array_resize(c)
  \/ array_pop
  \/ \E v \in Payload : array_push(v) /\ array_length(root) < MaxItems
  \/ \E i \in 0 .. MaxItems - 1 :
       array_get(i) \/ \E v \in Payload : array_set(i, v)
  \/ LookupIndex \/ GotItem \/ StoresItem \/ PopsItem \/ LookupFails
  \/ SavesItems \/ PagesResized \/ FirstPage \/ FillsFirstPage
  \/ GrowDirect \/ GrowIndex \/ GrowSlot
  \/ ShrinkSlot \/ ShrinkIndex \/ ShrinkDirect \/ Fails
  \/ Refused \/ Begin \/ Commit \/ Abort

ArraySpec == TableInit /\ [][ArrayNext]_tableVars

-----------------------------------------------------------------------------

\* The index block of a page that a call takes away is one this transaction
\* allocated or copied.
ShrinksNewIndex ==
  (call'.at = "resize" \/ (call'.at = "lookup" /\ call'.op = "small")) =>
    \A p \in LEVEL_ONE .. N - 1 :
      p >= call'.n => ~Old(IndexBlock(root, p))

\* So are the blocks that a call looks up.
LooksUpNewPages == call'.at = "lookup" =>
  /\ ~Old(HostBlock(root, call'.page))
  /\ call'.page >= LEVEL_ONE => ~Old(IndexBlock(root, call'.page))

\* It reads in a transaction only.
ReadsInTransaction == ~txn => call' # Dead

\* A caller that keeps to small arrays, and to the transaction that made the
\* pages of a large one.
CarefulArray ==
  Between => ReadsInTransaction /\ ShrinksNewIndex /\ LooksUpNewPages

CarefulArraySpec == TableInit /\ [][ArrayNext /\ CarefulArray]_tableVars

SavedItems == IF savedRoot = 0 THEN <<>> ELSE Items(savedRoot)

\* Until a call returns, what it does is not seen.
WorkingItems ==
  IF TablePhase = "failed" THEN SavedItems
  ELSE IF root = 0 THEN <<>>
  ELSE IF Between THEN Items(root) ELSE call.before

ItemList == INSTANCE ListStore WITH
  Word <- Payload,
  phase <- TablePhase, list <- WorkingItems,
  saved <- SavedItems

\* An array is a list of items, whichever of its operations make it large,
\* small again or longer in pages, and across commits and aborts.
ImplementsItemList == ItemList!Spec

\* Whatever pages a transaction looks up, writes or loses, the array it began
\* with is still there to go back to.
SavedItemsKept ==
  [][(txn /\ pc = "ready" /\ pc' = "ready") => SavedItems' = SavedItems]_tableVars

\* No call on an array aborts the process, nor reads through a pointer that
\* it kept across the remapping of the file (array_data and its callers).
StaysAlive == call # Dead
=============================================================================
