------------------------------- MODULE BTree -------------------------------
(***************************************************************************)
(* The B-trees of everdb-native (btree.c) over its block API.              *)
(*                                                                         *)
(* A node fills a block: `size' entries of two arrays of SIZE words, key   *)
(* and data.  In a leaf data are the values, in an internal node they are  *)
(* blocks, and key is the largest key below.  Entries beyond size keep     *)
(* what was there, and the word after the last key is data[0].             *)
(*                                                                         *)
(* The functions recurse; each works on a heap, the blocks and what the    *)
(* block API knows of them, and answers with the heap it leaves.  Nothing  *)
(* runs beside them, so a call is one step.  Which block an allocation     *)
(* gives does not matter: it is the least one.  That an allocation fails   *)
(* is not modelled: the mapping is gone then and the transaction can only  *)
(* be aborted.                                                             *)
(***************************************************************************)
EXTENDS Integers, FiniteSets, Sequences

CONSTANTS
  SIZE,         \* EDB_BTREE_SIZE, 510 in the code
  MaxBlocks,    \* what the disk can hold, in blocks
  Room,         \* the free blocks of the file before it has to grow
  Key, Value

ASSUME BTreeAssumption ==
  /\ SIZE \in Nat /\ SIZE > 3
  /\ MaxBlocks \in Nat /\ Room \in Nat
  /\ Key \subseteq Nat /\ Value \subseteq Nat \ {0}

SPLIT == SIZE \div 4

OK == 0
EDB_ERROR_BTREE_INVALID_KEY == 3351
EDB_ERROR_BTREE_FULL == 3352
EDB_ERROR_BTREE_EMPTY == 3353
EDB_ERROR_BTREE_REALLY_EMPTY == 3354

VARIABLES
  heap,         \* the blocks
  root,         \* of the caller's tree
  saved,        \* its root in the last committed state
  last          \* the last call: its key, what it returned, the value it gave

vars == <<heap, root, saved, last>>

Block == 1 .. MaxBlocks
Zeros(n) == [i \in 1 .. n |-> 0]

-----------------------------------------------------------------------------
(***************************************************************************)
(* The block API.  `fresh' are the blocks this transaction has allocated   *)
(* or copied, `given' those of the committed state it has copied, `spare'  *)
(* counts the free blocks of the file.  An allocation that finds none maps *)
(* the file anew, somewhere else.                                          *)
(***************************************************************************)

\* btree_init, of a leaf.
EmptyNode == [leaf |-> TRUE, size |-> 0,
              key |-> Zeros(SIZE), data |-> Zeros(SIZE)]

Unused(h) == Block \ h.used
Least(S) == CHOOSE b \in S : \A c \in S : b <= c

\* The block is b and holds node; h.fault says when the disk is full.
Allocated(h, node) ==
  IF Unused(h) = {} THEN [heap |-> [h EXCEPT !.fault = "full"], block |-> 1]
  ELSE LET b == Least(Unused(h)) IN
    [heap |-> [h EXCEPT
       !.used = @ \cup {b}, !.fresh = @ \cup {b}, !.node[b] = node,
       !.maps = IF h.spare = 0 THEN @ + 1 ELSE @,
       !.spare = IF h.spare = 0 THEN 1 ELSE @ - 1],
     block |-> b]

\* Mutant: the block that was copied is not given up.
ModifiedKept(h, b) ==
  IF b \in h.fresh THEN [heap |-> h, block |-> b] ELSE Allocated(h, h.node[b])

Modified(h, b) ==
  IF b \in h.fresh THEN [heap |-> h, block |-> b]
  ELSE Allocated([h EXCEPT !.given = @ \cup {b}], h.node[b])

\* Of a block of this transaction: a child is made writable before it is
\* merged into its neighbour.
Freed(h, b) ==
  [h EXCEPT !.used = @ \ {b}, !.fresh = @ \ {b}, !.spare = @ + 1,
            !.node[b] = EmptyNode]

Fault(h, f) == IF h.fault = "none" THEN [h EXCEPT !.fault = f] ELSE h

\* Pointers taken in heap g are used in h: they dangle if it was remapped.
UsedAfter(g, h) == IF g.maps # h.maps THEN Fault(h, "stale") ELSE h

-----------------------------------------------------------------------------
(***************************************************************************)
(* The lists of a node.                                                    *)
(***************************************************************************)

\* bt->key[i] and bt->data[i], and the last key.
KeyAt(nd, i) == IF i < SIZE THEN nd.key[i + 1] ELSE nd.data[1]
DataAt(nd, i) == nd.data[i + 1]
LastKey(nd) == nd.key[nd.size]

RECURSIVE Bisect(_, _, _, _)
Bisect(nd, k, b, e) ==
  LET m == (b + e) \div 2 IN
    IF b >= e THEN b
    ELSE IF k > KeyAt(nd, m) THEN Bisect(nd, k, m + 1, e)
                             ELSE Bisect(nd, k, b, m)

list_find(nd, k) == Bisect(nd, k, 0, nd.size)

\* Of a node that is not full.
list_insert(nd, j, k, v) ==
  LET n == nd.size
      Into(a, x) == SubSeq(a, 1, j) \o <<x>> \o SubSeq(a, j + 1, n)
                      \o SubSeq(a, n + 2, SIZE) IN
    [nd EXCEPT !.key = Into(@, k), !.data = Into(@, v), !.size = n + 1]

\* Of a node that is not empty.
list_remove(nd, j) ==
  LET n == nd.size
      Without(a) == SubSeq(a, 1, j) \o SubSeq(a, j + 2, n) \o <<0>>
                      \o SubSeq(a, n + 1, SIZE) IN
    [nd EXCEPT !.key = Without(@), !.data = Without(@), !.size = n - 1]

\* The entries of nd from n on, in a node of their own; the node they leave
\* forgets them, but does not clear them; and two nodes in one.
Upper(nd, n) ==
  LET Moved(a) == SubSeq(a, n + 1, nd.size) \o Zeros(SIZE - nd.size + n) IN
    [nd EXCEPT !.key = Moved(@), !.data = Moved(@), !.size = @ - n]

\* Mutant: the last of the entries that stay is forgotten too.
LowerShort(nd, n) == [nd EXCEPT !.size = n - 1]

Lower(nd, n) == [nd EXCEPT !.size = n]

Joined(n0, n1) ==
  LET n == n0.size + n1.size
      Both(a, b) == SubSeq(a, 1, n0.size) \o SubSeq(b, 1, n1.size)
                      \o SubSeq(a, n + 1, SIZE) IN
    [n0 EXCEPT !.key = Both(@, n1.key), !.data = Both(@, n1.data), !.size = n]

Store(h, b, nd) == [h EXCEPT !.node[b] = nd]

\* What a function leaves and returns, and what it put into *value.
Answer(h, r, v) == [heap |-> h, r |-> r, v |-> v]

-----------------------------------------------------------------------------

RECURSIVE Get(_, _, _)
Get(h, b, k) ==
  LET nd == h.node[b]
      i == list_find(nd, k) IN
    IF i = nd.size THEN Answer(h, EDB_ERROR_BTREE_INVALID_KEY, 0)
    ELSE IF ~nd.leaf THEN Get(h, DataAt(nd, i), k)
    ELSE IF KeyAt(nd, i) # k THEN Answer(h, EDB_ERROR_BTREE_INVALID_KEY, 0)
    ELSE Answer(h, OK, DataAt(nd, i))

\* btree_first (of which `first' is true) and btree_last: the key they find.
RECURSIVE End(_, _, _)
End(h, b, first) ==
  LET nd == h.node[b]
      i == IF first THEN 0 ELSE nd.size - 1 IN
    IF nd.size = 0 THEN Answer(h, EDB_ERROR_BTREE_INVALID_KEY, 0)
    ELSE IF nd.leaf THEN Answer(h, OK, KeyAt(nd, i))
    ELSE End(h, DataAt(nd, i), first)

\* The entry of an internal node below which k is set.
ChildFor(nd, k) == LET i == list_find(nd, k) IN IF i = nd.size THEN i - 1 ELSE i

\* Mutant: the key stays what it was.
WithChildOnly(h, b, i, c) ==
  Store(h, b, [h.node[b] EXCEPT !.data[i + 1] = c])

\* Block b's entry i gets child c and its largest key.
WithChild(h, b, i, c) ==
  Store(h, b, [h.node[b] EXCEPT !.data[i + 1] = c,
                                !.key[i + 1] = LastKey(h.node[c])])

\* The full child i of block b gives what is above SPLIT to a new child.  Its
\* own key stays what it was.
Split(h, b, i) ==
  LET c0 == DataAt(h.node[b], i)
      a == Allocated(h, Upper(h.node[c0], SPLIT))
      opened == list_insert(h.node[b], i + 1, 0, 0) IN
    Store(Store(a.heap, c0, Lower(h.node[c0], SPLIT)),
          b, [opened EXCEPT !.data[i + 2] = a.block])

RECURSIVE Set(_, _, _, _)
Set(h, b, k, v) ==
  LET nd == h.node[b]
      i == IF nd.leaf THEN list_find(nd, k) ELSE ChildFor(nd, k) IN
    IF nd.leaf THEN
      IF i < nd.size /\ KeyAt(nd, i) = k
      THEN Answer(Store(h, b, [nd EXCEPT !.data[i + 1] = v]), OK, v)
      ELSE IF nd.size = SIZE THEN Answer(h, EDB_ERROR_BTREE_FULL, v)
      ELSE Answer(Store(h, b, list_insert(nd, i, k, v)), OK, v)
    ELSE
      LET m == Modified(h, DataAt(nd, i))
          g == Store(m.heap, b, [nd EXCEPT !.data[i + 1] = m.block])
          s == Set(g, m.block, k, v)
          back == UsedAfter(g, s.heap) IN
        IF s.r = OK THEN Answer(WithChild(back, b, i, m.block), OK, v)
        ELSE IF nd.size = SIZE THEN Answer(back, EDB_ERROR_BTREE_FULL, v)
        ELSE LET g2 == Split(back, b, i)
                 c1 == DataAt(g2.node[b], i + 1)
                 retry == Set(g2, IF k <= KeyAt(g2.node[b], i) THEN m.block
                                                           ELSE c1, k, v)
                 after == UsedAfter(g2, retry.heap)
             IN IF retry.r # OK THEN Answer(retry.heap, retry.r, v)
                ELSE Answer(WithChild(WithChild(after, b, i, m.block),
                                      b, i + 1, c1), OK, v)

\* The new root has the old one and its upper half as children.
Grow(h, b) ==
  LET m == Modified(h, b)
      nd == m.heap.node[m.block]
      n == nd.size \div 2
      r == Allocated(m.heap, [EmptyNode EXCEPT !.leaf = FALSE, !.size = 2])
      c == Allocated(r.heap, Upper(nd, n))
      g == Store(c.heap, m.block, Lower(nd, n)) IN
    [heap |-> WithChild(WithChild(g, r.block, 0, m.block), r.block, 1, c.block),
     block |-> r.block]

\* Mutant: the neighbour's largest key stays what it was.
StealOneKey(h, b, i, other) ==
  LET c0 == DataAt(h.node[b], i)
      c1 == DataAt(h.node[b], other)
      n1 == h.node[c1]
      j == IF other < i THEN n1.size - 1 ELSE 0
      at == IF other < i THEN 0 ELSE h.node[c0].size
      g == Store(Store(h, c0, list_insert(h.node[c0], at,
                                          KeyAt(n1, j), DataAt(n1, j))),
                 c1, list_remove(n1, j)) IN
    WithChild(g, b, i, c0)

\* Child `other' of block b has more than SPLIT entries: its last goes to
\* child i's begin, or its first to child i's end.
Steal(h, b, i, other) ==
  LET c0 == DataAt(h.node[b], i)
      c1 == DataAt(h.node[b], other)
      n1 == h.node[c1]
      j == IF other < i THEN n1.size - 1 ELSE 0
      at == IF other < i THEN 0 ELSE h.node[c0].size
      g == Store(Store(h, c0, list_insert(h.node[c0], at,
                                          KeyAt(n1, j), DataAt(n1, j))),
                 c1, list_remove(n1, j)) IN
    WithChild(WithChild(g, b, i, c0), b, other, c1)

\* Mutant: the child that was merged into its neighbour is not freed.
MergeKeeps(h, b, first) ==
  LET c0 == DataAt(h.node[b], first)
      c1 == DataAt(h.node[b], first + 1)
      g == Store(h, c0, Joined(h.node[c0], h.node[c1])) IN
    IF h.node[c0].size + h.node[c1].size > SIZE THEN Fault(h, "overrun")
    ELSE WithChild(Store(g, b, list_remove(h.node[b], first + 1)), b, first, c0)

\* Children first and first + 1 of block b become one, and the latter is
\* freed.  Nothing checks that the entries fit.
Merge(h, b, first) ==
  LET c0 == DataAt(h.node[b], first)
      c1 == DataAt(h.node[b], first + 1)
      g == Freed(Store(h, c0, Joined(h.node[c0], h.node[c1])), c1) IN
    IF h.node[c0].size + h.node[c1].size > SIZE THEN Fault(h, "overrun")
    ELSE WithChild(Store(g, b, list_remove(h.node[b], first + 1)), b, first, c0)

\* Child i of block b, whose pop gave value v, has too few entries.
Underfull(h, b, i, v) ==
  LET nd == h.node[b]
      other == IF i + 1 = nd.size THEN i - 1 ELSE i + 1
      m == Modified(h, DataAt(nd, other))
      g == Store(m.heap, b, [nd EXCEPT !.data[other + 1] = m.block]) IN
    IF nd.size = 1 THEN Answer(h, EDB_ERROR_BTREE_REALLY_EMPTY, 0)
    ELSE IF m.heap.node[m.block].size > SPLIT
         THEN Answer(Steal(g, b, i, other), OK, v)
    ELSE LET merged == Merge(g, b, IF other < i THEN other ELSE i) IN
           Answer(merged, EDB_ERROR_BTREE_EMPTY,
                  IF merged.node[b].size < SPLIT THEN v ELSE 0)

RECURSIVE Pop(_, _, _)
Pop(h, b, k) ==
  LET nd == h.node[b]
      i == list_find(nd, k) IN
    IF nd.leaf THEN
      IF KeyAt(nd, i) # k THEN Answer(h, EDB_ERROR_BTREE_INVALID_KEY, 0)
      ELSE IF nd.size = 0 \/ i = SIZE THEN Answer(Fault(h, "no entry"), OK, 0)
      ELSE Answer(Store(h, b, list_remove(nd, i)),
                  IF nd.size - 1 < SPLIT THEN EDB_ERROR_BTREE_EMPTY ELSE OK,
                  DataAt(nd, i))
    ELSE IF KeyAt(nd, i) < k THEN Answer(h, EDB_ERROR_BTREE_INVALID_KEY, 0)
    ELSE
      LET m == Modified(h, DataAt(nd, i))
          g == Store(m.heap, b, [nd EXCEPT !.data[i + 1] = m.block])
          p == Pop(g, m.block, k)
          back == UsedAfter(g, p.heap) IN
        IF p.r = OK THEN Answer(WithChild(back, b, i, m.block), OK, p.v)
        ELSE IF p.r = EDB_ERROR_BTREE_EMPTY THEN Underfull(back, b, i, p.v)
        ELSE Answer(p.heap, p.r, 0)

-----------------------------------------------------------------------------
(***************************************************************************)
(* The caller.  It has one tree, whose root it makes writable first, as    *)
(* obj_write does, and grows the tree when it is full.                     *)
(***************************************************************************)

Quiet == [op |-> "none", key |-> 0, r |-> OK, v |-> 0]

Init ==
  /\ heap = [node |-> [b \in Block |-> EmptyNode], used |-> {1}, fresh |-> {1},
             given |-> {}, spare |-> Room, maps |-> 0, fault |-> "none"]
  /\ root = 1 /\ saved = 0
  /\ last = Quiet

Writable == root \in heap.fresh /\ heap.fault = "none"

\* Remappings are counted within a call.
Does(op, k, a) ==
  /\ heap' = [a.heap EXCEPT !.maps = 0]
  /\ heap'.fault # "full"
  /\ last' = [op |-> op, key |-> k, r |-> a.r, v |-> a.v]

btree_set(k, v) ==
  /\ Writable
  /\ Does("set", k, Set(heap, root, k, v))
  /\ UNCHANGED <<root, saved>>

btree_pop(k) ==
  /\ Writable
  /\ Does("pop", k, Pop(heap, root, k))
  /\ UNCHANGED <<root, saved>>

btree_grow ==
  /\ Writable /\ heap.node[root].size = SIZE
  /\ LET g == Grow(heap, root) IN
       Does("grow", 0, Answer(g.heap, OK, 0)) /\ root' = g.block
  /\ UNCHANGED saved

\* edb_modify_block of the root.
MakeWritable ==
  /\ root \notin heap.fresh /\ heap.fault = "none"
  /\ LET m == Modified(heap, root) IN
       Does("modify", 0, Answer(m.heap, OK, 0)) /\ root' = m.block
  /\ UNCHANGED saved

\* What was given up becomes free.
Commit ==
  /\ heap.fault = "none"
  /\ heap' = [heap EXCEPT !.used = @ \ heap.given, !.fresh = {}, !.given = {},
                          !.spare = @ + Cardinality(heap.given),
                !.node = [b \in Block |-> IF b \in heap.given THEN EmptyNode
                                                             ELSE @[b]]]
  /\ saved' = root
  /\ last' = Quiet
  /\ UNCHANGED root

\* What was taken becomes free; without a committed tree the caller stops.
Abort ==
  /\ heap.fault = "none" /\ saved # 0
  /\ heap' = [heap EXCEPT !.used = @ \ heap.fresh, !.fresh = {}, !.given = {},
                          !.spare = @ + Cardinality(heap.fresh),
                !.node = [b \in Block |-> IF b \in heap.fresh THEN EmptyNode
                                                             ELSE @[b]]]
  /\ root' = saved
  /\ last' = Quiet
  /\ UNCHANGED saved

Next ==
  \/ \E k \in Key : btree_pop(k) \/ \E v \in Value : btree_set(k, v)
  \/ btree_grow \/ MakeWritable \/ Commit \/ Abort

Spec == Init /\ [][Next]_vars

-----------------------------------------------------------------------------
(***************************************************************************)
(* What the caller must not do.                                            *)
(***************************************************************************)

\* No node on k's way below block b has to be split above SPLIT, except at
\* its end: the half that gets k is chosen by the key the child had before.
RECURSIVE SplitsRight(_, _)
SplitsRight(b, k) ==
  LET nd == heap.node[b]
      i == list_find(nd, k) IN
    /\ nd.size = SIZE => i = SIZE \/ i < SPLIT \/ (nd.leaf /\ i = SPLIT)
    /\ ~nd.leaf => SplitsRight(DataAt(nd, ChildFor(nd, k)), k)

SetsCarefully(k) ==
  (~heap.node[root].leaf /\ Get(heap, root, k).r # OK) =>
    LET nd == heap.node[root] IN SplitsRight(DataAt(nd, ChildFor(nd, k)), k)

\* It pops a key from no tree that has no entry: 0 would be found there.
Careful ==
  CASE last'.op = "set" -> SetsCarefully(last'.key)
    [] last'.op = "pop" -> last'.key # 0
    [] OTHER -> TRUE

-----------------------------------------------------------------------------
(***************************************************************************)
(* What a tree promises.                                                   *)
(***************************************************************************)

RECURSIVE Nodes(_)
Nodes(b) ==
  LET nd == heap.node[b] IN
    IF nd.leaf THEN {b}
    ELSE {b} \cup UNION {Nodes(DataAt(nd, i)) : i \in 0 .. nd.size - 1}

RECURSIVE Depth(_)
Depth(b) ==
  IF heap.node[b].leaf THEN 0 ELSE 1 + Depth(DataAt(heap.node[b], 0))

\* The keys and values in the leaves of the tree at block b.
RECURSIVE Entries(_)
Entries(b) ==
  LET nd == heap.node[b] IN
    IF b = 0 THEN {}
    ELSE IF nd.leaf THEN {<<KeyAt(nd, i), DataAt(nd, i)>> : i \in 0 .. nd.size - 1}
    ELSE UNION {Entries(DataAt(nd, i)) : i \in 0 .. nd.size - 1}

\* The keys of a node go up, an internal node's are the largest of its
\* children, all leaves are equally deep, and a node is shared by no two.
\* Below a root with one child a node may be short of entries.
SearchTree ==
  LET nodes == Nodes(root) IN
    \A b \in nodes : LET nd == heap.node[b] IN
      /\ \A i \in 1 .. nd.size - 1 : KeyAt(nd, i - 1) < KeyAt(nd, i)
      /\ b # root => nd.size >= SPLIT \/ heap.node[root].size = 1
      /\ ~nd.leaf => \A i \in 0 .. nd.size - 1 :
           /\ DataAt(nd, i) \in nodes \ {b}
           /\ Depth(DataAt(nd, i)) = Depth(b) - 1
           /\ nd.size > 1 => KeyAt(nd, i) = LastKey(heap.node[DataAt(nd, i)])

\* Every block is part of the tree, or was part of the committed one, and
\* only then.
NothingLeaks ==
  /\ heap.used \ heap.given = Nodes(root)
  /\ saved # 0 => Nodes(saved) = heap.used \ heap.fresh

\* btree_get finds an entry by its key, btree_first and btree_last find the
\* least and the largest key.
SearchesFind ==
  LET entries == Entries(root)
      keys == {e[1] : e \in entries}
      first == End(heap, root, TRUE).v
      last_ == End(heap, root, FALSE).v IN
    /\ \A k \in Key : LET a == Get(heap, root, k) IN
         IF k \in keys THEN <<k, a.v>> \in entries ELSE a.r # OK
    /\ \A k \in keys : first <= k /\ k <= last_
    /\ keys # {} => {first, last_} \subseteq keys

Map == INSTANCE KeyStore WITH
  map <- Entries(root), saved <- Entries(saved),
  call <- <<last.op, last.key, last.r # EDB_ERROR_BTREE_FULL>>

\* A tree is a map: a set changes the value of its key only, a pop removes
\* its key only, through every split, merge and copy, and an abort brings the
\* committed map back.
ImplementsKeyStore == Map!Spec

\* A pop that finds its key gives the value it had.
PopGivesValue ==
  [][last'.op = "pop" =>
       \A e \in Entries(root) : e[1] = last'.key => last'.v = e[2]]_vars

\* No call uses a pointer it took before the file was mapped anew.
PointersAreFresh == heap.fault # "stale"

\* Nodes are merged only when one can hold both.
MergesFit == heap.fault # "overrun"

\* A pop takes only entries that are there.
PopsEntries == heap.fault # "no entry"
=============================================================================
