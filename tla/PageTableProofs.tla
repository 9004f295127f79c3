-------------------------- MODULE PageTableProofs --------------------------
(***************************************************************************)
(* Proofs about the page tables of PageTable.tla, for a caller that takes  *)
(* no page from an index block of an earlier transaction and writes to no  *)
(* page of one (CarefulTableSpec), and for tables whose index blocks stop  *)
(* before the header (TableFits).                                          *)
(*                                                                         *)
(* The invariant says of two tables that they are whole: the one the       *)
(* caller works on, in the blocks it holds, and the one of the last        *)
(* committed state, in the blocks an abort gives back.  In the middle of   *)
(* page_resize the first has an index block for one page more than it has  *)
(* pages.  Lemmas about two contents of the disk say what each store of    *)
(* page_resize does to a whole table; the transactions they happen in are  *)
(* those of TxnProofs.tla.                                                 *)
(***************************************************************************)
EXTENDS PageTable, TxnProofs

\* The words of a table: no index block's number is stored in the header.
TableFits == MaxPages <= LEVEL_ONE + (LEVEL_ONE - 1) * INDEX_SIZE

\* The pages beyond the first level.
Large == LEVEL_ONE .. MaxPages - 1

-----------------------------------------------------------------------------
(***************************************************************************)
(* Where a page is: INDEX0 and INDEX1.                                     *)
(***************************************************************************)

\* The quotient and the remainder of a number are unique.
LEMMA Quotient ==
  ASSUME NEW c \in Nat, NEW p \in Int, NEW q \in Int,
         NEW r \in 0 .. c - 1, NEW s \in 0 .. c - 1,
         c * p + r = c * q + s
  PROVE  p = q /\ r = s
<1>1. CASE p >= q + 1
  <2>1. c * (p - q) >= c
    BY <1>1
  <2> QED BY <2>1
<1>2. CASE q >= p + 1
  <2>1. c * (q - p) >= c
    BY <1>2
  <2> QED BY <2>1
<1> QED BY <1>1, <1>2

\* A number is made of its quotient and its remainder.
LEMMA Divides ==
  ASSUME NEW h \in Nat, NEW c \in Nat, c > 0
  PROVE  /\ h \div c \in Nat
         /\ h % c \in 0 .. c - 1
         /\ h = c * (h \div c) + (h % c)
OBVIOUS

\* What is assumed of the sizes.
LEMMA TableSizes ==
  /\ LEVEL_ONE \in Nat /\ LEVEL_ONE > 1 /\ MaxPages \in Nat
  /\ MaxPages < MaxBlocks
  /\ INDEX_SIZE \in Nat /\ INDEX_SIZE = 2 * LEVEL_ONE
BY PageTableAssumption DEF INDEX_SIZE

\* The index block of a page, and its place in that.
LEMMA Place ==
  ASSUME NEW i \in Large
  PROVE  /\ INDEX0(i) \in Nat
         /\ INDEX1(i) \in 0 .. INDEX_SIZE - 1
         /\ i - LEVEL_ONE = INDEX_SIZE * INDEX0(i) + INDEX1(i)
<1>1. i - LEVEL_ONE \in Nat /\ INDEX_SIZE \in Nat /\ INDEX_SIZE > 0
  BY TableSizes DEF Large
<1> QED BY <1>1, Divides DEF INDEX0, INDEX1

\* The pages' places: in the words of a table before the header, in the words
\* of an index block, no two the same, and in the order of the pages.
Placed ==
  /\ \A i \in Large : INDEX0(i) \in 0 .. LEVEL_ONE - 2
                      /\ INDEX1(i) \in 0 .. INDEX_SIZE - 1
  /\ \A i, j \in Large :
       INDEX0(i) = INDEX0(j) /\ INDEX1(i) = INDEX1(j) => i = j
  /\ \A i, j \in Large : INDEX1(i) = 0 /\ j < i => INDEX0(j) # INDEX0(i)
  /\ \A i \in Large :
       INDEX1(i) # 0 => i - 1 \in Large /\ INDEX0(i - 1) = INDEX0(i)

\* INDEX0 and INDEX1 give each page a place of its own.
LEMMA Places ==
  ASSUME TableFits
  PROVE  Placed
<1> DEFINE L == LEVEL_ONE
           c == INDEX_SIZE
<1>1. L \in Nat /\ L > 1 /\ c \in Nat /\ c = 2 * L /\ MaxPages \in Nat
  BY TableSizes
<1>2. ASSUME NEW i \in Large
      PROVE  INDEX0(i) \in 0 .. L - 2 /\ INDEX1(i) \in 0 .. c - 1
  <2>1. i - L < (L - 1) * c /\ i \in Nat
    BY <1>1 DEF Large, TableFits
  <2> DEFINE p == INDEX0(i)
  <2>2. /\ p \in Nat /\ INDEX1(i) \in 0 .. c - 1
        /\ i - L = c * p + INDEX1(i)
    BY Place
  <2>3. c * p < c * (L - 1)
    BY <2>1, <2>2, <1>1
  <2> HIDE DEF p
  <2>4. p < L - 1
    <3>1. SUFFICES ASSUME p - (L - 1) >= 0 PROVE FALSE
      BY <2>2, <1>1
    <3>2. c * (p - (L - 1)) >= 0
      BY <3>1, <2>2, <1>1
    <3> QED BY <3>2, <2>2, <2>3, <1>1
  <2>5. p \in 0 .. L - 2
    BY <2>2, <2>4, <1>1
  <2> QED BY <2>2, <2>5 DEF p
<1>3. ASSUME NEW i \in Large, NEW j \in Large,
             INDEX0(i) = INDEX0(j), INDEX1(i) = INDEX1(j)
      PROVE  i = j
  <2>1. i - L = j - L
    BY <1>3, Place
  <2> QED BY <2>1, <1>1 DEF Large
<1>4. ASSUME NEW i \in Large, NEW j \in Large, INDEX1(i) = 0, j < i
      PROVE  INDEX0(j) # INDEX0(i)
  <2>1. i - L = c * INDEX0(i) + 0
    BY <1>4, Place
  <2>2. j - L = c * INDEX0(j) + INDEX1(j) /\ INDEX1(j) \in 0 .. c - 1
    BY Place
  <2>3. i \in Int /\ j \in Int /\ c * INDEX0(i) \in Int
    BY <2>1, <1>1, Place DEF Large
  <2>4. INDEX0(j) = INDEX0(i) => j >= i
    BY <1>1, <2>1, <2>2, <2>3
  <2> QED BY <1>4, <2>3, <2>4
<1>5. ASSUME NEW i \in Large, INDEX1(i) # 0
      PROVE  i - 1 \in Large /\ INDEX0(i - 1) = INDEX0(i)
  <2> DEFINE p == INDEX0(i)
             r == INDEX1(i)
             q == INDEX0(i - 1)
             s == INDEX1(i - 1)
  <2>1. p \in Nat /\ r \in 1 .. c - 1 /\ i - L = c * p + r
    BY <1>5, Place
  <2>2. c * p \in Nat
    BY <2>1, <1>1
  <2>3. i - 1 \in Large
    BY <2>1, <2>2, <1>1 DEF Large
  <2>4. q \in Nat /\ s \in 0 .. c - 1 /\ (i - 1) - L = c * q + s
    BY <2>3, Place
  <2> HIDE DEF p, q, r, s, c
  <2>5. c * q + s = c * p + (r - 1)
    BY <2>1, <2>2, <2>4, <1>1 DEF Large
  <2>6. q = p
    BY <2>1, <2>4, <2>5, <1>1, Quotient
  <2> QED BY <2>3, <2>6 DEF p, q
<1> QED BY <1>2, <1>3, <1>4, <1>5 DEF Placed

-----------------------------------------------------------------------------
(***************************************************************************)
(* Whole tables, in any contents d of the disk.                            *)
(***************************************************************************)

Slot == 1 .. 2 * LEVEL_ONE
SlotOf(i) == IndexSlot(INDEX0(i))

\* The index block of page i, and page i, of the table r.
IndexAt(d, r, i) == d[r][SlotOf(i)]
PageAt(d, r, i) ==
  IF i < LEVEL_ONE THEN d[r][Direct(i)] ELSE d[IndexAt(d, r, i)][DataSlot(i)]

\* The blocks B are those of a table r with n pages, and index blocks for m:
\* each page and each index block has one of its own, none is lost, and the
\* other words for index blocks are 0.
Whole(d, r, n, m, B) ==
  /\ n \in 0 .. MaxPages /\ m \in n .. MaxPages
  /\ r \in B
  /\ \A i \in 0 .. n - 1 : PageAt(d, r, i) \in B \ {r}
  /\ \A k \in LEVEL_ONE .. m - 1 : IndexAt(d, r, k) \in B \ {r}
  /\ \A i \in 0 .. n - 1, k \in LEVEL_ONE .. m - 1 :
       PageAt(d, r, i) # IndexAt(d, r, k)
  /\ \A i, j \in 0 .. n - 1 : PageAt(d, r, i) = PageAt(d, r, j) => i = j
  /\ \A j, k \in LEVEL_ONE .. m - 1 :
       IndexAt(d, r, j) = IndexAt(d, r, k) => SlotOf(j) = SlotOf(k)
  /\ \A b \in B : \/ b = r
                  \/ \E i \in 0 .. n - 1 : b = PageAt(d, r, i)
                  \/ \E k \in LEVEL_ONE .. m - 1 : b = IndexAt(d, r, k)
  /\ \A j \in Large :
       (\A k \in LEVEL_ONE .. m - 1 : SlotOf(k) # SlotOf(j)) =>
         IndexAt(d, r, j) = 0

\* The words of a table that stand for no page, no index block, and no count.
Spare ==
  {t \in Slot : /\ t # Header
                /\ \A i \in 0 .. LEVEL_ONE - 1 : Direct(i) # t
                /\ \A i \in Large : SlotOf(i) # t}

\* Table r in d and table q in e have the same first n pages, with the same
\* contents, and the same spare words.
SamePages(d, r, e, q, n) ==
  /\ \A i \in 0 .. n - 1 : PageAt(e, q, i) = PageAt(d, r, i)
  /\ \A i \in 0 .. n - 1, t \in Slot :
       e[PageAt(d, r, i)][t] = d[PageAt(d, r, i)][t]
  /\ \A t \in Spare : e[q][t] = d[r][t]

\* They have the same page and index block numbers.
SamePlaces(d, e, r, n) ==
  \A i \in 0 .. n - 1 : PageAt(e, r, i) = PageAt(d, r, i)
SameIndexes(d, e, r, S) == \A k \in S : IndexAt(e, r, k) = IndexAt(d, r, k)

\* v is stored in word s of block b, and perhaps a number in r's header.
Puts(d, e, r, b, s, v) ==
  \A c \in Block, t \in Slot :
    \/ c = r /\ t = Header
    \/ e[c][t] = IF c = b /\ t = s THEN v ELSE d[c][t]

\* The words of a table are apart.
SlotsApart ==
  /\ 1 \in Slot /\ Header \in Slot
  /\ 1 # Header
  /\ \A i \in 0 .. LEVEL_ONE - 1 : Direct(i) \in Slot /\ Direct(i) # Header
  /\ \A i \in Large : SlotOf(i) \in Slot /\ SlotOf(i) # Header
                      /\ DataSlot(i) \in Slot
  /\ \A i \in 0 .. LEVEL_ONE - 1, j \in Large : Direct(i) # SlotOf(j)
  /\ \A i, j \in 0 .. LEVEL_ONE - 1 : Direct(i) = Direct(j) => i = j
  /\ \A i, j \in Large :
       SlotOf(i) = SlotOf(j) /\ DataSlot(i) = DataSlot(j) => i = j
  /\ \A i, j \in Large : INDEX1(i) = 0 /\ j < i => SlotOf(j) # SlotOf(i)
  /\ \A i \in Large :
       INDEX1(i) # 0 => i - 1 \in Large /\ SlotOf(i - 1) = SlotOf(i)

\* Different places in a table are different words, and none is the header.
LEMMA Apart ==
  ASSUME TableFits
  PROVE  SlotsApart
<1>1. /\ LEVEL_ONE \in Nat /\ LEVEL_ONE > 1 /\ INDEX_SIZE = 2 * LEVEL_ONE
  BY TableSizes
<1>2. Placed
  BY Places
<1>3. \A i \in Large : INDEX0(i) \in 0 .. LEVEL_ONE - 2
                      /\ INDEX1(i) \in 0 .. INDEX_SIZE - 1
  BY <1>2 DEF Placed
<1>4. \A i, j \in Large :
        /\ SlotOf(i) = SlotOf(j) => INDEX0(i) = INDEX0(j)
        /\ DataSlot(i) = DataSlot(j) => INDEX1(i) = INDEX1(j)
        /\ INDEX0(i) = INDEX0(j) => SlotOf(i) = SlotOf(j)
  BY <1>1, <1>3 DEF SlotOf, IndexSlot, DataSlot
<1>5. \A i \in Large : /\ SlotOf(i) \in LEVEL_ONE + 1 .. 2 * LEVEL_ONE - 1
                       /\ DataSlot(i) \in 1 .. 2 * LEVEL_ONE
  BY <1>1, <1>3 DEF SlotOf, IndexSlot, DataSlot
<1>6. \A i \in 0 .. LEVEL_ONE - 1 : Direct(i) \in 1 .. LEVEL_ONE /\ Direct(i) = i + 1
  BY <1>1 DEF Direct
<1>7. \A i, j \in Large :
        SlotOf(i) = SlotOf(j) /\ DataSlot(i) = DataSlot(j) => i = j
  BY <1>2, <1>4 DEF Placed
<1>8. /\ \A i, j \in Large : INDEX1(i) = 0 /\ j < i => SlotOf(j) # SlotOf(i)
      /\ \A i \in Large :
           INDEX1(i) # 0 => i - 1 \in Large /\ SlotOf(i - 1) = SlotOf(i)
  BY <1>2, <1>4 DEF Placed
<1>9. /\ 1 \in Slot /\ Header \in Slot /\ 1 # Header
      /\ \A t \in LEVEL_ONE + 1 .. 2 * LEVEL_ONE - 1 : t \in Slot /\ t # Header
      /\ \A t \in 1 .. LEVEL_ONE : t \in Slot /\ t # Header
      /\ \A s \in 1 .. LEVEL_ONE, t \in LEVEL_ONE + 1 .. 2 * LEVEL_ONE - 1 : s # t
  BY <1>1 DEF Slot, Header
<1>10. \A i, j \in 0 .. LEVEL_ONE - 1 : Direct(i) = Direct(j) => i = j
  BY <1>1, <1>6
<1> QED
  BY <1>5, <1>6, <1>7, <1>8, <1>9, <1>10 DEF SlotsApart, Slot

\* A word stored in no page of a table, and not in its spare words, leaves the
\* pages as they are.
LEMMA KeepsPages ==
  ASSUME NEW d, NEW e, NEW r \in Block, NEW n, NEW b, NEW s, NEW v,
         Puts(d, e, r, b, s, v),
         \A i \in 0 .. n - 1 :
           /\ PageAt(e, r, i) = PageAt(d, r, i)
           /\ PageAt(d, r, i) \in Block \ {r, b},
         b = r => s \notin Spare
  PROVE  SamePages(d, r, e, r, n)
<1>1. \A t \in Spare : t \in Slot /\ t # Header
  BY DEF Spare
<1>2. \A t \in Spare : e[r][t] = d[r][t]
  BY <1>1 DEF Puts
<1>3. \A i \in 0 .. n - 1, t \in Slot : e[PageAt(d, r, i)][t] = d[PageAt(d, r, i)][t]
  BY DEF Puts
<1> QED BY <1>2, <1>3 DEF SamePages

\* A table depends on neither its header nor its spare words, nor on what its
\* pages hold.
LEMMA SameTable ==
  ASSUME TableFits, NEW d, NEW e, NEW r, NEW n, NEW m, NEW B,
         Whole(d, r, n, m, B),
         \A c \in B, t \in Slot :
           \/ c = r /\ (t = Header \/ t \in Spare)
           \/ \E i \in 0 .. n - 1 : c = PageAt(d, r, i)
           \/ e[c][t] = d[c][t]
  PROVE  /\ Whole(e, r, n, m, B)
         /\ SamePlaces(d, e, r, n)
         /\ SameIndexes(d, e, r, Large)
<1>1. SlotsApart
  BY Apart
<1>2. /\ LEVEL_ONE \in Nat /\ MaxPages \in Nat
      /\ n \in 0 .. MaxPages /\ m \in n .. MaxPages
      /\ r \in B
      /\ \A i \in 0 .. n - 1 : PageAt(d, r, i) \in B \ {r}
      /\ \A k \in LEVEL_ONE .. m - 1 : IndexAt(d, r, k) \in B \ {r}
      /\ \A i \in 0 .. n - 1, k \in LEVEL_ONE .. m - 1 :
           PageAt(d, r, i) # IndexAt(d, r, k)
  BY TableSizes DEF Whole
<1>3. /\ \A i \in 0 .. LEVEL_ONE - 1 : e[r][Direct(i)] = d[r][Direct(i)]
      /\ \A k \in Large : e[r][SlotOf(k)] = d[r][SlotOf(k)]
  <2>1. \A t \in Slot : t # Header /\ t \notin Spare => e[r][t] = d[r][t]
    BY <1>2
  <2>2. \A i \in 0 .. LEVEL_ONE - 1 :
          Direct(i) \in Slot /\ Direct(i) # Header /\ Direct(i) \notin Spare
    BY <1>1 DEF SlotsApart, Spare
  <2>3. \A k \in Large :
          SlotOf(k) \in Slot /\ SlotOf(k) # Header /\ SlotOf(k) \notin Spare
    BY <1>1 DEF SlotsApart, Spare
  <2> QED BY <2>1, <2>2, <2>3
<1>4. \A k \in Large : IndexAt(e, r, k) = IndexAt(d, r, k)
  BY <1>3 DEF IndexAt
<1>5. ASSUME NEW i \in 0 .. n - 1
      PROVE  PageAt(e, r, i) = PageAt(d, r, i)
  <2>1. CASE i < LEVEL_ONE
    <3>1. i \in 0 .. LEVEL_ONE - 1
      BY <1>2, <2>1
    <3> QED BY <1>3, <2>1, <3>1 DEF PageAt
  <2>2. CASE ~(i < LEVEL_ONE)
    <3>1. i \in LEVEL_ONE .. m - 1 /\ i \in Large
      BY <1>2, <2>2 DEF Large
    <3>2. \A t \in Slot : e[IndexAt(d, r, i)][t] = d[IndexAt(d, r, i)][t]
      BY <1>2, <3>1
    <3> QED BY <1>1, <1>4, <2>2, <3>1, <3>2 DEF PageAt, SlotsApart
  <2> QED BY <2>1, <2>2
<1>6. \A k \in LEVEL_ONE .. m - 1 : k \in Large
  BY <1>2 DEF Large
<1>7. Whole(e, r, n, m, B)
  BY <1>4, <1>5, <1>6 DEF Whole
<1> QED BY <1>4, <1>5, <1>7 DEF SamePlaces, SameIndexes

\* The first half of page_resize's growth: a page in the table itself.
LEMMA AddDirect ==
  ASSUME TableFits, NEW d, NEW e, NEW r, NEW n, NEW B, NEW x,
         Whole(d, r, n, n, B), B \subseteq Block,
         n < LEVEL_ONE, n < MaxPages, x \in Block \ B,
         Puts(d, e, r, r, Direct(n), x)
  PROVE  /\ Whole(e, r, n + 1, n + 1, B \cup {x})
         /\ SamePages(d, r, e, r, n)
         /\ PageAt(e, r, n) = x
<1>1. SlotsApart
  BY Apart
<1>2. /\ LEVEL_ONE \in Nat /\ MaxPages \in Nat /\ n \in 0 .. MaxPages - 1
      /\ n + 1 \in 0 .. MaxPages /\ n \in 0 .. LEVEL_ONE - 1
      /\ r \in B /\ r # x /\ r \in Block
      /\ \A i \in 0 .. n - 1 : PageAt(d, r, i) \in B \ {r}
      /\ \A i, j \in 0 .. n - 1 : PageAt(d, r, i) = PageAt(d, r, j) => i = j
      /\ \A b \in B : b = r \/ \E i \in 0 .. n - 1 : b = PageAt(d, r, i)
      /\ \A j \in Large : IndexAt(d, r, j) = 0
      /\ \A k \in LEVEL_ONE .. n : FALSE
  BY TableSizes DEF Whole
<1>3. \A c \in Block, t \in Slot :
        \/ c = r /\ t = Header
        \/ e[c][t] = IF c = r /\ t = Direct(n) THEN x ELSE d[c][t]
  BY DEF Puts
<1>4. \A k \in Large : IndexAt(e, r, k) = IndexAt(d, r, k)
  BY <1>1, <1>2, <1>3 DEF IndexAt, SlotsApart
<1>5. PageAt(e, r, n) = x
  BY <1>1, <1>2, <1>3 DEF PageAt, SlotsApart
<1>6. ASSUME NEW i \in 0 .. n - 1
      PROVE  PageAt(e, r, i) = PageAt(d, r, i)
  <2>1. i \in 0 .. LEVEL_ONE - 1 /\ i # n /\ i < LEVEL_ONE
    BY <1>2
  <2> QED BY <1>1, <1>2, <1>3, <2>1 DEF PageAt, SlotsApart
<1>7. SamePages(d, r, e, r, n)
  <2>1. Direct(n) \notin Spare
    BY <1>2 DEF Spare
  <2>2. \A i \in 0 .. n - 1 : PageAt(d, r, i) \in Block \ {r, r}
    BY <1>2
  <2> QED BY <1>2, <1>6, <2>1, <2>2, KeepsPages
<1>8. \A i \in 0 .. (n + 1) - 1 : i = n \/ i \in 0 .. n - 1
  BY <1>2
<1>9. Whole(e, r, n + 1, n + 1, B \cup {x})
  <2>1. \A i \in 0 .. (n + 1) - 1 : PageAt(e, r, i) \in (B \cup {x}) \ {r}
    BY <1>2, <1>5, <1>6, <1>8
  <2>2. \A i, j \in 0 .. (n + 1) - 1 : PageAt(e, r, i) = PageAt(e, r, j) => i = j
    BY <1>2, <1>5, <1>6, <1>8
  <2>3. \A b \in B \cup {x} :
          b = r \/ \E i \in 0 .. (n + 1) - 1 : b = PageAt(e, r, i)
    <3>1. n \in 0 .. (n + 1) - 1 /\ \A i \in 0 .. n - 1 : i \in 0 .. (n + 1) - 1
      BY <1>2
    <3> QED BY <1>2, <1>5, <1>6, <3>1
  <2>4. \A j \in Large : IndexAt(e, r, j) = 0
    BY <1>2, <1>4
  <2>5. \A k \in LEVEL_ONE .. (n + 1) - 1 : FALSE
    BY <1>2
  <2>6. n + 1 \in (n + 1) .. MaxPages
    BY <1>2
  <2> QED BY ONLY <1>2, <2>1, <2>2, <2>3, <2>4, <2>5, <2>6 DEF Whole
<1> QED BY <1>5, <1>7, <1>9

\* The second half: a new index block, of which only the number is stored.
LEMMA AddIndex ==
  ASSUME TableFits, NEW d, NEW e, NEW r, NEW n, NEW B, NEW x,
         Whole(d, r, n, n, B), B \subseteq Block, 0 \notin B,
         LEVEL_ONE <= n, n < MaxPages, x \in Block \ B,
         IndexAt(d, r, n) = 0,
         Puts(d, e, r, r, SlotOf(n), x)
  PROVE  /\ Whole(e, r, n, n + 1, B \cup {x})
         /\ SamePages(d, r, e, r, n)
         /\ IndexAt(e, r, n) = x
<1>1. SlotsApart
  BY Apart
<1>2. /\ LEVEL_ONE \in Nat /\ MaxPages \in Nat /\ n \in 0 .. MaxPages
      /\ n + 1 \in n .. MaxPages /\ n \in Large
      /\ r \in B /\ r # x /\ r \in Block
      /\ \A i \in 0 .. n - 1 : PageAt(d, r, i) \in B \ {r}
      /\ \A k \in LEVEL_ONE .. n - 1 : IndexAt(d, r, k) \in B \ {r}
      /\ \A i \in 0 .. n - 1, k \in LEVEL_ONE .. n - 1 :
           PageAt(d, r, i) # IndexAt(d, r, k)
      /\ \A i, j \in 0 .. n - 1 : PageAt(d, r, i) = PageAt(d, r, j) => i = j
      /\ \A j, k \in LEVEL_ONE .. n - 1 :
           IndexAt(d, r, j) = IndexAt(d, r, k) => SlotOf(j) = SlotOf(k)
      /\ \A b \in B : \/ b = r
                      \/ \E i \in 0 .. n - 1 : b = PageAt(d, r, i)
                      \/ \E k \in LEVEL_ONE .. n - 1 : b = IndexAt(d, r, k)
      /\ \A j \in Large :
           (\A k \in LEVEL_ONE .. n - 1 : SlotOf(k) # SlotOf(j)) =>
             IndexAt(d, r, j) = 0
  BY TableSizes DEF Whole, Large
<1>3. \A c \in Block, t \in Slot :
        \/ c = r /\ t = Header
        \/ e[c][t] = IF c = r /\ t = SlotOf(n) THEN x ELSE d[c][t]
  BY DEF Puts
<1>4. \A k \in LEVEL_ONE .. n - 1 : k \in Large
  BY <1>2 DEF Large
<1>5. \A k \in Large :
        IndexAt(e, r, k) = IF SlotOf(k) = SlotOf(n) THEN x ELSE IndexAt(d, r, k)
  BY <1>1, <1>2, <1>3 DEF IndexAt, SlotsApart
<1>6. \A k \in LEVEL_ONE .. n - 1 :
        SlotOf(k) # SlotOf(n) /\ IndexAt(e, r, k) = IndexAt(d, r, k)
  <2>1. \A k \in LEVEL_ONE .. n - 1 : SlotOf(k) = SlotOf(n) => IndexAt(d, r, k) = 0
    BY DEF IndexAt
  <2> QED BY <1>2, <1>4, <1>5, <2>1
<1>7. ASSUME NEW i \in 0 .. n - 1
      PROVE  PageAt(e, r, i) = PageAt(d, r, i)
  <2>1. CASE i < LEVEL_ONE
    <3>1. i \in 0 .. LEVEL_ONE - 1
      BY <1>2, <2>1
    <3> QED BY <1>1, <1>2, <1>3, <2>1, <3>1 DEF PageAt, SlotsApart
  <2>2. CASE ~(i < LEVEL_ONE)
    <3>1. i \in LEVEL_ONE .. n - 1
      BY <1>2, <2>2
    <3>2. i \in Large /\ IndexAt(d, r, i) \in Block /\ IndexAt(d, r, i) # r
      BY <1>2, <1>4, <3>1
    <3> QED BY <1>1, <1>3, <1>6, <2>2, <3>1, <3>2 DEF PageAt, SlotsApart
  <2> QED BY <2>1, <2>2
<1>8. SamePages(d, r, e, r, n)
  <2>1. SlotOf(n) \notin Spare
    BY <1>2 DEF Spare
  <2>2. \A i \in 0 .. n - 1 : PageAt(d, r, i) \in Block \ {r, r}
    BY <1>2
  <2> QED BY <1>2, <1>7, <2>1, <2>2, KeepsPages
<1>9. IndexAt(e, r, n) = x
  BY <1>2, <1>5
<1>10. \A k \in LEVEL_ONE .. (n + 1) - 1 : k = n \/ k \in LEVEL_ONE .. n - 1
  BY <1>2
<1>11. Whole(e, r, n, n + 1, B \cup {x})
  <2>1. \A i \in 0 .. n - 1 : PageAt(e, r, i) \in (B \cup {x}) \ {r}
    BY <1>2, <1>7
  <2>2. \A k \in LEVEL_ONE .. (n + 1) - 1 : IndexAt(e, r, k) \in (B \cup {x}) \ {r}
    BY <1>2, <1>6, <1>9, <1>10
  <2>3. \A i \in 0 .. n - 1, k \in LEVEL_ONE .. (n + 1) - 1 :
          PageAt(e, r, i) # IndexAt(e, r, k)
    BY <1>2, <1>6, <1>7, <1>9, <1>10
  <2>4. \A i, j \in 0 .. n - 1 : PageAt(e, r, i) = PageAt(e, r, j) => i = j
    BY <1>2, <1>7
  <2>5. \A j, k \in LEVEL_ONE .. (n + 1) - 1 :
           IndexAt(e, r, j) = IndexAt(e, r, k) => SlotOf(j) = SlotOf(k)
    BY <1>2, <1>6, <1>9, <1>10
  <2>6. \A b \in B \cup {x} :
          \/ b = r
          \/ \E i \in 0 .. n - 1 : b = PageAt(e, r, i)
          \/ \E k \in LEVEL_ONE .. (n + 1) - 1 : b = IndexAt(e, r, k)
    <3>1. n \in LEVEL_ONE .. (n + 1) - 1
          /\ \A k \in LEVEL_ONE .. n - 1 : k \in LEVEL_ONE .. (n + 1) - 1
      BY <1>2
    <3> QED BY <1>2, <1>6, <1>7, <1>9, <3>1
  <2>7. \A j \in Large :
          (\A k \in LEVEL_ONE .. (n + 1) - 1 : SlotOf(k) # SlotOf(j)) =>
            IndexAt(e, r, j) = 0
    <3>1. n \in LEVEL_ONE .. (n + 1) - 1
          /\ \A k \in LEVEL_ONE .. n - 1 : k \in LEVEL_ONE .. (n + 1) - 1
      BY <1>2
    <3> QED BY <1>2, <1>5, <3>1
  <2> QED BY ONLY <1>2, <2>1, <2>2, <2>3, <2>4, <2>5, <2>6, <2>7 DEF Whole
<1> QED BY <1>8, <1>9, <1>11

\* Or it is there already, with pages in it.
LEMMA HasIndex ==
  ASSUME NEW d, NEW r, NEW n, NEW B,
         Whole(d, r, n, n, B), LEVEL_ONE <= n, n < MaxPages,
         IndexAt(d, r, n) # 0
  PROVE  Whole(d, r, n, n + 1, B)
<1>1. /\ LEVEL_ONE \in Nat /\ MaxPages \in Nat /\ n \in 0 .. MaxPages
      /\ n + 1 \in n .. MaxPages /\ n \in Large
  BY TableSizes DEF Whole, Large
<1>2. PICK h \in LEVEL_ONE .. n - 1 : SlotOf(h) = SlotOf(n)
  BY <1>1 DEF Whole
<1>3. IndexAt(d, r, n) = IndexAt(d, r, h)
  BY <1>2 DEF IndexAt
<1>4. \A k \in LEVEL_ONE .. (n + 1) - 1 :
        k \in LEVEL_ONE .. n - 1
        \/ (IndexAt(d, r, k) = IndexAt(d, r, h) /\ SlotOf(k) = SlotOf(h))
  BY <1>1, <1>2, <1>3
<1>5. \A k \in LEVEL_ONE .. n - 1 : k \in LEVEL_ONE .. (n + 1) - 1
  BY <1>1
<1> QED BY <1>1, <1>2, <1>4, <1>5 DEF Whole

\* Block y is copied to x.
Copies(d, e, y, x) ==
  \A c \in Block, t \in Slot : e[c][t] = IF c = x THEN d[y][t] ELSE d[c][t]

\* The index block of page n is copied, and the copy stored in the table.
LEMMA CopyIndex ==
  ASSUME TableFits, NEW d, NEW f, NEW e, NEW r, NEW n, NEW m, NEW B, NEW x,
         NEW h \in LEVEL_ONE .. m - 1,
         Whole(d, r, n, m, B), B \subseteq Block, x \in Block \ B,
         Copies(d, f, IndexAt(d, r, h), x), Puts(f, e, r, r, SlotOf(h), x)
  PROVE  /\ Whole(e, r, n, m, (B \ {IndexAt(d, r, h)}) \cup {x})
         /\ SamePages(d, r, e, r, n)
         /\ IndexAt(e, r, h) = x
<1> DEFINE y == IndexAt(d, r, h)
<1>1. SlotsApart
  BY Apart
<1>2. /\ LEVEL_ONE \in Nat /\ MaxPages \in Nat
      /\ n \in 0 .. MaxPages /\ m \in n .. MaxPages
      /\ r \in B /\ r # x /\ r \in Block
      /\ \A i \in 0 .. n - 1 : PageAt(d, r, i) \in B \ {r}
      /\ \A k \in LEVEL_ONE .. m - 1 : IndexAt(d, r, k) \in B \ {r}
      /\ \A i \in 0 .. n - 1, k \in LEVEL_ONE .. m - 1 :
           PageAt(d, r, i) # IndexAt(d, r, k)
      /\ \A i, j \in 0 .. n - 1 : PageAt(d, r, i) = PageAt(d, r, j) => i = j
      /\ \A j, k \in LEVEL_ONE .. m - 1 :
           IndexAt(d, r, j) = IndexAt(d, r, k) => SlotOf(j) = SlotOf(k)
      /\ \A b \in B : \/ b = r
                      \/ \E i \in 0 .. n - 1 : b = PageAt(d, r, i)
                      \/ \E k \in LEVEL_ONE .. m - 1 : b = IndexAt(d, r, k)
      /\ \A j \in Large :
           (\A k \in LEVEL_ONE .. m - 1 : SlotOf(k) # SlotOf(j)) =>
             IndexAt(d, r, j) = 0
  BY TableSizes DEF Whole
<1>3. y \in B \ {r} /\ y \in Block /\ y # x
  BY <1>2
<1>4. \A c \in Block, t \in Slot :
        \/ c = r /\ t = Header
        \/ e[c][t] = IF c = r /\ t = SlotOf(h) THEN x
                     ELSE IF c = x THEN d[y][t] ELSE d[c][t]
  BY <1>2 DEF Puts, Copies
<1>5. \A k \in LEVEL_ONE .. m - 1 : k \in Large
  BY <1>2 DEF Large
<1>6. \A k \in Large :
        IndexAt(e, r, k) = IF SlotOf(k) = SlotOf(h) THEN x ELSE IndexAt(d, r, k)
  BY <1>1, <1>2, <1>4 DEF IndexAt, SlotsApart
<1>7. \A k \in LEVEL_ONE .. m - 1 : SlotOf(k) = SlotOf(h) <=> IndexAt(d, r, k) = y
  <2>1. \A k \in LEVEL_ONE .. m - 1 : SlotOf(k) = SlotOf(h) => IndexAt(d, r, k) = y
    BY DEF IndexAt
  <2> QED BY <1>2, <2>1
<1> HIDE DEF y
<1>8. ASSUME NEW i \in 0 .. n - 1
      PROVE  PageAt(e, r, i) = PageAt(d, r, i)
  <2>1. CASE i < LEVEL_ONE
    <3>1. i \in 0 .. LEVEL_ONE - 1 /\ h \in Large
      BY <1>2, <1>5, <2>1
    <3>2. Direct(i) \in Slot /\ Direct(i) # Header /\ Direct(i) # SlotOf(h)
      BY <1>1, <3>1 DEF SlotsApart
    <3>3. e[r][Direct(i)] = d[r][Direct(i)]
      BY <1>2, <1>4, <3>2
    <3> QED BY <2>1, <3>3 DEF PageAt
  <2>2. CASE ~(i < LEVEL_ONE)
    <3>1. i \in LEVEL_ONE .. m - 1
      BY <1>2, <2>2
    <3>2. /\ i \in Large /\ IndexAt(d, r, i) \in Block
          /\ IndexAt(d, r, i) # r /\ IndexAt(d, r, i) # x
          /\ DataSlot(i) \in Slot
      BY <1>1, <1>2, <1>5, <3>1 DEF SlotsApart
    <3>3. PageAt(e, r, i) = e[IndexAt(e, r, i)][DataSlot(i)]
          /\ PageAt(d, r, i) = d[IndexAt(d, r, i)][DataSlot(i)]
      BY <2>2 DEF PageAt
    <3>4. CASE SlotOf(i) = SlotOf(h)
      <4>1. IndexAt(e, r, i) = x /\ IndexAt(d, r, i) = y
        BY <1>6, <1>7, <3>1, <3>2, <3>4
      <4>2. x \in Block /\ x # r
        BY <1>2
      <4>3. e[x][DataSlot(i)] = d[y][DataSlot(i)]
        BY ONLY <1>4, <3>2, <4>2
      <4> QED BY ONLY <3>3, <4>1, <4>3
    <3>5. CASE SlotOf(i) # SlotOf(h)
      <4>1. IndexAt(e, r, i) = IndexAt(d, r, i)
        BY <1>6, <3>2, <3>5
      <4> QED BY <1>4, <3>2, <3>3, <4>1
    <3> QED BY <3>4, <3>5
  <2> QED BY <2>1, <2>2
<1>9. SamePages(d, r, e, r, n)
  <2>1. \A t \in Spare : t \in Slot /\ t # Header /\ t # SlotOf(h)
    BY <1>5 DEF Spare
  <2>2. \A t \in Spare : e[r][t] = d[r][t]
    BY <1>2, <1>4, <2>1
  <2>3. \A i \in 0 .. n - 1 : PageAt(d, r, i) \in Block \ {r, x}
    BY <1>2
  <2>4. \A i \in 0 .. n - 1, t \in Slot :
          e[PageAt(d, r, i)][t] = d[PageAt(d, r, i)][t]
    BY <1>4, <2>3
  <2> QED BY <1>8, <2>2, <2>4 DEF SamePages
<1>10. IndexAt(e, r, h) = x
  BY <1>5, <1>6
<1>11. \A k \in LEVEL_ONE .. m - 1 :
         \/ IndexAt(d, r, k) = y /\ IndexAt(e, r, k) = x /\ SlotOf(k) = SlotOf(h)
         \/ IndexAt(d, r, k) # y /\ IndexAt(e, r, k) = IndexAt(d, r, k)
  BY <1>5, <1>6, <1>7
<1>12. \A i \in 0 .. n - 1 : PageAt(d, r, i) # y
  BY <1>2 DEF y
<1>13. Whole(e, r, n, m, (B \ {y}) \cup {x})
  <2> DEFINE C == (B \ {y}) \cup {x}
  <2>1. r \in C /\ \A i \in 0 .. n - 1 : PageAt(e, r, i) \in C \ {r}
    BY <1>2, <1>3, <1>8, <1>12
  <2>2. \A k \in LEVEL_ONE .. m - 1 : IndexAt(e, r, k) \in C \ {r}
    BY <1>2, <1>11
  <2>3. \A i \in 0 .. n - 1, k \in LEVEL_ONE .. m - 1 :
          PageAt(e, r, i) # IndexAt(e, r, k)
    BY <1>2, <1>8, <1>11
  <2>4. \A i, j \in 0 .. n - 1 : PageAt(e, r, i) = PageAt(e, r, j) => i = j
    BY <1>2, <1>8
  <2>5. \A j, k \in LEVEL_ONE .. m - 1 :
           IndexAt(e, r, j) = IndexAt(e, r, k) => SlotOf(j) = SlotOf(k)
    BY <1>2, <1>11
  <2>6. \A b \in C :
          \/ b = r
          \/ \E i \in 0 .. n - 1 : b = PageAt(e, r, i)
          \/ \E k \in LEVEL_ONE .. m - 1 : b = IndexAt(e, r, k)
    BY <1>2, <1>8, <1>10, <1>11
  <2>7. \A j \in Large :
          (\A k \in LEVEL_ONE .. m - 1 : SlotOf(k) # SlotOf(j)) =>
            IndexAt(e, r, j) = 0
    BY <1>2, <1>6
  <2> HIDE DEF C
  <2>8. Whole(e, r, n, m, C)
    BY ONLY <1>2, <2>1, <2>2, <2>3, <2>4, <2>5, <2>6, <2>7 DEF Whole
  <2> QED BY <2>8 DEF C
<1> QED BY <1>9, <1>10, <1>13 DEF y

\* Then the page, whose number is stored in the index block.
LEMMA AddSlot ==
  ASSUME TableFits, NEW d, NEW e, NEW r, NEW n, NEW B, NEW x,
         Whole(d, r, n, n + 1, B), B \subseteq Block,
         LEVEL_ONE <= n, n < MaxPages, x \in Block \ B,
         Puts(d, e, r, IndexAt(d, r, n), DataSlot(n), x)
  PROVE  /\ Whole(e, r, n + 1, n + 1, B \cup {x})
         /\ SamePages(d, r, e, r, n)
         /\ PageAt(e, r, n) = x
<1> DEFINE y == IndexAt(d, r, n)
<1>1. SlotsApart
  BY Apart
<1>2. /\ LEVEL_ONE \in Nat /\ MaxPages \in Nat /\ n \in 0 .. MaxPages
      /\ n + 1 \in 0 .. MaxPages /\ n \in Large /\ n \in LEVEL_ONE .. (n + 1) - 1
      /\ n + 1 \in n + 1 .. MaxPages
      /\ r \in B /\ r # x /\ r \in Block
      /\ \A i \in 0 .. n - 1 : PageAt(d, r, i) \in B \ {r}
      /\ \A k \in LEVEL_ONE .. (n + 1) - 1 : IndexAt(d, r, k) \in B \ {r}
      /\ \A i \in 0 .. n - 1, k \in LEVEL_ONE .. (n + 1) - 1 :
           PageAt(d, r, i) # IndexAt(d, r, k)
      /\ \A i, j \in 0 .. n - 1 : PageAt(d, r, i) = PageAt(d, r, j) => i = j
      /\ \A j, k \in LEVEL_ONE .. (n + 1) - 1 :
           IndexAt(d, r, j) = IndexAt(d, r, k) => SlotOf(j) = SlotOf(k)
      /\ \A b \in B : \/ b = r
                      \/ \E i \in 0 .. n - 1 : b = PageAt(d, r, i)
                      \/ \E k \in LEVEL_ONE .. (n + 1) - 1 : b = IndexAt(d, r, k)
      /\ \A j \in Large :
           (\A k \in LEVEL_ONE .. (n + 1) - 1 : SlotOf(k) # SlotOf(j)) =>
             IndexAt(d, r, j) = 0
  BY TableSizes DEF Whole, Large
<1>3. \A c \in Block, t \in Slot :
        \/ c = r /\ t = Header
        \/ e[c][t] = IF c = y /\ t = DataSlot(n) THEN x ELSE d[c][t]
  BY DEF Puts
<1>4. \A k \in LEVEL_ONE .. (n + 1) - 1 : k \in Large
  BY <1>2 DEF Large
<1>5. y \in B \ {r} /\ y \in Block /\ y # x
  BY <1>2
<1>6. \A k \in Large : IndexAt(e, r, k) = IndexAt(d, r, k)
  BY <1>1, <1>2, <1>3, <1>5 DEF IndexAt, SlotsApart
<1>7. PageAt(e, r, n) = x
  <2>1. PageAt(e, r, n) = e[y][DataSlot(n)] /\ DataSlot(n) \in Slot
    BY <1>1, <1>2, <1>6 DEF PageAt, SlotsApart, Large
  <2> QED BY <1>3, <1>5, <2>1
<1>8. ASSUME NEW i \in 0 .. n - 1
      PROVE  PageAt(e, r, i) = PageAt(d, r, i)
  <2>1. CASE i < LEVEL_ONE
    <3>1. i \in 0 .. LEVEL_ONE - 1
      BY <1>2, <2>1
    <3> QED BY <1>1, <1>2, <1>3, <1>5, <2>1, <3>1 DEF PageAt, SlotsApart
  <2>2. CASE ~(i < LEVEL_ONE)
    <3>1. i \in LEVEL_ONE .. (n + 1) - 1 /\ i # n
      BY <1>2, <2>2
    <3>2. /\ i \in Large /\ IndexAt(d, r, i) \in Block
          /\ IndexAt(d, r, i) # r /\ DataSlot(i) \in Slot
      BY <1>1, <1>2, <1>4, <3>1 DEF SlotsApart
    <3>3. PageAt(e, r, i) = e[IndexAt(d, r, i)][DataSlot(i)]
          /\ PageAt(d, r, i) = d[IndexAt(d, r, i)][DataSlot(i)]
      BY <1>6, <2>2, <3>2 DEF PageAt
    <3>4. ~(IndexAt(d, r, i) = y /\ DataSlot(i) = DataSlot(n))
      <4>1. IndexAt(d, r, i) = y => SlotOf(i) = SlotOf(n)
        BY <1>2, <3>1
      <4> QED BY <1>1, <1>2, <3>1, <3>2, <4>1 DEF SlotsApart
    <3> QED BY <1>3, <3>2, <3>3, <3>4
  <2> QED BY <2>1, <2>2
<1>9. SamePages(d, r, e, r, n)
  <2>1. \A i \in 0 .. n - 1 : PageAt(d, r, i) \in Block \ {r, y}
    BY <1>2
  <2> QED BY <1>2, <1>5, <1>8, <2>1, KeepsPages
<1> HIDE DEF y
<1>10. \A i \in 0 .. (n + 1) - 1 : i = n \/ i \in 0 .. n - 1
  BY <1>2
<1>11. \A k \in LEVEL_ONE .. (n + 1) - 1 : IndexAt(e, r, k) = IndexAt(d, r, k)
  BY <1>4, <1>6
<1>12. Whole(e, r, n + 1, n + 1, B \cup {x})
  <2>1. \A i \in 0 .. (n + 1) - 1 : PageAt(e, r, i) \in (B \cup {x}) \ {r}
    BY <1>2, <1>7, <1>8, <1>10
  <2>2. \A k \in LEVEL_ONE .. (n + 1) - 1 : IndexAt(e, r, k) \in (B \cup {x}) \ {r}
    BY <1>2, <1>11
  <2>3. \A i \in 0 .. (n + 1) - 1, k \in LEVEL_ONE .. (n + 1) - 1 :
          PageAt(e, r, i) # IndexAt(e, r, k)
    BY <1>2, <1>7, <1>8, <1>10, <1>11
  <2>4. \A i, j \in 0 .. (n + 1) - 1 : PageAt(e, r, i) = PageAt(e, r, j) => i = j
    BY <1>2, <1>7, <1>8, <1>10
  <2>5. \A j, k \in LEVEL_ONE .. (n + 1) - 1 :
           IndexAt(e, r, j) = IndexAt(e, r, k) => SlotOf(j) = SlotOf(k)
    BY <1>2, <1>11
  <2>6. \A b \in B \cup {x} :
          \/ b = r
          \/ \E i \in 0 .. (n + 1) - 1 : b = PageAt(e, r, i)
          \/ \E k \in LEVEL_ONE .. (n + 1) - 1 : b = IndexAt(e, r, k)
    <3>1. n \in 0 .. (n + 1) - 1 /\ \A i \in 0 .. n - 1 : i \in 0 .. (n + 1) - 1
      BY <1>2
    <3> QED BY <1>2, <1>7, <1>8, <1>11, <3>1
  <2>7. \A j \in Large :
          (\A k \in LEVEL_ONE .. (n + 1) - 1 : SlotOf(k) # SlotOf(j)) =>
            IndexAt(e, r, j) = 0
    BY <1>2, <1>6
  <2> QED BY ONLY <1>2, <2>1, <2>2, <2>3, <2>4, <2>5, <2>6, <2>7 DEF Whole
<1> QED BY <1>7, <1>9, <1>12

\* Shrinking: the last page's number is cleared in the index block.
LEMMA DropSlot ==
  ASSUME TableFits, NEW d, NEW e, NEW r, NEW n, NEW B,
         Whole(d, r, n + 1, n + 1, B), B \subseteq Block,
         n \in Nat, LEVEL_ONE <= n,
         Puts(d, e, r, IndexAt(d, r, n), DataSlot(n), 0)
  PROVE  /\ Whole(e, r, n, n + 1, B \ {PageAt(d, r, n)})
         /\ SamePages(d, r, e, r, n)
         /\ \A k \in Large : IndexAt(e, r, k) = IndexAt(d, r, k)
         /\ PageAt(d, r, n) \in B
<1> DEFINE y == IndexAt(d, r, n)
           p == PageAt(d, r, n)
<1>1. SlotsApart
  BY Apart
<1>2. /\ LEVEL_ONE \in Nat /\ MaxPages \in Nat /\ n \in 0 .. MaxPages
      /\ n + 1 \in n .. MaxPages /\ n \in Large /\ n \in LEVEL_ONE .. (n + 1) - 1
      /\ n \in 0 .. (n + 1) - 1
      /\ r \in B /\ r \in Block
      /\ \A i \in 0 .. (n + 1) - 1 : PageAt(d, r, i) \in B \ {r}
      /\ \A k \in LEVEL_ONE .. (n + 1) - 1 : IndexAt(d, r, k) \in B \ {r}
      /\ \A i \in 0 .. (n + 1) - 1, k \in LEVEL_ONE .. (n + 1) - 1 :
           PageAt(d, r, i) # IndexAt(d, r, k)
      /\ \A i, j \in 0 .. (n + 1) - 1 : PageAt(d, r, i) = PageAt(d, r, j) => i = j
      /\ \A j, k \in LEVEL_ONE .. (n + 1) - 1 :
           IndexAt(d, r, j) = IndexAt(d, r, k) => SlotOf(j) = SlotOf(k)
      /\ \A b \in B : \/ b = r
                      \/ \E i \in 0 .. (n + 1) - 1 : b = PageAt(d, r, i)
                      \/ \E k \in LEVEL_ONE .. (n + 1) - 1 : b = IndexAt(d, r, k)
      /\ \A j \in Large :
           (\A k \in LEVEL_ONE .. (n + 1) - 1 : SlotOf(k) # SlotOf(j)) =>
             IndexAt(d, r, j) = 0
  BY TableSizes DEF Whole, Large
<1>3. \A c \in Block, t \in Slot :
        \/ c = r /\ t = Header
        \/ e[c][t] = IF c = y /\ t = DataSlot(n) THEN 0 ELSE d[c][t]
  BY DEF Puts
<1>4. \A k \in LEVEL_ONE .. (n + 1) - 1 : k \in Large
  BY <1>2 DEF Large
<1>5. y \in B \ {r} /\ y \in Block /\ p \in B \ {r}
  BY <1>2
<1>6. \A k \in Large : IndexAt(e, r, k) = IndexAt(d, r, k)
  BY <1>1, <1>2, <1>3, <1>5 DEF IndexAt, SlotsApart
<1>7. \A i \in 0 .. n - 1 : i \in 0 .. (n + 1) - 1 /\ i # n
  BY <1>2
<1>8. ASSUME NEW i \in 0 .. n - 1
      PROVE  PageAt(e, r, i) = PageAt(d, r, i)
  <2>1. CASE i < LEVEL_ONE
    <3>1. i \in 0 .. LEVEL_ONE - 1
      BY <1>2, <2>1
    <3> QED BY <1>1, <1>2, <1>3, <1>5, <2>1, <3>1 DEF PageAt, SlotsApart
  <2>2. CASE ~(i < LEVEL_ONE)
    <3>1. i \in LEVEL_ONE .. (n + 1) - 1 /\ i # n
      BY <1>2, <2>2
    <3>2. /\ i \in Large /\ IndexAt(d, r, i) \in Block
          /\ IndexAt(d, r, i) # r /\ DataSlot(i) \in Slot
      BY <1>1, <1>2, <1>4, <3>1 DEF SlotsApart
    <3>3. PageAt(e, r, i) = e[IndexAt(d, r, i)][DataSlot(i)]
          /\ PageAt(d, r, i) = d[IndexAt(d, r, i)][DataSlot(i)]
      BY <1>6, <2>2, <3>2 DEF PageAt
    <3>4. ~(IndexAt(d, r, i) = y /\ DataSlot(i) = DataSlot(n))
      <4>1. IndexAt(d, r, i) = y => SlotOf(i) = SlotOf(n)
        BY <1>2, <3>1
      <4> QED BY <1>1, <1>2, <3>1, <3>2, <4>1 DEF SlotsApart
    <3> QED BY <1>3, <3>2, <3>3, <3>4
  <2> QED BY <2>1, <2>2
<1>9. SamePages(d, r, e, r, n)
  <2>1. \A i \in 0 .. n - 1 : PageAt(d, r, i) \in Block \ {r, y}
    BY <1>2, <1>7
  <2> QED BY <1>2, <1>5, <1>8, <2>1, KeepsPages
<1>10. \A i \in 0 .. n - 1 : PageAt(d, r, i) # p
  BY <1>2, <1>7
<1>11. \A k \in LEVEL_ONE .. (n + 1) - 1 : IndexAt(d, r, k) # p
  BY <1>2
<1>12. \A b \in B \ {p} : \/ b = r
                          \/ \E i \in 0 .. n - 1 : b = PageAt(d, r, i)
                          \/ \E k \in LEVEL_ONE .. (n + 1) - 1 : b = IndexAt(d, r, k)
  <2>1. \A i \in 0 .. (n + 1) - 1 : i = n \/ i \in 0 .. n - 1
    BY <1>2
  <2> QED BY <1>2, <2>1
<1> HIDE DEF y, p
<1>13. \A k \in LEVEL_ONE .. (n + 1) - 1 : IndexAt(e, r, k) = IndexAt(d, r, k)
  BY <1>4, <1>6
<1>14. Whole(e, r, n, n + 1, B \ {p})
  <2>1. r \in B \ {p} /\ \A i \in 0 .. n - 1 : PageAt(e, r, i) \in (B \ {p}) \ {r}
    BY <1>2, <1>5, <1>7, <1>8, <1>10
  <2>2. \A k \in LEVEL_ONE .. (n + 1) - 1 : IndexAt(e, r, k) \in (B \ {p}) \ {r}
    BY <1>2, <1>11, <1>13
  <2>3. \A i \in 0 .. n - 1, k \in LEVEL_ONE .. (n + 1) - 1 :
          PageAt(e, r, i) # IndexAt(e, r, k)
    BY <1>2, <1>7, <1>8, <1>13
  <2>4. \A i, j \in 0 .. n - 1 : PageAt(e, r, i) = PageAt(e, r, j) => i = j
    BY <1>2, <1>7, <1>8
  <2>5. \A j, k \in LEVEL_ONE .. (n + 1) - 1 :
           IndexAt(e, r, j) = IndexAt(e, r, k) => SlotOf(j) = SlotOf(k)
    BY <1>2, <1>13
  <2>6. \A b \in B \ {p} :
          \/ b = r
          \/ \E i \in 0 .. n - 1 : b = PageAt(e, r, i)
          \/ \E k \in LEVEL_ONE .. (n + 1) - 1 : b = IndexAt(e, r, k)
    BY <1>8, <1>12, <1>13
  <2>7. \A j \in Large :
          (\A k \in LEVEL_ONE .. (n + 1) - 1 : SlotOf(k) # SlotOf(j)) =>
            IndexAt(e, r, j) = 0
    BY <1>2, <1>6
  <2> QED BY ONLY <1>2, <2>1, <2>2, <2>3, <2>4, <2>5, <2>6, <2>7 DEF Whole
<1> QED BY <1>5, <1>6, <1>9, <1>14 DEF p

\* The last page of an index block has gone, and so does the index block.
LEMMA DropIndex ==
  ASSUME TableFits, NEW d, NEW e, NEW r, NEW n, NEW B,
         Whole(d, r, n, n + 1, B), B \subseteq Block,
         n \in Nat, LEVEL_ONE <= n, INDEX1(n) = 0,
         Puts(d, e, r, r, SlotOf(n), 0)
  PROVE  /\ Whole(e, r, n, n, B \ {IndexAt(d, r, n)})
         /\ SamePages(d, r, e, r, n)
         /\ SameIndexes(d, e, r, LEVEL_ONE .. n - 1)
         /\ IndexAt(d, r, n) \in B \ {r}
<1> DEFINE y == IndexAt(d, r, n)
<1>1. SlotsApart
  BY Apart
<1>2. /\ LEVEL_ONE \in Nat /\ MaxPages \in Nat /\ n \in 0 .. MaxPages
      /\ n \in n .. MaxPages /\ n \in Large /\ n \in LEVEL_ONE .. (n + 1) - 1
      /\ r \in B /\ r \in Block
      /\ \A i \in 0 .. n - 1 : PageAt(d, r, i) \in B \ {r}
      /\ \A k \in LEVEL_ONE .. (n + 1) - 1 : IndexAt(d, r, k) \in B \ {r}
      /\ \A i \in 0 .. n - 1, k \in LEVEL_ONE .. (n + 1) - 1 :
           PageAt(d, r, i) # IndexAt(d, r, k)
      /\ \A i, j \in 0 .. n - 1 : PageAt(d, r, i) = PageAt(d, r, j) => i = j
      /\ \A j, k \in LEVEL_ONE .. (n + 1) - 1 :
           IndexAt(d, r, j) = IndexAt(d, r, k) => SlotOf(j) = SlotOf(k)
      /\ \A b \in B : \/ b = r
                      \/ \E i \in 0 .. n - 1 : b = PageAt(d, r, i)
                      \/ \E k \in LEVEL_ONE .. (n + 1) - 1 : b = IndexAt(d, r, k)
      /\ \A j \in Large :
           (\A k \in LEVEL_ONE .. (n + 1) - 1 : SlotOf(k) # SlotOf(j)) =>
             IndexAt(d, r, j) = 0
  BY TableSizes DEF Whole, Large
<1>3. \A c \in Block, t \in Slot :
        \/ c = r /\ t = Header
        \/ e[c][t] = IF c = r /\ t = SlotOf(n) THEN 0 ELSE d[c][t]
  BY DEF Puts
<1>4. \A k \in LEVEL_ONE .. n - 1 :
        k \in Large /\ k < n /\ k \in LEVEL_ONE .. (n + 1) - 1
  BY <1>2 DEF Large
<1>5. y \in B \ {r} /\ y \in Block
  BY <1>2
<1>6. \A k \in Large :
        IndexAt(e, r, k) = IF SlotOf(k) = SlotOf(n) THEN 0 ELSE IndexAt(d, r, k)
  BY <1>1, <1>2, <1>3 DEF IndexAt, SlotsApart
<1>7. \A k \in LEVEL_ONE .. n - 1 : SlotOf(k) # SlotOf(n)
  BY <1>1, <1>2, <1>4 DEF SlotsApart
<1>8. \A k \in LEVEL_ONE .. n - 1 :
        IndexAt(e, r, k) = IndexAt(d, r, k) /\ IndexAt(d, r, k) # y
  BY <1>2, <1>4, <1>6, <1>7
<1>9. ASSUME NEW i \in 0 .. n - 1
      PROVE  PageAt(e, r, i) = PageAt(d, r, i)
  <2>1. CASE i < LEVEL_ONE
    <3>1. i \in 0 .. LEVEL_ONE - 1
      BY <1>2, <2>1
    <3>2. Direct(i) \in Slot /\ Direct(i) # Header /\ Direct(i) # SlotOf(n)
      BY <1>1, <1>2, <3>1 DEF SlotsApart
    <3>3. e[r][Direct(i)] = d[r][Direct(i)]
      BY <1>2, <1>3, <3>2
    <3> QED BY <2>1, <3>3 DEF PageAt
  <2>2. CASE ~(i < LEVEL_ONE)
    <3>1. i \in LEVEL_ONE .. n - 1
      BY <1>2, <2>2
    <3>2. /\ i \in Large /\ IndexAt(d, r, i) \in Block
          /\ IndexAt(d, r, i) # r /\ DataSlot(i) \in Slot
      BY <1>1, <1>2, <1>4, <3>1 DEF SlotsApart
    <3> QED BY <1>3, <1>8, <2>2, <3>1, <3>2 DEF PageAt
  <2> QED BY <2>1, <2>2
<1>10. SamePages(d, r, e, r, n)
  <2>1. SlotOf(n) \notin Spare
    BY <1>2 DEF Spare
  <2>2. \A i \in 0 .. n - 1 : PageAt(d, r, i) \in Block \ {r, r}
    BY <1>2
  <2> QED BY <1>2, <1>9, <2>1, <2>2, KeepsPages
<1>11. \A i \in 0 .. n - 1 : PageAt(d, r, i) # y
  BY <1>2
<1>12. \A b \in B \ {y} : \/ b = r
                          \/ \E i \in 0 .. n - 1 : b = PageAt(d, r, i)
                          \/ \E k \in LEVEL_ONE .. n - 1 : b = IndexAt(d, r, k)
  <2>1. \A k \in LEVEL_ONE .. (n + 1) - 1 : k = n \/ k \in LEVEL_ONE .. n - 1
    BY <1>2
  <2> QED BY <1>2, <2>1
<1> HIDE DEF y
<1>13. Whole(e, r, n, n, B \ {y})
  <2>1. r \in B \ {y} /\ \A i \in 0 .. n - 1 : PageAt(e, r, i) \in (B \ {y}) \ {r}
    BY <1>2, <1>5, <1>9, <1>11
  <2>2. \A k \in LEVEL_ONE .. n - 1 : IndexAt(e, r, k) \in (B \ {y}) \ {r}
    BY <1>2, <1>4, <1>8
  <2>3. \A i \in 0 .. n - 1, k \in LEVEL_ONE .. n - 1 :
          PageAt(e, r, i) # IndexAt(e, r, k)
    BY <1>2, <1>4, <1>8, <1>9
  <2>4. \A i, j \in 0 .. n - 1 : PageAt(e, r, i) = PageAt(e, r, j) => i = j
    BY <1>2, <1>9
  <2>5. \A j, k \in LEVEL_ONE .. n - 1 :
           IndexAt(e, r, j) = IndexAt(e, r, k) => SlotOf(j) = SlotOf(k)
    BY <1>2, <1>4, <1>8
  <2>6. \A b \in B \ {y} :
          \/ b = r
          \/ \E i \in 0 .. n - 1 : b = PageAt(e, r, i)
          \/ \E k \in LEVEL_ONE .. n - 1 : b = IndexAt(e, r, k)
    BY <1>8, <1>9, <1>12
  <2>7. \A j \in Large :
          (\A k \in LEVEL_ONE .. n - 1 : SlotOf(k) # SlotOf(j)) =>
            IndexAt(e, r, j) = 0
    <3>1. \A k \in LEVEL_ONE .. (n + 1) - 1 : k = n \/ k \in LEVEL_ONE .. n - 1
      BY <1>2
    <3> QED BY <1>2, <1>6, <3>1
  <2> QED BY ONLY <1>2, <2>1, <2>2, <2>3, <2>4, <2>5, <2>6, <2>7 DEF Whole
<1> QED BY <1>5, <1>8, <1>10, <1>13 DEF y, SameIndexes

\* Or it has other pages, and stays.
LEMMA KeepIndex ==
  ASSUME TableFits, NEW d, NEW r, NEW n, NEW B,
         Whole(d, r, n, n + 1, B),
         n \in Nat, LEVEL_ONE <= n, INDEX1(n) # 0
  PROVE  Whole(d, r, n, n, B)
<1>1. /\ LEVEL_ONE \in Nat /\ MaxPages \in Nat /\ n \in 0 .. MaxPages
      /\ n \in n .. MaxPages /\ n \in Large
  BY TableSizes DEF Whole, Large
<1>2. n - 1 \in LEVEL_ONE .. n - 1 /\ SlotOf(n - 1) = SlotOf(n)
  BY Apart, <1>1 DEF SlotsApart, Large
<1>3. IndexAt(d, r, n) = IndexAt(d, r, n - 1)
  BY <1>2 DEF IndexAt
<1>4. \A k \in LEVEL_ONE .. (n + 1) - 1 :
        \/ k \in LEVEL_ONE .. n - 1
        \/ IndexAt(d, r, k) = IndexAt(d, r, n - 1) /\ SlotOf(k) = SlotOf(n - 1)
  BY <1>1, <1>2, <1>3
<1>5. \A k \in LEVEL_ONE .. n - 1 : k \in LEVEL_ONE .. (n + 1) - 1
  BY <1>1
<1> QED BY <1>1, <1>2, <1>4, <1>5 DEF Whole

\* The last page is in the table itself.
LEMMA DropDirect ==
  ASSUME TableFits, NEW d, NEW e, NEW r, NEW n, NEW B,
         Whole(d, r, n + 1, n + 1, B), B \subseteq Block,
         n \in Nat, n < LEVEL_ONE,
         Puts(d, e, r, r, Direct(n), 0)
  PROVE  /\ Whole(e, r, n, n, B \ {PageAt(d, r, n)})
         /\ SamePages(d, r, e, r, n)
         /\ PageAt(d, r, n) \in B \ {r}
<1> DEFINE p == PageAt(d, r, n)
<1>1. SlotsApart
  BY Apart
<1>2. /\ LEVEL_ONE \in Nat /\ MaxPages \in Nat /\ n \in 0 .. MaxPages
      /\ n \in n .. MaxPages /\ n \in 0 .. LEVEL_ONE - 1
      /\ n \in 0 .. (n + 1) - 1
      /\ r \in B /\ r \in Block
      /\ \A i \in 0 .. (n + 1) - 1 : PageAt(d, r, i) \in B \ {r}
      /\ \A i, j \in 0 .. (n + 1) - 1 : PageAt(d, r, i) = PageAt(d, r, j) => i = j
      /\ \A b \in B : b = r \/ \E i \in 0 .. (n + 1) - 1 : b = PageAt(d, r, i)
      /\ \A j \in Large : IndexAt(d, r, j) = 0
      /\ \A k \in LEVEL_ONE .. n - 1 : FALSE
  BY TableSizes DEF Whole
<1>3. \A c \in Block, t \in Slot :
        \/ c = r /\ t = Header
        \/ e[c][t] = IF c = r /\ t = Direct(n) THEN 0 ELSE d[c][t]
  BY DEF Puts
<1>4. \A k \in Large : IndexAt(e, r, k) = IndexAt(d, r, k)
  BY <1>1, <1>2, <1>3 DEF IndexAt, SlotsApart
<1>5. p \in B \ {r}
  BY <1>2
<1>6. \A i \in 0 .. n - 1 : i \in 0 .. (n + 1) - 1 /\ i # n
  BY <1>2
<1>7. ASSUME NEW i \in 0 .. n - 1
      PROVE  PageAt(e, r, i) = PageAt(d, r, i)
  <2>1. i \in 0 .. LEVEL_ONE - 1 /\ i # n /\ i < LEVEL_ONE
    BY <1>2
  <2> QED BY <1>1, <1>2, <1>3, <2>1 DEF PageAt, SlotsApart
<1>8. SamePages(d, r, e, r, n)
  <2>1. Direct(n) \notin Spare
    BY <1>2 DEF Spare
  <2>2. \A i \in 0 .. n - 1 : PageAt(d, r, i) \in Block \ {r, r}
    BY <1>2, <1>6
  <2> QED BY <1>2, <1>7, <2>1, <2>2, KeepsPages
<1>9. \A i \in 0 .. n - 1 : PageAt(d, r, i) # p
  BY <1>2, <1>6
<1>10. \A b \in B \ {p} : b = r \/ \E i \in 0 .. n - 1 : b = PageAt(d, r, i)
  <2>1. \A i \in 0 .. (n + 1) - 1 : i = n \/ i \in 0 .. n - 1
    BY <1>2
  <2> QED BY <1>2, <2>1
<1> HIDE DEF p
<1>11. Whole(e, r, n, n, B \ {p})
  <2>1. r \in B \ {p} /\ \A i \in 0 .. n - 1 : PageAt(e, r, i) \in (B \ {p}) \ {r}
    BY <1>2, <1>5, <1>6, <1>7, <1>9
  <2>2. \A i, j \in 0 .. n - 1 : PageAt(e, r, i) = PageAt(e, r, j) => i = j
    BY <1>2, <1>6, <1>7
  <2>3. \A b \in B \ {p} : b = r \/ \E i \in 0 .. n - 1 : b = PageAt(e, r, i)
    BY <1>7, <1>10
  <2>4. \A j \in Large : IndexAt(e, r, j) = 0
    BY <1>2, <1>4
  <2> QED BY ONLY <1>2, <2>1, <2>2, <2>3, <2>4 DEF Whole
<1> QED BY <1>5, <1>8, <1>11 DEF p

\* The root is copied.
LEMMA MoveRoot ==
  ASSUME TableFits, NEW d, NEW e, NEW r, NEW n, NEW m, NEW B, NEW x,
         Whole(d, r, n, m, B), B \subseteq Block, x \in Block \ B,
         Copies(d, e, r, x)
  PROVE  /\ Whole(e, x, n, m, (B \ {r}) \cup {x})
         /\ SamePages(d, r, e, x, n)
         /\ e[x][Header] = d[r][Header]
<1>1. SlotsApart
  BY Apart
<1>2. /\ LEVEL_ONE \in Nat /\ MaxPages \in Nat
      /\ n \in 0 .. MaxPages /\ m \in n .. MaxPages
      /\ r \in B
      /\ \A i \in 0 .. n - 1 : PageAt(d, r, i) \in B \ {r}
      /\ \A k \in LEVEL_ONE .. m - 1 : IndexAt(d, r, k) \in B \ {r}
      /\ \A i \in 0 .. n - 1, k \in LEVEL_ONE .. m - 1 :
           PageAt(d, r, i) # IndexAt(d, r, k)
      /\ \A i, j \in 0 .. n - 1 : PageAt(d, r, i) = PageAt(d, r, j) => i = j
      /\ \A j, k \in LEVEL_ONE .. m - 1 :
           IndexAt(d, r, j) = IndexAt(d, r, k) => SlotOf(j) = SlotOf(k)
      /\ \A b \in B : \/ b = r
                      \/ \E i \in 0 .. n - 1 : b = PageAt(d, r, i)
                      \/ \E k \in LEVEL_ONE .. m - 1 : b = IndexAt(d, r, k)
      /\ \A j \in Large :
           (\A k \in LEVEL_ONE .. m - 1 : SlotOf(k) # SlotOf(j)) =>
             IndexAt(d, r, j) = 0
  BY TableSizes DEF Whole
<1>3. /\ \A t \in Slot : e[x][t] = d[r][t]
      /\ \A c \in B, t \in Slot : e[c][t] = d[c][t]
  BY DEF Copies
<1>4. \A k \in Large : IndexAt(e, x, k) = IndexAt(d, r, k)
  BY <1>1, <1>3 DEF IndexAt, SlotsApart
<1>5. \A k \in LEVEL_ONE .. m - 1 : k \in Large
  BY <1>2 DEF Large
<1>6. ASSUME NEW i \in 0 .. n - 1
      PROVE  PageAt(e, x, i) = PageAt(d, r, i)
  <2>1. CASE i < LEVEL_ONE
    <3>1. i \in 0 .. LEVEL_ONE - 1
      BY <1>2, <2>1
    <3> QED BY <1>1, <1>3, <2>1, <3>1 DEF PageAt, SlotsApart
  <2>2. CASE ~(i < LEVEL_ONE)
    <3>1. i \in LEVEL_ONE .. m - 1 /\ i \in Large
      BY <1>2, <2>2 DEF Large
    <3> QED BY <1>1, <1>2, <1>3, <1>4, <2>2, <3>1 DEF PageAt, SlotsApart
  <2> QED BY <2>1, <2>2
<1>7. SamePages(d, r, e, x, n)
  <2>1. \A t \in Spare : e[x][t] = d[r][t]
    BY <1>3 DEF Spare
  <2>2. \A i \in 0 .. n - 1, t \in Slot :
          e[PageAt(d, r, i)][t] = d[PageAt(d, r, i)][t]
    BY <1>2, <1>3
  <2> QED BY <1>6, <2>1, <2>2 DEF SamePages
<1>8. \A k \in LEVEL_ONE .. m - 1 : IndexAt(e, x, k) = IndexAt(d, r, k)
  BY <1>4, <1>5
<1>9. Whole(e, x, n, m, (B \ {r}) \cup {x})
  <2> DEFINE C == (B \ {r}) \cup {x}
  <2>1. x \in C /\ \A i \in 0 .. n - 1 : PageAt(e, x, i) \in C \ {x}
    BY <1>2, <1>6
  <2>2. \A k \in LEVEL_ONE .. m - 1 : IndexAt(e, x, k) \in C \ {x}
    BY <1>2, <1>8
  <2>3. \A i \in 0 .. n - 1, k \in LEVEL_ONE .. m - 1 :
          PageAt(e, x, i) # IndexAt(e, x, k)
    BY <1>2, <1>6, <1>8
  <2>4. \A i, j \in 0 .. n - 1 : PageAt(e, x, i) = PageAt(e, x, j) => i = j
    BY <1>2, <1>6
  <2>5. \A j, k \in LEVEL_ONE .. m - 1 :
           IndexAt(e, x, j) = IndexAt(e, x, k) => SlotOf(j) = SlotOf(k)
    BY <1>2, <1>8
  <2>6. \A b \in C :
          \/ b = x
          \/ \E i \in 0 .. n - 1 : b = PageAt(e, x, i)
          \/ \E k \in LEVEL_ONE .. m - 1 : b = IndexAt(e, x, k)
    BY <1>2, <1>6, <1>8
  <2>7. \A j \in Large :
          (\A k \in LEVEL_ONE .. m - 1 : SlotOf(k) # SlotOf(j)) =>
            IndexAt(e, x, j) = 0
    BY <1>2, <1>4
  <2> HIDE DEF C
  <2>8. Whole(e, x, n, m, C)
    BY ONLY <1>2, <2>1, <2>2, <2>3, <2>4, <2>5, <2>6, <2>7 DEF Whole
  <2> QED BY <2>8 DEF C
<1> QED BY <1>1, <1>3, <1>7, <1>9 DEF SlotsApart

\* A root that has just been cleared.
LEMMA NewRoot ==
  ASSUME TableFits, NEW e, NEW x, \A t \in Slot : e[x][t] = 0
  PROVE  /\ Whole(e, x, 0, 0, {x})
         /\ e[x][Header] = 0
<1>1. SlotsApart /\ LEVEL_ONE \in Nat /\ LEVEL_ONE > 1 /\ MaxPages \in Nat
  BY Apart, TableSizes
<1>2. \A k \in Large : IndexAt(e, x, k) = 0
  BY <1>1 DEF IndexAt, SlotsApart
<1>3. /\ \A i \in 0 .. 0 - 1 : FALSE
      /\ \A i \in LEVEL_ONE .. 0 - 1 : FALSE
      /\ 0 \in 0 .. MaxPages
  BY <1>1
<1> QED BY <1>1, <1>2, <1>3 DEF Whole, SlotsApart

-----------------------------------------------------------------------------
(***************************************************************************)
(* Stores, as words change.                                                *)
(***************************************************************************)

\* A word of a block.
Words == Block \cup Payload

\* Block numbers and counts of pages can be stored in a block.
LEMMA ValueIsWords ==
  /\ Value = [Slot -> Words]
  /\ Zero = [t \in Slot |-> 0]
  /\ 0 \in Block
  /\ \A n \in 0 .. MaxPages : n \in Words
BY PageTableAssumption, Numbers DEF Slot, Words

\* A store into a word of a block changes that word alone.
LEMMA StoreWord ==
  ASSUME NEW d \in [Block -> Value], NEW c \in Block, NEW s \in Slot,
         NEW v \in Words
  PROVE  /\ [d EXCEPT ![c][s] = v] \in [Block -> Value]
         /\ \A b \in Block, t \in Slot : [d EXCEPT ![c][s] = v][b][t]
                = IF b = c /\ t = s THEN v ELSE d[b][t]
<1>1. d[c] \in [Slot -> Words]
  BY ValueIsWords
<1>2. [d[c] EXCEPT ![s] = v] \in [Slot -> Words]
  BY <1>1
<1>3. [d EXCEPT ![c][s] = v] = [d EXCEPT ![c] = [d[c] EXCEPT ![s] = v]]
  OBVIOUS
<1>4. \A b \in Block : [d EXCEPT ![c][s] = v][b]
                         = IF b = c THEN [d[c] EXCEPT ![s] = v] ELSE d[b]
  BY <1>3
<1>5. \A t \in Slot : [d[c] EXCEPT ![s] = v][t] = IF t = s THEN v ELSE d[c][t]
  BY <1>1
<1>6. [d EXCEPT ![c] = [d[c] EXCEPT ![s] = v]] \in [Block -> Value]
  BY <1>2, ValueIsWords
<1> QED BY <1>3, <1>4, <1>5, <1>6

\* The stores of page_resize and of its caller: a word, a word and then the
\* header of table r.
Stores(d, e, c, s, v) == e = [d EXCEPT ![c][s] = v]
StoresBoth(d, e, c, s, v, r, n) == e = [d EXCEPT ![c][s] = v, ![r][Header] = n]

\* Outside the blocks B nothing is stored.
SameOutside(d, e, B) == \A b \in Block \ B, t \in Slot : e[b][t] = d[b][t]

ChangesWord(d, e, c, s, v) ==
  \A b \in Block, t \in Slot :
    e[b][t] = IF b = c /\ t = s THEN v ELSE d[b][t]

\* A store as the lemmas about whole tables use it.
LEMMA StoresOne ==
  ASSUME NEW d \in [Block -> Value], NEW e, NEW c \in Block, NEW s \in Slot,
         NEW v \in Words, NEW r, Stores(d, e, c, s, v)
  PROVE  /\ e \in [Block -> Value]
         /\ Puts(d, e, r, c, s, v)
         /\ ChangesWord(d, e, c, s, v)
         /\ SameOutside(d, e, {c})
<1>1. /\ e \in [Block -> Value]
      /\ \A b \in Block, t \in Slot :
           e[b][t] = IF b = c /\ t = s THEN v ELSE d[b][t]
  <2> DEFINE f == [d EXCEPT ![c][s] = v]
  <2>1. /\ f \in [Block -> Value]
        /\ \A b \in Block, t \in Slot :
             f[b][t] = IF b = c /\ t = s THEN v ELSE d[b][t]
    BY StoreWord
  <2>2. e = f
    BY DEF Stores
  <2> HIDE DEF f
  <2> QED BY <2>1, <2>2
<1> QED BY <1>1 DEF Puts, SameOutside, ChangesWord

\* A store of a page's number and of the count of pages, by page_resize.
LEMMA StoresTwo ==
  ASSUME NEW d \in [Block -> Value], NEW e, NEW c \in Block, NEW s \in Slot,
         NEW v \in Words, NEW r \in Block, NEW n \in Words,
         Header \in Slot, ~(c = r /\ s = Header),
         StoresBoth(d, e, c, s, v, r, n)
  PROVE  /\ e \in [Block -> Value]
         /\ Puts(d, e, r, c, s, v)
         /\ e[r][Header] = n
         /\ SameOutside(d, e, {c, r})
<1> DEFINE f == [d EXCEPT ![c][s] = v]
<1>1. e = [f EXCEPT ![r][Header] = n]
  BY DEF StoresBoth
<1>2. /\ f \in [Block -> Value]
      /\ \A b \in Block, t \in Slot :
           f[b][t] = IF b = c /\ t = s THEN v ELSE d[b][t]
  BY StoreWord
<1> HIDE DEF f
<1>3. /\ e \in [Block -> Value]
      /\ \A b \in Block, t \in Slot :
           e[b][t] = IF b = r /\ t = Header THEN n ELSE f[b][t]
  <2> DEFINE g == [f EXCEPT ![r][Header] = n]
  <2>1. /\ g \in [Block -> Value]
        /\ \A b \in Block, t \in Slot :
             g[b][t] = IF b = r /\ t = Header THEN n ELSE f[b][t]
    BY <1>2, StoreWord
  <2>2. e = g
    BY <1>1
  <2> HIDE DEF g
  <2> QED BY <2>1, <2>2
<1> HIDE DEF f
<1> QED BY <1>2, <1>3 DEF Puts, SameOutside

\* Blocks with the same words are the same.
LEMMA SameWords ==
  ASSUME NEW d \in [Block -> Value], NEW e \in [Block -> Value], NEW b \in Block,
         \A t \in Slot : e[b][t] = d[b][t]
  PROVE  e[b] = d[b]
BY ValueIsWords

-----------------------------------------------------------------------------
(***************************************************************************)
(* What a call of the block API does to the record of the transaction.     *)
(***************************************************************************)

\* Block b is of this transaction.
New(b) == blocks[b] \notin {0, FREED}

\* A call after which the transaction is still open.
StaysOpen ==
  /\ IInv /\ IInv' /\ InTxn /\ InTxn'
  /\ Committed' = Committed
  /\ UNCHANGED <<txn, pc, freelist, objlist>>

\* The blocks the caller holds are committed and unchanged, or of this
\* transaction, and none of them is freed.
LEMMA LiveFacts ==
  ASSUME IInv, InTxn
  PROVE  /\ live \subseteq Block /\ 0 \notin live /\ Committed \subseteq Block
         /\ data \in [Block -> Value]
         /\ txn = TRUE /\ pc = "ready" /\ freelist = 2 /\ Mapped /\ ~Aborting
         /\ \A b \in live : /\ blocks[b] # FREED
                            /\ New(b) \/ blocks[b] = 0
                            /\ New(b) => b \notin Committed
<1>1. OpenFacts /\ TypeOK
  BY InTxnFacts DEF IInv
<1>2. live \subseteq Block /\ 0 \notin live /\ data \in [Block -> Value]
  BY <1>1, Numbers DEF TypeOK
<1>3. ASSUME NEW b \in live
      PROVE  blocks[b] # FREED
  <2>1. b # EDB_FREELIST_PRIMARY /\ b # EDB_OBJLIST /\ b \in Waiting
    BY <1>1, <1>2, Numbers DEF OpenFacts, TypeOK
  <2>2. b \notin Pending
    BY <1>1 DEF OpenFacts, Disjoint
  <2> QED BY <2>1, <2>2, PendingMember
<1>4. ASSUME NEW b \in live, New(b)
      PROVE  b \notin Committed
  <2>1. b \notin Pending
    BY <1>1 DEF OpenFacts, Disjoint
  <2>2. blocks[b] # 0
    BY <1>4 DEF New
  <2> QED BY <1>1, <2>1, <2>2 DEF Committed, OpenFacts
<1>5. Committed \subseteq Block
  <2>1. Pending \subseteq 4 .. nblocks - 1 /\ nblocks \in 4 .. MaxBlocks
    BY <1>1 DEF OpenFacts
  <2>2. Pending \subseteq Block
    BY <2>1, Numbers
  <2> QED BY <1>1, <1>2, <2>2 DEF Committed, OpenFacts
<1>6. txn = TRUE /\ pc = "ready" /\ freelist = 2 /\ Mapped /\ ~Aborting
  BY <1>1 DEF OpenFacts, InTxn
<1> QED BY <1>2, <1>3, <1>4, <1>5, <1>6 DEF New

\* An allocation takes one of the blocks.
LEMMA TakenIsBlock ==
  ASSUME IInv, InTxn, NEW s,
         Take(FreelistAllocate(flist[freelist], nblocks), s)
  PROVE  FreelistAllocate(flist[freelist], nblocks).block \in Block
<1>1. FreelistAllocate(flist[freelist], nblocks).block \in UserBlock
  BY TakeEffect
<1> QED BY <1>1, Numbers

\* txn_allocate_block: the block is one nobody holds, and of this transaction.
LEMMA AllocatedFacts ==
  ASSUME IInv, Allocated, NEW x,
         x = FreelistAllocate(flist[freelist], nblocks).block
  PROVE  /\ StaysOpen
         /\ x \in Block \ live /\ x # 0 /\ x \notin Committed
         /\ live' = live \cup {x}
         /\ New(x)' /\ \A b \in Block \ {x} : New(b)' = New(b)
<1>1. /\ InTxn /\ txn' = txn /\ pc' = pc /\ freelist' = freelist
      /\ objlist' = objlist /\ live' = live \cup {x}
      /\ Take(FreelistAllocate(flist[freelist], nblocks), ALLOCATED)
  BY DEF Allocated, loop
<1>2. IInv' /\ Committed' = Committed
  BY TakeStep
<1>3. /\ x \in UserBlock /\ x \notin live /\ x \notin Pending
      /\ blocks' = [blocks EXCEPT ![x] = ALLOCATED]
      /\ nblocks' \in nblocks .. MaxBlocks
  BY <1>1, TakeEffect
<1>4. OpenFacts
  BY <1>1, InTxnFacts
<1>5. InTxn'
  BY <1>1, <1>3, <1>4, Numbers DEF OpenFacts, InTxn, Ready, Mapped
<1>6. x \in Block \ live /\ x # 0 /\ x \notin Committed
  BY <1>3, <1>4, Numbers DEF Committed, OpenFacts
<1>7. New(x)' /\ \A b \in Block \ {x} : New(b)' = New(b)
  BY <1>3, <1>4, <1>6, Numbers DEF New, OpenFacts
<1> QED BY <1>1, <1>2, <1>5, <1>6, <1>7 DEF StaysOpen

\* txn_modify_block, of a committed block: the copy is one nobody holds.
LEMMA CopiedFacts ==
  ASSUME IInv, InTxn, NEW b \in live, NEW x, CopiedTo(b, x),
         live' = (live \ {b}) \cup {x}, objlist' = objlist
  PROVE  /\ StaysOpen
         /\ x \in Block \ live /\ x # 0 /\ x \notin Committed
         /\ New(x)' /\ \A c \in Block \ {x} : New(c)' = New(c)
<1>1. /\ txn' = txn /\ pc' = pc /\ freelist' = freelist
      /\ Take(FreelistAllocate(flist[freelist], nblocks), b)
      /\ x = FreelistAllocate(flist[freelist], nblocks).block
  BY DEF CopiedTo, loop
<1>2. IInv' /\ Committed' = Committed
  BY CopyStep
<1>3. /\ x \in UserBlock /\ x \notin live /\ x \notin Pending
      /\ blocks' = [blocks EXCEPT ![x] = b]
      /\ nblocks' \in nblocks .. MaxBlocks
  BY <1>1, TakeEffect
<1>4. OpenFacts
  BY InTxnFacts
<1>5. InTxn'
  BY <1>1, <1>3, <1>4, Numbers DEF OpenFacts, InTxn, Ready, Mapped
<1>6. x \in Block \ live /\ x # 0 /\ x \notin Committed
  BY <1>3, <1>4, Numbers DEF Committed, OpenFacts
<1>7. New(x)' /\ \A c \in Block \ {x} : New(c)' = New(c)
  <2>1. b \in 4 .. MaxBlocks - 1
    BY Numbers DEF IInv, TypeOK
  <2> QED BY <1>3, <1>4, <1>6, <2>1, Numbers DEF New, OpenFacts
<1> QED BY <1>1, <1>2, <1>5, <1>6, <1>7 DEF StaysOpen

\* txn_free_block: the caller has one block less, and the others stay as they
\* were.
LEMMA ReleasedFacts ==
  ASSUME IInv, NEW b \in live, Released(b)
  PROVE  /\ StaysOpen
         /\ live' = live \ {b}
         /\ \A c \in live \ {b} : New(c)' = New(c)
<1>1. /\ InTxn /\ txn' = txn /\ pc' = pc /\ freelist' = freelist
      /\ objlist' = objlist /\ live' = live \ {b} /\ nblocks' = nblocks
      /\ FreeAllocated(b) \/ FreeCopy(b) \/ FreeCommitted(b)
  BY DEF Released, loop, io
<1>2. IInv' /\ Committed' = Committed
  BY ReleaseStep
<1>3. OpenFacts
  BY <1>1, InTxnFacts
<1>4. InTxn'
  BY <1>1, <1>3 DEF OpenFacts, InTxn, Ready, Mapped
<1>5. ASSUME NEW c \in live \ {b}
      PROVE  blocks'[c] = blocks[c]
  <2>1. c \in Block /\ b \in Block
    BY <1>1, LiveFacts
  <2>2. CASE FreeAllocated(b) \/ FreeCommitted(b)
    BY <1>3, <2>1, <2>2 DEF FreeAllocated, FreeCommitted, OpenFacts
  <2>3. CASE FreeCopy(b)
    <3>1. IsCopy(b) /\ blocks' = [blocks EXCEPT ![b] = 0, ![blocks[b]] = FREED]
      BY <2>3 DEF FreeCopy
    <3>2. blocks[b] # c
      <4>1. SUFFICES ASSUME blocks[b] = c PROVE FALSE
        OBVIOUS
      <4>2. c \in UserBlock
        BY DEF IInv, TypeOK
      <4>3. c # EDB_FREELIST_PRIMARY /\ c # EDB_OBJLIST /\ b \in Waiting
        BY <1>3, <2>1, <4>2, Numbers DEF OpenFacts
      <4>4. c \in Pending
        BY <3>1, <4>1, <4>3, PendingMember
      <4> QED BY <1>3, <4>4 DEF OpenFacts, Disjoint
    <3> QED BY <1>3, <2>1, <3>1, <3>2 DEF OpenFacts
  <2> QED BY <1>1, <2>2, <2>3
<1>6. \A c \in live \ {b} : New(c)' = New(c)
  BY <1>5 DEF New
<1> QED BY <1>1, <1>2, <1>4, <1>6 DEF StaysOpen

-----------------------------------------------------------------------------
(***************************************************************************)
(* The list of a table's pages.                                            *)
(***************************************************************************)

PagesIn(d, r, n) == [i \in 1 .. n |-> d[PageAt(d, r, i - 1)][1]]

\* The pages of a table are a sequence of words.
LEMMA ListIsSeq ==
  ASSUME TableFits, NEW d \in [Block -> Value], NEW r, NEW n \in Nat,
         \A i \in 0 .. n - 1 : PageAt(d, r, i) \in Block
  PROVE  /\ PagesIn(d, r, n) \in Seq(Words)
         /\ Len(PagesIn(d, r, n)) = n
         /\ \A i \in 1 .. n : PagesIn(d, r, n)[i] = d[PageAt(d, r, i - 1)][1]
<1>1. ASSUME NEW i \in 1 .. n
      PROVE  d[PageAt(d, r, i - 1)][1] \in Words
  <2>1. i - 1 \in 0 .. n - 1 /\ 1 \in Slot
    BY Apart DEF SlotsApart
  <2> QED BY <2>1, ValueIsWords
<1>2. PagesIn(d, r, n) \in [1 .. n -> Words]
  BY <1>1 DEF PagesIn
<1>3. \A i \in 1 .. n : PagesIn(d, r, n)[i] = d[PageAt(d, r, i - 1)][1]
  BY DEF PagesIn
<1> HIDE DEF PagesIn
<1> QED BY <1>2, <1>3

\* The list stays when each page keeps its first word.
LEMMA ListKept ==
  ASSUME NEW d, NEW e, NEW r, NEW q, NEW n \in Nat, SamePages(d, r, e, q, n)
  PROVE  PagesIn(e, q, n) = PagesIn(d, r, n)
<1>1. 1 \in Slot /\ \A i \in 1 .. n : i - 1 \in 0 .. n - 1
  BY TableSizes DEF Slot
<1> QED BY <1>1 DEF PagesIn, SamePages

\* A page more is a word appended to the list.
LEMMA ListGrows ==
  ASSUME TableFits, NEW d \in [Block -> Value], NEW e \in [Block -> Value],
         NEW r, NEW n \in Nat,
         \A i \in 0 .. n - 1 : PageAt(d, r, i) \in Block,
         SamePages(d, r, e, r, n), PageAt(e, r, n) \in Block
  PROVE  \E w \in Words : PagesIn(e, r, n + 1) = Append(PagesIn(d, r, n), w)
<1> DEFINE s == PagesIn(d, r, n)
           t == PagesIn(e, r, n + 1)
           w == e[PageAt(e, r, n)][1]
<1>1. s \in Seq(Words) /\ Len(s) = n
      /\ \A i \in 1 .. n : s[i] = d[PageAt(d, r, i - 1)][1]
  BY ListIsSeq
<1>2. \A i \in 0 .. (n + 1) - 1 : PageAt(e, r, i) \in Block
  <2>1. \A i \in 0 .. (n + 1) - 1 : i = n \/ i \in 0 .. n - 1
    OBVIOUS
  <2> QED BY <2>1 DEF SamePages
<1>3. t \in Seq(Words) /\ Len(t) = n + 1
      /\ \A i \in 1 .. n + 1 : t[i] = e[PageAt(e, r, i - 1)][1]
  BY <1>2, ListIsSeq
<1>4. \A i \in 1 .. n : t[i] = s[i]
  <2> SUFFICES ASSUME NEW i \in 1 .. n PROVE t[i] = s[i]
    OBVIOUS
  <2>1. 1 \in Slot /\ i - 1 \in 0 .. n - 1 /\ i \in 1 .. n + 1
    BY TableSizes DEF Slot
  <2>2. t[i] = e[PageAt(e, r, i - 1)][1] /\ s[i] = d[PageAt(d, r, i - 1)][1]
    BY <1>1, <1>3, <2>1
  <2>3. /\ PageAt(e, r, i - 1) = PageAt(d, r, i - 1)
        /\ e[PageAt(d, r, i - 1)][1] = d[PageAt(d, r, i - 1)][1]
    BY <2>1 DEF SamePages
  <2> QED BY <2>2, <2>3
<1>5. t[n + 1] = w /\ w \in Words
  <2>1. n + 1 \in 1 .. n + 1 /\ (n + 1) - 1 = n /\ 1 \in Slot
    BY Apart DEF SlotsApart
  <2> QED BY <1>3, <2>1, ValueIsWords
<1> HIDE DEF s, t, w
<1>6. /\ Append(s, w) \in Seq(Words) /\ Len(Append(s, w)) = n + 1
      /\ \A i \in 1 .. n : Append(s, w)[i] = s[i]
      /\ Append(s, w)[n + 1] = w
  BY <1>1, <1>5, AppendProperties
<1>7. t = Append(s, w)
  <2> DEFINE a == Append(s, w)
  <2>1. a \in Seq(Words) /\ Len(t) = Len(a) /\ \A i \in 1 .. Len(t) : t[i] = a[i]
    <3>1. \A i \in 1 .. n + 1 : i \in 1 .. n \/ i = n + 1
      OBVIOUS
    <3> QED BY <1>3, <1>4, <1>5, <1>6, <3>1
  <2> HIDE DEF a
  <2>2. t = a
    BY <1>3, <2>1, SeqEqual
  <2> QED BY <2>2 DEF a
<1> QED BY <1>5, <1>7 DEF s, t

\* A page less is the list without its last word.
LEMMA ListShrinks ==
  ASSUME TableFits, NEW d \in [Block -> Value], NEW e \in [Block -> Value],
         NEW r, NEW n \in Nat,
         \A i \in 0 .. (n + 1) - 1 : PageAt(d, r, i) \in Block,
         SamePages(d, r, e, r, n)
  PROVE  \E k \in 0 .. Len(PagesIn(d, r, n + 1)) - 1 :
           PagesIn(e, r, n) = SubSeq(PagesIn(d, r, n + 1), 1, k)
<1> DEFINE s == PagesIn(d, r, n + 1)
           t == PagesIn(e, r, n)
<1>1. s \in Seq(Words) /\ Len(s) = n + 1
      /\ \A i \in 1 .. n + 1 : s[i] = d[PageAt(d, r, i - 1)][1]
  BY ListIsSeq
<1>2. \A i \in 0 .. n - 1 : PageAt(e, r, i) \in Block
  <2>1. \A i \in 0 .. n - 1 : i \in 0 .. (n + 1) - 1
    OBVIOUS
  <2> QED BY <2>1 DEF SamePages
<1>3. t \in Seq(Words) /\ Len(t) = n
      /\ \A i \in 1 .. n : t[i] = e[PageAt(e, r, i - 1)][1]
  BY <1>2, ListIsSeq
<1>4. \A i \in 1 .. n : t[i] = s[i]
  <2> SUFFICES ASSUME NEW i \in 1 .. n PROVE t[i] = s[i]
    OBVIOUS
  <2>1. 1 \in Slot /\ i - 1 \in 0 .. n - 1 /\ i \in 1 .. n + 1
    BY TableSizes DEF Slot
  <2>2. t[i] = e[PageAt(e, r, i - 1)][1] /\ s[i] = d[PageAt(d, r, i - 1)][1]
    BY <1>1, <1>3, <2>1
  <2>3. /\ PageAt(e, r, i - 1) = PageAt(d, r, i - 1)
        /\ e[PageAt(d, r, i - 1)][1] = d[PageAt(d, r, i - 1)][1]
    BY <2>1 DEF SamePages
  <2> QED BY <2>2, <2>3
<1> HIDE DEF s, t
<1> DEFINE u == SubSeq(s, 1, n)
<1>5. u \in Seq(Words) /\ Len(u) = n /\ \A i \in 1 .. n : u[i] = s[i]
  <2>1. \A i \in 1 .. n : s[i] \in Words
    BY <1>1
  <2>2. /\ u \in Seq(Words)
        /\ Len(u) = IF 1 <= n THEN n - 1 + 1 ELSE 0
        /\ \A i \in 1 .. n - 1 + 1 : u[i] = s[1 + i - 1]
    BY <2>1, SubSeqProperties
  <2> HIDE DEF u
  <2> QED BY <2>2
<1> HIDE DEF u
<1>6. t = u
  BY <1>3, <1>4, <1>5, SeqEqual
<1>7. n \in 0 .. Len(s) - 1
  BY <1>1
<1> QED BY <1>6, <1>7 DEF s, t, u

\* Of n pages, page h changes.
StoresPage(d, e, r, n, h, w) ==
  \A i \in 0 .. n - 1 :
    /\ PageAt(e, r, i) = PageAt(d, r, i)
    /\ e[PageAt(d, r, i)][1] = IF i = h THEN w ELSE d[PageAt(d, r, i)][1]

\* A store into a page changes that element of the list.
LEMMA ListStores ==
  ASSUME NEW d, NEW e, NEW r, NEW n \in Nat, NEW h \in 0 .. n - 1, NEW w,
         StoresPage(d, e, r, n, h, w)
  PROVE  /\ h + 1 \in DOMAIN PagesIn(d, r, n)
         /\ PagesIn(e, r, n) = [PagesIn(d, r, n) EXCEPT ![h + 1] = w]
<1>1. DOMAIN PagesIn(d, r, n) = 1 .. n
  BY DEF PagesIn
<1>2. \A i \in 1 .. n : /\ i - 1 \in 0 .. n - 1
                        /\ i - 1 = h <=> i = h + 1
  OBVIOUS
<1>3. h + 1 \in 1 .. n
  OBVIOUS
<1> DEFINE s == PagesIn(d, r, n)
           t == [s EXCEPT ![h + 1] = w]
<1>4. \A i \in 1 .. n : t[i] = IF i = h + 1 THEN w ELSE s[i]
  BY <1>1
<1>5. t = [i \in 1 .. n |-> IF i = h + 1 THEN w ELSE s[i]]
  BY <1>1
<1>6. \A i \in 1 .. n : s[i] = d[PageAt(d, r, i - 1)][1]
  BY DEF PagesIn
<1> HIDE DEF s, t
<1>7. PagesIn(e, r, n) = [i \in 1 .. n |-> e[PageAt(e, r, i - 1)][1]]
  BY DEF PagesIn
<1>8. \A i \in 1 .. n : e[PageAt(e, r, i - 1)][1] = IF i = h + 1 THEN w ELSE s[i]
  BY <1>2, <1>6 DEF StoresPage
<1>9. PagesIn(e, r, n) = t
  BY <1>5, <1>7, <1>8
<1> QED BY <1>1, <1>3, <1>9 DEF s, t

-----------------------------------------------------------------------------
(***************************************************************************)
(* The invariant.                                                          *)
(***************************************************************************)

\* What an abort gives back.
Saved ==
  IF savedRoot = 0 THEN Committed = {}
  ELSE Whole(data, savedRoot, Pages(savedRoot), Pages(savedRoot), Committed)

\* The caller holds a table with n pages, and index blocks for m.
Holds(n, m) == root # 0 /\ Whole(data, root, n, m, live)

\* The index blocks of the pages from m on are of this transaction.
NewFrom(m) == \A i \in Large : i \in m .. N - 1 => New(IndexBlock(root, i))

\* The table between two of page_resize's steps, on its way to m pages,
TableResize(m) == Holds(N, N) /\ New(root) /\ NewFrom(m)

\* when the index block of the next page is in it, and the page is not,
TableSlot(m) ==
  /\ Holds(N, N + 1) /\ New(root)
  /\ LEVEL_ONE <= N /\ N < m /\ New(IndexBlock(root, N))

\* and when the last page is not in it any more, and its index block is.
TableCleared(m) ==
  Holds(N - 1, N) /\ New(root) /\ LEVEL_ONE < N /\ m < N /\ NewFrom(m)

At(pl) == [at : {pl}, n : 0 .. MaxPages]

CallIdle == call = Idle /\ ((root = 0 /\ live = {}) \/ Holds(N, N))

CallResize == call \in At("resize") /\ TableResize(call.n)
CallSlot == call \in At("slot") /\ TableSlot(call.n)
CallCleared == call \in At("cleared") /\ TableCleared(call.n)

CallWrite ==
  /\ call \in [at : {"write"}, i : 0 .. MaxPages - 1, w : Payload]
  /\ Holds(N, N) /\ call.i < N /\ New(HostBlock(root, call.i))

Work ==
  InTxn => CallIdle \/ CallResize \/ CallSlot \/ CallCleared \/ CallWrite

Rest ==
  /\ objlist = EDB_OBJLIST
  /\ ~InTxn => call = Idle
  /\ root = savedRoot \/ (txn /\ pc = "ready" /\ ~Aborting)

TableInv == IInv /\ Saved /\ Work /\ Rest

Untouched ==
  (txn /\ pc = "ready" /\ txn') => \A b \in Committed : data'[b] = data[b]

ListStep == [PageList!Next]_(PageList!vars)

\* What every step does.
StepOK == TableInv' /\ Untouched /\ ListStep

-----------------------------------------------------------------------------

\* Pages and index blocks, as functions of the disk's contents.
LEMMA PagesAre ==
  /\ \A r, i : HostBlock(r, i) = PageAt(data, r, i)
  /\ \A r, i : IndexBlock(r, i) = IndexAt(data, r, i)
  /\ \A r, n : PagesOf(r, n) = PagesIn(data, r, n)
BY DEF HostBlock, IndexBlock, PagesOf, PagesIn, PageAt, IndexAt, SlotOf

\* The same, of the next state.
LEMMA PagesAreNext ==
  /\ \A r, i : HostBlock(r, i)' = PageAt(data', r, i)
  /\ \A r, i : IndexBlock(r, i)' = IndexAt(data', r, i)
  /\ \A r, n : PagesOf(r, n)' = PagesIn(data', r, n)
BY DEF HostBlock, IndexBlock, PagesOf, PagesIn, PageAt, IndexAt, SlotOf

\* What is left alone of the committed state is the saved table.
LEMMA SavedStays ==
  ASSUME TableFits, Saved, Committed \subseteq Block,
         Committed' = Committed, savedRoot' = savedRoot,
         \A b \in Committed, t \in Slot : data'[b][t] = data[b][t]
  PROVE  Saved' /\ SavedPages' = SavedPages
<1>1. CASE savedRoot = 0
  BY <1>1 DEF Saved, SavedPages
<1>2. CASE savedRoot # 0
  <2> DEFINE r == savedRoot
             n == Pages(savedRoot)
             B == Committed
  <2>1. Whole(data, r, n, n, B)
    BY <1>2 DEF Saved
  <2>2. r \in B /\ n \in 0 .. MaxPages
        /\ \A i \in 0 .. n - 1 : PageAt(data, r, i) \in B
    BY <2>1 DEF Whole
  <2>3. n' = n
    BY <2>2, Apart DEF Pages, SlotsApart
  <2> HIDE DEF r, n, B
  <2>4. /\ Whole(data', r, n, n, B)
        /\ SamePlaces(data, data', r, n)
    <3>1. \A c \in B, t \in Slot :
            \/ c = r /\ t = Header
            \/ \E i \in 0 .. n - 1 : c = PageAt(data, r, i)
            \/ data'[c][t] = data[c][t]
      BY DEF B
    <3>2. TableFits
      OBVIOUS
    <3> QED BY ONLY <2>1, <3>1, <3>2, SameTable
  <2>5. SamePages(data, r, data', r, n)
    <3>1. \A t \in Spare : t \in Slot
      BY DEF Spare
    <3>2. \A c \in B, t \in Slot : data'[c][t] = data[c][t]
      BY DEF B
    <3> QED BY <2>2, <2>4, <3>1, <3>2 DEF SamePages, SamePlaces
  <2>6. PagesIn(data', r, n) = PagesIn(data, r, n)
    BY <2>2, <2>5, ListKept, TableSizes
  <2>7. Saved'
    BY <1>2, <2>3, <2>4 DEF Saved, r, n, B
  <2>8. SavedPages = PagesIn(data, r, n)
    BY <1>2, PagesAre DEF SavedPages, r, n
  <2>9. SavedPages' = PagesIn(data', r, n)
    BY <1>2, <2>3, PagesAreNext DEF SavedPages, r, n
  <2> QED BY <2>6, <2>7, <2>8, <2>9
<1> QED BY <1>1, <1>2

\* The block contents are the same, too.
LEMMA SameContents ==
  ASSUME data \in [Block -> Value], data' \in [Block -> Value],
         Committed \subseteq Block,
         \A b \in Committed, t \in Slot : data'[b][t] = data[b][t]
  PROVE  Untouched
<1>1. ASSUME NEW b \in Committed
      PROVE  data'[b] = data[b]
  <2>1. b \in Block /\ \A t \in Slot : data'[b][t] = data[b][t]
    OBVIOUS
  <2> QED BY <2>1, SameWords
<1> QED BY <1>1 DEF Untouched

\* A call of the block API, and stores in blocks of this transaction.
LEMMA OpenStep ==
  ASSUME TableFits, TableInv, StaysOpen, savedRoot' = savedRoot,
         \A b \in Committed, t \in Slot : data'[b][t] = data[b][t],
         Work'
  PROVE  /\ TableInv' /\ Untouched
         /\ SavedPages' = SavedPages
         /\ TablePhase = "open" /\ TablePhase' = "open"
<1>1. /\ IInv /\ IInv' /\ InTxn /\ InTxn' /\ Committed' = Committed
      /\ txn' = txn /\ pc' = pc /\ freelist' = freelist /\ objlist' = objlist
  BY DEF StaysOpen
<1>2. /\ Committed \subseteq Block /\ data \in [Block -> Value]
      /\ txn = TRUE /\ pc = "ready" /\ freelist = 2 /\ Mapped /\ ~Aborting
  BY <1>1, LiveFacts
<1>3. data' \in [Block -> Value]
  BY <1>1 DEF IInv, TypeOK
<1>4. Untouched
  BY <1>2, <1>3, SameContents
<1>5. Saved' /\ SavedPages' = SavedPages
  BY <1>1, <1>2, SavedStays DEF TableInv
<1>6. ~Aborting' /\ Mapped'
  BY <1>1, <1>2, Numbers DEF Aborting, InTxn
<1>7. Rest'
  BY <1>1, <1>2, <1>6 DEF TableInv, Rest
<1>8. TablePhase = "open" /\ TablePhase' = "open"
  BY <1>1, <1>2, <1>6 DEF TablePhase
<1> QED BY <1>1, <1>4, <1>5, <1>7, <1>8 DEF TableInv

\* How its list of pages may change.
LEMMA KeepsList ==
  ASSUME TablePhase' = TablePhase, SavedPages' = SavedPages,
         WorkingPages' = WorkingPages
  PROVE  ListStep
BY DEF ListStep, PageList!vars

\* A step inside a transaction that stores, appends or removes a page is one a
\* list may take.
LEMMA ChangesList ==
  ASSUME TablePhase = "open", TablePhase' = "open", SavedPages' = SavedPages,
         \/ \E w \in Words : WorkingPages' = Append(WorkingPages, w)
         \/ \E k \in 0 .. Len(WorkingPages) - 1 :
              WorkingPages' = SubSeq(WorkingPages, 1, k)
         \/ \E i \in DOMAIN WorkingPages, w \in Words :
              WorkingPages' = [WorkingPages EXCEPT ![i] = w]
  PROVE  ListStep
<1>1. PageList!Changes
  BY DEF PageList!Changes
<1>2. CASE \E w \in Words : WorkingPages' = Append(WorkingPages, w)
  BY <1>1, <1>2 DEF ListStep, PageList!Next, PageList!Grow, Words
<1>3. CASE \E k \in 0 .. Len(WorkingPages) - 1 :
             WorkingPages' = SubSeq(WorkingPages, 1, k)
  BY <1>1, <1>3 DEF ListStep, PageList!Next, PageList!Shrink
<1>4. CASE \E i \in DOMAIN WorkingPages, w \in Words :
             WorkingPages' = [WorkingPages EXCEPT ![i] = w]
  BY <1>1, <1>4 DEF ListStep, PageList!Next, PageList!Store, Words
<1> QED BY <1>2, <1>3, <1>4

-----------------------------------------------------------------------------
(***************************************************************************)
(* What the steps of page_resize do to a table, whatever it is used for.   *)
(***************************************************************************)

\* Block b is of this transaction after the step.
IsNew(b) == blocks'[b] \notin {0, FREED}

\* A block is copied to block x.
MakesCopy(d, f, y, x) == f = [d EXCEPT ![x] = d[y]]

\* What a copy of a block is to the lemmas about whole tables.
LEMMA CopyMade ==
  ASSUME NEW d \in [Block -> Value], NEW f, NEW y \in Block, NEW x \in Block,
         MakesCopy(d, f, y, x)
  PROVE  /\ f \in [Block -> Value]
         /\ Copies(d, f, y, x)
         /\ SameOutside(d, f, {x})
<1>1. d[y] \in Value
  OBVIOUS
<1> QED BY <1>1 DEF MakesCopy, Copies, SameOutside

\* txn_modify_block of a block of this transaction leaves the record alone.
InPlace ==
  /\ InTxn
  /\ data' \in [Block -> Value]
  /\ rc' \in {rc, OK}
  /\ UNCHANGED <<io, flist, freelist, objlist, state, loop, live>>

\* A step that only stores leaves the record of the transaction alone.
LEMMA InPlaceFacts ==
  ASSUME IInv, InPlace
  PROVE  StaysOpen /\ live' = live /\ \A b \in Block : New(b)' = New(b)
<1>1. UNCHANGED <<io, flist, freelist, objlist, state, loop, live>> /\ InTxn
  BY DEF InPlace
<1>2. TypeOK'
  BY DEF IInv, TypeOK, InPlace, io, state, loop
<1>3. IInv' /\ Committed' = Committed
  BY <1>1, <1>2, QuietStep
<1> QED BY <1>1, <1>3 DEF StaysOpen, InTxn, Ready, Mapped, New, io, state, loop

\* A word stored again changes nothing.
LEMMA StoresSame ==
  ASSUME NEW d \in [Block -> Value], NEW e, NEW c \in Block, NEW s \in Slot,
         Stores(d, e, c, s, d[c][s])
  PROVE  e = d
<1>1. d[c][s] \in Words
  BY ValueIsWords
<1>2. e \in [Block -> Value] /\ ChangesWord(d, e, c, s, d[c][s])
  BY <1>1, StoresOne
<1>3. ASSUME NEW b \in Block
      PROVE  e[b] = d[b]
  <2>1. \A t \in Slot : e[b][t] = d[b][t]
    BY <1>2 DEF ChangesWord
  <2> QED BY <1>2, <2>1, SameWords
<1> QED BY <1>2, <1>3

\* What is not stored into keeps its contents.
LEMMA Elsewhere ==
  ASSUME NEW B, SameOutside(data, data', B), Committed \subseteq Block,
         B \cap Committed = {}
  PROVE  \A b \in Committed, t \in Slot : data'[b][t] = data[b][t]
BY DEF SameOutside

\* What a whole table says of the caller's blocks.
LEMMA WholeFacts ==
  ASSUME NEW n, NEW m, IInv, InTxn, Holds(n, m)
  PROVE  /\ Whole(data, root, n, m, live) /\ root # 0
         /\ root \in live /\ root \in Block
         /\ n \in Nat /\ m \in Nat /\ n \in 0 .. MaxPages /\ m \in n .. MaxPages
         /\ \A i \in 0 .. n - 1 : PageAt(data, root, i) \in live \ {root}
         /\ \A i \in 0 .. n - 1 : PageAt(data, root, i) \in Block
         /\ \A k \in LEVEL_ONE .. m - 1 : IndexAt(data, root, k) \in live \ {root}
         /\ live \subseteq Block /\ 0 \notin live
<1>1. live \subseteq Block /\ 0 \notin live
  BY LiveFacts
<1>2. Whole(data, root, n, m, live) /\ root # 0
  BY DEF Holds
<1>3. /\ n \in 0 .. MaxPages /\ m \in n .. MaxPages /\ root \in live
      /\ \A i \in 0 .. n - 1 : PageAt(data, root, i) \in live \ {root}
      /\ \A k \in LEVEL_ONE .. m - 1 : IndexAt(data, root, k) \in live \ {root}
  BY <1>2 DEF Whole
<1> QED BY <1>1, <1>2, <1>3, TableSizes

\* A step that leaves the first n pages of the caller's table as they are,
\* the saved state too, and the transaction open.
KeptPages(n) ==
  /\ StaysOpen /\ SamePages(data, root, data', root, n)
  /\ root' = root /\ savedRoot' = savedRoot
  /\ \A b \in Committed, t \in Slot : data'[b][t] = data[b][t]

\* After it the table has n pages, on its way to m,
DoneResize(n, m) ==
  /\ Whole(data', root, n, n, live') /\ data'[root][Header] = n /\ IsNew(root)
  /\ \A i \in Large : i \in m .. n - 1 => IsNew(IndexAt(data', root, i))

\* the index block for one more,
DoneSlot(n) ==
  /\ Whole(data', root, n, n + 1, live') /\ data'[root][Header] = n
  /\ IsNew(root) /\ IsNew(IndexAt(data', root, n))

\* or n pages, and the count and the index block of one more.
DoneCleared(n, m) ==
  /\ Whole(data', root, n, n + 1, live') /\ data'[root][Header] = n + 1
  /\ IsNew(root)
  /\ \A i \in Large : i \in m .. n => IsNew(IndexAt(data', root, i))

\* A page in one of the first slots.
LEMMA GrowDirectDone ==
  ASSUME TableFits, IInv, TableResize(call.n), call.n \in 0 .. MaxPages,
         GrowDirect
  PROVE  /\ KeptPages(N) /\ DoneResize(N + 1, call.n)
         /\ IsNew(PageAt(data', root, N))
<1> SUFFICES ASSUME NEW x,
                    x = FreelistAllocate(flist[freelist], nblocks).block
             PROVE  /\ KeptPages(N) /\ DoneResize(N + 1, call.n)
                    /\ IsNew(PageAt(data', root, N))
  OBVIOUS
<1>1. /\ InTxn /\ Resizing /\ N < call.n /\ N < LEVEL_ONE
      /\ Take(FreelistAllocate(flist[freelist], nblocks), ALLOCATED)
      /\ live' = live \cup {x}
      /\ UNCHANGED <<freelist, objlist, txn, ts_nblocks, loop>>
  BY DEF GrowDirect, Allocate
<1>2. root' = root /\ savedRoot' = savedRoot /\ call' = call
  BY DEF GrowDirect, table
<1>3. StoresBoth(data, data', root, Direct(N), x, root, N + 1)
  BY DEF GrowDirect, Allocate, StoresBoth
<1>4. IInv
  OBVIOUS
<1>5. /\ Holds(N, N) /\ New(root) /\ call.n \in 0 .. MaxPages
  BY DEF TableResize
<1>6. /\ Whole(data, root, N, N, live) /\ root # 0
      /\ root \in live /\ root \in Block
      /\ N \in Nat /\ N \in 0 .. MaxPages
      /\ \A i \in 0 .. N - 1 : PageAt(data, root, i) \in Block
      /\ live \subseteq Block
  BY <1>1, <1>4, <1>5, WholeFacts
<1>7. data \in [Block -> Value] /\ x \in Block
  BY <1>1, <1>4, LiveFacts, TakeEffect, Numbers
<1>8. N < LEVEL_ONE /\ N < MaxPages /\ N + 1 \in 0 .. MaxPages /\ N \in 0 .. LEVEL_ONE - 1
  BY <1>1, <1>5, <1>6, TableSizes
<1>9. /\ Direct(N) \in Slot /\ Direct(N) # Header /\ Header \in Slot
      /\ x \in Words /\ N + 1 \in Words
  BY <1>7, <1>8, Apart, ValueIsWords DEF SlotsApart, Words
<1>10. /\ data' \in [Block -> Value]
       /\ Puts(data, data', root, root, Direct(N), x)
       /\ data'[root][Header] = N + 1
       /\ SameOutside(data, data', {root, root})
  <2>1. /\ StoresBoth(data, data', root, Direct(N), x, root, N + 1)
        /\ data \in [Block -> Value] /\ root \in Block
        /\ Direct(N) \in Slot /\ Direct(N) # Header /\ Header \in Slot
        /\ x \in Words /\ N + 1 \in Words
    BY <1>3, <1>6, <1>7, <1>9
  <2> QED BY ONLY <2>1, StoresTwo
<1>11. Allocated
  BY <1>1, <1>10 DEF Allocated
<1>12. /\ StaysOpen
       /\ x \in Block \ live /\ New(x)'
       /\ \A b \in Block \ {x} : New(b)' = New(b)
  BY <1>4, <1>11, AllocatedFacts
<1>13. /\ Whole(data', root, N + 1, N + 1, live')
       /\ SamePages(data, root, data', root, N)
       /\ PageAt(data', root, N) = x
  <2>1. live' = live \cup {x} /\ x \in Block \ live
    BY <1>1, <1>12
  <2>2. /\ Whole(data', root, N + 1, N + 1, live \cup {x})
        /\ SamePages(data, root, data', root, N)
        /\ PageAt(data', root, N) = x
    <3>1. /\ TableFits /\ Whole(data, root, N, N, live) /\ live \subseteq Block
          /\ N < LEVEL_ONE /\ N < MaxPages /\ x \in Block \ live
          /\ Puts(data, data', root, root, Direct(N), x)
      BY <1>6, <1>8, <1>10, <2>1
    <3> QED BY ONLY <3>1, AddDirect
  <2> QED BY <2>1, <2>2
<1>14. IsNew(root) /\ IsNew(PageAt(data', root, N))
  BY <1>5, <1>6, <1>12, <1>13 DEF New, IsNew
<1>15. \A b \in Committed, t \in Slot : data'[b][t] = data[b][t]
  BY <1>1, <1>4, <1>5, <1>6, <1>10, LiveFacts DEF SameOutside
<1>16. \A i \in Large : i \in call.n .. (N + 1) - 1 => FALSE
  BY <1>1, <1>5, <1>6
<1> QED
  BY <1>2, <1>10, <1>12, <1>13, <1>14, <1>15, <1>16 DEF KeptPages, DoneResize

\* The index block of the next page is new, of this transaction, or copied.
LEMMA GrowIndexDone ==
  ASSUME TableFits, IInv, TableResize(call.n), call.n \in 0 .. MaxPages,
         GrowIndex
  PROVE  KeptPages(N) /\ DoneSlot(N)
<1> SUFFICES ASSUME NEW x, NEW y,
                    x = FreelistAllocate(flist[freelist], nblocks).block,
                    y = IndexAt(data, root, N)
             PROVE  KeptPages(N) /\ DoneSlot(N)
  OBVIOUS
<1>2. /\ Holds(N, N) /\ New(root) /\ call.n \in 0 .. MaxPages /\ InTxn
  BY DEF TableResize, GrowIndex, Allocate, Modify
<1>3. /\ Whole(data, root, N, N, live) /\ root # 0
      /\ root \in live /\ root \in Block
      /\ N \in Nat /\ N \in 0 .. MaxPages
      /\ live \subseteq Block /\ 0 \notin live /\ root \notin Committed
  BY <1>2, WholeFacts, LiveFacts
<1>1. /\ Resizing /\ N < call.n /\ LEVEL_ONE <= N
      /\ Goes("slot") /\ root' = root /\ savedRoot' = savedRoot
      /\ InTxn /\ UNCHANGED <<freelist, objlist, txn, ts_nblocks, loop>>
  BY <1>3, TableSizes DEF GrowIndex, Allocate, Modify
<1>4. N < MaxPages /\ N \in Large
  BY <1>1, <1>2, <1>3, TableSizes DEF Large
<1>5. SlotOf(N) \in Slot /\ SlotOf(N) # Header /\ Header \in Slot
  BY <1>4, Apart DEF SlotsApart
<1>6. data \in [Block -> Value] /\ Committed \subseteq Block
  BY <1>1, <1>2, LiveFacts
<1>7. data[root][Header] = N
  BY DEF N, Pages
<1>8. \/ /\ y = 0 /\ Take(FreelistAllocate(flist[freelist], nblocks), ALLOCATED)
         /\ live' = live \cup {x} /\ Stores(data, data', root, SlotOf(N), x)
      \/ /\ y # 0 /\ New(y) /\ rc' = OK /\ UNCHANGED <<io, flist, blocks, live>>
         /\ Stores(data, data', root, SlotOf(N), y)
      \/ /\ y # 0 /\ blocks[y] = 0
         /\ Take(FreelistAllocate(flist[freelist], nblocks), y)
         /\ live' = (live \ {y}) \cup {x}
         /\ Stores([data EXCEPT ![x] = data[y]], data', root, SlotOf(N), x)
  BY DEF GrowIndex, Allocate, Modify, Stores, SlotOf, New, IndexBlock, IndexAt
<1>9. CASE /\ y = 0 /\ Take(FreelistAllocate(flist[freelist], nblocks), ALLOCATED)
           /\ live' = live \cup {x} /\ Stores(data, data', root, SlotOf(N), x)
  <2>1. x \in Block /\ x \in Words
    BY <1>1, <1>2, <1>9, TakenIsBlock DEF Words
  <2>2. /\ data' \in [Block -> Value]
        /\ Puts(data, data', root, root, SlotOf(N), x)
        /\ SameOutside(data, data', {root})
        /\ ChangesWord(data, data', root, SlotOf(N), x)
    BY <1>3, <1>5, <1>6, <1>9, <2>1, StoresOne
  <2>3. Allocated
    BY <1>1, <1>9, <2>2 DEF Allocated
  <2>4. StaysOpen /\ x \in Block \ live /\ New(x)'
        /\ \A b \in Block \ {x} : New(b)' = New(b)
    BY <1>2, <2>3, AllocatedFacts
  <2>5. /\ Whole(data', root, N, N + 1, live')
        /\ SamePages(data, root, data', root, N)
        /\ IndexAt(data', root, N) = x
    <3>1. /\ TableFits /\ Whole(data, root, N, N, live) /\ live \subseteq Block
          /\ 0 \notin live /\ LEVEL_ONE <= N /\ N < MaxPages
          /\ x \in Block \ live /\ IndexAt(data, root, N) = 0
          /\ Puts(data, data', root, root, SlotOf(N), x)
      BY <1>1, <1>3, <1>4, <1>9, <2>2, <2>4
    <3>2. /\ Whole(data', root, N, N + 1, live \cup {x})
          /\ SamePages(data, root, data', root, N)
          /\ IndexAt(data', root, N) = x
      BY ONLY <3>1, AddIndex
    <3> QED BY <1>9, <3>2
  <2>6. data'[root][Header] = N /\ IsNew(root) /\ IsNew(IndexAt(data', root, N))
    BY <1>2, <1>3, <1>5, <1>7, <2>2, <2>4, <2>5 DEF IsNew, New, ChangesWord
  <2>7. \A b \in Committed, t \in Slot : data'[b][t] = data[b][t]
    BY <1>3, <1>6, <2>2, Elsewhere
  <2> QED BY <1>1, <2>4, <2>5, <2>6, <2>7 DEF KeptPages, DoneSlot
<1>10. CASE y # 0
  <2>1. /\ Whole(data, root, N, N + 1, live)
        /\ y \in live /\ y \in Block /\ y # root
    <3>1. Whole(data, root, N, N + 1, live)
      BY <1>1, <1>3, <1>4, <1>10, HasIndex
    <3>2. N \in LEVEL_ONE .. (N + 1) - 1
      BY <1>1, <1>3, TableSizes
    <3>3. IndexAt(data, root, N) \in live \ {root}
      BY <3>1, <3>2 DEF Whole
    <3> QED BY <1>3, <3>1, <3>3
  <2>2. CASE /\ New(y) /\ rc' = OK /\ UNCHANGED <<io, flist, blocks, live>>
             /\ Stores(data, data', root, SlotOf(N), y)
    <3>1. y = data[root][SlotOf(N)]
      BY DEF IndexAt
    <3>2. data' = data
      BY <1>3, <1>5, <1>6, <2>2, <3>1, StoresSame
    <3>3. InPlace
      BY <1>1, <1>6, <2>2, <3>2 DEF InPlace, state
    <3>4. StaysOpen /\ live' = live /\ \A b \in Block : New(b)' = New(b)
      BY <1>2, <3>3, InPlaceFacts
    <3>5. /\ Whole(data', root, N, N + 1, live')
          /\ SamePages(data, root, data', root, N)
          /\ data'[root][Header] = N /\ IndexAt(data', root, N) = y
      BY <1>7, <2>1, <3>2, <3>4 DEF SamePages
    <3>6. IsNew(root) /\ IsNew(IndexAt(data', root, N))
      BY <1>2, <1>3, <2>1, <2>2, <3>4, <3>5 DEF IsNew, New
    <3>7. \A b \in Committed, t \in Slot : data'[b][t] = data[b][t]
      BY <3>2
    <3> QED BY <1>1, <3>4, <3>5, <3>6, <3>7 DEF KeptPages, DoneSlot
  <2>3. CASE /\ blocks[y] = 0
             /\ Take(FreelistAllocate(flist[freelist], nblocks), y)
             /\ live' = (live \ {y}) \cup {x}
             /\ Stores([data EXCEPT ![x] = data[y]], data', root, SlotOf(N), x)
    <3>2. x \in Block /\ x \in Words
      <4>1. Take(FreelistAllocate(flist[freelist], nblocks), y)
        BY <2>3
      <4> QED BY <1>1, <1>2, <4>1, TakenIsBlock DEF Words
    <3> DEFINE f == [data EXCEPT ![x] = data[y]]
    <3>1. MakesCopy(data, f, y, x) /\ Stores(f, data', root, SlotOf(N), x)
      BY <2>3 DEF MakesCopy
    <3> HIDE DEF f
    <3>3. /\ f \in [Block -> Value] /\ Copies(data, f, y, x)
          /\ SameOutside(data, f, {x})
      BY <1>6, <2>1, <3>1, <3>2, CopyMade
    <3>4. /\ data' \in [Block -> Value]
          /\ Puts(f, data', root, root, SlotOf(N), x)
          /\ SameOutside(f, data', {root})
          /\ ChangesWord(f, data', root, SlotOf(N), x)
      BY <1>3, <1>5, <3>1, <3>2, <3>3, StoresOne
    <3>5. CopiedTo(y, x) /\ live' = (live \ {y}) \cup {x} /\ objlist' = objlist
      BY <1>1, <2>3, <3>4 DEF CopiedTo
    <3>6. /\ StaysOpen /\ x \in Block \ live /\ x \notin Committed /\ New(x)'
          /\ \A b \in Block \ {x} : New(b)' = New(b)
      BY <1>1, <1>2, <2>1, <3>5, CopiedFacts
    <3>7. /\ Whole(data', root, N, N + 1, live')
          /\ SamePages(data, root, data', root, N)
          /\ IndexAt(data', root, N) = x
      <4> SUFFICES ASSUME NEW m, m = N + 1
                   PROVE  /\ Whole(data', root, N, m, live')
                          /\ SamePages(data, root, data', root, N)
                          /\ IndexAt(data', root, N) = x
        OBVIOUS
      <4>1. N \in LEVEL_ONE .. m - 1
        BY <1>1, <1>3, TableSizes
      <4>2. /\ TableFits /\ Whole(data, root, N, m, live)
            /\ live \subseteq Block /\ x \in Block \ live
            /\ Copies(data, f, IndexAt(data, root, N), x)
            /\ Puts(f, data', root, root, SlotOf(N), x)
        BY <1>3, <2>1, <3>3, <3>4, <3>6
      <4>3. /\ Whole(data', root, N, m, (live \ {IndexAt(data, root, N)}) \cup {x})
            /\ SamePages(data, root, data', root, N)
            /\ IndexAt(data', root, N) = x
        BY ONLY <4>1, <4>2, CopyIndex
      <4> QED BY <2>3, <4>3
    <3>8. data'[root][Header] = N
      BY <1>3, <1>5, <1>7, <3>3, <3>4, <3>6 DEF ChangesWord, SameOutside
    <3>9. IsNew(root) /\ IsNew(IndexAt(data', root, N))
      BY <1>2, <1>3, <3>6, <3>7 DEF IsNew, New
    <3>10. \A b \in Committed, t \in Slot : data'[b][t] = data[b][t]
      BY <1>3, <1>6, <3>3, <3>4, <3>6 DEF SameOutside
    <3> QED BY <1>1, <3>6, <3>7, <3>8, <3>9, <3>10 DEF KeptPages, DoneSlot
  <2> QED BY <1>8, <1>10, <2>2, <2>3
<1> QED BY <1>8, <1>9, <1>10

\* A page in a slot of an index block.
LEMMA GrowSlotDone ==
  ASSUME TableFits, IInv, TableSlot(call.n), call.n \in 0 .. MaxPages, GrowSlot
  PROVE  /\ KeptPages(N) /\ DoneResize(N + 1, call.n)
         /\ IsNew(PageAt(data', root, N)) /\ IsNew(IndexAt(data', root, N))
<1> SUFFICES ASSUME NEW x, NEW y, NEW n,
                    x = FreelistAllocate(flist[freelist], nblocks).block,
                    y = IndexAt(data, root, N), n = N
             PROVE  /\ KeptPages(n) /\ DoneResize(n + 1, call.n)
                    /\ IsNew(PageAt(data', root, n))
                    /\ IsNew(IndexAt(data', root, n))
  OBVIOUS
<1>1. /\ call.at = "slot" /\ InTxn
      /\ Take(FreelistAllocate(flist[freelist], nblocks), ALLOCATED)
      /\ live' = live \cup {x}
      /\ UNCHANGED <<freelist, objlist, txn, ts_nblocks, loop>>
      /\ Goes("resize") /\ root' = root /\ savedRoot' = savedRoot
  BY DEF GrowSlot, Allocate
<1>2. StoresBoth(data, data', y, DataSlot(n), x, root, n + 1)
  BY DEF GrowSlot, Allocate, StoresBoth, IndexBlock, IndexAt, SlotOf
<1>3. /\ IInv /\ Holds(n, n + 1) /\ New(root)
      /\ call.n \in 0 .. MaxPages
      /\ LEVEL_ONE <= n /\ n < call.n /\ New(y) /\ root \notin Committed
  <2>1. /\ Holds(n, n + 1) /\ New(root) /\ LEVEL_ONE <= n /\ n < call.n /\ New(y)
    BY PagesAre DEF TableSlot
  <2>2. root \notin Committed
    BY <1>1, <2>1, LiveFacts DEF Holds, Whole
  <2> QED BY <2>1, <2>2
<1>4. /\ Whole(data, root, n, n + 1, live) /\ root # 0
      /\ root \in live /\ root \in Block
      /\ n \in Nat /\ n \in 0 .. MaxPages
      /\ \A i \in 0 .. n - 1 : PageAt(data, root, i) \in Block
      /\ live \subseteq Block
      /\ \A k \in LEVEL_ONE .. (n + 1) - 1 : IndexAt(data, root, k) \in live \ {root}
  BY <1>1, <1>3, WholeFacts
<1>5. /\ n < MaxPages /\ n \in Large /\ n + 1 \in 0 .. MaxPages
      /\ n \in LEVEL_ONE .. (n + 1) - 1
  BY <1>3, <1>4, TableSizes DEF Large
<1>6. /\ data \in [Block -> Value] /\ x \in Block /\ Committed \subseteq Block
      /\ y \in live /\ y # root /\ y \in Block /\ y \notin Committed
  <2>1. data \in [Block -> Value] /\ x \in Block /\ Committed \subseteq Block
    BY <1>1, <1>3, LiveFacts, TakeEffect, Numbers
  <2>2. y \in live /\ y # root /\ y \in Block
    BY <1>4, <1>5
  <2>3. y \notin Committed
    BY <1>1, <1>3, <2>2, LiveFacts
  <2> QED BY <2>1, <2>2, <2>3
<1>7. /\ DataSlot(n) \in Slot /\ Header \in Slot
      /\ x \in Words /\ n + 1 \in Words
  BY <1>5, <1>6, Apart, ValueIsWords DEF SlotsApart, Words
<1>8. /\ data' \in [Block -> Value]
      /\ Puts(data, data', root, y, DataSlot(n), x)
      /\ data'[root][Header] = n + 1
      /\ SameOutside(data, data', {y, root})
  <2>1. /\ StoresBoth(data, data', y, DataSlot(n), x, root, n + 1)
        /\ data \in [Block -> Value] /\ root \in Block /\ y \in Block
        /\ DataSlot(n) \in Slot /\ y # root /\ Header \in Slot
        /\ x \in Words /\ n + 1 \in Words
    BY <1>2, <1>4, <1>6, <1>7
  <2> QED BY ONLY <2>1, StoresTwo
<1>9. Allocated
  BY <1>1, <1>8 DEF Allocated
<1>10. StaysOpen /\ x \in Block \ live /\ New(x)' /\ \A b \in Block \ {x} : New(b)' = New(b)
  BY <1>3, <1>9, AllocatedFacts
<1>11. /\ Whole(data', root, n + 1, n + 1, live')
       /\ SamePages(data, root, data', root, n)
       /\ PageAt(data', root, n) = x
  <2>1. /\ TableFits /\ Whole(data, root, n, n + 1, live) /\ live \subseteq Block
        /\ LEVEL_ONE <= n /\ n < MaxPages /\ x \in Block \ live
        /\ Puts(data, data', root, IndexAt(data, root, n), DataSlot(n), x)
    BY <1>3, <1>4, <1>5, <1>8, <1>10
  <2>2. /\ Whole(data', root, n + 1, n + 1, live \cup {x})
        /\ SamePages(data, root, data', root, n)
        /\ PageAt(data', root, n) = x
    BY ONLY <2>1, AddSlot
  <2> QED BY <1>1, <2>2
<1>12. IsNew(root) /\ IsNew(PageAt(data', root, n))
  BY <1>3, <1>4, <1>10, <1>11 DEF New, IsNew
<1>13. IsNew(IndexAt(data', root, n))
  <2>1. IndexAt(data', root, n) = y
    BY <1>4, <1>5, <1>6, <1>8, Apart DEF IndexAt, Puts, SlotsApart
  <2> QED BY <1>3, <1>6, <1>10, <2>1 DEF New, IsNew
<1>14. \A i \in Large : i \in call.n .. (n + 1) - 1 => FALSE
  BY <1>3, <1>4
<1>15. \A b \in Committed, t \in Slot : data'[b][t] = data[b][t]
  BY <1>3, <1>6, <1>8, Elsewhere
<1> QED
  BY <1>1, <1>8, <1>10, <1>11, <1>12, <1>13, <1>14, <1>15 DEF KeptPages, DoneResize

\* The last page of those that are to go, of a large table.
LEMMA ShrinkFacts ==
  ASSUME TableFits, NEW n \in Nat, NEW m \in {n, n + 1}, N = n + 1, IInv, InTxn,
         Holds(m, n + 1), LEVEL_ONE <= n, call.n \in 0 .. MaxPages, call.n <= n,
         NewFrom(call.n), New(root)
  PROVE  /\ n < MaxPages /\ n \in Large
         /\ n \in LEVEL_ONE .. (n + 1) - 1
         /\ IndexAt(data, root, n) \in live \ {root}
         /\ New(IndexAt(data, root, n))
         /\ IndexAt(data, root, n) \notin Committed /\ root \notin Committed
         /\ SlotOf(n) \in Slot /\ SlotOf(n) # Header /\ DataSlot(n) \in Slot
         /\ Header \in Slot
<1>1. /\ n + 1 \in 0 .. MaxPages /\ root \in live
      /\ \A k \in LEVEL_ONE .. (n + 1) - 1 : IndexAt(data, root, k) \in live \ {root}
  BY WholeFacts
<1>2. n < MaxPages /\ n \in Large /\ n \in LEVEL_ONE .. (n + 1) - 1
      /\ n \in call.n .. N - 1
  BY <1>1, TableSizes DEF Large
<1>3. New(IndexAt(data, root, n))
  BY <1>2, PagesAre DEF NewFrom
<1>4. IndexAt(data, root, n) \in live \ {root}
  BY <1>1, <1>2
<1>5. IndexAt(data, root, n) \notin Committed /\ root \notin Committed
  BY <1>1, <1>3, <1>4, LiveFacts
<1> QED BY <1>2, <1>3, <1>4, <1>5, Apart DEF SlotsApart

\* The last page of a large table is freed, and its slot cleared.
LEMMA ShrinkSlotDone ==
  ASSUME TableFits, IInv, TableResize(call.n), call.n \in 0 .. MaxPages,
         ShrinkSlot
  PROVE  KeptPages(N - 1) /\ DoneCleared(N - 1, call.n)
<1> SUFFICES ASSUME NEW h, NEW y, NEW n,
                    n = N - 1, h = PageAt(data, root, n), y = IndexAt(data, root, n)
             PROVE  KeptPages(n) /\ DoneCleared(n, call.n)
  OBVIOUS
<1>1. /\ Resizing /\ N > call.n /\ N > LEVEL_ONE /\ Release(h,
           [data EXCEPT ![IndexBlock(root, N - 1)][DataSlot(N - 1)] = 0])
      /\ Goes("cleared") /\ root' = root /\ savedRoot' = savedRoot
  BY PagesAre DEF ShrinkSlot
<1>2. /\ InTxn /\ live' = live \ {h}
      /\ Stores(data, data', y, DataSlot(n), 0)
  BY <1>1, PagesAre DEF Release, Stores
<1>3. Holds(N, N) /\ New(root) /\ call.n \in 0 .. MaxPages
  BY DEF TableResize
<1>4. /\ n \in Nat /\ N = n + 1 /\ n + 1 \in 0 .. MaxPages /\ LEVEL_ONE <= n
      /\ call.n <= n
      /\ Whole(data, root, n + 1, n + 1, live) /\ root # 0
      /\ root \in live /\ root \in Block /\ live \subseteq Block
      /\ \A i \in 0 .. (n + 1) - 1 : PageAt(data, root, i) \in Block
  <2>1. /\ N \in Nat /\ N \in 0 .. MaxPages
        /\ Whole(data, root, N, N, live) /\ root # 0
        /\ root \in live /\ root \in Block /\ live \subseteq Block
        /\ \A i \in 0 .. N - 1 : PageAt(data, root, i) \in Block
    BY <1>2, <1>3, WholeFacts
  <2>2. n \in Nat /\ N = n + 1 /\ LEVEL_ONE <= n /\ call.n <= n
    BY <1>1, <1>3, <2>1, TableSizes
  <2> QED BY <2>1, <2>2
<1>5. NewFrom(call.n)
  BY DEF TableResize
<1>6. /\ n < MaxPages /\ n \in Large
      /\ y \in live \ {root} /\ New(y) /\ y \notin Committed
      /\ DataSlot(n) \in Slot /\ Header \in Slot
  BY <1>2, <1>3, <1>4, <1>5, ShrinkFacts
<1>7. /\ data \in [Block -> Value] /\ Committed \subseteq Block /\ 0 \in Words
  BY <1>2, <1>3, LiveFacts, ValueIsWords DEF Words
<1>8. /\ data' \in [Block -> Value]
      /\ Puts(data, data', root, y, DataSlot(n), 0)
      /\ SameOutside(data, data', {y})
  <2>1. /\ data \in [Block -> Value] /\ y \in Block /\ DataSlot(n) \in Slot
        /\ 0 \in Words /\ Stores(data, data', y, DataSlot(n), 0)
    BY <1>2, <1>4, <1>6, <1>7
  <2> QED BY ONLY <2>1, StoresOne
<1>9. /\ Whole(data', root, n, n + 1, live')
      /\ SamePages(data, root, data', root, n)
      /\ \A k \in Large : IndexAt(data', root, k) = IndexAt(data, root, k)
      /\ h \in live
  <2>1. /\ TableFits /\ Whole(data, root, n + 1, n + 1, live)
        /\ live \subseteq Block /\ n \in Nat /\ LEVEL_ONE <= n
        /\ Puts(data, data', root, IndexAt(data, root, n), DataSlot(n), 0)
    BY <1>4, <1>8
  <2>2. /\ Whole(data', root, n, n + 1, live \ {PageAt(data, root, n)})
        /\ SamePages(data, root, data', root, n)
        /\ \A k \in Large : IndexAt(data', root, k) = IndexAt(data, root, k)
        /\ PageAt(data, root, n) \in live
    BY ONLY <2>1, DropSlot
  <2> QED BY <1>2, <2>2
<1>10. Released(h)
  BY <1>1, <1>8 DEF Release, Released
<1>11. StaysOpen /\ \A c \in live \ {h} : New(c)' = New(c)
  BY <1>3, <1>9, <1>10, ReleasedFacts
<1>12. data'[root][Header] = n + 1
  BY <1>4, <1>6, <1>8 DEF N, Pages, SameOutside
<1>13. root \in live \ {h} /\ \A i \in Large : i \in call.n .. n =>
         IndexAt(data, root, i) \in live \ {h}
  <2>1. /\ n \in 0 .. (n + 1) - 1
        /\ \A i \in Large : i \in call.n .. n => i \in LEVEL_ONE .. (n + 1) - 1
    BY <1>3, <1>4, TableSizes DEF Large
  <2>2. /\ PageAt(data, root, n) # root
        /\ \A i \in LEVEL_ONE .. (n + 1) - 1 :
             /\ IndexAt(data, root, i) \in live
             /\ IndexAt(data, root, i) # PageAt(data, root, n)
    BY <1>4, <2>1 DEF Whole
  <2> QED BY <1>4, <2>1, <2>2
<1>14. IsNew(root)
  BY <1>3, <1>11, <1>13 DEF New, IsNew
<1>15. ASSUME NEW i \in Large, i \in call.n .. n
       PROVE  IsNew(IndexAt(data', root, i))
  <2>1. New(IndexAt(data, root, i))
    BY <1>4, <1>5, <1>15, PagesAre DEF NewFrom
  <2>2. IndexAt(data, root, i) \in live \ {h}
    BY <1>13, <1>15
  <2>3. IndexAt(data', root, i) = IndexAt(data, root, i)
    BY <1>9
  <2> QED BY <1>11, <2>1, <2>2, <2>3 DEF New, IsNew
<1>16. \A b \in Committed, t \in Slot : data'[b][t] = data[b][t]
  BY <1>6, <1>7, <1>8, Elsewhere
<1> QED
  BY <1>1, <1>9, <1>11, <1>12, <1>14, <1>15, <1>16 DEF KeptPages, DoneCleared

\* The index block of the last page is freed with it, or kept.
LEMMA ShrinkIndexDone ==
  ASSUME TableFits, IInv, TableCleared(call.n), call.n \in 0 .. MaxPages,
         ShrinkIndex
  PROVE  KeptPages(N - 1) /\ DoneResize(N - 1, call.n)
<1> SUFFICES ASSUME NEW y, NEW n, n = N - 1, y = IndexAt(data, root, n)
             PROVE  KeptPages(n) /\ DoneResize(n, call.n)
  OBVIOUS
<1>1. /\ call.at = "cleared" /\ InTxn
      /\ Goes("resize") /\ root' = root /\ savedRoot' = savedRoot
  BY DEF ShrinkIndex, Release, Modify
<1>2. /\ Holds(n, n + 1) /\ New(root) /\ NewFrom(call.n) /\ call.n \in 0 .. MaxPages
      /\ n \in Nat /\ N = n + 1 /\ LEVEL_ONE <= n /\ call.n <= n
  <2>1. /\ Holds(n, N) /\ New(root) /\ NewFrom(call.n)
        /\ LEVEL_ONE < N /\ call.n < N
    BY DEF TableCleared
  <2>2. N \in Nat
    BY <1>1, <2>1, WholeFacts
  <2>3. n \in Nat /\ N = n + 1 /\ LEVEL_ONE <= n /\ call.n <= n
    BY <2>1, <2>2, TableSizes
  <2> QED BY <2>1, <2>3
<1>3. /\ Whole(data, root, n, n + 1, live) /\ root # 0
      /\ root \in live /\ root \in Block /\ live \subseteq Block
      /\ n \in 0 .. MaxPages
      /\ \A k \in LEVEL_ONE .. (n + 1) - 1 : IndexAt(data, root, k) \in live \ {root}
  BY <1>1, <1>2, WholeFacts
<1>4. /\ n < MaxPages /\ n \in Large
      /\ y \in live \ {root} /\ New(y) /\ y \notin Committed /\ root \notin Committed
      /\ SlotOf(n) \in Slot /\ SlotOf(n) # Header /\ Header \in Slot
  BY <1>1, <1>2, ShrinkFacts
<1>5. /\ data \in [Block -> Value] /\ Committed \subseteq Block
      /\ 0 \in Words /\ n \in Words /\ y \in Words
  BY <1>1, <1>2, <1>3, <1>4, LiveFacts, ValueIsWords DEF Words
<1>6. \/ /\ INDEX1(n) = 0 /\ Release(y, data')
         /\ StoresBoth(data, data', root, SlotOf(n), 0, root, n)
      \/ /\ INDEX1(n) # 0 /\ rc' = OK /\ UNCHANGED <<io, flist, blocks, live>>
         /\ UNCHANGED <<freelist, objlist, txn, ts_nblocks, loop>>
         /\ StoresBoth(data, data', root, SlotOf(n), y, root, n)
  <2>1. \/ /\ INDEX1(n) = 0 /\ Release(y, data')
           /\ data' = [data EXCEPT ![root][IndexSlot(INDEX0(n))] = 0, ![root][Header] = n]
        \/ /\ INDEX1(n) # 0 /\ rc' = OK /\ UNCHANGED <<io, flist, blocks, live>>
           /\ UNCHANGED <<freelist, objlist, txn, ts_nblocks, loop>>
           /\ data' = [data EXCEPT ![root][IndexSlot(INDEX0(n))] = y, ![root][Header] = n]
    BY <1>4, PagesAre DEF ShrinkIndex, Release, Modify, New
  <2> QED BY <2>1 DEF StoresBoth, SlotOf
<1>8. \A i \in Large : i \in call.n .. n - 1 =>
        /\ i \in LEVEL_ONE .. n - 1 /\ New(IndexAt(data, root, i))
        /\ IndexAt(data, root, i) \in live \ {root}
  <2>1. \A i \in Large : i \in call.n .. n - 1 =>
          /\ i \in LEVEL_ONE .. n - 1 /\ i \in LEVEL_ONE .. (n + 1) - 1
          /\ i \in call.n .. N - 1
    BY <1>2, TableSizes DEF Large
  <2> QED BY <1>2, <1>3, <2>1, PagesAre DEF NewFrom
<1>9. CASE /\ INDEX1(n) = 0 /\ Release(y, data')
           /\ StoresBoth(data, data', root, SlotOf(n), 0, root, n)
  <2>1. /\ data' \in [Block -> Value]
        /\ Puts(data, data', root, root, SlotOf(n), 0)
        /\ data'[root][Header] = n
        /\ SameOutside(data, data', {root, root})
    <3>1. /\ StoresBoth(data, data', root, SlotOf(n), 0, root, n)
          /\ data \in [Block -> Value] /\ root \in Block
          /\ SlotOf(n) \in Slot /\ SlotOf(n) # Header /\ Header \in Slot
          /\ 0 \in Words /\ n \in Words
      BY <1>3, <1>4, <1>5, <1>9
    <3> QED BY ONLY <3>1, StoresTwo
  <2>2. live' = live \ {y} /\ Released(y)
    BY <1>9, <2>1 DEF Release, Released
  <2>3. /\ Whole(data', root, n, n, live')
        /\ SamePages(data, root, data', root, n)
        /\ SameIndexes(data, data', root, LEVEL_ONE .. n - 1)
    <3>1. /\ TableFits /\ Whole(data, root, n, n + 1, live)
          /\ live \subseteq Block /\ n \in Nat /\ LEVEL_ONE <= n /\ INDEX1(n) = 0
          /\ Puts(data, data', root, root, SlotOf(n), 0)
      BY <1>2, <1>3, <1>9, <2>1
    <3>2. /\ Whole(data', root, n, n, live \ {IndexAt(data, root, n)})
          /\ SamePages(data, root, data', root, n)
          /\ SameIndexes(data, data', root, LEVEL_ONE .. n - 1)
      BY ONLY <3>1, DropIndex
    <3> QED BY <2>2, <3>2
  <2>4. StaysOpen /\ \A c \in live \ {y} : New(c)' = New(c)
    BY <1>2, <1>4, <2>2, ReleasedFacts
  <2>5. IsNew(root) /\ \A i \in Large :
          i \in call.n .. n - 1 => IsNew(IndexAt(data', root, i))
    <3>1. \A i \in Large : i \in call.n .. n - 1 =>
            /\ IndexAt(data', root, i) = IndexAt(data, root, i)
            /\ IndexAt(data', root, i) \in live \ {y}
      BY <1>8, <2>2, <2>3 DEF Whole, SameIndexes
    <3>2. root \in live \ {y}
      BY <1>3, <1>4
    <3> QED BY <1>2, <1>8, <2>4, <3>1, <3>2 DEF New, IsNew
  <2>6. \A b \in Committed, t \in Slot : data'[b][t] = data[b][t]
    BY <1>4, <1>5, <2>1, Elsewhere
  <2> QED BY <1>1, <2>1, <2>3, <2>4, <2>5, <2>6 DEF KeptPages, DoneResize
<1>10. CASE /\ INDEX1(n) # 0 /\ rc' = OK /\ UNCHANGED <<io, flist, blocks, live>>
            /\ UNCHANGED <<freelist, objlist, txn, ts_nblocks, loop>>
            /\ StoresBoth(data, data', root, SlotOf(n), y, root, n)
  <2>1. /\ data' \in [Block -> Value]
        /\ Puts(data, data', root, root, SlotOf(n), y)
        /\ data'[root][Header] = n
        /\ SameOutside(data, data', {root, root})
    <3>1. /\ StoresBoth(data, data', root, SlotOf(n), y, root, n)
          /\ data \in [Block -> Value] /\ root \in Block
          /\ SlotOf(n) \in Slot /\ SlotOf(n) # Header /\ Header \in Slot
          /\ y \in Words /\ n \in Words
      BY <1>3, <1>4, <1>5, <1>10
    <3> QED BY ONLY <3>1, StoresTwo
  <2>2. InPlace
    BY <1>1, <1>10, <2>1 DEF InPlace, state
  <2>3. StaysOpen /\ live' = live /\ \A b \in Block : New(b)' = New(b)
    BY <1>2, <2>2, InPlaceFacts
  <2>4. \A c \in live, t \in Slot : \/ c = root /\ t = Header
                                    \/ data'[c][t] = data[c][t]
    BY <1>3, <2>1 DEF Puts, IndexAt
  <2>5. /\ Whole(data', root, n, n, live')
        /\ SamePlaces(data, data', root, n)
        /\ SameIndexes(data, data', root, Large)
    <3>1. Whole(data, root, n, n, live)
      BY <1>2, <1>3, <1>10, KeepIndex
    <3>2. \A c \in live, t \in Slot :
            \/ c = root /\ t = Header
            \/ \E i \in 0 .. n - 1 : c = PageAt(data, root, i)
            \/ data'[c][t] = data[c][t]
      BY <2>4
    <3>3. TableFits
      OBVIOUS
    <3>4. /\ Whole(data', root, n, n, live)
          /\ SamePlaces(data, data', root, n)
          /\ SameIndexes(data, data', root, Large)
      BY ONLY <3>1, <3>2, <3>3, SameTable
    <3> QED BY <2>3, <3>4
  <2>6. SamePages(data, root, data', root, n)
    <3>1. \A i \in 0 .. n - 1 : PageAt(data, root, i) \in live \ {root}
      BY <1>3 DEF Whole
    <3>2. \A t \in Spare : data'[root][t] = data[root][t]
      BY <1>3, <2>4 DEF Spare
    <3> QED BY <2>4, <2>5, <3>1, <3>2 DEF SamePages, SamePlaces
  <2>7. IsNew(root) /\ \A i \in Large :
          i \in call.n .. n - 1 => IsNew(IndexAt(data', root, i))
    BY <1>2, <1>3, <1>8, <2>3, <2>5 DEF New, IsNew, SameIndexes
  <2>8. \A b \in Committed, t \in Slot : data'[b][t] = data[b][t]
    BY <1>4, <1>5, <2>1, Elsewhere
  <2> QED BY <1>1, <2>1, <2>3, <2>5, <2>6, <2>7, <2>8 DEF KeptPages, DoneResize
<1> QED BY <1>6, <1>9, <1>10

\* The last page of a small table is freed.
LEMMA ShrinkDirectDone ==
  ASSUME TableFits, IInv, TableResize(call.n), call.n \in 0 .. MaxPages,
         ShrinkDirect
  PROVE  KeptPages(N - 1) /\ DoneResize(N - 1, call.n)
<1> SUFFICES ASSUME NEW h, NEW n, n = N - 1, h = PageAt(data, root, n)
             PROVE  KeptPages(n) /\ DoneResize(n, call.n)
  OBVIOUS
<1>1. /\ Resizing /\ N > call.n /\ N <= LEVEL_ONE
      /\ Release(h, data') /\ UNCHANGED table
      /\ StoresBoth(data, data', root, Direct(n), 0, root, n)
  BY PagesAre DEF ShrinkDirect, Release, StoresBoth
<1>2. /\ InTxn /\ live' = live \ {h}
      /\ root' = root /\ savedRoot' = savedRoot /\ call' = call
  BY <1>1 DEF Release, table
<1>3. Holds(N, N) /\ New(root) /\ call.n \in 0 .. MaxPages /\ root \notin Committed
  <2>1. Holds(N, N) /\ New(root)
    BY DEF TableResize
  <2> QED BY <1>2, <2>1, LiveFacts DEF Holds, Whole
<1>4. /\ n \in Nat /\ N = n + 1 /\ n < LEVEL_ONE /\ n \in 0 .. MaxPages
      /\ Whole(data, root, n + 1, n + 1, live) /\ root # 0
      /\ root \in live /\ root \in Block /\ live \subseteq Block
      /\ \A i \in 0 .. (n + 1) - 1 : PageAt(data, root, i) \in Block
  <2>1. /\ N \in Nat /\ N \in 0 .. MaxPages
        /\ Whole(data, root, N, N, live) /\ root # 0
        /\ root \in live /\ root \in Block /\ live \subseteq Block
        /\ \A i \in 0 .. N - 1 : PageAt(data, root, i) \in Block
    BY <1>2, <1>3, WholeFacts
  <2>2. n \in Nat /\ N = n + 1 /\ n < LEVEL_ONE /\ n \in 0 .. MaxPages
    BY <1>1, <1>3, <2>1, TableSizes
  <2> QED BY <2>1, <2>2
<1>5. /\ data \in [Block -> Value] /\ Committed \subseteq Block
      /\ 0 \in Words /\ n \in Words
  BY <1>2, <1>3, <1>4, LiveFacts, ValueIsWords DEF Words
<1>6. /\ Direct(n) \in Slot /\ Direct(n) # Header /\ Header \in Slot
  <2>1. n \in 0 .. LEVEL_ONE - 1
    BY <1>4, TableSizes
  <2> QED BY <2>1, Apart DEF SlotsApart
<1>7. /\ data' \in [Block -> Value]
      /\ Puts(data, data', root, root, Direct(n), 0)
      /\ data'[root][Header] = n
      /\ SameOutside(data, data', {root, root})
  <2>1. /\ StoresBoth(data, data', root, Direct(n), 0, root, n)
        /\ data \in [Block -> Value] /\ root \in Block
        /\ Direct(n) \in Slot /\ Direct(n) # Header /\ Header \in Slot
        /\ 0 \in Words /\ n \in Words
    BY <1>1, <1>4, <1>5, <1>6
  <2> QED BY ONLY <2>1, StoresTwo
<1>8. Released(h)
  BY <1>1, <1>7 DEF Release, Released
<1>9. /\ Whole(data', root, n, n, live')
      /\ SamePages(data, root, data', root, n)
      /\ h \in live \ {root}
  <2>1. /\ TableFits /\ Whole(data, root, n + 1, n + 1, live)
        /\ live \subseteq Block /\ n \in Nat /\ n < LEVEL_ONE
        /\ Puts(data, data', root, root, Direct(n), 0)
    BY <1>4, <1>7
  <2>2. /\ Whole(data', root, n, n, live \ {PageAt(data, root, n)})
        /\ SamePages(data, root, data', root, n)
        /\ PageAt(data, root, n) \in live \ {root}
    BY ONLY <2>1, DropDirect
  <2> QED BY <1>2, <2>2
<1>10. StaysOpen /\ \A c \in live \ {h} : New(c)' = New(c)
  BY <1>3, <1>8, <1>9, ReleasedFacts
<1>11. IsNew(root)
  BY <1>3, <1>4, <1>9, <1>10 DEF New, IsNew
<1>12. \A i \in Large : i \in call.n .. n - 1 => FALSE
  BY <1>4, TableSizes DEF Large
<1>13. \A b \in Committed, t \in Slot : data'[b][t] = data[b][t]
  BY <1>3, <1>5, <1>7, Elsewhere
<1> QED
  BY <1>2, <1>7, <1>9, <1>10, <1>11, <1>12, <1>13 DEF KeptPages, DoneResize

\* What the caller's table is after each of these.
LEMMA TableGoesOn ==
  ASSUME NEW k, NEW n, NEW m, KeptPages(k), DoneResize(n, m), root # 0
  PROVE  /\ N' = n /\ Holds(N, N)' /\ New(root)'
         /\ \A i \in Large : i \in m .. n - 1 => New(IndexBlock(root, i))'
<1>1. root' = root
  BY DEF KeptPages
<1>2. N' = n
  BY <1>1 DEF N, Pages, DoneResize
<1>3. \A i \in Large : IndexBlock(root, i)' = IndexAt(data', root, i)
  BY <1>1 DEF IndexBlock, IndexAt, SlotOf
<1> QED BY <1>1, <1>2, <1>3 DEF DoneResize, Holds, New, IsNew

\* The next page's index block is in it,
LEMMA TableHasIndex ==
  ASSUME NEW n, KeptPages(n), DoneSlot(n), root # 0
  PROVE  N' = n /\ Holds(N, N + 1)' /\ New(root)' /\ New(IndexBlock(root, N))'
<1>1. root' = root
  BY DEF KeptPages
<1>2. N' = n
  BY <1>1 DEF N, Pages, DoneSlot
<1>3. IndexBlock(root, N)' = IndexAt(data', root, n)
  BY <1>1, <1>2 DEF IndexBlock, IndexAt, SlotOf
<1> QED BY <1>1, <1>2, <1>3 DEF DoneSlot, Holds, New, IsNew

\* and so is the last page's.
LEMMA TableIsCleared ==
  ASSUME NEW n \in Nat, NEW m, KeptPages(n), DoneCleared(n, m), root # 0
  PROVE  /\ N' = n + 1 /\ Holds(N - 1, N)' /\ New(root)'
         /\ \A i \in Large : i \in m .. n => New(IndexBlock(root, i))'
<1>1. root' = root
  BY DEF KeptPages
<1>2. N' = n + 1 /\ N' - 1 = n
  BY <1>1 DEF N, Pages, DoneCleared
<1>3. \A i \in Large : IndexBlock(root, i)' = IndexAt(data', root, i)
  BY <1>1 DEF IndexBlock, IndexAt, SlotOf
<1> QED BY <1>1, <1>2, <1>3 DEF DoneCleared, Holds, New, IsNew

-----------------------------------------------------------------------------

\* Where the call is says how far the table is.
LEMMA WorkAt ==
  ASSUME TableInv, InTxn
  PROVE  /\ Between => CallIdle
         /\ Resizing => CallResize
         /\ call.at = "slot" => CallSlot
         /\ call.at = "cleared" => CallCleared
         /\ call.at = "write" => CallWrite
BY DEF TableInv, Work, CallIdle, CallResize, CallSlot, CallCleared, CallWrite,
       At, Between, Idle, Resizing

\* What the caller sees of its table, as long as it is mapped.
LEMMA WorkingAre ==
  ASSUME TablePhase # "failed"
  PROVE  WorkingPages = IF root = 0 THEN <<>>
           ELSE PagesIn(data, root, IF call.at = "cleared" THEN N - 1 ELSE N)
BY PagesAre DEF WorkingPages

\* The same, of the next state.
LEMMA WorkingAreNext ==
  ASSUME TablePhase' # "failed"
  PROVE  WorkingPages' = IF root' = 0 THEN <<>>
           ELSE PagesIn(data', root', IF call'.at = "cleared" THEN N' - 1 ELSE N')
BY PagesAreNext DEF WorkingPages

\* A transaction that is still open: the phase stays.
LEMMA OpenPhase ==
  ASSUME TableInv, StaysOpen
  PROVE  TablePhase = "open" /\ TablePhase' = "open"
<1>1. /\ InTxn /\ InTxn' /\ freelist = 2 /\ freelist' = freelist /\ txn = TRUE
  BY LiveFacts DEF StaysOpen
<1> QED BY <1>1, Numbers DEF TablePhase, InTxn, Ready, Aborting

\* A call of the block API ends well when it leaves the table in order and
\* changes its list of pages as a list may change.
LEMMA StepDone ==
  ASSUME TableFits, TableInv, StaysOpen, savedRoot' = savedRoot,
         \A b \in Committed, t \in Slot : data'[b][t] = data[b][t],
         Work',
         \/ WorkingPages' = WorkingPages
         \/ \E w \in Words : WorkingPages' = Append(WorkingPages, w)
         \/ \E k \in 0 .. Len(WorkingPages) - 1 :
              WorkingPages' = SubSeq(WorkingPages, 1, k)
         \/ \E i \in DOMAIN WorkingPages, w \in Words :
              WorkingPages' = [WorkingPages EXCEPT ![i] = w]
  PROVE  StepOK
<1>1. /\ TableInv' /\ Untouched /\ SavedPages' = SavedPages
      /\ TablePhase = "open" /\ TablePhase' = "open"
  BY OpenStep
<1>2. ListStep
  BY <1>1, KeepsList, ChangesList
<1> QED BY <1>1, <1>2 DEF StepOK

-----------------------------------------------------------------------------
(***************************************************************************)
(* page_resize, and the list of pages.                                     *)
(***************************************************************************)

\* What a call in progress knows.
LEMMA GoesTo ==
  ASSUME NEW p, NEW q, call \in At(p), Goes(q)
  PROVE  call' \in At(q) /\ call'.n = call.n /\ call'.at = q
BY DEF At, Goes

\* A call of page_resize has the table in order between two of its steps.
LEMMA ResizeFacts ==
  ASSUME TableInv, InTxn, Resizing
  PROVE  /\ IInv /\ TableResize(call.n) /\ Holds(N, N)
         /\ call \in At("resize") /\ call.n \in 0 .. MaxPages
<1>1. IInv /\ CallResize
  BY WorkAt DEF TableInv
<1> QED BY <1>1 DEF CallResize, TableResize, At

\* What the caller reads of its table after a step, and before it.
LEMMA ListFacts ==
  ASSUME TableFits, TableInv, StaysOpen, NEW n, NEW m, Holds(n, m)
  PROVE  /\ TablePhase = "open" /\ TablePhase' = "open"
         /\ data \in [Block -> Value] /\ data' \in [Block -> Value]
         /\ live' \subseteq Block /\ root # 0 /\ n \in Nat
         /\ \A i \in 0 .. n - 1 : PageAt(data, root, i) \in Block
<1>1. InTxn /\ IInv /\ InTxn' /\ IInv'
  BY DEF StaysOpen, TableInv
<1>2. data \in [Block -> Value] /\ data' \in [Block -> Value]
  BY <1>1 DEF IInv, TypeOK
<1>3. live' \subseteq Block
  BY <1>1, Numbers DEF IInv, TypeOK
<1> QED BY <1>1, <1>2, <1>3, OpenPhase, WholeFacts

\* page_resize goes on with n pages.
LEMMA ResizeDone ==
  ASSUME TableFits, TableInv, NEW k, NEW n, KeptPages(k), DoneResize(n, call'.n),
         root # 0, call' \in At("resize"),
         \/ PagesIn(data', root, n) = WorkingPages
         \/ \E w \in Words : PagesIn(data', root, n) = Append(WorkingPages, w)
         \/ \E j \in 0 .. Len(WorkingPages) - 1 :
              PagesIn(data', root, n) = SubSeq(WorkingPages, 1, j)
  PROVE  StepOK
<1>1. N' = n /\ TableResize(call.n)'
  BY TableGoesOn DEF TableResize, NewFrom
<1>2. CallResize'
  BY <1>1 DEF CallResize
<1>3. StaysOpen /\ root' = root /\ savedRoot' = savedRoot
      /\ \A b \in Committed, t \in Slot : data'[b][t] = data[b][t]
  BY DEF KeptPages
<1>4. WorkingPages' = PagesIn(data', root, n)
  <2>1. TablePhase' = "open" /\ call'.at # "cleared"
    BY <1>3, OpenPhase DEF At
  <2> QED BY <1>1, <1>3, <2>1, WorkingAreNext
<1> QED BY <1>2, <1>3, <1>4, StepDone DEF Work

\* It has added a page.
LEMMA PageAdded ==
  ASSUME TableFits, TableInv, NEW n, n = N, NEW m, Holds(n, m),
         KeptPages(n), DoneResize(n + 1, call'.n),
         call.at # "cleared", call' \in At("resize")
  PROVE  StepOK
<1>1. StaysOpen /\ SamePages(data, root, data', root, n)
      /\ Whole(data', root, n + 1, n + 1, live')
  BY DEF KeptPages, DoneResize
<1>2. /\ TablePhase = "open" /\ root # 0 /\ n \in Nat
      /\ data \in [Block -> Value] /\ data' \in [Block -> Value]
      /\ live' \subseteq Block
      /\ \A i \in 0 .. n - 1 : PageAt(data, root, i) \in Block
  BY <1>1, ListFacts
<1>3. PageAt(data', root, n) \in Block
  <2>1. n \in 0 .. (n + 1) - 1
    BY <1>2
  <2>2. PageAt(data', root, n) \in live'
    BY <1>1, <2>1 DEF Whole
  <2> QED BY <1>2, <2>2
<1>4. \E w \in Words : PagesIn(data', root, n + 1) = Append(PagesIn(data, root, n), w)
  BY <1>1, <1>2, <1>3, ListGrows
<1>5. WorkingPages = PagesIn(data, root, n)
  BY <1>2, WorkingAre
<1> QED BY <1>2, <1>4, <1>5, ResizeDone

\* A page in one of the first slots.
LEMMA GrowDirectStep ==
  ASSUME TableFits, TableInv, GrowDirect
  PROVE  StepOK
<1>1. InTxn /\ Resizing /\ call' = call
  BY DEF GrowDirect, Allocate, table
<1>2. /\ IInv /\ TableResize(call.n) /\ Holds(N, N)
      /\ call \in At("resize") /\ call.n \in 0 .. MaxPages
  BY <1>1, ResizeFacts
<1>3. KeptPages(N) /\ DoneResize(N + 1, call'.n)
  BY <1>1, <1>2, GrowDirectDone
<1> QED BY <1>1, <1>2, <1>3, PageAdded DEF Resizing

\* The index block of the next page is new, of this transaction, or copied.
LEMMA GrowIndexStep ==
  ASSUME TableFits, TableInv, GrowIndex
  PROVE  StepOK
<1>1. InTxn /\ Resizing /\ Goes("slot") /\ N < call.n /\ N >= LEVEL_ONE
  BY DEF GrowIndex, Allocate, Modify
<1>2. /\ IInv /\ TableResize(call.n) /\ Holds(N, N)
      /\ call \in At("resize") /\ call.n \in 0 .. MaxPages
  BY <1>1, ResizeFacts
<1>3. KeptPages(N) /\ DoneSlot(N)
  BY <1>2, GrowIndexDone
<1>4. call' \in At("slot") /\ call'.n = call.n /\ call'.at = "slot"
  BY <1>1, <1>2, GoesTo
<1>5. StaysOpen /\ root' = root /\ savedRoot' = savedRoot
      /\ SamePages(data, root, data', root, N)
      /\ \A b \in Committed, t \in Slot : data'[b][t] = data[b][t]
  BY <1>3 DEF KeptPages
<1>6. /\ TablePhase = "open" /\ TablePhase' = "open" /\ root # 0 /\ N \in Nat
  BY <1>2, <1>5, ListFacts
<1>7. N' = N /\ CallSlot'
  <2>1. LEVEL_ONE <= N /\ N < call.n
    BY <1>1, <1>6, TableSizes
  <2>2. N' = N /\ TableSlot(call.n)'
    BY <1>3, <1>4, <1>6, <2>1, TableHasIndex DEF TableSlot
  <2> QED BY <1>4, <2>2 DEF CallSlot
<1>8. WorkingPages' = WorkingPages
  <2>1. PagesIn(data', root, N) = PagesIn(data, root, N)
    BY <1>5, <1>6, ListKept
  <2> QED BY <1>1, <1>4, <1>5, <1>6, <1>7, <2>1, WorkingAre, WorkingAreNext
          DEF Resizing
<1> QED BY <1>5, <1>7, <1>8, StepDone DEF Work

\* A page in a slot of an index block.
LEMMA GrowSlotStep ==
  ASSUME TableFits, TableInv, GrowSlot
  PROVE  StepOK
<1>1. InTxn /\ call.at = "slot" /\ Goes("resize")
  BY DEF GrowSlot, Allocate
<1>2. /\ IInv /\ TableSlot(call.n) /\ Holds(N, N + 1)
      /\ call \in At("slot") /\ call.n \in 0 .. MaxPages
  BY <1>1, WorkAt DEF TableInv, CallSlot, TableSlot, At
<1>3. call' \in At("resize") /\ call'.n = call.n
  BY <1>1, <1>2, GoesTo
<1>4. KeptPages(N) /\ DoneResize(N + 1, call'.n)
  BY <1>2, <1>3, GrowSlotDone
<1> QED BY <1>1, <1>2, <1>3, <1>4, PageAdded

\* The last page of a large table is freed, and its slot cleared.
LEMMA ShrinkSlotStep ==
  ASSUME TableFits, TableInv, ShrinkSlot
  PROVE  StepOK
<1> SUFFICES ASSUME NEW n, n = N - 1
             PROVE  StepOK
  OBVIOUS
<1>1. InTxn /\ Resizing /\ Goes("cleared") /\ N > call.n /\ N > LEVEL_ONE
  BY DEF ShrinkSlot, Release
<1>2. /\ IInv /\ TableResize(call.n) /\ Holds(N, N)
      /\ call \in At("resize") /\ call.n \in 0 .. MaxPages
  BY <1>1, ResizeFacts
<1>3. KeptPages(n) /\ DoneCleared(n, call.n)
  BY <1>2, ShrinkSlotDone
<1>4. call' \in At("cleared") /\ call'.n = call.n /\ call'.at = "cleared"
  BY <1>1, <1>2, GoesTo
<1>5. StaysOpen /\ root' = root /\ savedRoot' = savedRoot
      /\ SamePages(data, root, data', root, n)
      /\ \A b \in Committed, t \in Slot : data'[b][t] = data[b][t]
  BY <1>3 DEF KeptPages
<1>6. /\ TablePhase = "open" /\ TablePhase' = "open" /\ root # 0 /\ N \in Nat
      /\ data \in [Block -> Value] /\ data' \in [Block -> Value]
      /\ \A i \in 0 .. N - 1 : PageAt(data, root, i) \in Block
  BY <1>2, <1>5, ListFacts
<1>7. n \in Nat /\ N = n + 1 /\ LEVEL_ONE < N /\ call.n < N
  BY <1>1, <1>2, <1>6, TableSizes
<1>8. N' = N /\ CallCleared'
  <2>1. N' = N /\ TableCleared(call.n)'
    BY <1>3, <1>4, <1>6, <1>7, TableIsCleared DEF TableCleared, NewFrom
  <2> QED BY <1>4, <2>1 DEF CallCleared
<1>9. \E k \in 0 .. Len(WorkingPages) - 1 : WorkingPages' = SubSeq(WorkingPages, 1, k)
  <2>1. \E k \in 0 .. Len(PagesIn(data, root, n + 1)) - 1 :
          PagesIn(data', root, n) = SubSeq(PagesIn(data, root, n + 1), 1, k)
    BY <1>5, <1>6, <1>7, ListShrinks
  <2>2. WorkingPages = PagesIn(data, root, n + 1)
    BY <1>1, <1>6, <1>7, WorkingAre DEF Resizing
  <2>3. WorkingPages' = PagesIn(data', root, n)
    BY <1>4, <1>5, <1>6, <1>7, <1>8, WorkingAreNext
  <2> QED BY <2>1, <2>2, <2>3
<1> QED BY <1>5, <1>8, <1>9, StepDone DEF Work

\* The index block of the last page is freed with it, or kept.
LEMMA ShrinkIndexStep ==
  ASSUME TableFits, TableInv, ShrinkIndex
  PROVE  StepOK
<1> SUFFICES ASSUME NEW n, n = N - 1
             PROVE  StepOK
  OBVIOUS
<1>1. InTxn /\ call.at = "cleared" /\ Goes("resize")
  BY DEF ShrinkIndex, Release, Modify
<1>2. /\ IInv /\ TableCleared(call.n) /\ Holds(n, N)
      /\ call \in At("cleared") /\ call.n \in 0 .. MaxPages
  BY <1>1, WorkAt DEF TableInv, CallCleared, TableCleared, At
<1>3. call' \in At("resize") /\ call'.n = call.n
  BY <1>1, <1>2, GoesTo
<1>4. KeptPages(n) /\ DoneResize(n, call'.n)
  BY <1>2, <1>3, ShrinkIndexDone
<1>5. StaysOpen /\ SamePages(data, root, data', root, n)
  BY <1>4 DEF KeptPages
<1>6. TablePhase = "open" /\ root # 0 /\ n \in Nat
  BY <1>2, <1>5, ListFacts
<1>7. PagesIn(data', root, n) = WorkingPages
  BY <1>1, <1>5, <1>6, WorkingAre, ListKept
<1> QED BY <1>3, <1>4, <1>6, <1>7, ResizeDone

\* The last page of a small table is freed.
LEMMA ShrinkDirectStep ==
  ASSUME TableFits, TableInv, ShrinkDirect
  PROVE  StepOK
<1> SUFFICES ASSUME NEW n, n = N - 1
             PROVE  StepOK
  OBVIOUS
<1>1. InTxn /\ Resizing /\ call' = call /\ N > call.n
  BY DEF ShrinkDirect, Release, table
<1>2. /\ IInv /\ TableResize(call.n) /\ Holds(N, N)
      /\ call \in At("resize") /\ call.n \in 0 .. MaxPages
  BY <1>1, ResizeFacts
<1>3. KeptPages(n) /\ DoneResize(n, call'.n)
  BY <1>1, <1>2, ShrinkDirectDone
<1>4. StaysOpen /\ SamePages(data, root, data', root, n)
  BY <1>3 DEF KeptPages
<1>5. /\ TablePhase = "open" /\ root # 0 /\ N \in Nat
      /\ data \in [Block -> Value] /\ data' \in [Block -> Value]
      /\ \A i \in 0 .. N - 1 : PageAt(data, root, i) \in Block
  BY <1>2, <1>4, ListFacts
<1>6. n \in Nat /\ N = n + 1
  BY <1>1, <1>2, <1>5
<1>7. \E k \in 0 .. Len(WorkingPages) - 1 :
         PagesIn(data', root, n) = SubSeq(WorkingPages, 1, k)
  <2>1. \E k \in 0 .. Len(PagesIn(data, root, n + 1)) - 1 :
          PagesIn(data', root, n) = SubSeq(PagesIn(data, root, n + 1), 1, k)
    BY <1>4, <1>5, <1>6, ListShrinks
  <2>2. WorkingPages = PagesIn(data, root, n + 1)
    BY <1>1, <1>5, <1>6, WorkingAre DEF Resizing
  <2> QED BY <2>1, <2>2
<1> QED BY <1>1, <1>2, <1>3, <1>5, <1>7, ResizeDone

\* A step that only moves the call on.
LEMMA CallMoves ==
  ASSUME TableFits, TableInv, InPlace, data' = data, root' = root,
         savedRoot' = savedRoot, call.at # "cleared", call'.at # "cleared", Work'
  PROVE  StepOK
<1>1. StaysOpen
  BY InPlaceFacts DEF TableInv
<1>2. \A b \in Committed, t \in Slot : data'[b][t] = data[b][t]
  OBVIOUS
<1>3. TablePhase = "open" /\ TablePhase' = "open"
  BY <1>1, OpenPhase
<1>4. WorkingPages' = WorkingPages
  BY <1>3, WorkingAre, WorkingAreNext DEF N, Pages
<1> QED BY <1>1, <1>2, <1>4, StepDone

\* A step that leaves the transaction alone stores nothing.
LEMMA NothingMoves ==
  ASSUME TableInv, InTxn, UNCHANGED vars
  PROVE  InPlace /\ data' = data
<1>1. data' = data /\ data \in [Block -> Value] /\ rc' = rc
  BY DEF vars, disk, TableInv, IInv, TypeOK
<1> QED BY <1>1 DEF InPlace, vars, disk

\* The caller's table stays in order when nothing of it changes.
LEMMA HoldsStill ==
  ASSUME data' = data, root' = root, live' = live, Holds(N, N)
  PROVE  N' = N /\ Holds(N, N)'
<1>1. N' = N
  BY DEF N, Pages
<1> QED BY <1>1 DEF Holds

\* page_resize returns.
LEMMA ResizeReturnsStep ==
  ASSUME TableFits, TableInv, ResizeReturns
  PROVE  StepOK
<1>1. CASE InTxn
  <2>1. Holds(N, N)
    BY <1>1, ResizeFacts DEF ResizeReturns
  <2>2. call' = Idle /\ UNCHANGED <<vars, root, savedRoot>>
    BY DEF ResizeReturns
  <2>3. Holds(N, N)'
    BY <2>1, <2>2, HoldsStill DEF vars, disk
  <2>4. CallIdle'
    BY <2>2, <2>3 DEF CallIdle
  <2> QED
    BY <1>1, <2>2, <2>4, NothingMoves, CallMoves
       DEF Work, Idle, ResizeReturns, Resizing
<1>2. CASE ~InTxn
  BY <1>2 DEF ResizeReturns, Resizing, TableInv, Rest, Idle
<1> QED BY <1>1, <1>2

\* A block of the caller that is not old is of this transaction.
LEMMA NotOld ==
  ASSUME IInv, InTxn, NEW b \in live, ~Old(b)
  PROVE  New(b)
BY LiveFacts DEF Old

\* page_resize begins; a careful caller takes no page from an index block of
\* an earlier transaction.
LEMMA ResizeStep ==
  ASSUME TableFits, TableInv, TakesFromNewIndex,
         NEW n \in 0 .. MaxPages, page_resize(n)
  PROVE  StepOK
<1>1. /\ Between /\ InTxn /\ root # 0 /\ New(root)
      /\ call' = [at |-> "resize", n |-> n]
      /\ UNCHANGED vars /\ root' = root /\ savedRoot' = savedRoot
  BY DEF page_resize, New
<1>2. IInv /\ Holds(N, N)
  BY <1>1, WorkAt DEF TableInv, CallIdle
<1>3. /\ N \in Nat /\ N \in 0 .. MaxPages
      /\ \A k \in LEVEL_ONE .. N - 1 : IndexAt(data, root, k) \in live \ {root}
  BY <1>1, <1>2, WholeFacts
<1>4. InPlace /\ data' = data /\ live' = live /\ blocks' = blocks
  BY <1>1, NothingMoves DEF vars, disk, state
<1>5. N' = N /\ Holds(N, N)'
  BY <1>1, <1>2, <1>4, HoldsStill
<1>6. ASSUME NEW i \in Large, i \in n .. N - 1
      PROVE  New(IndexBlock(root, i))
  <2>1. i \in LEVEL_ONE .. MaxPages - 1 /\ i \in LEVEL_ONE .. N - 1
    BY <1>3, <1>6, TableSizes DEF Large
  <2>2. ~Old(IndexBlock(root, i))
    BY <1>6, <2>1 DEF TakesFromNewIndex
  <2>3. IndexBlock(root, i) \in live
    BY <1>3, <2>1, PagesAre
  <2> QED BY <1>1, <1>2, <2>2, <2>3, NotOld
<1>7. CallResize'
  <2>1. NewFrom(call.n)'
    BY <1>1, <1>4, <1>5, <1>6 DEF NewFrom, New, IndexBlock
  <2>2. New(root)' /\ call' \in At("resize")
    BY <1>1, <1>4 DEF New, At
  <2> QED BY <1>5, <2>1, <2>2 DEF CallResize, TableResize
<1> QED BY <1>1, <1>4, <1>7, CallMoves DEF Work, Between, Idle

\* page_write_host_index, of a careful caller, copies nothing.
LEMMA WriteStep ==
  ASSUME TableFits, TableInv, WritesNewPages,
         NEW i \in 0 .. MaxPages - 1, NEW w \in Payload,
         page_write_host_index(i, w)
  PROVE  StepOK
<1>1. /\ Between /\ InTxn /\ root # 0 /\ i < N
      /\ call' = Writing(i, w) /\ root' = root /\ savedRoot' = savedRoot
  BY DEF page_write_host_index
<1>2. IInv /\ Holds(N, N)
  BY <1>1, WorkAt DEF TableInv, CallIdle
<1>3. /\ N \in Nat /\ N \in 0 .. MaxPages
      /\ \A k \in 0 .. N - 1 : PageAt(data, root, k) \in live \ {root}
      /\ \A k \in LEVEL_ONE .. N - 1 : IndexAt(data, root, k) \in live \ {root}
  BY <1>1, <1>2, WholeFacts
<1>4. /\ ~Old(HostBlock(root, i))
      /\ i >= LEVEL_ONE => ~Old(IndexBlock(root, i))
  BY DEF WritesNewPages
<1>5. New(HostBlock(root, i))
  <2>1. i \in 0 .. N - 1
    BY <1>1, <1>3
  <2>2. HostBlock(root, i) \in live
    BY <1>3, <2>1, PagesAre
  <2> QED BY <1>1, <1>2, <1>4, <2>2, NotOld
<1>6. InPlace /\ data' = data /\ live' = live /\ blocks' = blocks
  <2>1. CASE UNCHANGED vars
    BY <1>1, <2>1, NothingMoves DEF vars, disk, state
  <2>2. CASE i >= LEVEL_ONE /\ Modify(IndexBlock(root, i), Same)
    <3>1. IndexBlock(root, i) \in live
      <4>1. i \in LEVEL_ONE .. N - 1
        BY <1>1, <1>3, <2>2, TableSizes
      <4> QED BY <1>3, <4>1, PagesAre
    <3>2. New(IndexBlock(root, i))
      BY <1>1, <1>2, <1>4, <2>2, <3>1, NotOld
    <3>3. /\ UNCHANGED <<freelist, objlist, txn, ts_nblocks, loop>>
          /\ data' = data /\ rc' = OK /\ UNCHANGED <<io, flist, blocks, live>>
      BY <2>2, <3>2 DEF Modify, Same, New
    <3>4. data \in [Block -> Value]
      BY <1>1, <1>2, LiveFacts
    <3> QED BY <1>1, <3>3, <3>4 DEF InPlace, state
  <2> QED BY <2>1, <2>2 DEF page_write_host_index
<1>7. N' = N /\ Holds(N, N)'
  BY <1>1, <1>2, <1>6, HoldsStill
<1>8. CallWrite'
  <2>1. New(HostBlock(root, call.i))'
    BY <1>1, <1>5, <1>6 DEF New, HostBlock, IndexBlock, Writing
  <2> QED BY <1>1, <1>7, <2>1 DEF CallWrite, Writing
<1> QED BY <1>1, <1>6, <1>8, CallMoves DEF Work, Between, Idle, Writing

\* A page is stored into where it is.
LEMMA WritePageStep ==
  ASSUME TableFits, TableInv, WritePage
  PROVE  StepOK
<1> SUFFICES ASSUME NEW h, NEW i, NEW w, NEW n, n = N, i = call.i, w = call.w,
                    h = PageAt(data, root, i)
             PROVE  StepOK
  OBVIOUS
<1>1. /\ call.at = "write" /\ InTxn /\ root' = root /\ savedRoot' = savedRoot
      /\ call' = Idle
  BY DEF WritePage, Modify
<1>2. /\ IInv /\ i \in 0 .. MaxPages - 1 /\ w \in Payload
      /\ Holds(n, n) /\ i < n /\ New(h)
  BY <1>1, WorkAt, PagesAre DEF CallWrite, TableInv
<1>3. /\ Whole(data, root, n, n, live) /\ root # 0
      /\ root \in live /\ root \in Block /\ live \subseteq Block
      /\ n \in Nat /\ n \in 0 .. MaxPages
      /\ \A k \in 0 .. n - 1 : PageAt(data, root, k) \in live \ {root}
      /\ \A k \in 0 .. n - 1 : PageAt(data, root, k) \in Block
  BY <1>1, <1>2, WholeFacts
<1>4. i \in 0 .. n - 1 /\ h \in live /\ h # root /\ h \in Block
  BY <1>2, <1>3
<1>5. /\ data \in [Block -> Value] /\ Committed \subseteq Block
      /\ h \notin Committed /\ w \in Words
  BY <1>1, <1>2, <1>4, LiveFacts DEF Words
<1>6. /\ UNCHANGED <<freelist, objlist, txn, ts_nblocks, loop>>
      /\ rc' = OK /\ UNCHANGED <<io, flist, blocks, live>>
      /\ Stores(data, data', h, 1, w)
  BY <1>2, PagesAre DEF WritePage, Modify, New, Stores
<1>7. /\ data' \in [Block -> Value]
      /\ ChangesWord(data, data', h, 1, w)
      /\ SameOutside(data, data', {h})
  <2>1. 1 \in Slot
    BY Apart DEF SlotsApart
  <2>2. /\ Stores(data, data', h, 1, w) /\ data \in [Block -> Value] /\ h \in Block
        /\ w \in Words
    BY <1>4, <1>5, <1>6
  <2> QED BY ONLY <2>1, <2>2, StoresOne
<1>8. InPlace /\ live' = live
  BY <1>1, <1>6, <1>7 DEF InPlace, state
<1>9. StaysOpen
  BY <1>2, <1>8, InPlaceFacts
<1>10. Whole(data', root, n, n, live) /\ SamePlaces(data, data', root, n)
  <2>1. \A c \in live, t \in Slot :
          \/ c = root /\ t = Header
          \/ \E k \in 0 .. n - 1 : c = PageAt(data, root, k)
          \/ data'[c][t] = data[c][t]
    BY <1>3, <1>4, <1>7 DEF SameOutside
  <2>2. TableFits /\ Whole(data, root, n, n, live)
    BY <1>3
  <2> QED BY ONLY <2>1, <2>2, SameTable
<1>11. N' = n
  BY <1>1, <1>3, <1>4, <1>7, Apart DEF N, Pages, SameOutside, SlotsApart
<1>12. CallIdle'
  BY <1>1, <1>3, <1>8, <1>10, <1>11 DEF CallIdle, Holds
<1>13. \A b \in Committed, t \in Slot : data'[b][t] = data[b][t]
  BY <1>5, <1>7, Elsewhere
<1>14. \E k \in DOMAIN WorkingPages, v \in Words :
         WorkingPages' = [WorkingPages EXCEPT ![k] = v]
  <2>1. \A k \in 0 .. n - 1 : PageAt(data', root, k) = PageAt(data, root, k)
    BY <1>3, <1>10 DEF SamePlaces
  <2>2. \A k \in 0 .. n - 1 : PageAt(data, root, k) = h => k = i
    BY <1>3, <1>4 DEF Whole
  <2>3. StoresPage(data, data', root, n, i, w)
    BY <1>3, <1>7, <2>1, <2>2, Apart DEF ChangesWord, SlotsApart, StoresPage
  <2>4. /\ i + 1 \in DOMAIN PagesIn(data, root, n)
        /\ PagesIn(data', root, n) = [PagesIn(data, root, n) EXCEPT ![i + 1] = w]
    BY <1>3, <1>4, <2>3, ListStores
  <2>5. WorkingPages = PagesIn(data, root, n)
    BY <1>1, <1>3, <1>9, OpenPhase, WorkingAre
  <2>6. WorkingPages' = PagesIn(data', root, n)
    BY <1>1, <1>3, <1>9, <1>11, OpenPhase, WorkingAreNext DEF Idle
  <2>7. /\ i + 1 \in DOMAIN WorkingPages
        /\ WorkingPages' = [WorkingPages EXCEPT ![i + 1] = w]
    BY <2>4, <2>5, <2>6
  <2> QED BY <1>5, <2>7
<1> QED BY <1>1, <1>9, <1>12, <1>13, <1>14, StepDone DEF Work

\* What an abort would bring back.
LEMMA SavedAre ==
  /\ SavedPages = IF savedRoot = 0 THEN <<>>
                  ELSE PagesIn(data, savedRoot, data[savedRoot][Header])
  /\ SavedPages' = IF savedRoot' = 0 THEN <<>>
                   ELSE PagesIn(data', savedRoot', data'[savedRoot'][Header])
BY PagesAre, PagesAreNext DEF SavedPages, Pages

\* A step that stores nothing.
LEMMA NothingStored ==
  ASSUME TableFits, TableInv, data' = data, Committed' = Committed,
         savedRoot' = savedRoot
  PROVE  /\ Saved' /\ SavedPages' = SavedPages /\ Untouched
<1>1. Saved' /\ SavedPages' = SavedPages
  BY SavedAre DEF TableInv, Saved, Whole, Pages, PageAt, IndexAt
<1>2. Untouched
  BY DEF Untouched
<1> QED BY <1>1, <1>2

\* io_resize fails, and nothing is mapped any more.
LEMMA FailStep ==
  ASSUME TableFits, TableInv, Fails
  PROVE  StepOK
<1>1. /\ InTxn /\ ResizeFails /\ call' = Idle
      /\ root' = root /\ savedRoot' = savedRoot
  BY DEF Fails
<1>2. /\ nblocks' = 0 /\ data' = data /\ freelist' = freelist
      /\ objlist' = objlist /\ txn' = txn /\ pc' = pc /\ live' = live
  BY <1>1 DEF ResizeFails, disk, state, loop
<1>3. IInv' /\ Committed' = Committed
  BY <1>1, ResizeFailsStep DEF TableInv
<1>4. txn = TRUE /\ pc = "ready" /\ freelist = 2 /\ Mapped /\ ~Aborting
  BY <1>1, LiveFacts DEF TableInv
<1>5. ~InTxn' /\ ~Aborting' /\ ~Mapped'
  BY <1>2, <1>4, Numbers DEF InTxn, Ready, Mapped, Aborting
<1>6. Saved' /\ SavedPages' = SavedPages /\ Untouched
  BY <1>1, <1>2, <1>3, NothingStored
<1>7. Work' /\ Rest'
  BY <1>1, <1>2, <1>4, <1>5 DEF TableInv, Work, Rest
<1>8. TablePhase = "open" /\ TablePhase' = "failed"
  BY <1>2, <1>4, <1>5 DEF TablePhase
<1>9. WorkingPages' = SavedPages
  BY <1>6, <1>8 DEF WorkingPages
<1>10. ListStep
  BY <1>6, <1>8, <1>9 DEF ListStep, PageList!Next, PageList!Fail
<1> QED BY <1>3, <1>6, <1>7, <1>10 DEF StepOK, TableInv

\* Without a transaction nothing changes.
LEMMA RefusedStep ==
  ASSUME TableFits, TableInv, Refused
  PROVE  StepOK
<1>1. /\ ~txn /\ UNCHANGED <<io, disk, freelist, objlist, state, loop, live>>
      /\ rc' = EDB_ERR_TXN_NO_TRANSACTION
      /\ root' = root /\ savedRoot' = savedRoot /\ call' = call
  BY DEF Refused, NoTransaction, table
<1>2. data' = data /\ txn' = txn /\ pc' = pc /\ freelist' = freelist
      /\ objlist' = objlist /\ nblocks' = nblocks
  BY <1>1 DEF disk, state, loop, io
<1>3. IInv' /\ Committed' = Committed
  <2>1. TypeOK'
    BY <1>1 DEF TableInv, IInv, TypeOK, io, disk, state, loop
  <2>2. UNCHANGED <<io, flist, freelist, objlist, state, loop, live>>
    BY <1>1 DEF disk
  <2> QED BY <2>1, <2>2, QuietStep DEF TableInv
<1>4. Saved' /\ SavedPages' = SavedPages /\ Untouched
  BY <1>1, <1>2, <1>3, NothingStored
<1>5. Work' /\ Rest'
  BY <1>1, <1>2 DEF TableInv, Work, Rest, InTxn, Ready, Mapped, Aborting
<1>6. TablePhase = "closed" /\ TablePhase' = "closed"
  BY <1>1, <1>2 DEF TablePhase
<1>7. WorkingPages' = WorkingPages
  BY <1>1, <1>2, <1>6, WorkingAre, WorkingAreNext DEF N, Pages
<1> QED BY <1>3, <1>4, <1>5, <1>6, <1>7, KeepsList DEF StepOK, TableInv

\* A transaction begins with the table of the last one.
LEMMA OpeningStep ==
  ASSUME TableFits, TableInv, Begin
  PROVE  StepOK
<1>1. /\ txn_begin /\ call = Idle
      /\ root' = root /\ savedRoot' = savedRoot /\ call' = call
  BY DEF Begin, Between, table
<1>2. /\ ~txn /\ txn' = TRUE /\ pc = "ready" /\ pc' = pc
      /\ freelist' = EDB_FREELIST_SECONDARY /\ objlist' = objlist
      /\ data' = data /\ live' = live /\ nblocks' = nblocks
  BY <1>1 DEF txn_begin, Ready, io, loop
<1>3. IInv' /\ Committed' = live
  BY <1>1, BeginStep DEF TableInv
<1>4. Committed = live
  BY <1>2 DEF Committed
<1>5. Saved' /\ SavedPages' = SavedPages /\ Untouched
  BY <1>1, <1>2, <1>3, <1>4, NothingStored
<1>6. root = savedRoot /\ Mapped /\ ~Aborting'
  BY <1>2, Numbers DEF TableInv, Rest, IInv, Closed, Aborting
<1>7. InTxn' /\ Rest'
  BY <1>1, <1>2, <1>6 DEF TableInv, Rest, InTxn, Ready, Mapped
<1>8. CallIdle'
  <2>1. CASE root = 0
    BY <1>1, <1>2, <1>4, <1>6, <2>1 DEF TableInv, Saved, CallIdle
  <2>2. CASE root # 0
    <3>1. Holds(N, N)
      BY <1>4, <1>6, <2>2 DEF TableInv, Saved, Holds, N
    <3>2. Holds(N, N)'
      BY <1>1, <1>2, <3>1, HoldsStill
    <3> QED BY <1>1, <3>2 DEF CallIdle
  <2> QED BY <2>1, <2>2
<1>9. TablePhase = "closed" /\ TablePhase' = "open"
  BY <1>2, <1>6 DEF TablePhase, Mapped
<1>10. WorkingPages' = WorkingPages
  BY <1>1, <1>2, <1>9, WorkingAre, WorkingAreNext DEF N, Pages
<1>11. ListStep
  BY <1>5, <1>9, <1>10 DEF ListStep, PageList!Next, PageList!Begin
<1> QED BY <1>3, <1>5, <1>7, <1>8, <1>11 DEF StepOK, TableInv, Work

\* A step after which no transaction is open: the table is the saved one.
LEMMA ClosedList ==
  ASSUME root = savedRoot, call = Idle
  PROVE  WorkingPages = SavedPages
BY SavedAre, WorkingAre DEF Idle, WorkingPages, N, Pages

\* The same, of the next state.
LEMMA ClosedListNext ==
  ASSUME root' = savedRoot', call' = Idle
  PROVE  WorkingPages' = SavedPages'
<1>1. CASE TablePhase' = "failed"
  BY <1>1 DEF WorkingPages
<1>2. CASE TablePhase' # "failed"
  BY <1>2, SavedAre, WorkingAreNext DEF Idle, N, Pages
<1> QED BY <1>1, <1>2

\* txn_commit starts: the table becomes the committed one.
LEMMA CommitStartTable ==
  ASSUME TableFits, TableInv, Between, CommitStart, savedRoot' = root,
         root' = root, call' = call
  PROVE  StepOK
<1>1. /\ InTxn /\ pc' = "commit" /\ call = Idle
      /\ data' = data /\ live' = live /\ freelist' = freelist
      /\ objlist' = objlist /\ txn' = txn /\ nblocks' = nblocks
  BY DEF CommitStart, Between, disk, state, io
<1>2. IInv'
  BY CommitStartStep DEF TableInv
<1>3. txn = TRUE /\ pc = "ready" /\ freelist = 2 /\ Mapped /\ ~Aborting
  BY <1>1, LiveFacts DEF TableInv
<1>4. Committed' = live
  BY <1>1 DEF Committed
<1>5. (root = 0 /\ live = {}) \/ Holds(N, N)
  BY <1>1, WorkAt DEF CallIdle, Between
<1>6. Saved'
  <2>1. CASE root = 0
    BY <1>4, <1>5, <2>1 DEF Saved, Holds
  <2>2. CASE root # 0
    <3>1. N' = N /\ Holds(N, N)'
      BY <1>1, <1>5, <2>2, HoldsStill
    <3>2. Pages(savedRoot)' = N'
      BY DEF Pages, N
    <3> QED BY <1>1, <1>4, <2>2, <3>1, <3>2 DEF Saved, Holds
  <2> QED BY <2>1, <2>2
<1>7. Untouched
  BY <1>1 DEF Untouched
<1>8. ~InTxn' /\ Work' /\ Rest'
  BY <1>1 DEF TableInv, Work, Rest, InTxn, Ready
<1>9. TablePhase = "open" /\ TablePhase' = "committed"
  BY <1>1, <1>3, Numbers DEF TablePhase, Aborting
<1>10. WorkingPages' = WorkingPages
  BY <1>1, <1>9, WorkingAre, WorkingAreNext DEF N, Pages
<1>11. SavedPages' = WorkingPages
  BY <1>1, <1>10, ClosedListNext
<1>12. ListStep
  BY <1>9, <1>10, <1>11 DEF ListStep, PageList!Next, PageList!Commit
<1> QED BY <1>2, <1>6, <1>7, <1>8, <1>12 DEF StepOK, TableInv

\* The loop of txn_commit_master, and its end.
LEMMA CommitLoopTable ==
  ASSUME TableFits, TableInv, Between,
         CommitEnd \/ \E k \in todo : CommitEntry(k),
         savedRoot' = savedRoot, root' = root, call' = call
  PROVE  StepOK
<1>1. /\ pc = "commit" /\ call = Idle /\ data' = data /\ live' = live
      /\ objlist' = objlist
      /\ \/ pc' = "commit" /\ txn' = txn /\ freelist' = freelist
         \/ txn' = FALSE
  BY DEF CommitEnd, CommitEntry, Committing, Between, state
<1>2. IInv'
  BY CommitEndStep, CommitEntryStep DEF TableInv
<1>3. txn = TRUE /\ freelist = 2
  BY <1>1, InCommitFacts DEF TableInv, CommitFacts
<1>4. Committed' = Committed
  BY <1>1 DEF Committed
<1>5. Saved' /\ SavedPages' = SavedPages /\ Untouched
  BY <1>1, <1>4, NothingStored
<1>6. root = savedRoot
  BY <1>1 DEF TableInv, Rest
<1>7. ~InTxn' /\ Work' /\ Rest'
  BY <1>1, <1>6 DEF TableInv, Work, Rest, InTxn, Ready
<1>8. TablePhase = "committed" /\ TablePhase' \in {"committed", "closed"}
  <2>1. TablePhase = "committed"
    BY <1>1, <1>3, Numbers DEF TablePhase, Aborting
  <2>2. CASE txn' = FALSE
    BY <2>1, <2>2 DEF TablePhase
  <2>3. CASE pc' = "commit" /\ txn' = txn /\ freelist' = freelist
    BY <1>3, <2>1, <2>3, Numbers DEF TablePhase, Aborting
  <2> QED BY <1>1, <2>2, <2>3
<1>9. WorkingPages' = WorkingPages
  BY <1>1, <1>5, <1>6, ClosedList, ClosedListNext
<1>10. ListStep
  BY <1>5, <1>8, <1>9 DEF ListStep, PageList!Next, PageList!End, PageList!vars
<1> QED BY <1>2, <1>5, <1>7, <1>10 DEF StepOK, TableInv

\* The old table is back, whether io_resize fails or not.
LEMMA AbortTable ==
  ASSUME TableFits, TableInv, Abort
  PROVE  StepOK
<1>1. /\ call = Idle /\ call' = call /\ AbortRoots /\ root' = savedRoot
      /\ savedRoot' = savedRoot
  BY DEF Abort, Between, txn_abort, AbortFails
<1>2. /\ txn = TRUE /\ pc = "ready"
      /\ freelist' = 1 /\ objlist' = 3 /\ live' = Committed /\ pc' = pc
      /\ ts_nblocks \in 4 .. fsize /\ fsize \in Nat
      /\ ResizedFile(ts_nblocks) \in ts_nblocks .. MaxBlocks
      /\ Committed \subseteq UserBlock
      /\ Committed \subseteq 4 .. ts_nblocks - 1
  BY <1>1, AbortFacts DEF TableInv
<1>3. IInv' /\ Committed' = Committed /\ (txn' = FALSE \/ nblocks' = 0)
  <2>1. CASE txn_abort
    <3>1. IInv' /\ txn' = FALSE
      BY <2>1, AbortStep DEF TableInv, txn_abort
    <3> QED BY <1>2, <3>1 DEF Committed
  <2>2. CASE AbortFails
    BY <2>2, AbortFailsStep DEF TableInv, AbortFails
  <2> QED BY <2>1, <2>2 DEF Abort
<1>4. /\ data' = Truncated(data, fsize') /\ fsize' \in {fsize, ResizedFile(ts_nblocks)}
  BY DEF Abort, txn_abort, AbortFails
<1>5. Committed \subseteq Block
  BY <1>2, Numbers
<1>6. ASSUME NEW b \in Committed
      PROVE  data'[b] = data[b]
  <2>1. b \in 4 .. ts_nblocks - 1 /\ b \in Block
    BY <1>2, <1>5
  <2>2. b < fsize'
    BY <1>2, <1>4, <2>1, Numbers
  <2> QED BY <1>4, <2>1, <2>2 DEF Truncated
<1>7. Saved' /\ SavedPages' = SavedPages
  <2>1. \A b \in Committed, t \in Slot : data'[b][t] = data[b][t]
    BY <1>6
  <2> QED BY <1>1, <1>3, <1>5, <2>1, SavedStays DEF TableInv
<1>8. Untouched
  BY <1>6 DEF Untouched
<1>9. ~InTxn' /\ Work' /\ Rest'
  BY <1>1, <1>2, <1>3, Numbers DEF Work, Rest, InTxn, Mapped
<1>10. TablePhase' = "closed"
  BY <1>2, Numbers DEF TablePhase, Aborting
<1>11. WorkingPages' = SavedPages
  BY <1>1, <1>7, ClosedListNext
<1>12. CASE TablePhase = "closed"
  <2>1. Aborting
    BY <1>2, <1>12 DEF TablePhase
  <2>2. root = savedRoot
    BY <2>1 DEF TableInv, Rest
  <2>3. WorkingPages' = WorkingPages
    BY <1>1, <1>11, <2>2, ClosedList
  <2>4. ListStep
    BY <1>7, <1>10, <1>12, <2>3, KeepsList
  <2> QED BY <1>3, <1>7, <1>8, <1>9, <2>4 DEF StepOK, TableInv
<1>13. CASE TablePhase # "closed"
  <2>1. TablePhase \in {"open", "failed"}
    BY <1>2, <1>13 DEF TablePhase
  <2>2. ListStep
    BY <1>7, <1>10, <1>11, <2>1 DEF ListStep, PageList!Next, PageList!Abort
  <2> QED BY <1>3, <1>7, <1>8, <1>9, <2>2 DEF StepOK, TableInv
<1> QED BY <1>12, <1>13

\* A table of no pages is the empty list.
LEMMA NoPages ==
  ASSUME NEW d, NEW r
  PROVE  PagesIn(d, r, 0) = <<>>
BY DEF PagesIn

\* A new root, cleared by page_init.
LEMMA CreateStep ==
  ASSUME TableFits, TableInv, Create
  PROVE  StepOK
<1> SUFFICES ASSUME NEW x,
                    x = FreelistAllocate(flist[freelist], nblocks).block
             PROVE  StepOK
  OBVIOUS
<1>1. /\ call = Idle /\ root = 0 /\ InTxn
      /\ Take(FreelistAllocate(flist[freelist], nblocks), ALLOCATED)
      /\ live' = live \cup {x}
      /\ UNCHANGED <<freelist, objlist, txn, ts_nblocks, loop>>
      /\ data' = [data EXCEPT ![x] = Zero]
      /\ root' = x /\ savedRoot' = savedRoot /\ call' = call
  BY DEF Create, Allocate, Between
<1>2. IInv /\ live = {}
  BY <1>1, WorkAt DEF TableInv, CallIdle, Between, Holds
<1>3. data \in [Block -> Value] /\ x \in Block /\ Committed \subseteq Block
  BY <1>1, <1>2, LiveFacts, TakeEffect, Numbers
<1>4. /\ data' \in [Block -> Value]
      /\ \A t \in Slot : data'[x][t] = 0
      /\ \A b \in Block \ {x} : data'[b] = data[b]
  BY <1>1, <1>3, ValueIsWords, ValueAssumption
<1>5. Allocated
  BY <1>1, <1>4 DEF Allocated
<1>6. StaysOpen /\ x # 0 /\ x \notin Committed
  BY <1>2, <1>5, AllocatedFacts
<1>7. Whole(data', x, 0, 0, {x}) /\ data'[x][Header] = 0
  BY <1>4, NewRoot
<1>8. N' = 0
  BY <1>1, <1>7 DEF N, Pages
<1>9. CallIdle'
  BY <1>1, <1>2, <1>6, <1>7, <1>8 DEF CallIdle, Holds
<1>10. \A b \in Committed, t \in Slot : data'[b][t] = data[b][t]
  BY <1>3, <1>4, <1>6
<1>11. WorkingPages' = WorkingPages
  <2>1. TablePhase = "open" /\ TablePhase' = "open"
    BY <1>6, OpenPhase
  <2> QED BY <1>1, <1>8, <2>1, NoPages, WorkingAre, WorkingAreNext DEF Idle
<1> QED BY <1>1, <1>6, <1>9, <1>10, <1>11, StepDone DEF Work

\* A root of an earlier transaction is copied, and the caller takes the copy.
LEMMA MakeWritableStep ==
  ASSUME TableFits, TableInv, MakeWritable
  PROVE  StepOK
<1> SUFFICES ASSUME NEW x, NEW n, n = N,
                    x = FreelistAllocate(flist[freelist], nblocks).block
             PROVE  StepOK
  OBVIOUS
<1>1. /\ call = Idle /\ root # 0 /\ InTxn /\ blocks[root] = 0
      /\ UNCHANGED <<freelist, objlist, txn, ts_nblocks, loop>>
      /\ Take(FreelistAllocate(flist[freelist], nblocks), root)
      /\ live' = (live \ {root}) \cup {x}
      /\ MakesCopy(data, data', root, x)
      /\ root' = x /\ savedRoot' = savedRoot /\ call' = call
  BY DEF MakeWritable, Modify, Between, Same, MakesCopy
<1>2. IInv /\ Holds(n, n)
  BY <1>1, WorkAt DEF TableInv, CallIdle, Between
<1>3. /\ Whole(data, root, n, n, live) /\ root \in live /\ root \in Block
      /\ live \subseteq Block /\ n \in Nat
  BY <1>1, <1>2, WholeFacts
<1>4. data \in [Block -> Value] /\ x \in Block /\ Committed \subseteq Block
  BY <1>1, <1>2, LiveFacts, TakeEffect, Numbers
<1>5. /\ data' \in [Block -> Value]
      /\ Copies(data, data', root, x)
      /\ SameOutside(data, data', {x})
  BY <1>1, <1>3, <1>4, CopyMade
<1>6. CopiedTo(root, x) /\ objlist' = objlist
  BY <1>1, <1>5 DEF CopiedTo
<1>7. StaysOpen /\ x \in Block \ live /\ x # 0 /\ x \notin Committed
  BY <1>1, <1>2, <1>3, <1>6, CopiedFacts
<1>8. /\ Whole(data', x, n, n, live')
      /\ SamePages(data, root, data', x, n)
      /\ data'[x][Header] = n
  <2>1. /\ TableFits /\ Whole(data, root, n, n, live) /\ live \subseteq Block
        /\ x \in Block \ live /\ Copies(data, data', root, x)
    BY <1>3, <1>5, <1>7
  <2>2. /\ Whole(data', x, n, n, (live \ {root}) \cup {x})
        /\ SamePages(data, root, data', x, n)
        /\ data'[x][Header] = data[root][Header]
    BY ONLY <2>1, MoveRoot
  <2> QED BY <1>1, <2>2 DEF N, Pages
<1>9. N' = n
  BY <1>1, <1>8 DEF N, Pages
<1>10. CallIdle'
  BY <1>1, <1>7, <1>8, <1>9 DEF CallIdle, Holds
<1>11. \A b \in Committed, t \in Slot : data'[b][t] = data[b][t]
  BY <1>4, <1>5, <1>7, Elsewhere
<1>12. WorkingPages' = WorkingPages
  <2>1. TablePhase = "open" /\ TablePhase' = "open"
    BY <1>7, OpenPhase
  <2>2. PagesIn(data', x, n) = PagesIn(data, root, n)
    BY <1>3, <1>8, ListKept
  <2> QED BY <1>1, <1>7, <1>9, <2>1, <2>2, WorkingAre, WorkingAreNext DEF Idle
<1> QED BY <1>1, <1>7, <1>10, <1>11, <1>12, StepDone DEF Work

\* Every step of a careful caller.
LEMMA TableStep ==
  ASSUME TableFits, TableInv, TableNext, Careful
  PROVE  StepOK
<1>1. CASE Create
  BY <1>1, CreateStep
<1>2. CASE MakeWritable
  BY <1>2, MakeWritableStep
<1>3. CASE \E n \in 0 .. MaxPages : page_resize(n)
  BY <1>3, ResizeStep DEF Careful
<1>4. CASE GrowDirect
  BY <1>4, GrowDirectStep
<1>5. CASE GrowIndex
  BY <1>5, GrowIndexStep
<1>6. CASE GrowSlot
  BY <1>6, GrowSlotStep
<1>7. CASE ShrinkSlot
  BY <1>7, ShrinkSlotStep
<1>8. CASE ShrinkIndex
  BY <1>8, ShrinkIndexStep
<1>9. CASE ShrinkDirect
  BY <1>9, ShrinkDirectStep
<1>10. CASE ResizeReturns
  BY <1>10, ResizeReturnsStep
<1>11. CASE Fails
  BY <1>11, FailStep
<1>12. CASE \E i \in 0 .. MaxPages - 1, w \in Payload : page_write_host_index(i, w)
  BY <1>12, WriteStep DEF Careful
<1>13. CASE WritePage
  BY <1>13, WritePageStep
<1>14. CASE Refused
  BY <1>14, RefusedStep
<1>15. CASE Begin
  BY <1>15, OpeningStep
<1>16. CASE Commit
  BY <1>16, CommitStartTable, CommitLoopTable DEF Commit
<1>17. CASE Abort
  BY <1>17, AbortTable
<1> QED BY <1>1, <1>2, <1>3, <1>4, <1>5, <1>6, <1>7, <1>8, <1>9, <1>10, <1>11,
           <1>12, <1>13, <1>14, <1>15, <1>16, <1>17 DEF TableNext

\* At first nothing is allocated.
LEMMA InitTable ==
  ASSUME TableInit
  PROVE  TableInv /\ PageList!Init
<1>1. /\ Init /\ root = 0 /\ savedRoot = 0 /\ call = Idle
      /\ txn = FALSE /\ live = {} /\ objlist = EDB_OBJLIST
  BY DEF TableInit, Init
<1>2. IInv
  BY <1>1, InitIInv
<1>3. Saved
  BY <1>1 DEF Saved, Committed
<1>4. Work /\ Rest
  BY <1>1 DEF Work, Rest, InTxn
<1>5. TablePhase = "closed"
  BY <1>1 DEF TablePhase
<1>6. SavedPages = <<>> /\ WorkingPages = <<>>
  BY <1>1, <1>5 DEF SavedPages, WorkingPages
<1> QED BY <1>2, <1>3, <1>4, <1>5, <1>6 DEF TableInv, PageList!Init

\* A step that changes nothing.
LEMMA TableStutters ==
  ASSUME TableFits, TableInv, UNCHANGED tableVars
  PROVE  StepOK
<1>1. /\ UNCHANGED <<fsize, nblocks, flist, data, freelist, objlist, txn, blocks,
                     ts_nblocks, pc, todo, live, rc>>
      /\ root' = root /\ savedRoot' = savedRoot /\ call' = call
  BY DEF tableVars, table, vars, io, disk, state, loop
<1>2. IInv'
  <2>1. UNCHANGED vars
    BY <1>1 DEF vars, io, disk, state, loop
  <2> QED BY <2>1, NextIInv DEF TableInv
<1>3. Committed' = Committed
  BY <1>1 DEF Committed, Pending, Given, Waiting, IsCopy
<1>4. Saved' /\ Rest'
  <2>1. Saved'
    BY <1>1, <1>3, NothingStored
  <2>2. InTxn' = InTxn /\ Aborting' = Aborting
    BY <1>1 DEF InTxn, Ready, Mapped, Aborting
  <2>3. Rest'
    BY <1>1, <2>2 DEF TableInv, Rest
  <2> QED BY <2>1, <2>3
<1>5. Work'
  <2>1. InTxn' = InTxn /\ (root = 0 /\ live = {})' = (root = 0 /\ live = {})
    BY <1>1 DEF InTxn, Ready, Mapped
  <2>2. N' = N
    BY <1>1 DEF N, Pages
  <2>3. /\ Holds(N, N)' = Holds(N, N)
        /\ Holds(N, N + 1)' = Holds(N, N + 1)
        /\ Holds(N - 1, N)' = Holds(N - 1, N)
    BY <1>1, <2>2 DEF Holds, Whole, PageAt, IndexAt
  <2>4. NewFrom(call.n)' = NewFrom(call.n)
    BY <1>1, <2>2 DEF NewFrom, New, IndexBlock
  <2>5. CallIdle' = CallIdle
    BY <1>1, <2>1, <2>3 DEF CallIdle
  <2>6. CallResize' = CallResize /\ CallCleared' = CallCleared
    BY <1>1, <2>2, <2>3, <2>4
       DEF CallResize, CallCleared, TableResize, TableCleared, New
  <2>7. CallSlot' = CallSlot
    BY <1>1, <2>2, <2>3 DEF CallSlot, TableSlot, New, IndexBlock
  <2>8. CallWrite' = CallWrite
    BY <1>1, <2>2, <2>3 DEF CallWrite, New, HostBlock, IndexBlock
  <2> QED BY <2>1, <2>5, <2>6, <2>7, <2>8 DEF TableInv, Work
<1>6. Untouched
  BY <1>1 DEF Untouched
<1>7. ListStep
  <2>1. TablePhase' = TablePhase
    BY <1>1 DEF TablePhase, Aborting, Mapped
  <2>2. SavedPages' = SavedPages
    BY <1>1, SavedAre
  <2>3. WorkingPages' = WorkingPages
    BY <1>1, <2>1, <2>2, WorkingAre, WorkingAreNext DEF WorkingPages, N, Pages
  <2> QED BY <2>1, <2>2, <2>3, KeepsList
<1> QED BY <1>2, <1>4, <1>5, <1>6, <1>7 DEF StepOK, TableInv

\* What the theorems use of a step.
LEMMA EveryStep ==
  ASSUME TableFits
  PROVE  TableInv /\ [TableNext /\ Careful]_tableVars => StepOK
BY TableStep, TableStutters

\* The inductive invariant holds in every state a careful caller reaches.
THEOREM TableInvariance == TableFits => (CarefulTableSpec => []TableInv)
<1> SUFFICES ASSUME TableFits PROVE CarefulTableSpec => []TableInv
  OBVIOUS
<1>1. TableInit => TableInv
  BY InitTable
<1>2. TableInv /\ [TableNext /\ Careful]_tableVars => TableInv'
  BY EveryStep DEF StepOK
<1> QED BY <1>1, <1>2, PTL DEF CarefulTableSpec

\* Between two calls the caller's blocks are those of its table.
LEMMA BetweenHolds ==
  ASSUME TableInv, Mapped, ~Aborting, Between
  PROVE  (root = 0 /\ live = {}) \/ Holds(N, N)
<1>1. CASE InTxn
  BY <1>1, WorkAt DEF CallIdle
<1>2. CASE ~InTxn
  <2>1. ~(txn /\ pc = "ready")
    BY <1>2 DEF InTxn, Ready
  <2>2. root = savedRoot /\ Committed = live
    BY <2>1 DEF TableInv, Rest, Committed
  <2> QED BY <2>2 DEF TableInv, Saved, Holds, N
<1> QED BY <1>1, <1>2

\* The inductive invariant says that the table is whole.
LEMMA WholeTable ==
  ASSUME TableFits, TableInv
  PROVE  TableIsWhole
<1> SUFFICES ASSUME Mapped, ~Aborting, Between
             PROVE  IF root = 0 THEN live = {}
                    ELSE /\ live = {root} \cup IndexBlocks(root) \cup DataBlocks(root)
                         /\ root \notin IndexBlocks(root) \cup DataBlocks(root)
                         /\ IndexBlocks(root) \cap DataBlocks(root) = {}
                         /\ \A i, j \in 0 .. N - 1 :
                              HostBlock(root, i) = HostBlock(root, j) => i = j
  BY DEF TableIsWhole
<1>1. CASE root = 0
  BY <1>1, BetweenHolds DEF Holds
<1>2. CASE root # 0
  <2>1. Whole(data, root, N, N, live)
    BY <1>2, BetweenHolds DEF Holds
  <2>2. /\ root \in live
        /\ \A i \in 0 .. N - 1 : PageAt(data, root, i) \in live \ {root}
        /\ \A k \in LEVEL_ONE .. N - 1 : IndexAt(data, root, k) \in live \ {root}
        /\ \A i \in 0 .. N - 1, k \in LEVEL_ONE .. N - 1 :
             PageAt(data, root, i) # IndexAt(data, root, k)
        /\ \A i, j \in 0 .. N - 1 :
             PageAt(data, root, i) = PageAt(data, root, j) => i = j
        /\ \A b \in live : \/ b = root
                           \/ \E i \in 0 .. N - 1 : b = PageAt(data, root, i)
                           \/ \E k \in LEVEL_ONE .. N - 1 : b = IndexAt(data, root, k)
    BY <2>1 DEF Whole
  <2>3. /\ IndexBlocks(root) = {IndexAt(data, root, k) : k \in LEVEL_ONE .. N - 1}
        /\ DataBlocks(root) = {PageAt(data, root, i) : i \in 0 .. N - 1}
    BY PagesAre DEF IndexBlocks, DataBlocks, N
  <2>4. \A i, j \in 0 .. N - 1 : HostBlock(root, i) = HostBlock(root, j) => i = j
    BY <2>2, PagesAre
  <2> QED BY <1>2, <2>2, <2>3, <2>4
<1> QED BY <1>1, <1>2

\* Each page and each index block has a block of its own, and the caller
\* holds no other, however its resizes went (page_resize).
THEOREM TableAlwaysWhole == TableFits => (CarefulTableSpec => []TableIsWhole)
<1> SUFFICES ASSUME TableFits PROVE CarefulTableSpec => []TableIsWhole
  OBVIOUS
<1>1. TableInv => TableIsWhole
  BY WholeTable
<1> QED BY <1>1, TableInvariance, PTL

\* A commit puts no block of the table on the free list (txn_commit_master,
\* page_resize, page_write_host_index).
THEOREM CommitKeepsPages == TableFits => (CarefulTableSpec => []CommitFreesNoPage)
<1> SUFFICES ASSUME TableFits PROVE CarefulTableSpec => []CommitFreesNoPage
  OBVIOUS
<1>1. ASSUME TableInv
      PROVE  CommitFreesNoPage
  <2> SUFFICES ASSUME Between, Mapped, ~txn, root # 0
               PROVE  Range(flist[freelist])
                 \cap ({root} \cup IndexBlocks(root) \cup DataBlocks(root)) = {}
    BY DEF CommitFreesNoPage
  <2>1. ~Aborting
    BY DEF Aborting
  <2>2. live = {root} \cup IndexBlocks(root) \cup DataBlocks(root)
    BY <1>1, <2>1, WholeTable DEF TableIsWhole
  <2>3. Range(flist[freelist]) \cap live = {}
    BY <1>1, <2>1 DEF TableInv, IInv, NoneShared, Disjoint
  <2> QED BY <2>2, <2>3
<1> QED BY <1>1, TableInvariance, PTL

\* While a transaction is open no block of the committed state is stored into
\* (page_resize, page_write_host_index, txn_modify_block).
THEOREM CommittedStaysUntouched ==
  TableFits => (CarefulTableSpec => CommittedUntouched)
<1> SUFFICES ASSUME TableFits PROVE CarefulTableSpec => CommittedUntouched
  OBVIOUS
<1>1. TableInv /\ [TableNext /\ Careful]_tableVars
        => [(txn /\ pc = "ready" /\ txn') =>
              \A b \in Committed : data'[b] = data[b]]_tableVars
  BY EveryStep DEF StepOK, Untouched
<1> QED
  BY <1>1, TableInvariance, PTL DEF CarefulTableSpec, CommittedUntouched

\* A page table is a list of pages, inside transactions (page_resize,
\* page_write_host_index, page_read_host_index).
THEOREM TableIsList == TableFits => (CarefulTableSpec => ImplementsListStore)
<1> SUFFICES ASSUME TableFits PROVE CarefulTableSpec => ImplementsListStore
  OBVIOUS
<1>1. TableInit => PageList!Init
  BY InitTable
<1>2. TableInv /\ [TableNext /\ Careful]_tableVars => [PageList!Next]_(PageList!vars)
  BY EveryStep DEF StepOK, ListStep
<1> QED
  BY <1>1, <1>2, TableInvariance, PTL
     DEF CarefulTableSpec, ImplementsListStore, PageList!Spec
=============================================================================
