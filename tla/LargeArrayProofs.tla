-------------------------- MODULE LargeArrayProofs --------------------------
(***************************************************************************)
(* Proofs about the arrays of LargeArray.tla, for a caller that looks up   *)
(* no page of an earlier transaction, takes no page from an index block of *)
(* one and reads inside transactions (CarefulArraySpec), and for tables    *)
(* whose index blocks stop before the array's own words (ArrayFits).       *)
(*                                                                         *)
(* The invariant says of two arrays that they are sound: the one the       *)
(* caller works on and the one of the last committed state.  A sound array *)
(* has room for its items, and is small, in one block, or has a table that *)
(* is whole (PageTableProofs.tla).  In the middle of a call it says where  *)
(* the items are that the array had when the call began: in the pages that *)
(* are left, or among those set aside.  What page_resize does to the table *)
(* is proved in PageTableProofs.tla, what the transactions do in           *)
(* TxnProofs.tla.                                                          *)
(***************************************************************************)
EXTENDS LargeArray, PageTableProofs

\* No index block's number is stored in the array's own words, a length fits
\* in a word, and the longest array in the longest table.
ArrayFits ==
  /\ MaxPages <= LEVEL_ONE + (LEVEL_ONE - HEADERS) * INDEX_SIZE
  /\ MaxItems \in Nat /\ 0 .. MaxItems \subseteq Words
  /\ MaxItems <= MaxPages * items_per_block

-----------------------------------------------------------------------------
(***************************************************************************)
(* Where an item is.                                                       *)
(***************************************************************************)

PageOf(i) == i \div items_per_block

\* The words of the root that hold the items of a small array.
SmallWords == 1 .. small_capacity * ITEM

\* The numbers of items.
LEMMA ItemSizes ==
  /\ ITEM \in Nat /\ ITEM > 0 /\ INDEX_SIZE \in Nat /\ INDEX_SIZE > 3
  /\ items_per_block \in Nat /\ items_per_block > 0
  /\ ITEM * items_per_block <= INDEX_SIZE
  /\ small_capacity \in Nat /\ small_capacity > 0
  /\ ITEM * small_capacity <= INDEX_SIZE - 3
  /\ small_capacity <= items_per_block
<1> DEFINE c == INDEX_SIZE
           p == items_per_block
           s == small_capacity
<1>1. /\ c \in Nat /\ c > 3 /\ ITEM \in 1 .. c - 3
  <2>1. c \in Nat /\ ITEM \in 1 .. c - 3
    BY TableSizes, ArrayAssumption DEF HEADERS
  <2> QED BY <2>1
<1>2. ITEM \in Nat /\ ITEM > 0 /\ c - 3 \in Nat
  BY <1>1
<1>3. p \in Nat /\ c % ITEM \in 0 .. ITEM - 1 /\ c = ITEM * p + (c % ITEM)
  BY <1>1, <1>2, Divides DEF items_per_block
<1>4. /\ s \in Nat /\ (c - 3) % ITEM \in 0 .. ITEM - 1
      /\ c - 3 = ITEM * s + ((c - 3) % ITEM)
  BY <1>1, <1>2, Divides DEF small_capacity, HEADERS
<1> HIDE DEF c, p, s
<1>5. ASSUME NEW r \in 0 .. ITEM - 1, NEW q \in 0 .. ITEM - 1,
             c = ITEM * p + r, c - 3 = ITEM * s + q
      PROVE  p > 0 /\ s > 0 /\ s <= p /\ ITEM * p <= c /\ ITEM * s <= c - 3
  <2>1. ITEM * p \in Int /\ ITEM * s \in Int /\ ITEM * p <= c /\ ITEM * s <= c - 3
    BY <1>1, <1>2, <1>3, <1>4, <1>5
  <2>2. s > 0
    <3>1. s = 0 => ITEM * s = 0
      BY <1>2
    <3> QED BY <1>1, <1>4, <1>5, <3>1
  <2>3. s <= p
    <3>1. s >= p + 1 => ITEM * s >= ITEM * p + ITEM
      BY <1>2, <1>3, <1>4
    <3> QED BY <1>1, <1>2, <1>3, <1>4, <1>5, <2>1, <3>1
  <2> QED BY <1>3, <1>4, <2>1, <2>2, <2>3
<1> QED BY <1>1, <1>2, <1>3, <1>4, <1>5 DEF c, p, s

\* An item is in its page, and in its place there.
LEMMA ItemPlace ==
  ASSUME NEW i \in Nat
  PROVE  /\ PageOf(i) \in Nat /\ i % items_per_block \in 0 .. items_per_block - 1
         /\ i = items_per_block * PageOf(i) + (i % items_per_block)
         /\ ItemWord(i) \in Slot
         /\ ItemWord(i) = ITEM * (i % items_per_block) + 1
<1> DEFINE p == items_per_block
           m == i % items_per_block
<1>1. /\ ITEM \in Nat /\ ITEM > 0 /\ INDEX_SIZE \in Nat
      /\ p \in Nat /\ p > 0 /\ ITEM * p <= INDEX_SIZE
  BY ItemSizes
<1>2. PageOf(i) \in Nat /\ m \in 0 .. p - 1 /\ i = p * PageOf(i) + m
  BY <1>1, Divides DEF PageOf
<1>3. ItemWord(i) = ITEM * m + 1
  BY DEF ItemWord
<1> HIDE DEF p, m
<1>4. ITEM * m + 1 \in 1 .. INDEX_SIZE
  <2>1. m \in Nat /\ p - 1 - m \in Nat
    BY <1>1, <1>2
  <2>2. ITEM * m \in Nat /\ ITEM * (p - 1 - m) >= 0
    BY <1>1, <2>1
  <2>3. ITEM * (p - 1 - m) = ITEM * p - ITEM - ITEM * m
    BY <1>1, <2>1
  <2> QED BY <1>1, <2>2, <2>3
<1> QED BY <1>2, <1>3, <1>4 DEF Slot, INDEX_SIZE, p, m

\* The first n pages hold the items below n * items_per_block.
LEMMA PagesHold ==
  ASSUME NEW i \in Nat, NEW n \in Nat
  PROVE  i < n * items_per_block <=> PageOf(i) < n
<1> DEFINE p == items_per_block
           q == PageOf(i)
           m == i % items_per_block
<1>1. p \in Nat /\ p > 0 /\ q \in Nat /\ m \in 0 .. p - 1 /\ i = p * q + m
  BY ItemSizes, ItemPlace
<1> HIDE DEF p, q, m
<1>2. q >= n => p * (q - n) >= 0
  BY <1>1
<1>3. q <= n - 1 => p * (n - 1 - q) >= 0
  BY <1>1
<1>4. p * (q - n) = p * q - n * p /\ p * (n - 1 - q) = n * p - p - p * q
  BY <1>1
<1>5. p * q \in Int /\ n * p \in Int
  BY <1>1
<1>6. q >= n => ~(i < n * p)
  BY <1>1, <1>2, <1>4, <1>5
<1>7. q <= n - 1 => i < n * p
  BY <1>1, <1>3, <1>4, <1>5
<1>8. q >= n \/ q <= n - 1
  BY <1>1
<1>9. i < n * p <=> q < n
  BY <1>1, <1>6, <1>7, <1>8
<1> QED BY <1>9 DEF p, q

\* Two items of a page are in different words of it.
LEMMA ItemsApart ==
  ASSUME NEW i \in Nat, NEW j \in Nat,
         PageOf(i) = PageOf(j), ItemWord(i) = ItemWord(j)
  PROVE  i = j
<1> DEFINE p == items_per_block
           m == i % items_per_block
           n == j % items_per_block
<1>1. ITEM \in Nat /\ ITEM > 0 /\ p \in Nat /\ p > 0
  BY ItemSizes
<1>2. /\ PageOf(i) \in Nat /\ m \in 0 .. p - 1 /\ i = p * PageOf(i) + m
      /\ ItemWord(i) = ITEM * m + 1
  BY ItemPlace
<1>3. n \in 0 .. p - 1 /\ j = p * PageOf(j) + n /\ ItemWord(j) = ITEM * n + 1
  BY ItemPlace
<1> HIDE DEF p, m, n
<1>4. ITEM \in Nat /\ ITEM > 0 /\ m \in Nat /\ n \in Nat /\ p * PageOf(i) \in Nat
  BY <1>1, <1>2, <1>3
<1>5. ITEM * m + 1 = ITEM * n + 1 /\ j = p * PageOf(i) + n
  <2>1. ITEM * m + 1 = ITEM * n + 1
    BY <1>2, <1>3
  <2>2. j = p * PageOf(i) + n
    BY <1>3
  <2> QED BY <2>1, <2>2
<1>6. m = n
  <2>1. m >= n + 1 => ITEM * (m - n) >= 1
    BY <1>4
  <2>2. n >= m + 1 => ITEM * (n - m) >= 1
    BY <1>4
  <2>3. ITEM * (m - n) = ITEM * m - ITEM * n /\ ITEM * (n - m) = ITEM * n - ITEM * m
    BY <1>4
  <2>4. ITEM * m \in Int /\ ITEM * n \in Int
    BY <1>4
  <2> QED BY <1>4, <1>5, <2>1, <2>2, <2>3, <2>4
<1> QED BY <1>2, <1>4, <1>5, <1>6

\* The items of a small array, and those that a large one has in its first
\* page for them, are in the first words of a block.
LEMMA SmallPlace ==
  ASSUME NEW i \in Nat, i < small_capacity
  PROVE  PageOf(i) = 0 /\ ItemWord(i) = ITEM * i + 1 /\ ItemWord(i) \in SmallWords
<1> DEFINE p == items_per_block
           m == i % items_per_block
           q == PageOf(i)
<1>1. /\ ITEM \in Nat /\ ITEM > 0 /\ p \in Nat /\ p > 0
      /\ small_capacity \in Nat /\ small_capacity <= p
      /\ m \in Nat /\ q \in Nat /\ i = p * q + m /\ ItemWord(i) = ITEM * m + 1
  BY ItemSizes, ItemPlace
<1>2. q = 0
  <2>1. i < 1 * p => q < 1
    BY PagesHold
  <2> QED BY <1>1, <2>1
<1> HIDE DEF p, m, q
<1>3. i = m
  BY <1>1, <1>2
<1>4. ITEM * i + 1 \in SmallWords
  <2> DEFINE s == small_capacity
  <2>1. s \in Nat /\ s - 1 - i \in Nat
    BY <1>1
  <2> HIDE DEF s
  <2>2. ITEM * (s - 1 - i) >= 0 /\ ITEM * (s - 1 - i) = s * ITEM - ITEM - ITEM * i
    BY <1>1, <2>1
  <2>3. s * ITEM \in Nat /\ ITEM * i \in Nat
    BY <1>1, <2>1
  <2>4. ITEM * i + 1 \in 1 .. s * ITEM
    BY <1>1, <2>2, <2>3
  <2> QED BY <2>4 DEF SmallWords, s
<1> QED BY <1>1, <1>2, <1>3, <1>4 DEF q

\* The words of the root: the items of a small array, then those of the array
\* itself, which no page and no index block is in.
LEMMA ArrayWords ==
  ASSUME ArrayFits
  PROVE  /\ TableFits
         /\ LengthWord \in Slot /\ Header \in Slot /\ LengthWord # Header
         /\ LengthWord \in Spare
         /\ LengthWord \notin SmallWords /\ Header \notin SmallWords
         /\ SmallWords \subseteq Slot
<1> DEFINE L == LEVEL_ONE
           c == INDEX_SIZE
<1>1. L \in Nat /\ L > 1 /\ c = 2 * L /\ MaxPages \in Nat
  BY TableSizes
<1>2. c \in Nat /\ c > 3 /\ small_capacity * ITEM \in Nat
      /\ small_capacity * ITEM <= c - 3
  BY ItemSizes
<1>3. MaxPages <= L + (L - 3) * c
  BY DEF ArrayFits, HEADERS
<1>4. TableFits
  <2>1. (L - 3) * c <= (L - 1) * c
    BY <1>1, <1>2
  <2>2. (L - 3) * c \in Int /\ (L - 1) * c \in Int
    BY <1>1
  <2>3. MaxPages <= L + (L - 1) * c
    BY <1>1, <1>3, <2>1, <2>2
  <2> QED BY <2>3 DEF TableFits
<1>5. ASSUME NEW i \in Large
      PROVE  SlotOf(i) # LengthWord
  <2> DEFINE p == INDEX0(i)
             r == INDEX1(i)
  <2>1. p \in Nat /\ r \in 0 .. c - 1 /\ i - L = c * p + r
    BY Place
  <2>2. i \in Nat /\ i - L < (L - 3) * c
    BY <1>1, <1>3 DEF Large
  <2> HIDE DEF p, r
  <2>3. c * p < (L - 3) * c /\ c * p \in Int
    BY <1>1, <2>1, <2>2
  <2>4. p < L - 3
    <3>1. p >= L - 3 => c * (p - (L - 3)) >= 0
      BY <1>1, <2>1
    <3>2. c * (p - (L - 3)) = c * p - (L - 3) * c
      BY <1>1, <2>1
    <3>3. (L - 3) * c \in Int
      BY <1>1
    <3> QED BY <1>1, <2>1, <2>3, <3>1, <3>2, <3>3
  <2>5. SlotOf(i) = L + p + 1
    BY DEF SlotOf, IndexSlot, p
  <2>6. LengthWord = 2 * L - 1
    BY DEF LengthWord, Header
  <2> QED BY <1>1, <2>1, <2>4, <2>5, <2>6
<1>6. LengthWord = 2 * L - 1 /\ Header = 2 * L
  BY DEF LengthWord, Header
<1>7. LengthWord \in Spare
  <2>1. LengthWord \in Slot /\ LengthWord # Header
    BY <1>1, <1>6 DEF Slot
  <2>2. \A i \in 0 .. L - 1 : Direct(i) # LengthWord
    BY <1>1, <1>6 DEF Direct
  <2> QED BY <1>5, <2>1, <2>2 DEF Spare
<1>8. /\ LengthWord \notin SmallWords /\ Header \notin SmallWords
      /\ SmallWords \subseteq Slot /\ Header \in Slot
  BY <1>1, <1>2, <1>6 DEF SmallWords, Slot
<1> QED BY <1>4, <1>7, <1>8 DEF Spare


-----------------------------------------------------------------------------
(***************************************************************************)
(* Sound arrays, in any contents d of the disk.                            *)
(***************************************************************************)

\* Item i of a large array, and of an array.
PageItem(d, r, i) == d[PageAt(d, r, PageOf(i))][ItemWord(i)]
ItemIn(d, r, i) ==
  IF d[r][Header] = 0 THEN d[r][ItemWord(i)] ELSE PageItem(d, r, i)

ItemsIn(d, r) == [i \in 1 .. d[r][LengthWord] |-> ItemIn(d, r, i - 1)]

\* How many items n pages have room for.
Room(n) == IF n = 0 THEN small_capacity ELSE n * items_per_block

\* The blocks B are those of an array r: of a small one the root alone, in
\* which no word but the items' could be taken for an index block.
SmallTable(d, r, B) ==
  /\ B = {r}
  /\ \A k \in Large : SlotOf(k) \notin SmallWords => IndexAt(d, r, k) = 0

Sound(d, r, B) ==
  /\ d[r][Header] \in 0 .. MaxPages
  /\ d[r][LengthWord] \in 0 .. MaxItems
  /\ d[r][LengthWord] <= Room(d[r][Header])
  /\ IF d[r][Header] = 0 THEN SmallTable(d, r, B)
     ELSE Whole(d, r, d[r][Header], d[r][Header], B)

\* The items of a sound array are in its root, or in its pages.
LEMMA SoundFacts ==
  ASSUME ArrayFits, NEW d \in [Block -> Value], NEW r, NEW B, B \subseteq Block,
         Sound(d, r, B), NEW n, n = d[r][Header], NEW l, l = d[r][LengthWord]
  PROVE  /\ r \in B /\ r \in Block
         /\ n \in Nat /\ n \in 0 .. MaxPages /\ l \in Nat /\ l \in 0 .. MaxItems
         /\ l <= Room(n)
         /\ \A i \in 0 .. l - 1 :
              /\ i \in Nat /\ ItemWord(i) \in Slot
              /\ n = 0 => i < small_capacity /\ ItemWord(i) \in SmallWords
              /\ n # 0 => /\ PageOf(i) \in 0 .. n - 1
                          /\ PageAt(d, r, PageOf(i)) \in B \ {r}
<1>1. /\ n \in 0 .. MaxPages /\ l \in 0 .. MaxItems /\ l <= Room(n)
      /\ n = 0 => SmallTable(d, r, B)
      /\ n # 0 => Whole(d, r, n, n, B)
  BY DEF Sound
<1>2. r \in B /\ r \in Block
  <2>1. CASE n = 0
    BY <1>1, <2>1 DEF SmallTable
  <2>2. CASE n # 0
    BY <1>1, <2>2 DEF Whole
  <2> QED BY <2>1, <2>2
<1>3. n \in Nat /\ l \in Nat
  BY <1>1, TableSizes DEF ArrayFits
<1>4. ASSUME NEW i \in 0 .. l - 1
      PROVE  /\ i \in Nat /\ ItemWord(i) \in Slot
             /\ n = 0 => i < small_capacity /\ ItemWord(i) \in SmallWords
             /\ n # 0 => /\ PageOf(i) \in 0 .. n - 1
                         /\ PageAt(d, r, PageOf(i)) \in B \ {r}
  <2>1. i \in Nat /\ i < l
    BY <1>3
  <2>2. ItemWord(i) \in Slot /\ PageOf(i) \in Nat
    BY <2>1, ItemPlace
  <2>3. CASE n = 0
    <3>1. i < small_capacity
      BY <1>1, <1>3, <2>1, <2>3, ItemSizes DEF Room
    <3> QED BY <2>1, <2>2, <2>3, <3>1, SmallPlace
  <2>4. CASE n # 0
    <3>1. i < n * items_per_block
      <4>1. l <= n * items_per_block /\ items_per_block \in Nat
        BY <1>1, <2>4, ItemSizes DEF Room
      <4>2. n * items_per_block \in Nat
        BY <1>3, <4>1
      <4> QED BY <1>3, <2>1, <4>1, <4>2
    <3>2. PageOf(i) < n
      BY <1>3, <2>1, <3>1, PagesHold
    <3>3. PageOf(i) \in 0 .. n - 1
      BY <1>3, <2>2, <3>2
    <3> QED BY <1>1, <2>1, <2>2, <2>4, <3>3 DEF Whole
  <2> QED BY <2>3, <2>4
<1> QED BY <1>1, <1>2, <1>3, <1>4

\* The items of a sound array are a list.
LEMMA ItemsAreSeq ==
  ASSUME ArrayFits, NEW d \in [Block -> Value], NEW r, NEW B, B \subseteq Block,
         Sound(d, r, B)
  PROVE  /\ ItemsIn(d, r) \in Seq(Words)
         /\ Len(ItemsIn(d, r)) = d[r][LengthWord]
         /\ \A i \in 1 .. d[r][LengthWord] : ItemsIn(d, r)[i] = ItemIn(d, r, i - 1)
<1> SUFFICES ASSUME NEW n, n = d[r][Header], NEW l, l = d[r][LengthWord]
             PROVE  /\ ItemsIn(d, r) \in Seq(Words)
                    /\ Len(ItemsIn(d, r)) = l
                    /\ \A i \in 1 .. l : ItemsIn(d, r)[i] = ItemIn(d, r, i - 1)
  OBVIOUS
<1>1. /\ r \in B /\ r \in Block /\ l \in Nat
      /\ \A i \in 0 .. l - 1 :
           /\ ItemWord(i) \in Slot
           /\ n # 0 => PageAt(d, r, PageOf(i)) \in B \ {r}
  BY SoundFacts
<1>2. ASSUME NEW i \in 1 .. l
      PROVE  ItemIn(d, r, i - 1) \in Words
  <2>1. i - 1 \in 0 .. l - 1
    BY <1>1
  <2>2. \A b \in Block, t \in Slot : d[b][t] \in Words
    BY ValueIsWords
  <2> QED BY <1>1, <2>1, <2>2 DEF ItemIn, PageItem
<1>3. ItemsIn(d, r) = [i \in 1 .. l |-> ItemIn(d, r, i - 1)]
  BY DEF ItemsIn
<1> DEFINE s == ItemsIn(d, r)
<1>4. s \in [1 .. l -> Words]
  BY <1>2, <1>3
<1>5. \A i \in 1 .. l : s[i] = ItemIn(d, r, i - 1)
  BY <1>3
<1> HIDE DEF s
<1>6. s \in Seq(Words) /\ Len(s) = l
  BY <1>1, <1>4
<1> QED BY <1>5, <1>6 DEF s

\* An item in a page that stays is the same.
LEMMA ItemKept ==
  ASSUME NEW d, NEW e, NEW r, NEW q, NEW n \in Nat, SamePages(d, r, e, q, n),
         NEW i \in Nat, PageOf(i) < n
  PROVE  PageItem(e, q, i) = PageItem(d, r, i)
<1>1. PageOf(i) \in 0 .. n - 1 /\ ItemWord(i) \in Slot
  BY ItemPlace
<1>2. /\ PageAt(e, q, PageOf(i)) = PageAt(d, r, PageOf(i))
      /\ e[PageAt(d, r, PageOf(i))][ItemWord(i)]
           = d[PageAt(d, r, PageOf(i))][ItemWord(i)]
  BY <1>1 DEF SamePages
<1> QED BY <1>2 DEF PageItem

\* Arrays in the same words have the same items.
LEMMA SameItems ==
  ASSUME NEW d, NEW e, NEW r, NEW q, NEW l \in Nat,
         d[r][LengthWord] = l, e[q][LengthWord] = l,
         \A i \in 0 .. l - 1 : ItemIn(e, q, i) = ItemIn(d, r, i)
  PROVE  ItemsIn(e, q) = ItemsIn(d, r)
<1>1. \A i \in 1 .. l : i - 1 \in 0 .. l - 1
  OBVIOUS
<1> QED BY <1>1 DEF ItemsIn

\* An array whose blocks keep their words stays as it is.
LEMMA SoundStays ==
  ASSUME ArrayFits, NEW d \in [Block -> Value], NEW e \in [Block -> Value],
         NEW r, NEW B, B \subseteq Block, Sound(d, r, B),
         \A c \in B, t \in Slot : e[c][t] = d[c][t]
  PROVE  /\ Sound(e, r, B) /\ ItemsIn(e, r) = ItemsIn(d, r)
         /\ e[r][Header] = d[r][Header] /\ e[r][LengthWord] = d[r][LengthWord]
<1> SUFFICES ASSUME NEW n, n = d[r][Header], NEW l, l = d[r][LengthWord]
             PROVE  /\ Sound(e, r, B) /\ ItemsIn(e, r) = ItemsIn(d, r)
                    /\ e[r][Header] = n /\ e[r][LengthWord] = l
  OBVIOUS
<1>1. /\ r \in B /\ r \in Block /\ n \in Nat /\ l \in Nat
      /\ \A i \in 0 .. l - 1 :
           /\ i \in Nat /\ ItemWord(i) \in Slot
           /\ n # 0 => /\ PageOf(i) \in 0 .. n - 1
                       /\ PageAt(d, r, PageOf(i)) \in B \ {r}
  BY SoundFacts
<1>2. TableFits /\ LengthWord \in Slot /\ Header \in Slot
      /\ \A t \in Spare : t \in Slot
  BY ArrayWords DEF Spare
<1>3. e[r][Header] = n /\ e[r][LengthWord] = l
  BY <1>1, <1>2
<1>4. CASE n = 0
  <2>1. \A k \in Large : IndexAt(e, r, k) = IndexAt(d, r, k)
    BY <1>1, <1>2, Apart DEF IndexAt, SlotsApart
  <2>2. Sound(e, r, B)
    BY <1>3, <1>4, <2>1 DEF Sound, SmallTable
  <2>3. \A i \in 0 .. l - 1 : ItemIn(e, r, i) = ItemIn(d, r, i)
    BY <1>1, <1>3, <1>4 DEF ItemIn
  <2>4. ItemsIn(e, r) = ItemsIn(d, r)
    BY <1>1, <1>3, <2>3, SameItems
  <2> QED BY <1>3, <2>2, <2>4
<1>5. CASE n # 0
  <2>1. Whole(d, r, n, n, B)
    BY <1>5 DEF Sound
  <2>2. Whole(e, r, n, n, B) /\ SamePlaces(d, e, r, n)
    <3>1. \A c \in B, t \in Slot :
            \/ c = r /\ t = Header
            \/ \E i \in 0 .. n - 1 : c = PageAt(d, r, i)
            \/ e[c][t] = d[c][t]
      OBVIOUS
    <3> QED BY ONLY <1>2, <2>1, <3>1, SameTable
  <2>3. Sound(e, r, B)
    BY <1>3, <1>5, <2>2 DEF Sound
  <2>4. SamePages(d, r, e, r, n)
    <3>1. \A i \in 0 .. n - 1 : PageAt(d, r, i) \in B
      BY <2>1 DEF Whole
    <3> QED BY <1>1, <1>2, <2>2, <3>1 DEF SamePages, SamePlaces
  <2>5. \A i \in 0 .. l - 1 : ItemIn(e, r, i) = ItemIn(d, r, i)
    <3>1. \A i \in 0 .. l - 1 : i \in Nat /\ PageOf(i) < n
      BY <1>1, <1>5
    <3> QED BY <1>1, <1>3, <1>5, <2>4, <3>1, ItemKept DEF ItemIn
  <2>6. ItemsIn(e, r) = ItemsIn(d, r)
    BY <1>1, <1>3, <2>5, SameItems
  <2> QED BY <1>3, <2>3, <2>6
<1> QED BY <1>4, <1>5

\* A root that has just been cleared is an empty small array.
LEMMA NewArray ==
  ASSUME ArrayFits, NEW e, NEW x, \A t \in Slot : e[x][t] = 0
  PROVE  Sound(e, x, {x}) /\ ItemsIn(e, x) = <<>>
<1>1. /\ LengthWord \in Slot /\ Header \in Slot /\ MaxItems \in Nat /\ MaxPages \in Nat
      /\ TableFits
  BY ArrayWords, TableSizes DEF ArrayFits
<1>2. e[x][LengthWord] = 0 /\ e[x][Header] = 0
  BY <1>1
<1>3. \A k \in Large : IndexAt(e, x, k) = 0
  BY <1>1, Apart DEF IndexAt, SlotsApart
<1>4. 0 <= Room(0)
  BY ItemSizes DEF Room
<1>5. ItemsIn(e, x) = <<>>
  BY <1>2 DEF ItemsIn
<1> QED BY <1>1, <1>2, <1>3, <1>4, <1>5 DEF Sound, SmallTable

\* A copy of the root takes its place.
LEMMA MoveArray ==
  ASSUME ArrayFits, NEW d \in [Block -> Value], NEW e \in [Block -> Value],
         NEW r, NEW B, B \subseteq Block, Sound(d, r, B), NEW x \in Block \ B,
         Copies(d, e, r, x)
  PROVE  Sound(e, x, (B \ {r}) \cup {x}) /\ ItemsIn(e, x) = ItemsIn(d, r)
<1> SUFFICES ASSUME NEW n, n = d[r][Header], NEW l, l = d[r][LengthWord]
             PROVE  /\ Sound(e, x, (B \ {r}) \cup {x})
                    /\ ItemsIn(e, x) = ItemsIn(d, r)
  OBVIOUS
<1>1. /\ r \in B /\ r \in Block /\ n \in Nat /\ l \in Nat
      /\ \A i \in 0 .. l - 1 :
           /\ i \in Nat /\ ItemWord(i) \in Slot
           /\ n # 0 => PageOf(i) \in 0 .. n - 1
  BY SoundFacts
<1>2. TableFits /\ LengthWord \in Slot /\ Header \in Slot
  BY ArrayWords
<1>3. \A t \in Slot : e[x][t] = d[r][t]
  BY DEF Copies
<1>4. e[x][Header] = n /\ e[x][LengthWord] = l
  BY <1>2, <1>3
<1>5. CASE n = 0
  <2>1. \A k \in Large : IndexAt(e, x, k) = IndexAt(d, r, k)
    BY <1>2, <1>3, Apart DEF IndexAt, SlotsApart
  <2>2. (B \ {r}) \cup {x} = {x}
    BY <1>5 DEF Sound, SmallTable
  <2>3. Sound(e, x, (B \ {r}) \cup {x})
    BY <1>4, <1>5, <2>1, <2>2 DEF Sound, SmallTable
  <2>4. \A i \in 0 .. l - 1 : ItemIn(e, x, i) = ItemIn(d, r, i)
    BY <1>1, <1>3, <1>4, <1>5 DEF ItemIn
  <2> QED BY <1>1, <1>4, <2>3, <2>4, SameItems
<1>6. CASE n # 0
  <2>1. Whole(d, r, n, n, B)
    BY <1>6 DEF Sound
  <2>2. /\ Whole(e, x, n, n, (B \ {r}) \cup {x})
        /\ SamePages(d, r, e, x, n)
    <3>1. B \subseteq Block /\ x \in Block \ B /\ Copies(d, e, r, x)
      OBVIOUS
    <3> QED BY ONLY <1>2, <2>1, <3>1, MoveRoot
  <2>3. Sound(e, x, (B \ {r}) \cup {x})
    BY <1>4, <1>6, <2>2 DEF Sound
  <2>4. \A i \in 0 .. l - 1 : ItemIn(e, x, i) = ItemIn(d, r, i)
    <3>1. \A i \in 0 .. l - 1 : i \in Nat /\ PageOf(i) < n
      BY <1>1, <1>6
    <3> QED BY <1>1, <1>4, <1>6, <2>2, <3>1, ItemKept DEF ItemIn
  <2> QED BY <1>1, <1>4, <2>3, <2>4, SameItems
<1> QED BY <1>5, <1>6

-----------------------------------------------------------------------------
(***************************************************************************)
(* How a list of items may change.                                         *)
(***************************************************************************)

ListChanges(s, t) ==
  \/ t = s
  \/ \E w \in Payload : t = Append(s, w)
  \/ \E k \in 0 .. Len(s) - 1 : t = SubSeq(s, 1, k)
  \/ \E i \in DOMAIN s, w \in Payload : t = [s EXCEPT ![i] = w]

\* An item more.
LEMMA ItemAppended ==
  ASSUME NEW s \in Seq(Words), NEW t \in Seq(Words), NEW w \in Payload,
         Len(t) = Len(s) + 1, \A i \in 1 .. Len(s) : t[i] = s[i],
         t[Len(s) + 1] = w
  PROVE  ListChanges(s, t)
<1> DEFINE a == Append(s, w)
<1>1. w \in Words
  BY DEF Words
<1>2. /\ a \in Seq(Words) /\ Len(a) = Len(s) + 1
      /\ \A i \in 1 .. Len(s) : a[i] = s[i]
      /\ a[Len(s) + 1] = w
  BY <1>1, AppendProperties
<1> HIDE DEF a
<1>3. \A i \in 1 .. Len(s) + 1 : i \in 1 .. Len(s) \/ i = Len(s) + 1
  OBVIOUS
<1>4. \A i \in 1 .. Len(t) : t[i] = a[i]
  BY <1>2, <1>3
<1>5. t = a
  BY <1>2, <1>4, SeqEqual
<1> QED BY <1>5 DEF a, ListChanges

\* Items less, or none.
LEMMA ItemsCut ==
  ASSUME NEW s \in Seq(Words), NEW t \in Seq(Words),
         Len(t) <= Len(s), \A i \in 1 .. Len(t) : t[i] = s[i]
  PROVE  ListChanges(s, t)
<1> DEFINE l == Len(t)
           u == SubSeq(s, 1, l)
<1>1. l \in Nat /\ l \in Int /\ 1 \in Int
  OBVIOUS
<1>2. CASE l = Len(s)
  <2>1. \A i \in 1 .. Len(s) : s[i] = t[i]
    BY <1>2
  <2>2. s = t
    BY <1>2, <2>1, SeqEqual
  <2> QED BY <2>2 DEF ListChanges
<1>3. CASE l # Len(s)
  <2>1. \A i \in 1 .. l : s[i] \in Words
    OBVIOUS
  <2>2. /\ u \in Seq(Words)
        /\ Len(u) = IF 1 <= l THEN l - 1 + 1 ELSE 0
        /\ \A i \in 1 .. l - 1 + 1 : u[i] = s[1 + i - 1]
    BY <1>1, <2>1, SubSeqProperties
  <2> HIDE DEF u
  <2>3. u \in Seq(Words) /\ Len(t) = Len(u)
    BY <1>1, <2>2
  <2>4. \A i \in 1 .. Len(t) : t[i] = u[i]
    BY <1>1, <2>2
  <2>5. t = u
    BY <2>3, <2>4, SeqEqual
  <2>6. l \in 0 .. Len(s) - 1
    BY <1>3
  <2> QED BY <2>5, <2>6 DEF u, ListChanges
<1> QED BY <1>2, <1>3

\* An item changed.
LEMMA ItemStored ==
  ASSUME NEW s \in Seq(Words), NEW t \in Seq(Words), NEW w \in Payload,
         NEW h \in 1 .. Len(s), Len(t) = Len(s),
         \A i \in 1 .. Len(s) : t[i] = IF i = h THEN w ELSE s[i]
  PROVE  ListChanges(s, t)
<1> DEFINE u == [s EXCEPT ![h] = w]
<1>1. w \in Words /\ DOMAIN s = 1 .. Len(s)
  BY DEF Words
<1>2. u \in Seq(Words) /\ Len(u) = Len(s)
      /\ \A i \in 1 .. Len(s) : u[i] = IF i = h THEN w ELSE s[i]
  BY <1>1
<1> HIDE DEF u
<1>3. \A i \in 1 .. Len(t) : t[i] = u[i]
  BY <1>2
<1>4. t = u
  BY <1>2, <1>3, SeqEqual
<1> QED BY <1>1, <1>4 DEF u, ListChanges

-----------------------------------------------------------------------------
(***************************************************************************)
(* The invariant.                                                          *)
(***************************************************************************)

\* What an abort gives back.
SavedArray ==
  IF savedRoot = 0 THEN Committed = {} ELSE Sound(data, savedRoot, Committed)

\* What a call is in the middle of, and what array_push has still to append.
CallOp == {"get", "set", "pop", "small", "pages", "large"}
PushSet == {<<>>} \cup {<<w>> : w \in Payload}

\* The locals of a call.
CallAt == {"lookup", "page", "resize", "slot", "cleared"}

InCall ==
  [at : CallAt, op : CallOp, page : Nat, item : Nat, v : Words,
   n : 0 .. MaxPages, push : PushSet, kept : Seq(Words), before : Seq(Words)]

\* Page i, and its index block, are of this transaction.
NewPage(i) ==
  New(HostBlock(root, i)) /\ (i >= LEVEL_ONE => New(IndexBlock(root, i)))

\* array_push makes room for its item, in a page of its own.
Pushes ==
  call.push # <<>> =>
    /\ N <= call.n /\ call.n = PageOf(Len(call.before)) + 1
    /\ Len(call.before) < MaxItems
    /\ N = call.n => NewPage(N - 1)

\* The items that are set aside are the array's first.
KeptItems ==
  /\ Len(call.kept) = small_capacity * ITEM
  /\ \A i \in 0 .. Len(call.before) - 1 :
       i < small_capacity => call.kept[ItemWord(i)] = call.before[i + 1]

\* The items are in the pages, of which k are left; nothing is stored in those
\* that are added.
PageItems(k) ==
  /\ call.kept = <<>>
  /\ k < call.n => \A i \in 0 .. Len(call.before) - 1 : PageOf(i) < k
  /\ \A i \in 0 .. Len(call.before) - 1 :
       PageOf(i) < k => PageItem(data, root, i) = call.before[i + 1]

\* array_resize is in page_resize.
Resizes(k) ==
  /\ call \in InCall
  /\ array_length(root) = Len(call.before) /\ Len(call.before) <= MaxItems
  /\ Pushes
  /\ \/ call.op = "pages" /\ call.n > 0 /\ PageItems(k)
     \/ /\ call.op = "large" /\ call.n > 0 /\ KeptItems
        /\ Len(call.before) <= small_capacity
     \/ call.op = "small" /\ call.n = 0 /\ call.push = <<>> /\ KeptItems

\* A page is looked up.
LooksUp ==
  /\ call \in InCall /\ call.at \in {"lookup", "page"}
  /\ root # 0 /\ Sound(data, root, live) /\ N # 0
  /\ call.op = "get" \/ New(root)
  /\ call.page \in 0 .. N - 1 /\ NewPage(call.page)

ArrayIdle ==
  /\ call = Idle
  /\ (root = 0 /\ live = {}) \/ (root # 0 /\ Sound(data, root, live))

ArrayResizing == call.at = "resize" /\ TableResize(call.n) /\ Resizes(N)
ArraySlot == call.at = "slot" /\ TableSlot(call.n) /\ Resizes(N)
ArrayCleared == call.at = "cleared" /\ TableCleared(call.n) /\ Resizes(N - 1)

ArrayFills ==
  /\ call.at = "page" /\ call.op = "large"
  /\ TableResize(call.n) /\ Resizes(N) /\ N = call.n

ArrayReads ==
  /\ LooksUp /\ call.op \in {"get", "pop"}
  /\ call.op = "pop" => array_length(root) > 0
  /\ ItemsIn(data, root) = call.before

ArrayStores ==
  /\ LooksUp /\ call.op = "set" /\ call.v \in Payload
  /\ call.item \in 0 .. array_length(root) - 1 /\ call.page = PageOf(call.item)
  /\ \/ array_length(root) = Len(call.before)
     \/ /\ array_length(root) = Len(call.before) + 1
        /\ call.item = Len(call.before)
  /\ \A i \in 0 .. array_length(root) - 1 :
       i # call.item => PageItem(data, root, i) = call.before[i + 1]

ArrayShrinks ==
  /\ LooksUp /\ call.op = "small" /\ call.page = 0 /\ call.n = 0
  /\ call.push = <<>> /\ NewFrom(0)
  /\ ItemsIn(data, root) = call.before

ArrayWork ==
  InTxn => \/ ArrayIdle \/ ArrayResizing \/ ArraySlot \/ ArrayCleared \/ ArrayFills
           \/ ArrayReads \/ ArrayStores \/ ArrayShrinks

ArrayInv == IInv /\ SavedArray /\ ArrayWork /\ Rest

SavedKept == (txn /\ pc = "ready" /\ pc' = "ready") => SavedItems' = SavedItems

ItemStep == [ItemList!Next]_(ItemList!vars)

\* What every step does.
ArrayStepOK == ArrayInv' /\ SavedKept /\ ItemStep

-----------------------------------------------------------------------------

\* Items, as functions of the disk's contents.
LEMMA ItemsAre ==
  /\ \A r : Items(r) = ItemsIn(data, r)
  /\ \A r : Items(r)' = ItemsIn(data', r)
<1>1. \A r, i : Item(r, i) = ItemIn(data, r, i)
  BY PagesAre DEF Item, ItemIn, PageItem, PageOf, Pages
<1>2. \A r, i : Item(r, i)' = ItemIn(data', r, i)
  BY PagesAreNext DEF Item, ItemIn, PageItem, PageOf, Pages
<1>3. \A r : Items(r) = ItemsIn(data, r)
  BY <1>1 DEF Items, ItemsIn, array_length
<1>4. \A r : Items(r)' = ItemsIn(data', r)
  BY <1>2 DEF Items, ItemsIn, array_length
<1> QED BY <1>3, <1>4

\* What an abort would bring back.
LEMMA SavedItemsAre ==
  /\ SavedItems = IF savedRoot = 0 THEN <<>> ELSE ItemsIn(data, savedRoot)
  /\ SavedItems' = IF savedRoot' = 0 THEN <<>> ELSE ItemsIn(data', savedRoot')
BY ItemsAre DEF SavedItems

\* What the caller sees of its array, as long as it is mapped.
LEMMA WorkingItemsAre ==
  ASSUME TablePhase # "failed"
  PROVE  WorkingItems = IF root = 0 THEN <<>>
           ELSE IF call = Idle THEN ItemsIn(data, root) ELSE call.before
BY ItemsAre DEF WorkingItems, Between

\* The same, of the next state.
LEMMA WorkingItemsAreNext ==
  ASSUME TablePhase' # "failed"
  PROVE  WorkingItems' = IF root' = 0 THEN <<>>
           ELSE IF call' = Idle THEN ItemsIn(data', root') ELSE call'.before
BY ItemsAre DEF WorkingItems, Between

\* What is left alone of the committed state is the saved array.
LEMMA SavedArrayStays ==
  ASSUME ArrayFits, SavedArray, Committed \subseteq Block,
         data \in [Block -> Value], data' \in [Block -> Value],
         Committed' = Committed, savedRoot' = savedRoot,
         \A b \in Committed, t \in Slot : data'[b][t] = data[b][t]
  PROVE  SavedArray' /\ SavedItems' = SavedItems
<1>1. CASE savedRoot = 0
  BY <1>1, SavedItemsAre DEF SavedArray
<1>2. CASE savedRoot # 0
  <2>1. Sound(data, savedRoot, Committed)
    BY <1>2 DEF SavedArray
  <2>2. /\ Sound(data', savedRoot, Committed)
        /\ ItemsIn(data', savedRoot) = ItemsIn(data, savedRoot)
    BY <2>1, SoundStays
  <2> QED BY <1>2, <2>2, SavedItemsAre DEF SavedArray
<1> QED BY <1>1, <1>2

\* Where a call is says what is going on.
LEMMA ArrayWorkAt ==
  ASSUME ArrayInv, InTxn
  PROVE  /\ Between => ArrayIdle
         /\ Resizing => ArrayResizing
         /\ call.at = "slot" => ArraySlot
         /\ call.at = "cleared" => ArrayCleared
         /\ call.at = "page" /\ call.op = "large" => ArrayFills
         /\ call.at = "page" /\ call.op \in {"get", "pop"} => ArrayReads
         /\ call.at = "page" /\ call.op = "set" => ArrayStores
         /\ call.at = "page" /\ call.op = "small" => ArrayShrinks
         /\ call.at = "lookup" => ArrayReads \/ ArrayStores \/ ArrayShrinks
         /\ call # Dead
<1>1. \/ ArrayIdle \/ ArrayResizing \/ ArraySlot \/ ArrayCleared \/ ArrayFills
      \/ ArrayReads \/ ArrayStores \/ ArrayShrinks
  BY DEF ArrayInv, ArrayWork
<1>2. ArrayIdle => call.at = "idle"
  BY DEF ArrayIdle, Idle
<1>3. ArrayReads => call.at \in {"lookup", "page"} /\ call.op \in {"get", "pop"}
  BY DEF ArrayReads, LooksUp
<1>4. ArrayStores => call.at \in {"lookup", "page"} /\ call.op = "set"
  BY DEF ArrayStores, LooksUp
<1>5. ArrayShrinks => call.at \in {"lookup", "page"} /\ call.op = "small"
  BY DEF ArrayShrinks, LooksUp
<1>6. /\ ArrayResizing => call.at = "resize"
      /\ ArraySlot => call.at = "slot"
      /\ ArrayCleared => call.at = "cleared"
      /\ ArrayFills => call.at = "page" /\ call.op = "large"
  BY DEF ArrayResizing, ArraySlot, ArrayCleared, ArrayFills
<1>7. (Between => call.at = "idle") /\ (call = Dead => call.at = "dead")
  BY DEF Between, Idle, Dead
<1> QED BY <1>1, <1>2, <1>3, <1>4, <1>5, <1>6, <1>7 DEF Resizing

\* A transaction that is still open: the phase stays.
LEMMA ArrayOpen ==
  ASSUME IInv, StaysOpen
  PROVE  /\ TablePhase = "open" /\ TablePhase' = "open"
         /\ InTxn /\ InTxn' /\ ~Aborting' /\ Mapped'
         /\ txn = TRUE /\ pc = "ready" /\ txn' = txn /\ pc' = pc
         /\ objlist' = objlist
         /\ Committed \subseteq Block /\ live \subseteq Block
         /\ data \in [Block -> Value] /\ data' \in [Block -> Value]
<1>1. /\ InTxn /\ InTxn' /\ IInv' /\ freelist = 2 /\ freelist' = freelist
      /\ txn = TRUE /\ txn' = txn /\ pc' = pc /\ objlist' = objlist /\ pc = "ready"
  BY LiveFacts DEF StaysOpen
<1>2. ~Aborting' /\ Mapped'
  BY <1>1, Numbers DEF InTxn, Ready, Aborting
<1>3. TablePhase = "open" /\ TablePhase' = "open"
  BY <1>1, <1>2, Numbers DEF TablePhase, InTxn, Ready, Aborting
<1>4. data' \in [Block -> Value]
  BY <1>1 DEF IInv, TypeOK
<1> QED BY <1>1, <1>2, <1>3, <1>4, LiveFacts

\* A step inside a transaction ends well when it leaves the array in order and
\* changes the items as those of a list may change.
LEMMA ArrayStepDone ==
  ASSUME ArrayFits, ArrayInv, StaysOpen, savedRoot' = savedRoot,
         \A b \in Committed, t \in Slot : data'[b][t] = data[b][t],
         ArrayWork', ListChanges(WorkingItems, WorkingItems')
  PROVE  ArrayStepOK
<1>1. IInv /\ IInv' /\ Committed' = Committed
  BY DEF ArrayInv, StaysOpen
<1>2. /\ TablePhase = "open" /\ TablePhase' = "open"
      /\ ~Aborting' /\ Mapped'
      /\ txn = TRUE /\ pc = "ready" /\ txn' = txn /\ pc' = pc
      /\ objlist' = objlist /\ Committed \subseteq Block /\ InTxn'
      /\ data \in [Block -> Value] /\ data' \in [Block -> Value]
  BY <1>1, ArrayOpen
<1>3. SavedArray' /\ SavedItems' = SavedItems
  BY <1>1, <1>2, SavedArrayStays DEF ArrayInv
<1>4. Rest'
  BY <1>2 DEF ArrayInv, Rest
<1>5. ItemList!Changes
  BY <1>2, <1>3 DEF ItemList!Changes
<1>6. ItemStep
  <2>1. CASE WorkingItems' = WorkingItems
    BY <1>2, <1>3, <2>1 DEF ItemStep, ItemList!vars
  <2>2. CASE \E w \in Payload : WorkingItems' = Append(WorkingItems, w)
    BY <1>5, <2>2 DEF ItemStep, ItemList!Next, ItemList!Grow
  <2>3. CASE \E k \in 0 .. Len(WorkingItems) - 1 :
               WorkingItems' = SubSeq(WorkingItems, 1, k)
    BY <1>5, <2>3 DEF ItemStep, ItemList!Next, ItemList!Shrink
  <2>4. CASE \E i \in DOMAIN WorkingItems, w \in Payload :
               WorkingItems' = [WorkingItems EXCEPT ![i] = w]
    BY <1>5, <2>4 DEF ItemStep, ItemList!Next, ItemList!Store
  <2> QED BY <2>1, <2>2, <2>3, <2>4 DEF ListChanges
<1> QED BY <1>1, <1>3, <1>4, <1>6 DEF ArrayStepOK, ArrayInv, SavedKept

-----------------------------------------------------------------------------
(***************************************************************************)
(* The caller's transactions, and the root.                                *)
(***************************************************************************)

\* A step that stores nothing.
LEMMA ArrayNotStored ==
  ASSUME ArrayInv, data' = data, Committed' = Committed, savedRoot' = savedRoot
  PROVE  SavedArray' /\ SavedItems' = SavedItems
BY SavedItemsAre DEF ArrayInv, SavedArray

\* What is seen of the array when no transaction is open is the saved one.
LEMMA ClosedItems ==
  ASSUME root = savedRoot, call = Idle
  PROVE  WorkingItems = SavedItems
BY SavedItemsAre, WorkingItemsAre DEF WorkingItems

\* The same, of the next state.
LEMMA ClosedItemsNext ==
  ASSUME root' = savedRoot', call' = Idle
  PROVE  WorkingItems' = SavedItems'
<1>1. CASE TablePhase' = "failed"
  BY <1>1 DEF WorkingItems
<1>2. CASE TablePhase' # "failed"
  BY <1>2, SavedItemsAre, WorkingItemsAreNext
<1> QED BY <1>1, <1>2

\* io_resize fails, and nothing is mapped any more.
LEMMA ArrayFailStep ==
  ASSUME ArrayFits, ArrayInv, InTxn, ResizeFails, call' = Idle,
         root' = root, savedRoot' = savedRoot
  PROVE  ArrayStepOK
<1>1. /\ nblocks' = 0 /\ data' = data /\ freelist' = freelist
      /\ objlist' = objlist /\ txn' = txn /\ pc' = pc /\ live' = live
  BY DEF ResizeFails, disk, state, loop
<1>2. IInv' /\ Committed' = Committed
  BY ResizeFailsStep DEF ArrayInv
<1>3. txn = TRUE /\ pc = "ready" /\ freelist = 2 /\ Mapped /\ ~Aborting
  BY LiveFacts DEF ArrayInv
<1>4. ~InTxn' /\ ~Aborting' /\ ~Mapped'
  BY <1>1, <1>3, Numbers DEF InTxn, Ready, Mapped, Aborting
<1>5. SavedArray' /\ SavedItems' = SavedItems
  BY <1>1, <1>2, ArrayNotStored
<1>6. ArrayWork' /\ Rest'
  BY <1>1, <1>3, <1>4 DEF ArrayInv, ArrayWork, Rest
<1>7. TablePhase = "open" /\ TablePhase' = "failed"
  BY <1>1, <1>3, <1>4 DEF TablePhase
<1>8. WorkingItems' = SavedItems
  BY <1>5, <1>7 DEF WorkingItems
<1>9. ItemStep
  BY <1>5, <1>7, <1>8 DEF ItemStep, ItemList!Next, ItemList!Fail
<1> QED BY <1>2, <1>5, <1>6, <1>9 DEF ArrayStepOK, ArrayInv, SavedKept

\* A call of the block API that has to allocate fails.
LEMMA ArrayFails ==
  ASSUME ArrayFits, ArrayInv, Fails
  PROVE  ArrayStepOK
BY ArrayFailStep DEF Fails

\* A lookup of a careful caller's copies nothing, so that it cannot fail.
LEMMA LookupFailsStep ==
  ASSUME ArrayFits, ArrayInv, LookupFails
  PROVE  ArrayStepOK
<1>1. /\ ResizeFails /\ root' = root /\ savedRoot' = savedRoot
      /\ call.at \in {"lookup", "page"}
      /\ call' = IF call.op \in {"get", "set", "pop"} THEN Dead ELSE Idle
  BY DEF LookupFails
<1>2. InTxn
  BY <1>1 DEF ArrayInv, Rest, Idle
<1>3. CASE call.op \in {"get", "set", "pop"}
  <2>1. ArrayReads \/ ArrayStores \/ ArrayShrinks
    BY <1>1, <1>2, <1>3, ArrayWorkAt
  <2>2. NewPage(call.page)
    BY <2>1 DEF ArrayReads, ArrayStores, ArrayShrinks, LooksUp
  <2>3. /\ ~Old(HostBlock(root, call.page))
        /\ call.page >= LEVEL_ONE => ~Old(IndexBlock(root, call.page))
    BY <2>2 DEF NewPage, New, Old
  <2> QED BY <2>3 DEF LookupFails
<1>4. CASE call.op \notin {"get", "set", "pop"}
  BY <1>1, <1>2, <1>4, ArrayFailStep
<1> QED BY <1>3, <1>4

\* Without a transaction nothing changes.
LEMMA ArrayRefused ==
  ASSUME ArrayFits, ArrayInv, Refused
  PROVE  ArrayStepOK
<1>1. /\ ~txn /\ UNCHANGED <<io, disk, freelist, objlist, state, loop, live>>
      /\ rc' = EDB_ERR_TXN_NO_TRANSACTION
      /\ root' = root /\ savedRoot' = savedRoot /\ call' = call
  BY DEF Refused, NoTransaction, table
<1>2. data' = data /\ txn' = txn /\ pc' = pc /\ freelist' = freelist
      /\ objlist' = objlist /\ nblocks' = nblocks
  BY <1>1 DEF disk, state, loop, io
<1>3. IInv' /\ Committed' = Committed
  <2>1. TypeOK'
    BY <1>1 DEF ArrayInv, IInv, TypeOK, io, disk, state, loop
  <2>2. UNCHANGED <<io, flist, freelist, objlist, state, loop, live>>
    BY <1>1 DEF disk
  <2> QED BY <2>1, <2>2, QuietStep DEF ArrayInv
<1>4. SavedArray' /\ SavedItems' = SavedItems
  BY <1>1, <1>2, <1>3, ArrayNotStored
<1>5. ArrayWork' /\ Rest'
  BY <1>1, <1>2 DEF ArrayInv, ArrayWork, Rest, InTxn, Ready, Mapped, Aborting
<1>6. TablePhase = "closed" /\ TablePhase' = "closed"
  BY <1>1, <1>2 DEF TablePhase
<1>7. WorkingItems' = WorkingItems
  BY <1>1, <1>2, <1>6, WorkingItemsAre, WorkingItemsAreNext
<1>8. ItemStep
  BY <1>4, <1>6, <1>7 DEF ItemStep, ItemList!vars
<1> QED BY <1>3, <1>4, <1>5, <1>8 DEF ArrayStepOK, ArrayInv, SavedKept

\* A transaction begins with the array of the last one.
LEMMA ArrayOpening ==
  ASSUME ArrayFits, ArrayInv, Begin
  PROVE  ArrayStepOK
<1>1. /\ txn_begin /\ call = Idle
      /\ root' = root /\ savedRoot' = savedRoot /\ call' = call
  BY DEF Begin, Between, table
<1>2. /\ ~txn /\ txn' = TRUE /\ pc = "ready" /\ pc' = pc
      /\ freelist' = EDB_FREELIST_SECONDARY /\ objlist' = objlist
      /\ data' = data /\ live' = live /\ nblocks' = nblocks
  BY <1>1 DEF txn_begin, Ready, io, loop
<1>3. IInv' /\ Committed' = live
  BY <1>1, BeginStep DEF ArrayInv
<1>4. Committed = live
  BY <1>2 DEF Committed
<1>5. SavedArray' /\ SavedItems' = SavedItems
  BY <1>1, <1>2, <1>3, <1>4, ArrayNotStored
<1>6. root = savedRoot /\ Mapped /\ ~Aborting'
  BY <1>2, Numbers DEF ArrayInv, Rest, IInv, Closed, Aborting
<1>7. InTxn' /\ Rest'
  BY <1>1, <1>2, <1>6 DEF ArrayInv, Rest, InTxn, Ready, Mapped
<1>8. ArrayIdle'
  BY <1>1, <1>2, <1>4, <1>6 DEF ArrayInv, SavedArray, ArrayIdle
<1>9. TablePhase = "closed" /\ TablePhase' = "open"
  BY <1>2, <1>6 DEF TablePhase, Mapped
<1>10. WorkingItems' = WorkingItems
  BY <1>1, <1>2, <1>9, WorkingItemsAre, WorkingItemsAreNext
<1>11. ItemStep
  BY <1>5, <1>9, <1>10 DEF ItemStep, ItemList!Next, ItemList!Begin
<1> QED BY <1>3, <1>5, <1>7, <1>8, <1>11 DEF ArrayStepOK, ArrayInv, ArrayWork, SavedKept

\* txn_commit starts: the array becomes the committed one.
LEMMA CommitStartArray ==
  ASSUME ArrayFits, ArrayInv, Between, CommitStart, savedRoot' = root,
         root' = root, call' = call
  PROVE  ArrayStepOK
<1>1. /\ InTxn /\ pc' = "commit" /\ call = Idle
      /\ data' = data /\ live' = live /\ freelist' = freelist
      /\ objlist' = objlist /\ txn' = txn /\ nblocks' = nblocks
  BY DEF CommitStart, Between, disk, state, io
<1>2. IInv'
  BY CommitStartStep DEF ArrayInv
<1>3. txn = TRUE /\ pc = "ready" /\ freelist = 2 /\ Mapped /\ ~Aborting
  BY <1>1, LiveFacts DEF ArrayInv
<1>4. Committed' = live
  BY <1>1 DEF Committed
<1>5. (root = 0 /\ live = {}) \/ (root # 0 /\ Sound(data, root, live))
  BY <1>1, ArrayWorkAt DEF ArrayIdle, Between
<1>6. SavedArray'
  BY <1>1, <1>4, <1>5 DEF SavedArray
<1>7. ~InTxn' /\ ArrayWork' /\ Rest'
  BY <1>1 DEF ArrayInv, ArrayWork, Rest, InTxn, Ready
<1>8. TablePhase = "open" /\ TablePhase' = "committed"
  BY <1>1, <1>3, Numbers DEF TablePhase, Aborting
<1>9. WorkingItems' = WorkingItems
  BY <1>1, <1>8, WorkingItemsAre, WorkingItemsAreNext
<1>10. SavedItems' = WorkingItems
  BY <1>1, <1>9, ClosedItemsNext
<1>11. ItemStep
  BY <1>8, <1>9, <1>10 DEF ItemStep, ItemList!Next, ItemList!Commit
<1> QED BY <1>1, <1>2, <1>6, <1>7, <1>11 DEF ArrayStepOK, ArrayInv, SavedKept

\* The loop of txn_commit_master, and its end.
LEMMA CommitLoopArray ==
  ASSUME ArrayFits, ArrayInv, Between,
         CommitEnd \/ \E k \in todo : CommitEntry(k),
         savedRoot' = savedRoot, root' = root, call' = call
  PROVE  ArrayStepOK
<1>1. /\ pc = "commit" /\ call = Idle /\ data' = data /\ live' = live
      /\ objlist' = objlist
      /\ \/ pc' = "commit" /\ txn' = txn /\ freelist' = freelist
         \/ txn' = FALSE
  BY DEF CommitEnd, CommitEntry, Committing, Between, state
<1>2. IInv'
  BY CommitEndStep, CommitEntryStep DEF ArrayInv
<1>3. txn = TRUE /\ freelist = 2
  BY <1>1, InCommitFacts DEF ArrayInv, CommitFacts
<1>4. Committed' = Committed
  BY <1>1 DEF Committed
<1>5. SavedArray' /\ SavedItems' = SavedItems
  BY <1>1, <1>4, ArrayNotStored
<1>6. root = savedRoot
  BY <1>1 DEF ArrayInv, Rest
<1>7. ~InTxn' /\ ArrayWork' /\ Rest'
  BY <1>1, <1>6 DEF ArrayInv, ArrayWork, Rest, InTxn, Ready
<1>8. TablePhase = "committed" /\ TablePhase' \in {"committed", "closed"}
  <2>1. TablePhase = "committed"
    BY <1>1, <1>3, Numbers DEF TablePhase, Aborting
  <2>2. CASE txn' = FALSE
    BY <2>1, <2>2 DEF TablePhase
  <2>3. CASE pc' = "commit" /\ txn' = txn /\ freelist' = freelist
    BY <1>3, <2>1, <2>3, Numbers DEF TablePhase, Aborting
  <2> QED BY <1>1, <2>2, <2>3
<1>9. WorkingItems' = WorkingItems
  BY <1>1, <1>5, <1>6, ClosedItems, ClosedItemsNext
<1>10. ItemStep
  BY <1>5, <1>8, <1>9 DEF ItemStep, ItemList!Next, ItemList!End, ItemList!vars
<1> QED BY <1>1, <1>2, <1>5, <1>7, <1>10 DEF ArrayStepOK, ArrayInv, SavedKept

\* The old array is back, whether io_resize fails or not.
LEMMA AbortArray ==
  ASSUME ArrayFits, ArrayInv, Abort
  PROVE  ArrayStepOK
<1>1. /\ call = Idle /\ call' = call /\ AbortRoots /\ root' = savedRoot
      /\ savedRoot' = savedRoot
  BY DEF Abort, Between, txn_abort, AbortFails
<1>2. /\ txn = TRUE /\ pc = "ready"
      /\ freelist' = 1 /\ objlist' = 3 /\ live' = Committed /\ pc' = pc
      /\ ts_nblocks \in 4 .. fsize /\ fsize \in Nat
      /\ ResizedFile(ts_nblocks) \in ts_nblocks .. MaxBlocks
      /\ Committed \subseteq UserBlock
      /\ Committed \subseteq 4 .. ts_nblocks - 1
  BY <1>1, AbortFacts DEF ArrayInv
<1>3. IInv' /\ Committed' = Committed /\ (txn' = FALSE \/ nblocks' = 0)
  <2>1. CASE txn_abort
    <3>1. IInv' /\ txn' = FALSE
      BY <2>1, AbortStep DEF ArrayInv, txn_abort
    <3> QED BY <1>2, <3>1 DEF Committed
  <2>2. CASE AbortFails
    BY <2>2, AbortFailsStep DEF ArrayInv, AbortFails
  <2> QED BY <2>1, <2>2 DEF Abort
<1>4. /\ data' = Truncated(data, fsize') /\ fsize' \in {fsize, ResizedFile(ts_nblocks)}
  BY DEF Abort, txn_abort, AbortFails
<1>5. Committed \subseteq Block /\ data \in [Block -> Value] /\ data' \in [Block -> Value]
  BY <1>2, <1>3, Numbers DEF ArrayInv, IInv, TypeOK
<1>6. ASSUME NEW b \in Committed
      PROVE  data'[b] = data[b]
  <2>1. b \in 4 .. ts_nblocks - 1 /\ b \in Block
    BY <1>2, <1>5
  <2>2. b < fsize'
    BY <1>2, <1>4, <2>1, Numbers
  <2> QED BY <1>4, <2>1, <2>2 DEF Truncated
<1>7. SavedArray' /\ SavedItems' = SavedItems
  <2>1. \A b \in Committed, t \in Slot : data'[b][t] = data[b][t]
    BY <1>6
  <2> QED BY <1>1, <1>3, <1>5, <2>1, SavedArrayStays DEF ArrayInv
<1>8. ~InTxn' /\ ArrayWork' /\ Rest'
  BY <1>1, <1>2, <1>3, Numbers DEF ArrayWork, Rest, InTxn, Mapped
<1>9. TablePhase' = "closed"
  BY <1>2, Numbers DEF TablePhase, Aborting
<1>10. WorkingItems' = SavedItems
  BY <1>1, <1>7, ClosedItemsNext
<1>11. ItemStep
  <2>1. CASE TablePhase = "closed"
    <3>1. Aborting
      BY <1>2, <2>1 DEF TablePhase
    <3>2. root = savedRoot
      BY <3>1 DEF ArrayInv, Rest
    <3>3. WorkingItems' = WorkingItems
      BY <1>1, <1>10, <3>2, ClosedItems
    <3> QED BY <1>7, <1>9, <2>1, <3>3 DEF ItemStep, ItemList!vars
  <2>2. CASE TablePhase # "closed"
    <3>1. TablePhase \in {"open", "failed"}
      BY <1>2, <2>2 DEF TablePhase
    <3> QED BY <1>7, <1>9, <1>10, <3>1 DEF ItemStep, ItemList!Next, ItemList!Abort
  <2> QED BY <2>1, <2>2
<1> QED BY <1>3, <1>7, <1>8, <1>11 DEF ArrayStepOK, ArrayInv, SavedKept

\* A new root, cleared: an empty array.
LEMMA CreateArray ==
  ASSUME ArrayFits, ArrayInv, Create
  PROVE  ArrayStepOK
<1> SUFFICES ASSUME NEW x,
                    x = FreelistAllocate(flist[freelist], nblocks).block
             PROVE  ArrayStepOK
  OBVIOUS
<1>1. /\ call = Idle /\ root = 0 /\ InTxn
      /\ Take(FreelistAllocate(flist[freelist], nblocks), ALLOCATED)
      /\ live' = live \cup {x}
      /\ UNCHANGED <<freelist, objlist, txn, ts_nblocks, loop>>
      /\ data' = [data EXCEPT ![x] = Zero]
      /\ root' = x /\ savedRoot' = savedRoot /\ call' = call
  BY DEF Create, Allocate, Between
<1>2. IInv /\ live = {}
  BY <1>1, ArrayWorkAt DEF ArrayInv, ArrayIdle, Between
<1>3. data \in [Block -> Value] /\ x \in Block /\ Committed \subseteq Block
  BY <1>1, <1>2, LiveFacts, TakeEffect, Numbers
<1>4. /\ data' \in [Block -> Value]
      /\ \A t \in Slot : data'[x][t] = 0
      /\ \A b \in Block \ {x} : data'[b] = data[b]
  BY <1>1, <1>3, ValueIsWords, ValueAssumption
<1>5. Allocated
  BY <1>1, <1>4 DEF Allocated
<1>6. StaysOpen /\ x # 0 /\ x \notin Committed
  BY <1>2, <1>5, AllocatedFacts
<1>7. Sound(data', x, {x}) /\ ItemsIn(data', x) = <<>>
  BY <1>4, NewArray
<1>8. ArrayIdle'
  BY <1>1, <1>2, <1>6, <1>7 DEF ArrayIdle
<1>9. \A b \in Committed, t \in Slot : data'[b][t] = data[b][t]
  BY <1>3, <1>4, <1>6
<1>10. ListChanges(WorkingItems, WorkingItems')
  <2>1. TablePhase = "open" /\ TablePhase' = "open"
    BY <1>2, <1>6, ArrayOpen
  <2>2. WorkingItems' = WorkingItems
    BY <1>1, <1>7, <2>1, WorkingItemsAre, WorkingItemsAreNext
  <2> QED BY <2>2 DEF ListChanges
<1> QED BY <1>1, <1>6, <1>8, <1>9, <1>10, ArrayStepDone DEF ArrayWork

\* A root of an earlier transaction is copied, and the caller takes the copy.
LEMMA ArrayMadeWritable ==
  ASSUME ArrayFits, ArrayInv, MakeWritable
  PROVE  ArrayStepOK
<1> SUFFICES ASSUME NEW x,
                    x = FreelistAllocate(flist[freelist], nblocks).block
             PROVE  ArrayStepOK
  OBVIOUS
<1>1. /\ call = Idle /\ root # 0 /\ InTxn /\ blocks[root] = 0
      /\ UNCHANGED <<freelist, objlist, txn, ts_nblocks, loop>>
      /\ Take(FreelistAllocate(flist[freelist], nblocks), root)
      /\ live' = (live \ {root}) \cup {x}
      /\ MakesCopy(data, data', root, x)
      /\ root' = x /\ savedRoot' = savedRoot /\ call' = call
  BY DEF MakeWritable, Modify, Between, Same, MakesCopy
<1>2. IInv /\ Sound(data, root, live)
  BY <1>1, ArrayWorkAt DEF ArrayInv, ArrayIdle, Between
<1>3. /\ data \in [Block -> Value] /\ x \in Block /\ Committed \subseteq Block
      /\ live \subseteq Block
  BY <1>1, <1>2, LiveFacts, TakeEffect, Numbers
<1>4. root \in live /\ root \in Block
  BY <1>2, <1>3, SoundFacts
<1>5. /\ data' \in [Block -> Value]
      /\ Copies(data, data', root, x)
      /\ SameOutside(data, data', {x})
  BY <1>1, <1>3, <1>4, CopyMade
<1>6. CopiedTo(root, x) /\ objlist' = objlist
  BY <1>1, <1>5 DEF CopiedTo
<1>7. StaysOpen /\ x \in Block \ live /\ x # 0 /\ x \notin Committed
  BY <1>1, <1>2, <1>4, <1>6, CopiedFacts
<1>8. Sound(data', x, live') /\ ItemsIn(data', x) = ItemsIn(data, root)
  <2>1. /\ Sound(data', x, (live \ {root}) \cup {x})
        /\ ItemsIn(data', x) = ItemsIn(data, root)
    BY <1>2, <1>3, <1>5, <1>7, MoveArray
  <2> QED BY <1>1, <2>1
<1>9. ArrayIdle'
  BY <1>1, <1>7, <1>8 DEF ArrayIdle
<1>10. \A b \in Committed, t \in Slot : data'[b][t] = data[b][t]
  BY <1>3, <1>5, <1>7, Elsewhere
<1>11. ListChanges(WorkingItems, WorkingItems')
  <2>1. TablePhase = "open" /\ TablePhase' = "open"
    BY <1>2, <1>7, ArrayOpen
  <2>2. WorkingItems' = WorkingItems
    BY <1>1, <1>7, <1>8, <2>1, WorkingItemsAre, WorkingItemsAreNext
  <2> QED BY <2>2 DEF ListChanges
<1> QED BY <1>1, <1>7, <1>9, <1>10, <1>11, ArrayStepDone DEF ArrayWork

-----------------------------------------------------------------------------
(***************************************************************************)
(* page_resize, in an array_resize: the items are where they were.         *)
(***************************************************************************)

\* A call goes on at q with the locals it has.
MovesOn(q) ==
  /\ call' \in InCall /\ call'.at = q /\ call'.op = call.op
  /\ call'.page = call.page /\ call'.item = call.item /\ call'.v = call.v
  /\ call'.n = call.n /\ call'.push = call.push
  /\ call'.kept = call.kept /\ call'.before = call.before

\* Goes says no more than that.
LEMMA GoesOn ==
  ASSUME call \in InCall, NEW q \in CallAt, Goes(q)
  PROVE  MovesOn(q)
BY DEF InCall, Goes, MovesOn

\* Nor does a step that leaves the call alone.
LEMMA CallStays ==
  ASSUME call \in InCall, call' = call
  PROVE  MovesOn(call.at)
BY DEF MovesOn

\* A call in progress is not an idle one.
LEMMA CallIsNotIdle ==
  ASSUME call \in InCall
  PROVE  call # Idle /\ call.at \in CallAt
<1>1. call.at \in CallAt
  BY DEF InCall
<1>2. Idle.at = "idle"
  BY DEF Idle
<1> QED BY <1>1, <1>2 DEF CallAt

\* The same, of the next state.
LEMMA CallIsNotIdleNext ==
  ASSUME NEW q, MovesOn(q)
  PROVE  call' # Idle
<1>1. call'.at \in CallAt
  BY DEF MovesOn, InCall
<1>2. Idle.at = "idle"
  BY DEF Idle
<1> QED BY <1>1, <1>2 DEF CallAt

\* Until the call returns the caller sees the array as it was.
LEMMA ArrayGoesOn ==
  ASSUME ArrayFits, ArrayInv, NEW k, KeptPages(k), root # 0, call \in InCall,
         NEW q, MovesOn(q), ArrayWork'
  PROVE  ArrayStepOK
<1>1. /\ StaysOpen /\ root' = root /\ savedRoot' = savedRoot /\ IInv
      /\ \A b \in Committed, t \in Slot : data'[b][t] = data[b][t]
  BY DEF KeptPages, ArrayInv
<1>2. TablePhase = "open" /\ TablePhase' = "open"
  BY <1>1, ArrayOpen
<1>3. call # Idle /\ call' # Idle /\ call'.before = call.before
  BY CallIsNotIdle, CallIsNotIdleNext DEF MovesOn
<1>4. WorkingItems' = WorkingItems
  BY <1>1, <1>2, <1>3, WorkingItemsAre, WorkingItemsAreNext
<1> QED BY <1>1, <1>4, ArrayStepDone DEF ListChanges

\* With k pages left, the items are where the call knows them to be when the
\* next step leaves those that stay alone.
LEMMA ResizesOn ==
  ASSUME ArrayFits, NEW k \in Nat, Resizes(k), NEW q, MovesOn(q),
         NEW m \in Nat, NEW j \in Nat,
         SamePages(data, root, data', root, m), root' = root, Pushes',
         \/ j = k /\ m = k
         \/ j = k + 1 /\ m = k /\ k < call.n
         \/ j + 1 = k /\ m = j /\ call.n <= j
  PROVE  /\ call' \in InCall
         /\ array_length(root)' = Len(call'.before) /\ Len(call'.before) <= MaxItems
         /\ Pushes'
         /\ \/ call'.op = "pages" /\ call'.n > 0 /\ PageItems(j)'
            \/ /\ call'.op = "large" /\ call'.n > 0 /\ KeptItems'
               /\ Len(call'.before) <= small_capacity
            \/ call'.op = "small" /\ call'.n = 0 /\ call'.push = <<>> /\ KeptItems'
<1> SUFFICES ASSUME NEW l, l = Len(call.before), NEW n, n = call.n
             PROVE  /\ call' \in InCall
                    /\ array_length(root)' = l /\ l <= MaxItems
                    /\ \/ call'.op = "pages" /\ call'.n > 0 /\ PageItems(j)'
                       \/ /\ call'.op = "large" /\ call'.n > 0 /\ KeptItems'
                          /\ l <= small_capacity
                       \/ call'.op = "small" /\ call'.n = 0 /\ call'.push = <<>>
                          /\ KeptItems'
  BY DEF MovesOn
<1>1. /\ call \in InCall /\ array_length(root) = l /\ l <= MaxItems
      /\ l \in Nat /\ n \in Nat
  BY TableSizes DEF Resizes, InCall
<1>2. /\ call' \in InCall /\ call'.op = call.op /\ call'.n = n
      /\ call'.push = call.push /\ call'.kept = call.kept
      /\ call'.before = call.before
  BY DEF MovesOn
<1>3. array_length(root)' = l
  <2>1. LengthWord \in Spare
    BY ArrayWords
  <2> QED BY <1>1, <2>1 DEF SamePages, array_length
<1>4. CASE call.op = "pages" /\ n > 0 /\ PageItems(k)
  <2>1. /\ call.kept = <<>>
        /\ k < n => \A i \in 0 .. l - 1 : PageOf(i) < k
        /\ \A i \in 0 .. l - 1 :
             PageOf(i) < k => PageItem(data, root, i) = call.before[i + 1]
    BY <1>4 DEF PageItems
  <2>2. ASSUME NEW i \in 0 .. l - 1
        PROVE  i \in Nat /\ PageOf(i) \in Nat
    <3>1. i \in Nat
      BY <1>1
    <3> QED BY <3>1, ItemPlace
  <2>3. j < n => \A i \in 0 .. l - 1 : PageOf(i) < j
    BY <1>1, <2>1, <2>2
  <2>4. ASSUME NEW i \in 0 .. l - 1, PageOf(i) < j
        PROVE  PageItem(data', root, i) = call.before[i + 1]
    <3>1. PageOf(i) < m /\ PageOf(i) < k
      BY <1>1, <2>1, <2>2, <2>4
    <3>2. PageItem(data', root, i) = PageItem(data, root, i)
      BY <2>2, <3>1, ItemKept
    <3> QED BY <2>1, <3>1, <3>2
  <2>5. PageItems(j)'
    BY <1>2, <2>1, <2>3, <2>4 DEF PageItems
  <2> QED BY <1>1, <1>2, <1>3, <1>4, <2>5
<1>5. CASE call.op = "large" /\ n > 0 /\ KeptItems /\ l <= small_capacity
  BY <1>1, <1>2, <1>3, <1>5 DEF KeptItems
<1>6. CASE call.op = "small" /\ n = 0 /\ call.push = <<>> /\ KeptItems
  BY <1>1, <1>2, <1>3, <1>6 DEF KeptItems
<1> QED BY <1>4, <1>5, <1>6 DEF Resizes

\* The page of the item array_push appends is of this transaction.
LEMMA PushesOn ==
  ASSUME Pushes, NEW n \in Nat, N = n, N' = n + 1, root' = root, n < call.n,
         call.n \in Nat, NEW q, MovesOn(q), IsNew(PageAt(data', root, n)),
         n >= LEVEL_ONE => IsNew(IndexAt(data', root, n))
  PROVE  Pushes'
<1>1. call'.push = call.push /\ call'.n = call.n /\ call'.before = call.before
  BY DEF MovesOn
<1>2. N' - 1 = n /\ N' <= call.n
  OBVIOUS
<1>3. HostBlock(root, N - 1)' = PageAt(data', root, n)
  BY <1>2, PagesAreNext DEF HostBlock, IndexBlock, PageAt, IndexAt, SlotOf
<1>4. IndexBlock(root, N - 1)' = IndexAt(data', root, n)
  BY <1>2 DEF IndexBlock, IndexAt, SlotOf
<1>5. NewPage(N - 1)'
  BY <1>2, <1>3, <1>4 DEF NewPage, New, IsNew
<1> QED BY <1>1, <1>2, <1>5 DEF Pushes

\* What a call knows between two steps of page_resize.
LEMMA ArrayResizeFacts ==
  ASSUME ArrayFits, ArrayInv, InTxn, Resizing
  PROVE  /\ IInv /\ TableFits /\ TableResize(call.n) /\ Resizes(N) /\ root # 0
         /\ call \in InCall /\ call.n \in 0 .. MaxPages /\ call.n \in Nat
         /\ call.at = "resize" /\ N \in Nat /\ LEVEL_ONE \in Nat
<1>1. IInv /\ TableResize(call.n) /\ Resizes(N)
  BY ArrayWorkAt DEF ArrayInv, ArrayResizing
<1>2. Holds(N, N) /\ call \in InCall
  BY <1>1 DEF TableResize, Resizes
<1>3. root # 0 /\ N \in Nat
  BY <1>1, <1>2, WholeFacts
<1>4. call.n \in 0 .. MaxPages /\ call.n \in Nat
  BY <1>2, TableSizes DEF InCall
<1> QED BY <1>1, <1>2, <1>3, <1>4, ArrayWords, TableSizes DEF Resizing

\* page_resize has added a page.
LEMMA ArrayPageAdded ==
  ASSUME ArrayFits, ArrayInv, NEW n \in Nat, n = N, Resizes(n), n < call.n,
         KeptPages(n), DoneResize(n + 1, call.n), root # 0, MovesOn("resize"),
         IsNew(PageAt(data', root, n)),
         n >= LEVEL_ONE => IsNew(IndexAt(data', root, n))
  PROVE  ArrayStepOK
<1>1. call \in InCall /\ call.n \in Nat /\ Pushes
  BY TableSizes DEF Resizes, InCall
<1>2. /\ N' = n + 1 /\ Holds(N, N)' /\ New(root)'
      /\ \A i \in Large : i \in call.n .. (n + 1) - 1 => New(IndexBlock(root, i))'
  BY TableGoesOn
<1>3. call'.n = call.n /\ call'.at = "resize"
  BY DEF MovesOn
<1>4. TableResize(call.n)'
  BY <1>2, <1>3 DEF TableResize, NewFrom
<1>5. /\ SamePages(data, root, data', root, n) /\ root' = root
  BY DEF KeptPages
<1>6. Pushes'
  BY <1>1, <1>2, <1>5, PushesOn
<1>7. n + 1 \in Nat
  OBVIOUS
<1>8. /\ call' \in InCall
      /\ array_length(root)' = Len(call'.before) /\ Len(call'.before) <= MaxItems
      /\ Pushes'
      /\ \/ call'.op = "pages" /\ call'.n > 0 /\ PageItems(n + 1)'
         \/ /\ call'.op = "large" /\ call'.n > 0 /\ KeptItems'
            /\ Len(call'.before) <= small_capacity
         \/ call'.op = "small" /\ call'.n = 0 /\ call'.push = <<>> /\ KeptItems'
  BY <1>5, <1>6, <1>7, ResizesOn
<1>9. Resizes(N)'
  BY <1>2, <1>8 DEF Resizes, PageItems
<1>10. ArrayResizing'
  BY <1>3, <1>4, <1>9 DEF ArrayResizing
<1> QED BY <1>1, <1>10, ArrayGoesOn DEF ArrayWork

\* A page in one of the first slots.
LEMMA ArrayGrowDirect ==
  ASSUME ArrayFits, ArrayInv, GrowDirect
  PROVE  ArrayStepOK
<1>1. InTxn /\ Resizing /\ call' = call /\ N < call.n /\ N < LEVEL_ONE
  BY DEF GrowDirect, Allocate, table
<1>2. /\ IInv /\ TableFits /\ TableResize(call.n) /\ Resizes(N) /\ root # 0
      /\ call \in InCall /\ call.n \in 0 .. MaxPages /\ call.at = "resize"
      /\ N \in Nat /\ LEVEL_ONE \in Nat
  BY <1>1, ArrayResizeFacts
<1>3. /\ KeptPages(N) /\ DoneResize(N + 1, call.n) /\ IsNew(PageAt(data', root, N))
  BY <1>2, GrowDirectDone
<1>4. MovesOn("resize")
  BY <1>1, <1>2, CallStays
<1>5. ~(N >= LEVEL_ONE)
  BY <1>1, <1>2
<1> QED BY <1>1, <1>2, <1>3, <1>4, <1>5, ArrayPageAdded

\* The index block of the next page is new, of this transaction, or copied.
LEMMA ArrayGrowIndex ==
  ASSUME ArrayFits, ArrayInv, GrowIndex
  PROVE  ArrayStepOK
<1> SUFFICES ASSUME NEW n, n = N
             PROVE  ArrayStepOK
  OBVIOUS
<1>1. InTxn /\ Resizing /\ Goes("slot") /\ n < call.n /\ n >= LEVEL_ONE
  BY DEF GrowIndex, Allocate, Modify
<1>2. /\ IInv /\ TableFits /\ TableResize(call.n) /\ Resizes(n) /\ root # 0
      /\ call \in InCall /\ call.n \in 0 .. MaxPages /\ call.n \in Nat
      /\ n \in Nat /\ LEVEL_ONE \in Nat
  BY <1>1, ArrayResizeFacts
<1>3. KeptPages(n) /\ DoneSlot(n)
  BY <1>2, GrowIndexDone
<1>4. MovesOn("slot")
  BY <1>1, <1>2, GoesOn DEF CallAt
<1>5. N' = n /\ Holds(N, N + 1)' /\ New(root)' /\ New(IndexBlock(root, N))'
  BY <1>2, <1>3, TableHasIndex
<1>6. call'.n = call.n /\ call'.at = "slot" /\ call'.push = call.push
      /\ call'.before = call.before
  BY <1>4 DEF MovesOn
<1>7. TableSlot(call.n)'
  BY <1>1, <1>2, <1>5, <1>6 DEF TableSlot
<1>8. /\ SamePages(data, root, data', root, n) /\ root' = root
  BY <1>3 DEF KeptPages
<1>9. Pushes'
  BY <1>1, <1>2, <1>5, <1>6 DEF Resizes, Pushes
<1>10. /\ call' \in InCall
       /\ array_length(root)' = Len(call'.before) /\ Len(call'.before) <= MaxItems
       /\ Pushes'
       /\ \/ call'.op = "pages" /\ call'.n > 0 /\ PageItems(n)'
          \/ /\ call'.op = "large" /\ call'.n > 0 /\ KeptItems'
             /\ Len(call'.before) <= small_capacity
          \/ call'.op = "small" /\ call'.n = 0 /\ call'.push = <<>> /\ KeptItems'
  BY <1>2, <1>4, <1>8, <1>9, ResizesOn
<1>11. Resizes(N)'
  BY <1>5, <1>10 DEF Resizes, PageItems
<1>12. ArraySlot'
  BY <1>6, <1>7, <1>11 DEF ArraySlot
<1> QED BY <1>2, <1>3, <1>4, <1>12, ArrayGoesOn DEF ArrayWork

\* Then the page, whose number is stored in it.
LEMMA ArrayGrowSlot ==
  ASSUME ArrayFits, ArrayInv, GrowSlot
  PROVE  ArrayStepOK
<1>1. InTxn /\ call.at = "slot" /\ Goes("resize")
  BY DEF GrowSlot, Allocate
<1>2. IInv /\ TableFits /\ TableSlot(call.n) /\ Resizes(N)
  BY <1>1, ArrayWorkAt, ArrayWords DEF ArrayInv, ArraySlot
<1>3. call \in InCall /\ call.n \in 0 .. MaxPages
  BY <1>2 DEF Resizes, InCall
<1>4. Holds(N, N + 1) /\ N < call.n
  BY <1>2 DEF TableSlot
<1>5. root # 0 /\ N \in Nat
  BY <1>1, <1>2, <1>4, WholeFacts
<1>6. /\ KeptPages(N) /\ DoneResize(N + 1, call.n)
      /\ IsNew(PageAt(data', root, N)) /\ IsNew(IndexAt(data', root, N))
  BY <1>2, <1>3, GrowSlotDone
<1>7. MovesOn("resize")
  BY <1>1, <1>3, GoesOn DEF CallAt
<1> QED BY <1>2, <1>4, <1>5, <1>6, <1>7, ArrayPageAdded

\* An array_push takes no page away.
LEMMA PushesNothing ==
  ASSUME Pushes, N \in Nat, call.n \in Nat, call.n < N, NEW q, MovesOn(q)
  PROVE  Pushes'
BY DEF Pushes, MovesOn

\* The last page is freed.
LEMMA ArrayShrinkSlot ==
  ASSUME ArrayFits, ArrayInv, ShrinkSlot
  PROVE  ArrayStepOK
<1> SUFFICES ASSUME NEW n, n = N - 1
             PROVE  ArrayStepOK
  OBVIOUS
<1>1. InTxn /\ Resizing /\ Goes("cleared") /\ N > call.n /\ N > LEVEL_ONE
  BY DEF ShrinkSlot, Release
<1>2. /\ IInv /\ TableFits /\ TableResize(call.n) /\ Resizes(N) /\ root # 0
      /\ call \in InCall /\ call.n \in 0 .. MaxPages /\ call.n \in Nat
      /\ N \in Nat /\ LEVEL_ONE \in Nat
  BY <1>1, ArrayResizeFacts
<1>3. KeptPages(n) /\ DoneCleared(n, call.n)
  BY <1>2, ShrinkSlotDone
<1>4. MovesOn("cleared")
  BY <1>1, <1>2, GoesOn DEF CallAt
<1>5. n \in Nat /\ N = n + 1 /\ call.n <= n
  BY <1>1, <1>2
<1>6. /\ N' = n + 1 /\ Holds(N - 1, N)' /\ New(root)'
      /\ \A i \in Large : i \in call.n .. n => New(IndexBlock(root, i))'
  BY <1>2, <1>3, <1>5, TableIsCleared
<1>7. call'.n = call.n /\ call'.at = "cleared"
  BY <1>4 DEF MovesOn
<1>8. TableCleared(call.n)'
  <2>1. N' - 1 = n /\ LEVEL_ONE < N' /\ call.n < N'
    BY <1>1, <1>2, <1>5, <1>6
  <2>2. NewFrom(call.n)'
    BY <1>6, <1>7, <2>1 DEF NewFrom
  <2> QED BY <1>6, <1>7, <2>1, <2>2 DEF TableCleared
<1>9. /\ SamePages(data, root, data', root, n) /\ root' = root
  BY <1>3 DEF KeptPages
<1>10. Pushes'
  BY <1>1, <1>2, <1>4, PushesNothing DEF Resizes
<1>11. /\ call' \in InCall
       /\ array_length(root)' = Len(call'.before) /\ Len(call'.before) <= MaxItems
       /\ Pushes'
       /\ \/ call'.op = "pages" /\ call'.n > 0 /\ PageItems(n)'
          \/ /\ call'.op = "large" /\ call'.n > 0 /\ KeptItems'
             /\ Len(call'.before) <= small_capacity
          \/ call'.op = "small" /\ call'.n = 0 /\ call'.push = <<>> /\ KeptItems'
  BY <1>2, <1>4, <1>5, <1>9, <1>10, ResizesOn
<1>12. Resizes(N - 1)'
  <2>1. N' - 1 = n
    BY <1>5, <1>6
  <2> QED BY <1>11, <2>1 DEF Resizes, PageItems
<1>13. ArrayCleared'
  BY <1>7, <1>8, <1>12 DEF ArrayCleared
<1> QED BY <1>2, <1>3, <1>4, <1>13, ArrayGoesOn DEF ArrayWork

\* page_resize has one page less, of k that were left.
LEMMA ArrayPageGone ==
  ASSUME ArrayFits, ArrayInv, NEW n \in Nat, N = n + 1, NEW k \in {n, n + 1},
         Resizes(k), call.n <= n, KeptPages(n), DoneResize(n, call.n), root # 0,
         MovesOn("resize")
  PROVE  ArrayStepOK
<1>1. call \in InCall /\ call.n \in Nat /\ Pushes /\ k \in Nat
  BY TableSizes DEF Resizes, InCall
<1>2. /\ N' = n /\ Holds(N, N)' /\ New(root)'
      /\ \A i \in Large : i \in call.n .. n - 1 => New(IndexBlock(root, i))'
  BY TableGoesOn
<1>3. call'.n = call.n /\ call'.at = "resize"
  BY DEF MovesOn
<1>4. TableResize(call.n)'
  BY <1>2, <1>3 DEF TableResize, NewFrom
<1>5. /\ SamePages(data, root, data', root, n) /\ root' = root
  BY DEF KeptPages
<1>6. Pushes'
  BY <1>1, PushesNothing
<1>7. /\ call' \in InCall
      /\ array_length(root)' = Len(call'.before) /\ Len(call'.before) <= MaxItems
      /\ Pushes'
      /\ \/ call'.op = "pages" /\ call'.n > 0 /\ PageItems(n)'
         \/ /\ call'.op = "large" /\ call'.n > 0 /\ KeptItems'
            /\ Len(call'.before) <= small_capacity
         \/ call'.op = "small" /\ call'.n = 0 /\ call'.push = <<>> /\ KeptItems'
  BY <1>1, <1>5, <1>6, ResizesOn
<1>8. Resizes(N)'
  BY <1>2, <1>7 DEF Resizes, PageItems
<1>9. ArrayResizing'
  BY <1>3, <1>4, <1>8 DEF ArrayResizing
<1> QED BY <1>1, <1>9, ArrayGoesOn DEF ArrayWork

\* The index block of the last page is freed with it, or kept.
LEMMA ArrayShrinkIndex ==
  ASSUME ArrayFits, ArrayInv, ShrinkIndex
  PROVE  ArrayStepOK
<1> SUFFICES ASSUME NEW n, n = N - 1
             PROVE  ArrayStepOK
  OBVIOUS
<1>1. InTxn /\ call.at = "cleared" /\ Goes("resize")
  BY DEF ShrinkIndex, Release, Modify
<1>2. IInv /\ TableFits /\ TableCleared(call.n) /\ Resizes(n)
  BY <1>1, ArrayWorkAt, ArrayWords DEF ArrayInv, ArrayCleared
<1>3. call \in InCall /\ call.n \in 0 .. MaxPages /\ call.n \in Nat
  BY <1>2, TableSizes DEF Resizes, InCall
<1>4. Holds(n, N) /\ call.n < N
  BY <1>2 DEF TableCleared
<1>5. root # 0 /\ N \in Nat /\ n \in Nat
  BY <1>1, <1>2, <1>4, WholeFacts
<1>6. KeptPages(n) /\ DoneResize(n, call.n)
  BY <1>2, <1>3, ShrinkIndexDone
<1>7. MovesOn("resize")
  BY <1>1, <1>3, GoesOn DEF CallAt
<1>8. N = n + 1 /\ call.n <= n
  BY <1>3, <1>4, <1>5
<1> QED BY <1>2, <1>5, <1>6, <1>7, <1>8, ArrayPageGone

\* The last page of a small table is freed.
LEMMA ArrayShrinkDirect ==
  ASSUME ArrayFits, ArrayInv, ShrinkDirect
  PROVE  ArrayStepOK
<1> SUFFICES ASSUME NEW n, n = N - 1
             PROVE  ArrayStepOK
  OBVIOUS
<1>1. InTxn /\ Resizing /\ call' = call /\ N > call.n
  BY DEF ShrinkDirect, Release, table
<1>2. /\ IInv /\ TableFits /\ TableResize(call.n) /\ Resizes(N) /\ root # 0
      /\ call \in InCall /\ call.n \in 0 .. MaxPages /\ call.n \in Nat
      /\ call.at = "resize" /\ N \in Nat /\ LEVEL_ONE \in Nat
  BY <1>1, ArrayResizeFacts
<1>3. KeptPages(n) /\ DoneResize(n, call.n)
  BY <1>2, ShrinkDirectDone
<1>4. MovesOn("resize")
  BY <1>1, <1>2, CallStays
<1>5. n \in Nat /\ N = n + 1 /\ call.n <= n
  BY <1>1, <1>2
<1> QED BY <1>2, <1>3, <1>4, <1>5, ArrayPageGone

-----------------------------------------------------------------------------
(***************************************************************************)
(* Stores into an array.                                                   *)
(***************************************************************************)

\* The first words of a block, which SmallItems and SavesItems set aside.
LEMMA FirstWords ==
  ASSUME ArrayFits, NEW s \in [Slot -> Words], NEW k,
         k = SubSeq(s, 1, small_capacity * ITEM)
  PROVE  /\ k \in Seq(Words) /\ Len(k) = small_capacity * ITEM
         /\ \A w \in SmallWords : k[w] = s[w]
<1> DEFINE c == small_capacity * ITEM
<1>1. c \in Nat /\ c > 0
  BY ItemSizes
<1>2. \A i \in 1 .. c : s[i] \in Words
  BY ArrayWords DEF SmallWords
<1> HIDE DEF c
<1>3. c \in Int /\ 1 \in Int
  BY <1>1
<1> DEFINE u == SubSeq(s, 1, c)
<1>4. /\ u \in Seq(Words)
      /\ Len(u) = IF 1 <= c THEN c - 1 + 1 ELSE 0
      /\ \A i \in 1 .. c - 1 + 1 : u[i] = s[1 + i - 1]
  BY <1>2, <1>3, SubSeqProperties
<1>5. k = u
  BY DEF c
<1> HIDE DEF u
<1>6. k \in Seq(Words) /\ Len(k) = c
  <2>1. 1 <= c /\ c - 1 + 1 = c
    BY <1>1
  <2>2. Len(u) = c
    BY ONLY <1>4, <2>1
  <2>3. u \in Seq(Words)
    BY <1>4
  <2> QED BY ONLY <1>5, <2>2, <2>3
<1>7. ASSUME NEW i \in 1 .. c
      PROVE  k[i] = s[i]
  <2>1. i \in 1 .. c - 1 + 1 /\ 1 + i - 1 = i
    BY <1>1
  <2> QED BY <1>4, <1>5, <2>1
<1> QED BY <1>6, <1>7 DEF c, SmallWords

\* Words that are set aside go back into a block.
LEMMA OverwrittenWords ==
  ASSUME NEW s \in [Slot -> Words], NEW k, DOMAIN k \subseteq Slot,
         \A w \in DOMAIN k : k[w] \in Words
  PROVE  /\ Overwritten(s, k) \in [Slot -> Words]
         /\ \A t \in Slot :
              Overwritten(s, k)[t] = IF t \in DOMAIN k THEN k[t] ELSE s[t]
BY DEF Overwritten

\* A store into a small array's words, or into the length and the pages of a
\* large one, leaves it sound.
LEMMA SoundStored ==
  ASSUME ArrayFits, NEW d \in [Block -> Value], NEW e \in [Block -> Value],
         NEW r, NEW B, B \subseteq Block, Sound(d, r, B),
         NEW n, n = d[r][Header], e[r][Header] = n,
         e[r][LengthWord] \in 0 .. MaxItems, e[r][LengthWord] <= Room(n),
         n = 0 => \A t \in Slot :
                    t \in SmallWords \/ t = LengthWord \/ e[r][t] = d[r][t],
         n # 0 => \A c \in B, t \in Slot :
                    \/ c = r /\ t = LengthWord
                    \/ \E i \in 0 .. n - 1 : c = PageAt(d, r, i)
                    \/ e[c][t] = d[c][t]
  PROVE  /\ Sound(e, r, B)
         /\ n # 0 => SamePlaces(d, e, r, n) /\ SameIndexes(d, e, r, Large)
<1>1. /\ TableFits /\ LengthWord \in Spare /\ LengthWord \in Slot
  BY ArrayWords
<1>2. n \in 0 .. MaxPages
  BY SoundFacts
<1>3. CASE n = 0
  <2>1. SmallTable(d, r, B)
    BY <1>3 DEF Sound
  <2>2. ASSUME NEW k \in Large, SlotOf(k) \notin SmallWords
        PROVE  IndexAt(e, r, k) = 0
    <3>1. SlotOf(k) \in Slot
      BY <1>1, Apart DEF SlotsApart
    <3>2. SlotOf(k) # LengthWord
      BY <1>1 DEF Spare
    <3>3. IndexAt(d, r, k) = 0
      BY <2>1, <2>2 DEF SmallTable
    <3> QED BY <1>3, <2>2, <3>1, <3>2, <3>3 DEF IndexAt
  <2>3. SmallTable(e, r, B)
    BY <2>1, <2>2 DEF SmallTable
  <2> QED BY <1>2, <1>3, <2>3 DEF Sound
<1>4. CASE n # 0
  <2>1. Whole(d, r, n, n, B)
    BY <1>4 DEF Sound
  <2>2. \A c \in B, t \in Slot :
          \/ c = r /\ (t = Header \/ t \in Spare)
          \/ \E i \in 0 .. n - 1 : c = PageAt(d, r, i)
          \/ e[c][t] = d[c][t]
    BY <1>1, <1>4
  <2>3. TableFits
    BY <1>1
  <2>4. /\ Whole(e, r, n, n, B) /\ SamePlaces(d, e, r, n)
        /\ SameIndexes(d, e, r, Large)
    BY ONLY <2>1, <2>2, <2>3, SameTable
  <2> QED BY <1>2, <1>4, <2>4 DEF Sound
<1> QED BY <1>3, <1>4

\* The table of a large array, whatever its length is.
LargeTable(d, r, n, B) == n # 0 /\ d[r][Header] = n /\ Whole(d, r, n, n, B)

\* Of a large array a new length changes nothing else.
LEMMA NewLength ==
  ASSUME ArrayFits, NEW d \in [Block -> Value], NEW e \in [Block -> Value],
         NEW r, NEW B, B \subseteq Block, NEW n, LargeTable(d, r, n, B),
         NEW l, l \in 0 .. MaxItems, l <= Room(n),
         ChangesWord(d, e, r, LengthWord, l)
  PROVE  /\ Sound(e, r, B) /\ e[r][Header] = n /\ e[r][LengthWord] = l
         /\ SamePlaces(d, e, r, n) /\ SameIndexes(d, e, r, Large)
         /\ \A i \in Nat : PageOf(i) < n => PageItem(e, r, i) = PageItem(d, r, i)
<1>1. /\ LengthWord \in Slot /\ Header \in Slot /\ LengthWord # Header
      /\ LengthWord \in Spare
  BY ArrayWords
<1>2. /\ r \in B /\ r \in Block /\ n \in 0 .. MaxPages
      /\ n # 0 /\ d[r][Header] = n /\ Whole(d, r, n, n, B)
  BY DEF LargeTable, Whole
<1>3. e[r][Header] = n /\ e[r][LengthWord] = l /\ n \in Nat
  BY <1>1, <1>2, TableSizes DEF ChangesWord
<1>4. \A c \in B, t \in Slot :
        \/ c = r /\ (t = Header \/ t \in Spare)
        \/ \E i \in 0 .. n - 1 : c = PageAt(d, r, i)
        \/ e[c][t] = d[c][t]
  BY <1>1 DEF ChangesWord
<1>5. TableFits /\ Whole(d, r, n, n, B)
  BY <1>2, ArrayWords
<1>6. /\ Whole(e, r, n, n, B) /\ SamePlaces(d, e, r, n)
      /\ SameIndexes(d, e, r, Large)
  BY ONLY <1>4, <1>5, SameTable
<1>7. Sound(e, r, B)
  BY <1>2, <1>3, <1>6 DEF Sound
<1>8. ASSUME NEW i \in Nat, PageOf(i) < n
      PROVE  PageItem(e, r, i) = PageItem(d, r, i)
  <2>1. PageOf(i) \in 0 .. n - 1 /\ ItemWord(i) \in Slot
    BY <1>3, <1>8, ItemPlace
  <2>2. PageAt(d, r, PageOf(i)) \in B \ {r}
    BY <1>5, <2>1 DEF Whole
  <2>3. PageAt(e, r, PageOf(i)) = PageAt(d, r, PageOf(i))
    BY <1>6, <2>1 DEF SamePlaces
  <2>4. e[PageAt(d, r, PageOf(i))][ItemWord(i)]
          = d[PageAt(d, r, PageOf(i))][ItemWord(i)]
    BY <2>1, <2>2 DEF ChangesWord
  <2> QED BY <2>3, <2>4 DEF PageItem
<1> QED BY <1>3, <1>6, <1>7, <1>8

\* What a lookup looks up.
LEMMA LooksUpFacts ==
  ASSUME ArrayFits, ArrayInv, InTxn, LooksUp
  PROVE  /\ IInv /\ root # 0 /\ Sound(data, root, live)
         /\ root \in live /\ root \in Block
         /\ data \in [Block -> Value] /\ live \subseteq Block
         /\ Committed \subseteq Block
         /\ call \in InCall /\ call.at \in {"lookup", "page"}
         /\ N = data[root][Header] /\ N \in Nat /\ N # 0
         /\ Whole(data, root, N, N, live)
         /\ array_length(root) = data[root][LengthWord]
         /\ array_length(root) \in 0 .. MaxItems /\ array_length(root) \in Nat
         /\ array_length(root) <= Room(N)
         /\ WorkingItems = call.before
<1>1. IInv /\ root # 0 /\ Sound(data, root, live) /\ call \in InCall
      /\ call.at \in {"lookup", "page"} /\ N # 0
  BY DEF ArrayInv, LooksUp
<1>2. /\ live \subseteq Block /\ Committed \subseteq Block
      /\ data \in [Block -> Value]
      /\ txn = TRUE /\ pc = "ready" /\ freelist = 2 /\ Mapped /\ ~Aborting
  BY <1>1, LiveFacts
<1>3. N = data[root][Header] /\ array_length(root) = data[root][LengthWord]
  BY DEF N, Pages, array_length
<1>4. /\ root \in live /\ root \in Block /\ N \in Nat
      /\ array_length(root) \in 0 .. MaxItems /\ array_length(root) \in Nat
      /\ array_length(root) <= Room(N)
  BY <1>1, <1>2, <1>3, SoundFacts
<1>5. Whole(data, root, N, N, live)
  BY <1>1, <1>3 DEF Sound
<1>6. TablePhase = "open"
  BY <1>2 DEF TablePhase
<1>7. WorkingItems = call.before
  BY <1>1, <1>6, WorkingItemsAre, CallIsNotIdle
<1> QED BY <1>1, <1>2, <1>3, <1>4, <1>5, <1>7

\* The blocks of the page it looks up.
LEMMA LooksUpPage ==
  ASSUME ArrayFits, ArrayInv, InTxn, LooksUp, NEW b, b = HostBlock(root, call.page),
         NEW x, x = IndexBlock(root, call.page)
  PROVE  /\ b = PageAt(data, root, call.page) /\ b \in live \ {root}
         /\ New(b) /\ b \notin Committed
         /\ call.page >= LEVEL_ONE => New(x)
         /\ call.op # "get" => New(root) /\ root \notin Committed
         /\ call.page \in Nat /\ call.page \in 0 .. N - 1
<1>1. /\ IInv /\ Whole(data, root, N, N, live) /\ N \in Nat /\ root \in live
  BY LooksUpFacts
<1>2. call.page \in 0 .. N - 1 /\ NewPage(call.page)
      /\ (call.op = "get" \/ New(root))
  BY DEF LooksUp
<1>3. b = PageAt(data, root, call.page)
  BY PagesAre
<1>4. b \in live \ {root}
  BY <1>1, <1>2, <1>3 DEF Whole
<1>5. New(b) /\ (call.page >= LEVEL_ONE => New(x))
  BY <1>2 DEF NewPage
<1> QED BY <1>1, <1>2, <1>3, <1>4, <1>5, LiveFacts

\* edb_modify_block of a block of this transaction.
LEMMA ModifiesNew ==
  ASSUME NEW b, New(b), Modify(b, Same)
  PROVE  /\ InTxn /\ data' = data /\ rc' = OK
         /\ UNCHANGED <<io, flist, freelist, objlist, state, loop, live>>
BY DEF Modify, Same, New, state

\* The end of a lookup: nothing has been remapped.
LEMMA ReturnsIdle ==
  ASSUME Returns, nblocks' = nblocks
  PROVE  call' = Idle
BY DEF Returns, Remapped

\* A lookup of the next state.
LEMMA LooksUpNext ==
  ASSUME call' \in InCall, call'.at \in {"lookup", "page"}, NEW p,
         call'.page = p, p \in 0 .. data'[root'][Header] - 1, root' # 0,
         Sound(data', root', live'), data'[root'][Header] # 0,
         call'.op = "get" \/ IsNew(root'),
         IsNew(PageAt(data', root', p)),
         p >= LEVEL_ONE => IsNew(IndexAt(data', root', p))
  PROVE  LooksUp'
<1>1. N' = data'[root'][Header]
  BY DEF N, Pages
<1>2. HostBlock(root, call.page)' = PageAt(data', root', p)
  BY PagesAreNext DEF HostBlock, IndexBlock, PageAt, IndexAt, SlotOf
<1>3. IndexBlock(root, call.page)' = IndexAt(data', root', p)
  BY DEF IndexBlock, IndexAt, SlotOf
<1>4. NewPage(call.page)'
  BY <1>2, <1>3 DEF NewPage, New, IsNew
<1> QED BY <1>1, <1>4 DEF LooksUp, New, IsNew

\* The index block is made writable, which copies nothing.
LEMMA ArrayLookupIndex ==
  ASSUME ArrayFits, ArrayInv, LookupIndex
  PROVE  ArrayStepOK
<1>1. /\ call.at = "lookup"
      /\ root' = root /\ savedRoot' = savedRoot
      /\ Goes("page") \/ (Remapped /\ call' = Dead)
  BY DEF LookupIndex
<1>2. InTxn
  BY <1>1 DEF ArrayInv, Rest, Idle
<1>3. ArrayReads \/ ArrayStores \/ ArrayShrinks
  BY <1>1, <1>2, ArrayWorkAt
<1>4. LooksUp
  BY <1>3 DEF ArrayReads, ArrayStores, ArrayShrinks
<1>5. /\ IInv /\ root # 0 /\ Sound(data, root, live) /\ data \in [Block -> Value]
      /\ call \in InCall /\ WorkingItems = call.before
      /\ N = data[root][Header] /\ N \in Nat /\ N # 0
  BY <1>2, <1>4, LooksUpFacts
<1>6. /\ New(HostBlock(root, call.page)) /\ call.page \in Nat
      /\ call.page >= LEVEL_ONE => New(IndexBlock(root, call.page))
      /\ call.op # "get" => New(root)
      /\ call.page \in 0 .. N - 1
  BY <1>2, <1>4, LooksUpPage
<1>7. /\ data' = data /\ rc' \in {rc, OK}
      /\ UNCHANGED <<io, flist, freelist, objlist, state, loop, live>>
  <2>1. CASE UNCHANGED vars
    BY <2>1 DEF vars, disk
  <2>2. CASE call.page >= LEVEL_ONE /\ Modify(IndexBlock(root, call.page), Same)
    BY <1>6, <2>2, ModifiesNew
  <2> QED BY <2>1, <2>2 DEF LookupIndex
<1>8. InPlace
  BY <1>2, <1>5, <1>7 DEF InPlace
<1>9. StaysOpen
  BY <1>5, <1>8, InPlaceFacts
<1>10. MovesOn("page")
  <2>1. nblocks' = nblocks
    BY <1>7 DEF io
  <2> QED BY <1>1, <1>5, <2>1, GoesOn DEF Remapped, CallAt
<1>11. /\ call' \in InCall /\ call'.at = "page" /\ call'.op = call.op
       /\ call'.page = call.page /\ call'.item = call.item /\ call'.v = call.v
       /\ call'.n = call.n /\ call'.push = call.push /\ call'.before = call.before
  BY <1>10 DEF MovesOn
<1>12. blocks' = blocks /\ live' = live
  BY <1>7 DEF state
<1>13. LooksUp'
  <2>1. /\ IsNew(PageAt(data', root', call.page))
        /\ call.page >= LEVEL_ONE => IsNew(IndexAt(data', root', call.page))
        /\ call'.op = "get" \/ IsNew(root')
    BY <1>1, <1>6, <1>7, <1>11, <1>12, PagesAre DEF New, IsNew
  <2>2. /\ call'.at \in {"lookup", "page"} /\ root' # 0
        /\ Sound(data', root', live') /\ data'[root'][Header] # 0
        /\ call.page \in 0 .. data'[root'][Header] - 1
    BY <1>1, <1>5, <1>6, <1>7, <1>11, <1>12
  <2> QED BY ONLY <1>11, <2>1, <2>2, LooksUpNext
<1>14. ArrayReads' \/ ArrayStores' \/ ArrayShrinks'
  <2>1. ASSUME ArrayReads
        PROVE  ArrayReads'
    BY <1>1, <1>7, <1>11, <1>13, <2>1 DEF ArrayReads, array_length
  <2>2. ASSUME ArrayStores
        PROVE  ArrayStores'
    BY <1>1, <1>7, <1>11, <1>13, <2>2 DEF ArrayStores, array_length
  <2>3. ASSUME ArrayShrinks
        PROVE  ArrayShrinks'
    <3>1. NewFrom(0)'
      BY <1>1, <1>7, <1>12, <2>3
        DEF ArrayShrinks, NewFrom, New, IndexBlock, N, Pages
    <3> QED BY <1>1, <1>7, <1>11, <1>13, <2>3, <3>1 DEF ArrayShrinks
  <2> QED BY <1>3, <2>1, <2>2, <2>3
<1>15. ListChanges(WorkingItems, WorkingItems')
  <2>1. TablePhase' = "open"
    BY <1>5, <1>9, ArrayOpen
  <2>2. WorkingItems' = call'.before
    BY <1>1, <1>5, <1>10, <2>1, WorkingItemsAreNext, CallIsNotIdleNext
  <2> QED BY <1>5, <1>11, <2>2 DEF ListChanges
<1> QED BY <1>1, <1>7, <1>9, <1>14, <1>15, ArrayStepDone DEF ArrayWork


\* A step that only stores, and not in a block of the committed state.
LEMMA ArrayInPlace ==
  ASSUME IInv, InPlace, NEW B, SameOutside(data, data', B), B \cap Committed = {}
  PROVE  /\ StaysOpen /\ live' = live /\ blocks' = blocks
         /\ \A b \in Committed, t \in Slot : data'[b][t] = data[b][t]
<1>1. StaysOpen /\ live' = live
  BY InPlaceFacts
<1>2. Committed \subseteq Block
  BY LiveFacts DEF InPlace
<1> QED BY <1>1, <1>2, Elsewhere DEF InPlace, state

\* A call returns.
LEMMA ArrayIsIdle ==
  ASSUME ArrayFits, ArrayInv, StaysOpen, root # 0, root' = root,
         savedRoot' = savedRoot, call' = Idle, Sound(data', root, live'),
         \A b \in Committed, t \in Slot : data'[b][t] = data[b][t],
         ListChanges(WorkingItems, ItemsIn(data', root))
  PROVE  ArrayStepOK
<1>1. ArrayIdle'
  BY DEF ArrayIdle
<1>2. TablePhase' = "open"
  BY ArrayOpen DEF ArrayInv
<1>3. WorkingItems' = ItemsIn(data', root)
  BY <1>2, WorkingItemsAreNext
<1> QED BY <1>1, <1>3, ArrayStepDone DEF ArrayWork

\* A call goes on, or begins; what it does is not seen yet.
LEMMA ArrayIsBusy ==
  ASSUME ArrayFits, ArrayInv, StaysOpen, root # 0, root' = root,
         savedRoot' = savedRoot, call' \in InCall, call'.before = WorkingItems,
         \A b \in Committed, t \in Slot : data'[b][t] = data[b][t],
         ArrayWork'
  PROVE  ArrayStepOK
<1>1. TablePhase' = "open"
  BY ArrayOpen DEF ArrayInv
<1>2. call' # Idle
  <2>1. call'.at \in CallAt
    BY DEF InCall
  <2>2. Idle.at = "idle"
    BY DEF Idle
  <2> QED BY <2>1, <2>2 DEF CallAt
<1>3. WorkingItems' = WorkingItems
  BY <1>1, <1>2, WorkingItemsAreNext
<1> QED BY <1>3, ArrayStepDone DEF ListChanges

\* array_get has its item.
LEMMA ArrayGotItem ==
  ASSUME ArrayFits, ArrayInv, GotItem
  PROVE  ArrayStepOK
<1> SUFFICES ASSUME NEW b, b = HostBlock(root, call.page)
             PROVE  ArrayStepOK
  OBVIOUS
<1>1. /\ call.at = "page" /\ call.op = "get" /\ Modify(b, Same) /\ Returns
      /\ root' = root /\ savedRoot' = savedRoot
  BY DEF GotItem, LookupPage
<1>2. InTxn
  BY <1>1 DEF ArrayInv, Rest, Idle
<1>3. ArrayReads
  BY <1>1, <1>2, ArrayWorkAt
<1>4. LooksUp /\ ItemsIn(data, root) = call.before
  BY <1>3 DEF ArrayReads
<1>5. /\ IInv /\ root # 0 /\ Sound(data, root, live) /\ data \in [Block -> Value]
      /\ WorkingItems = call.before
  BY <1>2, <1>4, LooksUpFacts
<1>6. New(b)
  BY <1>2, <1>4, LooksUpPage
<1>7. /\ data' = data /\ rc' = OK
      /\ UNCHANGED <<io, flist, freelist, objlist, state, loop, live>>
  BY <1>1, <1>6, ModifiesNew
<1>8. InPlace /\ SameOutside(data, data', {}) /\ nblocks' = nblocks
  BY <1>2, <1>5, <1>7 DEF InPlace, SameOutside, io
<1>9. /\ StaysOpen /\ live' = live
      /\ \A c \in Committed, t \in Slot : data'[c][t] = data[c][t]
  BY <1>5, <1>8, ArrayInPlace
<1>10. call' = Idle
  BY <1>1, <1>8, ReturnsIdle
<1>11. ListChanges(WorkingItems, ItemsIn(data', root))
  BY <1>4, <1>5, <1>7 DEF ListChanges
<1> QED BY <1>1, <1>5, <1>7, <1>9, <1>10, <1>11, ArrayIsIdle

\* array_pop has an item less.
LEMMA ArrayPopsItem ==
  ASSUME ArrayFits, ArrayInv, PopsItem
  PROVE  ArrayStepOK
<1> SUFFICES ASSUME NEW b, b = HostBlock(root, call.page),
                    NEW n, n = N, NEW l, l = array_length(root)
             PROVE  ArrayStepOK
  OBVIOUS
<1>1. /\ call.at = "page" /\ call.op = "pop" /\ Returns
      /\ root' = root /\ savedRoot' = savedRoot
  BY DEF PopsItem, LookupPage
<1>2. InTxn
  BY <1>1 DEF ArrayInv, Rest, Idle
<1>3. ArrayReads
  BY <1>1, <1>2, ArrayWorkAt
<1>4. LooksUp /\ l > 0 /\ ItemsIn(data, root) = call.before
  BY <1>1, <1>3 DEF ArrayReads
<1>5. /\ IInv /\ root # 0 /\ Sound(data, root, live) /\ data \in [Block -> Value]
      /\ live \subseteq Block /\ Committed \subseteq Block
      /\ WorkingItems = call.before /\ root \in Block
      /\ n = data[root][Header] /\ n # 0 /\ n \in Nat
      /\ l = data[root][LengthWord] /\ l \in 0 .. MaxItems /\ l \in Nat
      /\ l <= Room(n)
  BY <1>2, <1>4, LooksUpFacts
<1>6. New(b) /\ root \notin Committed
  BY <1>1, <1>2, <1>4, LooksUpPage
<1>7. /\ data' = [data EXCEPT ![root][LengthWord] = @ - 1] /\ rc' = OK
      /\ UNCHANGED <<io, flist, freelist, objlist, state, loop, live>>
  <2>1. blocks[b] \notin {0, FREED}
    BY <1>6 DEF New
  <2> QED BY <2>1 DEF PopsItem, LookupPage, Modify, state
<1>8. Stores(data, data', root, LengthWord, l - 1)
  BY <1>5, <1>7 DEF Stores
<1>9. LengthWord \in Slot /\ MaxItems \in Nat /\ l - 1 \in 0 .. MaxItems
  BY <1>4, <1>5, ArrayWords DEF ArrayFits
<1>10. l - 1 \in Words
  BY <1>9 DEF ArrayFits
<1>11. /\ data' \in [Block -> Value]
       /\ ChangesWord(data, data', root, LengthWord, l - 1)
       /\ SameOutside(data, data', {root})
  BY <1>5, <1>8, <1>9, <1>10, StoresOne
<1>12. InPlace /\ nblocks' = nblocks
  BY <1>2, <1>7, <1>11 DEF InPlace, io
<1>13. /\ StaysOpen /\ live' = live
       /\ \A c \in Committed, t \in Slot : data'[c][t] = data[c][t]
  BY <1>5, <1>6, <1>11, <1>12, ArrayInPlace
<1>14. call' = Idle
  BY <1>1, <1>12, ReturnsIdle
<1>15. Room(n) \in Nat
  BY <1>5, ItemSizes DEF Room
<1>16. /\ Sound(data', root, live) /\ data'[root][Header] = n
       /\ data'[root][LengthWord] = l - 1
       /\ \A i \in Nat : PageOf(i) < n => PageItem(data', root, i) = PageItem(data, root, i)
  <2>1. l - 1 <= Room(n)
    BY <1>5, <1>15
  <2>2. Whole(data, root, n, n, live)
    BY <1>2, <1>4, LooksUpFacts
  <2>3. n = data[root][Header]
    BY <1>5
  <2> DEFINE h == l - 1
  <2>4. /\ h \in 0 .. MaxItems /\ h <= Room(n)
        /\ ChangesWord(data, data', root, LengthWord, h)
    BY <1>9, <1>11, <2>1
  <2> HIDE DEF h
  <2>5. /\ Sound(data', root, live) /\ data'[root][Header] = n
        /\ data'[root][LengthWord] = h
        /\ \A i \in Nat : PageOf(i) < n => PageItem(data', root, i) = PageItem(data, root, i)
    <3>1. /\ data \in [Block -> Value] /\ live \subseteq Block
          /\ LargeTable(data, root, n, live)
          /\ h \in 0 .. MaxItems /\ h <= Room(n)
      BY <1>5, <2>2, <2>4 DEF LargeTable
    <3>2. data' \in [Block -> Value] /\ ChangesWord(data, data', root, LengthWord, h)
      BY <1>11, <2>4
    <3> QED BY ONLY ArrayFits, <3>1, <3>2, NewLength
  <2> QED BY <2>5 DEF h
<1>17. ListChanges(WorkingItems, ItemsIn(data', root))
  <2>1. /\ ItemsIn(data, root) \in Seq(Words) /\ Len(ItemsIn(data, root)) = l
        /\ \A i \in 1 .. l : ItemsIn(data, root)[i] = ItemIn(data, root, i - 1)
    BY <1>5, ItemsAreSeq
  <2>2. /\ ItemsIn(data', root) \in Seq(Words) /\ Len(ItemsIn(data', root)) = l - 1
        /\ \A i \in 1 .. l - 1 : ItemsIn(data', root)[i] = ItemIn(data', root, i - 1)
    BY <1>5, <1>11, <1>16, ItemsAreSeq
  <2>3. ASSUME NEW i \in 1 .. l - 1
        PROVE  ItemsIn(data', root)[i] = ItemsIn(data, root)[i]
    <3>1. i \in 1 .. l /\ i - 1 \in 0 .. l - 1 /\ i - 1 \in Nat
      BY <1>5
    <3>2. PageOf(i - 1) \in 0 .. n - 1
      BY <1>5, <3>1, SoundFacts
    <3>3. PageItem(data', root, i - 1) = PageItem(data, root, i - 1)
      BY <1>5, <1>16, <3>1, <3>2
    <3> QED BY <1>5, <1>16, <2>1, <2>2, <3>1, <3>3 DEF ItemIn
  <2>4. ListChanges(ItemsIn(data, root), ItemsIn(data', root))
    BY <1>5, <2>1, <2>2, <2>3, ItemsCut
  <2> QED BY <1>4, <1>5, <2>4
<1> QED BY <1>1, <1>5, <1>13, <1>14, <1>16, <1>17, ArrayIsIdle

\* An item of a large array is stored in its place.
LEMMA ItemPut ==
  ASSUME ArrayFits, NEW d \in [Block -> Value], NEW e \in [Block -> Value],
         NEW r, NEW B, B \subseteq Block, Sound(d, r, B),
         NEW n, n = d[r][Header], n # 0, NEW l, l = d[r][LengthWord],
         NEW h \in 0 .. l - 1, NEW w,
         ChangesWord(d, e, PageAt(d, r, PageOf(h)), ItemWord(h), w)
  PROVE  /\ Sound(e, r, B) /\ e[r][Header] = n /\ e[r][LengthWord] = l
         /\ \A i \in 0 .. l - 1 :
              PageItem(e, r, i) = IF i = h THEN w ELSE PageItem(d, r, i)
<1>1. /\ r \in B /\ r \in Block /\ n \in Nat /\ l \in Nat
      /\ l \in 0 .. MaxItems /\ l <= Room(n)
      /\ \A i \in 0 .. l - 1 :
           /\ i \in Nat /\ ItemWord(i) \in Slot
           /\ PageOf(i) \in 0 .. n - 1
           /\ PageAt(d, r, PageOf(i)) \in B \ {r}
  BY SoundFacts
<1>2. Whole(d, r, n, n, B)
  BY DEF Sound
<1>3. Header \in Slot /\ LengthWord \in Slot
  BY ArrayWords
<1> DEFINE b == PageAt(d, r, PageOf(h))
<1>4. b # r /\ PageOf(h) \in 0 .. n - 1
  BY <1>1
<1>5. e[r][Header] = n /\ e[r][LengthWord] = l
  BY <1>1, <1>3, <1>4 DEF ChangesWord
<1>6. \A c \in B, t \in Slot :
        \/ c = r /\ t = LengthWord
        \/ \E i \in 0 .. n - 1 : c = PageAt(d, r, i)
        \/ e[c][t] = d[c][t]
  BY <1>4 DEF ChangesWord
<1>7. Sound(e, r, B) /\ SamePlaces(d, e, r, n)
  BY <1>1, <1>5, <1>6, SoundStored
<1>8. ASSUME NEW i \in 0 .. l - 1
      PROVE  PageItem(e, r, i) = IF i = h THEN w ELSE PageItem(d, r, i)
  <2>1. PageAt(e, r, PageOf(i)) = PageAt(d, r, PageOf(i))
    BY <1>1, <1>7 DEF SamePlaces
  <2>2. PageItem(e, r, i) = IF PageAt(d, r, PageOf(i)) = b /\ ItemWord(i) = ItemWord(h)
                            THEN w ELSE PageItem(d, r, i)
    BY <1>1, <2>1 DEF PageItem, ChangesWord
  <2>3. PageAt(d, r, PageOf(i)) = b => PageOf(i) = PageOf(h)
    BY <1>1, <1>2, <1>4 DEF Whole
  <2>4. PageOf(i) = PageOf(h) /\ ItemWord(i) = ItemWord(h) => i = h
    BY <1>1, ItemsApart
  <2> QED BY <2>2, <2>3, <2>4
<1> QED BY <1>5, <1>7, <1>8

\* array_set or array_push stores its item.
LEMMA ArrayStoresItem ==
  ASSUME ArrayFits, ArrayInv, StoresItem
  PROVE  ArrayStepOK
<1> SUFFICES ASSUME NEW b, b = HostBlock(root, call.page),
                    NEW n, n = N, NEW l, l = array_length(root),
                    NEW h, h = call.item, NEW v, v = call.v,
                    NEW s, s = call.before
             PROVE  ArrayStepOK
  OBVIOUS
<1>1. /\ call.at = "page" /\ call.op = "set" /\ Returns
      /\ root' = root /\ savedRoot' = savedRoot
  BY DEF StoresItem, LookupPage
<1>2. InTxn
  BY <1>1 DEF ArrayInv, Rest, Idle
<1>3. ArrayStores
  BY <1>1, <1>2, ArrayWorkAt
<1>4. /\ LooksUp /\ v \in Payload /\ h \in 0 .. l - 1 /\ call.page = PageOf(h)
      /\ l = Len(s) \/ (l = Len(s) + 1 /\ h = Len(s))
      /\ \A i \in 0 .. l - 1 : i # h => PageItem(data, root, i) = s[i + 1]
  BY <1>3 DEF ArrayStores
<1>5. /\ IInv /\ root # 0 /\ Sound(data, root, live) /\ data \in [Block -> Value]
      /\ live \subseteq Block /\ Committed \subseteq Block
      /\ WorkingItems = s /\ root \in Block /\ call \in InCall
      /\ n = data[root][Header] /\ n # 0 /\ n \in Nat
      /\ l = data[root][LengthWord] /\ l \in 0 .. MaxItems /\ l \in Nat
  BY <1>2, <1>4, LooksUpFacts
<1>6. /\ New(b) /\ b \notin Committed /\ b = PageAt(data, root, PageOf(h))
      /\ b \in live \ {root}
  BY <1>2, <1>4, LooksUpPage
<1>7. /\ data' = [data EXCEPT ![b][ItemWord(h)] = v] /\ rc' = OK
      /\ UNCHANGED <<io, flist, freelist, objlist, state, loop, live>>
  <2>1. blocks[b] \notin {0, FREED}
    BY <1>6 DEF New
  <2> QED BY <2>1 DEF StoresItem, LookupPage, Modify, state
<1>8. Stores(data, data', b, ItemWord(h), v)
  BY <1>7 DEF Stores
<1>9. h \in Nat /\ ItemWord(h) \in Slot /\ v \in Words /\ b \in Block
      /\ s \in Seq(Words)
  BY <1>4, <1>5, <1>6, ItemPlace DEF Words, InCall
<1>10. /\ data' \in [Block -> Value]
       /\ ChangesWord(data, data', b, ItemWord(h), v)
       /\ SameOutside(data, data', {b})
  BY <1>5, <1>8, <1>9, StoresOne
<1>11. InPlace /\ nblocks' = nblocks
  BY <1>2, <1>7, <1>10 DEF InPlace, io
<1>12. /\ StaysOpen /\ live' = live
       /\ \A c \in Committed, t \in Slot : data'[c][t] = data[c][t]
  BY <1>5, <1>6, <1>10, <1>11, ArrayInPlace
<1>13. call' = Idle
  BY <1>1, <1>11, ReturnsIdle
<1>14. ChangesWord(data, data', PageAt(data, root, PageOf(h)), ItemWord(h), v)
  BY <1>6, <1>10
<1>15. /\ Sound(data', root, live) /\ data'[root][Header] = n
       /\ data'[root][LengthWord] = l
       /\ \A i \in 0 .. l - 1 :
            PageItem(data', root, i) = IF i = h THEN v ELSE PageItem(data, root, i)
  BY ONLY ArrayFits, <1>4, <1>5, <1>10, <1>14, ItemPut
<1> DEFINE u == ItemsIn(data', root)
<1>16. /\ u \in Seq(Words) /\ Len(u) = l
       /\ \A i \in 1 .. l : u[i] = IF i = h + 1 THEN v ELSE s[i]
  <2>1. /\ u \in Seq(Words) /\ Len(u) = l
        /\ \A i \in 1 .. l : u[i] = ItemIn(data', root, i - 1)
    BY <1>5, <1>10, <1>15, ItemsAreSeq
  <2> HIDE DEF u
  <2>2. ASSUME NEW i \in 1 .. l
        PROVE  u[i] = IF i = h + 1 THEN v ELSE s[i]
    <3>1. i - 1 \in 0 .. l - 1 /\ (i - 1) + 1 = i /\ i \in Int
      BY <1>5
    <3>2. u[i] = PageItem(data', root, i - 1)
      BY <1>5, <1>15, <2>1 DEF ItemIn
    <3>3. PageItem(data', root, i - 1)
            = IF i - 1 = h THEN v ELSE PageItem(data, root, i - 1)
      BY <1>15, <3>1
    <3>4. i - 1 # h => PageItem(data, root, i - 1) = s[(i - 1) + 1]
      BY <1>4, <3>1
    <3>5. i - 1 = h <=> i = h + 1
      BY <1>9, <3>1
    <3> QED BY <3>1, <3>2, <3>3, <3>4, <3>5
  <2> QED BY <2>1, <2>2
<1> HIDE DEF u
<1>17. ListChanges(s, u)
  <2>1. CASE l = Len(s)
    <3> SUFFICES ASSUME NEW g, g = h + 1
                 PROVE  ListChanges(s, u)
      OBVIOUS
    <3>1. g \in 1 .. Len(s)
      BY <1>4, <1>5, <2>1
    <3>2. /\ s \in Seq(Words) /\ u \in Seq(Words) /\ v \in Payload
          /\ Len(u) = Len(s)
          /\ \A i \in 1 .. Len(s) : u[i] = IF i = g THEN v ELSE s[i]
      BY <1>4, <1>9, <1>16, <2>1
    <3> QED BY ONLY <3>1, <3>2, ItemStored
  <2>2. CASE l = Len(s) + 1 /\ h = Len(s)
    <3>1. u[Len(s) + 1] = v /\ Len(u) = Len(s) + 1
      BY <1>9, <1>16, <2>2
    <3>2. \A i \in 1 .. Len(s) : u[i] = s[i]
      BY <1>9, <1>16, <2>2
    <3> QED BY <1>4, <1>9, <1>16, <3>1, <3>2, ItemAppended
  <2> QED BY <1>4, <2>1, <2>2
<1> QED BY <1>1, <1>5, <1>12, <1>13, <1>15, <1>17, ArrayIsIdle DEF u

\* The array as it was, for a call that begins and for one that goes on.
LEMMA LocalsAre ==
  ASSUME NEW at \in CallAt, NEW op \in CallOp, NEW i \in Nat, NEW v \in Words,
         NEW push \in PushSet, NEW kept \in Seq(Words), NEW s \in Seq(Words),
         s = IF Between THEN Items(root) ELSE call.before,
         NEW l, l = Locals(at, op, i, v, push, kept)
  PROVE  /\ l \in InCall /\ l.at = at /\ l.op = op /\ l.page = PageOf(i)
         /\ l.item = i /\ l.v = v /\ l.n = 0 /\ l.push = push /\ l.kept = kept
         /\ l.before = s
<1>1. PageOf(i) \in Nat
  BY ItemPlace
<1>2. l = [at |-> at, op |-> op, page |-> PageOf(i), item |-> i, v |-> v,
           n |-> 0, push |-> push, kept |-> kept, before |-> s]
  BY DEF Locals, PageOf
<1>3. 0 \in 0 .. MaxPages
  BY TableSizes
<1> QED BY <1>1, <1>2, <1>3 DEF InCall, PushSet, CallOp

\* The same, of array_resize in page_resize.
LEMMA ResizeIs ==
  ASSUME NEW op \in CallOp, NEW n \in 0 .. MaxPages, NEW push \in PushSet,
         NEW kept \in Seq(Words), NEW s \in Seq(Words),
         s = IF Between THEN Items(root) ELSE call.before,
         NEW l, l = Resize(op, n, push, kept)
  PROVE  /\ l \in InCall /\ l.at = "resize" /\ l.op = op /\ l.n = n
         /\ l.push = push /\ l.kept = kept /\ l.before = s
<1>1. 0 \in Words /\ 0 \in Nat /\ "resize" \in CallAt
  BY ValueIsWords DEF Words, CallAt
<1> SUFFICES ASSUME NEW m, m = Locals("resize", op, 0, 0, push, kept)
             PROVE  /\ l \in InCall /\ l.at = "resize" /\ l.op = op /\ l.n = n
                    /\ l.push = push /\ l.kept = kept /\ l.before = s
  OBVIOUS
<1>2. /\ m \in InCall /\ m.at = "resize" /\ m.op = op
      /\ m.push = push /\ m.kept = kept /\ m.before = s
  BY ONLY <1>1, LocalsAre, s = IF Between THEN Items(root) ELSE call.before,
          m = Locals("resize", op, 0, 0, push, kept)
<1>3. l = [m EXCEPT !.n = n]
  BY DEF Resize
<1> QED BY <1>2, <1>3 DEF InCall

\* The items of the first page are set aside.
LEMMA ArraySavesItems ==
  ASSUME ArrayFits, ArrayInv, SavesItems
  PROVE  ArrayStepOK
<1> SUFFICES ASSUME NEW b, b = HostBlock(root, call.page),
                    NEW n, n = N, NEW l, l = array_length(root),
                    NEW s, s = call.before,
                    NEW k, k = SubSeq(data[b], 1, small_capacity * ITEM)
             PROVE  ArrayStepOK
  OBVIOUS
<1>1. /\ call.at = "page" /\ call.op = "small" /\ Modify(b, Same)
      /\ root' = root /\ savedRoot' = savedRoot
      /\ \/ call' = Resize("small", 0, call.push,
                           SubSeq(data'[HostBlock(root, 0)],
                                  1, small_capacity * ITEM))
         \/ Remapped /\ call' = Dead
  BY DEF SavesItems, LookupPage
<1>2. InTxn
  BY <1>1 DEF ArrayInv, Rest, Idle
<1>3. ArrayShrinks
  BY <1>1, <1>2, ArrayWorkAt
<1>4. /\ LooksUp /\ call.page = 0 /\ call.n = 0 /\ call.push = <<>> /\ NewFrom(0)
      /\ ItemsIn(data, root) = s
  BY <1>3 DEF ArrayShrinks
<1>5. /\ IInv /\ root # 0 /\ Sound(data, root, live) /\ data \in [Block -> Value]
      /\ live \subseteq Block /\ Committed \subseteq Block
      /\ Whole(data, root, n, n, live)
      /\ WorkingItems = s /\ root \in Block /\ call \in InCall
      /\ n = data[root][Header] /\ n # 0 /\ n \in Nat
      /\ l = data[root][LengthWord] /\ l \in 0 .. MaxItems /\ l \in Nat
  BY <1>2, <1>4, LooksUpFacts
<1>6. /\ New(b) /\ b = PageAt(data, root, 0) /\ b \in live \ {root} /\ New(root)
  BY <1>1, <1>2, <1>4, LooksUpPage
<1>7. /\ data' = data /\ rc' = OK
      /\ UNCHANGED <<io, flist, freelist, objlist, state, loop, live>>
  BY <1>1, <1>6, ModifiesNew
<1>8. InPlace /\ SameOutside(data, data', {})
  BY <1>2, <1>5, <1>7 DEF InPlace, SameOutside
<1>9. /\ StaysOpen /\ live' = live /\ blocks' = blocks
      /\ \A c \in Committed, t \in Slot : data'[c][t] = data[c][t]
  BY <1>5, <1>8, ArrayInPlace
<1>10. s \in Seq(Words) /\ Len(s) = l
       /\ \A i \in 1 .. l : s[i] = ItemIn(data, root, i - 1)
  BY <1>4, <1>5, ItemsAreSeq
<1>11. /\ k \in Seq(Words) /\ Len(k) = small_capacity * ITEM
       /\ \A w \in SmallWords : k[w] = data[b][w]
  <2>1. data[b] \in [Slot -> Words]
    BY <1>5, <1>6, ValueIsWords
  <2> QED BY <2>1, FirstWords
<1>12. /\ call' \in InCall /\ call'.at = "resize" /\ call'.op = "small"
       /\ call'.n = 0 /\ call'.push = <<>> /\ call'.kept = k /\ call'.before = s
  <2>1. call' = Resize("small", 0, <<>>, k)
    <3>1. ~Remapped
      BY <1>7 DEF Remapped, io
    <3> QED BY <1>1, <1>4, <1>7, <3>1
  <2>2. s = IF Between THEN Items(root) ELSE call.before
    BY <1>5, CallIsNotIdle DEF Between
  <2>3. <<>> \in PushSet /\ "small" \in CallOp /\ 0 \in 0 .. MaxPages
    BY TableSizes DEF PushSet, CallOp
  <2> QED BY ONLY <1>10, <1>11, <2>1, <2>2, <2>3, ResizeIs
<1>13. TableResize(call.n)'
  <2>1. Holds(N, N)'
    BY <1>1, <1>5, <1>7, <1>9 DEF Holds, N, Pages
  <2>2. New(root)'
    BY <1>1, <1>6, <1>9 DEF New
  <2>3. NewFrom(call.n)'
    BY <1>1, <1>4, <1>7, <1>9, <1>12 DEF NewFrom, New, IndexBlock, N, Pages
  <2> QED BY <2>1, <2>2, <2>3 DEF TableResize
<1>14. KeptItems'
  <2>1. ASSUME NEW i \in 0 .. l - 1, i < small_capacity
        PROVE  k[ItemWord(i)] = s[i + 1]
    <3>1. i \in Nat /\ i + 1 \in 1 .. l /\ (i + 1) - 1 = i
      BY <1>5
    <3>2. PageOf(i) = 0 /\ ItemWord(i) \in SmallWords
      BY <2>1, <3>1, SmallPlace
    <3>3. s[i + 1] = PageItem(data, root, i)
      BY <1>5, <1>10, <3>1 DEF ItemIn
    <3> QED BY <1>6, <1>11, <3>2, <3>3 DEF PageItem
  <2> QED BY <1>10, <1>11, <1>12, <2>1 DEF KeptItems
<1>15. Pushes'
  BY <1>12 DEF Pushes
<1>16. Resizes(N)'
  <2>1. array_length(root)' = l /\ l <= MaxItems
    BY <1>1, <1>5, <1>7 DEF array_length, ArrayFits
  <2> QED BY <1>10, <1>12, <1>14, <1>15, <2>1 DEF Resizes
<1>17. ArrayResizing'
  BY <1>12, <1>13, <1>16 DEF ArrayResizing
<1> QED BY <1>1, <1>5, <1>9, <1>12, <1>17, ArrayIsBusy DEF ArrayWork

\* The same, of a lookup.
LEMMA LookupIs ==
  ASSUME NEW op \in CallOp, NEW i \in Nat, NEW v \in Words, NEW s \in Seq(Words),
         s = IF Between THEN Items(root) ELSE call.before,
         NEW l, l = Lookup(op, i, v)
  PROVE  /\ l \in InCall /\ l.at = "lookup" /\ l.op = op /\ l.page = PageOf(i)
         /\ l.item = i /\ l.v = v /\ l.n = 0 /\ l.push = <<>> /\ l.before = s
<1>1. PageOf(i) \in Nat
  BY ItemPlace
<1>2. l = [at |-> "lookup", op |-> op, page |-> PageOf(i), item |-> i, v |-> v,
           n |-> 0, push |-> <<>>, kept |-> <<>>, before |-> s]
  BY DEF Lookup, Locals, PageOf
<1>3. /\ 0 \in 0 .. MaxPages /\ <<>> \in Seq(Words) /\ <<>> \in PushSet
      /\ "lookup" \in CallAt
  BY TableSizes DEF CallAt, PushSet
<1> QED BY <1>1, <1>2, <1>3 DEF InCall

\* array_push counts the item it has found room for, and looks up its page.
LEMMA AppendsItem ==
  ASSUME ArrayFits, ArrayInv, InTxn, root # 0, New(root),
         NEW e \in [Block -> Value], Sound(e, root, live),
         \A c \in Committed, t \in Slot : e[c][t] = data[c][t],
         NEW s \in Seq(Words), s = WorkingItems,
         NEW l, l = e[root][LengthWord], l = Len(s), l < MaxItems,
         NEW n, n = e[root][Header], n # 0, NEW p, p = PageOf(l), p < n,
         New(PageAt(e, root, p)), p >= LEVEL_ONE => New(IndexAt(e, root, p)),
         \A i \in 0 .. l - 1 : PageItem(e, root, i) = s[i + 1],
         data' = [e EXCEPT ![root][LengthWord] = @ + 1],
         call' \in InCall, call'.at = "lookup", call'.op = "set",
         call'.v \in Payload, call'.item = l, call'.page = p, call'.before = s,
         root' = root, savedRoot' = savedRoot,
         UNCHANGED <<io, flist, freelist, objlist, state, loop, live, rc>>
  PROVE  ArrayStepOK
<1>1. /\ IInv /\ live \subseteq Block /\ Committed \subseteq Block
      /\ \A c \in live : New(c) => c \notin Committed
  BY LiveFacts DEF ArrayInv
<1>2. /\ root \in live /\ root \in Block /\ n \in Nat /\ n \in 0 .. MaxPages
      /\ l \in Nat
      /\ \A i \in 0 .. l - 1 : i \in Nat /\ PageOf(i) \in 0 .. n - 1
  BY ONLY ArrayFits, <1>1, SoundFacts, e \in [Block -> Value],
          Sound(e, root, live), n = e[root][Header], l = e[root][LengthWord], n # 0
<1>3. root \notin Committed
  BY <1>1, <1>2
<1>4. p \in Nat /\ l < n * items_per_block /\ n * items_per_block \in Nat
  <2>1. p \in Nat
    BY <1>2, ItemPlace
  <2>2. l < n * items_per_block
    BY <1>2, PagesHold
  <2> QED BY <1>2, <2>1, <2>2, ItemSizes
<1>5. LengthWord \in Slot /\ MaxItems \in Nat /\ l + 1 \in 0 .. MaxItems
      /\ l + 1 \in Words
  BY <1>2, ArrayWords DEF ArrayFits
<1>6. Stores(e, data', root, LengthWord, l + 1)
  BY DEF Stores
<1>7. /\ data' \in [Block -> Value]
      /\ ChangesWord(e, data', root, LengthWord, l + 1)
      /\ SameOutside(e, data', {root})
  BY <1>2, <1>5, <1>6, StoresOne
<1>8. l + 1 <= Room(n)
  BY <1>2, <1>4 DEF Room
<1>9. /\ Sound(data', root, live) /\ data'[root][Header] = n
      /\ data'[root][LengthWord] = l + 1
      /\ SamePlaces(e, data', root, n) /\ SameIndexes(e, data', root, Large)
      /\ \A i \in Nat : PageOf(i) < n => PageItem(data', root, i) = PageItem(e, root, i)
  <2>1. Whole(e, root, n, n, live) /\ n = e[root][Header]
    BY DEF Sound
  <2> DEFINE h == l + 1
  <2>2. /\ h \in 0 .. MaxItems /\ h <= Room(n)
        /\ ChangesWord(e, data', root, LengthWord, h)
    BY <1>5, <1>7, <1>8
  <2> HIDE DEF h
  <2>3. /\ e \in [Block -> Value] /\ live \subseteq Block
        /\ LargeTable(e, root, n, live)
        /\ h \in 0 .. MaxItems /\ h <= Room(n)
    BY <1>1, <2>1, <2>2 DEF LargeTable
  <2>4. data' \in [Block -> Value] /\ ChangesWord(e, data', root, LengthWord, h)
    BY <1>7, <2>2
  <2>5. /\ Sound(data', root, live) /\ data'[root][Header] = n
        /\ data'[root][LengthWord] = h
    BY ONLY ArrayFits, <2>3, <2>4, NewLength
  <2>6. SamePlaces(e, data', root, n) /\ SameIndexes(e, data', root, Large)
    BY ONLY ArrayFits, <2>3, <2>4, NewLength
  <2>7. \A i \in Nat : PageOf(i) < n => PageItem(data', root, i) = PageItem(e, root, i)
    BY ONLY ArrayFits, <2>3, <2>4, NewLength
  <2> QED BY <2>5, <2>6, <2>7 DEF h
<1>10. InPlace /\ blocks' = blocks
  BY <1>7 DEF InPlace, state
<1>11. StaysOpen /\ live' = live
  BY <1>1, <1>10, InPlaceFacts
<1>12. \A c \in Committed, t \in Slot : data'[c][t] = data[c][t]
  BY <1>1, <1>3, <1>7 DEF SameOutside
<1>13. /\ IsNew(PageAt(data', root, p))
       /\ p >= LEVEL_ONE => IsNew(IndexAt(data', root, p))
  <2>1. p \in 0 .. n - 1
    BY <1>2, <1>4
  <2>2. PageAt(data', root, p) = PageAt(e, root, p)
    BY <1>9, <2>1 DEF SamePlaces
  <2>3. p >= LEVEL_ONE => p \in Large
    BY <1>2, <2>1, TableSizes DEF Large
  <2>4. p >= LEVEL_ONE => IndexAt(data', root, p) = IndexAt(e, root, p)
    BY <1>9, <2>3 DEF SameIndexes
  <2> QED BY <1>10, <2>2, <2>4 DEF New, IsNew
<1>14. LooksUp'
  <2>1. p \in 0 .. data'[root'][Header] - 1 /\ data'[root'][Header] # 0
    BY <1>2, <1>4, <1>9
  <2>2. Sound(data', root', live') /\ root' # 0 /\ call'.at \in {"lookup", "page"}
    BY <1>9, <1>11
  <2>3. /\ IsNew(PageAt(data', root', p))
        /\ p >= LEVEL_ONE => IsNew(IndexAt(data', root', p))
        /\ call'.op = "get" \/ IsNew(root')
    BY <1>10, <1>13 DEF New, IsNew
  <2>4. call' \in InCall /\ call'.page = p
    OBVIOUS
  <2> QED BY ONLY <2>1, <2>2, <2>3, <2>4, LooksUpNext
<1>15. ArrayStores'
  <2>1. array_length(root)' = l + 1
    BY <1>9 DEF array_length
  <2>2. ASSUME NEW i \in 0 .. (l + 1) - 1, i # l
        PROVE  PageItem(data', root, i) = s[i + 1]
    <3>1. i \in 0 .. l - 1
      BY <1>2, <2>2
    <3>2. i \in Nat /\ PageOf(i) < n
      BY <1>2, <3>1
    <3> QED BY <1>9, <3>1, <3>2
  <2>3. l \in 0 .. (l + 1) - 1
    BY <1>2
  <2> QED BY <1>14, <2>1, <2>2, <2>3 DEF ArrayStores
<1> QED BY <1>11, <1>12, <1>15, ArrayIsBusy DEF ArrayWork

\* In e the array has the first of the items it had, and when array_push has
\* one to append, all of them, and a page of this transaction for that one.
HoldsItems(e) ==
  LET l == e[root][LengthWord]
      n == e[root][Header] IN
    /\ l <= Len(call.before)
    /\ \A i \in 0 .. l - 1 : ItemIn(e, root, i) = call.before[i + 1]
    /\ call.push # <<>> =>
         /\ l = Len(call.before) /\ l < MaxItems /\ n = PageOf(l) + 1
         /\ New(PageAt(e, root, n - 1))
         /\ n - 1 >= LEVEL_ONE => New(IndexAt(e, root, n - 1))

\* array_resize returns, to the caller or to array_push, with the blocks as e.
LEMMA ResizeEnds ==
  ASSUME ArrayFits, ArrayInv, InTxn, root # 0, New(root), call \in InCall,
         NEW e \in [Block -> Value], Sound(e, root, live),
         \A c \in Committed, t \in Slot : e[c][t] = data[c][t],
         HoldsItems(e), Resized(e), root' = root, savedRoot' = savedRoot,
         UNCHANGED <<io, flist, freelist, objlist, state, loop, live, rc>>
  PROVE  ArrayStepOK
<1> SUFFICES ASSUME NEW s, s = call.before, NEW l, l = e[root][LengthWord],
                    NEW n, n = e[root][Header]
             PROVE  ArrayStepOK
  OBVIOUS
<1>1. /\ IInv /\ live \subseteq Block /\ Committed \subseteq Block
      /\ data \in [Block -> Value] /\ Mapped /\ txn = TRUE /\ pc = "ready"
      /\ ~Aborting
  BY LiveFacts DEF ArrayInv
<1>2. s \in Seq(Words) /\ call.push \in PushSet /\ call # Idle
  BY CallIsNotIdle DEF InCall, PushSet
<1>3. WorkingItems = s
  <2>1. TablePhase = "open"
    BY <1>1 DEF TablePhase
  <2> QED BY <1>2, <2>1, WorkingItemsAre
<1>4. n \in Nat /\ l \in Nat
  BY <1>1, SoundFacts
<1>7. /\ l <= Len(s)
      /\ \A i \in 0 .. l - 1 : ItemIn(e, root, i) = s[i + 1]
      /\ call.push # <<>> =>
           /\ l = Len(s) /\ l < MaxItems /\ n = PageOf(l) + 1
           /\ New(PageAt(e, root, n - 1))
           /\ n - 1 >= LEVEL_ONE => New(IndexAt(e, root, n - 1))
  BY DEF HoldsItems
<1>5. CASE call.push = <<>>
  <2>1. data' = e /\ call' = Idle
    BY <1>5 DEF Resized
  <2>2. InPlace
    BY <2>1 DEF InPlace
  <2>3. StaysOpen /\ live' = live
    BY <1>1, <2>2, InPlaceFacts
  <2>4. ListChanges(s, ItemsIn(e, root))
    <3>1. /\ ItemsIn(e, root) \in Seq(Words) /\ Len(ItemsIn(e, root)) = l
          /\ \A i \in 1 .. l : ItemsIn(e, root)[i] = ItemIn(e, root, i - 1)
      BY <1>1, ItemsAreSeq
    <3>2. ASSUME NEW i \in 1 .. l
          PROVE  ItemsIn(e, root)[i] = s[i]
      <4>1. i - 1 \in 0 .. l - 1 /\ (i - 1) + 1 = i
        BY <1>4
      <4>2. ItemIn(e, root, i - 1) = s[(i - 1) + 1]
        BY <1>7, <4>1
      <4> QED BY <3>1, <4>1, <4>2
    <3> QED BY <1>2, <1>7, <3>1, <3>2, ItemsCut
  <2> QED BY <1>3, <2>1, <2>3, <2>4, ArrayIsIdle
<1>6. CASE call.push # <<>>
  <2>1. PICK w \in Payload : call.push = <<w>>
    BY <1>2, <1>6 DEF PushSet
  <2>2. /\ data' = [e EXCEPT ![root][LengthWord] = @ + 1]
        /\ call' = Lookup("set", l, w)
    BY <1>6, <2>1 DEF Resized
  <2>3. /\ s = IF Between THEN Items(root) ELSE call.before
        /\ "set" \in CallOp /\ w \in Words
    BY <1>2 DEF Between, CallOp, Words
  <2>4. /\ call' \in InCall /\ call'.at = "lookup" /\ call'.op = "set"
        /\ call'.page = PageOf(l) /\ call'.item = l /\ call'.v = w
        /\ call'.before = s
    <3> DEFINE op == "set"
               c == call'
    <3>1. /\ op \in CallOp /\ l \in Nat /\ w \in Words /\ s \in Seq(Words)
          /\ s = IF Between THEN Items(root) ELSE call.before
          /\ c = Lookup(op, l, w)
      BY <1>2, <1>4, <2>2, <2>3
    <3> HIDE DEF op, c
    <3>2. /\ c \in InCall /\ c.at = "lookup" /\ c.op = op
          /\ c.page = PageOf(l) /\ c.item = l /\ c.v = w /\ c.before = s
      BY ONLY <3>1, LookupIs
    <3> QED BY <3>2 DEF op, c
  <2>5. /\ l = Len(s) /\ l < MaxItems /\ n = PageOf(l) + 1
        /\ New(PageAt(e, root, n - 1))
        /\ n - 1 >= LEVEL_ONE => New(IndexAt(e, root, n - 1))
    BY <1>6, <1>7
  <2>6. /\ PageOf(l) \in Nat /\ n # 0 /\ PageOf(l) < n /\ n - 1 = PageOf(l)
    <3>1. PageOf(l) \in Nat
      BY <1>4, ItemPlace
    <3> QED BY ONLY <2>5, <3>1
  <2>7. \A i \in 0 .. l - 1 : PageItem(e, root, i) = s[i + 1]
    BY <1>7, <2>6 DEF ItemIn
  <2> QED BY <1>2, <1>3, <2>2, <2>4, <2>5, <2>6, <2>7, AppendsItem
<1> QED BY <1>5, <1>6

\* Items that were set aside go back into the root, and the length is cut.
Rewrites(d, e, r, k, l) ==
  e = [d EXCEPT ![r] = [Overwritten(@, k) EXCEPT ![LengthWord] = l]]

\* What is in the blocks then.
LEMMA RootWritten ==
  ASSUME ArrayFits, NEW d \in [Block -> Value], NEW r \in Block,
         NEW k \in Seq(Words), 1 .. Len(k) \subseteq SmallWords, NEW l \in Words,
         NEW e, Rewrites(d, e, r, k, l)
  PROVE  /\ e \in [Block -> Value]
         /\ \A b \in Block \ {r} : e[b] = d[b]
         /\ \A t \in Slot : e[r][t] = IF t = LengthWord THEN l
                                      ELSE IF t \in 1 .. Len(k) THEN k[t]
                                      ELSE d[r][t]
<1>1. d[r] \in [Slot -> Words] /\ Value = [Slot -> Words]
  BY ValueIsWords
<1>2. /\ DOMAIN k = 1 .. Len(k) /\ DOMAIN k \subseteq Slot
      /\ \A w \in DOMAIN k : k[w] \in Words
      /\ LengthWord \in Slot
  BY ArrayWords
<1> DEFINE o == Overwritten(d[r], k)
<1>3. /\ o \in [Slot -> Words]
      /\ \A t \in Slot : o[t] = IF t \in DOMAIN k THEN k[t] ELSE d[r][t]
  BY <1>1, <1>2, OverwrittenWords
<1> HIDE DEF o
<1>4. e = [d EXCEPT ![r] = [o EXCEPT ![LengthWord] = l]]
  BY DEF o, Rewrites
<1> DEFINE p == [o EXCEPT ![LengthWord] = l]
<1>5. /\ p \in Value
      /\ \A t \in Slot : p[t] = IF t = LengthWord THEN l ELSE o[t]
  BY <1>1, <1>2, <1>3
<1> HIDE DEF p
<1>6. e = [d EXCEPT ![r] = p]
  BY <1>4 DEF p
<1>7. e \in [Block -> Value] /\ e[r] = p /\ \A b \in Block \ {r} : e[b] = d[b]
  BY <1>5, <1>6
<1>8. \A t \in Slot : t \in DOMAIN k <=> t \in 1 .. Len(k)
  BY <1>2
<1> QED BY <1>3, <1>5, <1>7, <1>8

\* page_resize has returned from growing or shrinking a large array.
LEMMA ArrayPagesResized ==
  ASSUME ArrayFits, ArrayInv, PagesResized, call.op = "pages"
  PROVE  ArrayStepOK
<1> SUFFICES ASSUME NEW n, n = N, NEW s, s = call.before, NEW m, m = Len(s),
                    NEW l, l = IF m > Room(n) THEN Room(n) ELSE m,
                    NEW e, e = [data EXCEPT ![root] =
                                  [Overwritten(@, call.kept) EXCEPT ![LengthWord] = l]]
             PROVE  ArrayStepOK
  OBVIOUS
<1>1. /\ Resizing /\ n = call.n /\ root' = root /\ savedRoot' = savedRoot
      /\ UNCHANGED <<io, flist, freelist, objlist, state, loop, live, rc>>
  BY DEF PagesResized
<1>2. InTxn
  BY <1>1 DEF ArrayInv, Rest, Resizing, Idle
<1>3. /\ IInv /\ TableFits /\ TableResize(n) /\ Resizes(n) /\ root # 0
      /\ call \in InCall /\ n \in Nat
  BY <1>1, <1>2, ArrayResizeFacts
<1>4. /\ New(root) /\ Whole(data, root, n, n, live) /\ root \in live /\ root \in Block
      /\ live \subseteq Block /\ data[root][Header] = n
  <2>1. Holds(n, n) /\ New(root)
    BY <1>3 DEF TableResize
  <2> QED BY <1>2, <1>3, <2>1, WholeFacts DEF N, Pages
<1>5. /\ data \in [Block -> Value] /\ Committed \subseteq Block
      /\ root \notin Committed
  BY <1>2, <1>3, <1>4, LiveFacts
<1>6. /\ array_length(root) = m /\ m <= MaxItems /\ n > 0 /\ Pushes
      /\ call.kept = <<>>
      /\ \A i \in 0 .. m - 1 : PageOf(i) < n => PageItem(data, root, i) = s[i + 1]
  BY <1>1, <1>3 DEF Resizes, PageItems
<1>7. m \in Nat /\ Room(n) \in Nat /\ Room(n) = n * items_per_block
  BY <1>3, <1>6, ItemSizes DEF InCall, Room
<1>8. l \in Nat /\ l <= m /\ l <= Room(n) /\ l \in 0 .. MaxItems /\ l \in Words
  BY <1>6, <1>7 DEF ArrayFits
<1>9. array_capacity(root) = Room(n)
  BY DEF array_capacity, Room, N
<1>10. Resized(e)
  BY <1>1, <1>6, <1>9 DEF PagesResized
<1>11. /\ e \in [Block -> Value]
       /\ \A b \in Block \ {root} : e[b] = data[b]
       /\ \A t \in Slot : e[root][t] = IF t = LengthWord THEN l ELSE data[root][t]
  <2>1. <<>> \in Seq(Words) /\ 1 .. Len(<<>>) \subseteq SmallWords
        /\ \A t \in Slot : t \notin 1 .. Len(<<>>)
    OBVIOUS
  <2>2. e = [data EXCEPT ![root] = [Overwritten(@, <<>>) EXCEPT ![LengthWord] = l]]
    BY <1>6
  <2> DEFINE k == <<>>
  <2>3. /\ k \in Seq(Words) /\ 1 .. Len(k) \subseteq SmallWords
        /\ \A t \in Slot : t \notin 1 .. Len(k)
        /\ Rewrites(data, e, root, k, l)
    BY <2>1, <2>2 DEF Rewrites
  <2> HIDE DEF k
  <2>4. /\ e \in [Block -> Value]
        /\ \A b \in Block \ {root} : e[b] = data[b]
        /\ \A t \in Slot : e[root][t] = IF t = LengthWord THEN l
                                         ELSE IF t \in 1 .. Len(k) THEN k[t]
                                         ELSE data[root][t]
    BY ONLY ArrayFits, <1>4, <1>5, <1>8, <2>3, RootWritten
  <2> QED BY <2>3, <2>4
<1>12. ChangesWord(data, e, root, LengthWord, l)
  BY <1>11 DEF ChangesWord
<1>13. /\ Sound(e, root, live) /\ e[root][Header] = n
       /\ e[root][LengthWord] = l
       /\ SamePlaces(data, e, root, n) /\ SameIndexes(data, e, root, Large)
       /\ \A i \in Nat : PageOf(i) < n => PageItem(e, root, i) = PageItem(data, root, i)
  <2>1. LargeTable(data, root, n, live)
    BY <1>4, <1>6 DEF LargeTable
  <2>2. Sound(e, root, live) /\ e[root][Header] = n /\ e[root][LengthWord] = l
    BY ONLY ArrayFits, <1>4, <1>5, <1>8, <1>11, <1>12, <2>1, NewLength
  <2>3. SamePlaces(data, e, root, n) /\ SameIndexes(data, e, root, Large)
    BY ONLY ArrayFits, <1>4, <1>5, <1>8, <1>11, <1>12, <2>1, NewLength
  <2>4. /\ e \in [Block -> Value] /\ data \in [Block -> Value] /\ live \subseteq Block
        /\ l \in 0 .. MaxItems /\ l <= Room(n)
    BY <1>4, <1>5, <1>8, <1>11
  <2>5. \A i \in Nat : PageOf(i) < n => PageItem(e, root, i) = PageItem(data, root, i)
    BY ONLY ArrayFits, <1>12, <2>1, <2>4, NewLength
  <2> QED BY <2>2, <2>3, <2>5
<1>14. \A c \in Committed, t \in Slot : e[c][t] = data[c][t]
  BY <1>5, <1>11
<1>15. ASSUME NEW i \in 0 .. l - 1
       PROVE  ItemIn(e, root, i) = s[i + 1]
  <2>1. i \in Nat /\ i \in 0 .. m - 1 /\ i < n * items_per_block
    BY <1>7, <1>8
  <2>2. PageOf(i) < n
    BY <1>3, <2>1, PagesHold
  <2>3. PageItem(e, root, i) = s[i + 1]
    BY <1>6, <1>13, <2>1, <2>2
  <2> QED BY <1>6, <1>13, <2>3 DEF ItemIn
<1>16. ASSUME call.push # <<>>
       PROVE  /\ l = m /\ l < MaxItems /\ n = PageOf(l) + 1
              /\ New(PageAt(e, root, n - 1))
              /\ n - 1 >= LEVEL_ONE => New(IndexAt(e, root, n - 1))
  <2>1. n = PageOf(m) + 1 /\ m < MaxItems /\ NewPage(n - 1)
    BY <1>1, <1>6, <1>16 DEF Pushes
  <2>2. m < Room(n)
    <3>1. PageOf(m) \in Nat
      BY <1>7, ItemPlace
    <3>2. PageOf(m) < n
      BY ONLY <2>1, <3>1
    <3> QED BY <1>3, <1>7, <3>2, PagesHold
  <2>3. l = m
    BY <1>7, <2>2
  <2>4. n - 1 \in 0 .. n - 1 /\ (n - 1 >= LEVEL_ONE => n - 1 \in Large)
    BY <1>3, <1>4, <1>6, TableSizes DEF Whole, Large
  <2>5. PageAt(e, root, n - 1) = PageAt(data, root, n - 1)
        /\ (n - 1 >= LEVEL_ONE => IndexAt(e, root, n - 1) = IndexAt(data, root, n - 1))
    BY <1>13, <2>4 DEF SamePlaces, SameIndexes
  <2> QED BY <2>1, <2>3, <2>5, PagesAre DEF NewPage
<1>17. HoldsItems(e)
  BY <1>8, <1>13, <1>15, <1>16 DEF HoldsItems
<1> QED BY <1>1, <1>2, <1>3, <1>4, <1>10, <1>11, <1>13, <1>14, <1>17, ResizeEnds

\* page_resize has returned from freeing the last page: the items set aside
\* go back into the root.
LEMMA ArrayItemsRestored ==
  ASSUME ArrayFits, ArrayInv, PagesResized, call.op = "small"
  PROVE  ArrayStepOK
<1> SUFFICES ASSUME NEW s, s = call.before, NEW m, m = Len(s), NEW k, k = call.kept,
                    NEW l, l = IF m > small_capacity THEN small_capacity ELSE m,
                    NEW e, Rewrites(data, e, root, k, l)
             PROVE  ArrayStepOK
  BY DEF Rewrites
<1>1. /\ Resizing /\ N = call.n /\ root' = root /\ savedRoot' = savedRoot
      /\ UNCHANGED <<io, flist, freelist, objlist, state, loop, live, rc>>
  BY DEF PagesResized
<1>2. InTxn
  BY <1>1 DEF ArrayInv, Rest, Resizing, Idle
<1>3. /\ IInv /\ TableFits /\ TableResize(call.n) /\ Resizes(N) /\ root # 0
      /\ call \in InCall
  BY <1>1, <1>2, ArrayResizeFacts
<1>4. /\ array_length(root) = m /\ m <= MaxItems /\ call.n = 0
      /\ call.push = <<>> /\ Len(k) = small_capacity * ITEM
      /\ \A i \in 0 .. m - 1 :
           i < small_capacity => k[ItemWord(i)] = s[i + 1]
  BY <1>3 DEF Resizes, KeptItems
<1>5. /\ New(root) /\ Whole(data, root, 0, 0, live) /\ root \in live /\ root \in Block
      /\ live \subseteq Block /\ data[root][Header] = 0
  <2>1. Holds(0, 0) /\ New(root) /\ N = 0
    BY <1>1, <1>3, <1>4 DEF TableResize
  <2> QED BY <1>2, <1>3, <2>1, WholeFacts DEF N, Pages
<1>6. /\ data \in [Block -> Value] /\ Committed \subseteq Block
      /\ root \notin Committed
  BY <1>2, <1>3, <1>5, LiveFacts
<1>7. m \in Nat /\ small_capacity \in Nat /\ k \in Seq(Words)
  BY <1>3, ItemSizes DEF InCall
<1>8. l \in Nat /\ l <= m /\ l <= small_capacity /\ l \in 0 .. MaxItems /\ l \in Words
  BY <1>4, <1>7 DEF ArrayFits
<1>9. array_capacity(root) = small_capacity
  BY <1>5 DEF array_capacity, Pages
<1>10. Resized(e)
  BY <1>1, <1>4, <1>9 DEF PagesResized, Rewrites
<1>11. /\ e \in [Block -> Value]
       /\ \A b \in Block \ {root} : e[b] = data[b]
       /\ \A t \in Slot : e[root][t] = IF t = LengthWord THEN l
                                       ELSE IF t \in SmallWords THEN k[t]
                                       ELSE data[root][t]
  <2>1. SmallWords = 1 .. Len(k)
    BY <1>4 DEF SmallWords
  <2>2. 1 .. Len(k) \subseteq SmallWords
    BY <2>1
  <2>3. /\ e \in [Block -> Value]
        /\ \A b \in Block \ {root} : e[b] = data[b]
        /\ \A t \in Slot : e[root][t] = IF t = LengthWord THEN l
                                        ELSE IF t \in 1 .. Len(k) THEN k[t]
                                        ELSE data[root][t]
    BY ONLY ArrayFits, <1>5, <1>6, <1>7, <1>8, <2>2, RootWritten,
            Rewrites(data, e, root, k, l)
  <2> QED BY <2>1, <2>3
<1>12. /\ LengthWord \in Slot /\ Header \in Slot /\ LengthWord # Header
       /\ LengthWord \notin SmallWords /\ Header \notin SmallWords
       /\ LengthWord \in Spare /\ TableFits
  BY ArrayWords
<1>13. e[root][Header] = 0 /\ e[root][LengthWord] = l
  BY <1>5, <1>11, <1>12
<1>14. SmallTable(e, root, live)
  <2>1. live = {root}
    BY <1>5, TableSizes DEF Whole
  <2>2. ASSUME NEW j \in Large, SlotOf(j) \notin SmallWords
        PROVE  IndexAt(e, root, j) = 0
    <3>1. IndexAt(data, root, j) = 0
      BY <1>5, TableSizes DEF Whole
    <3>2. SlotOf(j) \in Slot /\ SlotOf(j) # LengthWord
      BY <1>12, Apart DEF SlotsApart, Spare
    <3> QED BY <1>11, <2>2, <3>1, <3>2 DEF IndexAt
  <2> QED BY <2>1, <2>2 DEF SmallTable
<1>15. Sound(e, root, live)
  <2>1. 0 \in 0 .. MaxPages
    BY TableSizes
  <2> QED BY <1>8, <1>13, <1>14, <2>1 DEF Sound, Room
<1>16. ASSUME NEW i \in 0 .. l - 1
       PROVE  ItemIn(e, root, i) = s[i + 1]
  <2>1. i \in Nat /\ i \in 0 .. m - 1 /\ i < small_capacity
    BY <1>7, <1>8
  <2>2. ItemWord(i) \in SmallWords /\ ItemWord(i) \in Slot
    BY <2>1, SmallPlace, ItemPlace
  <2>3. e[root][ItemWord(i)] = k[ItemWord(i)]
    BY <1>11, <1>12, <2>2
  <2> QED BY <1>4, <1>13, <2>1, <2>3 DEF ItemIn
<1>17. HoldsItems(e)
  BY <1>4, <1>8, <1>13, <1>16 DEF HoldsItems
<1>18. \A c \in Committed, t \in Slot : e[c][t] = data[c][t]
  BY <1>6, <1>11
<1> QED BY <1>1, <1>2, <1>3, <1>5, <1>10, <1>11, <1>15, <1>17, <1>18, ResizeEnds

\* The first page of what was a small array is looked up.
LEMMA ArrayFirstPage ==
  ASSUME ArrayFits, ArrayInv, FirstPage
  PROVE  ArrayStepOK
<1> SUFFICES ASSUME NEW n, n = N
             PROVE  ArrayStepOK
  OBVIOUS
<1>1. /\ Resizing /\ n = call.n /\ call.op = "large" /\ Goes("page")
      /\ UNCHANGED vars /\ root' = root /\ savedRoot' = savedRoot
  BY DEF FirstPage
<1>2. InTxn
  BY <1>1 DEF ArrayInv, Rest, Resizing, Idle
<1>3. /\ IInv /\ TableFits /\ TableResize(n) /\ Resizes(n) /\ root # 0
      /\ call \in InCall /\ n \in Nat
  BY <1>1, <1>2, ArrayResizeFacts
<1>4. data \in [Block -> Value]
  BY <1>2, <1>3, LiveFacts
<1>5. /\ data' = data /\ live' = live /\ blocks' = blocks
      /\ InPlace /\ SameOutside(data, data', {})
  BY <1>1, <1>2, <1>4 DEF vars, disk, state, InPlace, SameOutside
<1>6. /\ StaysOpen
      /\ \A c \in Committed, t \in Slot : data'[c][t] = data[c][t]
  BY <1>3, <1>5, ArrayInPlace
<1>7. MovesOn("page")
  BY <1>1, <1>3, GoesOn DEF CallAt
<1>8. call'.n = call.n /\ call'.at = "page" /\ call'.op = "large"
      /\ call'.push = call.push /\ call'.before = call.before
  BY <1>1, <1>7 DEF MovesOn
<1>9. SamePages(data, root, data', root, n)
  BY <1>5 DEF SamePages
<1>10. N' = n
  BY <1>1, <1>5 DEF N, Pages
<1>11. Pushes'
  BY <1>1, <1>3, <1>5, <1>8, <1>10
    DEF Resizes, Pushes, NewPage, New, HostBlock, IndexBlock
<1>12. /\ call' \in InCall
       /\ array_length(root)' = Len(call'.before) /\ Len(call'.before) <= MaxItems
       /\ Pushes'
       /\ \/ call'.op = "pages" /\ call'.n > 0 /\ PageItems(n)'
          \/ /\ call'.op = "large" /\ call'.n > 0 /\ KeptItems'
             /\ Len(call'.before) <= small_capacity
          \/ call'.op = "small" /\ call'.n = 0 /\ call'.push = <<>> /\ KeptItems'
  BY <1>1, <1>3, <1>7, <1>9, <1>11, ResizesOn
<1>13. Resizes(N)'
  BY <1>10, <1>12 DEF Resizes, PageItems
<1>14. TableResize(call.n)'
  BY <1>1, <1>3, <1>5, <1>8, <1>10
    DEF TableResize, Holds, NewFrom, New, IndexBlock, N, Pages
<1>15. ArrayFills'
  BY <1>1, <1>8, <1>10, <1>13, <1>14 DEF ArrayFills
<1>16. KeptPages(n)
  BY <1>1, <1>6, <1>9 DEF KeptPages
<1> QED BY <1>3, <1>7, <1>15, <1>16, ArrayGoesOn DEF ArrayWork

\* It gets the items that were set aside.
LEMMA ArrayFillsFirstPage ==
  ASSUME ArrayFits, ArrayInv, FillsFirstPage
  PROVE  ArrayStepOK
<1> SUFFICES ASSUME NEW s, s = call.before, NEW l, l = Len(s), NEW k, k = call.kept,
                    NEW n, n = N, NEW b, b = HostBlock(root, 0),
                    NEW e, e = [data EXCEPT ![b] = Overwritten(@, k)]
             PROVE  ArrayStepOK
  OBVIOUS
<1>1. /\ call.at = "page" /\ call.op = "large" /\ blocks[b] \notin {0, FREED}
      /\ Resized(e) /\ root' = root /\ savedRoot' = savedRoot
      /\ UNCHANGED <<io, flist, freelist, objlist, state, loop, live, rc>>
  BY DEF FillsFirstPage
<1>2. InTxn
  BY <1>1 DEF ArrayInv, Rest, Idle
<1>3. IInv /\ TableResize(n) /\ Resizes(n) /\ n = call.n
  BY <1>1, <1>2, ArrayWorkAt DEF ArrayInv, ArrayFills
<1>4. /\ call \in InCall /\ array_length(root) = l /\ l <= MaxItems /\ Pushes
      /\ n > 0 /\ l <= small_capacity /\ Len(k) = small_capacity * ITEM
      /\ \A i \in 0 .. l - 1 : i < small_capacity => k[ItemWord(i)] = s[i + 1]
  BY <1>1, <1>3 DEF Resizes, KeptItems
<1>5. /\ New(root) /\ Whole(data, root, n, n, live) /\ root \in live /\ root \in Block
      /\ live \subseteq Block /\ data[root][Header] = n /\ n \in Nat
      /\ n \in 0 .. MaxPages /\ root # 0
  <2>1. Holds(n, n) /\ New(root)
    BY <1>3 DEF TableResize
  <2> QED BY <1>2, <1>3, <2>1, WholeFacts DEF N, Pages
<1>6. b = PageAt(data, root, 0) /\ b \in live \ {root} /\ b \in Block
  <2>1. 0 \in 0 .. n - 1
    BY <1>4, <1>5
  <2> QED BY <1>5, <2>1, PagesAre DEF Whole
<1>7. /\ data \in [Block -> Value] /\ Committed \subseteq Block /\ b \notin Committed
  <2>1. New(b)
    BY <1>1 DEF New
  <2> QED BY <1>2, <1>3, <1>6, <2>1, LiveFacts
<1>8. l \in Nat /\ k \in Seq(Words) /\ l = data[root][LengthWord]
      /\ small_capacity \in Nat /\ items_per_block \in Nat
      /\ small_capacity <= items_per_block
  BY <1>4, ItemSizes DEF InCall, array_length
<1>9. /\ TableFits /\ LengthWord \in Slot /\ Header \in Slot /\ SmallWords \subseteq Slot
      /\ DOMAIN k = SmallWords /\ \A w \in DOMAIN k : k[w] \in Words
  BY <1>4, <1>8, ArrayWords DEF SmallWords
<1>10. /\ e \in [Block -> Value]
       /\ \A c \in Block \ {b} : e[c] = data[c]
       /\ \A t \in SmallWords : e[b][t] = k[t]
  <2> DEFINE o == Overwritten(data[b], k)
  <2>1. data[b] \in [Slot -> Words] /\ Value = [Slot -> Words]
    BY <1>6, <1>7, ValueIsWords
  <2>2. /\ o \in [Slot -> Words]
        /\ \A t \in Slot : o[t] = IF t \in DOMAIN k THEN k[t] ELSE data[b][t]
    BY <1>9, <2>1, OverwrittenWords
  <2>3. e = [data EXCEPT ![b] = o]
    OBVIOUS
  <2> HIDE DEF o
  <2> QED BY <1>6, <1>7, <1>9, <2>1, <2>2, <2>3
<1>11. Whole(e, root, n, n, live) /\ SamePlaces(data, e, root, n)
       /\ SameIndexes(data, e, root, Large)
  <2>1. \A c \in live, t \in Slot :
          \/ c = root /\ (t = Header \/ t \in Spare)
          \/ \E i \in 0 .. n - 1 : c = PageAt(data, root, i)
          \/ e[c][t] = data[c][t]
    <3>1. 0 \in 0 .. n - 1
      BY <1>4, <1>5
    <3> QED BY <1>5, <1>6, <1>10, <3>1
  <2>2. Whole(data, root, n, n, live) /\ TableFits
    BY <1>5, <1>9
  <2> QED BY ONLY <2>1, <2>2, SameTable
<1>12. e[root][Header] = n /\ e[root][LengthWord] = l
  BY <1>5, <1>6, <1>8, <1>10
<1>13. Sound(e, root, live)
  <2>1. l <= n * items_per_block
    <3>1. \A i \in Nat, j \in Nat : i > 0 => j <= i * j
      OBVIOUS
    <3>2. items_per_block <= n * items_per_block /\ n * items_per_block \in Nat
      BY <1>4, <1>5, <1>8, <3>1
    <3> QED BY <1>4, <1>8, <3>2
  <2>2. l \in 0 .. MaxItems
    BY <1>4, <1>8 DEF ArrayFits
  <2> QED BY <1>4, <1>5, <1>11, <1>12, <2>1, <2>2 DEF Sound, Room
<1>14. ASSUME NEW i \in 0 .. l - 1
       PROVE  ItemIn(e, root, i) = s[i + 1]
  <2>1. i \in Nat /\ i < small_capacity
    BY <1>4, <1>8
  <2>2. PageOf(i) = 0 /\ ItemWord(i) \in SmallWords
    BY <2>1, SmallPlace
  <2>3. PageAt(e, root, 0) = b
    <3>1. 0 \in 0 .. n - 1
      BY <1>4, <1>5
    <3> QED BY <1>6, <1>11, <3>1 DEF SamePlaces
  <2>4. PageItem(e, root, i) = k[ItemWord(i)]
    BY <1>10, <2>2, <2>3 DEF PageItem
  <2> QED BY <1>4, <1>12, <2>1, <2>4 DEF ItemIn
<1>15. ASSUME call.push # <<>>
       PROVE  /\ l < MaxItems /\ n = PageOf(l) + 1
              /\ New(PageAt(e, root, n - 1))
              /\ n - 1 >= LEVEL_ONE => New(IndexAt(e, root, n - 1))
  <2>1. n = PageOf(l) + 1 /\ l < MaxItems /\ NewPage(n - 1)
    BY <1>3, <1>4, <1>15 DEF Pushes
  <2>2. n - 1 \in 0 .. n - 1 /\ (n - 1 >= LEVEL_ONE => n - 1 \in Large)
    BY <1>4, <1>5, TableSizes DEF Large
  <2>3. PageAt(e, root, n - 1) = PageAt(data, root, n - 1)
        /\ (n - 1 >= LEVEL_ONE => IndexAt(e, root, n - 1) = IndexAt(data, root, n - 1))
    BY <1>11, <2>2 DEF SamePlaces, SameIndexes
  <2> QED BY <2>1, <2>3, PagesAre DEF NewPage
<1>16. HoldsItems(e)
  <2>1. e[root][LengthWord] = Len(call.before) /\ e[root][Header] = n
        /\ e[root][LengthWord] <= Len(call.before)
    BY <1>8, <1>12
  <2>2. \A i \in 0 .. e[root][LengthWord] - 1 :
          ItemIn(e, root, i) = (call.before)[i + 1]
    BY <1>12, <1>14
  <2>3. call.push # <<>> =>
          /\ e[root][LengthWord] = Len(call.before)
          /\ e[root][LengthWord] < MaxItems
          /\ e[root][Header] = PageOf(e[root][LengthWord]) + 1
          /\ New(PageAt(e, root, e[root][Header] - 1))
          /\ e[root][Header] - 1 >= LEVEL_ONE =>
               New(IndexAt(e, root, e[root][Header] - 1))
    BY <1>12, <1>15
  <2> QED BY ONLY <2>1, <2>2, <2>3 DEF HoldsItems
<1>17. \A c \in Committed, t \in Slot : e[c][t] = data[c][t]
  <2>1. \A c \in Committed : c \in Block \ {b}
    BY <1>7
  <2> QED BY <1>10, <2>1
<1> QED BY <1>1, <1>2, <1>4, <1>5, <1>10, <1>13, <1>16, <1>17, ResizeEnds

-----------------------------------------------------------------------------
(***************************************************************************)
(* The calls begin.                                                        *)
(***************************************************************************)

\* What an array is between two calls.
LEMMA ArrayIdleFacts ==
  ASSUME ArrayFits, ArrayInv, InTxn, Between, root # 0
  PROVE  /\ IInv /\ Sound(data, root, live)
         /\ root \in live /\ root \in Block
         /\ data \in [Block -> Value] /\ live \subseteq Block
         /\ Committed \subseteq Block
         /\ N = data[root][Header] /\ N \in Nat /\ N \in 0 .. MaxPages
         /\ array_length(root) = data[root][LengthWord]
         /\ array_length(root) \in Nat /\ array_length(root) \in 0 .. MaxItems
         /\ array_length(root) <= Room(N) /\ Room(N) \in Nat
         /\ array_capacity(root) = Room(N)
         /\ Items(root) = ItemsIn(data, root)
         /\ WorkingItems = ItemsIn(data, root)
         /\ ItemsIn(data, root) \in Seq(Words)
         /\ Len(ItemsIn(data, root)) = array_length(root)
         /\ \A i \in 1 .. array_length(root) :
              ItemsIn(data, root)[i] = ItemIn(data, root, i - 1)
<1>1. IInv /\ Sound(data, root, live)
  BY ArrayWorkAt DEF ArrayInv, ArrayIdle
<1>2. /\ data \in [Block -> Value] /\ live \subseteq Block
      /\ Committed \subseteq Block /\ txn = TRUE /\ pc = "ready"
      /\ Mapped /\ ~Aborting
  BY <1>1, LiveFacts
<1>3. N = data[root][Header] /\ array_length(root) = data[root][LengthWord]
  BY DEF N, Pages, array_length
<1>4. /\ root \in live /\ root \in Block
      /\ N \in Nat /\ N \in 0 .. MaxPages
      /\ array_length(root) \in Nat /\ array_length(root) \in 0 .. MaxItems
      /\ array_length(root) <= Room(N)
  BY <1>1, <1>2, <1>3, SoundFacts
<1>5. Room(N) \in Nat
  BY <1>4, ItemSizes DEF Room
<1>6. array_capacity(root) = Room(N)
  BY DEF array_capacity, Room, N
<1>7. TablePhase # "failed"
  BY <1>2 DEF TablePhase
<1>8. /\ Items(root) = ItemsIn(data, root)
      /\ WorkingItems = ItemsIn(data, root)
  BY <1>7, ItemsAre, WorkingItemsAre DEF Between
<1>9. /\ ItemsIn(data, root) \in Seq(Words)
      /\ Len(ItemsIn(data, root)) = array_length(root)
      /\ \A i \in 1 .. array_length(root) :
           ItemsIn(data, root)[i] = ItemIn(data, root, i - 1)
  BY <1>1, <1>2, <1>3, ItemsAreSeq
<1> QED BY <1>1, <1>2, <1>3, <1>4, <1>5, <1>6, <1>8, <1>9

\* And of one whose root is writable.
LEMMA ArrayCallFacts ==
  ASSUME ArrayFits, ArrayInv, ArrayCall
  PROVE  /\ InTxn /\ Between /\ call = Idle /\ root # 0
         /\ New(root) /\ root \notin Committed
<1>1. InTxn /\ Between /\ root # 0 /\ New(root)
  BY DEF ArrayCall, New
<1>2. IInv /\ root \in live
  BY <1>1, ArrayIdleFacts
<1> QED BY <1>1, <1>2, LiveFacts DEF Between

\* A call that stores nothing in the committed state.
LEMMA CallBegins ==
  ASSUME ArrayFits, ArrayInv, InTxn, Between, root # 0,
         NEW e \in [Block -> Value], data' = e,
         NEW B, SameOutside(data, e, B), B \cap Committed = {},
         UNCHANGED <<io, flist, freelist, objlist, state, loop, live, rc>>
  PROVE  /\ StaysOpen /\ live' = live /\ blocks' = blocks
         /\ \A c \in Committed, t \in Slot : data'[c][t] = data[c][t]
<1>1. IInv
  BY ArrayIdleFacts
<1>2. InPlace
  BY DEF InPlace
<1>3. SameOutside(data, data', B)
  OBVIOUS
<1> QED BY <1>1, <1>2, <1>3, ArrayInPlace

\* The page that a careful caller's call looks up is of this transaction.
LEMMA CarefulLookup ==
  ASSUME ArrayFits, ArrayInv, InTxn, Between, root # 0, CarefulArray, N # 0,
         call'.at = "lookup", NEW p, call'.page = p, p \in 0 .. N - 1
  PROVE  /\ New(PageAt(data, root, p))
         /\ p >= LEVEL_ONE => New(IndexAt(data, root, p))
<1>1. /\ IInv /\ Sound(data, root, live) /\ N = data[root][Header]
      /\ N \in Nat /\ N \in 0 .. MaxPages
  BY ArrayIdleFacts
<1>2. Whole(data, root, N, N, live)
  BY <1>1 DEF Sound
<1>3. /\ PageAt(data, root, p) \in live
      /\ p >= LEVEL_ONE => IndexAt(data, root, p) \in live
  BY <1>1, <1>2, TableSizes DEF Whole
<1>4. /\ ~Old(PageAt(data, root, p))
      /\ p >= LEVEL_ONE => ~Old(IndexAt(data, root, p))
  BY PagesAre DEF CarefulArray, LooksUpNewPages
<1> QED BY <1>1, <1>3, <1>4, LiveFacts DEF Old

\* A call begins by looking up the page of an item.
LEMMA LookupBegins ==
  ASSUME ArrayFits, ArrayInv, InTxn, Between, root # 0, CarefulArray, N # 0,
         data' = data, live' = live, blocks' = blocks, root' = root,
         call' \in InCall, call'.at = "lookup",
         NEW p, call'.page = p, p \in 0 .. N - 1,
         call'.op = "get" \/ New(root)
  PROVE  LooksUp'
<1>1. Sound(data, root, live) /\ N = data[root][Header]
  BY ArrayIdleFacts
<1>2. /\ New(PageAt(data, root, p))
      /\ p >= LEVEL_ONE => New(IndexAt(data, root, p))
  BY CarefulLookup
<1>3. /\ \A b : New(b) => IsNew(b)
      /\ call'.at \in {"lookup", "page"}
  BY DEF New, IsNew
<1>4. /\ p \in 0 .. data'[root'][Header] - 1 /\ root' # 0
      /\ Sound(data', root', live') /\ data'[root'][Header] # 0
      /\ call'.op = "get" \/ IsNew(root')
      /\ IsNew(PageAt(data', root', p))
      /\ p >= LEVEL_ONE => IsNew(IndexAt(data', root', p))
  BY <1>1, <1>2, <1>3
<1> QED BY <1>3, <1>4, LooksUpNext

\* The page of an item of a large array.
LEMMA ItemsPage ==
  ASSUME ArrayFits, ArrayInv, InTxn, Between, root # 0, N # 0,
         NEW i \in Nat, i < array_length(root)
  PROVE  PageOf(i) \in 0 .. N - 1
<1>1. /\ N \in Nat /\ array_length(root) \in Nat
      /\ array_length(root) <= Room(N) /\ Room(N) \in Nat
  BY ArrayIdleFacts
<1>2. Room(N) = N * items_per_block
  BY DEF Room
<1>3. i < N * items_per_block
  BY <1>1, <1>2
<1>4. PageOf(i) < N /\ PageOf(i) \in Nat
  BY <1>1, <1>3, PagesHold, ItemPlace
<1> QED BY <1>1, <1>4

\* array_get reads a large array, in a transaction.
LEMMA ArrayGetStep ==
  ASSUME ArrayFits, ArrayInv, CarefulArray, NEW i \in 0 .. MaxItems - 1,
         array_get(i)
  PROVE  ArrayStepOK
<1> SUFFICES ASSUME NEW s, s = ItemsIn(data, root)
             PROVE  ArrayStepOK
  OBVIOUS
<1>1. /\ Between /\ Ready /\ Mapped /\ root # 0 /\ i < array_length(root) /\ N # 0
      /\ call' = IF txn THEN Lookup("get", i, 0) ELSE Dead
      /\ UNCHANGED vars /\ root' = root /\ savedRoot' = savedRoot
  BY DEF array_get
<1>2. txn
  BY <1>1 DEF CarefulArray, ReadsInTransaction
<1>3. InTxn /\ call' = Lookup("get", i, 0)
  BY <1>1, <1>2 DEF InTxn
<1>4. /\ IInv /\ s \in Seq(Words) /\ WorkingItems = s
      /\ s = IF Between THEN Items(root) ELSE call.before
      /\ data \in [Block -> Value]
  BY <1>1, <1>3, ArrayIdleFacts
<1>5. i \in Nat /\ 0 \in Words /\ "get" \in CallOp
  BY ValueIsWords DEF Words, CallOp, ArrayFits
<1>6. /\ call' \in InCall /\ call'.at = "lookup" /\ call'.op = "get"
      /\ call'.page = PageOf(i) /\ call'.before = s
  BY <1>3, <1>4, <1>5, LookupIs
<1>7. PageOf(i) \in 0 .. N - 1
  BY <1>1, <1>3, <1>5, ItemsPage
<1>8. /\ data' = data /\ live' = live /\ blocks' = blocks
      /\ UNCHANGED <<io, flist, freelist, objlist, state, loop, live, rc>>
  BY <1>1 DEF vars, disk, state
<1>9. LooksUp'
  BY <1>1, <1>3, <1>6, <1>7, <1>8, LookupBegins
<1>10. ArrayReads'
  BY <1>1, <1>6, <1>8, <1>9 DEF ArrayReads
<1>11. SameOutside(data, data, {}) /\ {} \cap Committed = {}
  BY DEF SameOutside
<1>12. /\ StaysOpen
       /\ \A c \in Committed, t \in Slot : data'[c][t] = data[c][t]
  BY <1>1, <1>3, <1>4, <1>8, <1>11, CallBegins
<1>13. ArrayWork'
  BY <1>10 DEF ArrayWork
<1> QED BY <1>1, <1>4, <1>6, <1>12, <1>13, ArrayIsBusy

\* A word of a small array, an item's or the length, is stored.
LEMMA SmallStored ==
  ASSUME ArrayFits, ArrayInv, ArrayCall, N = 0,
         NEW e \in [Block -> Value], SameOutside(data, e, {root}),
         e[root][Header] = 0,
         NEW l, l = e[root][LengthWord], l \in 0 .. MaxItems, l <= small_capacity,
         \A t \in Slot : t \in SmallWords \/ t = LengthWord
                         \/ e[root][t] = data[root][t],
         ListChanges(ItemsIn(data, root), ItemsIn(e, root)),
         data' = e, call' = call, root' = root, savedRoot' = savedRoot,
         UNCHANGED <<io, flist, freelist, objlist, state, loop, live, rc>>
  PROVE  ArrayStepOK
<1>1. InTxn /\ Between /\ call = Idle /\ root # 0 /\ root \notin Committed
  BY ArrayCallFacts
<1>2. /\ IInv /\ Sound(data, root, live) /\ data \in [Block -> Value]
      /\ live \subseteq Block /\ WorkingItems = ItemsIn(data, root)
      /\ data[root][Header] = 0
  BY <1>1, ArrayIdleFacts
<1>3. Sound(e, root, live)
  <2>1. l <= Room(0)
    BY DEF Room
  <2> QED BY <1>2, <2>1, SoundStored
<1>4. {root} \cap Committed = {}
  BY <1>1
<1>5. /\ StaysOpen /\ live' = live
      /\ \A c \in Committed, t \in Slot : data'[c][t] = data[c][t]
  BY <1>1, <1>4, CallBegins
<1>6. Sound(data', root, live') /\ ListChanges(WorkingItems, ItemsIn(data', root))
  BY <1>2, <1>3, <1>5
<1> QED BY <1>1, <1>5, <1>6, ArrayIsIdle

\* array_set, of a small array.
LEMMA SmallSet ==
  ASSUME ArrayFits, ArrayInv, NEW i \in Nat, NEW v \in Payload, array_set(i, v),
         N = 0
  PROVE  ArrayStepOK
<1> SUFFICES ASSUME NEW l, l = array_length(root), NEW s, s = ItemsIn(data, root)
             PROVE  ArrayStepOK
  OBVIOUS
<1>1. /\ ArrayCall /\ i < l
      /\ data' = [data EXCEPT ![root][ItemWord(i)] = v] /\ call' = call
      /\ root' = root /\ savedRoot' = savedRoot
      /\ UNCHANGED <<io, flist, freelist, objlist, state, loop, live, rc>>
  BY DEF array_set
<1>2. InTxn /\ Between /\ root # 0
  BY <1>1, ArrayCallFacts
<1>3. /\ root \in Block /\ data \in [Block -> Value]
      /\ data[root][Header] = 0 /\ l = data[root][LengthWord]
      /\ l \in Nat /\ l \in 0 .. MaxItems /\ l <= Room(0)
      /\ s \in Seq(Words) /\ Len(s) = l
      /\ \A j \in 1 .. l : s[j] = ItemIn(data, root, j - 1)
  BY <1>2, ArrayIdleFacts
<1>4. l <= small_capacity /\ small_capacity \in Nat
  BY <1>3, ItemSizes DEF Room
<1>5. \A j \in 0 .. l - 1 :
        j \in Nat /\ PageOf(j) = 0 /\ ItemWord(j) \in SmallWords
  BY <1>3, <1>4, SmallPlace
<1>6. /\ i \in 0 .. l - 1 /\ ItemWord(i) \in SmallWords /\ ItemWord(i) \in Slot
      /\ LengthWord \in Slot /\ Header \in Slot
      /\ Header # ItemWord(i) /\ LengthWord # ItemWord(i)
  BY <1>1, <1>3, <1>5, ArrayWords
<1>7. v \in Words /\ Stores(data, data', root, ItemWord(i), v)
  BY <1>1 DEF Words, Stores
<1>8. /\ data' \in [Block -> Value]
      /\ ChangesWord(data, data', root, ItemWord(i), v)
      /\ SameOutside(data, data', {root})
  BY <1>3, <1>6, <1>7, StoresOne
<1>9. /\ \A t \in Slot : data'[root][t] = IF t = ItemWord(i) THEN v
                                          ELSE data[root][t]
      /\ data'[root][Header] = 0 /\ data'[root][LengthWord] = l
  BY <1>3, <1>6, <1>8 DEF ChangesWord
<1>10. \A j \in 0 .. l - 1 :
         ItemIn(data', root, j) = IF j = i THEN v ELSE ItemIn(data, root, j)
  <2>1. \A j \in 0 .. l - 1 : ItemWord(j) \in Slot
    BY <1>5, ArrayWords
  <2>2. \A j \in 0 .. l - 1 : j # i => ItemWord(j) # ItemWord(i)
    BY <1>5, <1>6, ItemsApart
  <2> QED BY <1>3, <1>9, <2>1, <2>2 DEF ItemIn
<1>11. ListChanges(s, ItemsIn(data', root))
  <2>1. Sound(data, root, live) /\ live \subseteq Block
    BY <1>2, ArrayIdleFacts
  <2>2. Sound(data', root, live)
    <3>1. \A t \in Slot : t \in SmallWords \/ t = LengthWord
                          \/ data'[root][t] = data[root][t]
      BY <1>6, <1>9
    <3> QED BY <1>3, <1>8, <1>9, <2>1, <3>1, SoundStored
  <2>3. /\ ItemsIn(data', root) \in Seq(Words)
        /\ Len(ItemsIn(data', root)) = l
        /\ \A j \in 1 .. l : ItemsIn(data', root)[j] = ItemIn(data', root, j - 1)
    BY <1>8, <1>9, <2>1, <2>2, ItemsAreSeq
  <2> DEFINE h == i + 1
  <2>4. h \in 1 .. Len(s)
    BY <1>3, <1>6
  <2>5. \A j \in 1 .. Len(s) :
          ItemsIn(data', root)[j] = IF j = h THEN v ELSE s[j]
    <3> SUFFICES ASSUME NEW j \in 1 .. Len(s)
                 PROVE  ItemsIn(data', root)[j] = IF j = h THEN v ELSE s[j]
      OBVIOUS
    <3>1. j \in 1 .. l /\ j - 1 \in 0 .. l - 1 /\ (j - 1 = i <=> j = h)
      BY <1>3
    <3>2. /\ ItemsIn(data', root)[j] = ItemIn(data', root, j - 1)
          /\ ItemIn(data', root, j - 1) = IF j - 1 = i THEN v
                                          ELSE ItemIn(data, root, j - 1)
      BY <1>10, <2>3, <3>1
    <3>3. s[j] = ItemIn(data, root, j - 1)
      BY <1>3, <3>1
    <3> QED BY <3>1, <3>2, <3>3
  <2> DEFINE u == ItemsIn(data', root)
  <2>6. /\ u \in Seq(Words) /\ Len(u) = Len(s)
        /\ \A j \in 1 .. Len(s) : u[j] = IF j = h THEN v ELSE s[j]
    BY <1>3, <2>3, <2>5
  <2>7. s \in Seq(Words) /\ v \in Payload
    BY <1>3
  <2> HIDE DEF h, u
  <2>8. ListChanges(s, u)
    BY ONLY <2>4, <2>6, <2>7, ItemStored
  <2> QED BY <2>8 DEF u
<1>12. \A t \in Slot : t \in SmallWords \/ t = LengthWord
                       \/ data'[root][t] = data[root][t]
  BY <1>6, <1>9
<1> QED BY <1>1, <1>3, <1>4, <1>8, <1>9, <1>11, <1>12, SmallStored

\* Or of a large one, whose page is looked up.
LEMMA LargeSet ==
  ASSUME ArrayFits, ArrayInv, CarefulArray, NEW i \in Nat, NEW v \in Payload,
         array_set(i, v), N # 0
  PROVE  ArrayStepOK
<1> SUFFICES ASSUME NEW l, l = array_length(root), NEW s, s = ItemsIn(data, root)
             PROVE  ArrayStepOK
  OBVIOUS
<1>1. /\ ArrayCall /\ i < l /\ data' = data /\ call' = Lookup("set", i, v)
      /\ root' = root /\ savedRoot' = savedRoot
      /\ UNCHANGED <<io, flist, freelist, objlist, state, loop, live, rc>>
  BY DEF array_set
<1>2. InTxn /\ Between /\ root # 0 /\ New(root)
  BY <1>1, ArrayCallFacts
<1>3. /\ data \in [Block -> Value] /\ N = data[root][Header]
      /\ l = data[root][LengthWord] /\ l \in Nat
      /\ s \in Seq(Words) /\ WorkingItems = s /\ Len(s) = l
      /\ s = IF Between THEN Items(root) ELSE call.before
      /\ \A j \in 1 .. l : s[j] = ItemIn(data, root, j - 1)
  BY <1>2, ArrayIdleFacts
<1>4. v \in Words /\ "set" \in CallOp
  BY DEF Words, CallOp
<1>5. /\ call' \in InCall /\ call'.at = "lookup" /\ call'.op = "set"
      /\ call'.page = PageOf(i) /\ call'.item = i /\ call'.v = v
      /\ call'.before = s
  BY <1>1, <1>3, <1>4, LookupIs
<1>6. PageOf(i) \in 0 .. N - 1
  BY <1>1, <1>2, ItemsPage
<1>7. live' = live /\ blocks' = blocks
  BY <1>1 DEF state
<1>8. LooksUp'
  BY <1>1, <1>2, <1>5, <1>6, <1>7, LookupBegins
<1>9. \A j \in 0 .. l - 1 : PageItem(data', root, j) = s[j + 1]
  <2>1. \A j \in 0 .. l - 1 : j + 1 \in 1 .. l /\ (j + 1) - 1 = j
    BY <1>3
  <2> QED BY <1>1, <1>3, <2>1 DEF ItemIn
<1>10. array_length(root)' = l /\ i \in 0 .. l - 1
  BY <1>1, <1>3 DEF array_length
<1>11. ArrayStores'
  BY <1>1, <1>3, <1>5, <1>8, <1>9, <1>10 DEF ArrayStores
<1>12. SameOutside(data, data, {}) /\ {} \cap Committed = {}
  BY DEF SameOutside
<1>13. /\ StaysOpen
       /\ \A c \in Committed, t \in Slot : data'[c][t] = data[c][t]
  BY <1>1, <1>2, <1>3, <1>12, CallBegins
<1>14. ArrayWork'
  BY <1>11 DEF ArrayWork
<1> QED BY <1>1, <1>2, <1>3, <1>5, <1>13, <1>14, ArrayIsBusy

\* array_pop, of a small array.
LEMMA SmallPop ==
  ASSUME ArrayFits, ArrayInv, array_pop, N = 0
  PROVE  ArrayStepOK
<1> SUFFICES ASSUME NEW l, l = array_length(root), NEW s, s = ItemsIn(data, root),
                    NEW h, h = l - 1
             PROVE  ArrayStepOK
  OBVIOUS
<1>1. /\ ArrayCall /\ l > 0
      /\ data' = [data EXCEPT ![root][LengthWord] = h] /\ call' = call
      /\ root' = root /\ savedRoot' = savedRoot
      /\ UNCHANGED <<io, flist, freelist, objlist, state, loop, live, rc>>
  BY DEF array_pop
<1>2. InTxn /\ Between /\ root # 0
  BY <1>1, ArrayCallFacts
<1>3. /\ root \in Block /\ data \in [Block -> Value]
      /\ data[root][Header] = 0 /\ l = data[root][LengthWord]
      /\ l \in Nat /\ l \in 0 .. MaxItems /\ l <= Room(0)
      /\ s \in Seq(Words) /\ Len(s) = l
      /\ Sound(data, root, live) /\ live \subseteq Block
      /\ \A j \in 1 .. l : s[j] = ItemIn(data, root, j - 1)
  BY <1>2, ArrayIdleFacts
<1>4. l <= small_capacity /\ small_capacity \in Nat
  BY <1>3, ItemSizes DEF Room
<1>5. h \in Nat /\ h \in 0 .. MaxItems /\ h <= small_capacity /\ h <= l
  BY <1>1, <1>3, <1>4 DEF ArrayFits
<1>6. h \in Words /\ LengthWord \in Slot /\ Header \in Slot
      /\ LengthWord # Header /\ LengthWord \notin SmallWords
  BY <1>5, ArrayWords DEF ArrayFits
<1>7. Stores(data, data', root, LengthWord, h)
  BY <1>1 DEF Stores
<1>8. /\ data' \in [Block -> Value]
      /\ ChangesWord(data, data', root, LengthWord, h)
      /\ SameOutside(data, data', {root})
  BY <1>3, <1>6, <1>7, StoresOne
<1>9. /\ \A t \in Slot : data'[root][t] = IF t = LengthWord THEN h
                                          ELSE data[root][t]
      /\ data'[root][Header] = 0 /\ data'[root][LengthWord] = h
  BY <1>3, <1>6, <1>8 DEF ChangesWord
<1>10. \A j \in 0 .. h - 1 : ItemIn(data', root, j) = ItemIn(data, root, j)
  <2>1. \A j \in 0 .. h - 1 : j \in Nat /\ j < small_capacity
    BY <1>4, <1>5
  <2>2. \A j \in 0 .. h - 1 : ItemWord(j) \in SmallWords /\ ItemWord(j) \in Slot
    BY <2>1, SmallPlace, ArrayWords
  <2> QED BY <1>3, <1>6, <1>9, <2>2 DEF ItemIn
<1>11. \A t \in Slot : t \in SmallWords \/ t = LengthWord
                       \/ data'[root][t] = data[root][t]
  BY <1>9
<1>12. ListChanges(s, ItemsIn(data', root))
  <2>1. Sound(data', root, live)
    <3>1. h <= Room(0)
      BY <1>5 DEF Room
    <3> QED BY <1>3, <1>5, <1>8, <1>9, <1>11, <3>1, SoundStored
  <2>2. /\ ItemsIn(data', root) \in Seq(Words)
        /\ Len(ItemsIn(data', root)) = h
        /\ \A j \in 1 .. h : ItemsIn(data', root)[j] = ItemIn(data', root, j - 1)
    BY <1>3, <1>8, <1>9, <2>1, ItemsAreSeq
  <2>3. \A j \in 1 .. h : j \in 1 .. l /\ j - 1 \in 0 .. h - 1
    BY <1>3, <1>5
  <2> DEFINE u == ItemsIn(data', root)
  <2>4. u \in Seq(Words) /\ Len(u) <= Len(s) /\ \A j \in 1 .. Len(u) : u[j] = s[j]
    BY <1>3, <1>5, <1>10, <2>2, <2>3
  <2> HIDE DEF u
  <2>5. ListChanges(s, u)
    BY <1>3, <2>4, ItemsCut
  <2> QED BY <2>5 DEF u
<1> QED BY <1>1, <1>3, <1>5, <1>8, <1>9, <1>11, <1>12, SmallStored

\* Or of a large one.
LEMMA LargePop ==
  ASSUME ArrayFits, ArrayInv, CarefulArray, array_pop, N # 0
  PROVE  ArrayStepOK
<1> SUFFICES ASSUME NEW l, l = array_length(root), NEW s, s = ItemsIn(data, root),
                    NEW i, i = l - 1
             PROVE  ArrayStepOK
  OBVIOUS
<1>1. /\ ArrayCall /\ l > 0 /\ data' = data /\ call' = Lookup("pop", i, 0)
      /\ root' = root /\ savedRoot' = savedRoot
      /\ UNCHANGED <<io, flist, freelist, objlist, state, loop, live, rc>>
  BY DEF array_pop
<1>2. InTxn /\ Between /\ root # 0 /\ New(root)
  BY <1>1, ArrayCallFacts
<1>3. /\ data \in [Block -> Value] /\ l \in Nat
      /\ s \in Seq(Words) /\ WorkingItems = s
      /\ s = IF Between THEN Items(root) ELSE call.before
  BY <1>2, ArrayIdleFacts
<1>4. 0 \in Words /\ "pop" \in CallOp /\ i \in Nat /\ i < l
  BY <1>1, <1>3, ValueIsWords DEF Words, CallOp
<1>5. /\ call' \in InCall /\ call'.at = "lookup" /\ call'.op = "pop"
      /\ call'.page = PageOf(i) /\ call'.before = s
  BY <1>1, <1>3, <1>4, LookupIs
<1>6. PageOf(i) \in 0 .. N - 1
  BY <1>2, <1>4, ItemsPage
<1>7. live' = live /\ blocks' = blocks
  BY <1>1 DEF state
<1>8. LooksUp'
  BY <1>1, <1>2, <1>5, <1>6, <1>7, LookupBegins
<1>9. array_length(root)' = l
  BY <1>1 DEF array_length
<1>10. ArrayReads'
  BY <1>1, <1>5, <1>8, <1>9 DEF ArrayReads
<1>11. SameOutside(data, data, {}) /\ {} \cap Committed = {}
  BY DEF SameOutside
<1>12. /\ StaysOpen
       /\ \A c \in Committed, t \in Slot : data'[c][t] = data[c][t]
  BY <1>1, <1>2, <1>3, <1>11, CallBegins
<1>13. ArrayWork'
  BY <1>10 DEF ArrayWork
<1> QED BY <1>1, <1>2, <1>3, <1>5, <1>12, <1>13, ArrayIsBusy

\* How many pages array_resize asks for.
LEMMA PagesAsked ==
  ASSUME ArrayFits, NEW c \in 1 .. MaxItems, NEW n,
         n = (c + items_per_block - 1) \div items_per_block
  PROVE  n = PageOf(c - 1) + 1 /\ n \in 1 .. MaxPages
<1> DEFINE p == items_per_block
<1> SUFFICES ASSUME NEW x, x = c - 1
             PROVE  n = PageOf(x) + 1 /\ n \in 1 .. MaxPages
  OBVIOUS
<1>1. /\ MaxItems \in Nat /\ x \in Nat /\ x < MaxItems
      /\ MaxPages \in Nat /\ MaxItems <= MaxPages * p
  BY TableSizes DEF ArrayFits
<1>2. p \in Nat /\ p > 0
  BY ItemSizes
<1> DEFINE q == PageOf(x)
           m == x % p
           y == (x + p) \div p
           r == (x + p) % p
<1>3. q \in Nat /\ m \in 0 .. p - 1 /\ x = p * q + m
  BY <1>1, ItemPlace
<1>4. x + p \in Nat
  BY <1>1, <1>2
<1>5. y \in Nat /\ r \in 0 .. p - 1 /\ x + p = p * y + r
  BY <1>2, <1>4, Divides
<1>6. n = y
  <2>1. c + p - 1 = x + p
    BY <1>1, <1>2
  <2> QED BY <2>1
<1>7. x < MaxPages * p
  <2>1. MaxPages * p \in Nat
    BY <1>1, <1>2
  <2> QED BY <1>1, <2>1
<1>8. q < MaxPages
  BY <1>1, <1>7, PagesHold
<1> HIDE DEF p, q, m, y, r
<1>9. p * (q + 1) + m = p * y + r
  <2>1. p * (q + 1) = p * q + p
    BY <1>2, <1>3
  <2>2. p * q \in Int /\ p * y \in Int
    BY <1>2, <1>3, <1>5
  <2> QED BY <1>2, <1>3, <1>5, <2>1, <2>2
<1>10. q + 1 = y
  <2>1. q + 1 \in Int /\ y \in Int
    BY <1>3, <1>5
  <2> DEFINE z == q + 1
  <2> HIDE DEF z
  <2>2. z \in Int /\ p * z + m = p * y + r
    BY <1>9, <2>1 DEF z
  <2>3. z = y
    BY <1>2, <1>3, <1>5, <2>1, <2>2, Quotient
  <2> QED BY <2>3 DEF z
<1>11. n = q + 1 /\ n \in 1 .. MaxPages
  BY <1>1, <1>3, <1>6, <1>8, <1>10
<1> QED BY <1>11 DEF q

\* array_resize has begun, in page_resize.
LEMMA ResizeBegins ==
  ASSUME ArrayFits, ArrayInv, ArrayCall,
         NEW e \in [Block -> Value], data' = e, SameOutside(data, e, {root}),
         UNCHANGED <<io, flist, freelist, objlist, state, loop, live, rc>>,
         root' = root, savedRoot' = savedRoot,
         call' \in InCall, call'.before = ItemsIn(data, root),
         live' = live => ArrayWork'
  PROVE  ArrayStepOK
<1>1. InTxn /\ Between /\ call = Idle /\ root # 0 /\ root \notin Committed
  BY ArrayCallFacts
<1>2. WorkingItems = ItemsIn(data, root)
  BY <1>1, ArrayIdleFacts
<1>3. {root} \cap Committed = {}
  BY <1>1
<1>4. /\ StaysOpen /\ live' = live
      /\ \A c \in Committed, t \in Slot : data'[c][t] = data[c][t]
  BY <1>1, <1>3, CallBegins
<1> QED BY <1>1, <1>2, <1>4, ArrayIsBusy

\* A large array gets n pages.
LEMMA PagesBegin ==
  ASSUME ArrayFits, ArrayInv, ArrayCall, CarefulArray, N # 0,
         NEW n \in 1 .. MaxPages, NEW push \in PushSet,
         call' = Resize("pages", n, push, <<>>),
         push # <<>> => /\ array_length(root) = Room(N)
                        /\ array_length(root) < MaxItems
                        /\ n = PageOf(array_length(root)) + 1,
         data' = data, root' = root, savedRoot' = savedRoot,
         UNCHANGED <<io, flist, freelist, objlist, state, loop, live, rc>>
  PROVE  ArrayStepOK
<1> SUFFICES ASSUME NEW l, l = array_length(root), NEW s, s = ItemsIn(data, root),
                    NEW k, k = N
             PROVE  ArrayStepOK
  OBVIOUS
<1>1. InTxn /\ Between /\ root # 0 /\ New(root)
  BY ArrayCallFacts
<1>2. /\ IInv /\ Sound(data, root, live) /\ data \in [Block -> Value]
      /\ k = data[root][Header] /\ k \in Nat /\ k \in 0 .. MaxPages
      /\ l \in Nat /\ l \in 0 .. MaxItems
      /\ s \in Seq(Words) /\ Len(s) = l
      /\ s = IF Between THEN Items(root) ELSE call.before
      /\ \A j \in 1 .. l : s[j] = ItemIn(data, root, j - 1)
  BY <1>1, ArrayIdleFacts
<1>3. /\ n \in 0 .. MaxPages /\ n > 0 /\ n \in Nat /\ "pages" \in CallOp
      /\ <<>> \in Seq(Words) /\ MaxPages \in Nat /\ MaxItems \in Nat
  BY TableSizes DEF CallOp, ArrayFits
<1>4. /\ call' \in InCall /\ call'.at = "resize" /\ call'.op = "pages"
      /\ call'.n = n /\ call'.push = push /\ call'.kept = <<>>
      /\ call'.before = s
  <2> DEFINE op == "pages"
             kept == <<>>
             c == call'
  <2>1. /\ op \in CallOp /\ n \in 0 .. MaxPages /\ push \in PushSet
        /\ kept \in Seq(Words) /\ s \in Seq(Words)
        /\ s = IF Between THEN Items(root) ELSE call.before
        /\ c = Resize(op, n, push, kept)
    BY <1>2, <1>3
  <2> HIDE DEF op, kept, c
  <2>2. /\ c \in InCall /\ c.at = "resize" /\ c.op = op /\ c.n = n
        /\ c.push = push /\ c.kept = kept /\ c.before = s
    BY ONLY <2>1, ResizeIs
  <2> QED BY <2>2 DEF op, kept, c
<1>5. /\ blocks' = blocks /\ live' = live
  BY DEF state
<1>6. Whole(data, root, k, k, live)
  BY <1>2 DEF Sound
<1>7. N' = k
  BY DEF N, Pages
<1>8. \A i \in Large : i \in n .. k - 1 => New(IndexBlock(root, i))
  <2> SUFFICES ASSUME NEW i \in Large, i \in n .. k - 1
               PROVE  New(IndexBlock(root, i))
    OBVIOUS
  <2>1. i \in LEVEL_ONE .. k - 1 /\ i >= n
    BY <1>2, <1>3, TableSizes DEF Large
  <2>2. ~Old(IndexBlock(root, i))
    BY <1>1, <1>4, <2>1 DEF CarefulArray, ShrinksNewIndex
  <2>3. IndexBlock(root, i) \in live
    BY <1>6, <2>1, PagesAre DEF Whole
  <2> QED BY <1>1, <1>2, <2>2, <2>3, LiveFacts DEF Old
<1>9. TableResize(call.n)'
  BY <1>1, <1>4, <1>5, <1>6, <1>7, <1>8
    DEF TableResize, Holds, NewFrom, New, IndexBlock
<1>10. \A i \in 0 .. l - 1 :
         /\ PageOf(i) < k
         /\ PageItem(data, root, i) = s[i + 1]
  <2> SUFFICES ASSUME NEW i \in 0 .. l - 1
               PROVE  /\ PageOf(i) < k
                      /\ PageItem(data, root, i) = s[i + 1]
    OBVIOUS
  <2>1. i \in Nat /\ i < l /\ i + 1 \in 1 .. l /\ (i + 1) - 1 = i
    BY <1>2
  <2>2. PageOf(i) \in 0 .. k - 1
    BY <1>1, <2>1, ItemsPage
  <2>3. PageOf(i) < k
    BY <1>2, <2>2
  <2> QED BY <1>2, <2>1, <2>3 DEF ItemIn
<1>11. PageItems(k)'
  BY <1>2, <1>4, <1>10 DEF PageItems
<1>12. push # <<>> => k < n
  <2> SUFFICES ASSUME push # <<>>
               PROVE  k < n
    OBVIOUS
  <2>1. l = k * items_per_block /\ n = PageOf(l) + 1
    BY DEF Room
  <2>2. ~(l < k * items_per_block)
    BY <1>2, <2>1
  <2>3. ~(PageOf(l) < k) /\ PageOf(l) \in Nat
    BY <1>2, <2>2, PagesHold, ItemPlace
  <2> QED BY <1>2, <2>1, <2>3
<1>13. Pushes'
  BY <1>2, <1>3, <1>4, <1>7, <1>12 DEF Pushes
<1>14. array_length(root)' = l
  BY DEF array_length
<1>15. Resizes(N)'
  BY <1>2, <1>3, <1>4, <1>7, <1>11, <1>13, <1>14 DEF Resizes
<1>16. ArrayWork'
  BY <1>4, <1>9, <1>15 DEF ArrayWork, ArrayResizing
<1>17. SameOutside(data, data, {root})
  BY DEF SameOutside
<1> QED BY <1>2, <1>4, <1>16, <1>17, ResizeBegins

\* A small array gets n pages: its items are set aside, and their words
\* cleared.
LEMMA LargeBegin ==
  ASSUME ArrayFits, ArrayInv, ArrayCall, N = 0,
         NEW n \in 1 .. MaxPages, NEW push \in PushSet,
         call' = Resize("large", n, push, SmallItems(root)),
         push # <<>> => /\ array_length(root) < MaxItems
                        /\ n = PageOf(array_length(root)) + 1,
         data' = [data EXCEPT ![root] = Overwritten(@,
                    [w \in 1 .. small_capacity * ITEM |-> 0])],
         root' = root, savedRoot' = savedRoot,
         UNCHANGED <<io, flist, freelist, objlist, state, loop, live, rc>>
  PROVE  ArrayStepOK
<1> SUFFICES ASSUME NEW l, l = array_length(root), NEW s, s = ItemsIn(data, root),
                    NEW k, k = SmallItems(root),
                    NEW z, z = [w \in SmallWords |-> 0]
             PROVE  ArrayStepOK
  OBVIOUS
<1>1. InTxn /\ Between /\ root # 0 /\ New(root)
  BY ArrayCallFacts
<1>2. /\ IInv /\ Sound(data, root, live) /\ data \in [Block -> Value]
      /\ root \in Block /\ data[root][Header] = 0
      /\ l = data[root][LengthWord] /\ l \in Nat /\ l \in 0 .. MaxItems
      /\ l <= Room(0)
      /\ s \in Seq(Words) /\ Len(s) = l
      /\ s = IF Between THEN Items(root) ELSE call.before
      /\ \A j \in 1 .. l : s[j] = ItemIn(data, root, j - 1)
  BY <1>1, ArrayIdleFacts
<1>3. /\ TableFits /\ LengthWord \in Slot /\ Header \in Slot
      /\ LengthWord # Header
      /\ LengthWord \notin SmallWords /\ Header \notin SmallWords
      /\ SmallWords \subseteq Slot
      /\ l <= small_capacity /\ small_capacity \in Nat
      /\ MaxItems \in Nat /\ n \in Nat /\ n \in 0 .. MaxPages /\ n > 0
  BY <1>2, ArrayWords, ItemSizes, TableSizes DEF Room, ArrayFits
<1>4. data[root] \in [Slot -> Words] /\ 0 \in Words
  BY <1>2, ValueIsWords DEF Words
<1>5. /\ k \in Seq(Words) /\ Len(k) = small_capacity * ITEM
      /\ \A w \in SmallWords : k[w] = data[root][w]
  BY <1>4, FirstWords DEF SmallItems
<1>6. /\ data' \in [Block -> Value]
      /\ \A b \in Block \ {root} : data'[b] = data[b]
      /\ \A t \in Slot : data'[root][t] = IF t \in SmallWords THEN 0
                                          ELSE data[root][t]
  <2> DEFINE o == Overwritten(data[root], z)
  <2>1. DOMAIN z = SmallWords /\ \A w \in SmallWords : z[w] = 0
    OBVIOUS
  <2>2. /\ o \in [Slot -> Words]
        /\ \A t \in Slot : o[t] = IF t \in SmallWords THEN z[t] ELSE data[root][t]
    BY <1>3, <1>4, <2>1, OverwrittenWords
  <2>3. data' = [data EXCEPT ![root] = o]
    BY DEF SmallWords
  <2> HIDE DEF o
  <2>4. o \in Value
    BY <2>2, ValueIsWords
  <2>5. data'[root] = o /\ \A b \in Block \ {root} : data'[b] = data[b]
    BY <1>2, <2>3
  <2>6. data' \in [Block -> Value]
    BY <1>2, <2>3, <2>4
  <2>7. \A t \in Slot : o[t] = IF t \in SmallWords THEN 0 ELSE data[root][t]
    BY <2>1, <2>2
  <2> QED BY <2>5, <2>6, <2>7
<1>7. /\ call' \in InCall /\ call'.at = "resize" /\ call'.op = "large"
      /\ call'.n = n /\ call'.push = push /\ call'.kept = k
      /\ call'.before = s
  <2> DEFINE op == "large"
             c == call'
  <2>1. /\ op \in CallOp /\ n \in 0 .. MaxPages /\ push \in PushSet
        /\ k \in Seq(Words) /\ s \in Seq(Words)
        /\ s = IF Between THEN Items(root) ELSE call.before
        /\ c = Resize(op, n, push, k)
    BY <1>2, <1>3, <1>5 DEF CallOp
  <2> HIDE DEF op, c
  <2>2. /\ c \in InCall /\ c.at = "resize" /\ c.op = op /\ c.n = n
        /\ c.push = push /\ c.kept = k /\ c.before = s
    BY ONLY <2>1, ResizeIs
  <2> QED BY <2>2 DEF op, c
<1>8. data'[root][Header] = 0 /\ data'[root][LengthWord] = l
  BY <1>2, <1>3, <1>6
<1>9. blocks' = blocks /\ N' = 0
  BY <1>8 DEF state, N, Pages
<1>10. Whole(data', root, 0, 0, live)
  <2>1. live = {root}
        /\ \A j \in Large : SlotOf(j) \notin SmallWords => IndexAt(data, root, j) = 0
    BY <1>2 DEF Sound, SmallTable
  <2>2. \A j \in Large : SlotOf(j) \in Slot
    BY <1>3, Apart DEF SlotsApart
  <2>3. \A j \in Large : IndexAt(data', root, j) = 0
    BY <1>6, <2>1, <2>2 DEF IndexAt
  <2>4. /\ 0 \in 0 .. MaxPages /\ 0 \in 0 .. MaxPages
        /\ \A i \in 0 .. 0 - 1 : FALSE
        /\ \A i \in LEVEL_ONE .. 0 - 1 : FALSE
    BY TableSizes
  <2> QED BY <2>1, <2>3, <2>4 DEF Whole
<1>11. ASSUME live' = live
       PROVE  TableResize(call.n)'
  <2>1. Holds(N, N)'
    BY <1>1, <1>9, <1>10, <1>11 DEF Holds
  <2>2. New(root)'
    BY <1>1, <1>9 DEF New
  <2>3. \A i \in Large : ~(i \in n .. 0 - 1)
    BY <1>3
  <2>4. NewFrom(call.n)'
    BY <1>7, <1>9, <2>3 DEF NewFrom
  <2> QED BY <2>1, <2>2, <2>4 DEF TableResize
<1>12. \A i \in 0 .. l - 1 : i < small_capacity => k[ItemWord(i)] = s[i + 1]
  <2> SUFFICES ASSUME NEW i \in 0 .. l - 1
               PROVE  k[ItemWord(i)] = s[i + 1]
    OBVIOUS
  <2>1. i \in Nat /\ i < small_capacity /\ i + 1 \in 1 .. l /\ (i + 1) - 1 = i
    BY <1>2, <1>3
  <2>2. ItemWord(i) \in SmallWords
    BY <2>1, SmallPlace
  <2> QED BY <1>2, <1>5, <2>1, <2>2 DEF ItemIn
<1>13. KeptItems'
  BY <1>2, <1>5, <1>7, <1>12 DEF KeptItems
<1>14. Pushes'
  BY <1>2, <1>3, <1>7, <1>9 DEF Pushes
<1>15. array_length(root)' = l
  BY <1>8 DEF array_length
<1>16. Resizes(N)'
  BY <1>2, <1>3, <1>7, <1>13, <1>14, <1>15 DEF Resizes
<1>17. live' = live => ArrayWork'
  BY <1>7, <1>11, <1>16 DEF ArrayWork, ArrayResizing
<1>18. SameOutside(data, data', {root})
  BY <1>6 DEF SameOutside
<1> QED BY <1>6, <1>7, <1>17, <1>18, ResizeBegins

\* A large array becomes small: its first page is looked up.
LEMMA SmallBegin ==
  ASSUME ArrayFits, ArrayInv, ArrayCall, CarefulArray, N # 0,
         call' = Locals("lookup", "small", 0, 0, <<>>, <<>>),
         data' = data, root' = root, savedRoot' = savedRoot,
         UNCHANGED <<io, flist, freelist, objlist, state, loop, live, rc>>
  PROVE  ArrayStepOK
<1> SUFFICES ASSUME NEW s, s = ItemsIn(data, root), NEW k, k = N
             PROVE  ArrayStepOK
  OBVIOUS
<1>1. InTxn /\ Between /\ root # 0 /\ New(root)
  BY ArrayCallFacts
<1>2. /\ IInv /\ Sound(data, root, live) /\ data \in [Block -> Value]
      /\ k = data[root][Header] /\ k \in Nat /\ k \in 0 .. MaxPages
      /\ s \in Seq(Words)
      /\ s = IF Between THEN Items(root) ELSE call.before
  BY <1>1, ArrayIdleFacts
<1>3. Lookup("small", 0, 0) = call'
  BY DEF Lookup
<1>4. 0 \in Words /\ "small" \in CallOp /\ 0 \in Nat
  BY ValueIsWords DEF Words, CallOp
<1>5. PageOf(0) = 0
  BY ItemSizes, SmallPlace
<1>6. /\ call' \in InCall /\ call'.at = "lookup" /\ call'.op = "small"
      /\ call'.page = 0 /\ call'.n = 0 /\ call'.push = <<>>
      /\ call'.before = s
  <2> SUFFICES ASSUME NEW i, i = 0
               PROVE  /\ call' \in InCall /\ call'.at = "lookup"
                      /\ call'.op = "small" /\ call'.page = i /\ call'.n = 0
                      /\ call'.push = <<>> /\ call'.before = s
    OBVIOUS
  <2>1. /\ i \in Nat /\ i \in Words /\ PageOf(i) = i
        /\ call' = Lookup("small", i, i)
    BY <1>3, <1>4, <1>5
  <2>2. /\ call' \in InCall /\ call'.at = "lookup" /\ call'.op = "small"
        /\ call'.page = PageOf(i) /\ call'.n = 0 /\ call'.push = <<>>
        /\ call'.before = s
    BY <1>2, <1>4, <2>1, LookupIs
  <2> QED BY <2>1, <2>2
<1>7. blocks' = blocks /\ live' = live /\ N' = k
  BY DEF state, N, Pages
<1>8. 0 \in 0 .. N - 1
  BY <1>2
<1>9. LooksUp'
  BY <1>1, <1>6, <1>7, <1>8, LookupBegins
<1>10. \A i \in Large : i \in 0 .. k - 1 => New(IndexBlock(root, i))
  <2> SUFFICES ASSUME NEW i \in Large, i \in 0 .. k - 1
               PROVE  New(IndexBlock(root, i))
    OBVIOUS
  <2>1. i \in LEVEL_ONE .. k - 1 /\ i >= 0
    BY <1>2, TableSizes DEF Large
  <2>2. ~Old(IndexBlock(root, i))
    BY <1>1, <1>6, <2>1 DEF CarefulArray, ShrinksNewIndex
  <2>3. Whole(data, root, k, k, live)
    BY <1>2 DEF Sound
  <2>4. IndexBlock(root, i) \in live
    BY <2>1, <2>3, PagesAre DEF Whole
  <2> QED BY <1>1, <1>2, <2>2, <2>4, LiveFacts DEF Old
<1>11. NewFrom(0)'
  BY <1>7, <1>10 DEF NewFrom, New, IndexBlock
<1>12. ArrayShrinks'
  BY <1>6, <1>9, <1>11 DEF ArrayShrinks
<1>13. ArrayWork'
  BY <1>12 DEF ArrayWork
<1>14. SameOutside(data, data, {root})
  BY DEF SameOutside
<1> QED BY <1>2, <1>6, <1>13, <1>14, ResizeBegins

\* array_resize begins, on its own or in array_push.
LEMMA ArrayResizeBegins ==
  ASSUME ArrayFits, ArrayInv, ArrayCall, CarefulArray, NEW c \in 0 .. MaxItems,
         NEW push \in PushSet, ArrayResize(c, push),
         push # <<>> => /\ c = array_length(root) + 1
                        /\ c > array_capacity(root),
         root' = root, savedRoot' = savedRoot,
         UNCHANGED <<io, flist, freelist, objlist, state, loop, live, rc>>
  PROVE  ArrayStepOK
<1> SUFFICES ASSUME NEW l, l = array_length(root), NEW n,
                    n = (c + items_per_block - 1) \div items_per_block
             PROVE  ArrayStepOK
  OBVIOUS
<1>1. InTxn /\ Between /\ root # 0
  BY ArrayCallFacts
<1>2. /\ N \in Nat /\ l \in Nat /\ l \in 0 .. MaxItems /\ l <= Room(N)
      /\ Room(N) \in Nat /\ array_capacity(root) = Room(N)
  BY <1>1, ArrayIdleFacts
<1>3. MaxItems \in Nat /\ c \in Nat
  BY DEF ArrayFits
<1>4. push # <<>> => l = Room(N) /\ c = l + 1 /\ l < MaxItems
  BY <1>2, <1>3
<1>5. CASE c <= small_capacity /\ N # 0
           /\ call' = Locals("lookup", "small", 0, 0, push, <<>>) /\ data' = data
  <2>1. push = <<>>
    <3> SUFFICES ASSUME push # <<>>
                 PROVE  FALSE
      OBVIOUS
    <3>1. Room(N) = N * items_per_block
      BY <1>5 DEF Room
    <3>2. /\ items_per_block \in Nat /\ items_per_block > 0
          /\ small_capacity \in Nat /\ small_capacity <= items_per_block
      BY ItemSizes
    <3>3. \A i \in Nat, j \in Nat : i > 0 => j <= i * j
      OBVIOUS
    <3>4. items_per_block <= N * items_per_block
      BY <1>2, <1>5, <3>2, <3>3
    <3> QED BY <1>2, <1>4, <1>5, <3>1, <3>2, <3>4
  <2> QED BY <1>5, <2>1, SmallBegin
<1>6. CASE c > small_capacity
  <2>1. c \in 1 .. MaxItems /\ (push # <<>> => c - 1 = l)
    BY <1>2, <1>3, <1>4, <1>6, ItemSizes
  <2>2. n = PageOf(c - 1) + 1 /\ n \in 1 .. MaxPages
    BY <2>1, PagesAsked
  <2>3. push # <<>> => l < MaxItems /\ n = PageOf(l) + 1 /\ l = Room(N)
    BY <1>4, <2>1, <2>2
  <2>4. CASE N = 0 /\ call' = Resize("large", n, push, SmallItems(root))
             /\ data' = [data EXCEPT ![root] = Overwritten(@,
                           [w \in 1 .. small_capacity * ITEM |-> 0])]
    BY <2>2, <2>3, <2>4, LargeBegin
  <2>5. CASE N # 0 /\ call' = Resize("pages", n, push, <<>>) /\ data' = data
    BY <2>2, <2>3, <2>5, PagesBegin
  <2> QED BY <1>3, <1>6, <2>4, <2>5, ItemSizes DEF ArrayResize
<1> QED BY <1>3, <1>5, <1>6, ItemSizes DEF ArrayResize

\* array_resize, on its own.
LEMMA ArrayResizeStep ==
  ASSUME ArrayFits, ArrayInv, CarefulArray, NEW c \in 0 .. MaxItems,
         array_resize(c)
  PROVE  ArrayStepOK
<1> SUFFICES ASSUME NEW push, push = <<>>
             PROVE  ArrayStepOK
  OBVIOUS
<1>1. /\ ArrayCall /\ ArrayResize(c, push)
      /\ root' = root /\ savedRoot' = savedRoot
      /\ UNCHANGED <<io, flist, freelist, objlist, state, loop, live, rc>>
  BY DEF array_resize
<1>2. push \in PushSet
  BY DEF PushSet
<1> QED BY <1>1, <1>2, ArrayResizeBegins

\* An item more, of a small array, and its new length.
AppendsSmall(d, e, r, l, v) ==
  e = [d EXCEPT ![r][LengthWord] = l + 1, ![r][ItemWord(l)] = v]

\* array_push stores its item in a small array.
LEMMA SmallPush ==
  ASSUME ArrayFits, ArrayInv, NEW v \in Payload, ArrayCall, N = 0,
         NEW l, l = array_length(root), l < MaxItems, l + 1 <= small_capacity,
         AppendsSmall(data, data', root, l, v), call' = call, root' = root, savedRoot' = savedRoot,
         UNCHANGED <<io, flist, freelist, objlist, state, loop, live, rc>>
  PROVE  ArrayStepOK
<1> SUFFICES ASSUME NEW s, s = ItemsIn(data, root), NEW h, h = l + 1,
                    NEW f, Stores(data, f, root, LengthWord, h)
             PROVE  ArrayStepOK
  BY DEF Stores
<1>1. InTxn /\ Between /\ root # 0
  BY ArrayCallFacts
<1>2. /\ root \in Block /\ data \in [Block -> Value]
      /\ data[root][Header] = 0 /\ l = data[root][LengthWord]
      /\ l \in Nat
      /\ s \in Seq(Words) /\ Len(s) = l
      /\ Sound(data, root, live) /\ live \subseteq Block
      /\ \A j \in 1 .. l : s[j] = ItemIn(data, root, j - 1)
  BY <1>1, ArrayIdleFacts
<1>3. /\ small_capacity \in Nat /\ MaxItems \in Nat
      /\ h \in Nat /\ h \in 0 .. MaxItems /\ h <= small_capacity
      /\ l < small_capacity
  BY <1>2, ItemSizes DEF ArrayFits
<1>4. /\ h \in Words /\ v \in Words
      /\ LengthWord \in Slot /\ Header \in Slot /\ LengthWord # Header
      /\ LengthWord \notin SmallWords /\ Header \notin SmallWords
      /\ SmallWords \subseteq Slot
  BY <1>3, ArrayWords DEF ArrayFits, Words
<1>5. ItemWord(l) \in SmallWords /\ ItemWord(l) \in Slot /\ PageOf(l) = 0
  BY <1>2, <1>3, <1>4, SmallPlace
<1>6. /\ f \in [Block -> Value]
      /\ ChangesWord(data, f, root, LengthWord, h)
      /\ SameOutside(data, f, {root})
  BY <1>2, <1>4, StoresOne
<1>7. Stores(f, data', root, ItemWord(l), v)
  <2>1. data' = [f EXCEPT ![root][ItemWord(l)] = v]
    BY DEF AppendsSmall, Stores
  <2> QED BY <2>1 DEF Stores
<1>8. /\ data' \in [Block -> Value]
      /\ ChangesWord(f, data', root, ItemWord(l), v)
      /\ SameOutside(f, data', {root})
  BY <1>2, <1>4, <1>5, <1>6, <1>7, StoresOne
<1>9. SameOutside(data, data', {root})
  BY <1>6, <1>8 DEF SameOutside
<1>10. /\ \A t \in Slot : data'[root][t] = IF t = ItemWord(l) THEN v
                            ELSE IF t = LengthWord THEN h ELSE data[root][t]
       /\ data'[root][Header] = 0 /\ data'[root][LengthWord] = h
  BY <1>2, <1>4, <1>5, <1>6, <1>8 DEF ChangesWord
<1>11. \A t \in Slot : t \in SmallWords \/ t = LengthWord
                       \/ data'[root][t] = data[root][t]
  BY <1>5, <1>10
<1>12. /\ \A j \in 0 .. l - 1 : ItemIn(data', root, j) = ItemIn(data, root, j)
       /\ ItemIn(data', root, l) = v
  <2>1. \A j \in 0 .. l - 1 : j \in Nat /\ j < small_capacity /\ j # l
    BY <1>2, <1>3
  <2>2. \A j \in 0 .. l - 1 :
          /\ ItemWord(j) \in SmallWords /\ ItemWord(j) \in Slot /\ PageOf(j) = 0
          /\ ItemWord(j) # ItemWord(l)
    BY <1>2, <1>4, <1>5, <2>1, SmallPlace, ItemsApart
  <2> QED BY <1>2, <1>4, <1>5, <1>10, <2>2 DEF ItemIn
<1>13. ListChanges(s, ItemsIn(data', root))
  <2>1. Sound(data', root, live)
    <3>1. h <= Room(0)
      BY <1>3 DEF Room
    <3> QED BY <1>2, <1>3, <1>8, <1>10, <1>11, <3>1, SoundStored
  <2>2. /\ ItemsIn(data', root) \in Seq(Words)
        /\ Len(ItemsIn(data', root)) = h
        /\ \A j \in 1 .. h : ItemsIn(data', root)[j] = ItemIn(data', root, j - 1)
    BY <1>2, <1>8, <1>10, <2>1, ItemsAreSeq
  <2>3. /\ \A j \in 1 .. l : j \in 1 .. h /\ j - 1 \in 0 .. l - 1
        /\ l + 1 \in 1 .. h /\ (l + 1) - 1 = l
    BY <1>2, <1>3
  <2> DEFINE u == ItemsIn(data', root)
  <2>4. u \in Seq(Words) /\ Len(u) = Len(s) + 1
    BY <1>2, <2>2
  <2>5. ASSUME NEW j \in 1 .. Len(s)
        PROVE  u[j] = s[j]
    <3>1. j \in 1 .. h /\ j - 1 \in 0 .. l - 1 /\ s[j] = ItemIn(data, root, j - 1)
      BY <1>2, <2>3
    <3>2. u[j] = ItemIn(data', root, j - 1)
      BY <2>2, <3>1
    <3> QED BY <1>12, <3>1, <3>2
  <2>6. u[Len(s) + 1] = v
    BY <1>2, <1>12, <2>2, <2>3
  <2>7. s \in Seq(Words) /\ v \in Payload
    BY <1>2
  <2> HIDE DEF u
  <2>8. ListChanges(s, u)
    BY ONLY <2>4, <2>5, <2>6, <2>7, ItemAppended
  <2> QED BY <2>8 DEF u
<1> QED BY <1>2, <1>3, <1>8, <1>9, <1>10, <1>11, <1>13, SmallStored

\* Or in a page of a large one that has room for it.
LEMMA LargePush ==
  ASSUME ArrayFits, ArrayInv, CarefulArray, NEW v \in Payload, ArrayCall, N # 0,
         NEW l, l = array_length(root), l < MaxItems, l + 1 <= Room(N),
         data' = [data EXCEPT ![root][LengthWord] = l + 1],
         call' = Lookup("set", l, v), root' = root, savedRoot' = savedRoot,
         UNCHANGED <<io, flist, freelist, objlist, state, loop, live, rc>>
  PROVE  ArrayStepOK
<1> SUFFICES ASSUME NEW s, s = ItemsIn(data, root), NEW n, n = N,
                    NEW p, p = PageOf(l)
             PROVE  ArrayStepOK
  OBVIOUS
<1>1. InTxn /\ Between /\ root # 0 /\ New(root)
  BY ArrayCallFacts
<1>2. /\ Sound(data, root, live) /\ data \in [Block -> Value]
      /\ n = data[root][Header] /\ n \in Nat /\ Room(n) \in Nat
      /\ l = data[root][LengthWord] /\ l \in Nat
      /\ s \in Seq(Words) /\ WorkingItems = s /\ Len(s) = l
      /\ s = IF Between THEN Items(root) ELSE call.before
      /\ \A j \in 1 .. l : s[j] = ItemIn(data, root, j - 1)
  BY <1>1, ArrayIdleFacts
<1>3. v \in Words /\ "set" \in CallOp
  BY DEF Words, CallOp
<1>4. /\ call' \in InCall /\ call'.at = "lookup" /\ call'.op = "set"
      /\ call'.v = v /\ call'.item = l /\ call'.page = p /\ call'.before = s
  BY <1>2, <1>3, LookupIs
<1>5. p < n /\ p \in 0 .. n - 1
  <2>1. Room(n) = n * items_per_block
    BY DEF Room
  <2>2. l < n * items_per_block
    BY <1>2, <2>1
  <2>3. p < n /\ p \in Nat
    BY <1>2, <2>2, PagesHold, ItemPlace
  <2> QED BY <1>2, <2>3
<1>6. /\ New(PageAt(data, root, p))
      /\ p >= LEVEL_ONE => New(IndexAt(data, root, p))
  BY <1>1, <1>4, <1>5, CarefulLookup
<1>7. \A i \in 0 .. l - 1 : PageItem(data, root, i) = s[i + 1]
  <2>1. \A i \in 0 .. l - 1 : i + 1 \in 1 .. l /\ (i + 1) - 1 = i
    BY <1>2
  <2> QED BY <1>2, <2>1 DEF ItemIn
<1>8. /\ data' = [data EXCEPT ![root][LengthWord] = @ + 1]
      /\ \A c \in Committed, t \in Slot : data[c][t] = data[c][t]
  BY <1>2
<1> QED BY <1>1, <1>2, <1>4, <1>5, <1>6, <1>7, <1>8, AppendsItem

\* array_push.
LEMMA ArrayPushStep ==
  ASSUME ArrayFits, ArrayInv, CarefulArray, NEW v \in Payload, array_push(v),
         array_length(root) < MaxItems
  PROVE  ArrayStepOK
<1> SUFFICES ASSUME NEW l, l = array_length(root), NEW c, c = l + 1,
                    NEW push, push = <<v>>
             PROVE  ArrayStepOK
  OBVIOUS
<1>1. /\ ArrayCall
      /\ IF c > array_capacity(root) THEN ArrayResize(c, push)
         ELSE IF N = 0
         THEN /\ data' = [data EXCEPT ![root][LengthWord] = l + 1,
                                      ![root][ItemWord(l)] = v]
              /\ call' = call
         ELSE /\ data' = [data EXCEPT ![root][LengthWord] = l + 1]
              /\ call' = Lookup("set", l, v)
      /\ root' = root /\ savedRoot' = savedRoot
      /\ UNCHANGED <<io, flist, freelist, objlist, state, loop, live, rc>>
  BY DEF array_push
<1>2. InTxn /\ Between /\ root # 0
  BY <1>1, ArrayCallFacts
<1>3. /\ l \in Nat /\ array_capacity(root) = Room(N) /\ Room(N) \in Nat
      /\ MaxItems \in Nat /\ l < MaxItems
  BY <1>2, ArrayIdleFacts DEF ArrayFits
<1>4. CASE c > array_capacity(root)
  <2>1. push \in PushSet /\ c \in 0 .. MaxItems
    BY <1>3 DEF PushSet
  <2> QED BY <1>1, <1>4, <2>1, ArrayResizeBegins
<1>5. CASE c <= array_capacity(root) /\ N = 0
  <2>1. l + 1 <= small_capacity /\ AppendsSmall(data, data', root, l, v)
    BY <1>1, <1>3, <1>5 DEF Room, AppendsSmall
  <2> QED BY <1>1, <1>3, <1>5, <2>1, SmallPush
<1>6. CASE c <= array_capacity(root) /\ N # 0
  <2>1. l + 1 <= Room(N)
    BY <1>3, <1>6
  <2> QED BY <1>1, <1>3, <1>6, <2>1, LargePush
<1> QED BY <1>3, <1>4, <1>5, <1>6

-----------------------------------------------------------------------------

\* page_resize has returned, and no first page is to be filled.
LEMMA ArrayPagesResizedStep ==
  ASSUME ArrayFits, ArrayInv, PagesResized
  PROVE  ArrayStepOK
<1>1. Resizing /\ call.op # "large"
  BY DEF PagesResized
<1>2. InTxn
  BY <1>1 DEF ArrayInv, Rest, Resizing, Idle
<1>3. Resizes(N)
  BY <1>1, <1>2, ArrayResizeFacts
<1>4. call.op \in {"pages", "small"}
  BY <1>1, <1>3 DEF Resizes
<1> QED BY <1>4, ArrayPagesResized, ArrayItemsRestored

\* At first there is no array.
LEMMA InitArray ==
  ASSUME TableInit
  PROVE  ArrayInv /\ ItemList!Init
<1>1. /\ Init /\ root = 0 /\ savedRoot = 0 /\ call = Idle
      /\ txn = FALSE /\ live = {} /\ objlist = EDB_OBJLIST
  BY DEF TableInit, Init
<1>2. IInv
  BY <1>1, InitIInv
<1>3. SavedArray
  BY <1>1 DEF SavedArray, Committed
<1>4. ArrayWork /\ Rest
  BY <1>1 DEF ArrayWork, Rest, InTxn
<1>5. TablePhase = "closed"
  BY <1>1 DEF TablePhase
<1>6. SavedItems = <<>> /\ WorkingItems = <<>>
  BY <1>1, <1>5 DEF SavedItems, WorkingItems
<1> QED BY <1>2, <1>3, <1>4, <1>5, <1>6 DEF ArrayInv, ItemList!Init

\* A step that changes nothing.
LEMMA ArrayStutters ==
  ASSUME ArrayFits, ArrayInv, UNCHANGED tableVars
  PROVE  ArrayStepOK
<1>1. /\ UNCHANGED <<fsize, nblocks, flist, data, freelist, objlist, txn, blocks,
                     ts_nblocks, pc, todo, live, rc>>
      /\ root' = root /\ savedRoot' = savedRoot /\ call' = call
  BY DEF tableVars, table, vars, io, disk, state, loop
<1>2. IInv'
  <2>1. UNCHANGED vars
    BY <1>1 DEF vars, io, disk, state, loop
  <2> QED BY <2>1, NextIInv DEF ArrayInv
<1>3. Committed' = Committed
  BY <1>1 DEF Committed, Pending, Given, Waiting, IsCopy
<1>4. SavedArray' /\ SavedItems' = SavedItems
  BY <1>1, <1>3, ArrayNotStored
<1>5. InTxn' = InTxn /\ Aborting' = Aborting
  BY <1>1 DEF InTxn, Ready, Mapped, Aborting
<1>6. Rest'
  BY <1>1, <1>5 DEF ArrayInv, Rest
<1>7. ArrayWork'
  <2>1. N' = N /\ array_length(root)' = array_length(root)
    BY <1>1 DEF N, Pages, array_length
  <2>2. /\ Holds(N, N)' = Holds(N, N)
        /\ Holds(N, N + 1)' = Holds(N, N + 1)
        /\ Holds(N - 1, N)' = Holds(N - 1, N)
    BY <1>1, <2>1 DEF Holds, Whole, PageAt, IndexAt
  <2>3. /\ NewFrom(call.n)' = NewFrom(call.n)
        /\ NewFrom(0)' = NewFrom(0)
    BY <1>1, <2>1 DEF NewFrom, New, IndexBlock
  <2>4. /\ TableResize(call.n)' = TableResize(call.n)
        /\ TableCleared(call.n)' = TableCleared(call.n)
        /\ TableSlot(call.n)' = TableSlot(call.n)
    BY <1>1, <2>1, <2>2, <2>3
       DEF TableResize, TableCleared, TableSlot, New, IndexBlock
  <2>5. /\ NewPage(N - 1)' = NewPage(N - 1)
        /\ NewPage(call.page)' = NewPage(call.page)
    BY <1>1, <2>1 DEF NewPage, New, HostBlock, IndexBlock
  <2>6. Pushes' = Pushes /\ KeptItems' = KeptItems
    BY <1>1, <2>1, <2>5 DEF Pushes, KeptItems
  <2>7. /\ PageItems(N)' = PageItems(N)
        /\ PageItems(N - 1)' = PageItems(N - 1)
    BY <1>1, <2>1 DEF PageItems
  <2>8. /\ Resizes(N)' = Resizes(N)
        /\ Resizes(N - 1)' = Resizes(N - 1)
    BY <1>1, <2>1, <2>6, <2>7 DEF Resizes
  <2>9. LooksUp' = LooksUp
    BY <1>1, <2>1, <2>5 DEF LooksUp, New
  <2>10. /\ ArrayResizing' = ArrayResizing /\ ArraySlot' = ArraySlot
         /\ ArrayCleared' = ArrayCleared /\ ArrayFills' = ArrayFills
    BY <1>1, <2>1, <2>4, <2>8 DEF ArrayResizing, ArraySlot, ArrayCleared, ArrayFills
  <2>11. /\ ArrayReads' = ArrayReads /\ ArrayStores' = ArrayStores
         /\ ArrayShrinks' = ArrayShrinks
    BY <1>1, <2>1, <2>3, <2>9 DEF ArrayReads, ArrayStores, ArrayShrinks
  <2>12. ArrayIdle' = ArrayIdle
    BY <1>1 DEF ArrayIdle
  <2> QED BY <1>5, <2>10, <2>11, <2>12 DEF ArrayInv, ArrayWork
<1>8. ItemStep
  <2>1. TablePhase' = TablePhase
    BY <1>1 DEF TablePhase, Aborting, Mapped
  <2>2. WorkingItems' = WorkingItems
    BY <1>1, <1>4, <2>1, WorkingItemsAre, WorkingItemsAreNext DEF WorkingItems
  <2> QED BY <1>4, <2>1, <2>2 DEF ItemStep, ItemList!vars
<1>9. SavedKept
  BY <1>4 DEF SavedKept
<1> QED BY <1>2, <1>4, <1>6, <1>7, <1>8, <1>9 DEF ArrayStepOK, ArrayInv

\* Every step of a careful caller.
LEMMA ArrayStep ==
  ASSUME ArrayFits, ArrayInv, ArrayNext, CarefulArray
  PROVE  ArrayStepOK
<1>1. CASE Create
  BY <1>1, CreateArray
<1>2. CASE MakeWritable
  BY <1>2, ArrayMadeWritable
<1>3. CASE \E c \in 0 .. MaxItems : array_resize(c)
  BY <1>3, ArrayResizeStep
<1>4. CASE array_pop
  BY <1>4, SmallPop, LargePop
<1>5. CASE \E v \in Payload : array_push(v) /\ array_length(root) < MaxItems
  BY <1>5, ArrayPushStep
<1>6. CASE \E i \in 0 .. MaxItems - 1 : array_get(i)
  BY <1>6, ArrayGetStep
<1>7. CASE \E i \in 0 .. MaxItems - 1 : \E v \in Payload : array_set(i, v)
  <2>1. PICK i \in 0 .. MaxItems - 1, v \in Payload : array_set(i, v)
    BY <1>7
  <2>2. i \in Nat
    BY DEF ArrayFits
  <2> QED BY <2>1, <2>2, SmallSet, LargeSet
<1>8. CASE LookupIndex \/ GotItem \/ StoresItem \/ PopsItem \/ LookupFails
  BY <1>8, ArrayLookupIndex, ArrayGotItem, ArrayStoresItem, ArrayPopsItem,
     LookupFailsStep
<1>9. CASE SavesItems \/ PagesResized \/ FirstPage \/ FillsFirstPage
  BY <1>9, ArraySavesItems, ArrayPagesResizedStep, ArrayFirstPage,
     ArrayFillsFirstPage
<1>10. CASE GrowDirect \/ GrowIndex \/ GrowSlot
  BY <1>10, ArrayGrowDirect, ArrayGrowIndex, ArrayGrowSlot
<1>11. CASE ShrinkSlot \/ ShrinkIndex \/ ShrinkDirect
  BY <1>11, ArrayShrinkSlot, ArrayShrinkIndex, ArrayShrinkDirect
<1>12. CASE Fails \/ Refused \/ Begin
  BY <1>12, ArrayFails, ArrayRefused, ArrayOpening
<1>13. CASE Commit
  BY <1>13, CommitStartArray, CommitLoopArray DEF Commit
<1>14. CASE Abort
  BY <1>14, AbortArray
<1> QED BY <1>1, <1>2, <1>3, <1>4, <1>5, <1>6, <1>7, <1>8, <1>9, <1>10, <1>11,
           <1>12, <1>13, <1>14 DEF ArrayNext

\* What the theorems use of a step.
LEMMA EveryArrayStep ==
  ASSUME ArrayFits
  PROVE  ArrayInv /\ [ArrayNext /\ CarefulArray]_tableVars => ArrayStepOK
BY ArrayStep, ArrayStutters

\* The inductive invariant holds in every state a careful caller reaches.
THEOREM LargeArrayInvariance == ArrayFits => (CarefulArraySpec => []ArrayInv)
<1> SUFFICES ASSUME ArrayFits PROVE CarefulArraySpec => []ArrayInv
  OBVIOUS
<1>1. TableInit => ArrayInv
  BY InitArray
<1>2. ArrayInv /\ [ArrayNext /\ CarefulArray]_tableVars => ArrayInv'
  BY EveryArrayStep DEF ArrayStepOK
<1> QED BY <1>1, <1>2, PTL DEF CarefulArraySpec

\* An array is a list of items, whichever of its operations make it large,
\* small again or longer in pages, and across commits and aborts
\* (array_resize, array_data and its callers).
THEOREM ArrayIsList == ArrayFits => (CarefulArraySpec => ImplementsItemList)
<1> SUFFICES ASSUME ArrayFits PROVE CarefulArraySpec => ImplementsItemList
  OBVIOUS
<1>1. TableInit => ItemList!Init
  BY InitArray
<1>2. ArrayInv /\ [ArrayNext /\ CarefulArray]_tableVars
        => [ItemList!Next]_(ItemList!vars)
  BY EveryArrayStep DEF ArrayStepOK, ItemStep
<1> QED
  BY <1>1, <1>2, LargeArrayInvariance, PTL
     DEF CarefulArraySpec, ImplementsItemList, ItemList!Spec

\* Whatever pages a transaction looks up, adds or frees, the items of the
\* array it began with stay (page_resize, page_write_host_index, array_resize).
THEOREM SavedItemsStay == ArrayFits => (CarefulArraySpec => SavedItemsKept)
<1> SUFFICES ASSUME ArrayFits PROVE CarefulArraySpec => SavedItemsKept
  OBVIOUS
<1>1. ArrayInv /\ [ArrayNext /\ CarefulArray]_tableVars
        => [(txn /\ pc = "ready" /\ pc' = "ready")
              => SavedItems' = SavedItems]_tableVars
  BY EveryArrayStep DEF ArrayStepOK, SavedKept
<1> QED
  BY <1>1, LargeArrayInvariance, PTL DEF CarefulArraySpec, SavedItemsKept

\* No call of a careful caller aborts the process, or reads an item size from
\* an array that has been remapped (array_data).
THEOREM CarefulCallsReturn == ArrayFits => (CarefulArraySpec => []StaysAlive)
<1> SUFFICES ASSUME ArrayFits PROVE CarefulArraySpec => []StaysAlive
  OBVIOUS
<1>1. ArrayInv => StaysAlive
  <2>1. Idle # Dead
    BY DEF Idle, Dead
  <2> QED BY <2>1, ArrayWorkAt DEF ArrayInv, Rest, StaysAlive
<1> QED BY <1>1, LargeArrayInvariance, PTL
=============================================================================
