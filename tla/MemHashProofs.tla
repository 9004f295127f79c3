--------------------------- MODULE MemHashProofs ---------------------------
(***************************************************************************)
(* The hash table of mem_hash.h is a map, and its searches end, for any    *)
(* keys, any hash function without collisions and any width that is a      *)
(* power of two.                                                           *)
(*                                                                         *)
(* The probes for a key reach every slot (ProbesReachAll), so a search     *)
(* ends while the table has a gap; and since an entry stays where the      *)
(* first probe found its place free, later searches for it pass over the   *)
(* same entries (Reached).                                                 *)
(***************************************************************************)
EXTENDS MemHash, FiniteSetTheorems, WellFoundedInduction, TLAPS

-----------------------------------------------------------------------------
(***************************************************************************)
(* The least-number principle, for sets, and induction from it.            *)
(***************************************************************************)

\* Every set of natural numbers that is not empty has a least element.
LEMMA LeastOfSet ==
  ASSUME NEW S, S \subseteq Nat, S # {}
  PROVE  \E m \in S : \A n \in S : m <= n
<1> DEFINE R == OpToRel(<,Nat)
<1>1. IsWellFoundedOn(R, Nat)
  BY NatLessThanWellFounded
<1>2. PICK m \in S : \A n \in S : <<n, m>> \notin R
  <2> HIDE DEF R
  <2> QED BY <1>1, WFMin
<1>3. ASSUME NEW n \in S PROVE m <= n
  <2>1. m \in Nat /\ n \in Nat
    OBVIOUS
  <2>2. <<n, m>> \notin OpToRel(<,Nat)
    BY <1>2
  <2>3. ~(n < m)
    BY <2>1, <2>2 DEF OpToRel
  <2> QED BY <2>1, <2>3
<1> QED BY <1>2, <1>3

\* Induction: a set of numbers that 0 is in, and with each number the next,
\* is that of all numbers.
LEMMA AllNumbers ==
  ASSUME NEW S, 0 \in S, \A n \in S : n \in Nat => n + 1 \in S
  PROVE  Nat \subseteq S
<1>1. SUFFICES ASSUME Nat \ S # {} PROVE FALSE
  OBVIOUS
<1>2. PICK m \in Nat \ S : \A n \in Nat \ S : m <= n
  BY <1>1, LeastOfSet
<1>3. m - 1 \in Nat /\ ~(m <= m - 1)
  BY <1>2
<1>4. m - 1 \in S
  BY <1>2, <1>3
<1>5. m = (m - 1) + 1
  BY <1>2
<1> QED BY <1>2, <1>3, <1>4, <1>5

-----------------------------------------------------------------------------
(***************************************************************************)
(* Triangular numbers: i * i + i, halved, modulo a power of two, takes     *)
(* every value below half of it.                                           *)
(***************************************************************************)

PowerOfTwo(n) == \A d, e \in 1 .. n : d * e = n => d = 1 \/ d % 2 = 0

\* Modulo n, every even number is i * i + i for some i.
Hits(n) ==
  \A t \in Nat : \E i \in 0 .. n - 1 : \E q \in Int : i * i + i - 2 * t = n * q

\* A multiple of n between -n and n is 0.
LEMMA SmallMultiple ==
  ASSUME NEW n \in Nat, NEW k \in Int, -n < n * k, n * k < n
  PROVE  k = 0
<1>1. CASE k >= 1
  <2>1. n * k >= n BY <1>1
  <2> QED BY <2>1
<1>2. CASE k <= -1
  <2>1. n * k <= -n BY <1>2
  <2> QED BY <2>1
<1> QED BY <1>1, <1>2

\* A remainder is known by its range.
LEMMA ModUnique ==
  ASSUME NEW n \in Nat, NEW q \in Int, NEW r \in 0 .. n - 1, NEW x \in Int,
         x = r + n * q
  PROVE  x % n = r
<1> DEFINE p == x \div n
           s == x % n
<1>1. p \in Int /\ s \in 0 .. n - 1 /\ x = n * p + s
  OBVIOUS
<1> HIDE DEF p, s
<1>2. n * (q - p) = s - r
  BY <1>1
<1>3. q - p = 0
  BY <1>1, <1>2, SmallMultiple
<1>4. s = r
  BY <1>1, <1>2, <1>3
<1> QED BY <1>4 DEF s

\* A power of two above 1 is even,
LEMMA Halves ==
  ASSUME NEW n \in Nat, n > 1, PowerOfTwo(n)
  PROVE  \E m \in 1 .. n - 1 : n = 2 * m
<1>1. n \in 1 .. n /\ 1 \in 1 .. n /\ n * 1 = n
  OBVIOUS
<1>2. n % 2 = 0
  BY <1>1 DEF PowerOfTwo
<1>3. n \div 2 \in 1 .. n - 1 /\ n = 2 * (n \div 2)
  BY <1>2
<1> QED BY <1>3

\* and its half is one again.
LEMMA HalfIsPower ==
  ASSUME NEW m \in Nat, PowerOfTwo(2 * m)
  PROVE  PowerOfTwo(m)
<1> SUFFICES ASSUME NEW d \in 1 .. m, NEW e \in 1 .. m, d * e = m
             PROVE  d = 1 \/ d % 2 = 0
  BY DEF PowerOfTwo
<1>1. d \in 1 .. 2 * m /\ 2 * e \in 1 .. 2 * m
  OBVIOUS
<1>2. d * (2 * e) = 2 * m
  OBVIOUS
<1> QED BY <1>1, <1>2 DEF PowerOfTwo

\* What i hits modulo m, i or i + m hits modulo 2 * m.
LEMMA HitsDouble ==
  ASSUME NEW m \in Nat, NEW r \in Nat, m = 2 * r, Hits(m)
  PROVE  Hits(2 * m)
<1> SUFFICES ASSUME NEW t \in Nat
             PROVE  \E i \in 0 .. 2 * m - 1 : \E q \in Int :
                      i * i + i - 2 * t = (2 * m) * q
  BY DEF Hits
<1>1. PICK i \in 0 .. m - 1, q \in Int : i * i + i - 2 * t = m * q
  BY DEF Hits
<1> DEFINE p == q \div 2
<1>2. p \in Int /\ (q = 2 * p \/ q = 2 * p + 1)
  OBVIOUS
<1> HIDE DEF p
<1>3. CASE q = 2 * p
  <2>1. i * i + i - 2 * t = (2 * m) * p
    BY <1>1, <1>2, <1>3
  <2>2. i \in 0 .. 2 * m - 1
    OBVIOUS
  <2> QED BY <2>1, <2>2, <1>2
<1>4. CASE q = 2 * p + 1
  <2> DEFINE j == i + m
             k == p + 1 + i + r
  <2>1. j \in 0 .. 2 * m - 1 /\ k \in Int
    BY <1>2
  <2>2. j * j + j = (i * i + i) + (2 * m) * i + m * m + m
    OBVIOUS
  <2>3. m * q = (2 * m) * p + m
    BY <1>2, <1>4
  <2>4. m * m = (2 * m) * r
    OBVIOUS
  <2>5. (2 * m) * k = (2 * m) * p + 2 * m + (2 * m) * i + (2 * m) * r
    BY <1>2
  <2>6. j * j + j - 2 * t = (2 * m) * k
    <3> DEFINE a == i * i + i
               b == (2 * m) * i
               c == m * m
               d == (2 * m) * p
               x == (2 * m) * k
               y == j * j + j
               z == m * q
    <3>1. a \in Int /\ b \in Int /\ c \in Int /\ d \in Int /\ x \in Int
          /\ y \in Int /\ z \in Int
      BY <1>2, <2>1
    <3>2. y = a + b + c + m /\ z = d + m /\ x = d + 2 * m + b + c
          /\ a - 2 * t = z
      BY <1>1, <2>2, <2>3, <2>4, <2>5
    <3> HIDE DEF a, b, c, d, x, y, z
    <3>3. y - 2 * t = x
      BY <3>1, <3>2
    <3> QED BY <3>3 DEF x, y
  <2> QED BY <2>1, <2>6
<1> QED BY <1>2, <1>3, <1>4

\* The probes of mem_hash_probe take every distance below half the width: by
\* halving, since the least power of two that is not hit would be twice one
\* that is.
THEOREM PowersHit ==
  ASSUME NEW n \in Nat, n > 1, PowerOfTwo(n)
  PROVE  Hits(n)
<1> DEFINE Bad == {k \in Nat : k > 1 /\ PowerOfTwo(k) /\ ~Hits(k)}
<1> SUFFICES ASSUME Bad # {} PROVE FALSE
  OBVIOUS
<1>1. PICK k \in Bad : \A j \in Bad : k <= j
  <2>1. Bad \subseteq Nat OBVIOUS
  <2> HIDE DEF Bad
  <2> QED BY <2>1, LeastOfSet
<1>2. k \in Nat /\ k > 1 /\ PowerOfTwo(k) /\ ~Hits(k)
  OBVIOUS
<1>3. PICK m \in 1 .. k - 1 : k = 2 * m
  BY <1>2, Halves
<1>4. PowerOfTwo(m)
  BY <1>2, <1>3, HalfIsPower
<1>5. CASE m = 1
  <2>1. Hits(2)
    <3> SUFFICES ASSUME NEW t \in Nat
                 PROVE  \E i \in 0 .. 1 : \E q \in Int : i * i + i - 2 * t = 2 * q
      BY DEF Hits
    <3>1. 0 * 0 + 0 - 2 * t = 2 * (-t) /\ 0 \in 0 .. 1 /\ -t \in Int
      OBVIOUS
    <3> QED BY <3>1
  <2> QED BY <1>2, <1>3, <1>5, <2>1
<1>6. CASE m > 1
  <2>1. m \in Nat /\ ~(k <= m)
    BY <1>2, <1>3
  <2>2. Hits(m)
    BY <1>1, <1>4, <1>6, <2>1
  <2>3. PICK r \in 1 .. m - 1 : m = 2 * r
    BY <1>4, <1>6, <2>1, Halves
  <2>4. Hits(2 * m)
    BY <2>1, <2>2, <2>3, HitsDouble
  <2> QED BY <1>2, <1>3, <2>4
<1> QED BY <1>3, <1>5, <1>6

-----------------------------------------------------------------------------
(***************************************************************************)
(* The sizes of tables.                                                    *)
(***************************************************************************)

\* HASH_SIZES.
LEMMA SizesAreNumbers ==
  /\ DOMAIN HASH_SIZES = 1 .. 29 /\ Len(HASH_SIZES) = 29
  /\ \A i \in 1 .. 29 : HASH_SIZES[i] \in Nat /\ HASH_SIZES[i] > 2
BY SMTT(60) DEF HASH_SIZES

\* Sets of keys are finite, and no larger than that of all.
LEMMA KeysCounted ==
  ASSUME NEW K, K \subseteq Key
  PROVE  /\ IsFiniteSet(K) /\ Cardinality(K) \in Nat
         /\ Cardinality(Key) \in Nat /\ Cardinality(K) <= Cardinality(Key)
BY KeyAssumption, FS_Subset, FS_CardinalityType

\* mem_hash_resize finds a size, with a gap to spare, whose probes do not wrap
\* before they have reached every slot.
LEMMA NewCapacityFits ==
  ASSUME count \in 0 .. Cardinality(Key)
  PROVE  /\ NewCapacity \in Range(HASH_SIZES)
         /\ NewCapacity \in Nat /\ NewCapacity > 2
         /\ NewCapacity >= 2 * count + 1
         /\ 4 * NewCapacity <= Width
<1> DEFINE n == count * 2 + 1
           Fit == {i \in 1 .. 29 : HASH_SIZES[i] >= n}
           First(i) == /\ HASH_SIZES[i] >= n
                       /\ \A j \in 1 .. i - 1 : HASH_SIZES[j] < n
           C == CHOOSE i \in DOMAIN HASH_SIZES : First(i)
<1>0. Cardinality(Key) \in Nat /\ 2 * Cardinality(Key) + 1 <= HASH_SIZES[29]
  BY KeysCounted, KeyAssumption, SizesAreNumbers
<1>1. n \in Nat /\ n <= HASH_SIZES[29] /\ n = 2 * count + 1
  BY <1>0, SizesAreNumbers
<1> HIDE DEF n
<1>2. 29 \in Fit
  BY <1>1, SizesAreNumbers
<1>3. PICK m \in Fit : \A i \in Fit : m <= i
  <2>1. Fit \subseteq Nat OBVIOUS
  <2> HIDE DEF Fit
  <2> QED BY <1>2, <2>1, LeastOfSet
<1>4. First(m)
  <2>1. m \in 1 .. 29 OBVIOUS
  <2>2. \A j \in 1 .. m - 1 : j \in 1 .. 29 /\ j \notin Fit
    BY <1>3, <2>1
  <2> QED BY <2>1, <2>2, <1>1, SizesAreNumbers
<1>5. C \in DOMAIN HASH_SIZES /\ First(C)
  <2>1. m \in DOMAIN HASH_SIZES BY SizesAreNumbers
  <2> HIDE DEF First
  <2> QED BY <2>1, <1>4
<1>6. NewCapacity = HASH_SIZES[C]
  BY DEF NewCapacity, n
<1> HIDE DEF C
<1>7. C \in 1 .. 29 /\ HASH_SIZES[C] \in Nat /\ HASH_SIZES[C] > 2
  BY <1>5, SizesAreNumbers
<1>8. \A j \in 1 .. C - 1 : HASH_SIZES[j] < 2 * Cardinality(Key) + 1
  <2> SUFFICES ASSUME NEW j \in 1 .. C - 1
               PROVE  HASH_SIZES[j] < 2 * Cardinality(Key) + 1
    OBVIOUS
  <2>1. HASH_SIZES[j] < n /\ HASH_SIZES[j] \in Nat
    BY <1>5, <1>7, SizesAreNumbers
  <2> QED BY <1>0, <1>1, <2>1
<1>9. 4 * HASH_SIZES[C] <= Width
  BY <1>5, <1>8, WidthAssumption
<1>10. HASH_SIZES[C] \in Range(HASH_SIZES)
  BY <1>5 DEF Range
<1>11. HASH_SIZES[C] >= 2 * count + 1
  BY <1>5, <1>1
<1> QED BY <1>6, <1>7, <1>9, <1>10, <1>11

-----------------------------------------------------------------------------
(***************************************************************************)
(* The probes.                                                             *)
(***************************************************************************)

\* From every hash value the probes reach every slot of a table that is
\* small enough.
LEMMA ProbesReachAll ==
  ASSUME NEW h \in 0 .. Width - 1, NEW c \in Nat, c > 0, 4 * c <= Width,
         NEW s \in 0 .. c - 1
  PROVE  \E i \in 0 .. Width - 1 : mem_hash_probe(h, i) % c = s
<1>1. Width \in Nat /\ Width > 1 /\ PowerOfTwo(Width)
  BY WidthAssumption DEF PowerOfTwo
<1>2. \E t \in Nat : 2 * t < Width /\ ((h + t) % Width) % c = s
  <2>1. CASE h + c <= Width
    <3> DEFINE r == h % c
               p == h \div c
               u == IF s >= r THEN s - r ELSE s - r + c
    <3>1. r \in 0 .. c - 1 /\ h = c * p + r /\ p \in Nat
      OBVIOUS
    <3> HIDE DEF r, p
    <3>2. u \in 0 .. c - 1
      BY <3>1
    <3>3. h + u < Width /\ h + u \in Nat
      BY <2>1, <3>2, <1>1
    <3>4. (h + u) % Width = h + u
      BY <3>3, <1>1
    <3>5. h + u = s + c * p \/ h + u = s + c * (p + 1)
      BY <3>1
    <3> HIDE DEF u
    <3>6. (h + u) % c = s
      <4>1. p \in Int /\ p + 1 \in Int /\ h + u \in Int
        BY <3>1, <3>3
      <4>2. PICK q \in Int : h + u = s + c * q
        BY <3>5, <4>1
      <4> DEFINE z == h + u
      <4>3. z \in Int /\ z = s + c * q
        BY <4>1, <4>2
      <4> HIDE DEF z
      <4>4. z % c = s
        BY ONLY <4>3, s \in 0 .. c - 1, c \in Nat, ModUnique
      <4> QED BY <4>4 DEF z
    <3>7. 2 * u < Width
      BY <3>2, <1>1
    <3> QED BY <3>2, <3>4, <3>6, <3>7
  <2>2. CASE h + c > Width
    <3> DEFINE t == Width - h + s
    <3>1. t \in Nat /\ 2 * t < Width
      BY <2>2, <1>1
    <3>2. h + t = s + Width * 1 /\ s \in 0 .. Width - 1
      BY <1>1
    <3>3. (h + t) % Width = s
      BY <3>1, <3>2, <1>1, ModUnique
    <3>4. s % c = s
      OBVIOUS
    <3> QED BY <3>1, <3>3, <3>4
  <2> QED BY <2>1, <2>2, <1>1
<1>3. PICK t \in Nat : 2 * t < Width /\ ((h + t) % Width) % c = s
  BY <1>2
<1>4. PICK i \in 0 .. Width - 1, q \in Int : i * i + i - 2 * t = Width * q
  BY <1>1, PowersHit DEF Hits
<1>5. (i * i + i) % Width = 2 * t
  <2> DEFINE x == i * i + i
             y == Width * q
  <2>1. x \in Int /\ y \in Int /\ x - 2 * t = y
    BY <1>1, <1>4
  <2>2. 2 * t \in 0 .. Width - 1
    BY <1>1, <1>3
  <2>3. x = 2 * t + y
    <3> HIDE DEF x, y
    <3> QED BY <2>1
  <2> HIDE DEF x
  <2>4. x % Width = 2 * t
    BY <1>1, <2>1, <2>2, <2>3, ModUnique
  <2> QED BY <2>4 DEF x
<1>6. ((i * i + i) % Width) \div 2 = t
  BY <1>5
<1> QED BY <1>3, <1>6 DEF mem_hash_probe

-----------------------------------------------------------------------------
(***************************************************************************)
(* The invariant.                                                          *)
(***************************************************************************)

\* The keys in a table, or in a sequence of entries.
KeysIn(t) == {t[i].k : i \in DOMAIN t} \ {0}

Once(t) == \A i, j \in DOMAIN t : t[i].k = t[j].k /\ t[i].k # 0 => i = j

Stored == KeysIn(entries)
Waiting == KeysIn(old)

Shape ==
  /\ hash \in [Key -> HashValue]
  /\ capacity \in {0} \cup Range(HASH_SIZES)
  /\ capacity \in Nat /\ capacity # 1 /\ 4 * capacity <= Width
  /\ entries \in [0 .. capacity - 1 -> Entry]
  /\ \A s \in 0 .. capacity - 1 : entries[s].k = 0 => entries[s].v = 0
  /\ old \in Seq(Entry)
  /\ job \in Entry /\ (job.k = 0 => job = None)
  /\ last \in {<<>>} \cup Key \X Value

Counted == count = Cardinality(Stored)

EachOnce == Once(entries) /\ Once(old) /\ Stored \cap Waiting = {}

\* A key is where a search for it finds it: the probes before it are of other
\* keys.
Reached ==
  \A s \in 0 .. capacity - 1 : entries[s].k # 0 =>
    \E i \in 0 .. Width - 1 :
      /\ Slot(entries[s].k, i) = s
      /\ \A j \in 0 .. i - 1 : ~Ends(entries[s].k, j)

\* Between sets the table may be as full as a set leaves it; in a resize it
\* has room for all keys, moved or not, and the new one.
Room ==
  IF Idle THEN old = <<>> /\ (capacity > 0 => 2 * count <= capacity + 1)
          ELSE capacity > 0 /\ 2 * Cardinality(Stored \cup Waiting) + 1 <= capacity

Inv == Shape /\ Counted /\ EachOnce /\ Reached /\ Room

-----------------------------------------------------------------------------
(***************************************************************************)
(* Searches.                                                               *)
(***************************************************************************)

\* The keys in a table are keys.
LEMMA EntryKeys ==
  ASSUME NEW D, NEW t \in [D -> Entry]
  PROVE  KeysIn(t) \subseteq Key
BY DEF KeysIn, Entry

\* So those it counts are finitely many,
LEMMA StoredCounted ==
  ASSUME Shape
  PROVE  /\ Stored \subseteq Key /\ IsFiniteSet(Stored)
         /\ Cardinality(Stored) \in Nat
         /\ Cardinality(Stored) <= Cardinality(Key)
<1>1. Stored \subseteq Key
  BY EntryKeys DEF Shape, Stored
<1> QED BY <1>1, KeysCounted

\* as are those that a resize has still to move.
LEMMA WaitingCounted ==
  ASSUME Shape
  PROVE  Waiting \subseteq Key
<1>1. old \in [1 .. Len(old) -> Entry]
  BY DEF Shape
<1> QED BY <1>1, EntryKeys DEF Waiting

\* A hash is a u32.
LEMMA HashInWidth ==
  ASSUME Shape, NEW k \in Key
  PROVE  hash[k] \in 0 .. Width - 1
BY HashAssumption DEF Shape

\* A probe stays in the table.
LEMMA SlotInTable ==
  ASSUME Shape, capacity > 0, NEW k \in Key, NEW i \in 0 .. Width - 1
  PROVE  Slot(k, i) \in 0 .. capacity - 1
<1>1. Width \in Nat /\ Width > 1 /\ capacity \in Nat
  BY WidthAssumption DEF Shape
<1> DEFINE p == mem_hash_probe(hash[k], i)
<1>2. p \in Nat
  <2>1. hash[k] \in Nat
    BY HashInWidth, <1>1
  <2>2. i * i + i \in Nat
    BY <1>1
  <2> DEFINE x == i * i + i
  <2> HIDE DEF x
  <2>3. (x % Width) \div 2 \in Nat
    BY <1>1, <2>2 DEF x
  <2> DEFINE y == (x % Width) \div 2
  <2> HIDE DEF y
  <2>4. (hash[k] + y) % Width \in Nat
    BY <1>1, <2>1, <2>3 DEF y
  <2> QED BY <2>4 DEF mem_hash_probe, x, y
<1> HIDE DEF p
<1>3. p % capacity \in 0 .. capacity - 1
  BY <1>1, <1>2
<1> QED BY <1>3 DEF Slot, p

\* A table that is not full has a gap.
LEMMA Gap ==
  ASSUME Shape, Counted, Once(entries), count < capacity
  PROVE  \E s \in 0 .. capacity - 1 : entries[s].k = 0
<1> SUFFICES ASSUME \A s \in 0 .. capacity - 1 : entries[s].k # 0
             PROVE  FALSE
  OBVIOUS
<1> DEFINE S == 0 .. capacity - 1
           f == [s \in S |-> entries[s].k]
<1>1. entries \in [S -> Entry] /\ capacity \in Nat
  BY DEF Shape
<1>2. IsFiniteSet(S) /\ Cardinality(S) = capacity
  <2>1. 0 \in Int /\ capacity - 1 \in Int
    BY <1>1
  <2>2. /\ IsFiniteSet(0 .. capacity - 1)
        /\ Cardinality(0 .. capacity - 1) = IF 0 > capacity - 1 THEN 0 ELSE capacity - 1 - 0 + 1
    BY <2>1, FS_Interval
  <2> QED BY <2>2, <1>1
<1>3. f \in [S -> Stored]
  BY <1>1 DEF Stored, KeysIn
<1>4. IsFiniteSet(Stored) /\ Cardinality(Stored) < Cardinality(S)
  BY <1>2, StoredCounted DEF Counted
<1> HIDE DEF S, f
<1>5. PICK x \in S, y \in S : x # y /\ f[x] = f[y]
  BY <1>2, <1>3, <1>4, FS_PigeonHole
<1>6. entries[x].k = entries[y].k /\ entries[x].k # 0
  BY <1>5 DEF f, S
<1> QED BY <1>1, <1>5, <1>6 DEF Once

\* A search ends in a table that is not full.
LEMMA SearchEnds ==
  ASSUME Shape, Counted, Once(entries), count < capacity, NEW k \in Key
  PROVE  \E i \in 0 .. Width - 1 : Ends(k, i)
<1>1. PICK s \in 0 .. capacity - 1 : entries[s].k = 0
  BY Gap
<1>2. capacity \in Nat /\ capacity > 0 /\ 4 * capacity <= Width
  BY <1>1 DEF Shape
<1>3. PICK i \in 0 .. Width - 1 : mem_hash_probe(hash[k], i) % capacity = s
  BY <1>2, HashInWidth, ProbesReachAll
<1>4. Slot(k, i) = s
  BY <1>3 DEF Slot
<1> QED BY <1>1, <1>4 DEF Ends

\* The probe that ends a search.
LEMMA FoundFirst ==
  ASSUME Shape, Counted, Once(entries), count < capacity, NEW k \in Key
  PROVE  \E i \in 0 .. Width - 1 :
           /\ Found(k) = Slot(k, i)
           /\ Ends(k, i)
           /\ \A j \in 0 .. i - 1 : ~Ends(k, j)
<1> DEFINE S == {i \in 0 .. Width - 1 : Ends(k, i)}
           First(i) == Ends(k, i) /\ \A j \in 0 .. i - 1 : ~Ends(k, j)
<1>0. Width \in Nat
  BY WidthAssumption
<1>1. S # {} /\ S \subseteq Nat
  BY SearchEnds
<1>2. PICK m \in S : \A i \in S : m <= i
  <2> HIDE DEF S
  <2> QED BY <1>1, LeastOfSet
<1>3. m \in 0 .. Width - 1 /\ Ends(k, m)
  OBVIOUS
<1>4. \A j \in 0 .. m - 1 : ~Ends(k, j)
  <2> SUFFICES ASSUME NEW j \in 0 .. m - 1, Ends(k, j) PROVE FALSE
    OBVIOUS
  <2>1. j \in S /\ ~(m <= j)
    BY <1>0, <1>3
  <2> QED BY <1>2, <2>1
<1> DEFINE C == CHOOSE i \in 0 .. Width - 1 : First(i)
<1>5. C \in 0 .. Width - 1 /\ First(C)
  <2>1. First(m) BY <1>3, <1>4
  <2> HIDE DEF First
  <2> QED BY <1>3, <2>1
<1>6. Found(k) = Slot(k, C)
  BY DEF Found
<1> HIDE DEF C
<1> QED BY <1>5, <1>6

\* A search finds its key, when it is there, and a gap, when it is not.
LEMMA FoundIs ==
  ASSUME Shape, Counted, Once(entries), Reached, count < capacity, NEW k \in Key
  PROVE  /\ Found(k) \in 0 .. capacity - 1
         /\ entries[Found(k)].k = IF k \in Stored THEN k ELSE 0
         /\ \E i \in 0 .. Width - 1 :
              /\ Found(k) = Slot(k, i)
              /\ \A j \in 0 .. i - 1 : ~Ends(k, j)
<1>1. PICK i \in 0 .. Width - 1 :
        Found(k) = Slot(k, i) /\ Ends(k, i) /\ \A j \in 0 .. i - 1 : ~Ends(k, j)
  BY FoundFirst
<1>2. capacity \in Nat /\ entries \in [0 .. capacity - 1 -> Entry]
  BY DEF Shape
<1>3. capacity > 0
  <2>1. count \in Nat
    BY StoredCounted DEF Counted
  <2> QED BY <1>2, <2>1
<1>4. Found(k) \in 0 .. capacity - 1
  BY <1>1, <1>3, SlotInTable
<1>5. k # 0
  BY KeyAssumption, WidthAssumption
<1>6. entries[Found(k)].k \in {0, k}
  BY <1>1 DEF Ends
<1>7. CASE k \in Stored
  <2>1. PICK s \in 0 .. capacity - 1 : entries[s].k = k
    BY <1>2, <1>7 DEF Stored, KeysIn
  <2>2. PICK n \in 0 .. Width - 1 :
          Slot(k, n) = s /\ \A j \in 0 .. n - 1 : ~Ends(k, j)
    BY <1>5, <2>1 DEF Reached
  <2>3. Ends(k, n)
    BY <2>1, <2>2 DEF Ends
  <2>4. n = i
    BY <1>1, <2>2, <2>3, WidthAssumption
  <2> QED BY <1>1, <1>4, <1>7, <2>1, <2>2, <2>4
<1>8. CASE k \notin Stored
  <2>1. entries[Found(k)].k # k
    BY <1>2, <1>4, <1>5, <1>8 DEF Stored, KeysIn
  <2> QED BY <1>1, <1>4, <1>6, <1>8, <2>1
<1> QED BY <1>7, <1>8

-----------------------------------------------------------------------------
(***************************************************************************)
(* Inserting.                                                              *)
(***************************************************************************)

\* The entries of a table that are in use.
LiveIn(t) == {e \in Range(t) : e.k # 0}

Live == LiveIn(entries) \cup LiveIn(old)

\* The entries in use after a set.
With(L, k, v) == {e \in L : e.k # k} \cup {[k |-> k, v |-> v]}

\* What a set does to a table that is not full: one entry, found where a
\* search for its key ends.
LEMMA InsertStep ==
  ASSUME Shape, Counted, Once(entries), Reached, count < capacity,
         NEW k \in Key, NEW v \in Value, Insert(k, v),
         UNCHANGED <<hash, capacity>>
  PROVE  /\ entries' \in [0 .. capacity' - 1 -> Entry]
         /\ \A s \in 0 .. capacity' - 1 : entries'[s].k = 0 => entries'[s].v = 0
         /\ Stored' = Stored \cup {k}
         /\ LiveIn(entries') = With(LiveIn(entries), k, v)
         /\ Once(entries') /\ Counted' /\ Reached'
<1> DEFINE D == 0 .. capacity - 1
           new == [k |-> k, v |-> v]
<1>1. PICK s \in D :
        /\ s = Found(k)
        /\ entries[s].k = IF k \in Stored THEN k ELSE 0
        /\ \E i \in 0 .. Width - 1 :
             /\ s = Slot(k, i)
             /\ \A j \in 0 .. i - 1 : ~Ends(k, j)
  BY FoundIs
<1>2. entries \in [D -> Entry] /\ k # 0 /\ new \in Entry /\ new.k = k /\ new.v = v
  BY KeyAssumption, WidthAssumption DEF Shape, Entry
<1>3. /\ entries' = [entries EXCEPT ![s] = new]
      /\ count' = IF entries[s].k = 0 THEN count + 1 ELSE count
  BY <1>1 DEF Insert
<1> HIDE DEF new
<1>4. \A t \in D : entries'[t] = IF t = s THEN new ELSE entries[t]
  BY <1>2, <1>3
<1>5. entries' \in [D -> Entry]
  BY <1>2, <1>3
<1>6. \A t \in D : t # s => entries[t].k # k
  <2> SUFFICES ASSUME NEW t \in D, t # s, entries[t].k = k PROVE FALSE
    OBVIOUS
  <2>1. k \in Stored
    BY <1>2 DEF Stored, KeysIn
  <2> QED BY <1>1, <1>2, <2>1 DEF Once
<1>7. Stored' = Stored \cup {k}
  <2>1. Stored = {entries[t].k : t \in D} \ {0}
    BY <1>2 DEF Stored, KeysIn
  <2>2. Stored' = {entries'[t].k : t \in D} \ {0}
    BY <1>5 DEF Stored, KeysIn
  <2>3. ASSUME NEW x \in Stored' PROVE x \in Stored \cup {k}
    <3>1. PICK t \in D : x = entries'[t].k /\ x # 0
      BY <2>2, <2>3
    <3> QED BY <1>2, <1>4, <2>1, <3>1
  <2>4. ASSUME NEW x \in Stored PROVE x \in Stored'
    <3>1. PICK t \in D : x = entries[t].k /\ x # 0
      BY <2>1, <2>4
    <3>2. CASE t = s
      BY <1>1, <1>2, <1>4, <2>2, <3>1, <3>2
    <3>3. CASE t # s
      BY <1>4, <2>2, <3>1, <3>3
    <3> QED BY <3>2, <3>3
  <2>5. k \in Stored'
    BY <1>1, <1>2, <1>4, <2>2
  <2> QED BY <2>3, <2>4, <2>5
<1>8. LiveIn(entries') = {e \in LiveIn(entries) : e.k # k} \cup {new}
  <2>1. \A e : e \in LiveIn(entries) <=> \E t \in D : e = entries[t] /\ e.k # 0
    BY <1>2 DEF LiveIn, Range
  <2>2. \A e : e \in LiveIn(entries') <=> \E t \in D : e = entries'[t] /\ e.k # 0
    BY <1>5 DEF LiveIn, Range
  <2>3. ASSUME NEW e \in LiveIn(entries')
        PROVE  e \in {f \in LiveIn(entries) : f.k # k} \cup {new}
    <3>1. PICK t \in D : e = entries'[t] /\ e.k # 0
      BY <2>2, <2>3
    <3>2. CASE t = s
      BY <1>4, <3>1, <3>2
    <3>3. CASE t # s
      BY <1>4, <1>6, <2>1, <3>1, <3>3
    <3> QED BY <3>2, <3>3
  <2>4. ASSUME NEW e \in LiveIn(entries), e.k # k
        PROVE  e \in LiveIn(entries')
    <3>1. PICK t \in D : e = entries[t] /\ e.k # 0
      BY <2>1, <2>4
    <3>2. t # s
      BY <1>1, <2>4, <3>1
    <3> QED BY <1>4, <2>2, <3>1, <3>2
  <2>5. new \in LiveIn(entries')
    BY <1>1, <1>2, <1>4, <2>2
  <2> QED BY <2>3, <2>4, <2>5
<1>9. Once(entries')
  <2> SUFFICES ASSUME NEW x \in D, NEW y \in D,
                      entries'[x].k = entries'[y].k, entries'[x].k # 0
               PROVE  x = y
    BY <1>5 DEF Once
  <2>1. CASE x = s \/ y = s
    BY <1>2, <1>4, <1>6, <2>1
  <2>2. CASE x # s /\ y # s
    BY <1>2, <1>4, <2>2 DEF Once
  <2> QED BY <2>1, <2>2
<1>10. Counted'
  <2>1. IsFiniteSet(Stored) /\ Cardinality(Stored) \in Nat /\ count = Cardinality(Stored)
    BY StoredCounted DEF Counted
  <2>2. CASE k \in Stored
    <3>1. Stored' = Stored
      BY <1>7, <2>2
    <3>2. count' = count
      BY <1>1, <1>2, <1>3, <2>2
    <3> QED BY <2>1, <3>1, <3>2 DEF Counted
  <2>3. CASE k \notin Stored
    <3>1. Cardinality(Stored \cup {k}) = Cardinality(Stored) + 1
      BY <2>1, <2>3, FS_AddElement
    <3>2. count' = count + 1
      BY <1>1, <1>3, <2>3
    <3> QED BY <1>7, <2>1, <3>1, <3>2 DEF Counted
  <2> QED BY <2>2, <2>3
<1>11. Reached'
  <2>1. \A x \in Key, i \in 0 .. Width - 1 : Slot(x, i)' = Slot(x, i)
    BY DEF Slot
  <2>2. ASSUME NEW x \in Key, NEW j \in 0 .. Width - 1, ~Ends(x, j),
               x = k => Slot(x, j) # s
        PROVE  ~Ends(x, j)'
    <3>1. Slot(x, j) \in D
      BY <1>1, SlotInTable DEF Shape
    <3>2. CASE Slot(x, j) = s
      <4>1. entries'[Slot(x, j)].k = k
        BY <1>2, <1>4, <3>1, <3>2
      <4>2. x # k
        BY <2>2, <3>2
      <4> QED BY <1>2, <2>1, <4>1, <4>2 DEF Ends
    <3>3. CASE Slot(x, j) # s
      BY <1>4, <2>1, <2>2, <3>1, <3>3 DEF Ends
    <3> QED BY <3>2, <3>3
  <2>3. ASSUME NEW x \in Key, NEW i \in 0 .. Width - 1,
               \A j \in 0 .. i - 1 : ~Ends(x, j) /\ (x = k => Slot(x, j) # s)
        PROVE  \A j \in 0 .. i - 1 : ~Ends(x, j)'
    <3> SUFFICES ASSUME NEW j \in 0 .. i - 1 PROVE ~Ends(x, j)'
      OBVIOUS
    <3>1. j \in 0 .. Width - 1
      BY WidthAssumption
    <3> QED BY <2>2, <2>3, <3>1
  <2>4. ASSUME NEW t \in D, NEW x \in Key, x = entries'[t].k
        PROVE  \E i \in 0 .. Width - 1 :
                 Slot(x, i)' = t /\ \A j \in 0 .. i - 1 : ~Ends(x, j)'
    <3>1. CASE t = s
      <4>1. x = k
        BY <1>2, <1>4, <2>4, <3>1
      <4>2. PICK i \in 0 .. Width - 1 :
              s = Slot(k, i) /\ \A j \in 0 .. i - 1 : ~Ends(k, j)
        BY <1>1
      <4>3. \A j \in 0 .. i - 1 : Slot(k, j) # s
        BY <1>1, <4>2 DEF Ends
      <4>4. \A j \in 0 .. i - 1 : ~Ends(x, j)'
        BY <2>3, <4>1, <4>2, <4>3
      <4>5. Slot(x, i)' = t
        BY <2>1, <3>1, <4>1, <4>2
      <4> QED BY <4>4, <4>5
    <3>2. CASE t # s
      <4>1. entries[t].k = x /\ x # k /\ x # 0
        BY <1>4, <1>6, <2>4, <3>2, KeyAssumption, WidthAssumption
      <4>2. PICK i \in 0 .. Width - 1 :
              Slot(x, i) = t /\ \A j \in 0 .. i - 1 : ~Ends(x, j)
        BY <4>1 DEF Reached
      <4>3. \A j \in 0 .. i - 1 : ~Ends(x, j)'
        BY <2>3, <4>1, <4>2
      <4>4. Slot(x, i)' = t
        BY <2>1, <4>2
      <4> QED BY <4>3, <4>4
    <3> QED BY <3>1, <3>2
  <2>5. \A t \in D : entries'[t].k # 0 => entries'[t].k \in Key
    BY <1>5 DEF Entry
  <2> QED BY <2>4, <2>5 DEF Reached, Slot, Ends
<1>12. \A t \in D : entries'[t].k = 0 => entries'[t].v = 0
  BY <1>2, <1>4 DEF Shape
<1> QED BY <1>5, <1>7, <1>8, <1>9, <1>10, <1>11, <1>12 DEF new, With

-----------------------------------------------------------------------------
(***************************************************************************)
(* The invariant holds.                                                    *)
(***************************************************************************)

\* The entries that a resize has still to move.
LEMMA TailStep ==
  ASSUME NEW o \in Seq(Entry), o # <<>>, Once(o)
  PROVE  /\ Head(o) \in Entry /\ Tail(o) \in Seq(Entry) /\ Once(Tail(o))
         /\ KeysIn(Tail(o)) = KeysIn(o) \ {Head(o).k}
         /\ LiveIn(Tail(o)) = {e \in LiveIn(o) : e.k # Head(o).k}
         /\ Head(o).k # 0 => Head(o) \in LiveIn(o) /\ Head(o).k \in KeysIn(o)
<1> DEFINE n == Len(o)
           h == o[1]
           t == Tail(o)
<1>1. n \in Nat /\ n > 0 /\ o \in [1 .. n -> Entry] /\ h = Head(o) /\ h \in Entry
  OBVIOUS
<1>2. t \in Seq(Entry) /\ DOMAIN t = 1 .. n - 1 /\ \A i \in 1 .. n - 1 : t[i] = o[i + 1]
  BY <1>1
<1>3. DOMAIN o = 1 .. n
  BY <1>1
<1> HIDE DEF n, h, t
<1>4. \A i \in 1 .. n : o[i].k = h.k /\ h.k # 0 => i = 1
  BY <1>1, <1>3 DEF Once, h
<1>5. \A e : (\E i \in 1 .. n - 1 : e = t[i]) <=> (\E i \in 2 .. n : e = o[i])
  <2>1. ASSUME NEW i \in 1 .. n - 1 PROVE i + 1 \in 2 .. n /\ t[i] = o[i + 1]
    BY <1>1, <1>2
  <2>2. ASSUME NEW i \in 2 .. n PROVE i - 1 \in 1 .. n - 1 /\ o[i] = t[i - 1]
    <3>1. i - 1 \in 1 .. n - 1 /\ (i - 1) + 1 = i
      BY <1>1
    <3> QED BY <1>2, <3>1
  <2> QED BY <2>1, <2>2
<1>6. Once(t)
  <2> SUFFICES ASSUME NEW i \in 1 .. n - 1, NEW j \in 1 .. n - 1,
                      t[i].k = t[j].k, t[i].k # 0
               PROVE  i = j
    BY <1>2 DEF Once
  <2>1. i + 1 \in 1 .. n /\ j + 1 \in 1 .. n
    BY <1>1
  <2>2. o[i + 1].k = o[j + 1].k /\ o[i + 1].k # 0
    BY <1>2
  <2>3. i + 1 = j + 1
    BY <1>3, <2>1, <2>2 DEF Once
  <2> QED BY <2>3
<1>7. \A e : (\E i \in 1 .. n : e = o[i]) <=> e = h \/ (\E i \in 1 .. n - 1 : e = t[i])
  <2>1. \A i \in 1 .. n : i = 1 \/ i \in 2 .. n
    BY <1>1
  <2>2. \A i \in 2 .. n : i \in 1 .. n
    BY <1>1
  <2>3. 1 \in 1 .. n
    BY <1>1
  <2> QED BY <1>5, <2>1, <2>2, <2>3 DEF h
<1>8. \A i \in 1 .. n - 1 : t[i].k = h.k => h.k = 0
  <2> SUFFICES ASSUME NEW i \in 1 .. n - 1, t[i].k = h.k, h.k # 0 PROVE FALSE
    OBVIOUS
  <2>1. i + 1 \in 1 .. n /\ i + 1 # 1 /\ o[i + 1].k = h.k
    BY <1>1, <1>2
  <2> QED BY <1>4, <2>1
<1>9. KeysIn(t) = KeysIn(o) \ {h.k}
  <2>1. \A x : x \in KeysIn(t) <=> (\E i \in 1 .. n - 1 : x = t[i].k) /\ x # 0
    BY <1>2 DEF KeysIn
  <2>2. \A x : x \in KeysIn(o) <=> (\E i \in 1 .. n : x = o[i].k) /\ x # 0
    BY <1>3 DEF KeysIn
  <2>4. ASSUME NEW x \in KeysIn(t) PROVE x \in KeysIn(o) /\ x # h.k
    <3>1. PICK i \in 1 .. n - 1 : x = t[i].k /\ x # 0
      BY <2>1
    <3>2. PICK j \in 1 .. n : t[i] = o[j]
      BY <1>7
    <3>3. x \in KeysIn(o)
      BY <2>2, <3>1, <3>2
    <3> QED BY <1>8, <3>1, <3>3
  <2>5. ASSUME NEW x \in KeysIn(o), x # h.k PROVE x \in KeysIn(t)
    <3>1. PICK j \in 1 .. n : x = o[j].k /\ x # 0
      BY <2>2
    <3>2. PICK i \in 1 .. n - 1 : o[j] = t[i]
      BY <1>7, <2>5, <3>1
    <3> QED BY <2>1, <3>1, <3>2
  <2> QED BY <2>4, <2>5
<1>10. LiveIn(t) = {e \in LiveIn(o) : e.k # h.k}
  <2>1. \A e : e \in LiveIn(t) <=> (\E i \in 1 .. n - 1 : e = t[i]) /\ e.k # 0
    BY <1>2 DEF LiveIn, Range
  <2>2. \A e : e \in LiveIn(o) <=> (\E i \in 1 .. n : e = o[i]) /\ e.k # 0
    BY <1>3 DEF LiveIn, Range
  <2>3. ASSUME NEW e PROVE e \in LiveIn(t) <=> e \in LiveIn(o) /\ e.k # h.k
    <3>1. (\E i \in 1 .. n : e = o[i]) <=> e = h \/ (\E i \in 1 .. n - 1 : e = t[i])
      BY <1>7
    <3>2. (\E i \in 1 .. n - 1 : e = t[i]) /\ e.k = h.k => e.k = 0
      BY <1>8
    <3> QED BY <2>1, <2>2, <3>1, <3>2
  <2> QED BY <2>3
<1>11. h.k # 0 => h \in LiveIn(o) /\ h.k \in KeysIn(o)
  <2>1. 1 \in DOMAIN o /\ h = o[1]
    BY <1>1, <1>3 DEF h
  <2> QED BY <2>1 DEF LiveIn, KeysIn, Range
<1> QED BY <1>1, <1>2, <1>6, <1>9, <1>10, <1>11 DEF t

\* The table of a new hash is no table.
LEMMA NothingThere ==
  /\ KeysIn(<<>>) = {} /\ LiveIn(<<>>) = {} /\ Once(<<>>)
  /\ <<>> \in Seq(Entry)
BY DEF KeysIn, LiveIn, Range, Once

\* A table fresh from calloc holds nothing.
LEMMA EmptyTable ==
  ASSUME NEW D, NEW t, t = [i \in D |-> Unused]
  PROVE  /\ t \in [D -> Entry] /\ \A i \in D : t[i].k = 0 /\ t[i].v = 0
         /\ KeysIn(t) = {} /\ LiveIn(t) = {} /\ Once(t)
<1>1. DOMAIN t = D /\ \A i \in D : t[i] = Unused
  OBVIOUS
<1>2. Unused \in Entry /\ Unused.k = 0 /\ Unused.v = 0
  BY ValueAssumption DEF Unused, Entry
<1>3. t \in [D -> Entry]
  BY <1>2
<1> HIDE DEF Unused
<1> QED BY <1>1, <1>2, <1>3 DEF KeysIn, LiveIn, Range, Once

\* A new hash.
LEMMA InitInv == Init => Inv
<1> SUFFICES ASSUME Init PROVE Inv
  OBVIOUS
<1> DEFINE D == 0 .. capacity - 1
<1>1. D = {} /\ entries = [i \in D |-> Unused] /\ capacity = 0
  BY DEF Init
<1>2. /\ entries \in [D -> Entry]
      /\ KeysIn(entries) = {} /\ Once(entries)
  BY <1>1, EmptyTable
<1>3. Shape
  <2>1. old \in Seq(Entry) /\ last = <<>>
    BY NothingThere DEF Init
  <2>2. job \in Entry /\ job = None
    BY ValueAssumption DEF Init, None, Unused, Entry
  <2>3. hash \in [Key -> HashValue]
    BY DEF Init
  <2> QED BY <1>1, <1>2, <2>1, <2>2, <2>3, WidthAssumption DEF Shape
<1>4. Counted
  BY <1>2, FS_EmptySet DEF Init, Counted, Stored
<1>5. EachOnce
  BY <1>2, NothingThere DEF Init, EachOnce, Stored, Waiting
<1>6. Reached
  BY <1>1 DEF Reached
<1>7. Room
  BY <1>1 DEF Room, Idle, Init
<1> QED BY <1>3, <1>4, <1>5, <1>6, <1>7 DEF Inv

\* A set that finds room.
LEMMA SetInPlaceStep ==
  ASSUME Inv, NEW k \in Key, NEW v \in Value, SetInPlace(k, v)
  PROVE  Inv' /\ Live' = With(Live, k, v)
<1>1. /\ Idle /\ ~Full /\ Insert(k, v)
      /\ UNCHANGED <<hash, capacity, old, job>> /\ last' = <<k, v>>
  BY DEF SetInPlace
<1>2. Shape /\ Counted /\ EachOnce /\ Once(entries) /\ Reached /\ old = <<>>
  BY <1>1 DEF Inv, Room, EachOnce
<1>3. count \in Nat /\ capacity \in Nat /\ 2 * count + 1 <= capacity
  BY <1>1, <1>2, StoredCounted DEF Full, Shape, Counted
<1>4. count < capacity
  BY <1>3
<1>5. /\ entries' \in [0 .. capacity' - 1 -> Entry]
      /\ \A s \in 0 .. capacity' - 1 : entries'[s].k = 0 => entries'[s].v = 0
      /\ LiveIn(entries') = With(LiveIn(entries), k, v)
      /\ Once(entries') /\ Counted' /\ Reached'
  BY <1>1, <1>2, <1>4, InsertStep
<1>6. Shape'
  <2>1. last' \in Key \X Value
    BY <1>1
  <2>2. None' = None
    BY DEF None, Unused
  <2> QED BY <1>1, <1>2, <1>5, <2>1, <2>2 DEF Shape
<1>7. EachOnce'
  BY <1>1, <1>2, <1>5, NothingThere DEF EachOnce, Waiting
<1>8. count' \in Nat /\ count' <= count + 1
  <2>1. count' = IF entries[Found(k)].k = 0 THEN count + 1 ELSE count
    BY <1>1 DEF Insert
  <2> QED BY <1>3, <2>1
<1>9. Room'
  <2>1. Idle'
    BY <1>1 DEF Idle, None, Unused
  <2>2. old' = <<>>
    BY <1>1, <1>2
  <2>3. capacity' = capacity
    BY <1>1
  <2>4. 2 * count' <= capacity + 1
    <3>1. PICK a \in Nat, b \in Nat, c \in Nat :
            a = count /\ b = count' /\ c = capacity
      BY <1>3, <1>8
    <3>2. b <= a + 1 /\ 2 * a + 1 <= c
      BY <1>3, <1>8, <3>1
    <3>3. 2 * b <= c + 1
      BY <3>2
    <3> QED BY <3>1, <3>3
  <2> QED BY <2>1, <2>2, <2>3, <2>4 DEF Room
<1>10. LiveIn(old) = {} /\ LiveIn(old') = {}
  BY <1>1, <1>2, NothingThere
<1>11. Live' = With(Live, k, v)
  BY <1>5, <1>10 DEF Live
<1> QED BY <1>5, <1>6, <1>7, <1>9, <1>11 DEF Inv

\* A set that starts a resize.
LEMMA ResizeStep ==
  ASSUME Inv, NEW k \in Key, NEW v \in Value, mem_hash_resize(k, v)
  PROVE  Inv' /\ Live' = Live
<1> DEFINE D == 0 .. capacity - 1
<1>1. /\ Idle
      /\ capacity' = NewCapacity
      /\ entries' = [i \in 0 .. NewCapacity - 1 |-> Unused]
      /\ old' = [i \in 1 .. capacity |-> entries[i - 1]]
      /\ count' = 0
      /\ job' = [k |-> k, v |-> v]
      /\ hash' = hash /\ last' = last
  BY DEF mem_hash_resize
<1>2. Shape /\ Counted /\ Once(entries)
  BY DEF Inv, EachOnce
<1>3. capacity \in Nat /\ entries \in [D -> Entry]
  BY <1>2 DEF Shape
<1>4. count \in 0 .. Cardinality(Key) /\ count = Cardinality(Stored)
  BY <1>2, StoredCounted, KeysCounted DEF Counted
<1>5. /\ capacity' \in Range(HASH_SIZES)
      /\ capacity' \in Nat /\ capacity' > 2
      /\ capacity' >= 2 * count + 1
      /\ 4 * capacity' <= Width
  BY <1>1, <1>4, NewCapacityFits
<1>6. /\ entries' \in [0 .. capacity' - 1 -> Entry]
      /\ \A s \in 0 .. capacity' - 1 : entries'[s].k = 0 /\ entries'[s].v = 0
      /\ KeysIn(entries') = {} /\ LiveIn(entries') = {} /\ Once(entries')
  <2>1. PICK D2, t : D2 = 0 .. NewCapacity - 1 /\ t = entries'
    OBVIOUS
  <2>2. D2 = 0 .. capacity' - 1
    BY <1>1, <2>1
  <2>3. /\ t \in [D2 -> Entry] /\ \A i \in D2 : t[i].k = 0 /\ t[i].v = 0
        /\ KeysIn(t) = {} /\ LiveIn(t) = {} /\ Once(t)
    <3>1. t = [i \in D2 |-> Unused]
      BY <1>1, <2>1
    <3> QED BY ONLY <3>1, EmptyTable
  <2> QED BY <2>1, <2>2, <2>3
<1>7. /\ old' \in Seq(Entry) /\ DOMAIN old' = 1 .. capacity
      /\ \A i \in 1 .. capacity : old'[i] = entries[i - 1]
  <2>1. \A i \in 1 .. capacity : i - 1 \in D
    BY <1>3
  <2> QED BY <1>1, <1>3, <2>1
<1>8. \A i \in 1 .. capacity : i - 1 \in D
  BY <1>3
<1>9. \A s \in D : s + 1 \in 1 .. capacity /\ (s + 1) - 1 = s
  BY <1>3
<1>10. \A e : (\E i \in 1 .. capacity : e = old'[i]) <=> (\E s \in D : e = entries[s])
  <2>1. ASSUME NEW s \in D PROVE s + 1 \in 1 .. capacity /\ old'[s + 1] = entries[s]
    BY <1>3, <1>7, <1>9
  <2> QED BY <1>7, <1>8, <2>1
<1>11. Waiting' = Stored
  <2>1. \A x : x \in KeysIn(old') <=> (\E i \in 1 .. capacity : x = old'[i].k) /\ x # 0
    BY <1>7 DEF KeysIn
  <2>2. \A x : x \in KeysIn(entries) <=> (\E s \in D : x = entries[s].k) /\ x # 0
    BY <1>3 DEF KeysIn
  <2>3. ASSUME NEW x
        PROVE  (\E i \in 1 .. capacity : x = old'[i].k) <=> (\E s \in D : x = entries[s].k)
    <3>1. ASSUME NEW i \in 1 .. capacity, x = old'[i].k
          PROVE  \E s \in D : x = entries[s].k
      BY <1>7, <1>8, <3>1
    <3>2. ASSUME NEW s \in D, x = entries[s].k
          PROVE  \E i \in 1 .. capacity : x = old'[i].k
      BY <1>7, <1>9, <3>2
    <3> QED BY <3>1, <3>2
  <2>4. KeysIn(old') = KeysIn(entries)
    BY <2>1, <2>2, <2>3
  <2> QED BY <2>4 DEF Waiting, Stored
<1>12. LiveIn(old') = LiveIn(entries)
  <2>1. Range(old') = Range(entries)
    BY <1>3, <1>7, <1>10 DEF Range
  <2> QED BY <2>1 DEF LiveIn
<1>13. Once(old')
  <2> SUFFICES ASSUME NEW i \in 1 .. capacity, NEW j \in 1 .. capacity,
                      old'[i].k = old'[j].k, old'[i].k # 0
               PROVE  i = j
    BY <1>7 DEF Once
  <2>1. i - 1 \in DOMAIN entries /\ j - 1 \in DOMAIN entries
    BY <1>3, <1>8
  <2>2. i - 1 = j - 1
    BY <1>2, <1>7, <2>1 DEF Once
  <2> QED BY <2>2
<1>14. Stored' = {}
  BY <1>6 DEF Stored
<1>15. job' \in Entry /\ job'.k = k /\ k # 0
  BY <1>1, KeyAssumption, WidthAssumption DEF Entry
<1>16. Shape'
  <2>1. capacity' # 1
    BY <1>5
  <2> QED BY <1>1, <1>2, <1>5, <1>6, <1>7, <1>15, <2>1 DEF Shape
<1>17. Counted'
  BY <1>1, <1>14, FS_EmptySet DEF Counted
<1>18. EachOnce'
  BY <1>6, <1>13, <1>14 DEF EachOnce
<1>19. Reached'
  BY <1>6 DEF Reached
<1>20. ~Idle'
  BY <1>15 DEF Idle, None, Unused
<1>21. Room'
  <2>1. Stored' \cup Waiting' = Stored
    BY <1>11, <1>14
  <2>2. Cardinality(Stored' \cup Waiting') = count /\ count \in Nat
    BY <1>2, <1>4, <2>1, StoredCounted
  <2>3. capacity' > 0 /\ 2 * Cardinality(Stored' \cup Waiting') + 1 <= capacity'
    BY <1>5, <2>2
  <2> QED BY <1>20, <2>3 DEF Room
<1>22. Live' = Live
  <2>1. LiveIn(old) = {}
    BY <1>1, NothingThere DEF Inv, Room
  <2> QED BY <1>6, <1>12, <2>1 DEF Live
<1> QED BY <1>16, <1>17, <1>18, <1>19, <1>21, <1>22 DEF Inv

\* What a move leaves of the entries in use, here or there, are all of them.
LEMMA MoveStep ==
  ASSUME Inv, Move
  PROVE  Inv' /\ Live' = Live
<1>1. /\ old # <<>> /\ old' = Tail(old)
      /\ UNCHANGED <<hash, capacity, job, last>>
  BY DEF Move
<1>2. ~Idle /\ ~Idle'
  BY <1>1 DEF Inv, Room, Idle
<1>3. /\ Shape /\ Counted /\ EachOnce /\ Once(entries) /\ Once(old) /\ Reached
      /\ Stored \cap Waiting = {} /\ old \in Seq(Entry)
      /\ capacity > 0 /\ 2 * Cardinality(Stored \cup Waiting) + 1 <= capacity
  BY <1>2 DEF Inv, EachOnce, Room, Shape
<1> DEFINE h == Head(old)
<1>4. /\ h \in Entry /\ old' \in Seq(Entry) /\ Once(old')
      /\ Waiting' = Waiting \ {h.k}
      /\ LiveIn(old') = {e \in LiveIn(old) : e.k # h.k}
      /\ h.k # 0 => h \in LiveIn(old) /\ h.k \in Waiting
  BY <1>1, <1>3, TailStep DEF Waiting
<1>5. CASE h.k = 0
  <2>1. UNCHANGED <<entries, count>>
    BY <1>5 DEF Move
  <2>2. Waiting' = Waiting /\ LiveIn(old') = LiveIn(old)
    BY <1>4, <1>5 DEF LiveIn, Waiting, KeysIn
  <2>3. Stored' = Stored
    BY <2>1 DEF Stored
  <2>4. Shape'
    BY <1>1, <1>3, <1>4, <2>1 DEF Shape
  <2>5. Counted' /\ Reached'
    BY <1>1, <1>3, <2>1, <2>3 DEF Counted, Reached, Slot, Ends
  <2>6. EachOnce'
    BY <1>3, <1>4, <2>1, <2>2, <2>3 DEF EachOnce
  <2>7. Room'
    BY <1>1, <1>2, <1>3, <2>2, <2>3 DEF Room
  <2> QED BY <2>1, <2>2, <2>4, <2>5, <2>6, <2>7 DEF Inv, Live
<1>6. CASE h.k # 0
  <2>1. ~Full /\ Insert(h.k, h.v)
    BY <1>6 DEF Move
  <2>2. h.k \in Key /\ h.v \in Value /\ h = [k |-> h.k, v |-> h.v]
    BY <1>4, <1>6 DEF Entry
  <2>3. count < capacity
    BY <1>3, <2>1, StoredCounted DEF Full, Shape, Counted
  <2>4. /\ entries' \in [0 .. capacity' - 1 -> Entry]
        /\ \A s \in 0 .. capacity' - 1 : entries'[s].k = 0 => entries'[s].v = 0
        /\ Stored' = Stored \cup {h.k}
        /\ LiveIn(entries') = {e \in LiveIn(entries) : e.k # h.k} \cup {h}
        /\ Once(entries') /\ Counted' /\ Reached'
    <3> HIDE DEF h
    <3> QED BY <1>1, <1>3, <2>1, <2>2, <2>3, InsertStep DEF With
  <2> HIDE DEF h
  <2>5. \A e \in LiveIn(entries) : e.k \in Stored
    BY DEF LiveIn, Stored, KeysIn, Range
  <2>6. h.k \notin Stored
    BY <1>3, <1>4, <1>6
  <2>7. LiveIn(entries') = LiveIn(entries) \cup {h}
    BY <2>4, <2>5, <2>6
  <2>8. \A e \in LiveIn(old) : e.k = h.k => e = h
    <3> SUFFICES ASSUME NEW e \in LiveIn(old), e.k = h.k PROVE e = h
      OBVIOUS
    <3>1. PICK i \in DOMAIN old : e = old[i]
      BY DEF LiveIn, Range
    <3>2. PICK j \in DOMAIN old : h = old[j]
      BY <1>4, <1>6 DEF LiveIn, Range
    <3> QED BY <1>3, <1>6, <3>1, <3>2 DEF Once
  <2>9. LiveIn(entries') \cup LiveIn(old') = LiveIn(entries) \cup LiveIn(old)
    BY <1>4, <1>6, <2>7, <2>8
  <2>10. Stored' \cup Waiting' = Stored \cup Waiting /\ Stored' \cap Waiting' = {}
    BY <1>3, <1>4, <1>6, <2>4
  <2>11. Shape'
    BY <1>1, <1>3, <1>4, <2>4 DEF Shape
  <2>12. EachOnce'
    BY <1>4, <2>4, <2>10 DEF EachOnce
  <2>13. Room'
    BY <1>1, <1>2, <1>3, <2>10 DEF Room
  <2> QED BY <2>4, <2>9, <2>11, <2>12, <2>13 DEF Inv, Live
<1> QED BY <1>5, <1>6

\* The set that waited for a resize.
LEMMA SetAfterResizeStep ==
  ASSUME Inv, SetAfterResize
  PROVE  /\ Inv' /\ job.k \in Key /\ job.v \in Value
         /\ Live' = With(Live, job.k, job.v)
<1>1. /\ ~Idle /\ old = <<>> /\ Insert(job.k, job.v)
      /\ UNCHANGED <<hash, capacity, old>> /\ job' = None
      /\ last' = <<job.k, job.v>>
  BY DEF SetAfterResize
<1>2. /\ Shape /\ Counted /\ EachOnce /\ Once(entries) /\ Reached
      /\ capacity > 0 /\ 2 * Cardinality(Stored \cup Waiting) + 1 <= capacity
  BY <1>1 DEF Inv, EachOnce, Room
<1>3. job.k \in Key /\ job.v \in Value
  BY <1>1, <1>2 DEF Shape, Idle, Entry
<1>4. Waiting = {} /\ Stored \cup Waiting = Stored
  BY <1>1, NothingThere DEF Waiting
<1>5. count \in Nat /\ capacity \in Nat /\ 2 * count + 1 <= capacity
  BY <1>2, <1>4, StoredCounted DEF Shape, Counted
<1>6. count < capacity
  BY <1>5
<1>7. /\ entries' \in [0 .. capacity' - 1 -> Entry]
      /\ \A s \in 0 .. capacity' - 1 : entries'[s].k = 0 => entries'[s].v = 0
      /\ LiveIn(entries') = With(LiveIn(entries), job.k, job.v)
      /\ Once(entries') /\ Counted' /\ Reached'
  <2> DEFINE k == job.k
             v == job.v
  <2>1. k \in Key /\ v \in Value /\ Insert(k, v)
    BY <1>1, <1>3
  <2> HIDE DEF k, v
  <2>2. /\ entries' \in [0 .. capacity' - 1 -> Entry]
        /\ \A s \in 0 .. capacity' - 1 : entries'[s].k = 0 => entries'[s].v = 0
        /\ LiveIn(entries') = With(LiveIn(entries), k, v)
        /\ Once(entries') /\ Counted' /\ Reached'
    BY <1>1, <1>2, <1>6, <2>1, InsertStep
  <2> QED BY <2>2 DEF k, v
<1>8. None \in Entry
  BY ValueAssumption DEF None, Unused, Entry
<1>9. Shape'
  <2>1. last' \in Key \X Value
    BY <1>1, <1>3
  <2>2. job' = None' /\ job' \in Entry
    BY <1>1, <1>8 DEF None, Unused
  <2> QED BY <1>1, <1>2, <1>7, <2>1, <2>2 DEF Shape
<1>10. EachOnce'
  BY <1>1, <1>7, NothingThere DEF EachOnce, Waiting
<1>11. count' \in Nat /\ count' <= count + 1
  <2>1. count' = IF entries[Found(job.k)].k = 0 THEN count + 1 ELSE count
    BY <1>1 DEF Insert
  <2> QED BY <1>5, <2>1
<1>12. Room'
  <2>1. Idle'
    BY <1>1 DEF Idle, None, Unused
  <2>2. old' = <<>>
    BY <1>1
  <2>3. capacity' = capacity
    BY <1>1
  <2>4. 2 * count' <= capacity + 1
    <3>1. PICK a \in Nat, b \in Nat, c \in Nat :
            a = count /\ b = count' /\ c = capacity
      BY <1>5, <1>11
    <3>2. b <= a + 1 /\ 2 * a + 1 <= c
      BY <1>5, <1>11, <3>1
    <3>3. 2 * b <= c + 1
      BY <3>2
    <3> QED BY <3>1, <3>3
  <2> QED BY <2>1, <2>2, <2>3, <2>4 DEF Room
<1>13. LiveIn(old) = {} /\ LiveIn(old') = {}
  BY <1>1, NothingThere
<1>14. Live' = With(Live, job.k, job.v)
  BY <1>7, <1>13 DEF Live
<1> QED BY <1>3, <1>7, <1>9, <1>10, <1>12, <1>14 DEF Inv

\* A table is never full.
LEMMA Loose ==
  ASSUME Inv, capacity > 0
  PROVE  count < capacity
<1>1. /\ Shape /\ capacity \in Nat /\ capacity > 1
      /\ count = Cardinality(Stored) /\ count \in Nat
  BY StoredCounted DEF Inv, Shape, Counted
<1>2. CASE Idle
  <2>1. 2 * count <= capacity + 1
    BY <1>2 DEF Inv, Room
  <2> QED BY <1>1, <2>1
<1>3. CASE ~Idle
  <2> DEFINE A == Stored \cup Waiting
  <2>1. A \subseteq Key
    BY <1>1, StoredCounted, WaitingCounted
  <2>2. 2 * Cardinality(A) + 1 <= capacity
    BY <1>3 DEF Inv, Room
  <2>3. Stored \subseteq A OBVIOUS
  <2> HIDE DEF A
  <2>4. IsFiniteSet(A) /\ Cardinality(A) \in Nat
    BY <2>1, KeysCounted
  <2>5. Cardinality(Stored) <= Cardinality(A)
    BY <2>3, <2>4, FS_Subset
  <2> QED BY <1>1, <2>2, <2>4, <2>5
<1> QED BY <1>2, <1>3

\* A get.
LEMMA GetStep ==
  ASSUME Inv, NEW k \in Key, mem_hash_get(k)
  PROVE  Inv' /\ Live' = Live
<1>1. /\ UNCHANGED <<hash, table, old, job>>
      /\ last' = <<k, IF capacity = 0 THEN 0 ELSE entries[Found(k)].v>>
  BY DEF mem_hash_get
<1>2. UNCHANGED <<hash, count, capacity, entries, old, job>>
  BY <1>1 DEF table
<1>3. last' \in Key \X Value
  <2>1. CASE capacity = 0
    BY <1>1, <2>1, ValueAssumption
  <2>2. CASE capacity # 0
    <3>1. count < capacity /\ entries \in [0 .. capacity - 1 -> Entry]
      BY <2>2, Loose DEF Inv, Shape
    <3>2. Found(k) \in 0 .. capacity - 1
      BY <3>1, FoundIs DEF Inv, EachOnce
    <3>3. entries[Found(k)].v \in Value
      BY <3>1, <3>2 DEF Entry
    <3> QED BY <1>1, <2>2, <3>3
  <2> QED BY <2>1, <2>2
<1>4. Shape'
  <2>1. None' = None
    BY DEF None, Unused
  <2> QED BY <1>2, <1>3, <2>1 DEF Inv, Shape
<1>5. Stored' = Stored /\ Waiting' = Waiting
  BY <1>2 DEF Stored, Waiting
<1>6. Counted' /\ EachOnce' /\ Reached'
  BY <1>2, <1>5 DEF Inv, Counted, EachOnce, Reached, Slot, Ends
<1>7. Room'
  BY <1>2, <1>5 DEF Inv, Room, Idle, None, Unused
<1> QED BY <1>2, <1>4, <1>6, <1>7 DEF Inv, Live

\* No step.
LEMMA StutterInv ==
  ASSUME Inv, UNCHANGED vars
  PROVE  Inv' /\ Live' = Live
<1>1. UNCHANGED <<hash, count, capacity, entries, old, job, last>>
  BY DEF vars, table
<1>2. Stored' = Stored /\ Waiting' = Waiting /\ None' = None
  BY <1>1 DEF Stored, Waiting, None, Unused
<1>3. Shape'
  BY <1>1, <1>2 DEF Inv, Shape
<1>4. Counted' /\ EachOnce' /\ Reached' /\ Room'
  BY <1>1, <1>2 DEF Inv, Counted, EachOnce, Reached, Slot, Ends, Room, Idle
<1> QED BY <1>1, <1>3, <1>4 DEF Inv, Live

\* The invariant survives every step.
LEMMA NextInv == Inv /\ [Next]_vars => Inv'
<1> SUFFICES ASSUME Inv, [Next]_vars PROVE Inv'
  OBVIOUS
<1>1. ASSUME NEW k \in Key, mem_hash_get(k) PROVE Inv'
  BY <1>1, GetStep
<1>2. ASSUME NEW k \in Key, NEW v \in Value, SetInPlace(k, v) PROVE Inv'
  BY <1>2, SetInPlaceStep
<1>3. ASSUME NEW k \in Key, NEW v \in Value, mem_hash_resize(k, v) PROVE Inv'
  BY <1>3, ResizeStep
<1>4. CASE Move
  BY <1>4, MoveStep
<1>5. CASE SetAfterResize
  BY <1>5, SetAfterResizeStep
<1>6. CASE UNCHANGED vars
  BY <1>6, StutterInv
<1> QED BY <1>1, <1>2, <1>3, <1>4, <1>5, <1>6 DEF Next

\* It holds of every reachable state.
LEMMA Invariance == Spec => []Inv
<1>1. Init => Inv
  BY InitInv
<1>2. Inv /\ [Next]_vars => Inv'
  BY NextInv
<1> QED BY <1>1, <1>2, PTL DEF Spec

\* The table always has its shape: its size is one of HASH_SIZES and it never
\* counts more entries than there are keys.
THEOREM HashTypeCorrect == Spec => []HashTypeOK
<1>1. Inv => HashTypeOK
  <2> SUFFICES ASSUME Inv PROVE HashTypeOK
    OBVIOUS
  <2>1. count \in 0 .. Cardinality(Key)
    BY StoredCounted, KeysCounted DEF Inv, Counted
  <2> QED BY <2>1 DEF Inv, Shape, HashTypeOK
<1> QED BY <1>1, Invariance, PTL

\* mem_hash_find_index always ends, for any keys that the table has room for,
\* any hash function without collisions and any power of two that is wide
\* enough: the table keeps a gap, and the probes come to every entry.
THEOREM SearchesAlwaysEnd == Spec => []SearchesEnd
<1>1. Inv => SearchesEnd
  <2> SUFFICES ASSUME Inv, capacity > 0, NEW k \in Key
               PROVE  \E i \in 0 .. Width - 1 : Ends(k, i)
    BY DEF SearchesEnd
  <2> QED BY Loose, SearchEnds DEF Inv, EachOnce
<1> QED BY <1>1, Invariance, PTL

-----------------------------------------------------------------------------
(***************************************************************************)
(* The map.                                                                *)
(***************************************************************************)

\* What a set of entries holds for a key.
ValueOf(E) == IF E = {} THEN 0 ELSE (CHOOSE e \in E : TRUE).v

HeldIn(L, k) == ValueOf({e \in L : e.k = k})

\* The value of a key is that of its entry, in whichever table.
LEMMA OnlyLive ==
  ASSUME NEW k \in Key, NEW s, NEW t
  PROVE  ValueOf({e \in Range(s) \cup Range(t) : e.k = k})
           = HeldIn(LiveIn(s) \cup LiveIn(t), k)
<1>1. k # 0
  BY KeyAssumption, WidthAssumption
<1>2. {e \in Range(s) \cup Range(t) : e.k = k}
        = {e \in LiveIn(s) \cup LiveIn(t) : e.k = k}
  BY <1>1 DEF LiveIn
<1> QED BY <1>2 DEF HeldIn

\* What a get returns depends on the entries in use alone.
LEMMA HeldIsLive ==
  ASSUME NEW k \in Key
  PROVE  Held(k) = HeldIn(Live, k) /\ Held(k)' = HeldIn(Live', k)
<1>1. Held(k) = ValueOf({e \in Range(entries) \cup Range(old) : e.k = k})
  BY DEF Held, ValueOf
<1>2. Held(k)' = ValueOf({e \in Range(entries') \cup Range(old') : e.k = k})
  BY DEF Held, ValueOf
<1> QED BY <1>1, <1>2, OnlyLive DEF Live

\* A set changes the value of its key and of no other.
LEMMA HeldAfterSet ==
  ASSUME NEW L, NEW k \in Key, NEW v \in Value, NEW x \in Key
  PROVE  HeldIn(With(L, k, v), x) = IF x = k THEN v ELSE HeldIn(L, x)
<1> DEFINE new == [k |-> k, v |-> v]
           M == With(L, k, v)
<1>1. new.k = k /\ new.v = v
  OBVIOUS
<1> HIDE DEF new
<1>2. M = {e \in L : e.k # k} \cup {new}
  BY DEF With, new
<1> HIDE DEF M
<1>3. CASE x = k
  <2>1. {e \in M : e.k = x} = {new}
    BY <1>1, <1>2, <1>3
  <2>2. ValueOf({new}) = v
    BY <1>1 DEF ValueOf
  <2> QED BY <1>3, <2>1, <2>2 DEF HeldIn, M
<1>4. CASE x # k
  <2>1. {e \in M : e.k = x} = {e \in L : e.k = x}
    BY <1>1, <1>2, <1>4
  <2> QED BY <1>4, <2>1 DEF HeldIn, M
<1> QED BY <1>3, <1>4 DEF M

\* A get finds what the table holds.
LEMMA GetFinds ==
  ASSUME Inv, Idle, NEW k \in Key
  PROVE  Held(k) = IF capacity = 0 THEN 0 ELSE entries[Found(k)].v
<1>1. /\ entries \in [0 .. capacity - 1 -> Entry] /\ capacity \in Nat
      /\ \A s \in 0 .. capacity - 1 : entries[s].k = 0 => entries[s].v = 0
      /\ Once(entries) /\ k # 0
  BY KeyAssumption, WidthAssumption DEF Inv, Shape, EachOnce
<1>2. Live = LiveIn(entries)
  BY NothingThere DEF Live, Inv, Room
<1> DEFINE E == {e \in Live : e.k = k}
<1>3. \A e : e \in E <=> (\E s \in 0 .. capacity - 1 : e = entries[s]) /\ e.k = k
  BY <1>1, <1>2 DEF LiveIn, Range
<1>4. CASE capacity = 0
  <2>1. E = {}
    BY <1>3, <1>4
  <2> QED BY <1>4, <2>1, HeldIsLive DEF HeldIn, ValueOf
<1>5. CASE capacity # 0
  <2>1. PICK s \in 0 .. capacity - 1 :
          s = Found(k) /\ entries[s].k = IF k \in Stored THEN k ELSE 0
    BY <1>1, <1>5, Loose, FoundIs DEF Inv
  <2>2. CASE k \in Stored
    <3>1. E = {entries[s]}
      <4>1. entries[s] \in E
        BY <1>3, <2>1, <2>2
      <4>2. ASSUME NEW e \in E PROVE e = entries[s]
        <5>1. PICK t \in 0 .. capacity - 1 : e = entries[t] /\ entries[t].k = k
          BY <1>3
        <5> QED BY <1>1, <2>1, <2>2, <5>1 DEF Once
      <4> QED BY <4>1, <4>2
    <3>2. ValueOf({entries[s]}) = entries[s].v
      BY DEF ValueOf
    <3>3. HeldIn(Live, k) = entries[s].v
      BY <3>1, <3>2 DEF HeldIn
    <3> QED BY <1>5, <2>1, <3>3, HeldIsLive
  <2>3. CASE k \notin Stored
    <3>1. E = {}
      BY <1>1, <1>3, <2>3 DEF Stored, KeysIn
    <3>2. HeldIn(Live, k) = 0
      BY <3>1 DEF HeldIn, ValueOf
    <3>3. entries[s].v = 0
      BY <1>1, <2>1, <2>3
    <3> QED BY <1>5, <2>1, <3>2, <3>3, HeldIsLive
  <2> QED BY <2>2, <2>3
<1> QED BY <1>4, <1>5

\* A new hash is an empty map.
LEMMA InitImplements == Init => Map!Init
<1> SUFFICES ASSUME Init PROVE Map!Init
  OBVIOUS
<1> DEFINE D == 0 .. capacity - 1
<1>1. D = {} /\ entries = [i \in D |-> Unused]
  BY DEF Init
<1>2. LiveIn(entries) = {}
  BY <1>1, EmptyTable
<1>3. Live = {}
  BY <1>2, NothingThere DEF Init, Live
<1>4. ASSUME NEW k \in Key PROVE Held(k) = 0
  BY <1>3, HeldIsLive DEF HeldIn, ValueOf
<1> QED BY <1>4 DEF Init, Map!Init

\* The map after a step that changed the entries in use as said.
LEMMA SetMap ==
  ASSUME NEW k \in Key, NEW v \in Value, Live' = With(Live, k, v),
         last' = <<k, v>>
  PROVE  Map!Set(k, v)
<1>1. ASSUME NEW x \in Key
      PROVE  Held(x)' = IF x = k THEN v ELSE Held(x)
  <2>1. Held(x) = HeldIn(Live, x)
    BY HeldIsLive
  <2>2. Held(x)' = HeldIn(Live', x)
    BY HeldIsLive
  <2> QED BY <2>1, <2>2, HeldAfterSet
<1> QED BY <1>1 DEF Map!Set

\* A step that leaves the entries in use alone leaves the map alone.
LEMMA SameMap ==
  ASSUME Live' = Live
  PROVE  \A x \in Key : Held(x)' = Held(x)
<1> SUFFICES ASSUME NEW x \in Key PROVE Held(x)' = Held(x)
  OBVIOUS
<1>1. Held(x) = HeldIn(Live, x)
  BY HeldIsLive
<1>2. Held(x)' = HeldIn(Live', x)
  BY HeldIsLive
<1> QED BY <1>1, <1>2

\* Every step is one of the map, or not seen in it.
LEMMA StepImplements ==
  ASSUME Inv, [Next]_vars
  PROVE  [Map!Next]_(Map!vars)
<1>1. ASSUME Live' = Live, last' = last PROVE UNCHANGED Map!vars
  BY <1>1, SameMap DEF Map!vars
<1>2. ASSUME NEW k \in Key, mem_hash_get(k) PROVE Map!Get(k)
  <2>1. Live' = Live
    BY <1>2, GetStep
  <2>2. last' = <<k, Held(k)>>
    BY <1>2, GetFinds DEF mem_hash_get
  <2> QED BY <2>1, <2>2, SameMap DEF Map!Get
<1>3. ASSUME NEW k \in Key, NEW v \in Value, SetInPlace(k, v)
      PROVE  Map!Set(k, v)
  BY <1>3, SetInPlaceStep, SetMap DEF SetInPlace
<1>4. ASSUME NEW k \in Key, NEW v \in Value, mem_hash_resize(k, v)
      PROVE  UNCHANGED Map!vars
  BY <1>1, <1>4, ResizeStep DEF mem_hash_resize
<1>5. CASE Move
  BY <1>1, <1>5, MoveStep DEF Move
<1>6. CASE SetAfterResize
  <2>1. Map!Set(job.k, job.v) /\ job.k \in Key /\ job.v \in Value
    <3> DEFINE k == job.k
               v == job.v
    <3>1. /\ k \in Key /\ v \in Value /\ Live' = With(Live, k, v)
          /\ last' = <<k, v>>
      BY <1>6, SetAfterResizeStep DEF SetAfterResize
    <3> HIDE DEF k, v
    <3>2. Map!Set(k, v)
      BY <3>1, SetMap
    <3> QED BY <3>1, <3>2 DEF k, v
  <2> QED BY <2>1 DEF Map!Next
<1>7. CASE UNCHANGED vars
  BY <1>1, <1>7, StutterInv DEF vars
<1> QED BY <1>2, <1>3, <1>4, <1>5, <1>6, <1>7 DEF Next, Map!Next

\* mem_hash.h implements a map, whatever the keys, the values and the hash
\* function: a get finds what the last set of its key stored, through every
\* collision and resize between them.
THEOREM MapRefinement == Spec => ImplementsMap
<1>1. Init => Map!Init
  BY InitImplements
<1>2. Inv /\ [Next]_vars => [Map!Next]_(Map!vars)
  BY StepImplements
<1> QED BY <1>1, <1>2, Invariance, PTL DEF Spec, ImplementsMap, Map!Spec
=============================================================================
