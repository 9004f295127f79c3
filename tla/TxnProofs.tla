----------------------------- MODULE TxnProofs -----------------------------
(***************************************************************************)
(* Proofs about Txn.tla, for every file size the free list's root block    *)
(* can describe and every set of payloads.                                 *)
(***************************************************************************)
EXTENDS Txn, FiniteSets, SequenceTheorems, TLAPS

-----------------------------------------------------------------------------
(***************************************************************************)
(* The inductive invariant: what has to be true of the roots, the sizes    *)
(* and the record of a transaction for BlocksPartitioned and AbortIsSafe   *)
(* to survive every step.  That no block is shared is part of it; that     *)
(* none is lost is a property of the steps, so that it can be said of a    *)
(* file that has lost blocks before, too.                                  *)
(***************************************************************************)

\* Between transactions the roots are the primary ones and nothing is noted.
Closed ==
  ~txn => /\ freelist = EDB_FREELIST_PRIMARY
          /\ objlist = EDB_OBJLIST
          /\ blocks = Unset
          /\ pc = "ready"
          /\ Mapped

\* The sizes: the mapping lies within the file, and the file is never cut
\* below what the transaction found.
Sizes ==
  /\ nblocks <= fsize
  /\ Mapped => EDB_USER_DATA <= nblocks
  /\ txn => EDB_USER_DATA <= ts_nblocks /\ ts_nblocks <= fsize
  /\ (txn /\ Mapped) => ts_nblocks <= nblocks

\* Which free list is the working one, and what a failed abort leaves.
Roots ==
  /\ pc = "commit" => txn /\ Mapped
  /\ Aborting => ~Mapped /\ objlist = EDB_OBJLIST /\ live = Committed
  /\ txn /\ pc = "commit" /\ objlist # EDB_OBJLIST => objlist \in todo

\* The record of an open transaction: the roots are copied only to the blocks
\* the commit expects, no block has two copies or a copy of a copy, a copied
\* block is not freed as well, and a block that is free or past the end of
\* the file is not in the record.
RecordOK ==
  (txn /\ Mapped) =>
    /\ blocks[EDB_FREELIST_SECONDARY] = EDB_FREELIST_PRIMARY
    /\ \A k \in {0, EDB_FREELIST_PRIMARY, EDB_OBJLIST} : blocks[k] = 0
    /\ objlist # EDB_OBJLIST => blocks[objlist] = EDB_OBJLIST
    /\ \A k \in Waiting : IsCopy(k) =>
          \/ k = EDB_FREELIST_SECONDARY
          \/ k = objlist
          \/ blocks[k] \in UserBlock
    /\ \A j, k \in Block : IsCopy(j) /\ blocks[j] = blocks[k] => j = k
    /\ \A k \in Block : IsCopy(k) => blocks[blocks[k]] = 0
    /\ pc = "ready" => \A k \in Block :
          k \in Range(flist[freelist]) \/ k >= nblocks => blocks[k] = 0
    /\ pc = "commit" => \A k \in todo : blocks[k] # 0

\* The blocks that are somewhere, and those an abort falls back on.
Known == Range(flist[freelist]) \cup live \cup Pending \cup Copied
Kept == Range(flist[EDB_FREELIST_PRIMARY]) \cup Committed

\* The parts of BlocksPartitioned and AbortIsSafe about blocks in two places.
NoneShared ==
  (Mapped /\ ~Aborting) =>
    /\ IsInjective(flist[freelist])
    /\ Disjoint(Range(flist[freelist]), live, Pending, Copied)
    /\ Known \subseteq EDB_USER_DATA .. nblocks - 1

AbortKept ==
  (txn /\ pc = "ready") =>
    /\ IsInjective(flist[EDB_FREELIST_PRIMARY])
    /\ Range(flist[EDB_FREELIST_PRIMARY]) \cap Committed = {}
    /\ Kept \subseteq EDB_USER_DATA .. ts_nblocks - 1

IInv ==
  /\ TypeOK
  /\ Closed /\ Sizes /\ Roots /\ RecordOK
  /\ NoneShared
  /\ AbortKept

\* The blocks that are nowhere, or would be after an abort.
Lost ==
  (IF Mapped /\ ~Aborting
   THEN (EDB_USER_DATA .. nblocks - 1) \ Known ELSE {})
    \cup (IF txn /\ pc = "ready"
          THEN (EDB_USER_DATA .. ts_nblocks - 1) \ Kept ELSE {})

LosesNone == Lost' \subseteq Lost

-----------------------------------------------------------------------------
(***************************************************************************)
(* The free list as a sequence.                                            *)
(***************************************************************************)

\* Popping a list without duplicates removes exactly its last element
\* (array_pop in freelist_allocate_block).
LEMMA FrontLast ==
  ASSUME NEW S, NEW s \in Seq(S), s # <<>>
  PROVE  /\ Front(s) \in Seq(S)
         /\ Last(s) \in Range(s)
         /\ IsInjective(s) => /\ IsInjective(Front(s))
                              /\ Range(Front(s)) = Range(s) \ {Last(s)}
<1> DEFINE n == Len(s)
<1>1. n \in Nat /\ n >= 1 /\ s \in [1 .. n -> S] /\ DOMAIN s = 1 .. n
  BY EmptySeq, LenProperties
<1>2. /\ Front(s) \in Seq(S)
      /\ Len(Front(s)) = n - 1
      /\ DOMAIN Front(s) = 1 .. n - 1
      /\ \A i \in 1 .. n - 1 : Front(s)[i] = s[i]
  BY <1>1 DEF Front
<1>3. Last(s) = s[n] /\ n \in DOMAIN s
  BY <1>1 DEF Last
<1>4. Last(s) \in Range(s)
  BY <1>3 DEF Range
<1>5. ASSUME IsInjective(s)
      PROVE  IsInjective(Front(s)) /\ Range(Front(s)) = Range(s) \ {Last(s)}
  <2>1. \A i, j \in 1 .. n : s[i] = s[j] => i = j
    BY <1>1, <1>5 DEF IsInjective
  <2>2. IsInjective(Front(s))
    BY <1>1, <1>2, <2>1 DEF IsInjective
  <2>3. \A i \in 1 .. n - 1 : s[i] # s[n]
    BY <1>1, <2>1
  <2>4. Range(Front(s)) = {s[i] : i \in 1 .. n - 1}
    BY <1>2 DEF Range
  <2>5. Range(s) = {s[i] : i \in 1 .. n}
    BY <1>1 DEF Range
  <2>6. QED
    BY <1>1, <1>3, <2>2, <2>3, <2>4, <2>5
<1>6. QED
  BY <1>2, <1>4, <1>5

\* Pushing a block that is not on the list keeps it free of duplicates
\* (array_push in freelist_free_block).
LEMMA AppendFresh ==
  ASSUME NEW S, NEW s \in Seq(S), NEW x \in S
  PROVE  /\ Append(s, x) \in Seq(S)
         /\ Range(Append(s, x)) = Range(s) \cup {x}
         /\ IsInjective(s) /\ x \notin Range(s) => IsInjective(Append(s, x))
<1> DEFINE n == Len(s)  t == Append(s, x)
<1>1. n \in Nat /\ DOMAIN s = 1 .. n
  BY LenProperties
<1>2. /\ t \in Seq(S)
      /\ DOMAIN t = 1 .. n + 1
      /\ \A i \in 1 .. n : t[i] = s[i]
      /\ t[n + 1] = x
  BY AppendProperties, LenProperties
<1>3. Range(t) = Range(s) \cup {x}
  <2>1. Range(t) = {t[i] : i \in 1 .. n + 1}
    BY <1>2 DEF Range
  <2>2. Range(s) = {s[i] : i \in 1 .. n}
    BY <1>1 DEF Range
  <2>3. QED
    BY <1>1, <1>2, <2>1, <2>2
<1>4. ASSUME IsInjective(s), x \notin Range(s)
      PROVE  IsInjective(t)
  <2>1. \A i \in 1 .. n : s[i] # x
    BY <1>1, <1>4 DEF Range
  <2>2. \A i, j \in 1 .. n : s[i] = s[j] => i = j
    BY <1>1, <1>4 DEF IsInjective
  <2>3. QED
    BY <1>1, <1>2, <2>1, <2>2 DEF IsInjective
<1>5. QED
  BY <1>2, <1>3, <1>4

\* The empty list.
LEMMA EmptyList ==
  ASSUME NEW S
  PROVE  <<>> \in Seq(S) /\ IsInjective(<<>>) /\ Range(<<>>) = {}
BY DEF IsInjective, Range

\* The file always grows, whatever the step next_power_of_two picks.
LEMMA GrownSizeGrows ==
  ASSUME NEW n \in EDB_USER_DATA .. MaxBlocks
  PROVE  GrownSize(n) \in Nat /\ GrownSize(n) > n
<1> DEFINE P == {1, 2, 4, 8, 16, 32, 64, 128, 256}
           x == n \div 8
           s == next_power_of_two(x)
<1>1. n \in 4 .. 1025
  BY BlocksAssumption DEF EDB_USER_DATA, FREELIST_SMALL_CAPACITY
<1>2. x \in 0 .. 128
  BY <1>1
<1>3. \E p \in P : x < p /\ \A q \in P : x < q => p <= q
  <2>1. CASE x < 1
    BY <2>1, <1>2
  <2>2. CASE 1 <= x /\ x < 2
    BY <2>2, <1>2
  <2>3. CASE 2 <= x /\ x < 4
    BY <2>3, <1>2
  <2>4. CASE 4 <= x /\ x < 8
    BY <2>4, <1>2
  <2>5. CASE 8 <= x /\ x < 16
    BY <2>5, <1>2
  <2>6. CASE 16 <= x /\ x < 32
    BY <2>6, <1>2
  <2>7. CASE 32 <= x /\ x < 64
    BY <2>7, <1>2
  <2>8. CASE 64 <= x /\ x < 128
    BY <2>8, <1>2
  <2>9. CASE 128 <= x
    BY <2>9, <1>2
  <2>10. QED
    BY <1>2, <2>1, <2>2, <2>3, <2>4, <2>5, <2>6, <2>7, <2>8, <2>9
<1>4. s \in P
  BY <1>3 DEF next_power_of_two
<1>5. \A p \in P : p * ((n + p) \div p) \in Nat /\ p * ((n + p) \div p) > n
  BY <1>1
<1>6. GrownSize(n) = s * ((n + s) \div s)
  BY DEF GrownSize
<1>7. QED
  BY <1>4, <1>5, <1>6

\* freelist_allocate_block takes one block that was free or past the end of
\* the file; the list it leaves holds the rest, without duplicates.
LEMMA AllocateEffect ==
  ASSUME NEW n \in EDB_USER_DATA .. MaxBlocks,
         NEW list \in Seq(UserBlock),
         IsInjective(list),
         Range(list) \subseteq EDB_USER_DATA .. n - 1,
         FreelistAllocate(list, n).nblocks <= MaxBlocks
  PROVE  LET a == FreelistAllocate(list, n) IN
           /\ a.nblocks \in n .. MaxBlocks
           /\ a.block \in EDB_USER_DATA .. a.nblocks - 1
           /\ a.block \in UserBlock
           /\ a.block \in Range(list) \cup {n}
           /\ a.list \in Seq(UserBlock)
           /\ IsInjective(a.list)
           /\ a.block \notin Range(a.list)
           /\ Range(a.list) \cup {a.block} = Range(list) \cup (n .. a.nblocks - 1)
<1> DEFINE a == FreelistAllocate(list, n)
<1>0. MaxBlocks \in Nat /\ EDB_USER_DATA = 4 /\ 4 <= MaxBlocks
  BY BlocksAssumption DEF EDB_USER_DATA
<1>1. CASE list # <<>>
  <2>1. /\ a.block = Last(list)
        /\ a.list = Front(list)
        /\ a.nblocks = n
    BY <1>1 DEF FreelistAllocate
  <2>2. /\ Front(list) \in Seq(UserBlock)
        /\ Last(list) \in Range(list)
        /\ IsInjective(Front(list))
        /\ Range(Front(list)) = Range(list) \ {Last(list)}
    BY <1>1, FrontLast
  <2>3. n .. n - 1 = {}
    BY <1>0
  <2>4. Last(list) \in UserBlock
    BY <1>0, <2>2 DEF UserBlock
  <2>5. QED
    BY <1>0, <2>1, <2>2, <2>3, <2>4
<1>2. CASE list = <<>>
  <2> DEFINE g == GrownSize(n)
             tail == [i \in 1 .. g - n - 1 |-> n + i]
  <2>1. a.block = n /\ a.list = tail /\ a.nblocks = g
    BY <1>2 DEF FreelistAllocate
  <2>2. g \in Nat /\ g > n /\ g <= MaxBlocks
    BY <2>1, GrownSizeGrows
  <2>3. \A i \in 1 .. g - n - 1 : n + i \in UserBlock
    BY <1>0, <2>2 DEF UserBlock
  <2>4. g - n - 1 \in Nat
    BY <1>0, <2>2
  <2>5. tail \in Seq(UserBlock)
    BY <2>3, <2>4, IsASeq
  <2>6. IsInjective(tail)
    BY <1>0, <2>2 DEF IsInjective
  <2>7. Range(tail) = n + 1 .. g - 1
    <3>1. Range(tail) = {n + i : i \in 1 .. g - n - 1}
      BY DEF Range
    <3>2. \A b \in n + 1 .. g - 1 : b - n \in 1 .. g - n - 1 /\ b = n + (b - n)
      BY <1>0, <2>2
    <3>3. \A i \in 1 .. g - n - 1 : n + i \in n + 1 .. g - 1
      BY <1>0, <2>2
    <3>4. QED
      BY <3>1, <3>2, <3>3
  <2>8. Range(list) = {}
    BY <1>2, EmptyList
  <2>9. n \in UserBlock
    BY <1>0, <2>2 DEF UserBlock
  <2> HIDE DEF g, tail
  <2>10. n \notin Range(tail) /\ Range(tail) \cup {n} = n .. g - 1
    <3>1. n \in Nat /\ g \in Nat /\ g > n
      BY <1>0, <2>2
    <3>2. n \notin n + 1 .. g - 1 /\ (n + 1 .. g - 1) \cup {n} = n .. g - 1
      BY <3>1
    <3>3. QED
      BY <2>7, <3>2
  <2>11. QED
    BY <1>0, <2>1, <2>2, <2>5, <2>6, <2>8, <2>9, <2>10
<1>3. QED
  BY <1>1, <1>2

-----------------------------------------------------------------------------
(***************************************************************************)
(* What the invariant says of a call inside a transaction.                 *)
(***************************************************************************)

\* The constants of the code, as numbers.
LEMMA Numbers ==
  /\ MaxBlocks \in Nat /\ 4 <= MaxBlocks
  /\ EDB_USER_DATA = 4 /\ EDB_FREELIST_PRIMARY = 1
  /\ EDB_FREELIST_SECONDARY = 2 /\ EDB_OBJLIST = 3
  /\ FreeListRoot = {1, 2}
  /\ Block = 0 .. MaxBlocks - 1
  /\ UserBlock = 4 .. MaxBlocks - 1
  /\ ALLOCATED = -1 /\ FREED = -2
BY BlocksAssumption DEF EDB_USER_DATA, EDB_FREELIST_PRIMARY,
   EDB_FREELIST_SECONDARY, EDB_OBJLIST, FreeListRoot, Block, UserBlock,
   ALLOCATED, FREED

\* A block gives up another when the record frees it or copied it.
LEMMA PendingMember ==
  ASSUME NEW b
  PROVE  b \in Pending <=>
           /\ b # EDB_FREELIST_PRIMARY /\ b # EDB_OBJLIST
           /\ \/ b \in Waiting /\ blocks[b] = FREED
              \/ \E k \in Waiting : IsCopy(k) /\ blocks[k] = b
BY DEF Pending, Given

\* The same after a step.
LEMMA PendingMemberNext ==
  ASSUME NEW b
  PROVE  b \in Pending' <=>
           /\ b # EDB_FREELIST_PRIMARY /\ b # EDB_OBJLIST
           /\ \/ b \in Waiting' /\ blocks'[b] = FREED
              \/ \E k \in Waiting' : blocks'[k] > 0 /\ blocks'[k] = b
BY DEF Pending, Given, IsCopy, EDB_FREELIST_PRIMARY, EDB_OBJLIST, FREED

OpenFacts ==
  /\ txn = TRUE /\ pc = "ready" /\ nblocks > 0 /\ Waiting = Block
  /\ freelist = 2 /\ ~Aborting
  /\ nblocks \in 4 .. MaxBlocks
  /\ ts_nblocks \in 4 .. nblocks /\ fsize \in nblocks .. MaxBlocks
  /\ flist[2] \in Seq(UserBlock)
  /\ IsInjective(flist[2])
  /\ Disjoint(Range(flist[2]), live, Pending, Copied)
  /\ Range(flist[2]) \cup live \cup Pending \cup Copied \subseteq 4 .. nblocks - 1
  /\ blocks \in [Block -> {ALLOCATED, FREED} \cup Block]
  /\ blocks[2] = 1 /\ blocks[0] = 0 /\ blocks[1] = 0 /\ blocks[3] = 0
  /\ objlist # 3 => blocks[objlist] = 3
  /\ \A k \in Block : IsCopy(k) =>
       k = 2 \/ k = objlist \/ blocks[k] \in UserBlock
  /\ \A j, k \in Block : IsCopy(j) /\ blocks[j] = blocks[k] => j = k
  /\ \A k \in Block : IsCopy(k) => blocks[blocks[k]] = 0
  /\ \A k \in Block : k \in Range(flist[2]) \/ k >= nblocks => blocks[k] = 0

\* What a call inside a transaction can rely on.
LEMMA InTxnFacts ==
  ASSUME IInv, InTxn
  PROVE  OpenFacts
<1>1. TypeOK /\ Closed /\ Sizes /\ Roots /\ RecordOK /\ NoneShared
  BY DEF IInv
<1>2. txn = TRUE /\ pc = "ready" /\ nblocks > 0 /\ Mapped /\ txn
  BY <1>1 DEF InTxn, Ready, Mapped, TypeOK
<1>3. Waiting = Block
  BY <1>2 DEF Waiting
<1>4. ~Aborting
  BY <1>1, <1>2 DEF Roots
<1>5. freelist = 2
  BY <1>1, <1>2, <1>4, Numbers DEF Aborting, TypeOK
<1>6. nblocks \in 4 .. MaxBlocks /\ ts_nblocks \in 4 .. nblocks /\ fsize \in nblocks .. MaxBlocks
  BY <1>1, <1>2, Numbers DEF Sizes, TypeOK
<1>7. flist[2] \in Seq(UserBlock) /\ blocks \in [Block -> {ALLOCATED, FREED} \cup Block]
  BY <1>1, Numbers DEF TypeOK
<1>8. /\ IsInjective(flist[2])
      /\ Disjoint(Range(flist[2]), live, Pending, Copied)
      /\ Range(flist[2]) \cup live \cup Pending \cup Copied \subseteq 4 .. nblocks - 1
  BY <1>1, <1>2, <1>4, <1>5, Numbers DEF NoneShared, Known
<1>9. /\ blocks[2] = 1 /\ blocks[0] = 0 /\ blocks[1] = 0 /\ blocks[3] = 0
      /\ objlist # 3 => blocks[objlist] = 3
      /\ \A k \in Block : IsCopy(k) =>
              k = 2 \/ k = objlist \/ blocks[k] \in UserBlock
      /\ \A j, k \in Block : IsCopy(j) /\ blocks[j] = blocks[k] => j = k
      /\ \A k \in Block : IsCopy(k) => blocks[blocks[k]] = 0
      /\ \A k \in Block : k \in Range(flist[2]) \/ k >= nblocks => blocks[k] = 0
  BY <1>1, <1>2, <1>3, <1>5, Numbers DEF RecordOK
<1>10. QED
  BY <1>2, <1>3, <1>4, <1>5, <1>6, <1>7, <1>8, <1>9, Numbers DEF OpenFacts

\* The block an allocation takes is nobody's and nothing's copy, and it moves
\* from the free list, or from past the end of the file, to its new use.
LEMMA TakeEffect ==
  ASSUME IInv, InTxn, NEW s,
         Take(FreelistAllocate(flist[freelist], nblocks), s)
  PROVE  LET x == FreelistAllocate(flist[freelist], nblocks).block IN
           /\ x \in UserBlock /\ x < nblocks' /\ blocks[x] = 0
           /\ x \notin live /\ x \notin Pending /\ x # objlist
           /\ \A k \in Block : IsCopy(k) => blocks[k] # x
           /\ blocks' = [blocks EXCEPT ![x] = s]
           /\ nblocks' \in nblocks .. MaxBlocks
           /\ fsize' \in nblocks' .. MaxBlocks
           /\ flist' \in [FreeListRoot -> Seq(UserBlock)]
           /\ flist'[1] = flist[1]
           /\ IsInjective(flist'[2])
           /\ x \notin Range(flist'[2])
           /\ Range(flist'[2]) \cup {x}
                = Range(flist[2]) \cup (nblocks .. nblocks' - 1)
           /\ rc' = OK
<1> DEFINE a == FreelistAllocate(flist[freelist], nblocks)
           x == a.block
<1>1. /\ freelist = 2 /\ nblocks \in 4 .. MaxBlocks /\ fsize \in nblocks .. MaxBlocks
      /\ flist[2] \in Seq(UserBlock) /\ IsInjective(flist[2])
      /\ Disjoint(Range(flist[2]), live, Pending, Copied)
      /\ Range(flist[2]) \cup live \cup Pending \cup Copied \subseteq 4 .. nblocks - 1
      /\ \A k \in Block : k \in Range(flist[2]) \/ k >= nblocks => blocks[k] = 0
      /\ \A k \in Block : IsCopy(k) =>
              k = 2 \/ k = objlist \/ blocks[k] \in UserBlock
      /\ blocks[2] = 1
      /\ objlist # 3 => blocks[objlist] = 3
      /\ blocks[3] = 0
      /\ Waiting = Block
  BY InTxnFacts DEF OpenFacts
<1>2. /\ a.nblocks <= MaxBlocks
      /\ flist' = [flist EXCEPT ![2] = a.list]
      /\ nblocks' = a.nblocks
      /\ fsize' = ResizedFile(a.nblocks)
      /\ blocks' = [blocks EXCEPT ![x] = s]
      /\ rc' = OK
  BY <1>1 DEF Take
<1>3. /\ a.nblocks \in nblocks .. MaxBlocks
      /\ x \in EDB_USER_DATA .. a.nblocks - 1
      /\ x \in UserBlock
      /\ x \in Range(flist[2]) \cup {nblocks}
      /\ a.list \in Seq(UserBlock)
      /\ IsInjective(a.list)
      /\ x \notin Range(a.list)
      /\ Range(a.list) \cup {x} = Range(flist[2]) \cup (nblocks .. a.nblocks - 1)
  <2> a = FreelistAllocate(flist[2], nblocks)
    BY <1>1
  <2> HIDE DEF a
  <2>1. Range(flist[2]) \subseteq EDB_USER_DATA .. nblocks - 1
    BY <1>1, Numbers
  <2>2. nblocks \in EDB_USER_DATA .. MaxBlocks
    BY <1>1, Numbers
  <2>3. QED
    BY <1>1, <1>2, <2>1, <2>2, AllocateEffect
<1>4. flist \in [FreeListRoot -> Seq(UserBlock)]
  BY DEF IInv, TypeOK
<1> HIDE DEF a
<1>5. /\ flist' \in [FreeListRoot -> Seq(UserBlock)]
      /\ flist'[1] = flist[1] /\ flist'[2] = a.list
  BY <1>2, <1>3, <1>4, Numbers
<1>6. fsize' \in nblocks' .. MaxBlocks
  BY <1>1, <1>2, <1>3, Numbers DEF ResizedFile
<1>7. x \in Block /\ blocks[x] = 0
  BY <1>1, <1>3, Numbers
<1>8. x \notin live /\ x \notin Pending /\ x \notin Copied
  BY <1>1, <1>3, Numbers DEF Disjoint
<1>9. x # objlist
  BY <1>3, <1>8, Numbers DEF Copied
<1>10. \A k \in Block : IsCopy(k) => blocks[k] # x
  <2> SUFFICES ASSUME NEW k \in Block, IsCopy(k), blocks[k] = x PROVE FALSE
    OBVIOUS
  <2>1. x # EDB_FREELIST_PRIMARY /\ x # EDB_OBJLIST /\ k \in Waiting
    BY <1>1, <1>3, Numbers
  <2>2. x \in Pending
    BY <2>1, PendingMember
  <2>3. QED
    BY <2>2, <1>8
<1>11. QED
  BY <1>2, <1>3, <1>5, <1>6, <1>7, <1>8, <1>9, <1>10 DEF a

-----------------------------------------------------------------------------
(***************************************************************************)
(* Every step preserves the invariant: the calls inside a transaction.     *)
(***************************************************************************)

\* A call that keeps the transaction open and what an abort falls back on.
LEMMA InTxnStep ==
  ASSUME IInv, InTxn, TypeOK',
         txn' = txn, pc' = pc, freelist' = freelist, ts_nblocks' = ts_nblocks,
         nblocks' \in nblocks .. MaxBlocks, fsize' \in nblocks' .. MaxBlocks,
         flist'[1] = flist[1],
         Committed' = Committed,
         RecordOK',
         IsInjective(flist'[2]),
         Disjoint(Range(flist'[2]), live', Pending', Copied'),
         Range(flist'[2]) \cup live' \cup Pending' \cup Copied'
           = Range(flist[2]) \cup live \cup Pending \cup Copied
               \cup (nblocks .. nblocks' - 1)
  PROVE  IInv' /\ LosesNone
<1>1. /\ txn = TRUE /\ pc = "ready" /\ freelist = 2 /\ ~Aborting
      /\ nblocks \in 4 .. MaxBlocks
      /\ ts_nblocks \in 4 .. nblocks /\ fsize \in nblocks .. MaxBlocks
  BY InTxnFacts DEF OpenFacts
<1>2. Closed'
  BY <1>1 DEF Closed
<1>3. Sizes'
  BY <1>1, Numbers DEF Sizes, Mapped
<1>4. Roots'
  BY <1>1, Numbers DEF Roots, Aborting
<1>5. Kept' = Kept
  BY Numbers DEF Kept
<1>6. AbortKept'
  BY <1>1, <1>5, Numbers DEF AbortKept, IInv
<1>7. Known' = Known \cup (nblocks .. nblocks' - 1)
  BY <1>1, Numbers DEF Known
<1>8. /\ 4 .. nblocks' - 1 = (4 .. nblocks - 1) \cup (nblocks .. nblocks' - 1)
      /\ Known \subseteq 4 .. nblocks - 1
  <2>1. Known \subseteq 4 .. nblocks - 1
    BY <1>1, Numbers DEF IInv, NoneShared, Mapped
  <2> QED BY <1>1, <2>1
<1>9. Known' \subseteq 4 .. nblocks' - 1
  BY <1>7, <1>8
<1>10. NoneShared'
  BY <1>1, <1>9, Numbers DEF NoneShared
<1>11. LosesNone
  <2>1. /\ Lost = ((4 .. nblocks - 1) \ Known) \cup ((4 .. ts_nblocks - 1) \ Kept)
        /\ Lost' = ((4 .. nblocks' - 1) \ Known')
                     \cup ((4 .. ts_nblocks - 1) \ Kept)
    BY <1>1, <1>5, Numbers DEF Lost, Mapped, Aborting
  <2> QED BY <1>7, <1>8, <2>1 DEF LosesNone
<1> QED BY <1>2, <1>3, <1>4, <1>6, <1>10, <1>11 DEF IInv

\* A call of the block API that moves a block, whatever is stored at once:
\* an allocation, a copy on write of b to x, a free.
Allocated ==
  LET a == FreelistAllocate(flist[freelist], nblocks) IN
    /\ InTxn
    /\ Take(a, ALLOCATED)
    /\ live' = live \cup {a.block}
    /\ data' \in [Block -> Value]
    /\ UNCHANGED <<freelist, objlist, txn, ts_nblocks, loop>>

CopiedTo(b, x) ==
  /\ blocks[b] = 0
  /\ Take(FreelistAllocate(flist[freelist], nblocks), b)
  /\ x = FreelistAllocate(flist[freelist], nblocks).block
  /\ data' \in [Block -> Value]
  /\ UNCHANGED <<freelist, txn, ts_nblocks, loop>>

Released(b) ==
  /\ InTxn
  /\ FreeAllocated(b) \/ FreeCopy(b) \/ FreeCommitted(b)
  /\ live' = live \ {b}
  /\ data' \in [Block -> Value]
  /\ rc' = OK
  /\ UNCHANGED <<io, freelist, objlist, txn, ts_nblocks, loop>>

\* An allocation that is noted as one.
LEMMA TakeStep ==
  ASSUME IInv, Allocated
  PROVE  IInv' /\ Committed' = Committed /\ LosesNone
<1> DEFINE x == FreelistAllocate(flist[freelist], nblocks).block
<1>1. /\ InTxn
      /\ Take(FreelistAllocate(flist[freelist], nblocks), ALLOCATED)
      /\ live' = live \cup {x}
      /\ data' \in [Block -> Value]
      /\ UNCHANGED <<freelist, objlist, txn, ts_nblocks, pc, todo>>
  BY DEF Allocated, loop
<1>2. OpenFacts
  BY <1>1, InTxnFacts
<1>3. /\ x \in UserBlock /\ x < nblocks' /\ blocks[x] = 0
      /\ x \notin live /\ x \notin Pending /\ x # objlist
      /\ \A k \in Block : IsCopy(k) => blocks[k] # x
      /\ blocks' = [blocks EXCEPT ![x] = ALLOCATED]
      /\ nblocks' \in nblocks .. MaxBlocks
      /\ fsize' \in nblocks' .. MaxBlocks
      /\ flist' \in [FreeListRoot -> Seq(UserBlock)]
      /\ flist'[1] = flist[1]
      /\ IsInjective(flist'[2])
      /\ x \notin Range(flist'[2])
      /\ Range(flist'[2]) \cup {x} = Range(flist[2]) \cup (nblocks .. nblocks' - 1)
      /\ rc' = OK
  BY <1>1, TakeEffect
<1> HIDE DEF x
<1>4. TypeOK'
  BY <1>1, <1>2, <1>3, Numbers DEF IInv, TypeOK, OK, OpenFacts
<1>5. Waiting' = Block
  BY <1>1, <1>2 DEF Waiting, OpenFacts
<1>6. \A k \in Block : blocks'[k] = IF k = x THEN ALLOCATED ELSE blocks[k]
  BY <1>2, <1>3 DEF OpenFacts
<1>7. \A k \in Block : (blocks'[k] > 0) = IsCopy(k)
  BY <1>3, <1>6, Numbers DEF IsCopy
<1>8. Pending' = Pending
  <2> SUFFICES ASSUME NEW b PROVE b \in Pending' <=> b \in Pending
    OBVIOUS
  <2>1. b \in Block => (blocks'[b] = FREED <=> blocks[b] = FREED)
    BY <1>3, <1>6, Numbers
  <2>2. \A k \in Block : blocks'[k] > 0 /\ blocks'[k] = b <=> IsCopy(k) /\ blocks[k] = b
    BY <1>3, <1>6, Numbers DEF IsCopy
  <2>3. QED
    BY <1>2, <1>5, <2>1, <2>2, PendingMember, PendingMemberNext DEF OpenFacts
<1>9. Committed' = Committed
  BY <1>1, <1>2, <1>3, <1>6, <1>8, Numbers DEF Committed, OpenFacts
<1>10. RecordOK'
  <2>1. /\ blocks'[2] = 1
        /\ \A k \in {0, 1, 3} : blocks'[k] = 0
        /\ objlist' # 3 => blocks'[objlist'] = 3
    BY <1>1, <1>2, <1>3, <1>6, Numbers DEF OpenFacts, IInv, TypeOK
  <2>2. \A k \in Waiting' : IsCopy(k)' =>
          k = 2 \/ k = objlist' \/ blocks'[k] \in UserBlock
    <3>1. \A k \in Waiting' : IsCopy(k)' =>
            k \in Block /\ IsCopy(k) /\ blocks'[k] = blocks[k]
      BY <1>3, <1>5, <1>6, Numbers DEF IsCopy
    <3>2. \A k \in Block : IsCopy(k) =>
            k = 2 \/ k = objlist \/ blocks[k] \in UserBlock
      BY <1>2 DEF OpenFacts
    <3>3. QED
      BY <1>1, <3>1, <3>2
  <2>3. \A j, k \in Block : IsCopy(j)' /\ blocks'[j] = blocks'[k] => j = k
    <3>1. \A k \in Block : IsCopy(k)' => k # x /\ IsCopy(k) /\ blocks'[k] = blocks[k]
      BY <1>3, <1>6, Numbers DEF IsCopy
    <3>2. \A k \in Block : k # x => blocks'[k] = blocks[k]
      BY <1>6
    <3>3. \A j \in Block : IsCopy(j)' => blocks'[j] # blocks'[x]
      BY <1>3, <1>6, Numbers DEF IsCopy
    <3>4. \A j, k \in Block : IsCopy(j) /\ blocks[j] = blocks[k] => j = k
      BY <1>2 DEF OpenFacts
    <3>5. QED
      BY <3>1, <3>2, <3>3, <3>4
  <2>4. \A k \in Block : IsCopy(k)' => blocks'[blocks'[k]] = 0
    <3> SUFFICES ASSUME NEW k \in Block, IsCopy(k)' PROVE blocks'[blocks'[k]] = 0
      OBVIOUS
    <3>1. IsCopy(k) /\ blocks'[k] = blocks[k] /\ blocks[k] # x
      BY <1>3, <1>6, Numbers DEF IsCopy
    <3>2. blocks[blocks[k]] = 0 /\ blocks \in [Block -> {ALLOCATED, FREED} \cup Block]
      BY <1>2, <3>1 DEF OpenFacts
    <3>3. blocks[k] \in Block
      BY <3>1, <3>2, Numbers DEF IsCopy
    <3>4. QED
      BY <1>6, <3>1, <3>2, <3>3
  <2>5. \A k \in Block : k \in Range(flist'[2]) \/ k >= nblocks' => blocks'[k] = 0
    BY <1>2, <1>3, <1>6, Numbers DEF OpenFacts
  <2>6. QED
    BY <1>1, <1>2, <2>1, <2>2, <2>3, <2>4, <2>5, Numbers DEF OpenFacts, RecordOK
<1>11. /\ Disjoint(Range(flist'[2]), live', Pending', Copied')
       /\ Range(flist'[2]) \cup live' \cup Pending' \cup Copied'
            = Range(flist[2]) \cup live \cup Pending \cup Copied
                \cup (nblocks .. nblocks' - 1)
  <2>1. Copied' = Copied
    BY <1>1 DEF Copied
  <2>3. \A b \in nblocks .. nblocks' - 1 : b \notin 4 .. nblocks - 1
    BY <1>2, <1>3 DEF OpenFacts
  <2>4. Disjoint(Range(flist'[2]), live', Pending', Copied')
    <3>1. \A b \in Range(flist'[2]) :
            b # x /\ (b \in Range(flist[2]) \/ b \notin 4 .. nblocks - 1)
      BY <1>3, <2>3
    <3>2. \A b \in live \cup Pending \cup Copied :
            b \in 4 .. nblocks - 1 /\ b \notin Range(flist[2]) /\ b # x
      BY <1>2, <1>3, Numbers DEF OpenFacts, Disjoint, Copied
    <3>3. live' = live \cup {x} /\ Pending' = Pending /\ Copied' = Copied
      BY <1>1, <1>8, <2>1
    <3>4. /\ live \cap Pending = {} /\ live \cap Copied = {}
          /\ Pending \cap Copied = {}
      BY <1>2 DEF OpenFacts, Disjoint
    <3>5. QED
      BY <3>1, <3>2, <3>3, <3>4 DEF Disjoint
  <2>5. Range(flist'[2]) \cup live' \cup Pending' \cup Copied'
          = Range(flist[2]) \cup live \cup Pending \cup Copied
              \cup (nblocks .. nblocks' - 1)
    BY <1>1, <1>3, <1>8, <2>1
  <2>6. QED
    BY <2>4, <2>5
<1>12. QED
  BY <1>1, <1>2, <1>3, <1>4, <1>9, <1>10, <1>11, InTxnStep DEF OpenFacts

\* txn_allocate_block.
LEMMA AllocateStep ==
  ASSUME IInv, txn_allocate_block
  PROVE  IInv' /\ Committed' = Committed /\ LosesNone
<1>1. data' \in [Block -> Value]
  BY DEF IInv, TypeOK, txn_allocate_block
<1>2. QED
  BY <1>1, TakeStep DEF txn_allocate_block, Allocated

\* Copy on write of a block of the caller's, or of the object list.
LEMMA CopyStep ==
  ASSUME IInv, InTxn, NEW b \in live \cup {objlist}, NEW x, CopiedTo(b, x),
         IF b \in live THEN live' = (live \ {b}) \cup {x} /\ objlist' = objlist
                       ELSE live' = live /\ objlist' = x
  PROVE  IInv' /\ Committed' = Committed /\ LosesNone
<1>1. /\ Take(FreelistAllocate(flist[freelist], nblocks), b)
      /\ blocks[b] = 0
      /\ data' \in [Block -> Value]
      /\ UNCHANGED <<freelist, txn, ts_nblocks, pc, todo>>
      /\ x = FreelistAllocate(flist[freelist], nblocks).block
  BY DEF CopiedTo, loop
<1>2. OpenFacts
  BY InTxnFacts
<1>3. /\ x \in UserBlock /\ x < nblocks' /\ blocks[x] = 0
      /\ x \notin live /\ x \notin Pending /\ x # objlist
      /\ \A k \in Block : IsCopy(k) => blocks[k] # x
      /\ blocks' = [blocks EXCEPT ![x] = b]
      /\ nblocks' \in nblocks .. MaxBlocks
      /\ fsize' \in nblocks' .. MaxBlocks
      /\ flist' \in [FreeListRoot -> Seq(UserBlock)]
      /\ flist'[1] = flist[1]
      /\ IsInjective(flist'[2])
      /\ x \notin Range(flist'[2])
      /\ Range(flist'[2]) \cup {x} = Range(flist[2]) \cup (nblocks .. nblocks' - 1)
      /\ rc' = OK
  BY <1>1, TakeEffect
<1>4. /\ live \subseteq UserBlock
      /\ objlist \in UserBlock \cup {3}
      /\ b \in live \/ (b = 3 /\ objlist = 3 /\ b \notin live)
      /\ b \in Block /\ b # x /\ b > 0 /\ b # 1
  <2>1. live \subseteq UserBlock /\ objlist \in UserBlock \cup {3}
    BY Numbers DEF IInv, TypeOK
  <2>2. b \notin live => b = 3 /\ objlist = 3
    BY <1>1, <1>2 DEF OpenFacts
  <2>3. QED
    BY <1>3, <2>1, <2>2, Numbers
<1>5. TypeOK'
  <2>2. blocks' \in [Block -> {ALLOCATED, FREED} \cup Block]
    BY <1>2, <1>3, <1>4 DEF OpenFacts
  <2>3. /\ fsize' \in EDB_USER_DATA .. MaxBlocks
        /\ nblocks' \in 0 .. MaxBlocks
    BY <1>2, <1>3, Numbers DEF OpenFacts
  <2>4. live' \subseteq UserBlock /\ objlist' \in {EDB_OBJLIST} \cup UserBlock
    <3>1. x \in UserBlock /\ live \subseteq UserBlock
          /\ objlist \in {EDB_OBJLIST} \cup UserBlock
      BY <1>3, <1>4, Numbers
    <3>2. \/ live' = (live \ {b}) \cup {x} /\ objlist' = objlist
          \/ live' = live /\ objlist' = x
      OBVIOUS
    <3>3. QED
      BY ONLY <3>1, <3>2
  <2>5. /\ freelist' \in FreeListRoot /\ txn' \in BOOLEAN
        /\ ts_nblocks' \in 0 .. MaxBlocks /\ pc' \in {"ready", "commit"}
        /\ todo' \subseteq Block
    BY <1>1 DEF IInv, TypeOK
  <2>6. QED
    BY <1>1, <1>3, <2>2, <2>3, <2>4, <2>5 DEF TypeOK, OK
<1>6. Waiting' = Block
  BY <1>1, <1>2 DEF Waiting, OpenFacts
<1>7. \A k \in Block : blocks'[k] = IF k = x THEN b ELSE blocks[k]
  BY <1>2, <1>3 DEF OpenFacts
<1>8. Pending' = IF b = 3 THEN Pending ELSE Pending \cup {b}
  <2> SUFFICES ASSUME NEW p
               PROVE  p \in Pending' <=> p \in Pending \/ (p = b /\ b # 3)
    OBVIOUS
  <2>1. p \in Block => (blocks'[p] = FREED <=> blocks[p] = FREED)
    BY <1>3, <1>4, <1>7, Numbers
  <2>2. \A k \in Block : blocks'[k] > 0 /\ blocks'[k] = p
          <=> (IsCopy(k) /\ blocks[k] = p) \/ (k = x /\ p = b)
    BY <1>3, <1>4, <1>7, Numbers DEF IsCopy
  <2>3. Waiting = Block /\ x \in Block
    BY <1>2, <1>3, Numbers DEF OpenFacts
  <2>4. QED
    BY <1>4, <1>6, <2>1, <2>2, <2>3, Numbers, PendingMember, PendingMemberNext
<1>9. Committed' = Committed
  <2>1. Committed = {y \in live : blocks[y] = 0} \cup Pending
    BY <1>2 DEF OpenFacts, Committed
  <2>2. Committed' = {y \in live' : blocks'[y] = 0} \cup Pending'
    BY <1>1, <1>2 DEF OpenFacts, Committed
  <2>3. ASSUME b \in live PROVE Committed' = Committed
    <3>1. \A y \in live' : blocks'[y] = 0 <=> y \in live /\ blocks[y] = 0 /\ y # b
      BY <1>3, <1>4, <1>7, <2>3, Numbers
    <3>2. b # 3 /\ \A y \in live : y # b => y \in live'
      BY <1>4, <2>3, Numbers
    <3>3. QED
      BY <1>1, <1>8, <2>1, <2>2, <2>3, <3>1, <3>2
  <2>4. ASSUME b = 3, b \notin live PROVE Committed' = Committed
    BY <1>3, <1>4, <1>7, <1>8, <2>1, <2>2, <2>4, Numbers
  <2>5. QED
    BY <1>4, <2>3, <2>4
<1>10. RecordOK'
  <2>1. /\ blocks'[2] = 1
        /\ \A k \in {0, 1, 3} : blocks'[k] = 0
        /\ objlist' # 3 => blocks'[objlist'] = 3
    <3>1. blocks'[2] = 1 /\ \A k \in {0, 1, 3} : blocks'[k] = 0
      <4>1. blocks[2] = 1 /\ blocks[0] = 0 /\ blocks[1] = 0 /\ blocks[3] = 0
        BY <1>2 DEF OpenFacts
      <4>2. \A k \in {0, 1, 2, 3} : k \in Block /\ k # x
        BY <1>3, Numbers
      <4>3. QED
        BY <1>7, <4>1, <4>2
    <3>2. CASE b \in live
      <4>1. objlist' = objlist /\ objlist \in Block /\ objlist # x
        BY <1>3, <1>4, <3>2, Numbers
      <4>2. QED
        BY <1>2, <1>7, <3>1, <4>1 DEF OpenFacts
    <3>3. CASE b = 3 /\ b \notin live
      <4>1. objlist' = x /\ x \in Block
        BY <1>3, <3>3, Numbers
      <4>2. QED
        BY <1>7, <3>1, <3>3, <4>1
    <3>4. QED
      BY <1>4, <3>2, <3>3
  <2>2. \A k \in Waiting' : IsCopy(k)' =>
          k = 2 \/ k = objlist' \/ blocks'[k] \in UserBlock
    BY <1>2, <1>3, <1>4, <1>6, <1>7, Numbers DEF OpenFacts, IsCopy
  <2>3. \A k \in Block : IsCopy(k) => blocks[k] # b
    <3> SUFFICES ASSUME NEW k \in Block, IsCopy(k), blocks[k] = b PROVE FALSE
      OBVIOUS
    <3>1. CASE b \in live
      <4>1. b # EDB_FREELIST_PRIMARY /\ b # EDB_OBJLIST /\ k \in Waiting
        BY <1>2, <1>4, <3>1, Numbers DEF OpenFacts
      <4>2. b \in Pending
        BY <4>1, PendingMember
      <4>3. QED
        BY <1>2, <3>1, <4>2 DEF OpenFacts, Disjoint
    <3>2. CASE b = 3 /\ objlist = 3
      BY <1>2, <3>2, Numbers DEF OpenFacts, IsCopy
    <3>3. QED
      BY <1>4, <3>1, <3>2
  <2>4. \A j, k \in Block : IsCopy(j)' /\ blocks'[j] = blocks'[k] => j = k
    <3>1. \A k \in Block : k # x => blocks'[k] = blocks[k]
      BY <1>7
    <3>2. blocks'[x] = b /\ x \in Block
      <4>1. x \in UserBlock
        BY <1>3
      <4>2. x \in Block
        BY ONLY <4>1, Numbers
      <4>3. QED
        BY <1>7, <4>2
    <3>3. \A k \in Block : k # x => blocks[k] # b \/ ~IsCopy(k)
      BY <2>3
    <3>4. \A k \in Block : blocks[k] = b => IsCopy(k)
      BY <1>4, Numbers DEF IsCopy
    <3>5. \A j, k \in Block : IsCopy(j) /\ blocks[j] = blocks[k] => j = k
      BY <1>2 DEF OpenFacts
    <3>6. QED
      BY <3>1, <3>2, <3>3, <3>4, <3>5 DEF IsCopy
  <2>5. \A k \in Block : IsCopy(k)' => blocks'[blocks'[k]] = 0
    <3> SUFFICES ASSUME NEW k \in Block, IsCopy(k)' PROVE blocks'[blocks'[k]] = 0
      OBVIOUS
    <3>1. CASE k = x
      BY <1>1, <1>3, <1>4, <1>7, <3>1, Numbers
    <3>2. CASE k # x
      <4>1. IsCopy(k) /\ blocks'[k] = blocks[k] /\ blocks[k] # x /\ blocks[blocks[k]] = 0
        BY <1>2, <1>3, <1>7, <3>2 DEF OpenFacts, IsCopy
      <4>2. blocks[k] \in Block
        BY <1>2, <4>1, Numbers DEF OpenFacts, IsCopy
      <4>3. QED
        BY <1>7, <4>1, <4>2
    <3>3. QED
      BY <3>1, <3>2
  <2>6. \A k \in Block : k \in Range(flist'[2]) \/ k >= nblocks' => blocks'[k] = 0
    BY <1>2, <1>3, <1>7, Numbers DEF OpenFacts
  <2>7. QED
    BY <1>1, <1>2, <2>1, <2>2, <2>4, <2>5, <2>6, Numbers DEF OpenFacts, RecordOK
<1>11. /\ Disjoint(Range(flist'[2]), live', Pending', Copied')
       /\ Range(flist'[2]) \cup live' \cup Pending' \cup Copied'
            = Range(flist[2]) \cup live \cup Pending \cup Copied
                \cup (nblocks .. nblocks' - 1)
  <2>1. /\ Copied = IF objlist = 3 THEN {} ELSE {objlist}
        /\ Copied' = IF objlist' = 3 THEN {} ELSE {objlist'}
    BY Numbers DEF Copied
  <2>3. \A y \in nblocks .. nblocks' - 1 : y \notin 4 .. nblocks - 1
    BY <1>2, <1>3 DEF OpenFacts
  <2>4. Disjoint(Range(flist'[2]), live', Pending', Copied')
    <3>1. \A y \in Range(flist'[2]) :
            y # x /\ (y \in Range(flist[2]) \/ y \notin 4 .. nblocks - 1)
      BY <1>3, <2>3
    <3>2. \A y \in live \cup Pending \cup Copied :
            y \in 4 .. nblocks - 1 /\ y \notin Range(flist[2]) /\ y # x
      BY <1>2, <1>3, <2>1, Numbers DEF OpenFacts, Disjoint
    <3>3. /\ live \cap Pending = {} /\ live \cap Copied = {}
          /\ Pending \cap Copied = {}
      BY <1>2 DEF OpenFacts, Disjoint
    <3>4. CASE b \in live
      <4>1. live' = (live \ {b}) \cup {x} /\ Pending' = Pending \cup {b} /\ Copied' = Copied
        BY <1>4, <1>8, <2>1, <3>4, Numbers
      <4>2. QED
        BY <3>1, <3>2, <3>3, <3>4, <4>1 DEF Disjoint
    <3>5. CASE b = 3 /\ objlist = 3 /\ b \notin live
      <4>1. live' = live /\ Pending' = Pending /\ Copied = {} /\ Copied' = {x}
        BY <1>3, <1>8, <2>1, <3>5, Numbers
      <4>2. QED
        BY <3>1, <3>2, <3>3, <4>1 DEF Disjoint
    <3>6. QED
      BY <1>4, <3>4, <3>5
  <2>5. Range(flist'[2]) \cup live' \cup Pending' \cup Copied'
          = Range(flist[2]) \cup live \cup Pending \cup Copied
              \cup (nblocks .. nblocks' - 1)
    <3>1. live' \cup Pending' \cup Copied' = live \cup Pending \cup Copied \cup {x}
      BY <1>3, <1>4, <1>8, <2>1, Numbers
    <3>2. QED
      BY <1>3, <3>1
  <2>6. QED
    BY <2>4, <2>5
<1>12. QED
  BY <1>1, <1>2, <1>3, <1>5, <1>9, <1>10, <1>11, InTxnStep DEF OpenFacts

\* A copy holds what a block can hold.
LEMMA CopiedType ==
  ASSUME IInv, InTxn, NEW b \in Block,
         CopyOnWrite(b, FreelistAllocate(flist[freelist], nblocks))
  PROVE  data' \in [Block -> Value]
BY DEF IInv, TypeOK, CopyOnWrite

\* txn_modify_block of a block of the caller's,
LEMMA ModifyStep ==
  ASSUME IInv, NEW b \in live, txn_modify_block(b)
  PROVE  IInv' /\ Committed' = Committed /\ LosesNone
<1>1. b \in Block
  BY Numbers DEF IInv, TypeOK
<1>2. data' \in [Block -> Value]
  BY <1>1, CopiedType DEF txn_modify_block
<1>3. QED
  BY <1>2, CopyStep DEF txn_modify_block, CopyOnWrite, CopiedTo

\* and of the object list.
LEMMA ModifyObjlistStep ==
  ASSUME IInv, ModifyObjlist
  PROVE  IInv' /\ Committed' = Committed /\ LosesNone
<1>1. OpenFacts
  BY InTxnFacts DEF ModifyObjlist
<1>2. objlist = 3 /\ objlist \notin live
  BY <1>1, Numbers DEF ModifyObjlist, CopyOnWrite, OpenFacts, IInv, TypeOK
<1>3. data' \in [Block -> Value]
  BY <1>2, Numbers, CopiedType DEF ModifyObjlist
<1>4. QED
  BY <1>2, <1>3, CopyStep DEF ModifyObjlist, CopyOnWrite, CopiedTo

\* Freeing a block: it goes to the free list, or waits for the commit.
LEMMA ReleaseStep ==
  ASSUME IInv, NEW b \in live, Released(b)
  PROVE  IInv' /\ Committed' = Committed /\ LosesNone
<1>1. /\ InTxn
      /\ live' = live \ {b}
      /\ data' \in [Block -> Value]
      /\ rc' = OK
      /\ UNCHANGED <<fsize, nblocks, freelist, objlist, txn, ts_nblocks, pc, todo>>
  BY DEF Released, io, loop
<1>2. OpenFacts
  BY <1>1, InTxnFacts
<1>3. /\ TypeOK
      /\ b \in UserBlock /\ b \in Block /\ b < nblocks
      /\ b \notin Range(flist[2]) /\ b \notin Pending /\ b # objlist
  BY <1>2, Numbers DEF IInv, TypeOK, OpenFacts, Disjoint, Copied
<1>4. Waiting' = Block
  BY <1>1, <1>2 DEF Waiting, OpenFacts
<1>5. \A k \in Block : IsCopy(k) => blocks[k] # b
  <2>1. b # EDB_FREELIST_PRIMARY /\ b # EDB_OBJLIST /\ Waiting = Block
    BY <1>2, <1>3, Numbers DEF OpenFacts
  <2>2. QED
    BY <1>3, <2>1, PendingMember
<1>6. /\ Committed = {y \in live : blocks[y] = 0} \cup Pending
      /\ Committed' = {y \in live' : blocks'[y] = 0} \cup Pending'
  BY <1>1, <1>2 DEF OpenFacts, Committed
\* The part of the argument the three kinds of block share.
<1>7. ASSUME blocks' \in [Block -> {ALLOCATED, FREED} \cup Block],
             \/ Push(b) /\ Pending' = Pending /\ blocks'[b] = 0 /\ blocks[b] # 0
             \/ /\ flist' = flist /\ Pending' = Pending \cup {b}
                /\ blocks'[b] = FREED /\ blocks[b] = 0,
             \A k \in live : k # b => blocks'[k] = blocks[k],
             RecordOK'
      PROVE  IInv' /\ Committed' = Committed /\ LosesNone
  <2>1. Committed' = Committed
    BY <1>1, <1>3, <1>6, <1>7, Numbers
  <2>2. /\ flist' \in [FreeListRoot -> Seq(UserBlock)]
        /\ flist'[1] = flist[1]
        /\ IsInjective(flist'[2])
        /\ \/ Range(flist'[2]) = Range(flist[2]) \cup {b} /\ Pending' = Pending
           \/ Range(flist'[2]) = Range(flist[2]) /\ Pending' = Pending \cup {b}
    <3>1. CASE flist' = flist /\ Pending' = Pending \cup {b}
      BY <1>2, <1>3, <3>1 DEF OpenFacts, TypeOK
    <3>2. CASE Push(b) /\ Pending' = Pending
      <4>1. flist' = [flist EXCEPT ![2] = Append(flist[2], b)]
        BY <1>2, <3>2 DEF Push, OpenFacts
      <4>2. flist \in [FreeListRoot -> Seq(UserBlock)] /\ flist[2] \in Seq(UserBlock)
        BY <1>2, <1>3 DEF TypeOK, OpenFacts
      <4>3. /\ Append(flist[2], b) \in Seq(UserBlock)
            /\ Range(Append(flist[2], b)) = Range(flist[2]) \cup {b}
            /\ IsInjective(Append(flist[2], b))
        BY <1>2, <1>3, <4>2, AppendFresh DEF OpenFacts
      <4>4. QED
        BY <3>2, <4>1, <4>2, <4>3, Numbers
    <3>3. QED
      BY <1>7, <3>1, <3>2
  <2>3. TypeOK'
    BY <1>1, <1>3, <1>7, <2>2 DEF TypeOK
  <2>4. /\ Disjoint(Range(flist'[2]), live', Pending', Copied')
        /\ Range(flist'[2]) \cup live' \cup Pending' \cup Copied'
             = Range(flist[2]) \cup live \cup Pending \cup Copied
                 \cup (nblocks .. nblocks' - 1)
    <3>1. Copied' = Copied
      BY <1>1 DEF Copied
    <3>2. Disjoint(Range(flist'[2]), live', Pending', Copied')
      BY <1>1, <1>2, <1>3, <2>2, <3>1 DEF OpenFacts, Disjoint
    <3>3. Range(flist'[2]) \cup live' \cup Pending' \cup Copied'
            = Range(flist[2]) \cup live \cup Pending \cup Copied
      BY <1>1, <2>2, <3>1
    <3>4. nblocks .. nblocks' - 1 = {}
      BY <1>1, <1>2 DEF OpenFacts
    <3>5. QED
      BY <3>2, <3>3, <3>4
  <2>5. QED
    BY <1>1, <1>2, <1>7, <2>1, <2>2, <2>3, <2>4, InTxnStep DEF OpenFacts
<1>8. CASE FreeAllocated(b)
  <2>1. /\ blocks[b] = ALLOCATED /\ Push(b)
        /\ blocks' = [blocks EXCEPT ![b] = 0]
    BY <1>8 DEF FreeAllocated
  <2>2. blocks' \in [Block -> {ALLOCATED, FREED} \cup Block]
    BY <1>2, <2>1, Numbers DEF OpenFacts
  <2>3. \A k \in Block : blocks'[k] = IF k = b THEN 0 ELSE blocks[k]
    BY <1>2, <2>1 DEF OpenFacts
  <2>4. Pending' = Pending
    <3> SUFFICES ASSUME NEW p PROVE p \in Pending' <=> p \in Pending
      OBVIOUS
    <3>1. p \in Block => (blocks'[p] = FREED <=> blocks[p] = FREED)
      BY <2>1, <2>3, Numbers
    <3>2. \A k \in Block : blocks'[k] > 0 /\ blocks'[k] = p <=> IsCopy(k) /\ blocks[k] = p
      BY <2>1, <2>3, Numbers DEF IsCopy
    <3>3. QED
      BY <1>2, <1>4, <3>1, <3>2, PendingMember, PendingMemberNext DEF OpenFacts
  <2>5. RecordOK'
    <3>1. /\ blocks'[2] = 1
          /\ \A k \in {0, 1, 3} : blocks'[k] = 0
          /\ objlist' # 3 => blocks'[objlist'] = 3
      BY <1>1, <1>2, <1>3, <2>3, Numbers DEF OpenFacts, TypeOK
    <3>2. \A k \in Block : IsCopy(k)' => IsCopy(k) /\ k # b /\ blocks'[k] = blocks[k]
      BY <2>3 DEF IsCopy
    <3>3. \A k \in Waiting' : IsCopy(k)' =>
            k = 2 \/ k = objlist' \/ blocks'[k] \in UserBlock
      BY <1>1, <1>2, <1>4, <3>2 DEF OpenFacts
    <3>4. \A j, k \in Block : IsCopy(j)' /\ blocks'[j] = blocks'[k] => j = k
      BY <1>2, <2>3, <3>2, Numbers DEF OpenFacts, IsCopy
    <3>5. \A k \in Block : IsCopy(k)' => blocks'[blocks'[k]] = 0
      <4>1. \A k \in Block : IsCopy(k) => blocks[k] \in Block
        BY <1>2, Numbers DEF OpenFacts, IsCopy
      <4>2. QED
        BY <1>2, <2>3, <3>2, <4>1 DEF OpenFacts
    <3>6. \A k \in Block : k \in Range(flist'[2]) \/ k >= nblocks' => blocks'[k] = 0
      <4>1. Range(flist'[2]) = Range(flist[2]) \cup {b}
        <5>1. flist'[2] = Append(flist[2], b)
          BY <1>2, <1>3, <2>1, Numbers DEF Push, OpenFacts, TypeOK
        <5>2. QED
          BY <1>2, <1>3, <5>1, AppendFresh DEF OpenFacts
      <4>2. QED
        BY <1>1, <1>2, <1>3, <2>3, <4>1 DEF OpenFacts
    <3>7. QED
      BY <1>1, <1>2, <3>1, <3>3, <3>4, <3>5, <3>6, Numbers DEF OpenFacts, RecordOK
  <2>6. QED
    BY <1>3, <1>7, <2>1, <2>2, <2>3, <2>4, <2>5, Numbers DEF TypeOK
<1>9. CASE FreeCopy(b)
  <2> DEFINE p == blocks[b]
  <2>1. /\ IsCopy(b) /\ Push(b)
        /\ blocks' = [blocks EXCEPT ![b] = 0, ![p] = FREED]
    BY <1>9 DEF FreeCopy
  <2>2. p \in UserBlock /\ p \in Block /\ p # b /\ blocks[p] = 0
    BY <1>2, <1>3, <2>1, Numbers DEF OpenFacts
  <2>3. p \in Pending
    <3>1. p # EDB_FREELIST_PRIMARY /\ p # EDB_OBJLIST /\ b \in Waiting
      BY <1>2, <1>3, <2>2, Numbers DEF OpenFacts
    <3>2. QED
      BY <2>1, <3>1, PendingMember
  <2>4. p \notin live /\ p \notin Range(flist[2]) /\ p # objlist /\ p < nblocks
    <3>1. p \notin live /\ p \notin Range(flist[2]) /\ p \notin Copied
      BY <1>2, <2>3 DEF OpenFacts, Disjoint
    <3>2. p \in 4 .. nblocks - 1
      BY <1>2, <2>3 DEF OpenFacts
    <3>3. p # objlist
      BY <2>2, <3>1, Numbers DEF Copied
    <3>4. p < nblocks
      BY <1>2, <3>2, Numbers DEF OpenFacts
    <3>5. QED
      BY <3>1, <3>3, <3>4
  <2>5. blocks' \in [Block -> {ALLOCATED, FREED} \cup Block]
    <3> DEFINE T == [Block -> {ALLOCATED, FREED} \cup Block]
               r == [blocks EXCEPT ![b] = 0]
    <3>1. r \in T
      BY <1>2, Numbers DEF OpenFacts
    <3>2. blocks' = [r EXCEPT ![p] = FREED]
      BY <2>1
    <3> HIDE DEF r
    <3>3. QED
      BY <3>1, <3>2
  <2>6. \A k \in Block :
          blocks'[k] = IF k = p THEN FREED ELSE IF k = b THEN 0 ELSE blocks[k]
    BY <1>2, <2>1, <2>2 DEF OpenFacts
  <2>7. \A k \in Block : IsCopy(k)' <=> IsCopy(k) /\ k # b
    BY <2>2, <2>6, Numbers DEF IsCopy
  <2>8. \A k \in Block : IsCopy(k)' =>
          blocks'[k] = blocks[k] /\ blocks[k] # p /\ blocks[k] # b /\ k # p
    BY <1>2, <1>3, <1>5, <2>1, <2>2, <2>6, <2>7, Numbers DEF OpenFacts, IsCopy
  <2>9. Pending' = Pending
    <3> SUFFICES ASSUME NEW y PROVE y \in Pending' <=> y \in Pending
      OBVIOUS
    <3>1. y = p => y \in Pending' /\ y \in Pending
      BY <1>4, <2>2, <2>3, <2>6, Numbers, PendingMemberNext
    <3>2. y # p /\ y \in Block => (blocks'[y] = FREED <=> blocks[y] = FREED)
      BY <2>2, <2>6, Numbers
    <3>3. y # p => \A k \in Block :
            blocks'[k] > 0 /\ blocks'[k] = y <=> IsCopy(k) /\ blocks[k] = y
      BY <2>2, <2>6, <2>7, <2>8, Numbers DEF IsCopy
    <3>4. QED
      BY <1>2, <1>4, <3>1, <3>2, <3>3, PendingMember, PendingMemberNext DEF OpenFacts
  <2>10. RecordOK'
    <3>1. /\ blocks'[2] = 1
          /\ \A k \in {0, 1, 3} : blocks'[k] = 0
          /\ objlist' # 3 => blocks'[objlist'] = 3
      <4>1. objlist \in Block /\ objlist' = objlist
        BY <1>1, <1>3, Numbers DEF TypeOK
      <4>2. blocks'[objlist] = blocks[objlist]
        BY <1>3, <2>4, <2>6, <4>1
      <4>3. \A k \in {0, 1, 2, 3} : blocks'[k] = blocks[k]
        BY <1>3, <2>2, <2>6, Numbers
      <4>4. QED
        BY <1>2, <4>1, <4>2, <4>3 DEF OpenFacts
    <3>2. \A k \in Waiting' : IsCopy(k)' =>
            k = 2 \/ k = objlist' \/ blocks'[k] \in UserBlock
      BY <1>1, <1>2, <1>4, <2>7, <2>8 DEF OpenFacts
    <3>3. \A j, k \in Block : IsCopy(j)' /\ blocks'[j] = blocks'[k] => j = k
      BY <1>2, <2>6, <2>7, <2>8, Numbers DEF OpenFacts, IsCopy
    <3>4. \A k \in Block : IsCopy(k)' => blocks'[blocks'[k]] = 0
      <4>1. \A k \in Block : IsCopy(k) => blocks[k] \in Block
        BY <1>2, Numbers DEF OpenFacts, IsCopy
      <4>2. QED
        BY <1>2, <2>6, <2>7, <2>8, <4>1 DEF OpenFacts
    <3>5. \A k \in Block : k \in Range(flist'[2]) \/ k >= nblocks' => blocks'[k] = 0
      <4>1. Range(flist'[2]) = Range(flist[2]) \cup {b}
        <5>1. flist'[2] = Append(flist[2], b)
          BY <1>2, <1>3, <2>1, Numbers DEF Push, OpenFacts, TypeOK
        <5>2. QED
          BY <1>2, <1>3, <5>1, AppendFresh DEF OpenFacts
      <4>2. /\ p \in Block /\ p \notin Range(flist[2]) /\ p < nblocks /\ p # b
            /\ nblocks' = nblocks /\ nblocks \in Nat
        BY <1>1, <1>2, <1>3, <2>2, <2>4, Numbers DEF OpenFacts
      <4>3. \A k \in Block : k \in Range(flist[2]) \/ k >= nblocks => blocks[k] = 0
        BY <1>2 DEF OpenFacts
      <4>4. \A k \in Block : k \in Range(flist'[2]) =>
              k \in Range(flist[2]) \/ k = b
        BY <4>1
      <4>5. \A k \in Block : k \in Range(flist'[2]) => blocks'[k] = 0
        BY <2>6, <4>2, <4>3, <4>4
      <4>6. \A k \in Block : k >= nblocks' => blocks'[k] = 0
        <5>1. \A k \in Block : k >= nblocks => k # p
          BY <4>2, Numbers
        <5>2. QED
          BY <2>6, <4>2, <4>3, <5>1
      <4>7. QED
        BY <4>5, <4>6
    <3>6. QED
      BY <1>1, <1>2, <3>1, <3>2, <3>3, <3>4, <3>5, Numbers DEF OpenFacts, RecordOK
  <2>11. blocks'[b] = 0 /\ blocks[b] # 0 /\ \A k \in live : k # b => blocks'[k] = blocks[k]
    BY <1>3, <2>1, <2>2, <2>4, <2>6, Numbers DEF IsCopy, TypeOK
  <2>12. QED
    BY <1>7, <2>1, <2>5, <2>9, <2>10, <2>11
<1>10. CASE FreeCommitted(b)
  <2>1. /\ blocks[b] = 0 /\ flist' = flist
        /\ blocks' = [blocks EXCEPT ![b] = FREED]
    BY <1>10 DEF FreeCommitted
  <2>2. blocks' \in [Block -> {ALLOCATED, FREED} \cup Block]
    BY <1>2, <2>1 DEF OpenFacts
  <2>3. \A k \in Block : blocks'[k] = IF k = b THEN FREED ELSE blocks[k]
    BY <1>2, <2>1 DEF OpenFacts
  <2>4. \A k \in Block : IsCopy(k)' <=> IsCopy(k)
    BY <2>1, <2>3, Numbers DEF IsCopy
  <2>5. \A k \in Block : IsCopy(k) => k # b /\ blocks'[k] = blocks[k]
    BY <2>1, <2>3 DEF IsCopy
  <2>6. Pending' = Pending \cup {b}
    <3> SUFFICES ASSUME NEW p PROVE p \in Pending' <=> p \in Pending \/ p = b
      OBVIOUS
    <3>1. p \in Block => (blocks'[p] = FREED <=> blocks[p] = FREED \/ p = b)
      BY <2>3
    <3>2. \A k \in Block : blocks'[k] > 0 /\ blocks'[k] = p <=> IsCopy(k) /\ blocks[k] = p
      BY <2>4, <2>5 DEF IsCopy
    <3>3. QED
      BY <1>2, <1>3, <1>4, <3>1, <3>2, Numbers, PendingMember, PendingMemberNext DEF OpenFacts
  <2>7. RecordOK'
    <3>1. /\ blocks'[2] = 1
          /\ \A k \in {0, 1, 3} : blocks'[k] = 0
          /\ objlist' # 3 => blocks'[objlist'] = 3
      BY <1>1, <1>2, <1>3, <2>3, Numbers DEF OpenFacts, TypeOK
    <3>2. \A k \in Waiting' : IsCopy(k)' =>
            k = 2 \/ k = objlist' \/ blocks'[k] \in UserBlock
      BY <1>1, <1>2, <1>4, <2>4, <2>5 DEF OpenFacts
    <3>3. \A j, k \in Block : IsCopy(j)' /\ blocks'[j] = blocks'[k] => j = k
      BY <1>2, <2>3, <2>4, <2>5, Numbers DEF OpenFacts, IsCopy
    <3>4. \A k \in Block : IsCopy(k)' => blocks'[blocks'[k]] = 0
      <4>1. \A k \in Block : IsCopy(k) => blocks[k] \in Block
        BY <1>2, Numbers DEF OpenFacts, IsCopy
      <4>2. QED
        BY <1>2, <1>5, <2>3, <2>4, <2>5, <4>1 DEF OpenFacts
    <3>5. \A k \in Block : k \in Range(flist'[2]) \/ k >= nblocks' => blocks'[k] = 0
      BY <1>1, <1>2, <1>3, <2>1, <2>3, Numbers DEF OpenFacts
    <3>6. QED
      BY <1>1, <1>2, <3>1, <3>2, <3>3, <3>4, <3>5, Numbers DEF OpenFacts, RecordOK
  <2>8. QED
    BY <1>3, <1>7, <2>1, <2>2, <2>3, <2>6, <2>7, Numbers DEF TypeOK
<1>11. QED
  BY <1>8, <1>9, <1>10 DEF Released

\* txn_free_block: of a new block, of a copy, of a committed block.
LEMMA FreeStep ==
  ASSUME IInv, NEW b \in live, txn_free_block(b)
  PROVE  IInv' /\ Committed' = Committed /\ LosesNone
<1>1. data' \in [Block -> Value]
  BY DEF IInv, TypeOK, txn_free_block
<1>2. QED
  BY <1>1, ReleaseStep DEF txn_free_block, Released

\* A call that is refused, and a store into a block, leave all of it alone.
LEMMA QuietStep ==
  ASSUME IInv,
         UNCHANGED <<io, flist, freelist, objlist, state, loop, live>>,
         TypeOK'
  PROVE  IInv' /\ Committed' = Committed /\ LosesNone
<1>1. UNCHANGED <<fsize, nblocks, flist, freelist, objlist, txn, blocks,
                  ts_nblocks, pc, todo, live>>
  BY DEF io, state, loop
<1>2. Pending' = Pending /\ Committed' = Committed /\ Copied' = Copied
  BY <1>1 DEF Pending, Given, Waiting, IsCopy, Committed, Copied
<1>3. Closed' /\ Sizes' /\ Roots'
  BY <1>1, <1>2 DEF IInv, Closed, Sizes, Roots, Mapped, Aborting
<1>4. RecordOK'
  BY <1>1 DEF IInv, RecordOK, Mapped, Waiting, IsCopy
<1>5. Known' = Known /\ Kept' = Kept
  BY <1>1, <1>2 DEF Known, Kept
<1>6. NoneShared' /\ AbortKept'
  BY <1>1, <1>2, <1>5 DEF IInv, NoneShared, AbortKept, Mapped, Aborting
<1>7. LosesNone
  BY <1>1, <1>5 DEF LosesNone, Lost, Mapped, Aborting
<1>8. QED
  BY <1>2, <1>3, <1>4, <1>6, <1>7 DEF IInv

\* A failed io_resize leaves nothing mapped.
LEMMA ResizeFailsStep ==
  ASSUME IInv, InTxn, ResizeFails
  PROVE  IInv' /\ Committed' = Committed /\ LosesNone
<1>1. /\ UNCHANGED <<data, flist, freelist, objlist, txn, blocks, ts_nblocks,
                     pc, todo, live>>
      /\ nblocks' = 0
      /\ fsize' \in {fsize, ResizedFile(GrownSize(nblocks))}
      /\ rc' = IO_ERROR
      /\ fsize' <= MaxBlocks
  BY DEF ResizeFails, disk, state, loop
<1>2. OpenFacts /\ TypeOK
  BY InTxnFacts DEF IInv
<1>3. GrownSize(nblocks) \in Nat /\ GrownSize(nblocks) > nblocks
  <2>1. nblocks \in EDB_USER_DATA .. MaxBlocks
    BY <1>2, Numbers DEF OpenFacts
  <2>2. QED
    BY <2>1, GrownSizeGrows
<1> DEFINE g == GrownSize(nblocks)
<1> HIDE DEF g
<1>4. fsize' \in fsize .. MaxBlocks
  <2>1. g \in Nat /\ g > nblocks /\ fsize' <= MaxBlocks /\ fsize' \in {fsize, ResizedFile(g)}
    BY <1>1, <1>3 DEF g
  <2>2. fsize \in Nat /\ nblocks \in Nat /\ fsize <= MaxBlocks
    BY <1>2, Numbers DEF TypeOK
  <2>3. QED
    BY <2>1, <2>2, Numbers DEF ResizedFile
<1>5. TypeOK'
  <2>1. fsize' \in EDB_USER_DATA .. MaxBlocks
    BY <1>2, <1>4, Numbers DEF TypeOK
  <2>2. QED
    BY <1>1, <1>2, <2>1, Numbers DEF TypeOK
<1>6. Closed' /\ Sizes' /\ Roots'
  BY <1>1, <1>2, <1>4, Numbers DEF OpenFacts, Closed, Sizes, Roots, Mapped, Aborting
<1>7. Committed' = Committed
  BY <1>1 DEF Committed, Pending, Given, Waiting, IsCopy
<1>8. RecordOK' /\ NoneShared'
  BY <1>1 DEF RecordOK, NoneShared, Mapped
<1>9. Kept' = Kept
  BY <1>1, <1>7 DEF Kept
<1>10. AbortKept'
  BY <1>1, <1>7, <1>9 DEF IInv, AbortKept
<1>11. LosesNone
  BY <1>1, <1>9 DEF LosesNone, Lost, Mapped
<1>12. QED
  BY <1>5, <1>6, <1>7, <1>8, <1>10, <1>11 DEF IInv

-----------------------------------------------------------------------------
(***************************************************************************)
(* The first and the last step of a transaction.                           *)
(***************************************************************************)

\* An empty record gives nothing up.
LEMMA NothingPending ==
  ASSUME blocks = Unset, pc = "ready"
  PROVE  Pending = {}
<1>1. Waiting = Block /\ \A k \in Block : blocks[k] # FREED /\ ~IsCopy(k)
  BY Numbers DEF Waiting, Unset, IsCopy
<1>2. QED
  BY <1>1, PendingMember

\* An empty record gives up nothing.
LEMMA NothingPendingNext ==
  ASSUME blocks' = Unset, pc' = "ready"
  PROVE  Pending' = {}
<1>1. Waiting' = Block /\ \A k \in Block : blocks'[k] # FREED /\ ~(blocks'[k] > 0)
  BY Numbers DEF Waiting, Unset
<1>2. QED
  BY <1>1, PendingMemberNext

\* txn_begin.
LEMMA BeginStep ==
  ASSUME IInv, txn_begin
  PROVE  IInv' /\ Committed' = live /\ LosesNone
<1>1. /\ pc = "ready" /\ txn = FALSE /\ Mapped
      /\ freelist = 1 /\ objlist = 3 /\ blocks = Unset
      /\ TypeOK
  BY Numbers DEF txn_begin, Ready, IInv, TypeOK, Closed
<1>2. /\ flist' = [flist EXCEPT ![2] = flist[1]]
      /\ blocks' = [Unset EXCEPT ![2] = 1]
      /\ freelist' = 2 /\ txn' = TRUE /\ ts_nblocks' = nblocks /\ rc' = OK
      /\ UNCHANGED <<fsize, nblocks, data, objlist, pc, todo, live>>
  BY Numbers DEF txn_begin, io, loop
<1>3. nblocks \in 4 .. MaxBlocks /\ fsize \in nblocks .. MaxBlocks
  BY <1>1, Numbers DEF IInv, Sizes, TypeOK, Mapped
<1>4. /\ flist \in [FreeListRoot -> Seq(UserBlock)]
      /\ flist' \in [FreeListRoot -> Seq(UserBlock)]
      /\ flist'[1] = flist[1] /\ flist'[2] = flist[1]
  BY <1>1, <1>2, Numbers DEF TypeOK
<1>5. \A k \in Block : blocks'[k] = IF k = 2 THEN 1 ELSE 0
  BY <1>2, Numbers DEF Unset
<1>6. Pending = {} /\ Copied = {}
  BY <1>1, NothingPending, Numbers DEF Copied
<1>7. Waiting' = Block
  BY <1>1, <1>2 DEF Waiting
<1>8. Pending' = {}
  <2> SUFFICES ASSUME NEW b PROVE b \notin Pending'
    OBVIOUS
  <2>1. b \in Block => blocks'[b] # FREED
    BY <1>5, Numbers
  <2>2. \A k \in Block : blocks'[k] > 0 => blocks'[k] = 1
    BY <1>5, Numbers
  <2>3. QED
    BY <1>7, <2>1, <2>2, Numbers, PendingMemberNext
<1>9. Committed' = live
  <2>1. \A b \in live : blocks'[b] = 0
    BY <1>1, <1>5, Numbers DEF TypeOK
  <2>2. QED
    BY <1>1, <1>2, <1>8, <2>1 DEF Committed
<1>10. /\ IsInjective(flist[1])
       /\ Range(flist[1]) \cap live = {}
       /\ Range(flist[1]) \cup live \subseteq 4 .. nblocks - 1
       /\ Known = Range(flist[1]) \cup live
  <2>1. Mapped /\ ~Aborting /\ freelist = 1
    BY <1>1 DEF Aborting
  <2>2. Known = Range(flist[1]) \cup live
    BY <1>6, <2>1 DEF Known
  <2>3. QED
    BY <1>6, <2>1, <2>2, Numbers DEF IInv, NoneShared, Disjoint
<1>11. TypeOK'
  <2>1. blocks' \in [Block -> {ALLOCATED, FREED} \cup Block]
    BY <1>2, Numbers DEF Unset
  <2>2. QED
    BY <1>1, <1>2, <1>3, <1>4, <2>1, Numbers DEF TypeOK
<1>12. Closed' /\ Sizes' /\ Roots'
  BY <1>1, <1>2, <1>3, Numbers DEF Closed, Sizes, Roots, Mapped, Aborting
<1>13. RecordOK'
  <2>1. \A k \in Block : IsCopy(k)' <=> k = 2
    BY <1>5, Numbers DEF IsCopy
  <2>2. blocks'[2] = 1 /\ \A k \in {0, 1, 3} : blocks'[k] = 0
    BY <1>5, Numbers
  <2>3. 2 \notin Range(flist[1]) /\ ~(2 >= nblocks)
    BY <1>3, <1>4, <1>10
  <2>4. QED
    BY <1>1, <1>2, <1>4, <1>5, <1>7, <2>1, <2>2, <2>3, Numbers DEF RecordOK
<1>14. Known' = Known /\ Kept' = Known /\ Copied' = {}
  <2>1. Copied' = {}
    BY <1>1, <1>2, Numbers DEF Copied
  <2>2. QED
    BY <1>2, <1>4, <1>8, <1>9, <1>10, <2>1, Numbers DEF Known, Kept
<1>15. NoneShared'
  BY <1>2, <1>4, <1>8, <1>10, <1>14, Numbers DEF NoneShared, Disjoint
<1>16. AbortKept'
  BY <1>2, <1>4, <1>9, <1>10, <1>14, Numbers DEF AbortKept
<1>17. LosesNone
  BY <1>1, <1>2, <1>14, Numbers DEF LosesNone, Lost, Mapped, Aborting
<1>18. QED
  BY <1>9, <1>11, <1>12, <1>13, <1>15, <1>16, <1>17 DEF IInv

\* The state both outcomes of txn_abort_master fall back on.
LEMMA AbortFacts ==
  ASSUME IInv, AbortRoots
  PROVE  /\ txn = TRUE /\ pc = "ready"
         /\ freelist' = 1 /\ objlist' = 3
         /\ live' = Committed /\ UNCHANGED <<flist, pc, todo>>
         /\ TypeOK
         /\ ts_nblocks \in 4 .. fsize /\ fsize \in Nat /\ fsize <= MaxBlocks
         /\ ResizedFile(ts_nblocks) \in ts_nblocks .. MaxBlocks
         /\ Committed \subseteq UserBlock
         /\ IsInjective(flist[1])
         /\ Range(flist[1]) \cap Committed = {}
         /\ Kept = Range(flist[1]) \cup Committed /\ Kept \subseteq 4 .. ts_nblocks - 1
<1>1. /\ txn = TRUE /\ pc = "ready" /\ freelist' = 1 /\ objlist' = 3
      /\ live' = Committed /\ UNCHANGED <<flist, pc, todo>>
      /\ TypeOK
  BY Numbers DEF AbortRoots, Ready, loop, IInv, TypeOK
<1>2. /\ ts_nblocks \in 4 .. fsize /\ fsize \in Nat /\ fsize <= MaxBlocks
      /\ nblocks \in Nat /\ nblocks <= fsize
  BY <1>1, Numbers DEF IInv, Sizes, TypeOK
<1>3. /\ IsInjective(flist[1])
      /\ Range(flist[1]) \cap Committed = {}
      /\ Kept = Range(flist[1]) \cup Committed /\ Kept \subseteq 4 .. ts_nblocks - 1
  BY <1>1, Numbers DEF IInv, AbortKept, Kept
<1>4. ResizedFile(ts_nblocks) \in ts_nblocks .. MaxBlocks
  BY <1>2, Numbers DEF ResizedFile
<1>5. Committed \subseteq UserBlock
  BY <1>2, <1>3, Numbers
<1>6. QED
  BY <1>1, <1>2, <1>3, <1>4, <1>5

\* A block past a cut reads as zeroes.
LEMMA TruncatedType ==
  ASSUME NEW n, data \in [Block -> Value]
  PROVE  Truncated(data, n) \in [Block -> Value]
BY ValueAssumption DEF Truncated

\* txn_abort, when io_resize succeeds.
LEMMA AbortStep ==
  ASSUME IInv, txn_abort
  PROVE  IInv' /\ LosesNone
<1>1. /\ AbortRoots /\ nblocks' = ts_nblocks /\ fsize' = ResizedFile(ts_nblocks)
      /\ data' = Truncated(data, fsize') /\ txn' = FALSE /\ blocks' = Unset
      /\ ts_nblocks' = 0 /\ rc' = OK
  BY DEF txn_abort
<1>2. /\ txn = TRUE /\ pc = "ready" /\ freelist' = 1 /\ objlist' = 3
      /\ live' = Committed /\ UNCHANGED <<flist, pc, todo>>
      /\ TypeOK
      /\ ts_nblocks \in 4 .. fsize /\ fsize \in Nat /\ fsize <= MaxBlocks
      /\ fsize' \in ts_nblocks .. MaxBlocks
      /\ Committed \subseteq UserBlock
      /\ IsInjective(flist[1])
      /\ Range(flist[1]) \cap Committed = {}
      /\ Kept = Range(flist[1]) \cup Committed /\ Kept \subseteq 4 .. ts_nblocks - 1
  BY <1>1, AbortFacts
<1>3. TypeOK'
  <2>1. data' \in [Block -> Value]
    BY <1>1, <1>2, TruncatedType DEF TypeOK
  <2>2. blocks' \in [Block -> {ALLOCATED, FREED} \cup Block]
    BY <1>1, Numbers DEF Unset
  <2>3. /\ fsize' \in EDB_USER_DATA .. MaxBlocks /\ nblocks' \in 0 .. MaxBlocks
        /\ ts_nblocks' \in 0 .. MaxBlocks
    BY <1>1, <1>2, Numbers
  <2>4. QED
    BY <1>1, <1>2, <2>1, <2>2, <2>3, Numbers DEF TypeOK
<1>4. Closed' /\ Sizes' /\ Roots' /\ RecordOK' /\ AbortKept'
  BY <1>1, <1>2, Numbers
     DEF Closed, Sizes, Roots, RecordOK, AbortKept, Mapped, Aborting
<1>5. Pending' = {} /\ Copied' = {} /\ Known' = Kept
  <2>1. Pending' = {} /\ Copied' = {}
    BY <1>1, <1>2, NothingPendingNext, Numbers DEF Copied
  <2>2. QED
    BY <1>2, <2>1 DEF Known
<1>6. NoneShared'
  BY <1>1, <1>2, <1>5, Numbers DEF NoneShared, Disjoint
<1>7. LosesNone
  BY <1>1, <1>2, <1>5, Numbers DEF LosesNone, Lost
<1>8. QED
  BY <1>3, <1>4, <1>6, <1>7 DEF IInv

\* An abort whose io_resize failed can be tried again.
LEMMA AbortFailsStep ==
  ASSUME IInv, AbortFails
  PROVE  IInv' /\ Committed' = Committed /\ live' = Committed /\ LosesNone
<1>1. /\ AbortRoots /\ nblocks' = 0
      /\ fsize' \in {fsize, ResizedFile(ts_nblocks)}
      /\ data' = Truncated(data, fsize')
      /\ rc' = IO_ERROR /\ UNCHANGED <<txn, blocks, ts_nblocks>>
  BY DEF AbortFails, state
<1>2. /\ txn = TRUE /\ pc = "ready" /\ freelist' = 1 /\ objlist' = 3
      /\ live' = Committed /\ UNCHANGED <<flist, pc, todo>>
      /\ TypeOK
      /\ ts_nblocks \in 4 .. fsize /\ fsize \in Nat /\ fsize <= MaxBlocks
      /\ ResizedFile(ts_nblocks) \in ts_nblocks .. MaxBlocks
      /\ Committed \subseteq UserBlock
      /\ IsInjective(flist[1])
      /\ Range(flist[1]) \cap Committed = {}
      /\ Kept = Range(flist[1]) \cup Committed /\ Kept \subseteq 4 .. ts_nblocks - 1
  BY <1>1, AbortFacts
<1>3. fsize' \in ts_nblocks .. MaxBlocks
  BY <1>1, <1>2, Numbers
<1>4. TypeOK'
  <2>1. data' \in [Block -> Value]
    BY <1>1, <1>2, TruncatedType DEF TypeOK
  <2>2. QED
    BY <1>1, <1>2, <1>3, <2>1, Numbers DEF TypeOK
<1>5. Committed' = Committed /\ live' = Committed'
  <2>1. Pending' = Pending
    BY <1>1, <1>2 DEF Pending, Given, Waiting, IsCopy
  <2>2. Committed = {b \in live : blocks[b] = 0} \cup Pending
    BY <1>2 DEF Committed
  <2>3. Committed' = {b \in live' : blocks'[b] = 0} \cup Pending'
    BY <1>1, <1>2 DEF Committed
  <2>4. QED
    BY <1>1, <1>2, <2>1, <2>2, <2>3
<1>6. Closed' /\ Sizes' /\ Roots' /\ RecordOK' /\ NoneShared'
  BY <1>1, <1>2, <1>3, <1>5, Numbers
     DEF Closed, Sizes, Roots, RecordOK, NoneShared, Mapped, Aborting
<1>7. Kept' = Kept
  BY <1>2, <1>5 DEF Kept
<1>8. AbortKept'
  BY <1>1, <1>2, <1>5, <1>7, Numbers DEF AbortKept
<1>9. LosesNone
  BY <1>1, <1>2, <1>7 DEF LosesNone, Lost, Mapped
<1>10. QED
  BY <1>2, <1>4, <1>5, <1>6, <1>8, <1>9 DEF IInv

-----------------------------------------------------------------------------
(***************************************************************************)
(* The commit: one entry of the record at a time, in any order.            *)
(***************************************************************************)

CommitFacts ==
  /\ TypeOK
  /\ txn = TRUE /\ pc = "commit" /\ nblocks > 0 /\ Waiting = todo
  /\ freelist = 2
  /\ nblocks \in 4 .. MaxBlocks
  /\ IsInjective(flist[2])
  /\ Disjoint(Range(flist[2]), live, Pending, Copied)
  /\ Range(flist[2]) \cup live \cup Pending \cup Copied \subseteq 4 .. nblocks - 1
  /\ blocks[2] = 1 /\ blocks[0] = 0 /\ blocks[1] = 0 /\ blocks[3] = 0
  /\ objlist # 3 => blocks[objlist] = 3 /\ objlist \in todo
  /\ \A k \in todo : IsCopy(k) =>
       k = 2 \/ k = objlist \/ blocks[k] \in UserBlock
  /\ \A j, k \in Block : IsCopy(j) /\ blocks[j] = blocks[k] => j = k
  /\ \A k \in Block : IsCopy(k) => blocks[blocks[k]] = 0
  /\ \A k \in todo : blocks[k] # 0

\* What the loop of txn_commit_master can rely on.
LEMMA InCommitFacts ==
  ASSUME IInv, pc = "commit"
  PROVE  CommitFacts
<1>1. TypeOK /\ txn = TRUE /\ Mapped /\ nblocks > 0 /\ Waiting = todo
  BY DEF IInv, Roots, TypeOK, Mapped, Waiting
<1>2. freelist = 2 /\ ~Aborting
  BY <1>1, Numbers DEF IInv, Roots, Aborting, TypeOK
<1>3. nblocks \in 4 .. MaxBlocks
  BY <1>1, Numbers DEF IInv, Sizes, TypeOK
<1>4. /\ IsInjective(flist[2])
      /\ Disjoint(Range(flist[2]), live, Pending, Copied)
      /\ Range(flist[2]) \cup live \cup Pending \cup Copied \subseteq 4 .. nblocks - 1
  BY <1>1, <1>2, Numbers DEF IInv, NoneShared, Known
<1>5. /\ blocks[2] = 1 /\ blocks[0] = 0 /\ blocks[1] = 0 /\ blocks[3] = 0
      /\ objlist # 3 => blocks[objlist] = 3
      /\ \A k \in todo : IsCopy(k) =>
           k = 2 \/ k = objlist \/ blocks[k] \in UserBlock
      /\ \A j, k \in Block : IsCopy(j) /\ blocks[j] = blocks[k] => j = k
      /\ \A k \in Block : IsCopy(k) => blocks[blocks[k]] = 0
      /\ \A k \in todo : blocks[k] # 0
  BY <1>1, Numbers DEF IInv, RecordOK
<1>6. objlist # 3 => objlist \in todo
  BY <1>1, Numbers DEF IInv, Roots
<1>7. QED
  BY <1>1, <1>2, <1>3, <1>4, <1>5, <1>6 DEF CommitFacts

\* txn_commit enters the loop.
LEMMA CommitStartStep ==
  ASSUME IInv, CommitStart
  PROVE  IInv' /\ LosesNone
<1>1. /\ InTxn /\ pc' = "commit" /\ todo' = {k \in Block : blocks[k] # 0}
      /\ UNCHANGED <<fsize, nblocks, flist, data, freelist, objlist, txn,
                     blocks, ts_nblocks, live, rc>>
  BY DEF CommitStart, io, disk, state
<1>2. OpenFacts /\ TypeOK
  BY <1>1, InTxnFacts DEF IInv
<1>3. TypeOK'
  BY <1>1, <1>2 DEF TypeOK
<1>4. Waiting' = {k \in Waiting : blocks[k] # 0}
  BY <1>1, <1>2 DEF OpenFacts, Waiting
<1>5. Pending' = Pending
  <2> SUFFICES ASSUME NEW b PROVE b \in Pending' <=> b \in Pending
    OBVIOUS
  <2>1. b \in Waiting' /\ blocks'[b] = FREED <=> b \in Waiting /\ blocks[b] = FREED
    BY <1>1, <1>4, Numbers
  <2>2. \A k : k \in Waiting' /\ blocks'[k] > 0 <=> k \in Waiting /\ IsCopy(k)
    BY <1>1, <1>4 DEF IsCopy
  <2>3. QED
    BY <1>1, <2>1, <2>2, PendingMember, PendingMemberNext
<1>6. Closed' /\ Sizes' /\ Roots' /\ AbortKept'
  <2>1. objlist # 3 => objlist \in todo'
    BY <1>1, <1>2, Numbers DEF OpenFacts, TypeOK
  <2>2. QED
    BY <1>1, <1>2, <2>1, Numbers
       DEF OpenFacts, Closed, Sizes, Roots, AbortKept, Mapped, Aborting
<1>7. RecordOK'
  BY <1>1, <1>2, <1>4, Numbers DEF RecordOK, OpenFacts, IsCopy, Waiting
<1>8. Known' = Known /\ Copied' = Copied
  BY <1>1, <1>5 DEF Known, Copied
<1>9. NoneShared'
  BY <1>1, <1>2, <1>5, <1>8, Numbers DEF NoneShared, IInv, Mapped, Aborting
<1>10. LosesNone
  BY <1>1, <1>8 DEF LosesNone, Lost, Mapped, Aborting
<1>11. QED
  BY <1>3, <1>6, <1>7, <1>9, <1>10 DEF IInv

\* Visiting an entry touches the free list and the rest of the record only
\* through that entry.
LEMMA EntryStep ==
  ASSUME IInv, CommitFacts, NEW k \in todo, TypeOK',
         Committing(k),
         UNCHANGED <<fsize, nblocks, freelist, txn, blocks, ts_nblocks, pc, live>>,
         objlist' # 3 => objlist' = objlist /\ objlist # k,
         IsInjective(flist'[2]),
         Disjoint(Range(flist'[2]), live, Pending', Copied'),
         Range(flist'[2]) \cup live \cup Pending' \cup Copied'
           = Range(flist[2]) \cup live \cup Pending \cup Copied,
         \A j \in todo \ {k} : IsCopy(j) =>
            j = 2 \/ j = objlist' \/ blocks[j] \in UserBlock
  PROVE  IInv' /\ LosesNone
<1>1. todo' = todo \ {k}
  BY DEF Committing
<1>2. Closed' /\ AbortKept'
  BY DEF CommitFacts, Closed, AbortKept
<1>3. Sizes'
  BY DEF IInv, Sizes, Mapped
<1>4. Roots'
  BY <1>1, Numbers DEF CommitFacts, Roots, Mapped, Aborting
<1>5. RecordOK'
  <2>1. Waiting' = todo \ {k}
    BY <1>1 DEF CommitFacts, Waiting
  <2>2. /\ blocks'[2] = 1
        /\ \A j \in {0, 1, 3} : blocks'[j] = 0
        /\ objlist' # 3 => blocks'[objlist'] = 3
    BY DEF CommitFacts
  <2>3. \A j \in Waiting' : IsCopy(j)' =>
            j = 2 \/ j = objlist' \/ blocks'[j] \in UserBlock
    BY <2>1 DEF IsCopy
  <2>4. /\ \A i, j \in Block : IsCopy(i)' /\ blocks'[i] = blocks'[j] => i = j
        /\ \A j \in Block : IsCopy(j)' => blocks'[blocks'[j]] = 0
        /\ \A j \in todo' : blocks'[j] # 0
    BY <1>1 DEF CommitFacts, IsCopy
  <2>5. QED
    BY <2>2, <2>3, <2>4, Numbers DEF CommitFacts, RecordOK
<1>6. Known' = Known
  BY DEF CommitFacts, Known
<1>7. NoneShared'
  BY <1>6, Numbers DEF CommitFacts, NoneShared, Known
<1>8. LosesNone
  BY <1>6 DEF CommitFacts, LosesNone, Lost, Mapped, Aborting
<1>9. QED
  BY <1>2, <1>3, <1>4, <1>5, <1>7, <1>8 DEF IInv

\* The working free list after a block that was not on it is pushed.
LEMMA PushEffect ==
  ASSUME CommitFacts, NEW b \in UserBlock, b \notin Range(flist[2]), Push(b)
  PROVE  /\ flist' \in [FreeListRoot -> Seq(UserBlock)]
         /\ IsInjective(flist'[2])
         /\ Range(flist'[2]) = Range(flist[2]) \cup {b}
<1>1. /\ flist \in [FreeListRoot -> Seq(UserBlock)] /\ flist[2] \in Seq(UserBlock)
      /\ IsInjective(flist[2])
  BY Numbers DEF CommitFacts, TypeOK
<1>2. flist' = [flist EXCEPT ![2] = Append(flist[2], b)]
  BY DEF CommitFacts, Push
<1>3. /\ Append(flist[2], b) \in Seq(UserBlock)
      /\ Range(Append(flist[2], b)) = Range(flist[2]) \cup {b}
      /\ IsInjective(Append(flist[2], b))
  BY <1>1, AppendFresh
<1>4. QED
  BY <1>1, <1>2, <1>3, Numbers

\* It puts the object list back.
LEMMA CommitObjlistStep ==
  ASSUME IInv, NEW k \in todo, CommitObjlist(k)
  PROVE  IInv' /\ LosesNone
<1>1. /\ Committing(k) /\ pc = "commit" /\ todo' = todo \ {k} /\ k = objlist
      /\ data' = [data EXCEPT ![3] = data[objlist]]
      /\ Push(k) /\ objlist' = 3
      /\ UNCHANGED <<fsize, nblocks, freelist, txn, blocks, ts_nblocks, pc, live, rc>>
  BY Numbers DEF CommitObjlist, Committing, io, state
<1>2. CommitFacts
  BY <1>1, InCommitFacts
<1>3. /\ k \in UserBlock /\ k # 3 /\ blocks[k] = 3 /\ Copied = {k}
      /\ k \notin Range(flist[2]) /\ k \notin live /\ k \notin Pending
  BY <1>1, <1>2, Numbers DEF CommitFacts, TypeOK, Disjoint, Copied
<1>4. /\ flist' \in [FreeListRoot -> Seq(UserBlock)]
      /\ IsInjective(flist'[2])
      /\ Range(flist'[2]) = Range(flist[2]) \cup {k}
  BY <1>1, <1>2, <1>3, PushEffect
<1>5. Waiting' = todo \ {k} /\ Waiting = todo
  BY <1>1, <1>2 DEF Waiting, CommitFacts
<1>6. Pending' = Pending
  <2> SUFFICES ASSUME NEW p PROVE p \in Pending' <=> p \in Pending
    OBVIOUS
  <2>1. p = k => ~(blocks[p] = FREED)
    BY <1>3, Numbers
  <2>2. p # 3 => ~(blocks[k] = p)
    BY <1>3
  <2>3. QED
    BY <1>1, <1>5, <2>1, <2>2, Numbers, PendingMember, PendingMemberNext DEF IsCopy
<1>7. Copied' = {}
  BY <1>1, Numbers DEF Copied
<1>8. TypeOK'
  <2>1. data' \in [Block -> Value]
    BY <1>1, <1>2, <1>3, Numbers DEF CommitFacts, TypeOK
  <2>2. QED
    BY <1>1, <1>2, <1>4, <2>1, Numbers DEF CommitFacts, TypeOK
<1>9. /\ Disjoint(Range(flist'[2]), live, Pending', Copied')
      /\ Range(flist'[2]) \cup live \cup Pending' \cup Copied'
             = Range(flist[2]) \cup live \cup Pending \cup Copied
  BY <1>2, <1>3, <1>4, <1>6, <1>7 DEF CommitFacts, Disjoint
<1>10. \A j \in todo \ {k} : IsCopy(j) =>
            j = 2 \/ j = objlist' \/ blocks[j] \in UserBlock
  BY <1>1, <1>2 DEF CommitFacts
<1>11. QED
  BY <1>1, <1>2, <1>4, <1>8, <1>9, <1>10, EntryStep

\* It visits any other entry.
LEMMA CommitEntryStep ==
  ASSUME IInv, NEW k \in todo, CommitEntry(k)
  PROVE  IInv' /\ LosesNone
<1>1. /\ Committing(k) /\ pc = "commit" /\ todo' = todo \ {k}
      /\ k = 2 \/ k # objlist
      /\ IF k = 2 \/ blocks[k] = ALLOCATED
         THEN flist' = flist
         ELSE Push(IF blocks[k] = FREED THEN k ELSE blocks[k])
      /\ UNCHANGED <<fsize, nblocks, data, freelist, objlist, txn, blocks,
                     ts_nblocks, pc, live, rc>>
  BY Numbers DEF CommitEntry, Committing, io, state
<1>2. CommitFacts
  BY <1>1, InCommitFacts
<1>3. /\ k \in Block /\ k # objlist /\ blocks[k] # 0
      /\ blocks \in [Block -> {ALLOCATED, FREED} \cup Block]
  BY <1>1, <1>2, Numbers DEF CommitFacts, TypeOK
<1>4. Waiting' = todo \ {k} /\ Waiting = todo
  BY <1>1, <1>2 DEF Waiting, CommitFacts
<1>5. Copied' = Copied
  BY <1>1 DEF Copied
<1>6. \A j \in todo \ {k} : IsCopy(j) =>
            j = 2 \/ j = objlist' \/ blocks[j] \in UserBlock
  BY <1>1, <1>2 DEF CommitFacts
\* What is left once the free list and the pending blocks are known.
<1>7. ASSUME \/ flist' = flist /\ Pending' = Pending
             \/ \E b \in UserBlock :
                  /\ b \in Pending /\ Push(b) /\ Pending' = Pending \ {b}
      PROVE  IInv' /\ LosesNone
  <2>1. CASE flist' = flist /\ Pending' = Pending
    <3>1. TypeOK'
      BY <1>1, <1>2, <2>1 DEF CommitFacts, TypeOK
    <3>2. QED
      BY <1>1, <1>2, <1>3, <1>5, <1>6, <2>1, <3>1, EntryStep DEF CommitFacts
  <2>2. ASSUME NEW b \in UserBlock, b \in Pending, Push(b),
               Pending' = Pending \ {b}
        PROVE  IInv' /\ LosesNone
    <3>1. b \notin Range(flist[2]) /\ b \notin live /\ b \notin Copied
      BY <1>2, <2>2 DEF CommitFacts, Disjoint
    <3>2. /\ flist' \in [FreeListRoot -> Seq(UserBlock)]
          /\ IsInjective(flist'[2])
          /\ Range(flist'[2]) = Range(flist[2]) \cup {b}
      BY <1>2, <2>2, <3>1, PushEffect
    <3>3. TypeOK'
      BY <1>1, <1>2, <3>2 DEF CommitFacts, TypeOK
    <3>4. /\ Disjoint(Range(flist'[2]), live, Pending', Copied')
          /\ Range(flist'[2]) \cup live \cup Pending' \cup Copied'
             = Range(flist[2]) \cup live \cup Pending \cup Copied
      BY <1>2, <1>5, <2>2, <3>1, <3>2 DEF CommitFacts, Disjoint
    <3>5. QED
      BY <1>1, <1>2, <1>3, <1>6, <3>2, <3>3, <3>4, EntryStep
  <2>3. QED
    BY <1>7, <2>1, <2>2
<1>8. CASE k = 2 \/ blocks[k] = ALLOCATED
  <2>1. Pending' = Pending
    <3> SUFFICES ASSUME NEW p PROVE p \in Pending' <=> p \in Pending
      OBVIOUS
    <3>1. p = k => ~(blocks[p] = FREED)
      BY <1>2, <1>8, Numbers DEF CommitFacts
    <3>2. p # 1 => ~(IsCopy(k) /\ blocks[k] = p)
      BY <1>2, <1>8, Numbers DEF CommitFacts, IsCopy
    <3>3. QED
      BY <1>1, <1>4, <3>1, <3>2, Numbers, PendingMember, PendingMemberNext DEF IsCopy
  <2>2. QED
    BY <1>1, <1>7, <1>8, <2>1
<1>9. CASE k # 2 /\ blocks[k] = FREED
  <2>1. Push(k) /\ ~IsCopy(k)
    BY <1>1, <1>9, Numbers DEF IsCopy
  <2>2. k \in UserBlock
    BY <1>2, <1>3, <1>9, Numbers DEF CommitFacts
  <2>3. k \in Pending
    BY <1>4, <1>9, <2>2, Numbers, PendingMember
  <2>4. \A j \in todo : IsCopy(j) => blocks[j] # k
    BY <1>2, <1>3 DEF CommitFacts, TypeOK
  <2>5. Pending' = Pending \ {k}
    <3> SUFFICES ASSUME NEW p PROVE p \in Pending' <=> p \in Pending /\ p # k
      OBVIOUS
    <3>1. QED
      BY <1>1, <1>4, <2>1, <2>4, PendingMember, PendingMemberNext DEF IsCopy
  <2>6. QED
    BY <1>7, <2>1, <2>2, <2>3, <2>5
<1>10. CASE k # 2 /\ blocks[k] # ALLOCATED /\ blocks[k] # FREED
  <2> DEFINE p == blocks[k]
  <2>1. IsCopy(k) /\ Push(p) /\ p \in Block
    BY <1>1, <1>3, <1>10, Numbers DEF IsCopy
  <2>2. p \in UserBlock
    BY <1>2, <1>3, <1>10, <2>1 DEF CommitFacts
  <2>3. p \in Pending
    BY <1>4, <2>1, <2>2, Numbers, PendingMember
  <2>4. blocks[p] = 0 /\ \A j \in todo : IsCopy(j) /\ blocks[j] = p => j = k
    BY <1>2, <1>3, <2>1 DEF CommitFacts, TypeOK
  <2>5. Pending' = Pending \ {p}
    <3> SUFFICES ASSUME NEW y PROVE y \in Pending' <=> y \in Pending /\ y # p
      OBVIOUS
    <3>1. blocks[p] # FREED /\ blocks[k] # FREED
      BY <2>4, <1>10, Numbers
    <3>2. QED
      BY <1>1, <1>4, <2>1, <2>4, <3>1, PendingMember, PendingMemberNext DEF IsCopy
  <2>6. QED
    BY <1>7, <2>1, <2>2, <2>3, <2>5
<1>11. QED
  BY <1>8, <1>9, <1>10

\* It has visited all.
LEMMA CommitEndStep ==
  ASSUME IInv, CommitEnd
  PROVE  IInv' /\ LosesNone
<1>1. /\ pc = "commit" /\ todo = {}
      /\ flist' = [flist EXCEPT ![1] = flist[freelist]]
      /\ freelist' = 1 /\ txn' = FALSE /\ blocks' = Unset
      /\ ts_nblocks' = 0 /\ pc' = "ready" /\ rc' = OK
      /\ UNCHANGED <<fsize, nblocks, data, objlist, todo, live>>
  BY Numbers DEF CommitEnd, io
<1>2. CommitFacts
  BY <1>1, InCommitFacts
<1>3. objlist = 3 /\ Copied = {} /\ Copied' = {}
  BY <1>1, <1>2, Numbers DEF CommitFacts, Copied
<1>4. Pending = {}
  BY <1>1, <1>2, PendingMember DEF CommitFacts
<1>5. Pending' = {}
  BY <1>1, NothingPendingNext
<1>6. /\ flist' \in [FreeListRoot -> Seq(UserBlock)]
      /\ flist'[1] = flist[2]
  BY <1>1, <1>2, Numbers DEF CommitFacts, TypeOK
<1>7. TypeOK'
  <2>1. blocks' \in [Block -> {ALLOCATED, FREED} \cup Block]
    BY <1>1, Numbers DEF Unset
  <2>2. freelist' \in FreeListRoot
    BY <1>1, Numbers
  <2>3. ts_nblocks' \in 0 .. MaxBlocks
    BY <1>1, Numbers
  <2>4. QED
    BY <1>1, <1>2, <1>6, <2>1, <2>2, <2>3 DEF CommitFacts, TypeOK
<1>8. Closed' /\ Sizes' /\ Roots' /\ RecordOK' /\ AbortKept'
  BY <1>1, <1>2, <1>3, Numbers
     DEF CommitFacts, IInv, Closed, Sizes, Roots, RecordOK, AbortKept,
         Mapped, Aborting
<1>9. Known' = Known
  BY <1>1, <1>2, <1>3, <1>4, <1>5, <1>6 DEF CommitFacts, Known
<1>10. NoneShared'
  BY <1>1, <1>2, <1>3, <1>4, <1>5, <1>6, <1>9, Numbers
     DEF CommitFacts, NoneShared, Known, Disjoint
<1>11. LosesNone
  BY <1>1, <1>2, <1>9, Numbers DEF CommitFacts, LosesNone, Lost, Mapped, Aborting
<1>12. QED
  BY <1>7, <1>8, <1>10, <1>11 DEF IInv

-----------------------------------------------------------------------------
(***************************************************************************)
(* The theorems.                                                           *)
(***************************************************************************)

\* A new file.
LEMMA InitIInv == Init => IInv /\ Lost = {}
<1> SUFFICES ASSUME Init PROVE IInv /\ Lost = {}
  OBVIOUS
<1>1. /\ fsize = 4 /\ nblocks = 4
      /\ flist = [f \in FreeListRoot |-> <<>>] /\ data = [b \in Block |-> Zero]
      /\ freelist = 1 /\ objlist = 3 /\ txn = FALSE /\ blocks = Unset
      /\ ts_nblocks = 0 /\ pc = "ready" /\ todo = {} /\ live = {} /\ rc = OK
  BY Numbers DEF Init
<1>2. TypeOK
  <2>1. blocks \in [Block -> {ALLOCATED, FREED} \cup Block]
    BY <1>1, Numbers DEF Unset
  <2>2. flist \in [FreeListRoot -> Seq(UserBlock)]
    BY <1>1, EmptyList
  <2>3. data \in [Block -> Value]
    BY <1>1, ValueAssumption
  <2>4. /\ fsize \in EDB_USER_DATA .. MaxBlocks /\ nblocks \in 0 .. MaxBlocks
        /\ freelist \in FreeListRoot /\ ts_nblocks \in 0 .. MaxBlocks
        /\ txn \in BOOLEAN /\ objlist = EDB_OBJLIST
    BY <1>1, Numbers
  <2>5. QED
    BY <1>1, <2>1, <2>2, <2>3, <2>4 DEF TypeOK
<1>3. Closed /\ Sizes /\ Roots /\ RecordOK /\ AbortKept
  BY <1>1, Numbers
     DEF Closed, Sizes, Roots, RecordOK, AbortKept, Mapped, Aborting
<1>4. NoneShared /\ Lost = {}
  <2>1. Pending = {} /\ Copied = {}
    BY <1>1, NothingPending, Numbers DEF Copied
  <2>2. flist[1] = <<>> /\ IsInjective(<<>>) /\ Range(<<>>) = {}
    BY <1>1, EmptyList, Numbers
  <2>3. QED
    BY <1>1, <2>1, <2>2, Numbers DEF NoneShared, Known, Lost, Disjoint
<1>5. QED
  BY <1>2, <1>3, <1>4 DEF IInv

\* The invariant survives every step, and no step loses a block.
LEMMA NextIInv ==
  ASSUME IInv, [Next]_vars
  PROVE  IInv' /\ LosesNone
<1> USE DEF io, disk, state, loop
<1>0. TypeOK
  BY DEF IInv
<1>1. CASE UNCHANGED vars
  <2>1. TypeOK'
    BY <1>0, <1>1 DEF vars, TypeOK
  <2>2. QED
    BY <1>1, <2>1, QuietStep DEF vars
<1>2. CASE txn_begin
  BY <1>2, BeginStep
<1>3. CASE txn_begin_nested
  BY <1>0, <1>3, QuietStep DEF txn_begin_nested, TypeOK
<1>4. CASE NoTransaction
  BY <1>0, <1>4, QuietStep DEF NoTransaction, TypeOK
<1>5. CASE txn_allocate_block
  BY <1>5, AllocateStep
<1>6. CASE ModifyObjlist
  BY <1>6, ModifyObjlistStep
<1>7. CASE InTxn /\ ResizeFails
  BY <1>7, ResizeFailsStep
<1>8. ASSUME NEW b \in live, txn_modify_block(b)
      PROVE  IInv' /\ LosesNone
  BY <1>8, ModifyStep
<1>9. ASSUME NEW b \in live \cup {objlist}, ModifyAgain(b)
      PROVE  IInv' /\ LosesNone
  BY <1>0, <1>9, QuietStep DEF ModifyAgain, TypeOK
<1>10. ASSUME NEW b \in live, txn_free_block(b)
       PROVE  IInv' /\ LosesNone
  BY <1>10, FreeStep
<1>11. ASSUME NEW b \in live \cup {objlist}, NEW v \in Value, Write(b, v)
       PROVE  IInv' /\ LosesNone
  <2>1. data' \in [Block -> Value]
    BY <1>0, <1>11 DEF Write, TypeOK
  <2>2. TypeOK'
    BY <1>0, <1>11, <2>1 DEF Write, TypeOK
  <2>3. QED
    BY <1>11, <2>2, QuietStep DEF Write
<1>12. ASSUME NEW b \in UserBlock, FreeRefused(b) \/ ModifyRefused(b)
       PROVE  IInv' /\ LosesNone
  BY <1>0, <1>12, QuietStep DEF FreeRefused, ModifyRefused, TypeOK
<1>13. CASE CommitStart
  BY <1>13, CommitStartStep
<1>14. ASSUME NEW k \in todo, CommitObjlist(k)
       PROVE  IInv' /\ LosesNone
  BY <1>14, CommitObjlistStep
<1>15. ASSUME NEW k \in todo, CommitEntry(k)
       PROVE  IInv' /\ LosesNone
  BY <1>15, CommitEntryStep
<1>16. CASE CommitEnd
  BY <1>16, CommitEndStep
<1>17. CASE txn_abort
  BY <1>17, AbortStep
<1>18. CASE AbortFails
  BY <1>18, AbortFailsStep
<1>19. QED
  BY <1>1, <1>2, <1>3, <1>4, <1>5, <1>6, <1>7, <1>8, <1>9, <1>10, <1>11,
     <1>12, <1>13, <1>14, <1>15, <1>16, <1>17, <1>18 DEF Next

\* The inductive invariant holds of every reachable state.
THEOREM Invariance == Spec => []IInv
<1>1. Init => IInv
  BY InitIInv
<1>2. IInv /\ [Next]_vars => IInv'
  BY NextIInv
<1>3. QED
  BY <1>1, <1>2, PTL DEF Spec

\* No block is ever lost, from the state edb_init leaves.
THEOREM NothingLost == Spec => [](Lost = {})
<1>1. Init => Lost = {}
  BY InitIInv
<1>2. IInv /\ Lost = {} /\ [Next]_vars => (Lost = {})'
  BY NextIInv DEF LosesNone
<1> QED BY <1>1, <1>2, Invariance, PTL DEF Spec

\* Every variable stays within what txn.c, freelist.c and io.c allow.
THEOREM TypeCorrect == Spec => []TypeOK
<1>1. IInv => TypeOK
  BY DEF IInv
<1>2. QED
  BY <1>1, Invariance, PTL

\* Whatever the sequence of calls, with io_resize failing at any of them and
\* the commit visiting its entries in any order, no block is handed out
\* twice and none is lost.
THEOREM NoBlockLostOrShared == Spec => []BlocksPartitioned
<1>1. IInv /\ Lost = {} => BlocksPartitioned
  BY DEF IInv, NoneShared, Known, Lost, BlocksPartitioned
<1>2. QED
  BY <1>1, Invariance, NothingLost, PTL

\* At every point of a transaction txn_abort_master has what it needs.
THEOREM AbortAlwaysSafe == Spec => []AbortIsSafe
<1>1. IInv /\ Lost = {} => AbortIsSafe
  BY DEF IInv, AbortKept, Kept, Lost, AbortIsSafe
<1>2. QED
  BY <1>1, Invariance, NothingLost, PTL

-----------------------------------------------------------------------------
(***************************************************************************)
(* Txn.tla implements BlockStore.tla: every step of txn.c is a step of the *)
(* abstract store, or one that the store does not see.                     *)
(***************************************************************************)

AbstractStep == Store!Next \/ UNCHANGED Store!vars

\* The committed store of a step that leaves its blocks alone.
LEMMA SameSnapshot ==
  ASSUME IInv, InTxn, Committed' = Committed,
         UNCHANGED <<freelist, txn, pc>>,
         data'[3] = data[3], \A b \in Committed : data'[b] = data[b]
  PROVE  /\ Phase = "open" /\ Phase' = "open"
         /\ Contents(Committed)' = Contents(Committed)
         /\ CommittedRoot' = CommittedRoot
<1>1. OpenFacts
  BY InTxnFacts
<1>2. Phase = "open" /\ Phase' = "open"
  BY <1>1, Numbers DEF Phase, OpenFacts, Aborting
<1>3. CommittedRoot' = CommittedRoot
  BY <1>1, Numbers DEF CommittedRoot, OpenFacts
<1>4. Contents(Committed)' = Contents(Committed)
  BY DEF Contents
<1>5. QED
  BY <1>2, <1>3, <1>4

\* An allocation and a copy write to a block the store has never seen.
LEMMA TakenIsFresh ==
  ASSUME IInv, InTxn, NEW s,
         Take(FreelistAllocate(flist[freelist], nblocks), s)
  PROVE  LET x == FreelistAllocate(flist[freelist], nblocks).block IN
           /\ x \in UserBlock /\ x # 3 /\ x # objlist
           /\ x \notin live /\ x \notin Committed
<1> DEFINE x == FreelistAllocate(flist[freelist], nblocks).block
<1>1. /\ x \in UserBlock /\ x # objlist /\ x \notin live /\ x \notin Pending
  BY TakeEffect
<1> HIDE DEF x
<1>2. x # 3
  BY <1>1, Numbers
<1>3. Committed \subseteq live \cup Pending
  BY DEF Committed
<1>4. QED
  BY <1>1, <1>2, <1>3 DEF x

\* txn_allocate_block.
LEMMA AllocateImplements ==
  ASSUME IInv, txn_allocate_block
  PROVE  AbstractStep
<1> DEFINE x == FreelistAllocate(flist[freelist], nblocks).block
<1>1. /\ InTxn
      /\ Take(FreelistAllocate(flist[freelist], nblocks), ALLOCATED)
      /\ live' = live \cup {x}
      /\ UNCHANGED <<data, freelist, objlist, txn, pc>>
  BY DEF txn_allocate_block, loop
<1>2. x \in UserBlock /\ x \notin live /\ x \notin Committed
  BY <1>1, TakenIsFresh
<1>3. Committed' = Committed
  BY AllocateStep
<1>4. /\ Phase = "open" /\ Phase' = "open"
      /\ Contents(Committed)' = Contents(Committed)
      /\ CommittedRoot' = CommittedRoot
  BY <1>1, <1>3, SameSnapshot
<1>5. data[x] \in Value
  BY <1>2, Numbers DEF IInv, TypeOK
<1> HIDE DEF x
<1>6. DOMAIN Contents(live) = live /\ DOMAIN Contents(Committed) = Committed
  BY DEF Contents
<1>7. Contents(live)' = Store!With(Contents(live), x, data[x])
  <2>1. Contents(live)' = [b \in live \cup {x} |-> data[b]]
    BY <1>1 DEF Contents
  <2>2. Store!With(Contents(live), x, data[x])
          = [b \in live \cup {x} |-> IF b = x THEN data[x] ELSE Contents(live)[b]]
    BY <1>6 DEF Store!With
  <2>3. \A b \in live \cup {x} :
          data[b] = IF b = x THEN data[x] ELSE Contents(live)[b]
    BY DEF Contents
  <2>4. QED
    BY <2>1, <2>2, <2>3
<1>8. Store!Allocate(x)
  BY <1>1, <1>2, <1>4, <1>5, <1>6, <1>7
     DEF Store!Allocate, Store!Fresh, Store!snapshot
<1>9. QED
  BY <1>2, <1>8 DEF AbstractStep, Store!Next

\* A committed block of the caller's is renamed with its contents.
LEMMA ModifyImplements ==
  ASSUME IInv, NEW b \in live, txn_modify_block(b)
  PROVE  AbstractStep
<1> DEFINE x == FreelistAllocate(flist[freelist], nblocks).block
<1>1. /\ InTxn
      /\ Take(FreelistAllocate(flist[freelist], nblocks), b)
      /\ blocks[b] = 0
      /\ data' = [data EXCEPT ![x] = data[b]]
      /\ live' = (live \ {b}) \cup {x}
      /\ UNCHANGED <<freelist, objlist, txn, pc>>
  BY DEF txn_modify_block, CopyOnWrite, loop
<1>2. /\ x \in UserBlock /\ x # 3 /\ x # objlist
      /\ x \notin live /\ x \notin Committed
  BY <1>1, TakenIsFresh
<1>3. Committed' = Committed
  BY ModifyStep
<1> HIDE DEF x
<1>4. OpenFacts /\ TypeOK
  BY <1>1, InTxnFacts DEF IInv
<1>5. /\ data'[x] = data[b] /\ x \in Block
      /\ \A y : y # x => data'[y] = data[y]
  BY <1>1, <1>2, <1>4, Numbers DEF TypeOK
<1>6. b \in UserBlock /\ b \in Committed /\ b # x
  BY <1>1, <1>2, <1>4 DEF OpenFacts, TypeOK, Committed
<1>7. /\ Phase = "open" /\ Phase' = "open"
      /\ Contents(Committed)' = Contents(Committed)
      /\ CommittedRoot' = CommittedRoot
  BY <1>1, <1>2, <1>3, <1>5, SameSnapshot
<1>8. DOMAIN Contents(live) = live /\ DOMAIN Contents(Committed) = Committed
  BY DEF Contents
<1>9. Contents(live)' = Store!With(Store!Without(Contents(live), b), x, Contents(live)[b])
  <2>1. Contents(live)' = [y \in (live \ {b}) \cup {x} |-> data'[y]]
    BY <1>1 DEF Contents
  <2>2. Store!Without(Contents(live), b) = [y \in live \ {b} |-> Contents(live)[y]]
    BY <1>8 DEF Store!Without
  <2>3. Store!With(Store!Without(Contents(live), b), x, Contents(live)[b])
          = [y \in (live \ {b}) \cup {x} |->
               IF y = x THEN Contents(live)[b] ELSE Contents(live)[y]]
    BY <1>2, <2>2 DEF Store!With
  <2>4. \A y \in (live \ {b}) \cup {x} :
          data'[y] = IF y = x THEN Contents(live)[b] ELSE Contents(live)[y]
    BY <1>5 DEF Contents
  <2>5. QED
    BY <2>1, <2>3, <2>4
<1>10. data'[objlist'] = data[objlist]
  BY <1>1, <1>2, <1>5
<1>11. Store!Modify(b, x)
  BY <1>1, <1>2, <1>6, <1>7, <1>8, <1>9, <1>10
     DEF Store!Modify, Store!Fresh, Store!snapshot
<1>12. QED
  BY <1>2, <1>6, <1>11 DEF AbstractStep, Store!Next

\* Copying the object list shows nothing to the store.
LEMMA ModifyObjlistImplements ==
  ASSUME IInv, ModifyObjlist
  PROVE  UNCHANGED Store!vars
<1> DEFINE x == FreelistAllocate(flist[freelist], nblocks).block
<1>1. /\ InTxn
      /\ Take(FreelistAllocate(flist[freelist], nblocks), objlist)
      /\ data' = [data EXCEPT ![x] = data[objlist]]
      /\ objlist' = x
      /\ UNCHANGED <<freelist, txn, pc, live>>
  BY DEF ModifyObjlist, CopyOnWrite, loop
<1>2. /\ x \in UserBlock /\ x # 3 /\ x # objlist
      /\ x \notin live /\ x \notin Committed
  BY <1>1, TakenIsFresh
<1>3. Committed' = Committed
  BY ModifyObjlistStep
<1> HIDE DEF x
<1>4. /\ data'[x] = data[objlist]
      /\ \A y : y # x => data'[y] = data[y]
  BY <1>1, <1>2, Numbers DEF IInv, TypeOK
<1>5. /\ Phase = "open" /\ Phase' = "open"
      /\ Contents(Committed)' = Contents(Committed)
      /\ CommittedRoot' = CommittedRoot
  BY <1>1, <1>2, <1>3, <1>4, SameSnapshot
<1>6. Contents(live)' = Contents(live)
  BY <1>1, <1>2, <1>4 DEF Contents
<1>7. QED
  BY <1>1, <1>4, <1>5, <1>6 DEF Store!vars, Store!store, Store!snapshot

\* txn_free_block.
LEMMA FreeImplements ==
  ASSUME IInv, NEW b \in live, txn_free_block(b)
  PROVE  AbstractStep
<1>1. /\ InTxn /\ live' = live \ {b}
      /\ UNCHANGED <<data, freelist, objlist, txn, pc>>
  BY DEF txn_free_block, loop
<1>2. Committed' = Committed
  BY FreeStep
<1>3. /\ Phase = "open" /\ Phase' = "open"
      /\ Contents(Committed)' = Contents(Committed)
      /\ CommittedRoot' = CommittedRoot
  BY <1>1, <1>2, SameSnapshot
<1>4. DOMAIN Contents(live) = live
  BY DEF Contents
<1>5. Contents(live)' = Store!Without(Contents(live), b)
  <2>1. Contents(live)' = [y \in live \ {b} |-> data[y]]
    BY <1>1 DEF Contents
  <2>2. Store!Without(Contents(live), b) = [y \in live \ {b} |-> Contents(live)[y]]
    BY <1>4 DEF Store!Without
  <2>3. \A y \in live \ {b} : data[y] = Contents(live)[y]
    BY DEF Contents
  <2>4. QED
    BY <2>1, <2>2, <2>3
<1>6. Store!Free(b)
  BY <1>1, <1>3, <1>4, <1>5 DEF Store!Free, Store!snapshot
<1>7. b \in UserBlock
  BY DEF IInv, TypeOK
<1>8. QED
  BY <1>6, <1>7 DEF AbstractStep, Store!Next

\* The caller writes to a block that is not part of the committed state.
LEMMA WriteImplements ==
  ASSUME IInv, NEW b \in live \cup {objlist}, b # 3, NEW v \in Value, Write(b, v)
  PROVE  AbstractStep
<1>1. /\ InTxn /\ blocks[b] # 0
      /\ data' = [data EXCEPT ![b] = v]
      /\ UNCHANGED <<io, flist, freelist, objlist, state, loop, live, rc>>
      /\ UNCHANGED <<freelist, objlist, txn, pc, live>>
  BY DEF Write, state, loop
<1>2. OpenFacts /\ TypeOK
  BY <1>1, InTxnFacts DEF IInv
<1>3. b \in UserBlock /\ b \in Block
  BY <1>2, Numbers DEF TypeOK
<1>4. data'[b] = v /\ \A y : y # b => data'[y] = data[y]
  BY <1>1, <1>2, <1>3 DEF TypeOK
<1>5. Committed' = Committed
  <2>1. data' \in [Block -> Value]
    BY <1>1, <1>2 DEF TypeOK
  <2>2. TypeOK'
    BY <1>1, <1>2, <2>1 DEF TypeOK, io, state, loop
  <2>3. QED
    BY <1>1, <2>2, QuietStep
<1>6. b \notin Committed
  BY <1>1, <1>2, <1>3, Numbers DEF OpenFacts, Disjoint, Copied, Committed
<1>7. /\ Phase = "open" /\ Phase' = "open"
      /\ Contents(Committed)' = Contents(Committed)
      /\ CommittedRoot' = CommittedRoot
  BY <1>1, <1>4, <1>5, <1>6, SameSnapshot
<1>8. DOMAIN Contents(live) = live /\ DOMAIN Contents(Committed) = Committed
  BY DEF Contents
<1>9. CASE b \in live
  <2>1. b # objlist
    BY <1>2, <1>3, <1>9, Numbers DEF OpenFacts, Disjoint, Copied
  <2>2. Contents(live)' = [Contents(live) EXCEPT ![b] = v]
    BY <1>1, <1>4, <1>9 DEF Contents
  <2>3. Store!Write(b, v)
    BY <1>1, <1>4, <1>6, <1>7, <1>8, <1>9, <2>1, <2>2 DEF Store!Write, Store!snapshot
  <2>4. QED
    BY <1>3, <2>3 DEF AbstractStep, Store!Next
<1>10. CASE b = objlist /\ b \notin live
  <2>1. Contents(live)' = Contents(live)
    BY <1>1, <1>4, <1>10 DEF Contents
  <2>2. Store!WriteRoot(v)
    BY <1>1, <1>4, <1>7, <1>10, <2>1 DEF Store!WriteRoot, Store!snapshot
  <2>3. QED
    BY <2>2 DEF AbstractStep, Store!Next
<1>11. QED
  BY <1>9, <1>10

\* A call that is refused.
LEMMA RefusedImplements ==
  ASSUME UNCHANGED <<io, disk, freelist, objlist, state, loop, live>>
  PROVE  UNCHANGED Store!vars
<1>1. UNCHANGED <<data, freelist, objlist, txn, blocks, pc, todo, live>>
  BY DEF disk, state, loop
<1>2. Committed' = Committed
  BY <1>1 DEF Committed, Pending, Given, Waiting, IsCopy
<1>3. QED
  BY <1>1, <1>2 DEF Store!vars, Store!store, Store!snapshot, Phase, Aborting,
     CommittedRoot, Contents

\* An allocation that fails is not seen.
LEMMA ResizeFailsImplements ==
  ASSUME IInv, InTxn, ResizeFails
  PROVE  UNCHANGED Store!vars
<1>1. UNCHANGED <<data, freelist, objlist, txn, pc, live>>
  BY DEF ResizeFails, disk, state, loop
<1>2. Committed' = Committed
  BY ResizeFailsStep
<1>3. /\ Phase = "open" /\ Phase' = "open"
      /\ Contents(Committed)' = Contents(Committed)
      /\ CommittedRoot' = CommittedRoot
  BY <1>1, <1>2, SameSnapshot
<1>4. QED
  BY <1>1, <1>3 DEF Store!vars, Store!store, Store!snapshot, Contents

\* txn_begin.
LEMMA BeginImplements ==
  ASSUME IInv, txn_begin
  PROVE  Store!Begin
<1>1. /\ txn = FALSE /\ pc = "ready" /\ objlist = 3
      /\ txn' = TRUE /\ freelist' = 2
      /\ UNCHANGED <<data, objlist, pc, live>>
  BY Numbers DEF txn_begin, Ready, loop, IInv, Closed, TypeOK
<1>2. Committed = live /\ Committed' = live
  BY <1>1, BeginStep DEF Committed
<1>3. Phase = "closed" /\ Phase' = "open"
  BY <1>1, Numbers DEF Phase, Aborting
<1>4. Contents(live)' = Contents(live) /\ Contents(Committed)' = Contents(Committed)
  BY <1>1, <1>2 DEF Contents
<1>5. CommittedRoot' = CommittedRoot
  BY <1>1, Numbers DEF CommittedRoot
<1>6. QED
  BY <1>1, <1>3, <1>4, <1>5 DEF Store!Begin, Store!store, Store!snapshot

\* The step that makes the transaction's state the one nobody can undo.
LEMMA CommitStartImplements ==
  ASSUME IInv, CommitStart
  PROVE  Store!Commit
<1>1. /\ InTxn /\ pc' = "commit"
      /\ UNCHANGED <<data, freelist, objlist, txn, live>>
  BY DEF CommitStart, disk, state
<1>2. OpenFacts
  BY <1>1, InTxnFacts
<1>3. Phase = "open" /\ Phase' = "committed"
  BY <1>1, <1>2, Numbers DEF Phase, Aborting, OpenFacts
<1>4. Committed' = live'
  BY <1>1 DEF Committed
<1>5. Contents(live)' = Contents(live) /\ Contents(Committed)' = Contents(live)
  BY <1>1, <1>4 DEF Contents
<1>6. CommittedRoot' = data[objlist]
  BY <1>1 DEF CommittedRoot
<1>7. QED
  BY <1>1, <1>3, <1>5, <1>6 DEF Store!Commit, Store!store

\* The loop of the commit only moves blocks between the record and the free
\* list, and the object list back to block 3.
LEMMA LoopImplements ==
  ASSUME IInv, NEW k \in todo, CommitObjlist(k) \/ CommitEntry(k)
  PROVE  UNCHANGED Store!vars
<1>1. /\ pc = "commit" /\ UNCHANGED <<freelist, txn, pc, live>>
      /\ \/ data' = data /\ objlist' = objlist
         \/ data' = [data EXCEPT ![3] = data[objlist]] /\ objlist' = 3
  BY Numbers DEF CommitObjlist, CommitEntry, Committing, state
<1>2. CommitFacts
  BY <1>1, InCommitFacts
<1>3. data'[objlist'] = data[objlist] /\ \A b \in live : data'[b] = data[b]
  BY <1>1, <1>2, Numbers DEF CommitFacts, TypeOK
<1>4. Committed = live /\ Committed' = live
  BY <1>1 DEF Committed
<1>5. Contents(live)' = Contents(live) /\ Contents(Committed)' = Contents(Committed)
  BY <1>1, <1>3, <1>4 DEF Contents
<1>6. CommittedRoot' = CommittedRoot
  BY <1>1, <1>3 DEF CommittedRoot
<1>7. Phase' = Phase
  BY <1>1 DEF Phase, Aborting
<1>8. QED
  BY <1>3, <1>5, <1>6, <1>7 DEF Store!vars, Store!store, Store!snapshot

\* The end of a commit.
LEMMA CommitEndImplements ==
  ASSUME IInv, CommitEnd
  PROVE  Store!End
<1>1. /\ pc = "commit" /\ txn' = FALSE /\ pc' = "ready"
      /\ UNCHANGED <<data, objlist, live>>
  BY DEF CommitEnd
<1>2. CommitFacts
  BY <1>1, InCommitFacts
<1>3. Phase = "committed" /\ Phase' = "closed"
  BY <1>1, <1>2, Numbers DEF Phase, Aborting, CommitFacts
<1>4. Committed = live /\ Committed' = live
  BY <1>1 DEF Committed
<1>5. Contents(live)' = Contents(live) /\ Contents(Committed)' = Contents(Committed)
  BY <1>1, <1>4 DEF Contents
<1>6. CommittedRoot' = CommittedRoot
  BY <1>1 DEF CommittedRoot
<1>7. QED
  BY <1>1, <1>3, <1>5, <1>6 DEF Store!End, Store!store, Store!snapshot

\* An abort, whether or not its io_resize succeeds, restores the committed
\* store; one that follows a failed abort restores it again.
LEMMA AbortImplements ==
  ASSUME IInv, txn_abort \/ AbortFails
  PROVE  AbstractStep
<1>1. /\ AbortRoots
      /\ fsize' \in {fsize, ResizedFile(ts_nblocks)}
      /\ data' = Truncated(data, fsize')
      /\ txn' = FALSE \/ (AbortFails /\ txn' = txn)
  BY DEF txn_abort, AbortFails, state
<1>2. /\ txn = TRUE /\ pc = "ready" /\ pc' = "ready"
      /\ freelist' = 1 /\ objlist' = 3 /\ live' = Committed
      /\ ts_nblocks \in 4 .. fsize /\ fsize \in Nat /\ fsize <= MaxBlocks
      /\ ResizedFile(ts_nblocks) \in ts_nblocks .. MaxBlocks
      /\ Committed \subseteq 4 .. ts_nblocks - 1
  BY <1>1, AbortFacts
<1>3. fsize' \in ts_nblocks .. MaxBlocks
  BY <1>1, <1>2, Numbers
<1>4. data'[3] = data[3] /\ \A b \in Committed : data'[b] = data[b]
  BY <1>1, <1>2, <1>3, Numbers DEF Truncated
<1>5. Committed' = Committed
  BY <1>1, <1>2, AbortFailsStep DEF Committed
<1>6. Phase' = "closed"
  BY <1>1, <1>2, Numbers DEF Phase, Aborting
<1>7. CommittedRoot = data[3] /\ CommittedRoot' = data[3] /\ data'[objlist'] = data[3]
  BY <1>2, <1>4, Numbers DEF CommittedRoot
<1>8. /\ Contents(Committed)' = Contents(Committed)
      /\ Contents(live)' = Contents(Committed)
  BY <1>2, <1>4, <1>5 DEF Contents
<1>9. CASE ~Aborting
  <2>1. Phase = "open"
    BY <1>2, <1>9 DEF Phase
  <2>2. Store!Abort
    BY <1>6, <1>7, <1>8, <2>1 DEF Store!Abort, Store!snapshot
  <2>3. QED
    BY <2>2 DEF AbstractStep, Store!Next
<1>10. CASE Aborting
  <2>1. Phase = "closed" /\ live = Committed /\ objlist = 3
    BY <1>10, Numbers DEF Phase, IInv, Roots
  <2>2. UNCHANGED Store!vars
    BY <1>6, <1>7, <1>8, <2>1 DEF Store!vars, Store!store, Store!snapshot
  <2>3. QED
    BY <2>2 DEF AbstractStep
<1>11. QED
  BY <1>9, <1>10

\* A new file is an empty store.
LEMMA InitImplements == Init => Store!Init
<1> SUFFICES ASSUME Init PROVE Store!Init
  OBVIOUS
<1>1. /\ txn = FALSE /\ live = {} /\ objlist = 3
      /\ data = [b \in Block |-> Zero]
  BY Numbers DEF Init
<1>2. Phase = "closed" /\ Committed = {}
  BY <1>1 DEF Phase, Committed
<1>3. Contents(live) = [i \in {} |-> Zero] /\ Contents(Committed) = [i \in {} |-> Zero]
  BY <1>1, <1>2 DEF Contents
<1>4. data[objlist] = Zero /\ CommittedRoot = Zero
  BY <1>1, Numbers DEF CommittedRoot
<1>5. QED
  BY <1>2, <1>3, <1>4 DEF Store!Init

\* Every step is one of the store, or not seen in it.
LEMMA StepImplements ==
  ASSUME IInv, [Next]_vars
  PROVE  [Store!Next]_Store!vars
<1> SUFFICES AbstractStep
  BY DEF AbstractStep
<1>1. ASSUME UNCHANGED <<io, disk, freelist, objlist, state, loop, live>>
      PROVE  AbstractStep
  BY <1>1, RefusedImplements DEF AbstractStep
<1>2. CASE UNCHANGED vars
  BY <1>1, <1>2 DEF vars
<1>3. CASE txn_begin
  BY <1>3, BeginImplements DEF AbstractStep, Store!Next
<1>4. CASE txn_begin_nested \/ NoTransaction
  BY <1>1, <1>4 DEF txn_begin_nested, NoTransaction
<1>5. CASE txn_allocate_block
  BY <1>5, AllocateImplements
<1>6. CASE ModifyObjlist
  BY <1>6, ModifyObjlistImplements DEF AbstractStep
<1>7. CASE InTxn /\ ResizeFails
  BY <1>7, ResizeFailsImplements DEF AbstractStep
<1>8. ASSUME NEW b \in live, txn_modify_block(b)
      PROVE  AbstractStep
  BY <1>8, ModifyImplements
<1>9. ASSUME NEW b \in live \cup {objlist}, ModifyAgain(b)
      PROVE  AbstractStep
  BY <1>1, <1>9 DEF ModifyAgain
<1>10. ASSUME NEW b \in live, txn_free_block(b)
       PROVE  AbstractStep
  BY <1>10, FreeImplements
<1>11. ASSUME NEW b \in live \cup {objlist}, NEW v \in Value, Write(b, v),
              b \in live \/ objlist # EDB_OBJLIST
       PROVE  AbstractStep
  <2>1. b # 3
    BY <1>11, Numbers DEF IInv, TypeOK
  <2>2. QED
    BY <1>11, <2>1, WriteImplements
<1>12. ASSUME NEW b \in UserBlock, FreeRefused(b) \/ ModifyRefused(b)
       PROVE  AbstractStep
  BY <1>1, <1>12 DEF FreeRefused, ModifyRefused
<1>13. CASE CommitStart
  BY <1>13, CommitStartImplements DEF AbstractStep, Store!Next
<1>14. ASSUME NEW k \in todo, CommitObjlist(k) \/ CommitEntry(k)
       PROVE  AbstractStep
  BY <1>14, LoopImplements DEF AbstractStep
<1>15. CASE CommitEnd
  BY <1>15, CommitEndImplements DEF AbstractStep, Store!Next
<1>16. CASE txn_abort \/ AbortFails
  BY <1>16, AbortImplements
<1>17. QED
  BY <1>2, <1>3, <1>4, <1>5, <1>6, <1>7, <1>8, <1>9, <1>10, <1>11, <1>12,
     <1>13, <1>14, <1>15, <1>16 DEF Next

\* Every behaviour of txn.c is one of the abstract store: the changes of a
\* transaction are invisible in the committed state until the commit shows
\* all of them at once, and an abort restores exactly what was there.
THEOREM Refinement == Spec => ImplementsBlockStore
<1>1. Init => Store!Init
  BY InitImplements
<1>2. IInv /\ [Next]_vars => [Store!Next]_Store!vars
  BY StepImplements
<1>3. QED
  BY <1>1, <1>2, Invariance, PTL DEF Spec, ImplementsBlockStore, Store!Spec
=============================================================================
