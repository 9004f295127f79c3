---------------------------- MODULE ReopenProofs ----------------------------
(***************************************************************************)
(* Proofs about Reopen.tla: what a file holds after any number of kills,   *)
(* closes and opens.  ObjectsInv says what a process relies on while it    *)
(* has the file open; nothing of it survives a kill but blocks 1 and 3.    *)
(* The invariant therefore says what those two hold at each moment, on     *)
(* disk and whatever the process remembers: the lists of the last commit,  *)
(* which with the leaked blocks cover the file (FileWhole).  Between two   *)
(* calls that follows from ObjectsInv; in a commit it has to be carried    *)
(* along, up to the step that tears the two lists apart (CommitWhole).     *)
(***************************************************************************)
EXTENDS Reopen, ObjectsProofs

-----------------------------------------------------------------------------
(***************************************************************************)
(* The invariant.                                                          *)
(***************************************************************************)

\* How far the lists on disk go.
Covered == IF txn THEN ts_nblocks ELSE nblocks

\* Blocks 1 and 3 are whole lists of blocks below n, with gone in neither.
WholeLists(free, list, gone, n) ==
  /\ IsInjective(free) /\ IsInjective(list)
  /\ Range(free) \cap Range(list) = {}
  /\ Range(free) \cup Range(list) \cup gone = 4 .. n - 1

FileWhole(n) == WholeLists(flist[1], data[3], leaked, n)

CommitWhole == (pc = "commit" /\ ~Torn) => FileWhole(ts_nblocks)

\* What holds while a process has the file open.
UpInv ==
  /\ ObjectsInv /\ NothingSet
  /\ Lost \subseteq leaked
  /\ leaked \subseteq 4 .. Covered - 1
  /\ CommitWhole

\* What holds while none has.
DownInv ==
  /\ TypeOK
  /\ nblocks = 0 /\ freelist = 1 /\ objlist = 3
  /\ txn = FALSE /\ blocks = Unset /\ pc = "ready"
  /\ live = Range(data[3])
  /\ txn_id = 0 /\ handles = [h \in Handle |-> NULL]
  /\ call = Idle /\ result = [call |-> <<>>, err |-> OK, out |-> 0]
  /\ FileWhole(fsize)

ReopenInv == up \in BOOLEAN /\ IF up THEN UpInv ELSE DownInv

-----------------------------------------------------------------------------
(***************************************************************************)
(* What a process leaves behind.                                           *)
(***************************************************************************)

\* Without a transaction the working lists are the ones on disk.
LEMMA ClosedFacts ==
  ASSUME IInv, ~txn
  PROVE  /\ freelist = 1 /\ objlist = 3 /\ pc = "ready" /\ Mapped /\ ~Aborting
         /\ blocks = Unset /\ Pending = {} /\ Copied = {} /\ Committed = live
         /\ Known = Range(flist[1]) \cup live
         /\ IsInjective(flist[1]) /\ Range(flist[1]) \cap live = {}
         /\ Known \subseteq 4 .. nblocks - 1
<1>1. /\ freelist = 1 /\ objlist = 3 /\ pc = "ready" /\ Mapped /\ ~Aborting
      /\ blocks = Unset
  BY Numbers DEF IInv, Closed, Aborting
<1>2. Pending = {}
  <2> SUFFICES ASSUME NEW b \in Pending PROVE FALSE
    OBVIOUS
  <2>1. Waiting = Block
    BY <1>1 DEF Waiting
  <2>2. \A k \in Block : blocks[k] = 0
    BY <1>1 DEF Unset
  <2> QED BY <2>1, <2>2, PendingMember, Numbers DEF IsCopy
<1>3. Copied = {} /\ Committed = live
  BY <1>1, Numbers DEF Copied, Committed
<1>4. Known = Range(flist[1]) \cup live
  BY <1>1, <1>2, <1>3 DEF Known
<1>5. /\ IsInjective(flist[1]) /\ Range(flist[1]) \cap live = {}
      /\ Known \subseteq 4 .. nblocks - 1
  BY <1>1, Numbers DEF IInv, NoneShared, Disjoint
<1> QED BY <1>1, <1>2, <1>3, <1>4, <1>5

\* Between two calls, and within any call but a commit, blocks 1 and 3 are
\* whole, whether io_resize has failed or not.
LEMMA ReadyWhole ==
  ASSUME UpInv, pc = "ready"
  PROVE  FileWhole(Covered)
<1>1. /\ IInv /\ TypeOK /\ Lost \subseteq leaked
      /\ leaked \subseteq 4 .. Covered - 1
      /\ Range(data[3]) = Committed /\ IsInjective(data[3])
  BY DEF UpInv, ObjectsInv, OInv, OldHeld, IInv
<1>2. CASE txn
  <2>1. /\ IsInjective(flist[1]) /\ Range(flist[1]) \cap Committed = {}
        /\ Kept \subseteq 4 .. ts_nblocks - 1
        /\ Kept = Range(flist[1]) \cup Committed
    BY <1>1, <1>2, Numbers DEF IInv, AbortKept, Kept
  <2>2. (4 .. ts_nblocks - 1) \ Kept \subseteq leaked
    BY <1>1, <1>2, Numbers DEF Lost
  <2>3. Covered = ts_nblocks
    BY <1>2 DEF Covered
  <2>4. Range(flist[1]) \cup Committed \cup leaked = 4 .. ts_nblocks - 1
    BY <1>1, <2>1, <2>2, <2>3
  <2> QED BY <1>1, <2>1, <2>3, <2>4 DEF FileWhole, WholeLists
<1>3. CASE ~txn
  <2>1. /\ Mapped /\ ~Aborting /\ Committed = live
        /\ Known = Range(flist[1]) \cup live
        /\ IsInjective(flist[1]) /\ Range(flist[1]) \cap live = {}
        /\ Known \subseteq 4 .. nblocks - 1
    BY <1>1, <1>3, ClosedFacts
  <2>2. (4 .. nblocks - 1) \ Known \subseteq leaked
    BY <1>1, <2>1, Numbers DEF Lost
  <2>3. Covered = nblocks
    BY <1>3 DEF Covered
  <2>4. Range(flist[1]) \cup live \cup leaked = 4 .. nblocks - 1
    BY <1>1, <2>1, <2>2, <2>3
  <2> QED BY <1>1, <2>1, <2>3, <2>4 DEF FileWhole, WholeLists
<1> QED BY <1>2, <1>3

\* So they are at every step but those a commit has torn them apart in.
LEMMA UpWhole ==
  ASSUME UpInv, ~Torn
  PROVE  FileWhole(Covered)
<1>1. CASE pc = "ready"
  BY <1>1, ReadyWhole
<1>2. CASE pc = "commit"
  <2>1. txn
    BY <1>2 DEF UpInv, ObjectsInv, IInv, Roots
  <2> QED BY <1>2, <2>1 DEF UpInv, CommitWhole, Covered
<1> QED BY <1>1, <1>2 DEF UpInv, ObjectsInv, IInv, TypeOK

\* The lists on disk lie within the file.
LEMMA CoveredInFile ==
  ASSUME IInv
  PROVE  /\ Covered \in 4 .. fsize /\ fsize \in 4 .. MaxBlocks
         /\ Excess = Covered .. fsize - 1
<1>1. /\ TypeOK /\ nblocks <= fsize /\ (Mapped => 4 <= nblocks)
      /\ (txn => 4 <= ts_nblocks /\ ts_nblocks <= fsize)
      /\ (~txn => Mapped)
  BY Numbers DEF IInv, Sizes, Closed
<1>2. /\ nblocks \in 0 .. MaxBlocks /\ ts_nblocks \in 0 .. MaxBlocks
      /\ fsize \in 4 .. MaxBlocks
  BY <1>1, Numbers DEF TypeOK
<1>3. Covered \in 4 .. fsize
  BY <1>1, <1>2, Numbers DEF Covered
<1> QED BY <1>2, <1>3 DEF Excess, Covered

\* A process that is killed outside that window, or closes the file, leaves
\* whole lists.
LEMMA Leaves ==
  ASSUME UpInv, ~Torn, MemoryLost, leaked' = leaked \cup Excess
  PROVE  DownInv'
<1>1. /\ nblocks' = 0 /\ freelist' = 1 /\ objlist' = 3
      /\ txn' = FALSE /\ blocks' = Unset /\ ts_nblocks' = 0
      /\ pc' = "ready" /\ todo' = {} /\ live' = OnFile /\ rc' = OK
      /\ txn_id' = 0 /\ handles' = [h \in Handle |-> NULL]
      /\ call' = Idle /\ result' = [call |-> <<>>, err |-> OK, out |-> 0]
      /\ fsize' = fsize /\ flist' = flist /\ data' = data
  BY Numbers DEF MemoryLost, disk
<1>2. IInv /\ TypeOK
  BY DEF UpInv, ObjectsInv, IInv
<1>3. FileWhole(Covered)
  BY UpWhole
<1>4. live' = Range(data[3])
  BY <1>1, Numbers DEF OnFile, Range
<1>5. /\ Covered \in 4 .. fsize /\ fsize \in 4 .. MaxBlocks
      /\ Excess = Covered .. fsize - 1
  BY <1>2, CoveredInFile
<1>6. FileWhole(fsize)'
  <2>1. /\ IsInjective(flist[1]) /\ IsInjective(data[3])
        /\ Range(flist[1]) \cap Range(data[3]) = {}
        /\ Range(flist[1]) \cup Range(data[3]) \cup leaked = 4 .. Covered - 1
    BY <1>3 DEF FileWhole, WholeLists
  <2>2. 4 .. fsize - 1 = (4 .. Covered - 1) \cup (Covered .. fsize - 1)
    BY ONLY <1>5, Numbers
  <2>3. Range(flist[1]) \cup Range(data[3]) \cup leaked' = 4 .. fsize - 1
    BY <1>5, <2>1, <2>2
  <2> QED BY <1>1, <2>1, <2>3 DEF FileWhole, WholeLists
<1>7. TypeOK'
  <2>1. Range(data[3]) \subseteq UserBlock
    <3>1. Range(data[3]) \subseteq 4 .. Covered - 1
      BY <1>3 DEF FileWhole, WholeLists
    <3> QED BY <1>5, <3>1, Numbers
  <2>2. Unset \in [Block -> {ALLOCATED, FREED} \cup Block]
    BY Numbers DEF Unset
  <2>3. 0 \in 0 .. MaxBlocks /\ 1 \in FreeListRoot
    BY Numbers
  <2> QED BY <1>1, <1>2, <1>4, <2>1, <2>2, <2>3 DEF TypeOK, EDB_OBJLIST
<1> QED BY <1>1, <1>4, <1>6, <1>7 DEF DownInv

-----------------------------------------------------------------------------
(***************************************************************************)
(* Opening the file.                                                       *)
(***************************************************************************)

\* An empty record gives up nothing.
LEMMA NothingNoted ==
  ASSUME blocks = Unset, pc = "ready", objlist = 3, ~txn
  PROVE  Pending = {} /\ Copied = {} /\ Committed = live
<1>1. Pending = {}
  <2> SUFFICES ASSUME NEW b \in Pending PROVE FALSE
    OBVIOUS
  <2>1. Waiting = Block /\ \A k \in Block : blocks[k] = 0
    BY DEF Waiting, Unset
  <2> QED BY <2>1, PendingMember, Numbers DEF IsCopy
<1> QED BY <1>1, Numbers DEF Copied, Committed

\* The block store's invariant holds of a file with whole lists.
LEMMA OpenedBlocks ==
  ASSUME DownInv, edb_open
  PROVE  /\ IInv' /\ Lost' \subseteq leaked' /\ Committed' = live'
         /\ leaked' \subseteq 4 .. Covered' - 1
<1>1. /\ nblocks' = fsize /\ fsize' = fsize /\ flist' = flist /\ data' = data
      /\ freelist' = 1 /\ objlist' = 3 /\ txn' = FALSE /\ blocks' = Unset
      /\ pc' = "ready" /\ live' = Range(data[3]) /\ leaked' = leaked
      /\ UNCHANGED <<freelist, objlist, txn, blocks, ts_nblocks, pc, todo, live, rc>>
  BY DEF DownInv, edb_open, disk, state, loop
<1>2. /\ TypeOK
      /\ IsInjective(flist[1]) /\ IsInjective(data[3])
      /\ Range(flist[1]) \cap live = {}
      /\ Range(flist[1]) \cup live \cup leaked = 4 .. fsize - 1
  BY DEF DownInv, FileWhole, WholeLists
<1>3. fsize \in 4 .. MaxBlocks
  BY <1>2, Numbers DEF TypeOK
<1>4. TypeOK'
  <2>1. fsize \in 0 .. MaxBlocks
    BY <1>3, Numbers
  <2> QED BY <1>1, <1>2, <2>1 DEF TypeOK
<1>5. Mapped' /\ ~Aborting' /\ ~txn'
  BY <1>1, <1>3, Numbers DEF Mapped, Aborting
<1>6. Pending' = {} /\ Copied' = {} /\ Committed' = live'
  <2>1. Pending = {} /\ Copied = {} /\ Committed = live
    BY NothingNoted DEF DownInv
  <2> QED BY <1>1, <2>1 DEF Pending, Given, Waiting, IsCopy, Copied, Committed
<1>7. Known' = Range(flist[1]) \cup live
  BY <1>1, <1>6 DEF Known
<1>8. Closed' /\ Sizes' /\ Roots' /\ RecordOK' /\ AbortKept'
  <2>1. Sizes'
    BY <1>1, <1>3, Numbers DEF Sizes
  <2> QED BY <1>1, <1>5, <2>1, Numbers DEF Closed, Roots, RecordOK, AbortKept
<1>9. NoneShared'
  <2>1. Known' \subseteq 4 .. nblocks' - 1
    BY <1>1, <1>2, <1>7
  <2> QED BY <1>1, <1>2, <1>6, <2>1, Numbers DEF NoneShared, Disjoint
<1>10. Lost' \subseteq leaked'
  <2>1. Lost' = (4 .. nblocks' - 1) \ Known'
    BY <1>5, Numbers DEF Lost
  <2> QED BY <1>1, <1>2, <1>7, <2>1
<1>11. leaked' \subseteq 4 .. Covered' - 1
  BY <1>1, <1>2 DEF Covered
<1> QED BY <1>4, <1>6, <1>8, <1>9, <1>10, <1>11 DEF IInv

\* So does that of the array API: no handle knows anything, and block 3
\* lists what an abort would fall back on.
LEMMA OpenedObjects ==
  ASSUME DownInv, edb_open
  PROVE  OInv' /\ ApiOK' /\ NothingSet'
<1>1. /\ freelist' = 1 /\ objlist' = 3 /\ txn' = FALSE /\ blocks' = Unset
      /\ pc' = "ready" /\ live' = Range(data[3]) /\ data' = data
      /\ txn_id' = 0 /\ handles' = [h \in Handle |-> NULL]
      /\ call' = Idle /\ result' = [call |-> <<>>, err |-> OK, out |-> 0]
  BY DEF DownInv, edb_open, disk, state, loop, api
<1>2. call'.at = "idle" /\ \A h \in Handle : handles'[h] = NULL
  BY <1>1 DEF Idle
<1>3. ObjList' = data[3] /\ New' = {} /\ Committed' = live'
  BY <1>1, <1>2, OpenedBlocks DEF ObjList, New
<1>4. /\ live \subseteq UserBlock /\ live = Range(data[3])
      /\ IsInjective(data[3])
  BY DEF DownInv, TypeOK, FileWhole, WholeLists
<1>5. \A i \in DOMAIN data[3] :
        data[3][i] \in UserBlock /\ CopyIn(Unset, data[3][i]) = data[3][i]
  BY <1>4, UnsetCopies DEF Range
<1>6. HandlesOK'
  BY <1>1, <1>2, TxnIdAssumption DEF HandlesOK, OneHandlePerObject
<1>7. OldHeld'
  BY <1>1, <1>3, <1>4 DEF OldHeld
<1>8. Held'
  <2>1. HeldBy(data[3], Unset) = Range(data[3])
    BY <1>5 DEF HeldBy, Range
  <2>2. Apart(data[3], Unset)
    BY <1>4, <1>5 DEF Apart, IsInjective
  <2> QED BY <1>1, <1>3, <1>4, <2>1, <2>2 DEF Held
<1>9. HandlesKnow' /\ CopiesKnown'
  BY <1>1, <1>2, <1>3, <1>5 DEF HandlesKnow, CopiesKnown, Live
<1>10. CallOK' /\ CommitOK' /\ NothingSet'
  BY <1>1, <1>2 DEF CallOK, CommitOK, NothingSet
<1>11. ApiOK'
  BY <1>1 DEF ApiOK, Call
<1> QED BY <1>6, <1>7, <1>8, <1>9, <1>10, <1>11 DEF OInv

\* The process that opens the file finds what it relies on.
LEMMA Opens ==
  ASSUME DownInv, edb_open
  PROVE  UpInv'
<1>1. CommitWhole'
  BY DEF DownInv, edb_open, loop, CommitWhole
<1> QED BY <1>1, OpenedBlocks, OpenedObjects DEF UpInv, ObjectsInv

-----------------------------------------------------------------------------
(***************************************************************************)
(* The steps of a process.                                                 *)
(***************************************************************************)

\* The steps of the block store, by what they do to the lists on disk.
LEMMA KindsOfStep ==
  ASSUME IInv, [Next]_vars
  PROVE  \/ /\ pc = "ready" /\ pc' = "ready"
            /\ UNCHANGED <<txn, ts_nblocks>>
            /\ txn \/ nblocks' = nblocks
         \/ UNCHANGED vars
         \/ txn_begin \/ txn_abort \/ CommitStart \/ CommitEnd
         \/ \E k \in todo : CommitObjlist(k) \/ CommitEntry(k)
<1> DEFINE Calls == /\ pc = "ready" /\ pc' = "ready"
                    /\ UNCHANGED <<txn, ts_nblocks>>
                    /\ txn \/ nblocks' = nblocks
<1> USE DEF io, disk, state, loop, InTxn, Ready
<1>1. CASE txn_begin_nested \/ NoTransaction \/ txn_allocate_block \/ ModifyObjlist
  BY <1>1 DEF txn_begin_nested, NoTransaction, txn_allocate_block,
     ModifyObjlist, CopyOnWrite
<1>2. CASE InTxn /\ ResizeFails
  BY <1>2 DEF ResizeFails
<1>3. ASSUME NEW b, \/ txn_modify_block(b) \/ txn_free_block(b)
                    \/ \E v \in Value : Write(b, v)
                    \/ ModifyAgain(b) \/ FreeRefused(b) \/ ModifyRefused(b)
      PROVE  Calls
  BY <1>3 DEF txn_modify_block, CopyOnWrite, txn_free_block, Write,
     ModifyAgain, FreeRefused, ModifyRefused
<1>4. CASE AbortFails
  BY <1>4 DEF AbortFails, AbortRoots
<1> HIDE DEF Calls
<1> QED BY <1>1, <1>2, <1>3, <1>4 DEF Next, Calls

\* The lists on disk cover no less than before.
LEMMA CoveredGrows ==
  ASSUME IInv, [Next]_vars
  PROVE  Covered \in Nat /\ Covered' \in Nat /\ Covered <= Covered'
<1>1. IInv'
  BY NextIInv
<1>2. Covered \in Nat /\ Covered' \in Nat
  <2>1. nblocks \in Nat /\ ts_nblocks \in Nat /\ nblocks' \in Nat /\ ts_nblocks' \in Nat
    BY <1>1, Numbers DEF IInv, TypeOK
  <2> QED BY <2>1 DEF Covered
<1>3. ASSUME UNCHANGED <<txn, ts_nblocks>>, txn \/ nblocks' = nblocks
      PROVE  Covered' = Covered
  BY <1>3 DEF Covered
<1>4. CASE UNCHANGED vars
  BY <1>2, <1>3, <1>4 DEF vars, io, state
<1>5. CASE txn_begin
  BY <1>2, <1>5 DEF txn_begin, Covered, io
<1>6. CASE txn_abort
  BY <1>2, <1>6 DEF txn_abort, AbortRoots, Covered
<1>7. CASE CommitStart \/ \E k \in todo : CommitObjlist(k) \/ CommitEntry(k)
  BY <1>2, <1>3, <1>7 DEF CommitStart, CommitObjlist, CommitEntry, io, state
<1>8. CASE CommitEnd
  <2>1. txn /\ Mapped
    BY <1>8 DEF CommitEnd, IInv, Roots
  <2>2. ts_nblocks <= nblocks
    BY <2>1 DEF IInv, Sizes
  <2> QED BY <1>2, <1>8, <2>1, <2>2 DEF CommitEnd, Covered, io
<1> QED BY <1>2, <1>3, <1>4, <1>5, <1>6, <1>7, <1>8, KindsOfStep

\* A commit leaves blocks 1 and 3 alone until it puts back the object list,
\* which tears them apart until it ends.
LEMMA CommitLeaves ==
  ASSUME UpInv, [Next]_vars, leaked' = leaked
  PROVE  CommitWhole'
<1> SUFFICES ASSUME pc' = "commit", ~Torn' PROVE FileWhole(ts_nblocks)'
  BY DEF CommitWhole
<1> IInv
  BY DEF UpInv, ObjectsInv
<1>1. CASE CommitStart
  <2>1. txn /\ pc = "ready" /\ UNCHANGED <<flist, data, ts_nblocks>>
    BY <1>1 DEF CommitStart, InTxn, Ready, disk, state
  <2>2. FileWhole(ts_nblocks)
    BY <2>1, ReadyWhole DEF Covered
  <2> QED BY <2>1, <2>2 DEF FileWhole
<1>2. ASSUME NEW k \in todo, CommitObjlist(k) PROVE FALSE
  <2>1. /\ pc = "commit" /\ k = objlist /\ objlist' = 3 /\ k \in todo
        /\ blocks' = blocks
    BY <1>2, Numbers DEF CommitObjlist, Committing, state
  <2>2. txn /\ Mapped /\ objlist \in Block
    BY <2>1 DEF IInv, Roots, TypeOK
  <2>3. blocks[objlist] # 0 /\ blocks[3] = 0 /\ (objlist # 3 => blocks[objlist] = 3)
    BY <2>1, <2>2, Numbers DEF IInv, RecordOK
  <2>4. blocks'[objlist] = 3
    BY <2>1, <2>3
  <2> QED BY <2>1, <2>2, <2>4, Numbers DEF Torn
<1>3. ASSUME pc = "commit",
             UNCHANGED <<data, objlist, blocks, ts_nblocks>>, flist'[1] = flist[1]
      PROVE  FileWhole(ts_nblocks)'
  <2>1. ~Torn
    BY <1>3 DEF Torn
  <2>2. FileWhole(ts_nblocks)
    BY <1>3, <2>1 DEF UpInv, CommitWhole
  <2> QED BY <1>3, <2>2 DEF FileWhole
<1>4. ASSUME NEW k \in todo, CommitEntry(k) PROVE FileWhole(ts_nblocks)'
  <2>1. /\ pc = "commit" /\ UNCHANGED <<data, objlist, blocks, ts_nblocks>>
        /\ flist' = flist \/ \E b : Push(b)
    BY <1>4 DEF CommitEntry, Committing, state
  <2>2. freelist = 2 /\ flist \in [{1, 2} -> Seq(UserBlock)]
    BY <2>1, InCommitFacts, Numbers DEF CommitFacts, IInv, TypeOK
  <2>3. flist'[1] = flist[1]
    BY <2>1, <2>2 DEF Push
  <2> QED BY <1>3, <2>1, <2>3
<1>5. CASE UNCHANGED vars
  BY <1>3, <1>5 DEF vars, disk, state, loop
<1>6. CASE txn_begin \/ txn_abort \/ CommitEnd
  BY <1>6 DEF txn_begin, txn_abort, AbortRoots, CommitEnd, Ready, loop
<1> QED BY <1>1, <1>2, <1>4, <1>5, <1>6, KindsOfStep

-----------------------------------------------------------------------------
(***************************************************************************)
(* The theorems.                                                           *)
(***************************************************************************)

\* A new file.
LEMMA ReopenStart == ReopenInit => ReopenInv
<1> SUFFICES ASSUME ReopenInit PROVE ReopenInv
  OBVIOUS
<1>1. ObjectsInit /\ Init /\ up = TRUE /\ leaked = {}
  BY DEF ReopenInit, ObjectsInit
<1>2. ObjectsInv /\ Lost = {}
  BY <1>1, ObjectsStart, InitIInv
<1>3. NothingSet /\ CommitWhole
  BY <1>1 DEF ObjectsInit, Init, Idle, NothingSet, CommitWhole
<1> QED BY <1>1, <1>2, <1>3 DEF ReopenInv, UpInv

\* A longer file has all the blocks of a shorter one.
LEMMA Wider ==
  ASSUME NEW m \in Nat, NEW n \in Nat, m <= n
  PROVE  4 .. m - 1 \subseteq 4 .. n - 1
OBVIOUS

\* A step of the process that has the file open is one of a careful caller.
LEMMA RunningStep ==
  ASSUME UpInv, up, Running, Gentle, FewTransactions
  PROVE  /\ UpInv' /\ [Next]_vars
         /\ ObjectsInv /\ ObjectsInv' /\ ObjectsNext /\ NothingSet
<1>1. ObjectsInv /\ IInv /\ ObjectsNext /\ Careful /\ NothingSet'
      /\ leaked' = leaked
  BY DEF UpInv, ObjectsInv, Running, Gentle
<1>2. ObjectsInv' /\ [Next]_vars
  BY <1>1, CarefulStep
<1>3. Lost' \subseteq leaked'
  BY <1>1, <1>2, NextIInv DEF LosesNone, UpInv
<1>4. leaked' \subseteq 4 .. Covered' - 1
  <2>1. leaked \subseteq 4 .. Covered - 1
    BY DEF UpInv
  <2>2. Covered \in Nat /\ Covered' \in Nat /\ Covered <= Covered'
    BY <1>1, <1>2, CoveredGrows
  <2>3. 4 .. Covered - 1 \subseteq 4 .. Covered' - 1
    BY <2>2, Wider
  <2> QED BY <1>1, <2>1, <2>3
<1>5. CommitWhole'
  BY <1>1, <1>2, CommitLeaves
<1> QED BY <1>1, <1>2, <1>3, <1>4, <1>5 DEF UpInv

\* Every step, of a process or between two of them.
LEMMA ReopenStep ==
  ASSUME ReopenInv, [ReopenNext /\ Gentle /\ FewTransactions]_reopenVars
  PROVE  ReopenInv'
<1>1. CASE up /\ UNCHANGED reopenVars
  <2>1. ObjectsInv' /\ [Next]_vars
    BY <1>1, CarefulStep DEF reopenVars, ReopenInv, UpInv
  <2>2. IInv /\ leaked' = leaked /\ up' /\ NothingSet'
        /\ UNCHANGED <<nblocks, ts_nblocks, txn>>
    BY <1>1 DEF reopenVars, objectVars, api, vars, io, state, ReopenInv,
       UpInv, ObjectsInv, NothingSet
  <2>3. Lost' \subseteq leaked'
    BY <1>1, <2>1, <2>2, NextIInv DEF LosesNone, ReopenInv, UpInv
  <2>4. CommitWhole'
    BY <1>1, <2>1, <2>2, CommitLeaves DEF ReopenInv
  <2>5. leaked' \subseteq 4 .. Covered' - 1
    BY <1>1, <2>2 DEF ReopenInv, UpInv, Covered
  <2> QED BY <1>1, <2>1, <2>2, <2>3, <2>4, <2>5 DEF ReopenInv, UpInv
<1>2. CASE ~up /\ UNCHANGED reopenVars
  <2>1. DownInv /\ ~up' /\ UNCHANGED <<fsize, nblocks, flist, data, freelist,
          objlist, txn, blocks, ts_nblocks, pc, todo, live, rc, txn_id,
          handles, call, result, leaked>>
    BY <1>2 DEF reopenVars, objectVars, api, vars, io, disk, state, loop, ReopenInv
  <2>2. DownInv'
    BY <2>1 DEF DownInv, FileWhole, TypeOK
  <2> QED BY <1>2, <2>1, <2>2 DEF ReopenInv, reopenVars
<1>3. CASE Running /\ Gentle /\ FewTransactions
  BY <1>3, RunningStep DEF Running, ReopenInv
<1>4. CASE Kill /\ Gentle
  <2>1. UpInv /\ ~Torn /\ MemoryLost /\ leaked' = leaked \cup Excess /\ up' = FALSE
    BY <1>4 DEF Kill, Gentle, MemoryLost, ReopenInv
  <2> QED BY <2>1, Leaves DEF ReopenInv
<1>5. CASE edb_close
  <2>1. UpInv /\ MemoryLost /\ leaked' = leaked \cup Excess /\ up' = FALSE
        /\ pc = "ready"
    BY <1>5 DEF edb_close, Ready, MemoryLost, ReopenInv
  <2>2. ~Torn
    BY <2>1 DEF Torn
  <2> QED BY <2>1, <2>2, Leaves DEF ReopenInv
<1>6. CASE edb_open
  BY <1>6, Opens DEF edb_open, ReopenInv
<1> QED BY <1>1, <1>2, <1>3, <1>4, <1>5, <1>6 DEF ReopenNext, ReopenInv

\* Whatever the sequence of calls, kills, closes and opens, the process that
\* has the file open finds what it relies on, and the file it would leave
\* has whole lists.
THEOREM ReopenInvariance == ReopenSpec => []ReopenInv
<1>1. ReopenInv /\ [ReopenNext /\ Gentle /\ FewTransactions]_reopenVars
        => ReopenInv'
  BY ReopenStep
<1> QED BY <1>1, ReopenStart, PTL DEF ReopenSpec

\* A kill costs blocks (those the file had been grown by, those of a
\* transaction) but never makes two owners of one: the lists, with what was
\* leaked, cover the file exactly.
THEOREM NeverShared == ReopenSpec => []NothingShared
<1>1. ReopenInv => NothingShared
  <2> SUFFICES ASSUME ReopenInv, Mapped, ~Aborting
               PROVE  /\ IsInjective(flist[freelist])
                      /\ Disjoint(Range(flist[freelist]), live, Pending, Copied)
                      /\ Range(flist[freelist]) \cup live \cup Pending
                           \cup Copied \cup leaked = 4 .. nblocks - 1
    BY Numbers DEF NothingShared
  <2>1. UpInv /\ IInv /\ NoneShared
    BY DEF ReopenInv, DownInv, Mapped, UpInv, ObjectsInv, IInv
  <2>2. (4 .. nblocks - 1) \ Known \subseteq leaked
    BY <2>1, Numbers DEF UpInv, Lost
  <2>3. leaked \subseteq 4 .. nblocks - 1
    <3>1. /\ leaked \subseteq 4 .. Covered - 1
          /\ ts_nblocks \in Nat /\ nblocks \in Nat
          /\ txn => ts_nblocks <= nblocks
      BY <2>1, Numbers DEF UpInv, IInv, TypeOK, Sizes
    <3> QED BY <3>1 DEF Covered
  <2>4. Known \subseteq 4 .. nblocks - 1
    BY <2>1, Numbers DEF NoneShared
  <2> QED BY <2>1, <2>2, <2>3, <2>4 DEF NoneShared, Known
<1> QED BY <1>1, ReopenInvariance, PTL

\* A file that is opened, or is between two transactions, has whole lists,
\* after any number of kills outside the window Torn describes.
THEOREM AlwaysOpensWhole == ReopenSpec => []OpensWhole
<1>1. ReopenInv => OpensWhole
  <2> SUFFICES ASSUME ReopenInv, up, Mapped, ~txn
               PROVE  /\ IsInjective(flist[1]) /\ IsInjective(data[3])
                      /\ Range(flist[1]) \cap Range(data[3]) = {}
                      /\ Range(flist[1]) \cup Range(data[3])
                           \subseteq 4 .. nblocks - 1
    BY Numbers DEF OpensWhole
  <2>1. UpInv /\ pc = "ready"
    BY DEF ReopenInv, UpInv, ObjectsInv, IInv, Closed
  <2>2. FileWhole(nblocks)
    BY <2>1, ReadyWhole DEF Covered
  <2> QED BY <2>2 DEF FileWhole, WholeLists
<1> QED BY <1>1, ReopenInvariance, PTL

-----------------------------------------------------------------------------
(***************************************************************************)
(* The store of arrays across restarts.                                    *)
(***************************************************************************)

\* What a kill or a close leaves of the arrays is what the last commit saved.
LEMMA LeavesShow ==
  ASSUME UpInv, MemoryLost
  PROVE  Objs!Restart
<1>1. /\ txn' = FALSE /\ objlist' = 3 /\ call' = Idle /\ data' = data
      /\ handles' = [h \in Handle |-> NULL]
      /\ result' = [call |-> <<>>, err |-> OK, out |-> 0]
  BY Numbers DEF MemoryLost, disk
<1>2. ObjectPhase' = "closed"
  BY <1>1 DEF ObjectPhase
<1>3. Names' = [h \in Handle |-> NULL]
  BY <1>1 DEF Names
<1>4. Working' = Plain(data[3], data)
  <2>1. call'.at # "init"
    BY <1>1 DEF Idle
  <2>2. RootsIn(data[objlist])' = data[3]
    BY <1>1, <2>1 DEF RootsIn
  <2> QED BY <1>1, <1>2, <2>2 DEF Working, Latest, Plain
<1>5. Saved' = Working'
  BY <1>2 DEF Saved
<1>6. Saved = Plain(data[3], data)
  <2>1. CASE ObjectPhase = "open"
    BY <2>1, Numbers DEF Saved, Plain
  <2>2. CASE ObjectPhase # "open"
    <3>1. objlist = 3 /\ call.at # "init"
      <4>1. IInv /\ CallOK /\ CommitOK
        BY DEF UpInv, ObjectsInv, OInv
      <4>2. CASE ~txn
        BY <4>1, <4>2, ClosedFacts, Numbers DEF CallOK, InTxn
      <4>3. CASE Aborting
        BY <4>1, <4>3, Numbers DEF IInv, Roots, CallOK, InTxn
      <4>4. CASE txn /\ ~Aborting
        BY <2>2, <4>1, <4>4, Numbers DEF ObjectPhase, CommitOK
      <4> QED BY <4>2, <4>3, <4>4
    <3>2. RootsIn(data[objlist]) = data[3]
      BY <3>1 DEF RootsIn
    <3> QED BY <2>2, <3>2 DEF Saved, Working, Latest, Plain
  <2> QED BY <2>1, <2>2
<1> QED BY <1>1, <1>2, <1>3, <1>4, <1>5, <1>6 DEF Objs!Restart, Objs!Answer, OK

\* Opening the file shows nothing.
LEMMA OpenShowsNothing ==
  ASSUME edb_open
  PROVE  UNCHANGED Objs!vars
<1>1. UNCHANGED <<data, objlist, blocks, txn, freelist, pc, handles, call, result>>
  BY DEF edb_open, disk, state, loop, api
<1>2. ObjectPhase' = ObjectPhase /\ Working' = Working /\ Saved' = Saved
  BY <1>1, QuietArrays
<1>3. Names' = Names
  BY <1>1 DEF Names, BeingCreated
<1> QED BY <1>1, <1>2, <1>3 DEF Objs!vars, Objs!arrays

\* The arrays survive: a kill at any moment outside the window is an abort
\* that also forgets the handles, a close and an open change no array.
THEOREM ArraysSurviveRestarts == ReopenSpec => SurvivesRestarts
<1>1. ReopenInit => Objs!Init
  BY StartShows DEF ReopenInit
<1>2. ReopenInv /\ [ReopenNext /\ Gentle /\ FewTransactions]_reopenVars
        => [Objs!Next \/ Objs!Restart]_(Objs!vars)
  <2> SUFFICES ASSUME ReopenInv, ReopenNext, Gentle, FewTransactions
               PROVE  Objs!Next \/ Objs!Restart \/ UNCHANGED Objs!vars
    <3>1. UNCHANGED reopenVars => UNCHANGED Objs!vars
      <4> SUFFICES ASSUME UNCHANGED reopenVars PROVE UNCHANGED Objs!vars
        OBVIOUS
      <4>1. UNCHANGED <<data, objlist, blocks, txn, freelist, pc, handles, call, result>>
        BY DEF reopenVars, objectVars, api, vars, disk, state, loop
      <4>2. ObjectPhase' = ObjectPhase /\ Working' = Working /\ Saved' = Saved
        BY <4>1, QuietArrays
      <4>3. Names' = Names
        BY <4>1 DEF Names, BeingCreated
      <4> QED BY <4>1, <4>2, <4>3 DEF Objs!vars, Objs!arrays
    <3> QED BY <3>1
  <2>1. CASE Running
    <3>1. up /\ UpInv
      BY <2>1 DEF Running, ReopenInv
    <3>2. ObjectsInv /\ ObjectsInv' /\ ObjectsNext /\ NothingSet
      BY <2>1, <3>1, RunningStep
    <3>3. ArrayStep
      BY <3>2, StepShows
    <3>4. ~SetReturns
      BY <3>2 DEF SetReturns, ApplySet, Applying, NothingSet
    <3> QED BY <3>3, <3>4 DEF ArrayStep
  <2>2. CASE Kill \/ edb_close
    BY <2>2, LeavesShow DEF Kill, edb_close, ReopenInv
  <2>3. CASE edb_open
    BY <2>3, OpenShowsNothing
  <2> QED BY <2>1, <2>2, <2>3 DEF ReopenNext
<1> QED BY <1>1, <1>2, ReopenInvariance, PTL
        DEF ReopenSpec, SurvivesRestarts, Objs!RestartSpec
=============================================================================
