---------------------------- MODULE ObjectsProofs ----------------------------
(***************************************************************************)
(* Proofs about the array API of Objects.tla, for a caller that knows its  *)
(* limits (CarefulFewSpec).  The difficulty is that obj_write tells only   *)
(* the handle where it has copied a root to: the object list still names   *)
(* the old block.  The invariant therefore says both that a handle which   *)
(* is not stale knows the latest copy of its object's root (HandlesKnow)   *)
(* and that no root is copied unless such a handle exists (CopiesKnown);   *)
(* what a call returns to after an abort is block 3 (OldHeld), and a       *)
(* commit finds no copied root (CommitOK).  With it, each call of the API  *)
(* is a step of Txn.tla, so that what is proved of transactions holds of   *)
(* arrays.                                                                 *)
(***************************************************************************)
EXTENDS Objects, TxnProofs

-----------------------------------------------------------------------------
(***************************************************************************)
(* The invariant.                                                          *)
(***************************************************************************)

\* The blocks can be reached, and the roots are those of the transaction.
Usable == Mapped /\ ~Aborting

\* The objects' roots, copied or not.
ObjList == data[objlist]
CopyIn(bl, e) ==
  IF \E k \in Block : bl[k] = e THEN CHOOSE k \in Block : bl[k] = e ELSE e
HeldBy(list, bl) == {CopyIn(bl, list[i]) : i \in DOMAIN list}
Apart(list, bl) ==
  \A i, j \in DOMAIN list : CopyIn(bl, list[i]) = CopyIn(bl, list[j]) => i = j

\* A root that edb_array_create has not yet put in the object list.
New == IF call.at = "list" THEN {Target} ELSE {}

Live(h) == handles[h] # NULL /\ ~Stale(h)
Making(h) == call.at = "list" /\ call.h = h

\* Handles that look fresh are of this transaction; all others are stale.
HandlesOK ==
  /\ txn_id \in 0 .. TxnIdMax - 1
  /\ handles \in [Handle -> {NULL} \cup
        [obj_id : Nat, txn_id : 0 .. TxnIdMax, root : Block]]
  /\ \A h \in Handle : handles[h] # NULL =>
       handles[h].txn_id <= txn_id \/ handles[h].txn_id = TxnIdMax
  /\ OneHandlePerObject

\* Block 3 lists exactly the blocks an abort falls back on.
OldHeld ==
  pc = "ready" => Range(data[3]) = Committed /\ IsInjective(data[3])

Held ==
  Usable =>
    /\ Range(ObjList) \subseteq UserBlock
    /\ live = HeldBy(ObjList, blocks) \cup New
    /\ Apart(ObjList, blocks)

\* A handle that is not stale knows the root of its object.
HandlesKnow ==
  (Usable /\ pc = "ready") => \A h \in Handle : Live(h) /\ ~Making(h) =>
    /\ handles[h].obj_id < Len(ObjList)
    /\ handles[h].root = CopyIn(blocks, ObjList[handles[h].obj_id + 1])

\* Where a root has been copied, some handle knows.
CopiesKnown ==
  (Usable /\ pc = "ready") => \A i \in DOMAIN ObjList :
    CopyIn(blocks, ObjList[i]) # ObjList[i] =>
      \E h \in Handle : Live(h) /\ ~Making(h) /\ handles[h].obj_id = i - 1

\* What the calls that take several steps rely on between them.
CallOK ==
  /\ call.at \in {"idle", "allocate", "list", "init", "apply"}
  /\ call.at # "idle" => call.h \in Handle /\ InTxn
  /\ call.at \in {"allocate", "list"} =>
       objlist # 3 /\ Append(ObjList, 0) \in Value
  /\ call.at = "allocate" => handles[call.h] = NULL
  /\ call.at = "list" =>
       /\ Live(call.h) /\ handles[call.h].obj_id = Len(ObjList)
       /\ Target \notin HeldBy(ObjList, blocks)
  /\ call.at \in {"list", "init"} =>
       Target \in live /\ blocks[Target] = ALLOCATED
  /\ call.at = "init" =>
       Live(call.h) /\ handles[call.h].obj_id + 1 = Len(ObjList)
  /\ call.at = "apply" =>
       /\ Live(call.h)
       /\ Target \in live /\ blocks[Target] # 0
       /\ call.c[1] = "push" => Append(data[Target], call.c[2]) \in Value

\* A commit of a careful caller finds no copies but those of the two roots.
CommitOK ==
  pc = "commit" =>
    /\ call.at = "idle"
    /\ \A k \in Block : blocks[k] \notin UserBlock

OInv ==
  /\ HandlesOK /\ OldHeld /\ Held /\ HandlesKnow /\ CopiesKnown
  /\ CallOK /\ CommitOK

-----------------------------------------------------------------------------
(***************************************************************************)
(* Copies in the record.                                                   *)
(***************************************************************************)

\* No block of the caller has two copies, and no copy is one of a copy.
OneCopy(bl) ==
  /\ bl \in [Block -> {ALLOCATED, FREED} \cup Block]
  /\ \A j, k \in Block : bl[j] = bl[k] /\ bl[j] \in UserBlock => j = k
  /\ \A k \in Block : bl[k] \in UserBlock => bl[bl[k]] = 0

\* The record leads from a block to its copy.
LEMMA CopyKnown ==
  ASSUME NEW bl, OneCopy(bl), NEW k \in Block, bl[k] \in UserBlock
  PROVE  CopyIn(bl, bl[k]) = k
<1> DEFINE e == bl[k]
<1>1. \A j \in Block : bl[j] = e => j = k
  BY DEF OneCopy
<1>2. bl[k] = e /\ \E j \in Block : bl[j] = e
  OBVIOUS
<1> HIDE DEF e
<1>3. (CHOOSE j \in Block : bl[j] = e) = k
  BY <1>1, <1>2
<1>4. CopyIn(bl, e) = k
  BY <1>2, <1>3 DEF CopyIn
<1> QED BY <1>4 DEF e

\* A block without a copy is its own latest.
LEMMA CopyNone ==
  ASSUME NEW bl, NEW e, \A k \in Block : bl[k] # e
  PROVE  CopyIn(bl, e) = e
BY DEF CopyIn

\* A block that is its own latest copy has none.
LEMMA NotCopied ==
  ASSUME NEW bl, OneCopy(bl), NEW e \in UserBlock, CopyIn(bl, e) = e
  PROVE  \A k \in Block : bl[k] # e
<1> SUFFICES ASSUME NEW k \in Block, bl[k] = e PROVE FALSE
  OBVIOUS
<1>1. CopyIn(bl, e) = k
  BY CopyKnown
<1> QED BY <1>1, Numbers DEF OneCopy

\* One that is not has a copy.
LEMMA IsCopied ==
  ASSUME NEW bl, OneCopy(bl), NEW e \in UserBlock, CopyIn(bl, e) # e
  PROVE  CopyIn(bl, e) \in Block /\ bl[CopyIn(bl, e)] = e
<1>1. PICK k \in Block : bl[k] = e
  BY CopyNone
<1>2. CopyIn(bl, e) = k
  BY <1>1, CopyKnown
<1> QED BY <1>1, <1>2

\* Record cl is record bl with a new entry s, for a block x that had none.
NewEntry(bl, cl, x, s) ==
  /\ OneCopy(bl)
  /\ x \in UserBlock /\ bl[x] = 0 /\ \A k \in Block : bl[k] # x
  /\ s \in {ALLOCATED} \cup Block /\ s # x
  /\ s \in UserBlock => CopyIn(bl, s) = s /\ bl[s] = 0
  /\ cl \in [Block -> {ALLOCATED, FREED} \cup Block]
  /\ \A k \in Block : cl[k] = IF k = x THEN s ELSE bl[k]

\* It changes the copy of that block.
LEMMA CopyNew ==
  ASSUME NEW bl, NEW cl, NEW x, NEW s, NewEntry(bl, cl, x, s)
  PROVE  /\ OneCopy(cl)
         /\ s \in UserBlock => CopyIn(cl, s) = x
         /\ \A e \in UserBlock : e # s => CopyIn(cl, e) = CopyIn(bl, e)
<1> USE DEF NewEntry
<1>1. /\ bl \in [Block -> {ALLOCATED, FREED} \cup Block] /\ x \in Block
      /\ UserBlock \subseteq Block /\ 0 \notin UserBlock
  BY Numbers DEF OneCopy
<1>2. \A k \in Block : cl[k] = IF k = x THEN s ELSE bl[k]
  BY <1>1
<1>3. s \in UserBlock => \A k \in Block : bl[k] # s
  BY NotCopied
<1>4. OneCopy(cl)
  <2>1. cl \in [Block -> {ALLOCATED, FREED} \cup Block]
    BY <1>1
  <2>2. ASSUME NEW j \in Block, NEW k \in Block, cl[j] = cl[k], cl[j] \in UserBlock
        PROVE  j = k
    BY <1>1, <1>2, <1>3, <2>2 DEF OneCopy
  <2>3. ASSUME NEW k \in Block, cl[k] \in UserBlock
        PROVE  cl[cl[k]] = 0
    <3>1. CASE k = x
      BY <1>1, <1>2, <2>3, <3>1
    <3>2. CASE k # x
      <4>1. cl[k] = bl[k] /\ bl[k] # x /\ bl[bl[k]] = 0
        BY <1>2, <2>3, <3>2 DEF OneCopy
      <4> QED BY <1>1, <1>2, <2>3, <4>1
    <3> QED BY <3>1, <3>2
  <2> QED BY <2>1, <2>2, <2>3 DEF OneCopy
<1>5. ASSUME s \in UserBlock PROVE CopyIn(cl, s) = x
  <2>1. cl[x] = s
    BY <1>1, <1>2
  <2>2. CopyIn(cl, cl[x]) = x
    BY <1>1, <1>4, <1>5, <2>1, CopyKnown
  <2> QED BY <2>1, <2>2
<1>6. ASSUME NEW e \in UserBlock, e # s
      PROVE  CopyIn(cl, e) = CopyIn(bl, e)
  <2>1. \A k \in Block : cl[k] = e <=> bl[k] = e
    BY <1>1, <1>2, <1>6
  <2>2. CASE \E k \in Block : bl[k] = e
    <3>1. PICK k \in Block : bl[k] = e /\ cl[k] = e
      BY <2>1, <2>2
    <3>2. CopyIn(bl, e) = k
      BY <3>1, CopyKnown
    <3>3. CopyIn(cl, e) = k
      BY <1>4, <3>1, CopyKnown
    <3> QED BY <3>2, <3>3
  <2>3. CASE \A k \in Block : bl[k] # e
    <3>1. \A k \in Block : cl[k] # e
      BY <2>1, <2>3
    <3> QED BY <2>3, <3>1, CopyNone
  <2> QED BY <2>2, <2>3
<1> QED BY <1>4, <1>5, <1>6

\* An empty record has no copies.
LEMMA UnsetCopies ==
  OneCopy(Unset) /\ \A e \in UserBlock : CopyIn(Unset, e) = e
<1>1. \A k \in Block : Unset[k] = 0
  BY DEF Unset
<1>2. OneCopy(Unset)
  BY <1>1, Numbers DEF OneCopy, Unset
<1>3. ASSUME NEW e \in UserBlock PROVE CopyIn(Unset, e) = e
  BY <1>1, CopyNone, Numbers
<1> QED BY <1>2, <1>3

\* In a transaction the record is one in which no block has two copies.
LEMMA UsableFacts ==
  ASSUME IInv, Usable
  PROVE  OneCopy(blocks) /\ TypeOK /\ (txn => freelist = 2)
<1>1. TypeOK /\ Closed /\ Roots /\ RecordOK /\ Mapped
  BY DEF IInv, Usable
<1>2. CASE txn
  <2>1. \A j, k \in Block : IsCopy(j) /\ blocks[j] = blocks[k] => j = k
    BY <1>1, <1>2 DEF RecordOK
  <2>2. \A k \in Block : IsCopy(k) => blocks[blocks[k]] = 0
    BY <1>1, <1>2 DEF RecordOK
  <2>3. \A k \in Block : blocks[k] \in UserBlock => IsCopy(k)
    BY Numbers DEF IsCopy
  <2>4. freelist = 2
    BY <1>1, <1>2, Numbers DEF Usable, Aborting, TypeOK
  <2> QED BY <1>1, <2>1, <2>2, <2>3, <2>4 DEF OneCopy, TypeOK
<1>3. CASE ~txn
  BY <1>1, <1>3, UnsetCopies DEF Closed
<1> QED BY <1>1, <1>2, <1>3

\* What a block holds is a list of numbers,
LEMMA Lists ==
  ASSUME TypeOK, NEW b \in Block
  PROVE  data[b] \in Seq(Nat) /\ DOMAIN data[b] = 1 .. Len(data[b])
         /\ Len(data[b]) \in Nat /\ data[b] \in Value
BY ArrayAssumption DEF TypeOK

\* and so is the object list.
LEMMA ObjListIsList ==
  ASSUME TypeOK
  PROVE  /\ objlist \in Block /\ 3 \in Block /\ ObjList \in Value
         /\ ObjList \in Seq(Nat) /\ DOMAIN ObjList = 1 .. Len(ObjList)
         /\ Len(ObjList) \in Nat
<1>1. objlist \in Block /\ 3 \in Block
  BY Numbers DEF TypeOK
<1> QED BY <1>1, Lists DEF ObjList

\* The abstraction of Objects.tla in the terms of the invariant.
LEMMA LatestIsCopy ==
  ASSUME IInv, CommitOK, Usable, NEW e \in UserBlock
  PROVE  Latest(e) = CopyIn(blocks, e)
<1>1. CASE ObjectPhase = "open"
  BY <1>1 DEF Latest, Copy, CopyIn
<1>2. CASE ObjectPhase # "open"
  <2>1. Latest(e) = e
    BY <1>2 DEF Latest
  <2>2. CASE ~txn
    <3>1. blocks = Unset
      BY <2>2 DEF IInv, Closed
    <3> QED BY <2>1, <3>1, UnsetCopies
  <2>3. CASE txn
    <3>1. pc = "commit"
      BY <1>2, <2>3 DEF ObjectPhase, Usable
    <3>2. \A k \in Block : blocks[k] # e
      BY <3>1 DEF CommitOK
    <3> QED BY <2>1, <3>2, CopyNone
  <2> QED BY <2>2, <2>3
<1> QED BY <1>1, <1>2

\* What RootsAreHeld says of the latest copies, the invariant says.
LEMMA OInvRoots ==
  ASSUME IInv, OInv
  PROVE  RootsAreHeld
<1> SUFFICES ASSUME Mapped, ~Aborting
             PROVE  /\ live = {Latest(ObjList[i]) : i \in DOMAIN ObjList} \cup New
                    /\ \A i, j \in DOMAIN ObjList :
                         Latest(ObjList[i]) = Latest(ObjList[j]) => i = j
  BY DEF RootsAreHeld, ObjList, New
<1>1. Usable /\ CommitOK
  BY DEF Usable, OInv
<1>2. /\ Range(ObjList) \subseteq UserBlock
      /\ live = HeldBy(ObjList, blocks) \cup New
      /\ Apart(ObjList, blocks)
  BY <1>1 DEF OInv, Held
<1>3. \A i \in DOMAIN ObjList : ObjList[i] \in UserBlock
  BY <1>2 DEF Range
<1>4. \A i \in DOMAIN ObjList : Latest(ObjList[i]) = CopyIn(blocks, ObjList[i])
  BY <1>1, <1>3, LatestIsCopy
<1> QED BY <1>2, <1>4 DEF HeldBy, Apart

-----------------------------------------------------------------------------
(***************************************************************************)
(* Steps that leave the roots alone.                                       *)
(***************************************************************************)

\* Nothing is mapped any more; only an abort can follow.
LEMMA UnmappedStep ==
  ASSUME OInv, HandlesOK', nblocks' = 0, call'.at = "idle",
         pc = "ready", pc' = "ready",
         data'[3] = data[3], Committed' = Committed
  PROVE  OInv'
<1>1. ~Usable'
  BY DEF Usable, Mapped
<1>2. CallOK' /\ CommitOK'
  BY DEF CallOK, CommitOK
<1>3. OldHeld'
  BY DEF OInv, OldHeld
<1> QED BY <1>1, <1>2, <1>3 DEF OInv, Held, HandlesKnow, CopiesKnown

\* A call that leaves the blocks, the lists and their handles alone.
LEMMA NothingChanges ==
  ASSUME OInv, call.at = "idle", call'.at = "idle",
         UNCHANGED <<nblocks, freelist, objlist, txn, blocks, pc, todo, live,
                     data, txn_id, handles>>
  PROVE  OInv'
<1>1. Committed' = Committed /\ Usable' = Usable /\ ObjList' = ObjList
  BY DEF Committed, Pending, Given, Waiting, IsCopy, Usable, Mapped, Aborting,
         ObjList
<1>2. HandlesOK'
  BY DEF OInv, HandlesOK, OneHandlePerObject
<1>3. OldHeld'
  BY <1>1 DEF OInv, OldHeld
<1>4. New = {} /\ New' = {}
  BY DEF New
<1>5. Held'
  BY <1>1, <1>4 DEF OInv, Held
<1>6. \A h \in Handle : /\ Live(h)' = Live(h)
                        /\ ~Making(h) /\ ~Making(h)'
  BY DEF Live, Stale, Making
<1>7. HandlesKnow' /\ CopiesKnown'
  BY <1>1, <1>6 DEF OInv, HandlesKnow, CopiesKnown
<1>8. CallOK' /\ CommitOK'
  BY DEF CallOK, CommitOK, OInv
<1> QED BY <1>2, <1>3, <1>5, <1>7, <1>8 DEF OInv

\* No call is in progress between calls.
LEMMA IdleCall ==
  Idle.at = "idle" /\ (Between => call.at = "idle") /\ (call' = Idle => call'.at = "idle")
BY DEF Idle, Between

-----------------------------------------------------------------------------
(***************************************************************************)
(* Handles.                                                                *)
(***************************************************************************)

\* A call that may use a handle finds the roots.
LEMMA UseFacts ==
  ASSUME IInv, OInv, NEW h \in Handle, Uses(h)
  PROVE  /\ Usable /\ pc = "ready" /\ call.at = "idle" /\ handles[h] # NULL
         /\ handles[h].obj_id \in Nat /\ handles[h].root \in Block
         /\ TypeOK
<1>1. /\ pc = "ready" /\ Mapped /\ handles[h] # NULL /\ call.at = "idle"
  BY IdleCall DEF Uses, Ready
<1>2. Usable /\ TypeOK
  BY <1>1 DEF Usable, IInv, Roots
<1>3. handles[h].obj_id \in Nat /\ handles[h].root \in Block
  BY <1>1 DEF OInv, HandlesOK
<1> QED BY <1>1, <1>2, <1>3

\* A call resolves its handle to the latest copy of the object's root, which
\* the caller holds.
LEMMA RootFacts ==
  ASSUME IInv, OInv, NEW h \in Handle, Uses(h), Resolves(h)
  PROVE  LET i == handles[h].obj_id + 1 IN
           /\ i \in DOMAIN ObjList
           /\ Root(h) = CopyIn(blocks, ObjList[i])
           /\ Root(h) \in live /\ Root(h) \in UserBlock /\ Root(h) \in Block
<1> DEFINE i == handles[h].obj_id + 1
<1>1. /\ Usable /\ pc = "ready" /\ call.at = "idle" /\ handles[h] # NULL
      /\ handles[h].obj_id \in Nat /\ TypeOK
  BY UseFacts
<1>2. /\ DOMAIN ObjList = 1 .. Len(ObjList) /\ Len(ObjList) \in Nat
  BY <1>1, ObjListIsList
<1>3. i - 1 = handles[h].obj_id /\ i \in Nat
  BY <1>1
<1>4. i \in DOMAIN ObjList /\ Root(h) = CopyIn(blocks, ObjList[i])
  <2>1. CASE ~Stale(h)
    <3>1. Live(h) /\ ~Making(h)
      BY <1>1, <2>1 DEF Live, Making
    <3>2. /\ handles[h].obj_id < Len(ObjList)
          /\ handles[h].root = CopyIn(blocks, ObjList[i])
      BY <1>1, <3>1 DEF OInv, HandlesKnow
    <3> QED BY <1>1, <1>2, <2>1, <3>2 DEF Root
  <2>2. CASE Stale(h)
    <3>1. handles[h].obj_id < Len(ObjList)
      BY <2>2 DEF Resolves, Listed, ObjList
    <3>2. i \in DOMAIN ObjList
      BY <1>1, <1>2, <3>1
    <3>3. CopyIn(blocks, ObjList[i]) = ObjList[i]
      <4> SUFFICES ASSUME CopyIn(blocks, ObjList[i]) # ObjList[i] PROVE FALSE
        OBVIOUS
      <4>1. PICK g \in Handle : Live(g) /\ handles[g].obj_id = i - 1
        BY <1>1, <3>2 DEF OInv, CopiesKnown
      <4>2. g = h
        BY <1>1, <1>3, <4>1 DEF OInv, HandlesOK, OneHandlePerObject, Live
      <4> QED BY <2>2, <4>1, <4>2 DEF Live
    <3>4. Root(h) = ObjList[i]
      BY <2>2 DEF Root, Entry, ObjList
    <3> QED BY <3>2, <3>3, <3>4
  <2> QED BY <2>1, <2>2
<1>5. Root(h) \in live
  BY <1>1, <1>4 DEF OInv, Held, HeldBy
<1>6. live \subseteq UserBlock /\ UserBlock \subseteq Block
  BY <1>1, Numbers DEF TypeOK
<1> QED BY <1>4, <1>5, <1>6

\* What a call leaves in the handle it was given.
LEMMA SeenEffect ==
  ASSUME HandlesOK, NEW h \in Handle, handles[h] # NULL, NEW r \in Block,
         Seen(h, r), txn_id' = txn_id
  PROVE  /\ \A g \in Handle : g # h => handles'[g] = handles[g]
         /\ handles'[h] # NULL /\ handles'[h].obj_id = handles[h].obj_id
         /\ handles'[h].txn_id = txn_id /\ handles'[h].root = r
         /\ HandlesOK'
<1> DEFINE R == [obj_id : Nat, txn_id : 0 .. TxnIdMax, root : Block]
           new == [obj_id |-> handles[h].obj_id, txn_id |-> txn_id, root |-> r]
<1>1. handles \in [Handle -> {NULL} \cup R] /\ handles[h] \in R
      /\ txn_id \in 0 .. TxnIdMax - 1 /\ txn_id \in 0 .. TxnIdMax
  BY TxnIdAssumption DEF HandlesOK
<1>2. handles' = [handles EXCEPT ![h] = new]
  <2> DEFINE old == handles[h]
  <2>1. PICK o \in Nat, t \in 0 .. TxnIdMax, q \in Block :
          old = [obj_id |-> o, txn_id |-> t, root |-> q]
    BY <1>1
  <2>2. old.obj_id = o /\ old.root = q
    BY <2>1
  <2>3. [[old EXCEPT !.txn_id = txn_id] EXCEPT !.root = r]
          = [obj_id |-> o, txn_id |-> txn_id, root |-> r]
    <3> DEFINE mid == [obj_id |-> o, txn_id |-> txn_id, root |-> q]
    <3> HIDE DEF old
    <3>1. [old EXCEPT !.txn_id = txn_id] = mid
      BY <2>1
    <3>2. [mid EXCEPT !.root = r]
            = [obj_id |-> o, txn_id |-> txn_id, root |-> r]
      OBVIOUS
    <3> HIDE DEF mid
    <3> QED BY <3>1, <3>2
  <2>4. handles' = [handles EXCEPT ![h] = [[old EXCEPT !.txn_id = txn_id]
                                              EXCEPT !.root = r]]
    BY <1>1 DEF Seen
  <2> QED BY <2>2, <2>3, <2>4
<1>3. new \in R
  BY <1>1
<1>4. new # NULL
  BY <1>3, HandleAssumption
<1>5. new.obj_id = handles[h].obj_id /\ new.txn_id = txn_id /\ new.root = r
  OBVIOUS
<1> HIDE DEF new, R
<1>6. \A g \in Handle : handles'[g] = IF g = h THEN new ELSE handles[g]
  BY <1>1, <1>2
<1>7. handles' \in [Handle -> {NULL} \cup R]
  BY <1>1, <1>2, <1>3
<1>8. OneHandlePerObject'
  BY <1>4, <1>5, <1>6 DEF HandlesOK, OneHandlePerObject
<1>9. \A g \in Handle : handles'[g] # NULL =>
        handles'[g].txn_id <= txn_id \/ handles'[g].txn_id = TxnIdMax
  BY <1>1, <1>5, <1>6 DEF HandlesOK
<1>10. HandlesOK'
  BY <1>1, <1>7, <1>8, <1>9 DEF HandlesOK, R
<1> QED BY <1>4, <1>5, <1>6, <1>10

\* After it, the handle knows its root, and other objects are as they were.
LEMMA SeenKnows ==
  ASSUME OInv, Usable, pc = "ready", call.at = "idle",
         NEW h \in Handle, handles[h] # NULL, NEW r \in Block,
         Seen(h, r), txn_id' = txn_id, call'.at # "list",
         ObjList' = ObjList, ObjList \in Seq(Nat),
         NEW i \in DOMAIN ObjList, i = handles[h].obj_id + 1,
         r = CopyIn(blocks', ObjList[i]),
         \A j \in DOMAIN ObjList : j # i =>
           CopyIn(blocks', ObjList[j]) = CopyIn(blocks, ObjList[j])
  PROVE  HandlesOK' /\ HandlesKnow' /\ CopiesKnown'
<1>1. /\ \A g \in Handle : g # h => handles'[g] = handles[g]
      /\ handles'[h] # NULL /\ handles'[h].obj_id = handles[h].obj_id
      /\ handles'[h].txn_id = txn_id /\ handles'[h].root = r
      /\ HandlesOK'
  BY SeenEffect DEF OInv
<1>2. \A g \in Handle : ~Making(g) /\ ~Making(g)'
  BY DEF Making
<1>3. \A g \in Handle : g # h => Live(g)' = Live(g)
  BY <1>1 DEF Live, Stale
<1>4. Live(h)'
  BY <1>1 DEF Live, Stale
<1>5. handles[h].obj_id \in Nat /\ Len(ObjList) \in Nat
      /\ DOMAIN ObjList = 1 .. Len(ObjList)
  BY DEF OInv, HandlesOK
<1>6. HandlesKnow'
  <2> SUFFICES ASSUME NEW g \in Handle, Live(g)'
               PROVE  /\ handles'[g].obj_id < Len(ObjList)
                      /\ handles'[g].root
                           = CopyIn(blocks', ObjList[handles'[g].obj_id + 1])
    BY DEF HandlesKnow
  <2>1. CASE g = h
    BY <1>1, <1>5, <2>1
  <2>2. CASE g # h
    <3>1. Live(g) /\ handles[g] # NULL /\ handles'[g] = handles[g]
      BY <1>1, <1>3, <2>2 DEF Live
    <3>2. /\ handles[g].obj_id < Len(ObjList)
          /\ handles[g].root = CopyIn(blocks, ObjList[handles[g].obj_id + 1])
      BY <1>2, <3>1 DEF OInv, HandlesKnow
    <3>3. handles[g].obj_id # handles[h].obj_id /\ handles[g].obj_id \in Nat
      BY <2>2, <3>1 DEF OInv, HandlesOK, OneHandlePerObject
    <3>4. handles[g].obj_id + 1 \in DOMAIN ObjList
      BY ONLY <1>5, <3>2, <3>3
    <3>5. handles[g].obj_id + 1 # i
      BY ONLY <1>5, <3>3, i = handles[h].obj_id + 1
    <3> QED BY <3>1, <3>2, <3>4, <3>5
  <2> QED BY <2>1, <2>2
<1>7. CopiesKnown'
  <2> SUFFICES ASSUME NEW j \in DOMAIN ObjList,
                      CopyIn(blocks', ObjList[j]) # ObjList[j]
               PROVE  \E g \in Handle : /\ Live(g)' /\ ~Making(g)'
                                        /\ handles'[g].obj_id = j - 1
    BY DEF CopiesKnown
  <2>1. CASE j = i
    BY <1>1, <1>2, <1>4, <1>5, <2>1
  <2>2. CASE j # i
    <3>1. PICK g \in Handle : Live(g) /\ handles[g].obj_id = j - 1
      BY <2>2 DEF OInv, CopiesKnown
    <3>2. g # h
      BY <1>5, <2>2, <3>1
    <3> QED BY <1>1, <1>2, <1>3, <3>1, <3>2
  <2> QED BY <2>1, <2>2
<1> QED BY <1>1, <1>6, <1>7

\* Reading through a handle, or a write to a root that need not be copied.
LEMMA SeenOnly ==
  ASSUME IInv, OInv, NEW h \in Handle, Uses(h), Resolves(h), Seen(h, Root(h)),
         call'.at # "list", CallOK',
         UNCHANGED <<nblocks, freelist, objlist, txn, blocks, pc, todo, live,
                     data, txn_id>>
  PROVE  OInv'
<1> DEFINE i == handles[h].obj_id + 1
<1>1. /\ Usable /\ pc = "ready" /\ call.at = "idle" /\ handles[h] # NULL
      /\ TypeOK
  BY UseFacts
<1>2. i \in DOMAIN ObjList /\ Root(h) = CopyIn(blocks, ObjList[i]) /\ Root(h) \in Block
  BY RootFacts
<1>3. Committed' = Committed /\ Usable' = Usable /\ ObjList' = ObjList
  BY DEF Committed, Pending, Given, Waiting, IsCopy, Usable, Mapped, Aborting,
         ObjList
<1>4. HandlesOK' /\ HandlesKnow' /\ CopiesKnown'
  <2>1. ObjList \in Seq(Nat)
    BY <1>1, ObjListIsList
  <2> HIDE DEF i
  <2>2. i = handles[h].obj_id + 1
    BY DEF i
  <2> QED BY <1>1, <1>2, <1>3, <2>1, <2>2, SeenKnows
<1>5. OldHeld'
  BY <1>3 DEF OInv, OldHeld
<1>6. New = {} /\ New' = {}
  BY <1>1 DEF New
<1>7. Held'
  BY <1>3, <1>6 DEF OInv, Held
<1>8. CommitOK'
  BY <1>1 DEF CommitOK
<1> QED BY <1>4, <1>5, <1>7, <1>8 DEF OInv

-----------------------------------------------------------------------------
(***************************************************************************)
(* Transactions.                                                           *)
(***************************************************************************)

\* A call that may write to blocks, but to none a root is found through.
LEMMA SameRoots ==
  ASSUME OInv, Usable, Usable', pc = "ready", pc' = "ready",
         ObjList' = ObjList, live' = live, blocks' = blocks,
         handles' = handles, txn_id' = txn_id,
         call.at # "list", call'.at # "list",
         Committed' = Committed, data'[3] = data[3], CallOK'
  PROVE  OInv'
<1>1. HandlesOK'
  BY DEF OInv, HandlesOK, OneHandlePerObject
<1>2. OldHeld' /\ CommitOK'
  BY DEF OInv, OldHeld, CommitOK
<1>3. New = {} /\ New' = {}
  BY DEF New
<1>4. Held'
  BY <1>3 DEF OInv, Held
<1>5. \A h \in Handle : /\ Live(h)' = Live(h)
                        /\ ~Making(h) /\ ~Making(h)'
  BY DEF Live, Stale, Making
<1>6. HandlesKnow' /\ CopiesKnown'
  BY <1>5 DEF OInv, HandlesKnow, CopiesKnown
<1> QED BY <1>1, <1>2, <1>4, <1>6 DEF OInv

\* When db->txn_id moves on, every handle becomes stale.
LEMMA TxnIdMoves ==
  ASSUME HandlesOK, NextTxnId, FewTransactions, handles' = handles
  PROVE  HandlesOK' /\ \A h \in Handle : ~Live(h)'
<1>1. txn_id \in 0 .. TxnIdMax - 1 /\ TxnIdMax \in Nat
  BY TxnIdAssumption DEF HandlesOK
<1>2. txn_id' = txn_id + 1
  <2>1. \A a \in Nat, n \in Nat : a < n => a % n = a
    OBVIOUS
  <2> QED BY <1>1, <2>1 DEF NextTxnId
<1>3. txn_id' < TxnIdMax
  BY DEF FewTransactions
<1>4. ASSUME NEW h \in Handle, handles[h] # NULL
      PROVE  /\ handles[h].txn_id <= txn_id' \/ handles[h].txn_id = TxnIdMax
             /\ handles[h].txn_id # txn_id'
  <2>1. handles[h].txn_id \in Nat
    BY <1>4 DEF HandlesOK
  <2>2. handles[h].txn_id <= txn_id \/ handles[h].txn_id = TxnIdMax
    BY <1>4 DEF HandlesOK
  <2> QED BY <1>1, <1>2, <1>3, <2>1, <2>2
<1>5. OneHandlePerObject'
  BY DEF HandlesOK, OneHandlePerObject
<1>6. txn_id' \in 0 .. TxnIdMax - 1
  BY <1>1, <1>2, <1>3
<1> QED BY <1>4, <1>5, <1>6 DEF HandlesOK, Live, Stale

\* The list is block 3 and nothing is copied, as between transactions.
LEMMA Rested ==
  ASSUME HandlesOK', \A h \in Handle : ~Live(h)',
         call'.at = "idle", pc' = "ready", objlist' = 3,
         \A e \in UserBlock : CopyIn(blocks', e) = e,
         Committed' = live', live' = Range(data'[3]), IsInjective(data'[3]),
         Range(data'[3]) \subseteq UserBlock
  PROVE  OInv'
<1>1. ObjList' = data'[3] /\ New' = {}
  BY DEF ObjList, New
<1>2. \A i \in DOMAIN data'[3] : /\ data'[3][i] \in UserBlock
                                 /\ CopyIn(blocks', data'[3][i]) = data'[3][i]
  BY DEF Range
<1>3. HeldBy(data'[3], blocks') = Range(data'[3])
  BY <1>2 DEF HeldBy, Range
<1>4. Apart(data'[3], blocks')
  BY <1>2 DEF Apart, IsInjective
<1>5. Held'
  BY <1>1, <1>3, <1>4 DEF Held
<1>6. HandlesKnow' /\ CopiesKnown'
  BY <1>1, <1>2 DEF HandlesKnow, CopiesKnown
<1>7. OldHeld' /\ CallOK' /\ CommitOK'
  BY DEF OldHeld, CallOK, CommitOK
<1> QED BY <1>5, <1>6, <1>7 DEF OInv

\* A commit or an abort without a transaction.
LEMMA RefusedStep ==
  ASSUME IInv, OInv, TxnRefused
  PROVE  [Next]_vars /\ OInv'
<1>1. [Next]_vars
  BY DEF TxnRefused, Next
<1>2. call.at = "idle" /\ call'.at = "idle"
  BY IdleCall DEF TxnRefused, api
<1>3. UNCHANGED <<nblocks, freelist, objlist, txn, blocks, pc, todo, live,
                  data, txn_id, handles>>
  BY DEF TxnRefused, NoTransaction, api, io, disk, state, loop
<1> QED BY <1>1, <1>2, <1>3, NothingChanges

\* edb_txn_begin: every handle becomes stale, and the objects' roots are the
\* blocks of the list.
LEMMA BeginObjects ==
  ASSUME IInv, OInv, edb_txn_begin, FewTransactions
  PROVE  [Next]_vars /\ OInv'
<1>1. call.at = "idle" /\ call' = call /\ handles' = handles
  BY IdleCall DEF edb_txn_begin
<1>2. CASE txn_begin /\ NextTxnId
  <2>1. /\ pc = "ready" /\ txn = FALSE /\ Mapped
        /\ freelist = 1 /\ objlist = 3 /\ blocks = Unset /\ TypeOK
    BY <1>2, Numbers DEF txn_begin, Ready, IInv, TypeOK, Closed
  <2>2. /\ blocks' = [Unset EXCEPT ![2] = 1]
        /\ UNCHANGED <<data, objlist, pc, live>>
    BY <1>2, Numbers DEF txn_begin, loop
  <2>3. Committed' = live
    BY <1>2, BeginStep
  <2>4. Usable /\ New = {}
    BY <1>1, <2>1 DEF Usable, Aborting, New
  <2>5. /\ Range(data[3]) \subseteq UserBlock
        /\ live = HeldBy(data[3], Unset)
        /\ Apart(data[3], Unset)
    BY <2>1, <2>4 DEF OInv, Held, ObjList
  <2>6. \A i \in DOMAIN data[3] : CopyIn(Unset, data[3][i]) = data[3][i]
    BY <2>5, UnsetCopies DEF Range
  <2>7. live = Range(data[3]) /\ IsInjective(data[3])
    BY <2>5, <2>6 DEF HeldBy, Apart, Range, IsInjective
  <2>8. \A e \in UserBlock : CopyIn(blocks', e) = e
    <3>1. \A k \in Block : blocks'[k] = 0 \/ blocks'[k] = 1
      BY <2>2, Numbers DEF Unset
    <3>2. ASSUME NEW e \in UserBlock PROVE \A k \in Block : blocks'[k] # e
      BY <3>1, Numbers
    <3> QED BY <3>2, CopyNone
  <2>9. HandlesOK' /\ \A h \in Handle : ~Live(h)'
    BY <1>1, <1>2, TxnIdMoves DEF OInv
  <2>10. OInv'
    BY <1>1, <2>1, <2>2, <2>3, <2>5, <2>7, <2>8, <2>9, Rested
  <2> QED BY <1>2, <2>10 DEF Next
<1>3. CASE txn_begin_nested /\ UNCHANGED txn_id
  <2>1. UNCHANGED <<nblocks, freelist, objlist, txn, blocks, pc, todo, live,
                    data, txn_id, handles>>
    BY <1>1, <1>3 DEF txn_begin_nested, io, disk, state, loop
  <2>2. OInv'
    BY <1>1, <2>1, NothingChanges
  <2> QED BY <1>3, <2>2 DEF Next
<1> QED BY <1>2, <1>3 DEF edb_txn_begin

\* The commit starts: a careful caller has copied no root of an old object.
LEMMA CommitStartObjects ==
  ASSUME IInv, OInv, Between, CommitStart, UNCHANGED api, NoOldObjectChanged
  PROVE  OInv'
<1>1. /\ pc = "ready" /\ InTxn /\ pc' = "commit"
      /\ UNCHANGED <<nblocks, data, freelist, objlist, txn, blocks, live>>
      /\ UNCHANGED <<txn_id, handles, call>>
  BY DEF CommitStart, InTxn, Ready, io, disk, state, api
<1>2. call.at = "idle" /\ call'.at = "idle"
  BY <1>1, IdleCall
<1>3. /\ objlist # 3 => blocks[objlist] = 3
      /\ blocks[2] = 1 /\ blocks[3] = 0
  BY <1>1, InTxnFacts DEF OpenFacts
<1>4. CommitOK'
  <2> SUFFICES ASSUME NEW k \in Block, blocks[k] \in UserBlock PROVE FALSE
    BY <1>1, <1>2 DEF CommitOK
  <2>1. IsCopy(k)
    BY Numbers DEF IsCopy
  <2>2. k = 2 \/ k = objlist
    BY <2>1, Numbers DEF NoOldObjectChanged, CopiedRoots
  <2> QED BY <1>3, <2>2, Numbers
<1>5. HandlesOK' /\ OldHeld' /\ HandlesKnow' /\ CopiesKnown'
  BY <1>1 DEF OInv, HandlesOK, OneHandlePerObject, OldHeld, HandlesKnow,
     CopiesKnown
<1>6. Held'
  BY <1>1, <1>2 DEF OInv, Held, Usable, Mapped, Aborting, ObjList, New
<1>7. CallOK'
  BY <1>2 DEF CallOK
<1> QED BY <1>4, <1>5, <1>6, <1>7 DEF OInv

\* The loop of the commit: the object list is in block 3 before or after.
LEMMA CommitLoopObjects ==
  ASSUME IInv, OInv, Between, NEW k \in todo, CommitObjlist(k) \/ CommitEntry(k),
         UNCHANGED api
  PROVE  OInv'
<1>1. /\ pc = "commit" /\ pc' = "commit"
      /\ UNCHANGED <<nblocks, freelist, txn, blocks, live>>
      /\ UNCHANGED <<txn_id, handles, call>>
  BY DEF CommitObjlist, CommitEntry, Committing, io, state, api
<1>2. call.at = "idle" /\ call'.at = "idle"
  BY <1>1, IdleCall
<1>3. ObjList' = ObjList
  <2>1. CASE CommitObjlist(k)
    <3>1. /\ objlist' = 3 /\ data' = [data EXCEPT ![3] = data[objlist]]
          /\ 3 \in Block /\ data \in [Block -> Value]
      BY <2>1, Numbers DEF CommitObjlist, IInv, TypeOK
    <3> QED BY <3>1 DEF ObjList
  <2>2. CASE CommitEntry(k)
    BY <2>2 DEF CommitEntry, ObjList
  <2> QED BY <2>1, <2>2
<1>4. HandlesOK' /\ OldHeld' /\ HandlesKnow' /\ CopiesKnown' /\ CommitOK'
  BY <1>1, <1>2 DEF OInv, HandlesOK, OneHandlePerObject, OldHeld, HandlesKnow,
     CopiesKnown, CommitOK
<1>5. Held'
  BY <1>1, <1>2, <1>3 DEF OInv, Held, Usable, Mapped, Aborting, New
<1>6. CallOK'
  BY <1>2 DEF CallOK
<1> QED BY <1>4, <1>5, <1>6 DEF OInv

\* What holds when the loop is over.
LEMMA CommitEndFacts ==
  ASSUME IInv, OInv, CommitReturns
  PROVE  /\ pc = "commit" /\ objlist = 3 /\ objlist' = 3
         /\ \A e \in UserBlock : CopyIn(blocks, e) = e
         /\ data' = data /\ live' = live /\ Usable
         /\ call.at = "idle" /\ call' = call /\ handles' = handles
         /\ \A i \in DOMAIN data[3] : data[3][i] \in UserBlock
         /\ live = Range(data[3]) /\ IsInjective(data[3])
<1>1. /\ pc = "commit" /\ todo = {}
      /\ data' = data /\ live' = live /\ objlist' = objlist
      /\ call' = call /\ handles' = handles
  BY DEF CommitReturns, CommitEnd
<1>2. call.at = "idle" /\ New = {}
  BY IdleCall DEF CommitReturns, New
<1>3. objlist = 3 /\ freelist = 2 /\ Mapped
  BY <1>1, InCommitFacts DEF CommitFacts, IInv, Roots
<1>4. Usable
  BY <1>3, Numbers DEF Usable, Aborting
<1>5. \A e \in UserBlock : CopyIn(blocks, e) = e
  BY <1>1, CopyNone DEF OInv, CommitOK
<1>6. /\ Range(data[3]) \subseteq UserBlock
      /\ live = HeldBy(data[3], blocks)
      /\ Apart(data[3], blocks)
  BY <1>2, <1>3, <1>4 DEF OInv, Held, ObjList
<1>7. \A i \in DOMAIN data[3] : /\ data[3][i] \in UserBlock
                                /\ CopyIn(blocks, data[3][i]) = data[3][i]
  BY <1>5, <1>6 DEF Range
<1>8. live = Range(data[3]) /\ IsInjective(data[3])
  BY <1>6, <1>7 DEF HeldBy, Apart, Range, IsInjective
<1> QED BY <1>1, <1>2, <1>3, <1>4, <1>5, <1>7, <1>8

\* The end of a commit: no root was copied, so block 3 lists them all.
LEMMA CommitEndObjects ==
  ASSUME IInv, OInv, CommitReturns, FewTransactions
  PROVE  OInv'
<1>1. /\ objlist' = 3 /\ data' = data /\ live' = live
      /\ call.at = "idle" /\ call' = call /\ handles' = handles
      /\ \A i \in DOMAIN data[3] : data[3][i] \in UserBlock
      /\ live = Range(data[3]) /\ IsInjective(data[3])
  BY CommitEndFacts
<1>2. txn' = FALSE /\ blocks' = Unset /\ pc' = "ready" /\ NextTxnId
  BY DEF CommitReturns, CommitEnd
<1>3. Committed' = live'
  BY <1>2 DEF Committed
<1>4. HandlesOK' /\ \A h \in Handle : ~Live(h)'
  BY <1>1, <1>2, TxnIdMoves DEF OInv
<1>5. \A e \in UserBlock : CopyIn(blocks', e) = e
  BY <1>2, UnsetCopies
<1>6. Range(data[3]) \subseteq UserBlock
  BY <1>1 DEF Range
<1> QED BY <1>1, <1>2, <1>3, <1>4, <1>5, <1>6, Rested

\* Each step of a commit.
LEMMA CommitObjects ==
  ASSUME IInv, OInv, edb_txn_commit, FewTransactions,
         (pc = "ready" /\ pc' = "commit") => NoOldObjectChanged
  PROVE  [Next]_vars /\ OInv'
<1>1. CASE CommitStart /\ Between /\ UNCHANGED api
  <2>1. pc = "ready" /\ pc' = "commit"
    BY <1>1 DEF CommitStart, InTxn, Ready
  <2>2. OInv'
    BY <1>1, <2>1, CommitStartObjects
  <2> QED BY <1>1, <2>2 DEF Next
<1>2. ASSUME NEW k \in todo, CommitObjlist(k) \/ CommitEntry(k),
             Between, UNCHANGED api
      PROVE  [Next]_vars /\ OInv'
  <2>1. OInv'
    BY <1>2, CommitLoopObjects
  <2> QED BY <1>2, <2>1 DEF Next
<1>3. CASE CommitReturns
  <2>1. OInv'
    BY <1>3, CommitEndObjects
  <2>2. CommitEnd
    BY <1>3 DEF CommitReturns
  <2> QED BY <2>1, <2>2 DEF Next
<1> QED BY <1>1, <1>2, <1>3 DEF edb_txn_commit, CommitStep

\* edb_txn_abort: the caller is back to the objects of block 3, or, when
\* io_resize fails, to nothing it can reach.
LEMMA AbortObjects ==
  ASSUME IInv, OInv, edb_txn_abort, FewTransactions
  PROVE  [Next]_vars /\ OInv'
<1>1. call.at = "idle" /\ call' = call /\ handles' = handles
  BY IdleCall DEF edb_txn_abort
<1>2. AbortRoots
  BY DEF edb_txn_abort, txn_abort, AbortFails
<1>3. /\ pc = "ready" /\ pc' = "ready" /\ objlist' = 3 /\ live' = Committed
      /\ ts_nblocks \in 4 .. fsize /\ fsize \in Nat
      /\ ResizedFile(ts_nblocks) \in ts_nblocks .. MaxBlocks
      /\ TypeOK /\ Committed \subseteq UserBlock
  BY <1>2, AbortFacts
<1>5. data'[3] = data[3]
  <2>1. /\ fsize' \in {fsize, ResizedFile(ts_nblocks)}
        /\ data' = Truncated(data, fsize')
    BY DEF edb_txn_abort, txn_abort, AbortFails
  <2>2. 3 < fsize'
    BY <1>3, <2>1, Numbers
  <2> QED BY <2>1, <2>2, Numbers DEF Truncated
<1>6. Range(data[3]) = Committed /\ IsInjective(data[3])
  BY <1>3 DEF OInv, OldHeld
<1>7. CASE txn_abort /\ NextTxnId
  <2>1. txn' = FALSE /\ blocks' = Unset
    BY <1>7 DEF txn_abort
  <2>2. Committed' = live'
    BY <2>1 DEF Committed
  <2>3. HandlesOK' /\ \A h \in Handle : ~Live(h)'
    BY <1>1, <1>7, TxnIdMoves DEF OInv
  <2>4. \A e \in UserBlock : CopyIn(blocks', e) = e
    BY <2>1, UnsetCopies
  <2>5. OInv'
    BY <1>1, <1>3, <1>5, <1>6, <2>2, <2>3, <2>4, Rested
  <2> QED BY <1>7, <2>5 DEF Next
<1>8. CASE AbortFails /\ UNCHANGED txn_id
  <2>1. Committed' = Committed
    BY <1>8, AbortFailsStep
  <2>2. HandlesOK'
    BY <1>1, <1>8 DEF OInv, HandlesOK, OneHandlePerObject
  <2>3. nblocks' = 0
    BY <1>8 DEF AbortFails
  <2>4. OInv'
    BY <1>1, <1>3, <1>5, <2>1, <2>2, <2>3, UnmappedStep
  <2> QED BY <1>8, <2>4 DEF Next
<1> QED BY <1>7, <1>8 DEF edb_txn_abort

-----------------------------------------------------------------------------
(***************************************************************************)
(* Handles that come and go.                                               *)
(***************************************************************************)

\* A handle may change as long as it knew of no copy and knows of none.
LEMMA HandleChanges ==
  ASSUME IInv, OInv, call.at = "idle", call' = call, UNCHANGED vars,
         txn_id' = txn_id, NEW h \in Handle,
         \A g \in Handle : g # h => handles'[g] = handles[g],
         HandlesOK', ~Live(h)',
         (Usable /\ pc = "ready" /\ Live(h)) =>
            ~(handles[h].root \in Block /\ blocks[handles[h].root] \in UserBlock)
  PROVE  OInv'
<1>1. /\ Committed' = Committed /\ Usable' = Usable /\ ObjList' = ObjList
      /\ UNCHANGED <<nblocks, freelist, objlist, txn, blocks, pc, live, data>>
  BY DEF Committed, Pending, Given, Waiting, IsCopy, Usable, Mapped, Aborting,
         ObjList, vars, io, disk, state, loop
<1>2. New = {} /\ New' = {}
  BY DEF New
<1>3. Held' /\ OldHeld' /\ CallOK' /\ CommitOK'
  BY <1>1, <1>2 DEF OInv, Held, OldHeld, CallOK, CommitOK
<1>4. /\ \A g \in Handle : ~Making(g) /\ ~Making(g)'
      /\ \A g \in Handle : g # h => Live(g)' = Live(g)
  BY DEF Live, Stale, Making
<1>5. HandlesKnow'
  BY <1>1, <1>4 DEF OInv, HandlesKnow
<1>6. CopiesKnown'
  <2> SUFFICES ASSUME Usable, pc = "ready", NEW i \in DOMAIN ObjList,
                      CopyIn(blocks, ObjList[i]) # ObjList[i]
               PROVE  \E g \in Handle : /\ Live(g)' /\ ~Making(g)'
                                        /\ handles'[g].obj_id = i - 1
    BY <1>1 DEF CopiesKnown
  <2>1. PICK g \in Handle : Live(g) /\ handles[g].obj_id = i - 1
    BY DEF OInv, CopiesKnown
  <2>2. g # h
    <3> SUFFICES ASSUME g = h PROVE FALSE
      OBVIOUS
    <3>1. OneCopy(blocks) /\ TypeOK
      BY UsableFacts
    <3>2. ObjList[i] \in UserBlock /\ DOMAIN ObjList = 1 .. Len(ObjList)
          /\ Len(ObjList) \in Nat
      BY <3>1, ObjListIsList DEF OInv, Held, Range
    <3>3. handles[h].root = CopyIn(blocks, ObjList[handles[h].obj_id + 1])
      BY <1>4, <2>1 DEF OInv, HandlesKnow
    <3>4. handles[h].obj_id + 1 = i
      BY <2>1, <3>2
    <3>5. CopyIn(blocks, ObjList[i]) \in Block
          /\ blocks[CopyIn(blocks, ObjList[i])] = ObjList[i]
      BY <3>1, <3>2, IsCopied
    <3> QED BY <2>1, <3>2, <3>3, <3>4, <3>5
  <2> QED BY <1>4, <2>1, <2>2
<1> QED BY <1>3, <1>5, <1>6 DEF OInv

\* edb_array_open.
LEMMA OpenObjects ==
  ASSUME IInv, OInv, NEW h \in Handle, NEW id \in ObjId, edb_array_open(h, id),
         OneHandlePerObject'
  PROVE  [Next]_vars /\ OInv'
<1> DEFINE new == [obj_id |-> id, txn_id |-> TxnIdMax, root |-> 0]
           R == [obj_id : Nat, txn_id : 0 .. TxnIdMax, root : Block]
<1>1. /\ call.at = "idle" /\ call' = call /\ UNCHANGED vars /\ txn_id' = txn_id
      /\ handles[h] = NULL /\ handles' = [handles EXCEPT ![h] = new]
  BY IdleCall DEF edb_array_open
<1>2. /\ handles \in [Handle -> {NULL} \cup R]
      /\ txn_id \in 0 .. TxnIdMax - 1 /\ TxnIdMax \in Nat
  BY TxnIdAssumption DEF OInv, HandlesOK
<1>3. new \in R
  BY <1>2, HandleAssumption, Numbers
<1>4. new.txn_id = TxnIdMax
  OBVIOUS
<1> HIDE DEF new, R
<1>5. \A g \in Handle : handles'[g] = IF g = h THEN new ELSE handles[g]
  BY <1>1, <1>2
<1>6. handles' \in [Handle -> {NULL} \cup R]
  BY <1>1, <1>2, <1>3
<1>7. HandlesOK'
  BY <1>1, <1>2, <1>4, <1>5, <1>6 DEF OInv, HandlesOK, R
<1>8. ~Live(h)' /\ ~Live(h)
  BY <1>1, <1>2, <1>4, <1>5 DEF Live, Stale
<1>9. OInv'
  BY <1>1, <1>5, <1>7, <1>8, HandleChanges
<1> QED BY <1>1, <1>9

\* A careful caller keeps the handles that alone know of a copied root.
LEMMA ForgetObjects ==
  ASSUME IInv, OInv, NEW h \in Handle, Forget(h), KeepsChanged
  PROVE  [Next]_vars /\ OInv'
<1>1. /\ call.at = "idle" /\ call' = call /\ UNCHANGED vars /\ txn_id' = txn_id
      /\ handles' = [handles EXCEPT ![h] = NULL]
      /\ ~Changed(h)
  BY IdleCall DEF Forget, KeepsChanged
<1>2. handles' \in [Handle -> {NULL} \cup
        [obj_id : Nat, txn_id : 0 .. TxnIdMax, root : Block]]
      /\ \A g \in Handle : handles'[g] = IF g = h THEN NULL ELSE handles[g]
  BY <1>1 DEF OInv, HandlesOK
<1>3. HandlesOK'
  BY <1>1, <1>2 DEF OInv, HandlesOK, OneHandlePerObject
<1>4. ~Live(h)'
  BY <1>2 DEF Live
<1>5. ASSUME Usable, pc = "ready", Live(h), handles[h].root \in Block,
             blocks[handles[h].root] \in UserBlock
      PROVE  FALSE
  <2>1. IsCopy(handles[h].root)
    BY <1>5, Numbers DEF IsCopy
  <2>2. txn
    BY <1>5, Numbers DEF IInv, Closed, Unset
  <2>3. Phase = "open"
    BY <1>5, <2>2 DEF Phase, Usable
  <2> QED BY <1>1, <1>5, <2>1, <2>3 DEF Changed, Live
<1>6. OInv'
  BY <1>1, <1>2, <1>3, <1>4, <1>5, HandleChanges
<1> QED BY <1>1, <1>6

-----------------------------------------------------------------------------
(***************************************************************************)
(* Arrays.                                                                 *)
(***************************************************************************)

\* A call on a handle that names no object.
LEMMA NotListedStep ==
  ASSUME IInv, OInv, NEW h \in Handle, NEW c, Uses(h), NotListed(h, c)
  PROVE  [Next]_vars /\ OInv'
<1>1. call.at = "idle" /\ call'.at = "idle" /\ UNCHANGED vars
  BY UseFacts DEF NotListed
<1>2. UNCHANGED <<nblocks, freelist, objlist, txn, blocks, pc, todo, live,
                  data, txn_id, handles>>
  BY DEF NotListed, vars, io, disk, state, loop
<1> QED BY <1>1, <1>2, NothingChanges

\* The calls that only read.
LEMMA ReadObjects ==
  ASSUME IInv, OInv, NEW h \in Handle,
         edb_array_length(h) \/ \E i \in Index : edb_array_get(h, i)
  PROVE  [Next]_vars /\ OInv'
<1>1. Uses(h)
  BY DEF edb_array_length, edb_array_get
<1>2. CASE NotListed(h, <<"length">>) \/ \E i \in Index : NotListed(h, <<"get", i>>)
  BY <1>1, <1>2, NotListedStep
<1>3. CASE Resolves(h) /\ Seen(h, Root(h)) /\ UNCHANGED <<vars, txn_id, call>>
  <2>1. call'.at = "idle" /\ CallOK'
    BY <1>1, <1>3, UseFacts DEF CallOK
  <2>2. UNCHANGED <<nblocks, freelist, objlist, txn, blocks, pc, todo, live,
                    data, txn_id>>
    BY <1>3 DEF vars, io, disk, state, loop
  <2> QED BY <1>1, <1>3, <2>1, <2>2, SeenOnly
<1> QED BY <1>2, <1>3 DEF edb_array_length, edb_array_get

\* A root that has no entry of its own has no copy either.
LEMMA PlainRoot ==
  ASSUME NEW bl, OneCopy(bl), NEW e \in UserBlock,
         CopyIn(bl, e) \in Block, bl[CopyIn(bl, e)] = 0
  PROVE  CopyIn(bl, e) = e
<1> SUFFICES ASSUME CopyIn(bl, e) # e PROVE FALSE
  OBVIOUS
<1>1. bl[CopyIn(bl, e)] = e
  BY IsCopied
<1> QED BY <1>1, Numbers

\* obj_write copies the root of an object: the handle, and only the handle,
\* is told.
LEMMA WriteCopies ==
  ASSUME IInv, OInv, NEW h \in Handle, NEW c, Uses(h), Resolves(h),
         c[1] = "push" => Append(data[Root(h)], c[2]) \in Value,
         txn_modify_block(Root(h)), Seen(h, CopiedRoot(h)), txn_id' = txn_id,
         call' = [at |-> "apply", h |-> h, c |-> c]
  PROVE  OInv'
<1> DEFINE b == Root(h)
           x == CopiedRoot(h)
           i == handles[h].obj_id + 1
<1>1. /\ i \in DOMAIN ObjList /\ b = CopyIn(blocks, ObjList[i])
      /\ b \in live /\ b \in UserBlock /\ b \in Block
  BY RootFacts
<1>2. /\ Usable /\ pc = "ready" /\ call.at = "idle" /\ handles[h] # NULL /\ TypeOK
      /\ ObjList \in Seq(Nat) /\ objlist \in Block
      /\ data \in [Block -> Value] /\ OneCopy(blocks) /\ 3 \in Block
  BY UseFacts, UsableFacts, ObjListIsList DEF TypeOK
<1>3. /\ InTxn /\ blocks[b] = 0
      /\ Take(FreelistAllocate(flist[freelist], nblocks), b)
      /\ data' = [data EXCEPT ![x] = data[b]]
      /\ live' = (live \ {b}) \cup {x}
      /\ UNCHANGED <<freelist, objlist, txn, pc>>
  BY DEF txn_modify_block, CopyOnWrite, CopiedRoot, loop
<1>4. /\ x \in UserBlock /\ blocks[x] = 0 /\ x \notin live /\ x # objlist
      /\ \A k \in Block : IsCopy(k) => blocks[k] # x
      /\ blocks' = [blocks EXCEPT ![x] = b]
      /\ nblocks' \in nblocks .. MaxBlocks
  BY <1>3, TakeEffect DEF CopiedRoot
<1>5. Committed' = Committed
  BY <1>1, ModifyStep
<1> HIDE DEF x, b, i
<1>6. \A k \in Block : blocks[k] # x
  BY <1>4, Numbers DEF IsCopy
<1>7. /\ \A j \in DOMAIN ObjList : ObjList[j] \in UserBlock
      /\ live = HeldBy(ObjList, blocks) \cup New
      /\ Apart(ObjList, blocks)
  BY <1>2 DEF OInv, Held, Range
<1>8. ObjList[i] = b /\ CopyIn(blocks, b) = b
  BY <1>1, <1>2, <1>3, <1>7, PlainRoot
<1>9. /\ CopyIn(blocks', b) = x
      /\ \A e \in UserBlock : e # b => CopyIn(blocks', e) = CopyIn(blocks, e)
  <2>1. OneCopy(blocks) /\ x \in UserBlock /\ b \in {ALLOCATED} \cup Block
        /\ b # x /\ blocks[x] = 0 /\ blocks[b] = 0 /\ CopyIn(blocks, b) = b
        /\ b \in UserBlock /\ blocks' = [blocks EXCEPT ![x] = b]
    BY <1>1, <1>2, <1>3, <1>4, <1>8
  <2>2. /\ blocks' \in [Block -> {ALLOCATED, FREED} \cup Block]
        /\ \A k \in Block : blocks'[k] = IF k = x THEN b ELSE blocks[k]
    BY <1>2, <2>1, Numbers DEF TypeOK
  <2>3. NewEntry(blocks, blocks', x, b)
    BY <1>6, <2>1, <2>2 DEF NewEntry
  <2> QED BY <1>1, <2>3, CopyNew
<1>10. ObjList' = ObjList /\ data'[3] = data[3] /\ data'[x] = data[b]
       /\ blocks'[x] = b
  BY <1>2, <1>3, <1>4, Numbers DEF ObjList, TypeOK
<1>11. \A j \in DOMAIN ObjList : j # i => ObjList[j] # b
  BY <1>1, <1>7, <1>8 DEF Apart
<1>12. \A j \in DOMAIN ObjList :
         CopyIn(blocks', ObjList[j]) = IF j = i THEN x ELSE CopyIn(blocks, ObjList[j])
  BY <1>7, <1>8, <1>9, <1>11
<1>13. New = {} /\ New' = {}
  BY <1>2 DEF New
<1>14. Usable' /\ InTxn'
  BY <1>2, <1>3, <1>4, Numbers DEF Usable, InTxn, Ready, Mapped, Aborting, TypeOK
<1>15. Held'
  <2>1. \A j \in DOMAIN ObjList : CopyIn(blocks, ObjList[j]) \in live
    BY <1>7 DEF HeldBy
  <2>2. \A j \in DOMAIN ObjList : j # i => CopyIn(blocks, ObjList[j]) # b
    BY <1>1, <1>7 DEF Apart
  <2>3. HeldBy(ObjList, blocks') = (live \ {b}) \cup {x}
    BY <1>1, <1>7, <1>12, <1>13, <2>1, <2>2 DEF HeldBy
  <2>4. Apart(ObjList, blocks')
    BY <1>4, <1>7, <1>12, <2>1 DEF Apart
  <2>5. Range(ObjList) \subseteq UserBlock
    BY <1>7 DEF Range
  <2> QED BY <1>3, <1>10, <1>13, <2>3, <2>4, <2>5 DEF Held
<1>16. HandlesOK' /\ HandlesKnow' /\ CopiesKnown'
  <2>1. Seen(h, x) /\ x \in Block /\ i = handles[h].obj_id + 1
    BY <1>4, Numbers DEF x, i
  <2>2. /\ x = CopyIn(blocks', ObjList[i])
        /\ \A j \in DOMAIN ObjList : j # i =>
             CopyIn(blocks', ObjList[j]) = CopyIn(blocks, ObjList[j])
    BY <1>1, <1>12
  <2>3. call'.at # "list"
    OBVIOUS
  <2> QED BY <1>1, <1>2, <1>10, <2>1, <2>2, <2>3, SeenKnows
<1>17. CallOK'
  <2>1. Live(h)' /\ handles'[h].root = x
    <3>1. Seen(h, x) /\ x \in Block /\ HandlesOK
      BY <1>4, Numbers DEF x, OInv
    <3>2. handles'[h] # NULL /\ handles'[h].root = x /\ handles'[h].txn_id = txn_id
      BY <1>2, <3>1, SeenEffect
    <3> QED BY <3>2 DEF Live, Stale
  <2>2. call'.at = "apply" /\ call'.h = h /\ call'.c = c
    OBVIOUS
  <2>3. Target' = x
    BY <2>1, <2>2 DEF Target
  <2>4. x \in live' /\ blocks'[x] # 0
    BY <1>1, <1>3, <1>10, Numbers
  <2>5. c[1] = "push" => Append(data'[x], c[2]) \in Value
    BY <1>10 DEF b
  <2> QED BY <1>14, <2>1, <2>2, <2>3, <2>4, <2>5 DEF CallOK
<1>18. OldHeld' /\ CommitOK'
  BY <1>2, <1>3, <1>5, <1>10 DEF OInv, OldHeld, CommitOK
<1> QED BY <1>15, <1>16, <1>17, <1>18 DEF OInv

\* obj_write, whatever it finds: no transaction, a root to copy, one that is
\* copied already, or no room.
LEMMA ObjWriteStep ==
  ASSUME IInv, OInv, NEW h \in Handle, NEW c, obj_write(h, c),
         (Resolves(h) /\ c[1] = "push") => Append(data[Root(h)], c[2]) \in Value
  PROVE  [Next]_vars /\ OInv'
<1>1. Uses(h)
  BY DEF obj_write
<1>2. /\ pc = "ready" /\ call.at = "idle" /\ handles[h] # NULL
  BY <1>1, UseFacts
<1>3. CASE NotListed(h, c)
  BY <1>1, <1>3, NotListedStep
<1>4. CASE /\ Resolves(h) /\ txn_id' = txn_id
           /\ NoTransaction
           /\ Seen(h, Root(h))
           /\ Ends(c, EDB_ERR_TXN_NO_TRANSACTION)
  <2>1. call'.at = "idle" /\ CallOK'
    BY <1>4, IdleCall DEF Ends, CallOK
  <2>2. UNCHANGED <<nblocks, freelist, objlist, txn, blocks, pc, todo, live,
                    data, txn_id>>
    BY <1>4 DEF NoTransaction, io, disk, state, loop
  <2>3. OInv'
    BY <1>1, <1>4, <2>1, <2>2, SeenOnly
  <2> QED BY <1>4, <2>3 DEF Next
<1>5. CASE /\ Resolves(h) /\ txn_id' = txn_id
           /\ txn_modify_block(Root(h))
           /\ Seen(h, CopiedRoot(h))
           /\ call' = [at |-> "apply", h |-> h, c |-> c]
  <2>1. OInv'
    BY <1>1, <1>5, WriteCopies
  <2>2. Root(h) \in live
    BY <1>1, <1>5, RootFacts
  <2> QED BY <1>5, <2>1, <2>2 DEF Next
<1>6. CASE /\ Resolves(h) /\ txn_id' = txn_id
           /\ ModifyAgain(Root(h))
           /\ Seen(h, Root(h))
           /\ call' = [at |-> "apply", h |-> h, c |-> c]
  <2>1. Root(h) \in live /\ Root(h) \in Block
    BY <1>1, <1>6, RootFacts
  <2>2. /\ UNCHANGED <<nblocks, freelist, objlist, txn, blocks, pc, todo, live,
                       data, txn_id>>
        /\ InTxn /\ blocks[Root(h)] # 0
    BY <1>6 DEF ModifyAgain, io, disk, state, loop
  <2>3. Live(h)' /\ handles'[h].root = Root(h)
    <3> HIDE DEF Root
    <3>1. Seen(h, Root(h)) /\ HandlesOK
      BY <1>6 DEF OInv
    <3>2. /\ handles'[h] # NULL /\ handles'[h].root = Root(h)
          /\ handles'[h].txn_id = txn_id
      BY <1>2, <1>6, <2>1, <3>1, SeenEffect
    <3> QED BY <1>6, <3>2 DEF Live, Stale
  <2>4. call'.at = "apply" /\ call'.h = h /\ call'.c = c
    BY <1>6
  <2>5. Target' = Root(h)
    BY <2>3, <2>4 DEF Target
  <2>6. CallOK'
    <3>1. InTxn'
      BY <2>2 DEF InTxn, Ready, Mapped
    <3> QED BY <1>6, <2>1, <2>2, <2>3, <2>4, <2>5, <3>1 DEF CallOK
  <2>7. OInv'
    BY <1>1, <1>6, <2>2, <2>4, <2>6, SeenOnly
  <2> QED BY <1>6, <2>1, <2>7 DEF Next
<1>7. CASE /\ Resolves(h) /\ txn_id' = txn_id
           /\ InTxn /\ blocks[Root(h)] = 0 /\ ResizeFails
           /\ Seen(h, Root(h))
           /\ Ends(c, IO_ERROR)
  <2>1. Root(h) \in Block
    BY <1>1, <1>7, RootFacts
  <2>2. HandlesOK'
    BY <1>2, <1>7, <2>1, SeenEffect DEF OInv
  <2>3. call'.at = "idle"
    BY <1>7, IdleCall DEF Ends
  <2>4. Committed' = Committed
    BY <1>7, ResizeFailsStep
  <2>5. nblocks' = 0 /\ UNCHANGED <<data, pc>>
    BY <1>7 DEF ResizeFails, disk, loop
  <2>6. OInv'
    BY <1>2, <2>2, <2>3, <2>4, <2>5, UnmappedStep
  <2> QED BY <1>7, <2>6 DEF Next
<1> QED BY <1>3, <1>4, <1>5, <1>6, <1>7 DEF obj_write

\* The first step of the calls that change an array.
LEMMA WriteObjects ==
  ASSUME IInv, OInv, NEW h \in Handle,
         \/ edb_array_pop(h)
         \/ \E x \in Item : edb_array_push(h, x)
         \/ \E i \in Index : \E x \in Item : edb_array_set(h, i, x)
  PROVE  [Next]_vars /\ OInv'
<1>1. CASE edb_array_pop(h)
  <2>1. <<"pop">>[1] # "push"
    OBVIOUS
  <2> QED BY <1>1, <2>1, ObjWriteStep DEF edb_array_pop
<1>2. ASSUME NEW x \in Item, edb_array_push(h, x) PROVE [Next]_vars /\ OInv'
  <2>1. <<"push", x>>[2] = x
    OBVIOUS
  <2>2. obj_write(h, <<"push", x>>) /\ Fits(h, x)
    BY <1>2 DEF edb_array_push
  <2> QED BY <2>1, <2>2, ObjWriteStep DEF Fits
<1>3. ASSUME NEW i \in Index, NEW x \in Item, edb_array_set(h, i, x)
      PROVE  [Next]_vars /\ OInv'
  <2>1. <<"set", i, x>>[1] # "push"
    OBVIOUS
  <2> QED BY <1>3, <2>1, ObjWriteStep DEF edb_array_set
<1> QED BY <1>1, <1>2, <1>3

\* A block the caller has and may write to: no root is found through it.
LEMMA WritableFacts ==
  ASSUME IInv, OInv, InTxn, NEW b \in live
  PROVE  /\ b \in Block /\ b # objlist /\ b # 3 /\ blocks[b] # FREED
         /\ Usable /\ pc = "ready" /\ TypeOK
<1>1. OpenFacts /\ TypeOK
  BY InTxnFacts DEF IInv
<1>2. b \in UserBlock /\ b \in Block
  BY <1>1, Numbers DEF TypeOK
<1>3. b # objlist /\ b # 3
  BY <1>1, <1>2, Numbers DEF OpenFacts, Disjoint, Copied
<1>4. blocks[b] # FREED
  <2>1. b \in Waiting /\ b \notin Pending
    BY <1>1, <1>2 DEF OpenFacts, Disjoint
  <2>2. b # EDB_FREELIST_PRIMARY /\ b # EDB_OBJLIST
    BY <1>2, Numbers
  <2> QED BY <2>1, <2>2, PendingMember
<1> QED BY <1>1, <1>2, <1>3, <1>4 DEF OpenFacts, Usable, InTxn

\* A store into such a block, at the end of a call.
LEMMA PutStep ==
  ASSUME IInv, OInv, InTxn, NEW b \in live, blocks[b] # 0,
         NEW v \in Value, Put(b, v), call' = Idle, call.at # "list",
         UNCHANGED <<txn_id, handles>>
  PROVE  [Next]_vars /\ OInv'
<1>1. /\ b \in Block /\ b # objlist /\ b # 3 /\ blocks[b] # FREED
      /\ Usable /\ pc = "ready" /\ TypeOK
  BY WritableFacts
<1>2. Write(b, v)
  BY <1>1 DEF Put, Write
<1>3. /\ data' = [data EXCEPT ![b] = v]
      /\ UNCHANGED <<nblocks, freelist, objlist, txn, blocks, pc, todo, live>>
  BY DEF Put, io, state, loop
<1>4. data'[3] = data[3] /\ ObjList' = ObjList
  BY <1>1, <1>3, Numbers DEF TypeOK, ObjList
<1>5. Committed' = Committed /\ Usable'
  BY <1>1, <1>3 DEF Committed, Pending, Given, Waiting, IsCopy, Usable, Mapped,
     Aborting
<1>6. call'.at = "idle" /\ CallOK'
  BY IdleCall DEF CallOK
<1>7. OInv'
  BY <1>1, <1>3, <1>4, <1>5, <1>6, SameRoots
<1> QED BY <1>2, <1>7 DEF Next

\* The second half of a push, a pop or a set.
LEMMA ApplyObjects ==
  ASSUME IInv, OInv, ApplyPush \/ ApplyPop \/ ApplySet
  PROVE  [Next]_vars /\ OInv'
<1>1. call.at = "apply" /\ call' = Idle /\ UNCHANGED <<txn_id, handles>>
  BY DEF ApplyPush, ApplyPop, ApplySet, Applying, Ends
<1>2. /\ InTxn /\ Target \in live /\ blocks[Target] # 0
      /\ call.c[1] = "push" => Append(data[Target], call.c[2]) \in Value
  BY <1>1 DEF OInv, CallOK
<1>3. Target \in Block /\ Usable /\ pc = "ready" /\ TypeOK
  BY <1>2, WritableFacts
<1>4. call'.at = "idle" /\ CallOK'
  BY <1>1, IdleCall DEF CallOK
<1>5. CASE UNCHANGED vars
  <2>1. UNCHANGED <<nblocks, freelist, objlist, txn, blocks, pc, todo, live, data>>
    BY <1>5 DEF vars, io, disk, state, loop
  <2>2. Committed' = Committed /\ Usable' /\ ObjList' = ObjList
    BY <1>3, <2>1 DEF Committed, Pending, Given, Waiting, IsCopy, Usable, Mapped,
       Aborting, ObjList
  <2>3. OInv'
    BY <1>1, <1>3, <1>4, <2>1, <2>2, SameRoots
  <2> QED BY <1>5, <2>3
<1>6. CASE ApplyPush
  <2>1. Append(data[Target], call.c[2]) \in Value
    BY <1>2, <1>6 DEF ApplyPush, Applying
  <2>2. Put(Target, Append(data[Target], call.c[2]))
    BY <1>6 DEF ApplyPush
  <2> HIDE DEF Target
  <2> QED BY <1>1, <1>2, <2>1, <2>2, PutStep
<1>7. CASE data[Target] # <<>> /\ Put(Target, Front(data[Target]))
  <2>1. Front(data[Target]) \in Value
    BY <1>3, <1>7, Lists, ArrayAssumption
  <2> QED BY <1>1, <1>2, <1>7, <2>1, PutStep
<1> QED BY <1>5, <1>6, <1>7 DEF ApplyPop, ApplySet

-----------------------------------------------------------------------------
(***************************************************************************)
(* edb_array_create.                                                       *)
(***************************************************************************)

\* obj_create makes the object list writable: its copy lists what it did.
LEMMA CreateStartObjects ==
  ASSUME IInv, OInv, NEW h \in Handle, CreateStart(h)
  PROVE  [Next]_vars /\ OInv'
<1>1. call.at = "idle" /\ handles[h] = NULL /\ UNCHANGED <<txn_id, handles>>
  BY IdleCall DEF CreateStart
<1>2. CASE NoTransaction /\ Ends(<<"create">>, EDB_ERR_TXN_NO_TRANSACTION)
  <2>1. call'.at = "idle"
    BY <1>2, IdleCall DEF Ends
  <2>2. UNCHANGED <<nblocks, freelist, objlist, txn, blocks, pc, todo, live,
                    data, txn_id, handles>>
    BY <1>1, <1>2 DEF NoTransaction, io, disk, state, loop
  <2>3. OInv'
    BY <1>1, <2>1, <2>2, NothingChanges
  <2> QED BY <1>2, <2>3 DEF Next
<1>3. CASE InTxn /\ ResizeFails /\ Ends(<<"create">>, IO_ERROR)
  <2>1. call'.at = "idle" /\ Committed' = Committed
    BY <1>3, IdleCall, ResizeFailsStep DEF Ends
  <2>2. nblocks' = 0 /\ UNCHANGED <<data, pc>> /\ pc = "ready"
    BY <1>3 DEF ResizeFails, disk, loop, InTxn, Ready
  <2>3. HandlesOK'
    BY <1>1 DEF OInv, HandlesOK, OneHandlePerObject
  <2>4. OInv'
    BY <2>1, <2>2, <2>3, UnmappedStep
  <2> QED BY <1>3, <2>4 DEF Next
<1>4. CASE /\ Append(data[objlist], 0) \in Value
           /\ ModifyAgain(objlist)
           /\ call' = [at |-> "allocate", h |-> h]
  <2>1. InTxn /\ blocks[objlist] # 0
        /\ UNCHANGED <<nblocks, freelist, objlist, txn, blocks, pc, todo, live,
                       data>>
    BY <1>4 DEF ModifyAgain, io, disk, state, loop
  <2>2. OpenFacts
    BY <2>1, InTxnFacts
  <2>3. objlist # 3 /\ Usable /\ pc = "ready"
    BY <2>1, <2>2, Numbers DEF OpenFacts, Usable, InTxn
  <2>4. Committed' = Committed /\ Usable' /\ ObjList' = ObjList /\ InTxn'
    BY <2>1, <2>3 DEF Committed, Pending, Given, Waiting, IsCopy, Usable, Mapped,
       Aborting, ObjList, InTxn, Ready
  <2>5. call'.at = "allocate" /\ call'.h = h
    BY <1>4
  <2>6. CallOK'
    BY <1>1, <1>4, <2>1, <2>3, <2>4, <2>5 DEF CallOK, ObjList
  <2>7. OInv'
    BY <1>1, <2>1, <2>3, <2>4, <2>5, <2>6, SameRoots
  <2> QED BY <1>4, <2>7 DEF Next
<1>5. CASE /\ Append(data[objlist], 0) \in Value
           /\ ModifyObjlist
           /\ call' = [at |-> "allocate", h |-> h]
  <2> DEFINE x == FreelistAllocate(flist[freelist], nblocks).block
  <2>1. /\ InTxn /\ blocks[objlist] = 0
        /\ Take(FreelistAllocate(flist[freelist], nblocks), objlist)
        /\ data' = [data EXCEPT ![x] = data[objlist]]
        /\ objlist' = x /\ live' = live
        /\ UNCHANGED <<freelist, txn, pc>>
    BY <1>5 DEF ModifyObjlist, CopyOnWrite, loop
  <2>2. /\ x \in UserBlock /\ blocks[x] = 0 /\ x # objlist
        /\ \A k \in Block : IsCopy(k) => blocks[k] # x
        /\ blocks' = [blocks EXCEPT ![x] = objlist]
        /\ nblocks' \in nblocks .. MaxBlocks
    BY <2>1, TakeEffect
  <2>3. Committed' = Committed
    BY <1>5, ModifyObjlistStep
  <2> HIDE DEF x
  <2>4. OpenFacts /\ TypeOK
    BY <2>1, InTxnFacts DEF IInv
  <2>5. objlist = 3 /\ Usable /\ pc = "ready" /\ freelist = 2
    BY <2>1, <2>4, Numbers DEF OpenFacts, Usable, InTxn
  <2>6. NewEntry(blocks, blocks', x, objlist)
    <3>1. \A k \in Block : blocks[k] # x
      BY <2>2, Numbers DEF IsCopy
    <3>2. OneCopy(blocks)
      BY <2>5, UsableFacts
    <3> QED BY <2>2, <2>4, <2>5, <3>1, <3>2, Numbers DEF NewEntry, TypeOK
  <2>7. /\ OneCopy(blocks')
        /\ \A e \in UserBlock : CopyIn(blocks', e) = CopyIn(blocks, e)
    BY <2>5, <2>6, Numbers, CopyNew
  <2>8. ObjList' = ObjList /\ data'[3] = data[3]
    BY <2>1, <2>2, <2>4, <2>5, Numbers DEF TypeOK, ObjList
  <2>9. Usable' /\ InTxn'
    BY <2>1, <2>2, <2>4, <2>5, Numbers DEF Usable, InTxn, Ready, Mapped, Aborting,
       OpenFacts
  <2>10. call'.at = "allocate" /\ call'.h = h
    BY <1>5
  <2>11. New = {} /\ New' = {}
    BY <1>1, <2>10 DEF New
  <2>12. \A i \in DOMAIN ObjList : CopyIn(blocks', ObjList[i]) = CopyIn(blocks, ObjList[i])
    BY <2>5, <2>7 DEF OInv, Held, Range
  <2>13. Held'
    <3>1. HeldBy(ObjList, blocks') = HeldBy(ObjList, blocks)
      BY <2>12 DEF HeldBy
    <3>2. Apart(ObjList, blocks')
      BY <2>5, <2>12 DEF OInv, Held, Apart
    <3> QED BY <2>1, <2>5, <2>8, <2>11, <3>1, <3>2 DEF OInv, Held
  <2>14. \A g \in Handle : /\ Live(g)' = Live(g)
                           /\ ~Making(g) /\ ~Making(g)'
    BY <1>1, <2>10 DEF Live, Stale, Making
  <2>15. HandlesKnow'
    <3> SUFFICES ASSUME NEW g \in Handle, Live(g)
                 PROVE  /\ handles[g].obj_id < Len(ObjList)
                        /\ handles[g].root
                             = CopyIn(blocks', ObjList[handles[g].obj_id + 1])
      BY <1>1, <2>8, <2>14 DEF HandlesKnow
    <3>1. /\ handles[g].obj_id < Len(ObjList)
          /\ handles[g].root = CopyIn(blocks, ObjList[handles[g].obj_id + 1])
      BY <2>5, <2>14 DEF OInv, HandlesKnow
    <3>2. handles[g].obj_id \in Nat
      BY DEF OInv, HandlesOK, Live
    <3>3. DOMAIN ObjList = 1 .. Len(ObjList) /\ Len(ObjList) \in Nat
      BY <2>4, ObjListIsList
    <3> QED BY <2>12, <3>1, <3>2, <3>3
  <2>16. CopiesKnown'
    BY <1>1, <2>5, <2>8, <2>12, <2>14 DEF OInv, CopiesKnown
  <2>17. CallOK'
    <3>1. objlist' # 3
      BY <2>1, <2>2, Numbers
    <3>2. Append(ObjList', 0) \in Value
      BY <1>5, <2>8 DEF ObjList
    <3>3. handles'[h] = NULL
      BY <1>1
    <3> QED BY <2>9, <2>10, <3>1, <3>2, <3>3 DEF CallOK
  <2>18. HandlesOK' /\ OldHeld' /\ CommitOK'
    BY <1>1, <2>1, <2>3, <2>5, <2>8 DEF OInv, HandlesOK, OneHandlePerObject,
       OldHeld, CommitOK
  <2>19. OInv'
    BY <2>13, <2>15, <2>16, <2>17, <2>18 DEF OInv
  <2> QED BY <1>5, <2>19 DEF Next
<1> QED BY <1>2, <1>3, <1>4, <1>5 DEF CreateStart

\* The calls on an array are records, and so is what they return.
ApiOK ==
  /\ call \in Call
  /\ result.err \in {OK, IO_ERROR, EDB_ERR_TXN_NO_TRANSACTION,
                     ERR_ARRAY_INDEX_OUT_OF_BOUNDS}
  /\ result.out \in Nat

\* A create goes on with the handle it began with.
LEMMA NextPart ==
  ASSUME call \in Call, call.at \in {"allocate", "list"},
         NEW to, call' = [call EXCEPT !.at = to]
  PROVE  call' = [at |-> to, h |-> call.h] /\ call.h \in Handle
<1>1. call \in [at : {"allocate", "list", "init"}, h : Handle]
  BY DEF Call, Idle
<1>2. PICK a \in {"allocate", "list", "init"}, g \in Handle :
        call = [at |-> a, h |-> g]
  BY <1>1
<1> QED BY <1>2

\* The root of the new object, which is not in the list yet.
LEMMA CreateAllocateObjects ==
  ASSUME IInv, OInv, ApiOK, CreateAllocate, OneHandlePerObject'
  PROVE  [Next]_vars /\ OInv'
<1> DEFINE h == call.h
           x == FreelistAllocate(flist[freelist], nblocks).block
           new == [obj_id |-> Len(data[objlist]), txn_id |-> txn_id, root |-> x]
           R == [obj_id : Nat, txn_id : 0 .. TxnIdMax, root : Block]
<1>1. call.at = "allocate" /\ txn_id' = txn_id
  BY DEF CreateAllocate, Creating
<1>2. h \in Handle /\ InTxn /\ objlist # 3 /\ Append(ObjList, 0) \in Value
      /\ handles[h] = NULL
  BY <1>1 DEF OInv, CallOK
<1>3. OpenFacts /\ TypeOK
  BY <1>2, InTxnFacts DEF IInv
<1>4. Usable /\ pc = "ready" /\ freelist = 2
  BY <1>2, <1>3 DEF OpenFacts, Usable, InTxn
<1>5. CASE InTxn /\ ResizeFails /\ Ends(<<"create">>, IO_ERROR) /\ UNCHANGED handles
  <2>1. call'.at = "idle" /\ Committed' = Committed
    BY <1>5, IdleCall, ResizeFailsStep DEF Ends
  <2>2. nblocks' = 0 /\ UNCHANGED <<data, pc>>
    BY <1>5 DEF ResizeFails, disk, loop
  <2>3. HandlesOK'
    BY <1>1, <1>5 DEF OInv, HandlesOK, OneHandlePerObject
  <2>4. OInv'
    BY <1>4, <2>1, <2>2, <2>3, UnmappedStep
  <2> QED BY <1>5, <2>4 DEF Next
<1>6. CASE /\ txn_allocate_block
           /\ handles' = [handles EXCEPT ![h] = new]
           /\ call' = [call EXCEPT !.at = "list"]
  <2>1. /\ Take(FreelistAllocate(flist[freelist], nblocks), ALLOCATED)
        /\ live' = live \cup {x}
        /\ UNCHANGED <<data, freelist, objlist, txn, pc>>
    BY <1>6 DEF txn_allocate_block, loop
  <2>2. /\ x \in UserBlock /\ blocks[x] = 0 /\ x # objlist /\ x \notin live
        /\ \A k \in Block : IsCopy(k) => blocks[k] # x
        /\ blocks' = [blocks EXCEPT ![x] = ALLOCATED]
        /\ nblocks' \in nblocks .. MaxBlocks
    BY <1>2, <2>1, TakeEffect
  <2>3. Committed' = Committed
    BY <1>6, AllocateStep
  <2>4. ObjList' = ObjList /\ data'[3] = data[3]
    BY <2>1 DEF ObjList
  <2>5. DOMAIN ObjList = 1 .. Len(ObjList) /\ Len(ObjList) \in Nat
    BY <1>3, ObjListIsList
  <2>6. new \in R /\ new # NULL
    <3>1. new \in R
      BY <2>2, <2>5, Numbers, TxnIdAssumption DEF OInv, HandlesOK, ObjList
    <3> QED BY <3>1, HandleAssumption
  <2>7. new.obj_id = Len(ObjList) /\ new.txn_id = txn_id /\ new.root = x
    BY DEF ObjList
  <2> HIDE DEF x, new, R
  <2>8. NewEntry(blocks, blocks', x, ALLOCATED)
    <3>1. \A k \in Block : blocks[k] # x
      BY <2>2, Numbers DEF IsCopy
    <3>2. OneCopy(blocks)
      BY <1>4, UsableFacts
    <3> QED BY <1>3, <2>2, <3>1, <3>2, Numbers DEF NewEntry, TypeOK
  <2>9. \A e \in UserBlock : CopyIn(blocks', e) = CopyIn(blocks, e)
    BY <2>8, Numbers, CopyNew
  <2>10. Usable' /\ InTxn'
    BY <1>2, <1>4, <2>1, <2>2, <1>3, Numbers DEF Usable, InTxn, Ready, Mapped,
       Aborting, OpenFacts
  <2>11. call' = [at |-> "list", h |-> h]
    BY <1>1, <1>6, NextPart DEF ApiOK
  <2>12. call'.at = "list" /\ call'.h = h
    BY <2>11
  <2>13. /\ handles \in [Handle -> {NULL} \cup R]
         /\ \A g \in Handle : handles'[g] = IF g = h THEN new ELSE handles[g]
    BY <1>2, <1>6 DEF OInv, HandlesOK, R
  <2>14. Target' = x
    BY <1>2, <2>7, <2>12, <2>13 DEF Target
  <2>15. New = {} /\ New' = {x}
    BY <1>1, <2>12, <2>14 DEF New
  <2>16. \A i \in DOMAIN ObjList :
           CopyIn(blocks', ObjList[i]) = CopyIn(blocks, ObjList[i])
    BY <1>4, <2>9 DEF OInv, Held, Range
  <2>17. HeldBy(ObjList, blocks') = HeldBy(ObjList, blocks)
    BY <2>16 DEF HeldBy
  <2>18. Held'
    <3>1. Apart(ObjList, blocks')
      BY <1>4, <2>16 DEF OInv, Held, Apart
    <3> QED BY <1>4, <2>1, <2>4, <2>15, <2>17, <3>1 DEF OInv, Held
  <2>19. handles' \in [Handle -> {NULL} \cup R]
    BY <1>2, <1>6, <2>6, <2>13
  <2>20. HandlesOK'
    <3>1. txn_id \in 0 .. TxnIdMax - 1
      BY DEF OInv, HandlesOK
    <3>2. \A g \in Handle : handles'[g] # NULL =>
            handles'[g].txn_id <= txn_id \/ handles'[g].txn_id = TxnIdMax
      BY <2>7, <2>13, <3>1 DEF OInv, HandlesOK
    <3> QED BY <1>1, <2>19, <3>1, <3>2 DEF HandlesOK, R
  <2>21. \A g \in Handle : g # h =>
           /\ Live(g)' = Live(g) /\ handles'[g] = handles[g]
           /\ ~Making(g) /\ ~Making(g)'
    BY <1>1, <2>12, <2>13 DEF Live, Stale, Making
  <2>22. Making(h)' /\ Live(h)' /\ ~Live(h)
    BY <1>1, <1>2, <2>6, <2>7, <2>12, <2>13 DEF Live, Stale, Making
  <2>23. HandlesKnow'
    <3> SUFFICES ASSUME NEW g \in Handle, Live(g)', ~Making(g)'
                 PROVE  /\ handles'[g].obj_id < Len(ObjList)
                        /\ handles'[g].root
                             = CopyIn(blocks', ObjList[handles'[g].obj_id + 1])
      BY <2>4 DEF HandlesKnow
    <3>1. g # h
      BY <2>12 DEF Making
    <3>2. Live(g) /\ handles'[g] = handles[g]
      BY <2>21, <3>1
    <3>3. /\ handles[g].obj_id < Len(ObjList)
          /\ handles[g].root = CopyIn(blocks, ObjList[handles[g].obj_id + 1])
      BY <1>4, <2>21, <3>1, <3>2 DEF OInv, HandlesKnow
    <3>4. handles[g].obj_id \in Nat
      BY <3>2 DEF OInv, HandlesOK, Live
    <3> QED BY <2>5, <2>16, <3>2, <3>3, <3>4
  <2>24. CopiesKnown'
    <3> SUFFICES ASSUME NEW i \in DOMAIN ObjList,
                        CopyIn(blocks, ObjList[i]) # ObjList[i]
                 PROVE  \E g \in Handle : /\ Live(g)' /\ ~Making(g)'
                                          /\ handles'[g].obj_id = i - 1
      BY <2>4, <2>16 DEF CopiesKnown
    <3>1. PICK g \in Handle : Live(g) /\ handles[g].obj_id = i - 1
      BY <1>4 DEF OInv, CopiesKnown
    <3> QED BY <2>21, <2>22, <3>1
  <2>25. CallOK'
    <3>1. handles'[h].obj_id = Len(ObjList)
      BY <1>2, <2>7, <2>13
    <3>2. x \notin HeldBy(ObjList, blocks')
      BY <1>4, <2>2, <2>17 DEF OInv, Held
    <3>3. x \in live' /\ blocks'[x] = ALLOCATED
      BY <1>3, <2>1, <2>2, Numbers DEF TypeOK
    <3> QED BY <1>2, <2>1, <2>4, <2>10, <2>12, <2>14, <2>22, <3>1, <3>2, <3>3
            DEF CallOK
  <2>26. OldHeld' /\ CommitOK'
    BY <1>4, <2>1, <2>3, <2>4 DEF OInv, OldHeld, CommitOK
  <2>27. OInv'
    BY <2>18, <2>20, <2>23, <2>24, <2>25, <2>26 DEF OInv
  <2> QED BY <1>6, <2>27 DEF Next
<1> QED BY <1>5, <1>6 DEF CreateAllocate

\* It is added to the list.
LEMMA CreateListObjects ==
  ASSUME IInv, OInv, ApiOK, CreateList
  PROVE  [Next]_vars /\ OInv'
<1> DEFINE h == call.h
           t == Target
           n == Len(ObjList)
<1>1. /\ call.at = "list" /\ UNCHANGED <<txn_id, handles>>
      /\ Put(objlist, Append(ObjList, t)) /\ call' = [call EXCEPT !.at = "init"]
  BY DEF CreateList, Creating, ObjList
<1>2. /\ h \in Handle /\ InTxn /\ objlist # 3 /\ Append(ObjList, 0) \in Value
      /\ Live(h) /\ handles[h].obj_id = n
      /\ t \notin HeldBy(ObjList, blocks)
      /\ t \in live /\ blocks[t] = ALLOCATED
  BY <1>1 DEF OInv, CallOK
<1>3. /\ t \in Block /\ t # objlist /\ Usable /\ pc = "ready" /\ TypeOK
  BY <1>2, WritableFacts
<1>4. OpenFacts /\ OneCopy(blocks) /\ t \in UserBlock
  BY <1>2, <1>3, InTxnFacts, UsableFacts DEF TypeOK
<1>5. handles[h].root = t
  BY DEF Target
<1>6. call' = [at |-> "init", h |-> h]
  BY <1>1, NextPart DEF ApiOK
<1>7. /\ objlist \in Block /\ ObjList \in Seq(Nat) /\ DOMAIN ObjList = 1 .. n
      /\ n \in Nat /\ 3 \in Block /\ ObjList \in Value
  BY <1>3, ObjListIsList
<1> HIDE DEF t, h, n
<1>8. call'.at = "init" /\ call'.h = h
  BY <1>6
<1>9. Append(ObjList, t) \in Value
  BY <1>2, <1>3, <1>7, ArrayAssumption
<1>10. Write(objlist, Append(ObjList, t))
  <2>1. blocks[objlist] # 0 /\ blocks[objlist] # FREED
    BY <1>2, <1>4, Numbers DEF OpenFacts
  <2> QED BY <1>1, <1>2, <2>1 DEF Put, Write
<1>11. [Next]_vars
  BY <1>2, <1>9, <1>10, Numbers DEF Next
<1>12. /\ data' = [data EXCEPT ![objlist] = Append(ObjList, t)]
       /\ UNCHANGED <<nblocks, freelist, objlist, txn, blocks, pc, todo, live>>
  BY <1>1 DEF Put, io, state, loop
<1>13. ObjList' = Append(ObjList, t) /\ data'[3] = data[3]
  BY <1>2, <1>3, <1>7, <1>12 DEF TypeOK, ObjList
<1>14. /\ DOMAIN ObjList' = 1 .. n + 1 /\ Len(ObjList') = n + 1
       /\ \A i \in 1 .. n : ObjList'[i] = ObjList[i]
       /\ ObjList'[n + 1] = t
  <2>1. t \in Nat
    BY <1>3, Numbers
  <2> QED BY <1>7, <1>13, <2>1 DEF n
<1>15. CopyIn(blocks, t) = t
  <2>1. \A k \in Block : blocks[k] # t
    BY <1>2, <1>4, Numbers DEF OneCopy
  <2> QED BY <2>1, CopyNone
<1>16. Committed' = Committed /\ Usable' /\ InTxn'
  BY <1>2, <1>3, <1>12 DEF Committed, Pending, Given, Waiting, IsCopy, Usable,
     Mapped, Aborting, InTxn, Ready
<1>17. New = {t} /\ New' = {}
  BY <1>1, <1>8 DEF New, t
<1>18. /\ \A i \in 1 .. n : ObjList[i] \in UserBlock
       /\ live = HeldBy(ObjList, blocks) \cup {t}
       /\ Apart(ObjList, blocks)
  BY <1>3, <1>7, <1>17 DEF OInv, Held, Range
<1>19. Held'
  <2>1. Range(ObjList') \subseteq UserBlock
    BY <1>4, <1>7, <1>14, <1>18 DEF Range
  <2>2. HeldBy(ObjList', blocks) = HeldBy(ObjList, blocks) \cup {t}
    BY <1>7, <1>14, <1>15 DEF HeldBy
  <2>3. \A i \in 1 .. n : CopyIn(blocks, ObjList[i]) # t
    BY <1>2, <1>7 DEF HeldBy
  <2>4. Apart(ObjList', blocks)
    BY <1>7, <1>14, <1>15, <1>18, <2>3 DEF Apart
  <2> QED BY <1>12, <1>17, <1>18, <2>1, <2>2, <2>4 DEF Held
<1>20. \A g \in Handle : /\ Live(g)' = Live(g) /\ ~Making(g)'
                         /\ g # h => ~Making(g)
  BY <1>1, <1>8 DEF Live, Stale, Making, h
<1>21. HandlesKnow'
  <2> SUFFICES ASSUME NEW g \in Handle, Live(g)
               PROVE  /\ handles[g].obj_id < Len(ObjList')
                      /\ handles[g].root
                           = CopyIn(blocks, ObjList'[handles[g].obj_id + 1])
    BY <1>1, <1>12, <1>20 DEF HandlesKnow
  <2>1. CASE g = h
    BY <1>2, <1>5, <1>7, <1>14, <1>15, <2>1
  <2>2. CASE g # h
    <3>1. /\ handles[g].obj_id < n
          /\ handles[g].root = CopyIn(blocks, ObjList[handles[g].obj_id + 1])
      BY <1>3, <1>20, <2>2 DEF OInv, HandlesKnow, n
    <3>2. handles[g].obj_id \in Nat
      BY DEF OInv, HandlesOK, Live
    <3> QED BY <1>7, <1>14, <3>1, <3>2
  <2> QED BY <2>1, <2>2
<1>22. CopiesKnown'
  <2> SUFFICES ASSUME NEW i \in 1 .. n + 1, CopyIn(blocks, ObjList'[i]) # ObjList'[i]
               PROVE  \E g \in Handle : Live(g) /\ handles[g].obj_id = i - 1
    BY <1>1, <1>12, <1>14, <1>20 DEF CopiesKnown
  <2>1. i \in 1 .. n
    BY <1>7, <1>14, <1>15
  <2>2. CopyIn(blocks, ObjList[i]) # ObjList[i]
    BY <1>14, <2>1
  <2> QED BY <1>3, <1>7, <2>1, <2>2 DEF OInv, CopiesKnown
<1>23. CallOK'
  <2>1. Target' = t
    BY <1>1, <1>5, <1>8 DEF Target
  <2>2. handles'[h] # NULL /\ handles'[h].txn_id = txn_id'
    BY <1>1, <1>2 DEF Live, Stale
  <2>3. handles'[h].obj_id + 1 = Len(ObjList')
    BY <1>1, <1>2, <1>7, <1>14
  <2> QED BY <1>2, <1>8, <1>12, <1>16, <2>1, <2>2, <2>3 DEF CallOK, Live, Stale
<1>24. HandlesOK' /\ OldHeld' /\ CommitOK'
  BY <1>1, <1>3, <1>12, <1>13, <1>16 DEF OInv, HandlesOK, OneHandlePerObject,
     OldHeld, CommitOK
<1> QED BY <1>11, <1>19, <1>21, <1>22, <1>23, <1>24 DEF OInv

\* array_init empties it.
LEMMA CreateInitObjects ==
  ASSUME IInv, OInv, CreateInit
  PROVE  [Next]_vars /\ OInv'
<1>1. /\ call.at = "init" /\ call' = Idle /\ UNCHANGED <<txn_id, handles>>
      /\ Put(Target, <<>>)
  BY DEF CreateInit, Creating, Ends
<1>2. InTxn /\ Target \in live /\ blocks[Target] = ALLOCATED
  BY <1>1 DEF OInv, CallOK
<1>3. <<>> \in Value
  BY ValueAssumption, ArrayAssumption
<1>4. blocks[Target] # 0
  BY <1>2, Numbers
<1> HIDE DEF Target
<1> QED BY <1>1, <1>2, <1>3, <1>4, PutStep

-----------------------------------------------------------------------------
(***************************************************************************)
(* What the calls return.                                                  *)
(***************************************************************************)

Errors == {OK, IO_ERROR, EDB_ERR_TXN_NO_TRANSACTION,
           ERR_ARRAY_INDEX_OUT_OF_BOUNDS}

Answered == result'.err \in Errors /\ result'.out \in Nat

\* An answer is of the right type,
LEMMA AnswerIs ==
  ASSUME NEW c, NEW e \in Errors, NEW o \in Nat, Answer(c, e, o)
  PROVE  Answered
BY DEF Answer, Answered

\* so is the one of a call that ends,
LEMMA EndsIs ==
  ASSUME NEW c, NEW e \in Errors, Ends(c, e)
  PROVE  Answered /\ call' \in Call
<1>1. Answered
  BY AnswerIs DEF Ends
<1> QED BY <1>1 DEF Ends, Call

\* and what array_get reads.
LEMMA ReadIs ==
  ASSUME NEW c, NEW a \in Value, NEW i \in Nat, Read(c, a, i)
  PROVE  Answered
<1>1. a \in Seq(Nat) /\ OK \in Errors /\ ERR_ARRAY_INDEX_OUT_OF_BOUNDS \in Errors
  BY ArrayAssumption DEF Errors
<1>2. i < Len(a) => a[i + 1] \in Nat
  BY <1>1
<1> QED BY <1>1, <1>2, AnswerIs DEF Read

\* What the reading calls return.
LEMMA ArrayAnswers ==
  ASSUME IInv, OInv, ApiOK, NEW h \in Handle,
         edb_array_length(h) \/ \E i \in Index : edb_array_get(h, i)
  PROVE  ApiOK'
<1>1. Uses(h) /\ call' = call
  BY DEF edb_array_length, edb_array_get, NotListed
<1>2. TypeOK /\ (Resolves(h) => Root(h) \in Block)
  BY <1>1, UseFacts, RootFacts
<1>3. OK \in Errors /\ ERR_ARRAY_INDEX_OUT_OF_BOUNDS \in Errors
  BY DEF Errors
<1> HIDE DEF Root
<1>4. CASE NotListed(h, <<"length">>) \/ \E i \in Index : NotListed(h, <<"get", i>>)
  BY <1>1, <1>3, <1>4, AnswerIs DEF NotListed, ApiOK, Answered, Errors
<1>5. CASE Resolves(h) /\ Answer(<<"length">>, OK, Len(data[Root(h)]))
  <2>1. Len(data[Root(h)]) \in Nat
    BY <1>2, <1>5, Lists
  <2> QED BY <1>1, <1>3, <1>5, <2>1, AnswerIs DEF ApiOK, Answered, Errors
<1>6. ASSUME NEW i \in Index, Resolves(h), Read(<<"get", i>>, data[Root(h)], i)
      PROVE  ApiOK'
  <2>1. data[Root(h)] \in Value /\ i \in Nat
    BY <1>2, <1>6, Lists, ArrayAssumption
  <2>2. Answered
    BY <1>6, <2>1, ReadIs
  <2> QED BY <1>1, <2>2 DEF ApiOK, Answered, Errors
<1> QED BY <1>4, <1>5, <1>6 DEF edb_array_length, edb_array_get

\* What obj_write returns, or goes on to.
LEMMA WriteAnswers ==
  ASSUME ApiOK, NEW h \in Handle, NEW c, obj_write(h, c),
         [at |-> "apply", h |-> h, c |-> c] \in Call
  PROVE  ApiOK'
<1>1. /\ IO_ERROR \in Errors /\ EDB_ERR_TXN_NO_TRANSACTION \in Errors
      /\ ERR_ARRAY_INDEX_OUT_OF_BOUNDS \in Errors /\ 0 \in Nat
  BY DEF Errors
<1>2. CASE NotListed(h, c)
  BY <1>1, <1>2, AnswerIs DEF NotListed, ApiOK, Answered, Errors
<1>3. CASE Ends(c, EDB_ERR_TXN_NO_TRANSACTION) \/ Ends(c, IO_ERROR)
  BY <1>1, <1>3, EndsIs DEF ApiOK, Answered, Errors
<1>4. CASE call' = [at |-> "apply", h |-> h, c |-> c] /\ UNCHANGED result
  BY <1>4 DEF ApiOK
<1> QED BY <1>2, <1>3, <1>4 DEF obj_write

\* The calls that can be in progress after it.
LEMMA ApplyCalls ==
  ASSUME NEW h \in Handle, NEW x \in Item, NEW i \in Index
  PROVE  /\ [at |-> "apply", h |-> h, c |-> <<"pop">>] \in Call
         /\ [at |-> "apply", h |-> h, c |-> <<"push", x>>] \in Call
         /\ [at |-> "apply", h |-> h, c |-> <<"set", i, x>>] \in Call
BY DEF Call

\* What the changing calls return.
LEMMA ApplyAnswers ==
  ASSUME IInv, OInv, ApiOK, ApplyPush \/ ApplyPop \/ ApplySet
  PROVE  ApiOK'
<1>1. call.at = "apply"
  BY DEF ApplyPush, ApplyPop, ApplySet, Applying
<1>2. InTxn /\ Target \in live
  BY <1>1 DEF OInv, CallOK
<1>3. Target \in Block /\ TypeOK
  BY <1>2, WritableFacts
<1>4. /\ data[Target] \in Value /\ data[Target] \in Seq(Nat) /\ Idle \in Call
      /\ OK \in Errors /\ ERR_ARRAY_INDEX_OUT_OF_BOUNDS \in Errors
  BY <1>3, Lists DEF Call, Errors
<1> HIDE DEF Target
<1>5. CASE ApplyPush
  BY <1>4, <1>5, EndsIs DEF ApplyPush, ApiOK, Answered, Errors
<1>6. CASE ApplyPop
  <2>1. data[Target] # <<>> => Last(data[Target]) \in Nat
    <3> SUFFICES ASSUME data[Target] # <<>> PROVE Last(data[Target]) \in Nat
      OBVIOUS
    <3>1. Last(data[Target]) \in Range(data[Target])
      BY <1>4, FrontLast
    <3> QED BY <1>4, <3>1 DEF Range
  <2>2. Answered
    BY <1>4, <1>6, <2>1, AnswerIs DEF ApplyPop
  <2> QED BY <1>4, <1>6, <2>2 DEF ApplyPop, ApiOK, Answered, Errors
<1>7. CASE ApplySet
  <2>1. call.c[2] \in Nat
    <3>1. call.c[1] = "set"
      BY <1>7 DEF ApplySet, Applying
    <3>2. call.c \in {<<"push", x>> : x \in Item} \cup {<<"pop">>}
                \cup {<<"set", i, x>> : i \in Index, x \in Item}
      BY <1>1 DEF ApiOK, Call, Idle
    <3>3. PICK i \in Index, x \in Item : call.c = <<"set", i, x>>
      BY <3>1, <3>2
    <3> QED BY <3>3, ArrayAssumption
  <2>2. Answered
    BY <1>4, <1>7, <2>1, ReadIs DEF ApplySet
  <2> QED BY <1>4, <1>7, <2>2 DEF ApplySet, ApiOK, Answered, Errors
<1> QED BY <1>5, <1>6, <1>7

\* What edb_array_create returns, or goes on to.
LEMMA CreateAnswers ==
  ASSUME ApiOK,
         \/ \E h \in Handle : CreateStart(h)
         \/ CreateAllocate \/ CreateList \/ CreateInit
  PROVE  ApiOK'
<1>1. /\ IO_ERROR \in Errors /\ EDB_ERR_TXN_NO_TRANSACTION \in Errors
      /\ OK \in Errors
  BY DEF Errors
<1>2. CASE \E e \in {OK, IO_ERROR, EDB_ERR_TXN_NO_TRANSACTION} :
             Ends(<<"create">>, e)
  BY <1>1, <1>2, EndsIs DEF ApiOK, Answered, Errors
<1>3. ASSUME NEW h \in Handle, call' = [at |-> "allocate", h |-> h],
             UNCHANGED result
      PROVE  ApiOK'
  BY <1>3 DEF ApiOK, Call
<1>4. ASSUME NEW to \in {"list", "init"}, call.at \in {"allocate", "list"},
             call' = [call EXCEPT !.at = to], UNCHANGED result
      PROVE  ApiOK'
  <2>1. call' = [at |-> to, h |-> call.h] /\ call.h \in Handle
    BY <1>4, NextPart DEF ApiOK
  <2>2. call' \in [at : {"allocate", "list", "init"}, h : Handle]
    BY <1>4, <2>1
  <2>3. call' \in Call
    BY <2>2 DEF Call
  <2> QED BY <1>4, <2>3 DEF ApiOK
<1>5. CASE \E h \in Handle : CreateStart(h)
  BY <1>2, <1>3, <1>5 DEF CreateStart
<1>6. CASE CreateAllocate
  BY <1>2, <1>4, <1>6 DEF CreateAllocate, Creating
<1>7. CASE CreateList
  BY <1>4, <1>7 DEF CreateList, Creating
<1>8. CASE CreateInit
  BY <1>2, <1>8 DEF CreateInit
<1> QED BY <1>5, <1>6, <1>7, <1>8

-----------------------------------------------------------------------------
(***************************************************************************)
(* The theorems.                                                           *)
(***************************************************************************)

ObjectsInv == IInv /\ OInv /\ ApiOK

\* A new database.
LEMMA ObjectsStart == ObjectsInit => ObjectsInv
<1> SUFFICES ASSUME ObjectsInit PROVE ObjectsInv
  OBVIOUS
<1>1. /\ Init /\ txn_id = 0 /\ handles = [h \in Handle |-> NULL]
      /\ call = Idle /\ result = [call |-> <<>>, err |-> OK, out |-> 0]
  BY DEF ObjectsInit
<1>2. IInv
  BY <1>1, InitIInv
<1>3. /\ data[3] = <<>> /\ objlist = 3 /\ live = {} /\ txn = FALSE
      /\ pc = "ready" /\ blocks = Unset
  BY <1>1, ArrayAssumption, Numbers DEF Init
<1>4. ApiOK
  BY <1>1 DEF ApiOK, Call
<1>5. call.at = "idle"
  BY <1>1 DEF Idle
<1>6. HandlesOK /\ \A h \in Handle : handles[h] = NULL
  BY <1>1, TxnIdAssumption DEF HandlesOK, OneHandlePerObject
<1>7. DOMAIN data[3] = {}
  BY <1>3
<1>8. OldHeld
  BY <1>3, <1>7 DEF OldHeld, Committed, Range, IsInjective
<1>9. Held /\ HandlesKnow /\ CopiesKnown
  BY <1>3, <1>5, <1>6, <1>7 DEF Held, HeldBy, Apart, New, ObjList, Range,
     HandlesKnow, CopiesKnown, Live
<1>10. CallOK /\ CommitOK
  BY <1>3, <1>5 DEF CallOK, CommitOK
<1> QED BY <1>2, <1>4, <1>6, <1>8, <1>9, <1>10 DEF ObjectsInv, OInv

\* Each step of a careful caller is one of the block API's caller.
LEMMA ObjectsStep ==
  ASSUME ObjectsInv, ObjectsNext, Careful, FewTransactions
  PROVE  [Next]_vars /\ OInv' /\ ApiOK'
<1>1. /\ IInv /\ OInv /\ ApiOK
      /\ OneHandlePerObject' /\ KeepsChanged
      /\ (pc = "ready" /\ pc' = "commit") => NoOldObjectChanged
  BY DEF ObjectsInv, Careful
<1>2. CASE TxnRefused
  BY <1>1, <1>2, RefusedStep DEF TxnRefused, api, ApiOK
<1>3. CASE edb_txn_begin
  BY <1>1, <1>3, BeginObjects DEF edb_txn_begin, ApiOK
<1>4. CASE edb_txn_commit
  <2>1. UNCHANGED <<call, result>>
    BY <1>4 DEF edb_txn_commit, CommitStep, CommitReturns, api
  <2> QED BY <1>1, <1>4, <2>1, CommitObjects DEF ApiOK
<1>5. CASE edb_txn_abort
  BY <1>1, <1>5, AbortObjects DEF edb_txn_abort, ApiOK
<1>6. ASSUME NEW h \in Handle, CreateStart(h)
      PROVE  [Next]_vars /\ OInv' /\ ApiOK'
  BY <1>1, <1>6, CreateStartObjects, CreateAnswers
<1>7. ASSUME NEW h \in Handle, Forget(h)
      PROVE  [Next]_vars /\ OInv' /\ ApiOK'
  BY <1>1, <1>7, ForgetObjects DEF Forget, ApiOK
<1>8. ASSUME NEW h \in Handle, NEW id \in ObjId, edb_array_open(h, id)
      PROVE  [Next]_vars /\ OInv' /\ ApiOK'
  BY <1>1, <1>8, OpenObjects DEF edb_array_open, ApiOK
<1>9. ASSUME NEW h \in Handle,
             edb_array_length(h) \/ \E i \in Index : edb_array_get(h, i)
      PROVE  [Next]_vars /\ OInv' /\ ApiOK'
  BY <1>1, <1>9, ReadObjects, ArrayAnswers
<1>10. ASSUME NEW h \in Handle,
              \/ edb_array_pop(h)
              \/ \E x \in Item : edb_array_push(h, x)
              \/ \E i \in Index : \E x \in Item : edb_array_set(h, i, x)
       PROVE  [Next]_vars /\ OInv' /\ ApiOK'
  <2>1. [Next]_vars /\ OInv'
    BY <1>1, <1>10, WriteObjects
  <2>2. CASE edb_array_pop(h)
    <3>1. [at |-> "apply", h |-> h, c |-> <<"pop">>] \in Call
      BY DEF Call
    <3> QED BY <1>1, <2>1, <2>2, <3>1, WriteAnswers DEF edb_array_pop
  <2>3. ASSUME NEW x \in Item, edb_array_push(h, x)
        PROVE  ApiOK'
    <3>1. [at |-> "apply", h |-> h, c |-> <<"push", x>>] \in Call
      BY DEF Call
    <3> QED BY <1>1, <2>3, <3>1, WriteAnswers DEF edb_array_push
  <2>4. ASSUME NEW i \in Index, NEW x \in Item, edb_array_set(h, i, x)
        PROVE  ApiOK'
    BY <1>1, <2>4, ApplyCalls, WriteAnswers DEF edb_array_set
  <2> QED BY <1>10, <2>1, <2>2, <2>3, <2>4
<1>11. CASE CreateAllocate \/ CreateList \/ CreateInit
  BY <1>1, <1>11, CreateAllocateObjects, CreateListObjects, CreateInitObjects,
     CreateAnswers
<1>12. CASE ApplyPush \/ ApplyPop \/ ApplySet
  BY <1>1, <1>12, ApplyObjects, ApplyAnswers
<1> QED BY <1>2, <1>3, <1>4, <1>5, <1>6, <1>7, <1>8, <1>9, <1>10, <1>11, <1>12
        DEF ObjectsNext

\* A step that changes nothing.
LEMMA ObjectsStutter ==
  ASSUME ObjectsInv, UNCHANGED objectVars
  PROVE  [Next]_vars /\ OInv' /\ ApiOK'
<1>1. /\ UNCHANGED vars /\ UNCHANGED <<txn_id, handles, call, result>>
      /\ UNCHANGED <<nblocks, freelist, objlist, txn, blocks, pc, todo, live, data>>
  BY DEF objectVars, api, vars, io, disk, state, loop
<1>2. /\ Committed' = Committed /\ Usable' = Usable /\ ObjList' = ObjList
      /\ Target' = Target /\ (InTxn => InTxn')
  BY <1>1 DEF Committed, Pending, Given, Waiting, IsCopy, Usable, Mapped,
     Aborting, ObjList, Target, InTxn, Ready
<1>3. /\ New' = New
      /\ \A h \in Handle : Live(h)' = Live(h) /\ Making(h)' = Making(h)
  BY <1>1, <1>2 DEF New, Live, Stale, Making
<1>4. HandlesOK' /\ OldHeld' /\ Held' /\ HandlesKnow' /\ CopiesKnown' /\ CommitOK'
  BY <1>1, <1>2, <1>3 DEF ObjectsInv, OInv, HandlesOK, OneHandlePerObject,
     OldHeld, Held, HandlesKnow, CopiesKnown, CommitOK
<1>5. CallOK'
  <2>1. call.at \in {"list", "init", "apply"} => Live(call.h)'
    <3>1. call.at \in {"list", "init", "apply"} => Live(call.h)
      BY DEF ObjectsInv, OInv, CallOK
    <3> QED BY <1>1, <3>1 DEF Live, Stale
  <2> QED BY <1>1, <1>2, <2>1 DEF ObjectsInv, OInv, CallOK
<1> QED BY <1>1, <1>4, <1>5 DEF ObjectsInv, OInv, ApiOK

\* Every step of a careful caller of the array API is one of the block API.
LEMMA CarefulStep ==
  ObjectsInv /\ [ObjectsNext /\ Careful /\ FewTransactions]_objectVars
    => ObjectsInv' /\ [Next]_vars
<1> SUFFICES ASSUME ObjectsInv,
                    [ObjectsNext /\ Careful /\ FewTransactions]_objectVars
             PROVE  ObjectsInv' /\ [Next]_vars
  OBVIOUS
<1>1. [Next]_vars /\ OInv' /\ ApiOK'
  BY ObjectsStep, ObjectsStutter
<1>2. IInv'
  BY <1>1, NextIInv DEF ObjectsInv
<1> QED BY <1>1, <1>2 DEF ObjectsInv

\* For a careful caller, what ties handles, object list and record together
\* holds at every step.
THEOREM ObjectsInvariance == CarefulFewSpec => []ObjectsInv
<1>1. ObjectsInit => ObjectsInv
  BY ObjectsStart
<1>2. ObjectsInv /\ [ObjectsNext /\ Careful /\ FewTransactions]_objectVars
        => ObjectsInv'
  BY CarefulStep
<1> QED BY <1>1, <1>2, PTL DEF CarefulFewSpec

\* The variables of the API stay within what edb.c and array.c allow.
THEOREM ObjectsTypeCorrect == CarefulFewSpec => []ObjectsTypeOK
<1>1. ObjectsInv => ObjectsTypeOK
  <2> SUFFICES ASSUME ObjectsInv PROVE ObjectsTypeOK
    OBVIOUS
  <2>1. TypeOK /\ HandlesOK /\ ApiOK
    BY DEF ObjectsInv, IInv, OInv
  <2>2. txn_id \in 0 .. TxnIdMax
    BY <2>1, TxnIdAssumption DEF HandlesOK
  <2> QED BY <2>1, <2>2 DEF ObjectsTypeOK, HandlesOK, ApiOK
<1> QED BY <1>1, ObjectsInvariance, PTL

\* Every step the array API makes is one that Txn.tla's caller may make.
THEOREM ObjectsUseTxn == CarefulFewSpec => UsesTxn
<1>1. ObjectsInv /\ [ObjectsNext /\ Careful /\ FewTransactions]_objectVars
        => [Next]_vars
  BY CarefulStep
<1>2. ObjectsInit => Init
  BY DEF ObjectsInit
<1> QED BY <1>1, <1>2, ObjectsInvariance, PTL DEF CarefulFewSpec, UsesTxn, Spec

\* No array is lost and no two share a block.
THEOREM RootsAlwaysHeld == CarefulFewSpec => []RootsAreHeld
<1>1. ObjectsInv => RootsAreHeld
  BY OInvRoots DEF ObjectsInv
<1> QED BY <1>1, ObjectsInvariance, PTL

\* Nor is any block of the file.
THEOREM ObjectsLoseNoBlock == CarefulFewSpec => []BlocksPartitioned
BY ObjectsUseTxn, NoBlockLostOrShared, PTL DEF UsesTxn

\* A careful caller's commit keeps what the arrays held.
THEOREM CarefulCommitKeeps == CarefulFewSpec => CommitKeepsArrays
<1>1. ObjectsInv /\ CommitReturns =>
        \A i \in DOMAIN data[objlist] :
          data'[data'[objlist'][i]] = data[Copy(data[objlist][i])]
  <2> SUFFICES ASSUME ObjectsInv, CommitReturns, NEW i \in DOMAIN data[objlist]
               PROVE  data'[data'[objlist'][i]] = data[Copy(data[objlist][i])]
    OBVIOUS
  <2>1. /\ objlist = 3 /\ objlist' = 3 /\ data' = data
        /\ \A e \in UserBlock : CopyIn(blocks, e) = e
        /\ \A j \in DOMAIN data[3] : data[3][j] \in UserBlock
    BY CommitEndFacts DEF ObjectsInv
  <2>2. \A e \in UserBlock : Copy(e) = e
    BY <2>1 DEF Copy, CopyIn
  <2> QED BY <2>1, <2>2
<1> QED BY <1>1, ObjectsInvariance, PTL DEF CommitKeepsArrays

-----------------------------------------------------------------------------
(***************************************************************************)
(* The array API of a careful caller implements the store of arrays        *)
(* (ObjectStore.tla): ImplementsObjectStore, for every set of handles,     *)
(* items and blocks.  The abstraction of Objects.tla reads the arrays      *)
(* through Latest, which depends on the phase; while the blocks can be     *)
(* reached, the invariant lets it be read as Shown, which does not.        *)
(***************************************************************************)

-----------------------------------------------------------------------------
(***************************************************************************)
(* The arrays a list of roots stands for.                                  *)
(***************************************************************************)

Shown(list, bl, d) == [i \in DOMAIN list |-> d[CopyIn(bl, list[i])]]
Plain(list, d) == [i \in DOMAIN list |-> d[list[i]]]

\* The objects whose array is ready.
Finished == RootsIn(ObjList)

WorkingShown == Usable => Working = Shown(Finished, blocks, data)

\* While the file is mapped, the working arrays are read through the record.
LEMMA WorkingIs == ObjectsInv => WorkingShown
<1> SUFFICES ASSUME ObjectsInv, Usable
             PROVE  Working = Shown(Finished, blocks, data)
  BY DEF WorkingShown
<1>1. /\ IInv /\ OInv /\ CommitOK /\ TypeOK /\ Range(ObjList) \subseteq UserBlock
  BY DEF ObjectsInv, OInv, Held, IInv
<1>2. ObjList \in Seq(Nat) /\ DOMAIN ObjList = 1 .. Len(ObjList) /\ Len(ObjList) \in Nat
  BY <1>1, ObjListIsList
<1>3. \A i \in DOMAIN Finished : Finished[i] \in UserBlock
  <2>1. CASE call.at = "init"
    <3>1. Finished = Front(ObjList) /\ ObjList # <<>>
      <4>1. Finished = Front(ObjList)
        BY <2>1 DEF Finished, RootsIn
      <4>2. call.h \in Handle /\ handles[call.h].obj_id \in Nat
            /\ handles[call.h].obj_id + 1 = Len(ObjList)
        BY <1>1, <2>1 DEF OInv, CallOK, HandlesOK, Live
      <4> QED BY <1>2, <4>1, <4>2
    <3>2. DOMAIN Finished = 1 .. Len(ObjList) - 1
          /\ \A i \in 1 .. Len(ObjList) - 1 : Finished[i] = ObjList[i]
      BY <1>2, <3>1 DEF Front
    <3> QED BY <1>1, <1>2, <3>2 DEF Range
  <2>2. CASE call.at # "init"
    BY <1>1, <2>2 DEF Finished, RootsIn, Range
  <2> QED BY <2>1, <2>2
<1>4. \A i \in DOMAIN Finished : Latest(Finished[i]) = CopyIn(blocks, Finished[i])
  BY <1>1, <1>3, LatestIsCopy
<1>5. Working = [i \in DOMAIN Finished |-> data[Latest(Finished[i])]]
  BY DEF Working, Finished, ObjList
<1> QED BY <1>4, <1>5 DEF Shown

\* The same after a step.
LEMMA WorkingIsNext == ObjectsInv' => WorkingShown'
<1>1. ObjectsInv => WorkingShown
  BY WorkingIs
<1> QED BY <1>1, PTL

\* What the working arrays are between two steps.
LEMMA Unfinished ==
  ASSUME call.at # "init"
  PROVE  Finished = ObjList
BY DEF Finished, RootsIn

-----------------------------------------------------------------------------
(***************************************************************************)
(* What a step leaves alone.                                               *)
(***************************************************************************)

\* Between calls the phase depends on the transaction and the roots only.
LEMMA ReadyPhase ==
  ASSUME pc = "ready", pc' = "ready", UNCHANGED <<txn, freelist>>
  PROVE  ObjectPhase' = ObjectPhase
BY DEF ObjectPhase, Aborting

\* In a transaction the blocks can be reached.
LEMMA OpenPhase ==
  ASSUME IInv, InTxn
  PROVE  ObjectPhase = "open" /\ pc = "ready" /\ Usable /\ freelist = 2
<1>1. OpenFacts
  BY InTxnFacts
<1> QED BY <1>1, Numbers DEF ObjectPhase, OpenFacts, Usable, InTxn

\* A step that touches no block and no root.
LEMMA QuietArrays ==
  ASSUME UNCHANGED <<data, objlist, blocks, txn, freelist, pc>>,
         call'.at = "init" <=> call.at = "init"
  PROVE  ObjectPhase' = ObjectPhase /\ Working' = Working /\ Saved' = Saved
<1>1. ObjectPhase' = ObjectPhase
  BY DEF ObjectPhase, Aborting
<1>2. Working' = Working
  BY <1>1 DEF Working, RootsIn, Latest, Copy
<1> QED BY <1>1, <1>2 DEF Saved

\* A step of a transaction that touches no block of the committed state.
LEMMA SavedKept ==
  ASSUME OInv, pc = "ready", ObjectPhase = "open", ObjectPhase' = "open",
         data'[3] = data[3], \A b \in Committed : data'[b] = data[b]
  PROVE  Saved' = Saved
<1>1. \A i \in DOMAIN data[3] : data[3][i] \in Committed
  BY DEF OInv, OldHeld, Range
<1>2. Saved = Plain(data[3], data) /\ Saved' = Plain(data'[3], data')
  BY Numbers DEF Saved, Plain
<1>3. Plain(data'[3], data') = Plain(data[3], data)
  BY <1>1 DEF Plain
<1> QED BY <1>2, <1>3

\* A step that leaves the handles alone, or what they name.
NameOf(hs, c, h) ==
  IF hs[h] = NULL \/ (c.at \in {"allocate", "list", "init"} /\ c.h = h)
  THEN NULL ELSE hs[h].obj_id

\* What the handles name, handle by handle, before and after a step.
LEMMA NamesAre ==
  Names = [h \in Handle |-> NameOf(handles, call, h)]
BY DEF Names, NameOf, BeingCreated

\* The same after a step.
LEMMA NamesAreNext ==
  Names' = [h \in Handle |-> NameOf(handles', call', h)]
BY DEF Names, NameOf, BeingCreated

\* A step that changes what no handle names.
LEMMA SameNames ==
  ASSUME \A h \in Handle : NameOf(handles', call', h) = NameOf(handles, call, h)
  PROVE  Names' = Names
BY NamesAre, NamesAreNext

ArrayStep == SetReturns \/ Objs!Next \/ UNCHANGED Objs!vars

\* A step that shows nothing.
LEMMA Unseen ==
  ASSUME ObjectPhase' = ObjectPhase, Working' = Working, Saved' = Saved,
         Names' = Names, result' = result
  PROVE  ArrayStep
BY DEF ArrayStep, Objs!vars, Objs!arrays

-----------------------------------------------------------------------------
(***************************************************************************)
(* Transactions.                                                           *)
(***************************************************************************)

\* txn_commit and txn_abort without a transaction.
LEMMA RefusedShows ==
  ASSUME TxnRefused
  PROVE  ArrayStep
<1>1. UNCHANGED <<data, objlist, blocks, txn, freelist, pc, handles, call, result>>
  BY DEF TxnRefused, NoTransaction, api, disk, state, loop
<1>2. Names' = Names
  BY <1>1 DEF Names, BeingCreated
<1> QED BY <1>1, <1>2, QuietArrays, Unseen

\* When no block has a copy the list leads to the arrays.
LEMMA PlainShown ==
  ASSUME NEW list, NEW bl, NEW d,
         \A i \in DOMAIN list : CopyIn(bl, list[i]) = list[i]
  PROVE  Shown(list, bl, d) = Plain(list, d)
BY DEF Shown, Plain

\* txn_begin: the arrays there are become the ones to fall back on.
LEMMA BeginShows ==
  ASSUME ObjectsInv, ObjectsInv', edb_txn_begin
  PROVE  ArrayStep
<1>1. UNCHANGED <<handles, call, result>> /\ call.at = "idle"
  BY IdleCall DEF edb_txn_begin
<1>2. Names' = Names
  BY <1>1 DEF Names, BeingCreated
<1>3. CASE txn_begin_nested
  <2>1. UNCHANGED <<data, objlist, blocks, txn, freelist, pc>>
    BY <1>3 DEF txn_begin_nested, disk, state, loop
  <2> QED BY <1>1, <1>2, <2>1, QuietArrays, Unseen
<1>4. CASE txn_begin
  <2>1. /\ pc = "ready" /\ txn = FALSE /\ objlist = 3 /\ blocks = Unset
        /\ freelist = 1 /\ Mapped
    BY <1>4, Numbers DEF txn_begin, Ready, ObjectsInv, IInv, TypeOK, Closed
  <2>2. /\ txn' = TRUE /\ freelist' = 2 /\ pc' = "ready" /\ objlist' = 3
        /\ data' = data /\ nblocks' = nblocks
        /\ blocks' = [Unset EXCEPT ![2] = 1]
    BY <1>4, <2>1, Numbers DEF txn_begin, loop, io
  <2>3. ObjectPhase = "closed" /\ ObjectPhase' = "open"
    BY <2>1, <2>2, Numbers DEF ObjectPhase, Aborting
  <2>4. Usable /\ Usable'
    BY <2>1, <2>2, Numbers DEF Usable, Mapped, Aborting
  <2>5. Finished = data[3] /\ Finished' = data[3]
    BY <1>1, <2>1, <2>2 DEF Finished, RootsIn, ObjList
  <2>6. \A i \in DOMAIN data[3] : data[3][i] \in UserBlock
    BY <2>1, <2>4 DEF ObjectsInv, OInv, Held, Range, ObjList
  <2>7. Working = Plain(data[3], data)
    <3>1. Working = Shown(data[3], Unset, data)
      BY <2>1, <2>4, <2>5, WorkingIs DEF WorkingShown
    <3> QED BY <2>6, <3>1, PlainShown, UnsetCopies
  <2>8. Working' = Plain(data[3], data)
    <3>1. Working' = Shown(data[3], blocks', data)
      BY <2>2, <2>4, <2>5, WorkingIsNext DEF WorkingShown
    <3>2. \A k \in Block : blocks'[k] = 0 \/ blocks'[k] = 1
      BY <2>2, Numbers DEF Unset
    <3>3. \A e \in UserBlock : \A k \in Block : blocks'[k] # e
      BY <3>2, Numbers
    <3>4. \A e \in UserBlock : CopyIn(blocks', e) = e
      BY <3>3, CopyNone
    <3> QED BY <2>6, <3>1, <3>4, PlainShown
  <2>9. Saved = Working
    BY <2>3 DEF Saved
  <2>10. Saved' = Plain(data[3], data)
    BY <2>2, <2>3, Numbers DEF Saved, Plain
  <2>11. Objs!Begin
    BY <1>1, <1>2, <2>3, <2>7, <2>8, <2>9, <2>10 DEF Objs!Begin, Objs!arrays
  <2> QED BY <2>11 DEF ArrayStep, Objs!Next
<1> QED BY <1>3, <1>4 DEF edb_txn_begin

\* The commit shows when block 3 holds the list: when it starts, or when the
\* copy of the list goes back.
LEMMA CommitStartShows ==
  ASSUME ObjectsInv, ObjectsInv', CommitStart, UNCHANGED api
  PROVE  ArrayStep
<1>1. /\ InTxn /\ pc' = "commit"
      /\ UNCHANGED <<nblocks, data, objlist, blocks, txn, freelist>>
      /\ UNCHANGED <<handles, call, result>>
  BY DEF CommitStart, io, disk, state, api
<1>2. ObjectPhase = "open" /\ Usable /\ freelist = 2 /\ txn
  BY <1>1, OpenPhase DEF ObjectsInv, InTxn
<1>3. Names' = Names
  BY <1>1 DEF Names, BeingCreated
<1>4. Usable'
  BY <1>1, <1>2 DEF Usable, Mapped, Aborting
<1>5. Working' = Working
  <2>1. Finished' = Finished
    BY <1>1 DEF Finished, RootsIn, ObjList
  <2>2. Working = Shown(Finished, blocks, data)
    BY <1>2, WorkingIs DEF WorkingShown
  <2>3. Working' = Shown(Finished', blocks', data')
    BY <1>4, WorkingIsNext DEF WorkingShown
  <2> QED BY <1>1, <2>1, <2>2, <2>3
<1>6. CASE objlist = 3
  <2>1. ObjectPhase' = "committed"
    BY <1>1, <1>2, <1>6, Numbers DEF ObjectPhase, Aborting
  <2>2. Saved' = Working'
    BY <2>1 DEF Saved
  <2>3. Objs!Commit
    BY <1>1, <1>2, <1>3, <1>5, <2>1, <2>2 DEF Objs!Commit
  <2> QED BY <2>3 DEF ArrayStep, Objs!Next
<1>7. CASE objlist # 3
  <2>1. ObjectPhase' = "open"
    BY <1>1, <1>2, <1>7, Numbers DEF ObjectPhase, Aborting
  <2>2. Saved' = Saved
    BY <1>1, <1>2, <2>1 DEF Saved
  <2> QED BY <1>1, <1>2, <1>3, <1>5, <2>1, <2>2, Unseen
<1> QED BY <1>6, <1>7

\* The commit's loop: what it publishes was seen when it began.
LEMMA CommitLoopShows ==
  ASSUME ObjectsInv, ObjectsInv', NEW k \in todo,
         CommitObjlist(k) \/ CommitEntry(k), UNCHANGED api
  PROVE  ArrayStep
<1>1. /\ pc = "commit" /\ pc' = "commit"
      /\ UNCHANGED <<nblocks, blocks, txn, freelist, live>>
      /\ UNCHANGED <<handles, call, result>>
  BY DEF CommitObjlist, CommitEntry, Committing, io, state, api
<1>2. Names' = Names
  BY <1>1 DEF Names, BeingCreated
<1>3. CASE CommitEntry(k)
  <2>1. UNCHANGED <<data, objlist>>
    BY <1>3 DEF CommitEntry
  <2> QED BY <1>1, <1>2, <2>1, QuietArrays, Unseen
<1>4. CASE CommitObjlist(k)
  <2>1. CommitFacts
    BY <1>1, InCommitFacts DEF ObjectsInv
  <2>2. /\ k = objlist /\ objlist' = 3
        /\ data' = [data EXCEPT ![3] = data[objlist]]
    BY <1>4, Numbers DEF CommitObjlist
  <2>3. /\ txn = TRUE /\ ~Aborting /\ Mapped /\ TypeOK
    BY <1>1, <2>1 DEF CommitFacts, ObjectsInv, IInv, Roots
  <2>4. objlist # 3
    <3>1. blocks[k] # 0 /\ k \in Block
      BY <1>1, <2>3 DEF ObjectsInv, IInv, RecordOK, TypeOK
    <3> QED BY <2>1, <2>2, <3>1 DEF CommitFacts
  <2>5. ObjectPhase = "open" /\ ObjectPhase' = "committed"
    BY <1>1, <2>2, <2>3, <2>4, Numbers DEF ObjectPhase, Aborting
  <2>6. Usable /\ Usable'
    BY <1>1, <2>3 DEF Usable, Mapped, Aborting
  <2>7. /\ \A b \in live : data'[b] = data[b]
        /\ data'[3] = data[objlist]
    BY <2>2, <2>3, Numbers DEF TypeOK
  <2>8. ObjList' = ObjList /\ Finished' = Finished
    BY <1>1, <2>2, <2>7 DEF ObjList, Finished, RootsIn
  <2>9. call.at = "idle" /\ Finished = ObjList
    BY <1>1, Unfinished DEF ObjectsInv, OInv, CommitOK
  <2>10. \A i \in DOMAIN ObjList : CopyIn(blocks, ObjList[i]) \in live
    BY <2>6 DEF ObjectsInv, OInv, Held, HeldBy
  <2>11. Working' = Working
    <3>1. Working = Shown(ObjList, blocks, data)
      BY <2>6, <2>9, WorkingIs DEF WorkingShown
    <3>2. Working' = Shown(ObjList, blocks, data')
      BY <1>1, <2>6, <2>8, <2>9, WorkingIsNext DEF WorkingShown
    <3> QED BY <2>7, <2>10, <3>1, <3>2 DEF Shown
  <2>12. Saved' = Working'
    BY <2>5 DEF Saved
  <2>13. Objs!Commit
    BY <1>1, <1>2, <2>5, <2>11, <2>12 DEF Objs!Commit
  <2> QED BY <2>13 DEF ArrayStep, Objs!Next
<1> QED BY <1>3, <1>4

\* The end of a commit: the list is in block 3, and no root is a copy.
LEMMA CommitEndShows ==
  ASSUME ObjectsInv, ObjectsInv', CommitReturns
  PROVE  ArrayStep
<1>1. /\ pc = "commit" /\ objlist = 3 /\ objlist' = 3
      /\ \A e \in UserBlock : CopyIn(blocks, e) = e
      /\ data' = data /\ Usable
      /\ call.at = "idle" /\ call' = call /\ handles' = handles
      /\ \A i \in DOMAIN data[3] : data[3][i] \in UserBlock
  BY CommitEndFacts DEF ObjectsInv
<1>2. /\ txn' = FALSE /\ blocks' = Unset /\ result' = result /\ nblocks' = nblocks
  BY DEF CommitReturns, CommitEnd, io
<1>3. Names' = Names
  BY <1>1 DEF Names, BeingCreated
<1>4. txn
  BY <1>1 DEF ObjectsInv, IInv, Roots
<1>5. ObjectPhase = "committed" /\ ObjectPhase' = "closed"
  BY <1>1, <1>2, <1>4, Numbers DEF ObjectPhase, Usable
<1>6. Usable'
  BY <1>1, <1>2 DEF Usable, Mapped, Aborting
<1>7. Finished = data[3] /\ Finished' = data[3]
  BY <1>1 DEF Finished, RootsIn, ObjList
<1>8. Working = Plain(data[3], data)
  <2>1. Working = Shown(data[3], blocks, data)
    BY <1>1, <1>7, WorkingIs DEF WorkingShown
  <2> QED BY <1>1, <2>1, PlainShown
<1>9. Working' = Plain(data[3], data)
  <2>1. Working' = Shown(data[3], Unset, data)
    BY <1>1, <1>2, <1>6, <1>7, WorkingIsNext DEF WorkingShown
  <2> QED BY <1>1, <2>1, PlainShown, UnsetCopies
<1>10. Saved = Working /\ Saved' = Working'
  BY <1>5 DEF Saved
<1>11. Objs!End
  BY <1>2, <1>3, <1>5, <1>8, <1>9, <1>10 DEF Objs!End, Objs!arrays
<1> QED BY <1>11 DEF ArrayStep, Objs!Next

\* An abort brings the arrays of block 3 back; another one, after an abort
\* that failed, brings them back again.
LEMMA AbortShows ==
  ASSUME ObjectsInv, ObjectsInv', edb_txn_abort
  PROVE  ArrayStep
<1>1. UNCHANGED <<handles, call, result>> /\ call.at = "idle"
  BY IdleCall DEF edb_txn_abort
<1>2. Names' = Names
  BY <1>1 DEF Names, BeingCreated
<1>3. /\ AbortRoots
      /\ fsize' \in {fsize, ResizedFile(ts_nblocks)}
      /\ data' = Truncated(data, fsize')
      /\ txn' = FALSE \/ (AbortFails /\ txn' = txn)
  BY DEF edb_txn_abort, txn_abort, AbortFails, state
<1>4. /\ txn = TRUE /\ pc = "ready" /\ pc' = "ready"
      /\ freelist' = 1 /\ objlist' = 3
      /\ ts_nblocks \in 4 .. fsize /\ fsize \in Nat /\ fsize <= MaxBlocks
      /\ ResizedFile(ts_nblocks) \in ts_nblocks .. MaxBlocks
      /\ Committed \subseteq 4 .. ts_nblocks - 1
  BY <1>3, AbortFacts DEF ObjectsInv
<1>5. fsize' \in ts_nblocks .. MaxBlocks
  BY <1>3, <1>4, Numbers
<1>6. data'[3] = data[3] /\ \A b \in Committed : data'[b] = data[b]
  BY <1>3, <1>4, <1>5, Numbers DEF Truncated
<1>7. ObjectPhase' = "closed"
  BY <1>3, <1>4, Numbers DEF ObjectPhase, Aborting
<1>8. Working' = Plain(data[3], data)
  <2>1. Working' = Plain(data'[3], data')
    BY <1>1, <1>4, <1>7 DEF Working, RootsIn, Latest, Plain
  <2>2. \A i \in DOMAIN data[3] : data[3][i] \in Committed
    BY <1>4 DEF ObjectsInv, OInv, OldHeld, Range
  <2> QED BY <1>6, <2>1, <2>2 DEF Plain
<1>9. Saved' = Working'
  BY <1>7 DEF Saved
<1>10. CASE ~Aborting
  <2>1. ObjectPhase = "open"
    BY <1>4, <1>10 DEF ObjectPhase
  <2>2. Saved = Plain(data[3], data)
    BY <2>1, Numbers DEF Saved, Plain
  <2>3. Objs!Abort
    BY <1>1, <1>2, <1>7, <1>8, <1>9, <2>1, <2>2 DEF Objs!Abort
  <2> QED BY <2>3 DEF ArrayStep, Objs!Next
<1>11. CASE Aborting
  <2>1. ObjectPhase = "closed" /\ objlist = 3
    BY <1>11, Numbers DEF ObjectPhase, ObjectsInv, IInv, Roots
  <2>2. Working = Plain(data[3], data)
    BY <1>1, <2>1 DEF Working, RootsIn, Latest, Plain
  <2>3. Saved = Working
    BY <2>1 DEF Saved
  <2> QED BY <1>1, <1>2, <1>7, <1>8, <1>9, <2>1, <2>2, <2>3, Unseen
<1> QED BY <1>10, <1>11

-----------------------------------------------------------------------------
(***************************************************************************)
(* Handles.                                                                *)
(***************************************************************************)

\* edb_array_open looks nothing up.
LEMMA OpenShows ==
  ASSUME ObjectsInv, NEW h \in Handle, NEW id \in ObjId, edb_array_open(h, id)
  PROVE  ArrayStep
<1> DEFINE new == [obj_id |-> id, txn_id |-> TxnIdMax, root |-> 0]
<1>1. /\ call.at = "idle" /\ UNCHANGED <<call, result, vars>>
      /\ handles[h] = NULL /\ handles' = [handles EXCEPT ![h] = new]
  BY IdleCall DEF edb_array_open
<1>2. ObjectPhase' = ObjectPhase /\ Working' = Working /\ Saved' = Saved
  <2>1. UNCHANGED <<data, objlist, blocks, txn, freelist, pc>>
    BY <1>1 DEF vars, disk, state, loop
  <2> QED BY <1>1, <2>1, QuietArrays
<1>3. new.obj_id = id
  OBVIOUS
<1>4. new # NULL
  <2>1. new \in [obj_id : Nat, txn_id : 0 .. TxnIdMax, root : Block]
    BY HandleAssumption, TxnIdAssumption, Numbers
  <2> QED BY <2>1, HandleAssumption
<1> HIDE DEF new
<1>5. \A g \in Handle : handles'[g] = IF g = h THEN new ELSE handles[g]
  BY <1>1 DEF ObjectsInv, OInv, HandlesOK
<1>6. \A g \in Handle :
        NameOf(handles', call', g) = IF g = h THEN id ELSE NameOf(handles, call, g)
  BY <1>1, <1>3, <1>4, <1>5 DEF NameOf
<1>7. Names[h] = NULL /\ Names' = [Names EXCEPT ![h] = id]
  BY <1>1, <1>6, NamesAre, NamesAreNext DEF NameOf
<1>8. Objs!Open(h, id)
  BY <1>1, <1>2, <1>7 DEF Objs!Open, Objs!arrays
<1> QED BY <1>8 DEF ArrayStep, Objs!Next

\* The caller drops a handle.
LEMMA ForgetShows ==
  ASSUME ObjectsInv, NEW h \in Handle, Forget(h)
  PROVE  ArrayStep
<1>1. /\ call.at = "idle" /\ UNCHANGED <<call, result, vars>>
      /\ handles' = [handles EXCEPT ![h] = NULL]
  BY IdleCall DEF Forget
<1>2. ObjectPhase' = ObjectPhase /\ Working' = Working /\ Saved' = Saved
  <2>1. UNCHANGED <<data, objlist, blocks, txn, freelist, pc>>
    BY <1>1 DEF vars, disk, state, loop
  <2> QED BY <1>1, <2>1, QuietArrays
<1>3. \A g \in Handle : handles'[g] = IF g = h THEN NULL ELSE handles[g]
  BY <1>1 DEF ObjectsInv, OInv, HandlesOK
<1>4. \A g \in Handle :
        NameOf(handles', call', g) = IF g = h THEN NULL ELSE NameOf(handles, call, g)
  BY <1>1, <1>3 DEF NameOf
<1>5. Names' = [Names EXCEPT ![h] = NULL]
  BY <1>1, <1>4, NamesAre, NamesAreNext
<1>6. Objs!Forget(h)
  BY <1>1, <1>2, <1>5 DEF Objs!Forget, Objs!arrays
<1> QED BY <1>6 DEF ArrayStep, Objs!Next

-----------------------------------------------------------------------------
(***************************************************************************)
(* Reading.                                                                *)
(***************************************************************************)

\* The arrays of a list, one for each of its entries.
LEMMA ShownIs ==
  ASSUME NEW list \in Seq(Nat), NEW bl, NEW d \in [Block -> Value],
         \A i \in DOMAIN list : CopyIn(bl, list[i]) \in Block
  PROVE  /\ Shown(list, bl, d) \in Seq(Value)
         /\ Len(Shown(list, bl, d)) = Len(list)
         /\ DOMAIN Shown(list, bl, d) = DOMAIN list
         /\ \A i \in DOMAIN list : Shown(list, bl, d)[i] = d[CopyIn(bl, list[i])]
<1>1. DOMAIN list = 1 .. Len(list) /\ Len(list) \in Nat
  OBVIOUS
<1>2. Shown(list, bl, d) \in [1 .. Len(list) -> Value]
  BY <1>1 DEF Shown
<1> QED BY <1>1, <1>2, LenProperties DEF Shown

\* The working arrays while no object is being created.
LEMMA WorkingFacts ==
  ASSUME ObjectsInv, Usable, call.at # "init"
  PROVE  /\ Working = Shown(ObjList, blocks, data)
         /\ Working \in Seq(Value) /\ Len(Working) = Len(ObjList)
         /\ DOMAIN Working = 1 .. Len(ObjList) /\ Len(ObjList) \in Nat
         /\ \A i \in DOMAIN ObjList : /\ Working[i] = data[CopyIn(blocks, ObjList[i])]
                                      /\ CopyIn(blocks, ObjList[i]) \in live
                                      /\ CopyIn(blocks, ObjList[i]) \in Block
                                      /\ ObjList[i] \in UserBlock
         /\ Apart(ObjList, blocks)
<1>1. Working = Shown(ObjList, blocks, data)
  BY WorkingIs, Unfinished DEF WorkingShown
<1>2. TypeOK /\ data \in [Block -> Value] /\ live \subseteq Block
  BY Numbers DEF ObjectsInv, IInv, TypeOK
<1>3. ObjList \in Seq(Nat) /\ DOMAIN ObjList = 1 .. Len(ObjList) /\ Len(ObjList) \in Nat
  BY <1>2, ObjListIsList
<1>4. /\ \A i \in DOMAIN ObjList : CopyIn(blocks, ObjList[i]) \in live
      /\ \A i \in DOMAIN ObjList : ObjList[i] \in UserBlock
      /\ Apart(ObjList, blocks)
  BY DEF ObjectsInv, OInv, Held, HeldBy, Range
<1> QED BY <1>1, <1>2, <1>3, <1>4, ShownIs

\* A handle in use names a number.
LEMMA NameNotNone ==
  ASSUME ObjectsInv, NEW h \in Handle, handles[h] # NULL,
         call.at \in {"idle", "apply"}
  PROVE  /\ Names[h] = handles[h].obj_id /\ Names[h] # NULL /\ Names[h] \in Nat
         /\ handles[h].obj_id \in Nat
<1>1. handles[h].obj_id \in Nat
  BY DEF ObjectsInv, OInv, HandlesOK
<1>2. Names[h] = handles[h].obj_id
  BY NamesAre DEF NameOf
<1> QED BY <1>1, <1>2, HandleAssumption

\* A handle finds its object if there is one, and its root is the array.
LEMMA HandleArray ==
  ASSUME ObjectsInv, NEW h \in Handle, Uses(h)
  PROVE  /\ Names[h] # NULL
         /\ Objs!Exists(h) <=> Resolves(h)
         /\ Resolves(h) => Objs!Array(h) = data[Root(h)]
<1>1. /\ Usable /\ pc = "ready" /\ call.at = "idle" /\ handles[h] # NULL
  BY UseFacts DEF ObjectsInv
<1>2. /\ Names[h] = handles[h].obj_id /\ Names[h] # NULL
      /\ handles[h].obj_id \in Nat
  BY <1>1, NameNotNone
<1>3. Len(Working) = Len(ObjList) /\ DOMAIN ObjList = 1 .. Len(ObjList)
      /\ Len(ObjList) \in Nat
      /\ \A i \in DOMAIN ObjList : Working[i] = data[CopyIn(blocks, ObjList[i])]
  <2>1. DOMAIN ObjList = 1 .. Len(ObjList)
    BY ObjListIsList DEF ObjectsInv, IInv
  <2> QED BY <1>1, <2>1, WorkingFacts
<1>4. Resolves(h) => /\ handles[h].obj_id + 1 \in DOMAIN ObjList
                     /\ Root(h) = CopyIn(blocks, ObjList[handles[h].obj_id + 1])
  BY RootFacts DEF ObjectsInv
<1>5. handles[h].obj_id < Len(ObjList) => Resolves(h)
  BY DEF Resolves, Listed, ObjList
<1> HIDE DEF Root, Resolves
<1>6. Objs!Exists(h) <=> Resolves(h)
  BY <1>2, <1>3, <1>4, <1>5 DEF Objs!Exists
<1>7. Resolves(h) => Objs!Array(h) = data[Root(h)]
  BY <1>2, <1>3, <1>4 DEF Objs!Array
<1> QED BY <1>2, <1>6, <1>7

\* A handle that has seen its root still names its object.
LEMMA SeenName ==
  ASSUME ObjectsInv, NEW h \in Handle, handles[h] # NULL, NEW r \in Block,
         Seen(h, r), txn_id' = txn_id,
         call.at \in {"idle", "apply"}, call'.at \in {"idle", "apply"}
  PROVE  Names' = Names
<1>1. /\ \A g \in Handle : g # h => handles'[g] = handles[g]
      /\ handles'[h] # NULL /\ handles'[h].obj_id = handles[h].obj_id
  BY SeenEffect DEF ObjectsInv, OInv
<1>2. \A g \in Handle : NameOf(handles', call', g) = NameOf(handles, call, g)
  BY <1>1 DEF NameOf
<1> QED BY <1>2, SameNames

\* A call through a handle whose object is not listed.
LEMMA MissingShows ==
  ASSUME ObjectsInv, NEW h \in Handle, Uses(h), NEW c, NotListed(h, c),
         c \in Objs!Changing \cup {<<"length">>} \cup {<<"get", i>> : i \in Index}
  PROVE  ArrayStep
<1>1. /\ UNCHANGED <<vars, handles, call>> /\ call.at = "idle"
      /\ Answer(c, ERR_ARRAY_INDEX_OUT_OF_BOUNDS, 0) /\ ~Resolves(h)
  BY UseFacts DEF NotListed, ObjectsInv
<1>2. ObjectPhase' = ObjectPhase /\ Working' = Working /\ Saved' = Saved
  <2>1. UNCHANGED <<data, objlist, blocks, txn, freelist, pc>>
    BY <1>1 DEF vars, disk, state, loop
  <2> QED BY <1>1, <2>1, QuietArrays
<1>3. Names' = Names
  BY <1>1 DEF Names, BeingCreated
<1>4. Names[h] # NULL /\ ~Objs!Exists(h)
  BY <1>1, HandleArray
<1>5. Objs!Missing(h, c)
  BY <1>1, <1>2, <1>3, <1>4 DEF Objs!Missing, Objs!Answer, Objs!arrays, Answer
<1> QED BY <1>5 DEF ArrayStep, Objs!Next

\* edb_array_length and edb_array_get.
LEMMA ReadShows ==
  ASSUME ObjectsInv, NEW h \in Handle,
         edb_array_length(h) \/ \E i \in Index : edb_array_get(h, i)
  PROVE  ArrayStep
<1>1. Uses(h)
  BY DEF edb_array_length, edb_array_get
<1>2. /\ pc = "ready" /\ call.at = "idle" /\ handles[h] # NULL
      /\ Resolves(h) => Root(h) \in Block
  BY <1>1, UseFacts, RootFacts DEF ObjectsInv
<1>3. CASE NotListed(h, <<"length">>) \/ \E i \in Index : NotListed(h, <<"get", i>>)
  BY <1>1, <1>3, MissingShows
<1>4. ASSUME Resolves(h), Seen(h, Root(h)), UNCHANGED <<vars, txn_id, call>>
      PROVE  /\ Names' = Names /\ ObjectPhase' = ObjectPhase
             /\ Working' = Working /\ Saved' = Saved
             /\ Objs!Exists(h) /\ Objs!Array(h) = data[Root(h)]
  <2>1. UNCHANGED <<data, objlist, blocks, txn, freelist, pc>>
    BY <1>4 DEF vars, disk, state, loop
  <2>2. Objs!Exists(h) /\ Objs!Array(h) = data[Root(h)]
    BY <1>1, <1>4, HandleArray
  <2>3. Names' = Names
    BY <1>2, <1>4, SeenName
  <2> QED BY <1>4, <2>1, <2>2, <2>3, QuietArrays
<1> HIDE DEF Root
<1>5. CASE /\ Resolves(h) /\ Seen(h, Root(h)) /\ UNCHANGED <<vars, txn_id, call>>
           /\ Answer(<<"length">>, OK, Len(data[Root(h)]))
  <2>1. Objs!Length(h)
    BY <1>4, <1>5 DEF Objs!Length, Objs!Answer, Objs!arrays, Answer, OK
  <2> QED BY <2>1 DEF ArrayStep, Objs!Next
<1>6. ASSUME NEW i \in Index, Resolves(h), Seen(h, Root(h)),
             UNCHANGED <<vars, txn_id, call>>,
             Read(<<"get", i>>, data[Root(h)], i)
      PROVE  ArrayStep
  <2>1. Objs!Get(h, i)
    BY <1>4, <1>6 DEF Objs!Get, Objs!Answer, Objs!arrays, Read, Answer, OK
  <2> QED BY <2>1 DEF ArrayStep, Objs!Next
<1> QED BY <1>3, <1>5, <1>6 DEF edb_array_length, edb_array_get

-----------------------------------------------------------------------------
(***************************************************************************)
(* Taking a block shows nothing.                                           *)
(***************************************************************************)

\* A new block, for a copy of block s or for none: other blocks keep their
\* copies, what the committed state holds stays, and so does the phase.
LEMMA TakenShows ==
  ASSUME ObjectsInv, InTxn, NEW s \in live \cup {objlist, ALLOCATED},
         Take(FreelistAllocate(flist[freelist], nblocks), s),
         UNCHANGED <<freelist, txn, pc>>,
         s \in UserBlock => CopyIn(blocks, s) = s /\ blocks[s] = 0,
         NEW v, data' = [data EXCEPT
                  ![FreelistAllocate(flist[freelist], nblocks).block] = v]
  PROVE  LET x == FreelistAllocate(flist[freelist], nblocks).block IN
           /\ x \in UserBlock /\ x \notin live /\ x # objlist
           /\ s \in UserBlock => CopyIn(blocks', s) = x
           /\ \A e \in UserBlock : e # s => CopyIn(blocks', e) = CopyIn(blocks, e)
           /\ data'[x] = v /\ \A b \in Block : b # x => data'[b] = data[b]
           /\ ObjectPhase = "open" /\ ObjectPhase' = "open" /\ Saved' = Saved
           /\ Usable /\ Usable'
<1> DEFINE x == FreelistAllocate(flist[freelist], nblocks).block
<1>1. /\ x \in UserBlock /\ blocks[x] = 0 /\ x \notin live /\ x # objlist
      /\ \A k \in Block : IsCopy(k) => blocks[k] # x
      /\ blocks' = [blocks EXCEPT ![x] = s]
      /\ nblocks' \in nblocks .. MaxBlocks
  BY TakeEffect DEF ObjectsInv
<1>2. x \notin Committed /\ x # 3
  BY TakenIsFresh DEF ObjectsInv
<1>3. data' = [data EXCEPT ![x] = v]
  OBVIOUS
<1> HIDE DEF x
<1>4. /\ IInv /\ OInv /\ TypeOK /\ OpenFacts
      /\ ObjectPhase = "open" /\ pc = "ready" /\ Usable
  BY OpenPhase, InTxnFacts DEF ObjectsInv, IInv
<1>5. ObjectPhase' = "open" /\ Usable'
  BY <1>1, <1>4, ReadyPhase, Numbers DEF Usable, Mapped, Aborting, OpenFacts
<1>6. data'[x] = v /\ (\A b \in Block : b # x => data'[b] = data[b]) /\ data'[3] = data[3]
  BY <1>1, <1>2, <1>3, <1>4, Numbers DEF TypeOK
<1>7. Saved' = Saved
  <2>1. Committed \subseteq Block
    BY <1>4, Numbers DEF OpenFacts, Committed, TypeOK
  <2> QED BY <1>2, <1>4, <1>5, <1>6, <2>1, SavedKept
<1>8. NewEntry(blocks, blocks', x, s)
  <2>1. \A k \in Block : blocks[k] # x
    BY <1>1, Numbers DEF IsCopy
  <2>2. OneCopy(blocks)
    BY <1>4, UsableFacts
  <2>3. s \in {ALLOCATED} \cup Block /\ s # x
    BY <1>1, <1>4, Numbers DEF TypeOK
  <2> QED BY <1>1, <1>4, <2>1, <2>2, <2>3, Numbers DEF NewEntry, TypeOK
<1>9. /\ s \in UserBlock => CopyIn(blocks', s) = x
      /\ \A e \in UserBlock : e # s => CopyIn(blocks', e) = CopyIn(blocks, e)
  BY <1>8, CopyNew
<1> QED BY <1>1, <1>4, <1>5, <1>6, <1>7, <1>9 DEF x

-----------------------------------------------------------------------------
(***************************************************************************)
(* obj_write.                                                              *)
(***************************************************************************)

\* A call that io_resize stops: nothing that shows has changed.
LEMMA ResizeFailsShows ==
  ASSUME ObjectsInv, InTxn, ResizeFails, NEW c \in Objs!Changing \cup {<<"create">>},
         Ends(c, IO_ERROR), call.at # "init", Names' = Names
  PROVE  ArrayStep
<1>1. UNCHANGED <<data, objlist, blocks, txn, freelist, pc>> /\ call'.at = "idle"
  BY IdleCall DEF ResizeFails, disk, state, loop, Ends
<1>2. ObjectPhase = "open"
  BY OpenPhase DEF ObjectsInv
<1>3. ObjectPhase' = ObjectPhase /\ Working' = Working /\ Saved' = Saved
  BY <1>1, QuietArrays
<1>4. Objs!Refused(c)
  BY <1>2, <1>3 DEF Ends, Answer, Objs!Refused, Objs!Answer, Objs!arrays
<1> QED BY <1>4 DEF ArrayStep, Objs!Next

\* A change or a create outside a transaction.
LEMMA NoTransactionShows ==
  ASSUME ObjectsInv, NoTransaction, NEW c \in Objs!Changing \cup {<<"create">>},
         Ends(c, EDB_ERR_TXN_NO_TRANSACTION), call.at # "init", Names' = Names
  PROVE  ArrayStep
<1>1. UNCHANGED <<data, objlist, blocks, txn, freelist, pc>> /\ call'.at = "idle"
      /\ ~txn
  BY IdleCall DEF NoTransaction, disk, state, loop, Ends
<1>2. ObjectPhase = "closed"
  BY <1>1 DEF ObjectPhase
<1>3. ObjectPhase' = ObjectPhase /\ Working' = Working /\ Saved' = Saved
  BY <1>1, QuietArrays
<1>4. Objs!Refused(c)
  BY <1>2, <1>3 DEF Ends, Answer, Objs!Refused, Objs!Answer, Objs!arrays
<1> QED BY <1>4 DEF ArrayStep, Objs!Next

\* The copy of a root holds what the root held.
LEMMA CopyShows ==
  ASSUME ObjectsInv, ObjectsInv', NEW h \in Handle, Uses(h), Resolves(h),
         txn_modify_block(Root(h)), call'.at = "apply"
  PROVE  /\ ObjectPhase' = ObjectPhase /\ Working' = Working /\ Saved' = Saved
         /\ CopiedRoot(h) \in Block
<1> DEFINE b == Root(h)
           x == FreelistAllocate(flist[freelist], nblocks).block
           i == handles[h].obj_id + 1
<1>1. /\ i \in DOMAIN ObjList /\ b = CopyIn(blocks, ObjList[i])
      /\ b \in live /\ b \in UserBlock /\ b \in Block
  BY RootFacts DEF ObjectsInv
<1>2. /\ InTxn /\ blocks[b] = 0
      /\ Take(FreelistAllocate(flist[freelist], nblocks), b)
      /\ data' = [data EXCEPT ![x] = data[b]]
      /\ UNCHANGED <<freelist, objlist, txn, pc>>
  BY DEF txn_modify_block, CopyOnWrite, loop
<1>3. /\ Usable /\ pc = "ready" /\ call.at = "idle" /\ OneCopy(blocks) /\ TypeOK
  BY UseFacts, UsableFacts DEF ObjectsInv
<1> HIDE DEF b, i
<1>4. /\ \A j \in DOMAIN ObjList : /\ CopyIn(blocks, ObjList[j]) \in live
                                   /\ CopyIn(blocks, ObjList[j]) \in Block
                                   /\ ObjList[j] \in UserBlock
      /\ Working = Shown(ObjList, blocks, data) /\ Apart(ObjList, blocks)
  BY <1>3, WorkingFacts
<1>5. ObjList[i] = b /\ CopyIn(blocks, b) = b
  BY <1>1, <1>2, <1>3, <1>4, PlainRoot
<1>6. /\ x \in UserBlock /\ x \notin live /\ x # objlist
      /\ CopyIn(blocks', b) = x
      /\ \A e \in UserBlock : e # b => CopyIn(blocks', e) = CopyIn(blocks, e)
      /\ data'[x] = data[b] /\ \A k \in Block : k # x => data'[k] = data[k]
      /\ ObjectPhase = "open" /\ ObjectPhase' = "open" /\ Saved' = Saved
      /\ Usable'
  BY <1>1, <1>2, <1>5, TakenShows
<1>7. CopiedRoot(h) = x
  BY DEF CopiedRoot
<1> HIDE DEF x
<1>8. ObjList' = ObjList
  BY <1>2, <1>3, <1>6, ObjListIsList DEF ObjList
<1>9. Working' = Shown(ObjList, blocks', data')
  <2>1. Finished' = ObjList'
    BY DEF Finished, RootsIn
  <2> QED BY <1>6, <1>8, <2>1, WorkingIsNext DEF WorkingShown
<1>10. \A j \in DOMAIN ObjList :
         data'[CopyIn(blocks', ObjList[j])] = data[CopyIn(blocks, ObjList[j])]
  <2> TAKE j \in DOMAIN ObjList
  <2>1. CASE ObjList[j] = b
    BY <1>5, <1>6, <2>1
  <2>2. CASE ObjList[j] # b
    <3>1. CopyIn(blocks', ObjList[j]) = CopyIn(blocks, ObjList[j])
      BY <1>4, <1>6, <2>2
    <3>2. CopyIn(blocks, ObjList[j]) # x /\ CopyIn(blocks, ObjList[j]) \in Block
      BY <1>4, <1>6
    <3> QED BY <1>6, <3>1, <3>2
  <2> QED BY <2>1, <2>2
<1>11. Working' = Working
  BY <1>4, <1>9, <1>10 DEF Shown
<1> QED BY <1>6, <1>7, <1>11, Numbers

\* obj_write: a root is copied, and no array changes.
LEMMA WriteShows ==
  ASSUME ObjectsInv, ObjectsInv', NEW h \in Handle, NEW c \in Objs!Changing,
         obj_write(h, c)
  PROVE  ArrayStep
<1>1. Uses(h)
  BY DEF obj_write
<1>2. /\ pc = "ready" /\ call.at = "idle" /\ handles[h] # NULL
      /\ Resolves(h) => Root(h) \in Block
  BY <1>1, UseFacts, RootFacts DEF ObjectsInv
<1>3. CASE NotListed(h, c)
  BY <1>1, <1>3, MissingShows
<1>4. ASSUME NEW r \in Block, Seen(h, r), txn_id' = txn_id,
             call'.at \in {"idle", "apply"}
      PROVE  Names' = Names
  BY <1>2, <1>4, SeenName
<1> HIDE DEF Root
<1>5. CASE /\ Resolves(h) /\ txn_id' = txn_id /\ NoTransaction
           /\ Seen(h, Root(h)) /\ Ends(c, EDB_ERR_TXN_NO_TRANSACTION)
  <2>1. call'.at = "idle"
    BY <1>5, IdleCall DEF Ends
  <2> QED BY <1>2, <1>4, <1>5, <2>1, NoTransactionShows
<1>6. CASE /\ Resolves(h) /\ txn_id' = txn_id
           /\ InTxn /\ blocks[Root(h)] = 0 /\ ResizeFails
           /\ Seen(h, Root(h)) /\ Ends(c, IO_ERROR)
  <2>1. call'.at = "idle"
    BY <1>6, IdleCall DEF Ends
  <2> QED BY <1>2, <1>4, <1>6, <2>1, ResizeFailsShows
<1>7. CASE /\ Resolves(h) /\ txn_id' = txn_id /\ ModifyAgain(Root(h))
           /\ Seen(h, Root(h))
           /\ call' = [at |-> "apply", h |-> h, c |-> c] /\ UNCHANGED result
  <2>1. call'.at = "apply"
    BY <1>7
  <2>2. UNCHANGED <<data, objlist, blocks, txn, freelist, pc>>
    BY <1>7 DEF ModifyAgain, disk, state, loop
  <2> QED BY <1>2, <1>4, <1>7, <2>1, <2>2, QuietArrays, Unseen
<1>8. CASE /\ Resolves(h) /\ txn_id' = txn_id /\ txn_modify_block(Root(h))
           /\ Seen(h, CopiedRoot(h))
           /\ call' = [at |-> "apply", h |-> h, c |-> c] /\ UNCHANGED result
  <2>1. call'.at = "apply"
    BY <1>8
  <2> QED BY <1>1, <1>4, <1>8, <2>1, CopyShows, Unseen
<1> QED BY <1>3, <1>5, <1>6, <1>7, <1>8 DEF obj_write

-----------------------------------------------------------------------------
(***************************************************************************)
(* The second half of a push, a pop or a set.                              *)
(***************************************************************************)

\* The writable block is the array of the object the handle names.
LEMMA TargetIsArray ==
  ASSUME ObjectsInv, call.at = "apply"
  PROVE  LET h == call.h  i == handles[call.h].obj_id + 1 IN
           /\ h \in Handle /\ InTxn /\ Usable /\ pc = "ready"
           /\ ObjectPhase = "open"
           /\ Names[h] # NULL /\ Names[h] + 1 = i
           /\ i \in DOMAIN ObjList /\ Target = CopyIn(blocks, ObjList[i])
           /\ Target \in live /\ blocks[Target] # 0
           /\ Objs!Exists(h) /\ Objs!Array(h) = data[Target]
           /\ data[Target] \in Seq(Nat)
<1> DEFINE h == call.h
           i == handles[call.h].obj_id + 1
<1>1. /\ h \in Handle /\ InTxn /\ Live(h) /\ Target \in live /\ blocks[Target] # 0
  BY DEF ObjectsInv, OInv, CallOK
<1>2. ObjectPhase = "open" /\ pc = "ready" /\ Usable
  BY <1>1, OpenPhase DEF ObjectsInv
<1>3. handles[h] # NULL /\ ~Making(h)
  BY <1>1 DEF Live, Making
<1>4. /\ Names[h] = handles[h].obj_id /\ Names[h] # NULL
      /\ handles[h].obj_id \in Nat
  BY <1>1, <1>3, NameNotNone
<1>5. /\ handles[h].obj_id < Len(ObjList)
      /\ handles[h].root = CopyIn(blocks, ObjList[handles[h].obj_id + 1])
  BY <1>1, <1>2, <1>3 DEF ObjectsInv, OInv, HandlesKnow
<1>6. /\ Len(Working) = Len(ObjList) /\ DOMAIN ObjList = 1 .. Len(ObjList)
      /\ Len(ObjList) \in Nat
      /\ \A j \in DOMAIN ObjList : Working[j] = data[CopyIn(blocks, ObjList[j])]
  <2>1. DOMAIN ObjList = 1 .. Len(ObjList)
    BY ObjListIsList DEF ObjectsInv, IInv
  <2> QED BY <1>2, <2>1, WorkingFacts
<1>7. i \in DOMAIN ObjList /\ Target = CopyIn(blocks, ObjList[i])
  BY <1>4, <1>5, <1>6 DEF Target
<1>8. Objs!Exists(h) /\ Objs!Array(h) = data[Target]
  BY <1>4, <1>5, <1>6, <1>7 DEF Objs!Exists, Objs!Array
<1>9. data[Target] \in Seq(Nat)
  <2>1. Target \in Block /\ TypeOK
    BY <1>1, WritableFacts DEF ObjectsInv
  <2> QED BY <2>1, Lists
<1> QED BY <1>1, <1>2, <1>4, <1>7, <1>8, <1>9

\* A store into it changes that array and no other.
LEMMA PutShows ==
  ASSUME ObjectsInv, ObjectsInv', call.at = "apply", NEW v, Put(Target, v),
         call' = Idle, UNCHANGED <<txn_id, handles>>
  PROVE  /\ ObjectPhase' = "open" /\ Saved' = Saved /\ Names' = Names
         /\ Working' = [Working EXCEPT ![Names[call.h] + 1] = v]
<1> DEFINE t == Target
           i == handles[call.h].obj_id + 1
<1>1. /\ InTxn /\ Usable /\ pc = "ready" /\ ObjectPhase = "open"
      /\ Names[call.h] + 1 = i /\ i \in DOMAIN ObjList
      /\ t = CopyIn(blocks, ObjList[i]) /\ t \in live /\ blocks[t] # 0
  BY TargetIsArray
<1>2. /\ data' = [data EXCEPT ![t] = v]
      /\ UNCHANGED <<nblocks, freelist, objlist, txn, blocks, pc>>
  BY DEF Put, io, state, loop
<1> HIDE DEF t, i
<1>3. t \in Block /\ t # objlist /\ t # 3 /\ TypeOK /\ OpenFacts /\ IInv /\ OInv
  BY <1>1, WritableFacts, InTxnFacts DEF ObjectsInv
<1>4. /\ data'[t] = v /\ \A k \in Block : k # t => data'[k] = data[k]
  BY <1>2, <1>3 DEF TypeOK
<1>5. Usable' /\ ObjectPhase' = "open"
  BY <1>1, <1>2, ReadyPhase DEF Usable, Mapped, Aborting
<1>6. call'.at = "idle"
  BY IdleCall
<1>7. Names' = Names
  <2>1. \A g \in Handle : NameOf(handles', call', g) = NameOf(handles, call, g)
    BY <1>6 DEF NameOf
  <2> QED BY <2>1, SameNames
<1>8. Saved' = Saved
  <2>1. t \notin Committed
    BY <1>1, <1>3, Numbers DEF OpenFacts, Disjoint, Copied, Committed, TypeOK
  <2>2. Committed \subseteq Block /\ 3 \in Block
    BY <1>3, Numbers DEF OpenFacts, Committed, TypeOK
  <2> QED BY <1>1, <1>3, <1>4, <1>5, <2>1, <2>2, SavedKept
<1>9. /\ Working = Shown(ObjList, blocks, data) /\ DOMAIN Working = DOMAIN ObjList
      /\ \A j \in DOMAIN ObjList : CopyIn(blocks, ObjList[j]) \in Block
      /\ Apart(ObjList, blocks)
  <2>1. DOMAIN ObjList = 1 .. Len(ObjList)
    BY <1>3, ObjListIsList
  <2> QED BY <1>1, <2>1, WorkingFacts
<1>10. Working' = Shown(ObjList, blocks, data')
  <2>1. Finished' = ObjList' /\ ObjList' = ObjList
    BY <1>2, <1>3, <1>4, <1>6, ObjListIsList DEF Finished, RootsIn, ObjList
  <2> QED BY <1>2, <1>5, <2>1, WorkingIsNext DEF WorkingShown
<1>11. \A j \in DOMAIN ObjList :
         data'[CopyIn(blocks, ObjList[j])]
           = IF j = i THEN v ELSE data[CopyIn(blocks, ObjList[j])]
  BY <1>1, <1>4, <1>9 DEF Apart
<1>12. Working' = [Working EXCEPT ![i] = v]
  BY <1>1, <1>9, <1>10, <1>11 DEF Shown
<1> QED BY <1>1, <1>5, <1>7, <1>8, <1>12

\* The array is as it was, and so is everything else.
LEMMA NoPutShows ==
  ASSUME ObjectsInv, call.at = "apply", UNCHANGED vars,
         call' = Idle, UNCHANGED <<txn_id, handles>>
  PROVE  ObjectPhase' = "open" /\ Saved' = Saved /\ Names' = Names /\ Working' = Working
<1>1. ObjectPhase = "open" /\ call'.at = "idle"
  BY TargetIsArray, IdleCall
<1>2. UNCHANGED <<data, objlist, blocks, txn, freelist, pc>>
  BY DEF vars, disk, state, loop
<1>3. \A g \in Handle : NameOf(handles', call', g) = NameOf(handles, call, g)
  BY <1>1 DEF NameOf
<1> QED BY <1>1, <1>2, <1>3, SameNames, QuietArrays

\* array_push, array_pop and array_get on the root that obj_write returned.
LEMMA ApplyShows ==
  ASSUME ObjectsInv, ObjectsInv', ApplyPush \/ ApplyPop \/ ApplySet
  PROVE  ArrayStep
<1> DEFINE h == call.h
<1>1. call.at = "apply" /\ call' = Idle /\ UNCHANGED <<txn_id, handles>>
  BY DEF ApplyPush, ApplyPop, ApplySet, Applying, Ends
<1>2. /\ h \in Handle /\ ObjectPhase = "open"
      /\ Objs!Exists(h) /\ Objs!Array(h) = data[Target]
  BY <1>1, TargetIsArray
<1>3. call.c \in {<<"push", x>> : x \in Item} \cup {<<"pop">>}
                \cup {<<"set", i, x>> : i \in Index, x \in Item}
  BY <1>1 DEF ObjectsInv, ApiOK, Call, Idle
<1> HIDE DEF Target
<1>4. CASE ApplyPush
  <2>1. PICK x \in Item : call.c = <<"push", x>>
    BY <1>3, <1>4 DEF ApplyPush, Applying
  <2>2. Put(Target, Append(data[Target], x)) /\ Answer(<<"push", x>>, 0, 0)
    BY <1>4, <2>1 DEF ApplyPush, Ends, OK
  <2>3. /\ ObjectPhase' = "open" /\ Saved' = Saved /\ Names' = Names
        /\ Working' = [Working EXCEPT ![Names[h] + 1] = Append(data[Target], x)]
    BY <1>1, <2>2, PutShows
  <2> HIDE DEF h
  <2>4. Objs!Push(h, x)
    BY <1>2, <2>2, <2>3 DEF Objs!Push, Objs!Becomes, Objs!Answer, Answer
  <2> QED BY <1>2, <2>4 DEF ArrayStep, Objs!Next
<1>5. CASE ApplyPop
  <2>1. call.c = <<"pop">>
    BY <1>3, <1>5 DEF ApplyPop, Applying
  <2>2. CASE /\ data[Target] = <<>> /\ UNCHANGED vars
             /\ Answer(call.c, ERR_ARRAY_INDEX_OUT_OF_BOUNDS, 0)
    <3>1. /\ ObjectPhase' = "open" /\ Saved' = Saved /\ Names' = Names
          /\ Working' = Working
      BY <1>1, <2>2, NoPutShows
    <3> HIDE DEF h
    <3>2. Objs!Pop(h)
      BY <1>2, <2>1, <2>2, <3>1 DEF Objs!Pop, Objs!Answer, Answer
    <3> QED BY <1>2, <3>2 DEF ArrayStep, Objs!Next
  <2>3. CASE /\ data[Target] # <<>> /\ Answer(call.c, OK, Last(data[Target]))
             /\ Put(Target, Front(data[Target]))
    <3>1. /\ ObjectPhase' = "open" /\ Saved' = Saved /\ Names' = Names
          /\ Working' = [Working EXCEPT ![Names[h] + 1] = Front(data[Target])]
      BY <1>1, <2>3, PutShows
    <3> HIDE DEF h
    <3>2. /\ Objs!Array(h) # <<>> /\ Objs!Becomes(h, Front(Objs!Array(h)))
          /\ Objs!Answer(<<"pop">>, 0, Last(Objs!Array(h)))
      BY <1>2, <2>1, <2>3, <3>1 DEF Objs!Becomes, Objs!Answer, Answer, OK
    <3>3. Objs!Pop(h)
      BY <1>2, <3>1, <3>2
         DEF Objs!Pop, Objs!Front, Objs!Last, Front, Last
    <3> QED BY <1>2, <3>3 DEF ArrayStep, Objs!Next
  <2> QED BY <1>5, <2>2, <2>3 DEF ApplyPop
<1>6. CASE ApplySet
  <2>1. PICK i \in Index, x \in Item : call.c = <<"set", i, x>>
    BY <1>3, <1>6 DEF ApplySet, Applying
  <2>2. Read(<<"set", i, x>>, data[Target], i) /\ UNCHANGED vars
    BY <1>6, <2>1 DEF ApplySet
  <2>3. CASE result'.err = OK
    BY <1>6, <2>3 DEF ArrayStep, SetReturns
  <2>4. CASE result'.err # OK
    <3>1. ~(i < Len(data[Target]))
          /\ Answer(<<"set", i, x>>, ERR_ARRAY_INDEX_OUT_OF_BOUNDS, 0)
      BY <2>2, <2>4 DEF Read, Answer
    <3>2. /\ ObjectPhase' = "open" /\ Saved' = Saved /\ Names' = Names
          /\ Working' = Working
      BY <1>1, <2>2, NoPutShows
    <3>3. i >= Len(data[Target])
      <4>1. i \in Nat /\ Len(data[Target]) \in Nat
        BY <1>1, ArrayAssumption, TargetIsArray
      <4> QED BY <3>1, <4>1
    <3> HIDE DEF h
    <3>4. Objs!Set(h, i, x)
      BY <1>2, <3>1, <3>2, <3>3 DEF Objs!Set, Objs!Answer, Answer
    <3> QED BY <1>2, <3>4 DEF ArrayStep, Objs!Next
  <2> QED BY <2>3, <2>4
<1> QED BY <1>4, <1>5, <1>6

-----------------------------------------------------------------------------
(***************************************************************************)
(* edb_array_create.                                                       *)
(***************************************************************************)

\* edb_array_create copies the object list.
LEMMA CreateStartShows ==
  ASSUME ObjectsInv, ObjectsInv', NEW h \in Handle, CreateStart(h)
  PROVE  ArrayStep
<1>1. /\ call.at = "idle" /\ handles[h] = NULL /\ handles' = handles
      /\ call'.at \in {"idle", "allocate"}
      /\ call'.at = "allocate" => call'.h = h
  BY IdleCall DEF CreateStart, Ends
<1>2. Names' = Names
  <2>1. \A g \in Handle : NameOf(handles', call', g) = NameOf(handles, call, g)
    BY <1>1 DEF NameOf
  <2> QED BY <2>1, SameNames
<1>3. CASE NoTransaction /\ Ends(<<"create">>, EDB_ERR_TXN_NO_TRANSACTION)
  BY <1>1, <1>2, <1>3, NoTransactionShows
<1>4. CASE InTxn /\ ResizeFails /\ Ends(<<"create">>, IO_ERROR)
  BY <1>1, <1>2, <1>4, ResizeFailsShows
<1>5. CASE ModifyAgain(objlist) /\ UNCHANGED result
  <2>1. UNCHANGED <<data, objlist, blocks, txn, freelist, pc>>
    BY <1>5 DEF ModifyAgain, disk, state, loop
  <2> QED BY <1>1, <1>2, <1>5, <2>1, QuietArrays, Unseen
<1>6. CASE ModifyObjlist /\ UNCHANGED result
  <2> DEFINE x == FreelistAllocate(flist[freelist], nblocks).block
  <2>1. /\ InTxn /\ blocks[objlist] = 0
        /\ Take(FreelistAllocate(flist[freelist], nblocks), objlist)
        /\ data' = [data EXCEPT ![x] = data[objlist]]
        /\ objlist' = x
        /\ UNCHANGED <<freelist, txn, pc>>
    BY <1>6 DEF ModifyObjlist, CopyOnWrite, loop
  <2>2. OpenFacts /\ TypeOK
    BY <2>1, InTxnFacts DEF ObjectsInv, IInv
  <2>3. objlist = 3 /\ objlist \notin UserBlock
    BY <2>1, <2>2, Numbers DEF OpenFacts
  <2>4. /\ x \in UserBlock /\ x \notin live
        /\ \A e \in UserBlock : CopyIn(blocks', e) = CopyIn(blocks, e)
        /\ data'[x] = data[objlist]
        /\ \A b \in Block : b # x => data'[b] = data[b]
        /\ ObjectPhase = "open" /\ ObjectPhase' = "open" /\ Saved' = Saved
        /\ Usable /\ Usable'
    <3>1. objlist \in live \cup {objlist, ALLOCATED}
      OBVIOUS
    <3>2. \A e \in UserBlock : e # objlist
      BY <2>3
    <3> QED BY <2>1, <2>3, <3>1, <3>2, TakenShows
  <2> HIDE DEF x
  <2>5. ObjList' = ObjList /\ Finished' = ObjList
    BY <1>1, <2>1, <2>4 DEF ObjList, Finished, RootsIn
  <2>6. /\ Working = Shown(ObjList, blocks, data)
        /\ \A i \in DOMAIN ObjList : /\ CopyIn(blocks, ObjList[i]) \in live
                                     /\ CopyIn(blocks, ObjList[i]) \in Block
                                     /\ ObjList[i] \in UserBlock
    BY <1>1, <2>4, WorkingFacts
  <2>7. Working' = Shown(ObjList, blocks', data')
    BY <2>4, <2>5, WorkingIsNext DEF WorkingShown
  <2>8. Working' = Working
    BY <2>4, <2>6, <2>7 DEF Shown
  <2> QED BY <1>2, <1>6, <2>4, <2>8, Unseen
<1> QED BY <1>3, <1>4, <1>5, <1>6 DEF CreateStart

\* edb_array_create allocates the root, or gives up.
LEMMA CreateAllocateShows ==
  ASSUME ObjectsInv, ObjectsInv', CreateAllocate
  PROVE  ArrayStep
<1> DEFINE h == call.h
           x == FreelistAllocate(flist[freelist], nblocks).block
<1>1. call.at = "allocate"
  BY DEF CreateAllocate, Creating
<1>2. h \in Handle /\ InTxn /\ handles[h] = NULL
  BY <1>1 DEF ObjectsInv, OInv, CallOK
<1>3. CASE InTxn /\ ResizeFails /\ Ends(<<"create">>, IO_ERROR) /\ UNCHANGED handles
  <2>1. call'.at = "idle"
    BY <1>3, IdleCall DEF Ends
  <2>2. \A g \in Handle : NameOf(handles', call', g) = NameOf(handles, call, g)
    BY <1>1, <1>2, <1>3, <2>1 DEF NameOf
  <2> QED BY <1>1, <1>3, <2>2, SameNames, ResizeFailsShows
<1>4. ASSUME txn_allocate_block, call' = [call EXCEPT !.at = "list"], UNCHANGED result,
             NEW new, handles' = [handles EXCEPT ![h] = new]
      PROVE  ArrayStep
  <2>1. call'.at = "list" /\ call'.h = h
    <3>1. call' = [at |-> "list", h |-> h]
      BY <1>1, <1>4, NextPart DEF ObjectsInv, ApiOK
    <3> QED BY <3>1
  <2>2. Names' = Names
    <3>1. \A g \in Handle : g # h => handles'[g] = handles[g]
      BY <1>2, <1>4 DEF ObjectsInv, OInv, HandlesOK
    <3>2. \A g \in Handle : NameOf(handles', call', g) = NameOf(handles, call, g)
      BY <1>1, <1>2, <2>1, <3>1 DEF NameOf
    <3> QED BY <3>2, SameNames
  <2>3. /\ Take(FreelistAllocate(flist[freelist], nblocks), ALLOCATED)
        /\ UNCHANGED <<data, freelist, objlist, txn, pc>>
    BY <1>4 DEF txn_allocate_block, loop
  <2>4. TypeOK /\ ALLOCATED \notin UserBlock
    BY Numbers DEF ObjectsInv, IInv
  <2>5. data' = [data EXCEPT ![x] = data[x]]
    BY <2>3, <2>4 DEF TypeOK
  <2>6. /\ \A e \in UserBlock : CopyIn(blocks', e) = CopyIn(blocks, e)
        /\ ObjectPhase = "open" /\ ObjectPhase' = "open" /\ Saved' = Saved
        /\ Usable /\ Usable'
    BY <1>2, <2>3, <2>4, <2>5, TakenShows
  <2>7. ObjList' = ObjList /\ Finished' = ObjList
    BY <2>1, <2>3 DEF ObjList, Finished, RootsIn
  <2>8. /\ Working = Shown(ObjList, blocks, data)
        /\ \A i \in DOMAIN ObjList : ObjList[i] \in UserBlock
    BY <1>1, <2>6, WorkingFacts
  <2>9. Working' = Shown(ObjList, blocks', data)
    BY <2>3, <2>6, <2>7, WorkingIsNext DEF WorkingShown
  <2>10. Working' = Working
    BY <2>6, <2>8, <2>9 DEF Shown
  <2> QED BY <1>4, <2>2, <2>6, <2>10, Unseen
<1> QED BY <1>3, <1>4 DEF CreateAllocate

\* The new root is in the list, but does not show yet.
LEMMA CreateListShows ==
  ASSUME ObjectsInv, ObjectsInv', CreateList
  PROVE  ArrayStep
<1> DEFINE h == call.h
           t == Target
<1>1. /\ call.at = "list" /\ UNCHANGED <<txn_id, handles, result>>
      /\ Put(objlist, Append(ObjList, t)) /\ call' = [call EXCEPT !.at = "init"]
  BY DEF CreateList, Creating, ObjList
<1>2. h \in Handle /\ InTxn /\ objlist # 3 /\ t \in live
  BY <1>1 DEF ObjectsInv, OInv, CallOK
<1>3. /\ OpenFacts /\ TypeOK /\ IInv /\ OInv /\ t \in Nat
      /\ ObjectPhase = "open" /\ pc = "ready" /\ Usable
  <2>1. t \in Block
    BY <1>2, WritableFacts DEF ObjectsInv
  <2> QED BY <1>2, <2>1, InTxnFacts, OpenPhase, Numbers DEF ObjectsInv, IInv
<1>4. objlist \in Block /\ 3 \in Block /\ ObjList \in Seq(Nat)
  BY <1>3, ObjListIsList
<1> HIDE DEF t, h
<1>5. call'.at = "init" /\ call'.h = h /\ call.h = h
  <2>1. call' = [at |-> "init", h |-> call.h]
    BY <1>1, NextPart DEF ObjectsInv, ApiOK
  <2> QED BY <2>1 DEF h
<1>6. Names' = Names
  <2>1. \A g \in Handle : NameOf(handles', call', g) = NameOf(handles, call, g)
    BY <1>1, <1>5 DEF NameOf
  <2> QED BY <2>1, SameNames
<1>7. /\ data' = [data EXCEPT ![objlist] = Append(ObjList, t)]
      /\ UNCHANGED <<nblocks, freelist, objlist, txn, blocks, pc>>
  BY <1>1 DEF Put, io, state, loop
<1>8. /\ data'[objlist] = Append(ObjList, t)
      /\ \A b \in Block : b # objlist => data'[b] = data[b]
  BY <1>3, <1>4, <1>7 DEF TypeOK
<1>9. Usable' /\ ObjectPhase' = "open"
  BY <1>3, <1>7, ReadyPhase DEF Usable, Mapped, Aborting
<1>10. Saved' = Saved
  <2>1. objlist \notin Committed /\ Committed \subseteq Block
    BY <1>2, <1>3, Numbers DEF OpenFacts, Disjoint, Copied, Committed, TypeOK
  <2> QED BY <1>2, <1>3, <1>4, <1>8, <1>9, <2>1, SavedKept
<1>11. Finished' = ObjList
  <2>1. Finished' = Front(Append(ObjList, t))
    BY <1>5, <1>7, <1>8 DEF Finished, RootsIn, ObjList
  <2>2. Front(Append(ObjList, t)) = ObjList
    BY <1>3, <1>4 DEF Front
  <2> QED BY <2>1, <2>2
<1>12. /\ Working = Shown(ObjList, blocks, data)
       /\ \A i \in DOMAIN ObjList : /\ CopyIn(blocks, ObjList[i]) \in live
                                    /\ CopyIn(blocks, ObjList[i]) \in Block
  BY <1>1, <1>3, WorkingFacts
<1>13. Working' = Shown(ObjList, blocks, data')
  BY <1>7, <1>9, <1>11, WorkingIsNext DEF WorkingShown
<1>14. objlist \notin live
  BY <1>2, <1>3, Numbers DEF OpenFacts, Disjoint, Copied
<1>15. Working' = Working
  BY <1>8, <1>12, <1>13, <1>14 DEF Shown
<1> QED BY <1>1, <1>3, <1>6, <1>9, <1>10, <1>15, Unseen

\* The array is empty: the object is there.
LEMMA CreateInitShows ==
  ASSUME ObjectsInv, ObjectsInv', CreateInit
  PROVE  ArrayStep
<1> DEFINE h == call.h
           t == Target
           n == Len(ObjList)
<1>1. /\ call.at = "init" /\ call' = Idle /\ UNCHANGED <<txn_id, handles>>
      /\ Put(t, <<>>) /\ Answer(<<"create">>, OK, 0)
  BY DEF CreateInit, Creating, Ends
<1>2. /\ h \in Handle /\ InTxn /\ t \in live /\ blocks[t] = ALLOCATED
      /\ Live(h) /\ handles[h].obj_id + 1 = n
  BY <1>1 DEF ObjectsInv, OInv, CallOK
<1>3. /\ OpenFacts /\ TypeOK /\ IInv /\ OInv
      /\ t \in Block /\ t # objlist /\ t # 3
      /\ ObjectPhase = "open" /\ pc = "ready" /\ Usable
  BY <1>2, WritableFacts, InTxnFacts, OpenPhase DEF ObjectsInv
<1>4. /\ ObjList \in Seq(Nat) /\ DOMAIN ObjList = 1 .. n /\ n \in Nat
      /\ handles[h].obj_id \in Nat /\ handles[h] # NULL
  <2>1. handles[h] # NULL /\ handles[h].obj_id \in Nat
    BY <1>2, <1>3 DEF Live, OInv, HandlesOK
  <2> QED BY <1>3, <2>1, ObjListIsList
<1>5. n \in 1 .. n /\ handles[h].obj_id = n - 1
  BY <1>2, <1>4
<1>6. t = CopyIn(blocks, ObjList[n])
  <2>1. ~Making(h)
    BY <1>1 DEF Making
  <2>2. handles[h].root = CopyIn(blocks, ObjList[handles[h].obj_id + 1])
    BY <1>2, <1>3, <2>1 DEF OInv, HandlesKnow
  <2> QED BY <1>2, <2>2 DEF Target
<1>7. /\ \A i \in DOMAIN ObjList : CopyIn(blocks, ObjList[i]) \in Block
      /\ Apart(ObjList, blocks)
  <2>1. (\A i \in DOMAIN ObjList : CopyIn(blocks, ObjList[i]) \in live)
        /\ Apart(ObjList, blocks)
    BY <1>3 DEF OInv, Held, HeldBy
  <2>2. live \subseteq Block
    BY <1>3, Numbers DEF TypeOK
  <2> QED BY <2>1, <2>2
<1>8. Finished = Front(ObjList) /\ DOMAIN Finished = 1 .. n - 1
      /\ Finished \in Seq(Nat) /\ Len(Finished) = n - 1
      /\ \A i \in 1 .. n - 1 : Finished[i] = ObjList[i]
  <2>1. Finished = Front(ObjList)
    BY <1>1 DEF Finished, RootsIn
  <2> QED BY <1>4, <1>5, <2>1 DEF Front
<1>9. call'.at = "idle" /\ call.h = h
  BY <1>1, IdleCall
<1>10. Names[h] = NULL /\ Names' = [Names EXCEPT ![h] = n - 1]
  <2>1. \A g \in Handle : NameOf(handles', call', g)
                            = IF g = h THEN n - 1 ELSE NameOf(handles, call, g)
    BY <1>1, <1>4, <1>5, <1>9 DEF NameOf
  <2> QED BY <1>1, <1>2, <1>9, <2>1, NamesAre, NamesAreNext DEF NameOf
<1> HIDE DEF t, h, n
<1>11. /\ data' = [data EXCEPT ![t] = <<>>]
       /\ UNCHANGED <<nblocks, freelist, objlist, txn, blocks, pc>>
  BY <1>1 DEF Put, io, state, loop
<1>12. data'[t] = <<>> /\ \A b \in Block : b # t => data'[b] = data[b]
  BY <1>3, <1>11 DEF TypeOK
<1>13. Usable' /\ ObjectPhase' = "open"
  BY <1>3, <1>11, ReadyPhase DEF Usable, Mapped, Aborting
<1>14. Saved' = Saved
  <2>1. t \notin Committed /\ Committed \subseteq Block /\ 3 \in Block
    BY <1>2, <1>3, Numbers DEF OpenFacts, Disjoint, Copied, Committed, TypeOK
  <2> QED BY <1>3, <1>12, <1>13, <2>1, SavedKept
<1>15. Finished' = ObjList
  <2>1. Finished' = ObjList' /\ ObjList' = ObjList
    BY <1>3, <1>9, <1>11, <1>12, ObjListIsList DEF Finished, RootsIn, ObjList
  <2> QED BY <2>1
<1>16. Working = Shown(Finished, blocks, data)
  BY <1>3, WorkingIs DEF WorkingShown
<1>17. Working' = Shown(ObjList, blocks, data')
  BY <1>11, <1>13, <1>15, WorkingIsNext DEF WorkingShown
<1>18. /\ Working \in Seq(Value) /\ Len(Working) = n - 1
       /\ \A i \in 1 .. n - 1 : Working[i] = data[CopyIn(blocks, ObjList[i])]
  <2>1. data \in [Block -> Value]
    BY <1>3 DEF TypeOK
  <2>2. \A i \in 1 .. n - 1 : i \in DOMAIN ObjList
    BY <1>4
  <2> QED BY <1>7, <1>8, <1>16, <2>1, <2>2, ShownIs
<1>19. \A i \in 1 .. n - 1 :
         data'[CopyIn(blocks, ObjList[i])] = data[CopyIn(blocks, ObjList[i])]
  <2> TAKE i \in 1 .. n - 1
  <2>1. i \in DOMAIN ObjList /\ n \in DOMAIN ObjList /\ i # n
    BY <1>4, <1>5
  <2>2. CopyIn(blocks, ObjList[i]) # t
    BY <1>6, <1>7, <2>1 DEF Apart
  <2> QED BY <1>7, <1>12, <2>1, <2>2
<1>20. Working' = Append(Working, <<>>)
  <2> DEFINE v == Append(Working, <<>>)
             f(i) == data'[CopyIn(blocks, ObjList[i])]
  <2>1. /\ \A i \in 1 .. n - 1 : v[i] = Working[i]
        /\ v[n] = <<>>
        /\ v = [i \in 1 .. n |-> v[i]]
    <3> DEFINE w == Working
    <3>1. <<>> \in Value
      BY ValueAssumption, ArrayAssumption
    <3>2. n \in Nat /\ n >= 1
      BY <1>4, <1>5
    <3>3. w \in Seq(Value) /\ Len(w) = n - 1
      BY <1>18
    <3> HIDE DEF w
    <3>4. /\ Append(w, <<>>) \in Seq(Value)
          /\ Len(Append(w, <<>>)) = Len(w) + 1
          /\ \A i \in 1 .. Len(w) : Append(w, <<>>)[i] = w[i]
          /\ Append(w, <<>>)[Len(w) + 1] = <<>>
      BY <3>1, <3>3, AppendProperties
    <3>5. n - 1 + 1 = n
      BY <3>2
    <3>6. Len(Append(w, <<>>)) = n
      BY <3>3, <3>4, <3>5
    <3>7. Append(w, <<>>) \in [1 .. n -> Value]
      BY <3>4, <3>6, LenProperties
    <3>8. /\ \A i \in 1 .. n - 1 : Append(w, <<>>)[i] = w[i]
          /\ Append(w, <<>>)[n] = <<>>
          /\ Append(w, <<>>) = [i \in 1 .. n |-> Append(w, <<>>)[i]]
      BY <3>3, <3>4, <3>5, <3>7
    <3> USE DEF w
    <3> QED BY ONLY <3>8
  <2>2. Working' = [i \in 1 .. n |-> f(i)]
    BY <1>4, <1>17 DEF Shown
  <2>3. \A i \in 1 .. n : f(i) = v[i]
    <3> TAKE i \in 1 .. n
    <3>1. CASE i = n
      BY <1>6, <1>12, <2>1, <3>1
    <3>2. CASE i \in 1 .. n - 1
      <4>1. v[i] = Working[i]
        BY <2>1, <3>2
      <4>2. Working[i] = data[CopyIn(blocks, ObjList[i])]
        BY <1>18, <3>2
      <4>3. data'[CopyIn(blocks, ObjList[i])] = data[CopyIn(blocks, ObjList[i])]
        BY <1>19, <3>2
      <4> QED BY <4>1, <4>2, <4>3
    <3>3. i = n \/ i \in 1 .. n - 1
      BY <1>4, <1>5
    <3> QED BY <3>1, <3>2, <3>3
  <2> HIDE DEF v, f
  <2>4. [i \in 1 .. n |-> f(i)] = [i \in 1 .. n |-> v[i]]
    BY ONLY <2>3
  <2>5. Working' = v
    BY ONLY <2>1, <2>2, <2>4
  <2> QED BY <2>5 DEF v
<1>21. Objs!Create(h)
  BY <1>1, <1>3, <1>10, <1>13, <1>14, <1>18, <1>20
     DEF Objs!Create, Objs!Answer, Answer, OK
<1> QED BY <1>2, <1>21 DEF ArrayStep, Objs!Next

-----------------------------------------------------------------------------
(***************************************************************************)
(* The theorem.                                                            *)
(***************************************************************************)

\* The initial states.
LEMMA StartShows == ObjectsInit => Objs!Init
<1> SUFFICES ASSUME ObjectsInit PROVE Objs!Init
  OBVIOUS
<1>1. /\ Init /\ handles = [h \in Handle |-> NULL]
      /\ call = Idle /\ result = [call |-> <<>>, err |-> OK, out |-> 0]
  BY DEF ObjectsInit
<1>2. data[3] = <<>> /\ objlist = 3 /\ txn = FALSE
  BY <1>1, ArrayAssumption, Numbers DEF Init
<1>3. call.at = "idle"
  BY <1>1, IdleCall
<1>4. ObjectPhase = "closed"
  BY <1>2 DEF ObjectPhase
<1>5. Working = <<>>
  <2>1. RootsIn(data[objlist]) = <<>>
    BY <1>2, <1>3 DEF RootsIn
  <2>2. Working = [i \in DOMAIN <<>> |-> data[Latest(<<>>[i])]]
    BY <2>1 DEF Working
  <2> QED BY <2>2
<1>6. Saved = Working
  BY <1>4 DEF Saved
<1>7. Names = [h \in Handle |-> NULL]
  BY <1>1 DEF Names
<1> QED BY <1>1, <1>4, <1>5, <1>6, <1>7 DEF Objs!Init, OK

\* Each step.
LEMMA StepShows ==
  ASSUME ObjectsInv, ObjectsInv', ObjectsNext
  PROVE  ArrayStep
<1>1. CASE TxnRefused
  BY <1>1, RefusedShows
<1>2. CASE edb_txn_begin
  BY <1>2, BeginShows
<1>3. CASE edb_txn_commit
  BY <1>3, CommitStartShows, CommitLoopShows, CommitEndShows
     DEF edb_txn_commit, CommitStep
<1>4. CASE edb_txn_abort
  BY <1>4, AbortShows
<1>5. ASSUME NEW h \in Handle,
             \/ CreateStart(h) \/ Forget(h)
             \/ \E id \in ObjId : edb_array_open(h, id)
      PROVE  ArrayStep
  BY <1>5, CreateStartShows, ForgetShows, OpenShows
<1>6. ASSUME NEW h \in Handle,
             edb_array_length(h) \/ \E i \in Index : edb_array_get(h, i)
      PROVE  ArrayStep
  BY <1>6, ReadShows
<1>7. ASSUME NEW h \in Handle, edb_array_pop(h)
      PROVE  ArrayStep
  <2>1. <<"pop">> \in Objs!Changing
    BY DEF Objs!Changing
  <2> QED BY <1>7, <2>1, WriteShows DEF edb_array_pop
<1>8. ASSUME NEW h \in Handle, NEW x \in Item, edb_array_push(h, x)
      PROVE  ArrayStep
  <2>1. <<"push", x>> \in Objs!Changing
    BY DEF Objs!Changing
  <2> QED BY <1>8, <2>1, WriteShows DEF edb_array_push
<1>9. ASSUME NEW h \in Handle, NEW i \in Index, NEW x \in Item,
             edb_array_set(h, i, x)
      PROVE  ArrayStep
  <2>1. <<"set", i, x>> \in Objs!Changing
    BY DEF Objs!Changing
  <2> QED BY <1>9, <2>1, WriteShows DEF edb_array_set
<1>10. CASE CreateAllocate \/ CreateList \/ CreateInit
  BY <1>10, CreateAllocateShows, CreateListShows, CreateInitShows
<1>11. CASE ApplyPush \/ ApplyPop \/ ApplySet
  BY <1>11, ApplyShows
<1> QED BY <1>1, <1>2, <1>3, <1>4, <1>5, <1>6, <1>7, <1>8, <1>9, <1>10, <1>11
        DEF ObjectsNext

\* For a careful caller the array API is a store of arrays: a call does what
\* it says to the object it names and to no other, what it returns is what
\* the arrays hold, a commit keeps them and an abort brings the old ones
\* back; edb_array_set is let off when it returns OK.
THEOREM ArraysImplementStore == CarefulFewSpec => ImplementsObjectStore
<1>1. ObjectsInit => Objs!Init
  BY StartShows
<1>2. ObjectsInv /\ [ObjectsNext /\ Careful /\ FewTransactions]_objectVars
        => [SetReturns \/ [Objs!Next]_(Objs!vars)]_objectVars
  <2> SUFFICES ASSUME ObjectsInv, ObjectsNext, Careful, FewTransactions
               PROVE  SetReturns \/ [Objs!Next]_(Objs!vars)
    OBVIOUS
  <2>1. ObjectsInv'
    BY CarefulStep
  <2> QED BY <2>1, StepShows DEF ArrayStep
<1> QED BY <1>1, <1>2, ObjectsInvariance, PTL
        DEF CarefulFewSpec, ImplementsObjectStore
=============================================================================
