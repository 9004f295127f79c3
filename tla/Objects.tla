------------------------------ MODULE Objects ------------------------------
(***************************************************************************)
(* The array API of everdb-native: edb.c's object list and object handles, *)
(* on top of the block store of Txn.tla, with the parts of array.c that    *)
(* arrays use while they fit in their root block.                          *)
(*                                                                         *)
(* The object list (block 3, or its copy) is an array of root blocks; an   *)
(* object is named by its index in it.  A handle remembers the root it     *)
(* last saw and the txn_id at which it saw it, and looks the root up again *)
(* when db->txn_id has moved on.                                           *)
(*                                                                         *)
(* A call that makes several calls of the block API takes one step for     *)
(* each of them (`call' says where it is), because each can fail and each  *)
(* is a step of Txn; nothing else happens before it returns.               *)
(***************************************************************************)
EXTENDS Txn

CONSTANTS
  Handle,       \* the caller's handle variables
  NULL,         \* an unused one
  Item,         \* what a caller's array holds
  ObjId,        \* the object numbers the caller may try to open
  Index,        \* the indexes it may try to access
  TxnIdMax      \* the largest value of db->txn_id, a u32

\* The arrays that fit in a block are the values a block may hold; a list of
\* blocks fits in one whatever the blocks.
ASSUME ArrayAssumption ==
  /\ Value \subseteq Seq(Nat)
  /\ Zero = <<>>
  /\ \A a \in Value : a # <<>> => Front(a) \in Value
  /\ \A a \in Value, b \in Block :
       Append(a, 0) \in Value => Append(a, b) \in Value
  /\ Item \subseteq Nat /\ Index \subseteq Nat

ASSUME TxnIdAssumption == TxnIdMax \in Nat /\ TxnIdMax > 0

ASSUME HandleAssumption ==
  /\ NULL \notin [obj_id : Nat, txn_id : 0 .. TxnIdMax, root : Block]
  /\ NULL \notin Nat
  /\ ObjId \subseteq Nat

ERR_ARRAY_INDEX_OUT_OF_BOUNDS == 3201

VARIABLES
  txn_id,       \* db->txn_id
  handles,      \* the obj_handle each variable points to
  call,         \* where a call in progress is
  result        \* the last call on an array and what it returned

api == <<txn_id, handles, call, result>>
objectVars == <<vars, api>>

Idle == [at |-> "idle"]

\* The caller may make a call.
Between == call = Idle

Answer(c, err, out) == result' = [call |-> c, err |-> err, out |-> out]

\* What array_get(db, db->objlist, id, &root) reads, and whether it can.
Listed(id) == id < Len(data[objlist])
Entry(id) == data[objlist][id + 1]

-----------------------------------------------------------------------------
(***************************************************************************)
(* Handles.                                                                *)
(***************************************************************************)

Stale(h) == handles[h].txn_id # txn_id

\* The root that obj_read and obj_write go on with.
Root(h) == IF Stale(h) THEN Entry(handles[h].obj_id) ELSE handles[h].root

Resolves(h) == Stale(h) => Listed(handles[h].obj_id)

\* The handle once it has seen root r in this transaction.
Seen(h, r) == handles' = [handles EXCEPT ![h].txn_id = txn_id, ![h].root = r]

\* Mutant: the -1 is kept signed.
ArrayOpenSigned(h, id) ==
  /\ Between
  /\ handles[h] = NULL
  /\ handles' = [handles EXCEPT
                   ![h] = [obj_id |-> id, txn_id |-> -1, root |-> 0]]
  /\ UNCHANGED <<vars, txn_id, call, result>>

\* edb_array_open sets txn_id to -1 so that the root will be looked up.
edb_array_open(h, id) ==
  /\ Between
  /\ handles[h] = NULL
  /\ handles' = [handles EXCEPT
                   ![h] = [obj_id |-> id, txn_id |-> TxnIdMax, root |-> 0]]
  /\ UNCHANGED <<vars, txn_id, call, result>>

\* The caller drops a handle: the API has no call for that.
Forget(h) ==
  /\ Between
  /\ handles[h] # NULL
  /\ handles' = [handles EXCEPT ![h] = NULL]
  /\ UNCHANGED <<vars, txn_id, call, result>>

Uses(h) == Between /\ Ready /\ Mapped /\ handles[h] # NULL

\* The handle names no object: array_get fails and nothing has changed.
NotListed(h, c) ==
  /\ ~Resolves(h)
  /\ Answer(c, ERR_ARRAY_INDEX_OUT_OF_BOUNDS, 0)
  /\ UNCHANGED <<vars, txn_id, handles, call>>

\* array_get.
Read(c, a, i) ==
  IF i < Len(a) THEN Answer(c, OK, a[i + 1])
                ELSE Answer(c, ERR_ARRAY_INDEX_OUT_OF_BOUNDS, 0)

edb_array_get(h, i) ==
  /\ Uses(h)
  /\ \/ NotListed(h, <<"get", i>>)
     \/ /\ Resolves(h)
        /\ Seen(h, Root(h))
        /\ Read(<<"get", i>>, data[Root(h)], i)
        /\ UNCHANGED <<vars, txn_id, call>>

edb_array_length(h) ==
  /\ Uses(h)
  /\ \/ NotListed(h, <<"length">>)
     \/ /\ Resolves(h)
        /\ Seen(h, Root(h))
        /\ Answer(<<"length">>, OK, Len(data[Root(h)]))
        /\ UNCHANGED <<vars, txn_id, call>>

-----------------------------------------------------------------------------
(***************************************************************************)
(* Changing an array: obj_write, then array_push, array_pop, array_get.    *)
(***************************************************************************)

\* A call that ends here, having changed no block.
Ends(c, err) == Answer(c, err, 0) /\ call' = Idle

\* Mutant: the handle keeps the root it had before the copy.
RootKept(h) == Root(h)

\* The root edb_modify_block leaves in the handle when it has to copy it.
CopiedRoot(h) == FreelistAllocate(flist[freelist], nblocks).block

\* obj_write: the handle is refreshed, then its root is made writable.
obj_write(h, c) ==
  /\ Uses(h)
  /\ \/ NotListed(h, c)
     \/ /\ Resolves(h)
        /\ \/ /\ NoTransaction
              /\ Seen(h, Root(h))
              /\ Ends(c, EDB_ERR_TXN_NO_TRANSACTION)
           \/ /\ txn_modify_block(Root(h))
              /\ Seen(h, CopiedRoot(h))
              /\ call' = [at |-> "apply", h |-> h, c |-> c]
              /\ UNCHANGED result
           \/ /\ ModifyAgain(Root(h))
              /\ Seen(h, Root(h))
              /\ call' = [at |-> "apply", h |-> h, c |-> c]
              /\ UNCHANGED result
           \/ /\ InTxn /\ blocks[Root(h)] = 0 /\ ResizeFails
              /\ Seen(h, Root(h))
              /\ Ends(c, IO_ERROR)
        /\ UNCHANGED txn_id

\* The array a push would leave fits in the block (a larger one would get a
\* page table).
Fits(h, x) == Resolves(h) => Append(data[Root(h)], x) \in Value

edb_array_push(h, x) ==
  Uses(h) /\ Fits(h, x) /\ obj_write(h, <<"push", x>>)

edb_array_pop(h) == obj_write(h, <<"pop">>)
edb_array_set(h, i, x) == obj_write(h, <<"set", i, x>>)

\* The second half of the three calls: the root is writable, handle and all.
Applying(op) == call.at = "apply" /\ call.c[1] = op

Target == handles[call.h].root

\* A store through db->data, into whatever block the caller names.
Put(b, v) ==
  /\ data' = [data EXCEPT ![b] = v]
  /\ UNCHANGED <<io, flist, freelist, objlist, state, loop, live, rc>>

ApplyPush ==
  /\ Applying("push")
  /\ Put(Target, Append(data[Target], call.c[2]))
  /\ Ends(call.c, OK)
  /\ UNCHANGED <<txn_id, handles>>

\* array_pop reads the last item first, and leaves an empty array alone.
ApplyPop ==
  /\ Applying("pop")
  /\ call' = Idle
  /\ \/ /\ data[Target] = <<>>
        /\ Answer(call.c, ERR_ARRAY_INDEX_OUT_OF_BOUNDS, 0)
        /\ UNCHANGED vars
     \/ /\ data[Target] # <<>>
        /\ Answer(call.c, OK, Last(data[Target]))
        /\ Put(Target, Front(data[Target]))
  /\ UNCHANGED <<txn_id, handles>>

\* edb_array_set ends in array_get: it reads the item it was to replace.
ApplySet ==
  /\ Applying("set")
  /\ call' = Idle
  /\ Read(call.c, data[Target], call.c[2])
  /\ UNCHANGED <<vars, txn_id, handles>>

-----------------------------------------------------------------------------
(***************************************************************************)
(* edb_array_create: obj_create makes the object list writable, allocates  *)
(* the root, adds it to the list; array_init then empties the array.       *)
(***************************************************************************)

Creating(step) == call.at = step

CreateStart(h) ==
  /\ Between
  /\ handles[h] = NULL
  /\ \/ /\ NoTransaction
        /\ Ends(<<"create">>, EDB_ERR_TXN_NO_TRANSACTION)
     \/ /\ InTxn /\ blocks[objlist] = 0 /\ ResizeFails
        /\ Ends(<<"create">>, IO_ERROR)
     \/ /\ Append(data[objlist], 0) \in Value  \* the list fits in its block
        /\ ModifyObjlist \/ ModifyAgain(objlist)
        /\ call' = [at |-> "allocate", h |-> h]
        /\ UNCHANGED result
  /\ UNCHANGED <<txn_id, handles>>

CreateAllocate ==
  /\ Creating("allocate")
  /\ \/ /\ txn_allocate_block
        /\ handles' = [handles EXCEPT ![call.h] =
             [obj_id |-> Len(data[objlist]), txn_id |-> txn_id,
              root |-> FreelistAllocate(flist[freelist], nblocks).block]]
        /\ call' = [call EXCEPT !.at = "list"]
        /\ UNCHANGED result
     \/ /\ InTxn /\ ResizeFails
        /\ Ends(<<"create">>, IO_ERROR)
        /\ UNCHANGED handles
  /\ UNCHANGED txn_id

CreateList ==
  /\ Creating("list")
  /\ Put(objlist, Append(data[objlist], Target))
  /\ call' = [call EXCEPT !.at = "init"]
  /\ UNCHANGED <<txn_id, handles, result>>

\* Mutant: edb_array_create forgets array_init.
CreateNoInit ==
  /\ Creating("init")
  /\ Ends(<<"create">>, OK)
  /\ UNCHANGED <<vars, txn_id, handles>>

CreateInit ==
  /\ Creating("init")
  /\ Put(Target, <<>>)
  /\ Ends(<<"create">>, OK)
  /\ UNCHANGED <<txn_id, handles>>

-----------------------------------------------------------------------------
(***************************************************************************)
(* Transactions: those of Txn.tla, and db->txn_id moves on.                *)
(***************************************************************************)

NextTxnId == txn_id' = (txn_id + 1) % (TxnIdMax + 1)

edb_txn_begin ==
  /\ Between
  /\ \/ txn_begin /\ NextTxnId
     \/ txn_begin_nested /\ UNCHANGED txn_id
  /\ UNCHANGED <<handles, call, result>>

CommitStep ==
  /\ Between
  /\ CommitStart \/ \E k \in todo : CommitObjlist(k) \/ CommitEntry(k)
  /\ UNCHANGED api

CommitReturns ==
  /\ Between /\ CommitEnd /\ NextTxnId
  /\ UNCHANGED <<handles, call, result>>

edb_txn_commit == CommitStep \/ CommitReturns

edb_txn_abort ==
  /\ Between
  /\ \/ txn_abort /\ NextTxnId
     \/ AbortFails /\ UNCHANGED txn_id
  /\ UNCHANGED <<handles, call, result>>

ObjectsInit ==
  /\ Init
  /\ txn_id = 0
  /\ handles = [h \in Handle |-> NULL]
  /\ call = Idle
  /\ result = [call |-> <<>>, err |-> OK, out |-> 0]

\* edb_txn_commit or edb_txn_abort with no transaction open.
TxnRefused == Between /\ NoTransaction /\ UNCHANGED api

ObjectsNext ==
  \/ TxnRefused
  \/ edb_txn_begin \/ edb_txn_commit \/ edb_txn_abort
  \/ \E h \in Handle :
       \/ CreateStart(h) \/ Forget(h)
       \/ \E id \in ObjId : edb_array_open(h, id)
       \/ edb_array_length(h) \/ edb_array_pop(h)
       \/ \E x \in Item : edb_array_push(h, x)
       \/ \E i \in Index : \/ edb_array_get(h, i)
                           \/ \E x \in Item : edb_array_set(h, i, x)
  \/ CreateAllocate \/ CreateList \/ CreateInit
  \/ ApplyPush \/ ApplyPop \/ ApplySet

\* Any caller.
ObjectsSpec == ObjectsInit /\ [][ObjectsNext]_objectVars

-----------------------------------------------------------------------------
(***************************************************************************)
(* What the caller must not do.                                            *)
(***************************************************************************)

\* Two handles on one object copy its root twice.
OneHandlePerObject ==
  \A g, h \in Handle :
    /\ handles[g] # NULL /\ handles[h] # NULL
    /\ handles[g].obj_id = handles[h].obj_id
    => g = h

\* Copies of the roots of objects of earlier transactions.
CopiedRoots ==
  {k \in Block : IsCopy(k)} \ {EDB_FREELIST_SECONDARY, objlist}

\* obj_write does not store the root it has copied in the object list: only
\* the handle knows it, and with the handle the change is lost.
Changed(h) == Phase = "open" /\ ~Stale(h) /\ IsCopy(handles[h].root)

KeepsChanged == \A h \in Handle : Forget(h) => ~Changed(h)

\* A commit loses such a change too.
NoOldObjectChanged == CopiedRoots = {}

\* edb_array_set does not set: it must not get as far as to return OK.
NothingSet == call.at = "apply" => call.c[1] # "set"

\* A caller that knows: it has one handle per object, keeps those it has
\* changed an object through, and commits nothing that changed an object of
\* an earlier transaction.
Careful ==
  /\ OneHandlePerObject'
  /\ KeepsChanged
  /\ (pc = "ready" /\ pc' = "commit") => NoOldObjectChanged

\* db->txn_id stays below its maximum, which the handles of edb_array_open
\* hold: true of the first four thousand million transactions.
FewTransactions == txn_id' < TxnIdMax

CarefulFewSpec ==
  ObjectsInit /\ [][ObjectsNext /\ Careful /\ FewTransactions]_objectVars

-----------------------------------------------------------------------------
(***************************************************************************)
(* Properties.                                                             *)
(***************************************************************************)

Call ==
  {Idle}
    \cup [at : {"allocate", "list", "init"}, h : Handle]
    \cup [at : {"apply"}, h : Handle,
          c : {<<"push", x>> : x \in Item} \cup {<<"pop">>}
                \cup {<<"set", i, x>> : i \in Index, x \in Item}]

\* The values the C declarations and the code's use of them allow.
ObjectsTypeOK ==
  /\ TypeOK
  /\ txn_id \in 0 .. TxnIdMax
  /\ handles \in [Handle -> {NULL} \cup
        [obj_id : Nat, txn_id : 0 .. TxnIdMax, root : Block]]
  /\ call \in Call
  /\ result.err \in {OK, IO_ERROR, EDB_ERR_TXN_NO_TRANSACTION,
                     ERR_ARRAY_INDEX_OUT_OF_BOUNDS}
  /\ result.out \in Nat

\* edb.c uses the block API as Txn.tla's caller does: it modifies and writes
\* to no block but those it holds.
UsesTxn == Spec

\* The transaction as a reader of the object list sees it: it is committed
\* once block 3 holds the new list.
ObjectPhase ==
  IF ~txn \/ Aborting THEN "closed"
  ELSE IF pc = "commit" /\ objlist = EDB_OBJLIST THEN "committed" ELSE "open"

\* The block that now holds what block e held when the transaction began.
Copy(e) ==
  IF \E k \in Block : blocks[k] = e
  THEN CHOOSE k \in Block : blocks[k] = e ELSE e

Latest(e) == IF ObjectPhase = "open" THEN Copy(e) ELSE e

\* The roots in the object list, but for one whose array is not empty yet.
RootsIn(list) == IF call.at = "init" THEN Front(list) ELSE list

Working == LET list == RootsIn(data[objlist]) IN
             [i \in DOMAIN list |-> data[Latest(list[i])]]

Saved == IF ObjectPhase = "open"
         THEN LET list == data[EDB_OBJLIST] IN
                [i \in DOMAIN list |-> data[list[i]]]
         ELSE Working

BeingCreated(h) == call.at \in {"allocate", "list", "init"} /\ call.h = h

Names ==
  [h \in Handle |-> IF handles[h] = NULL \/ BeingCreated(h)
                    THEN NULL ELSE handles[h].obj_id]

Objs == INSTANCE ObjectStore WITH
  None <- NULL,
  OUT_OF_BOUNDS <- ERR_ARRAY_INDEX_OUT_OF_BOUNDS,
  NO_TRANSACTION <- EDB_ERR_TXN_NO_TRANSACTION,
  phase <- ObjectPhase,
  objects <- Working,
  saved <- Saved,
  names <- Names

\* A set that finds its item (SetSets is about those).
SetReturns == ApplySet /\ result'.err = OK

\* The array API implements the store of arrays: a call does what it says to
\* the object it names and to no other, what it returns is what the arrays
\* hold, a commit keeps them and an abort brings the old ones back; but for
\* edb_array_set, which is let off when it returns OK.
ImplementsObjectStore ==
  Objs!Init /\ [][SetReturns \/ [Objs!Next]_(Objs!vars)]_objectVars

\* Every block the API has allocated is the root of one object, and the
\* object list leads to it: none leaks, none is shared.
RootsAreHeld ==
  (Mapped /\ ~Aborting) =>
    LET list == data[objlist]
        new == IF call.at = "list" THEN {Target} ELSE {} IN
      /\ live = {Latest(list[i]) : i \in DOMAIN list} \cup new
      /\ \A i, j \in DOMAIN list : Latest(list[i]) = Latest(list[j]) => i = j

\* What the caller saw in an array before the commit is what it reads after.
CommitKeepsArrays ==
  [][CommitReturns => \A i \in DOMAIN data[objlist] :
        data'[data'[objlist'][i]] = data[Copy(data[objlist][i])]]_objectVars

\* After edb_array_set has returned OK the item has the value it was given.
SetSets ==
  [][(ApplySet /\ result'.err = OK) =>
        data'[Target][call.c[2] + 1] = call.c[3]]_objectVars

\* A handle that has been used once knows a root.
OpenedHandleFindsRoot ==
  \A h \in Handle : handles[h] # NULL /\ ~Stale(h) => handles[h].root # 0
=============================================================================
