------------------------------- MODULE Reopen -------------------------------
(***************************************************************************)
(* Objects.tla with the process that has the database open: it may close   *)
(* it, or be killed between any two steps, and another may open the file.  *)
(* The mapping is shared with the page cache, so the file then holds all   *)
(* that was stored through it; everything else is gone.  (A loss of power, *)
(* which keeps an arbitrary part of the stores, is worse.)                 *)
(***************************************************************************)
EXTENDS Objects

VARIABLES
  up,           \* a process has the database open
  leaked        \* blocks no list leads to any more

reopenVars == <<objectVars, up, leaked>>

\* The roots of the objects a newly opened file has.
OnFile == {data[EDB_OBJLIST][i] : i \in DOMAIN data[EDB_OBJLIST]}

\* What the last process knew is gone; data and lists stay as they are.
MemoryLost ==
  /\ up' = FALSE
  /\ nblocks' = 0
  /\ freelist' = EDB_FREELIST_PRIMARY
  /\ objlist' = EDB_OBJLIST
  /\ txn' = FALSE
  /\ blocks' = Unset
  /\ ts_nblocks' = 0
  /\ pc' = "ready"
  /\ todo' = {}
  /\ live' = OnFile
  /\ rc' = OK
  /\ txn_id' = 0
  /\ handles' = [h \in Handle |-> NULL]
  /\ call' = Idle
  /\ result' = [call |-> <<>>, err |-> OK, out |-> 0]
  /\ UNCHANGED <<fsize, disk>>

\* What the file had been grown by and the lists on it do not cover.
Excess == (IF txn THEN ts_nblocks ELSE nblocks) .. fsize - 1

Kill ==
  /\ up
  /\ MemoryLost
  /\ leaked' = leaked \cup Excess

\* edb_close, which refuses while a transaction is open.
edb_close ==
  /\ up /\ Between /\ Ready /\ ~txn
  /\ MemoryLost
  /\ leaked' = leaked \cup Excess

\* Mutant: the file is opened with the size of a new one.
OpenShort ==
  /\ ~up
  /\ up' = TRUE
  /\ nblocks' = EDB_USER_DATA
  /\ UNCHANGED <<fsize, disk, freelist, objlist, state, loop, live, rc, api,
                 leaked>>

\* edb_open of an existing file: the roots are the primary ones (as they are
\* here since MemoryLost), the whole file is mapped.
edb_open ==
  /\ ~up
  /\ up' = TRUE
  /\ nblocks' = fsize
  /\ UNCHANGED <<fsize, disk, freelist, objlist, state, loop, live, rc, api,
                 leaked>>

ReopenInit == ObjectsInit /\ up = TRUE /\ leaked = {}

Running == up /\ ObjectsNext /\ UNCHANGED <<up, leaked>>

ReopenNext == Running \/ Kill \/ edb_close \/ edb_open

\* A commit has put the new object list in block 3, and not yet the new free
\* list in block 1: the one and the other name the same blocks.
Torn ==
  /\ pc = "commit" /\ objlist = EDB_OBJLIST
  /\ \E k \in Block : blocks[k] = EDB_OBJLIST

\* A careful caller, and no kill in that window.
Gentle == (up => Careful /\ NothingSet') /\ ~(Kill /\ Torn)

ReopenSpec ==
  ReopenInit /\ [][ReopenNext /\ Gentle /\ FewTransactions]_reopenVars

-----------------------------------------------------------------------------

\* After any number of kills no block is in two lists, and what is in none
\* was lost to a kill that cut off a transaction, or an I/O error.
NothingShared ==
  (Mapped /\ ~Aborting) =>
    /\ IsInjective(flist[freelist])
    /\ Disjoint(Range(flist[freelist]), live, Pending, Copied)
    /\ Range(flist[freelist]) \cup live \cup Pending \cup Copied \cup leaked
         = EDB_USER_DATA .. nblocks - 1

\* The file that is opened has whole lists: no block is free twice, belongs
\* to two objects, or is both free and an object's, and all are in the file.
OpensWhole ==
  (up /\ Mapped /\ ~txn) =>
    LET free == flist[EDB_FREELIST_PRIMARY]
        list == data[EDB_OBJLIST] IN
      /\ IsInjective(free) /\ IsInjective(list)
      /\ Range(free) \cap Range(list) = {}
      /\ Range(free) \cup Range(list) \subseteq EDB_USER_DATA .. nblocks - 1

\* The store of arrays survives: a kill is an abort that also forgets the
\* handles, a close and an open change no array.
SurvivesRestarts == Objs!RestartSpec
=============================================================================
