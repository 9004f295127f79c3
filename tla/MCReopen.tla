------------------------------ MODULE MCReopen ------------------------------
(***************************************************************************)
(* Reopen.tla with arrays of up to MaxLength items and the few             *)
(* transactions of each process that db->txn_id can count here.            *)
(***************************************************************************)
EXTENDS Reopen

CONSTANT MaxLength

Empty == <<>>

ArrayValue ==
  UNION {[1 .. n -> Item] : n \in 0 .. MaxLength}
    \cup UNION {[1 .. n -> 0 .. MaxBlocks - 1] : n \in 0 .. MaxLength}

\* A file that kills in its first transactions have grown to seven blocks:
\* from eight on it grows by two blocks at a time.
GrownInit ==
  /\ fsize = 7
  /\ nblocks = 7
  /\ flist = [f \in FreeListRoot |-> <<>>]
  /\ data = [b \in Block |-> Zero]
  /\ freelist = EDB_FREELIST_PRIMARY
  /\ objlist = EDB_OBJLIST
  /\ txn = FALSE
  /\ blocks = Unset
  /\ ts_nblocks = 0
  /\ pc = "ready"
  /\ todo = {}
  /\ live = {}
  /\ rc = OK
  /\ txn_id = 0
  /\ handles = [h \in Handle |-> NULL]
  /\ call = Idle
  /\ result = [call |-> <<>>, err |-> OK, out |-> 0]
  /\ up = TRUE
  /\ leaked = 4 .. 6

RestartedSpec ==
  GrownInit /\ [][ReopenNext /\ Gentle /\ FewTransactions]_reopenVars

KilledFewSpec ==
  GrownInit /\ [][ReopenNext /\ (up => Careful) /\ FewTransactions]_reopenVars
=============================================================================
