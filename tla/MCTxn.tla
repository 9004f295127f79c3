------------------------------- MODULE MCTxn -------------------------------
(***************************************************************************)
(* Txn.tla on a file of up to MaxBlocks blocks: every sequence of calls of *)
(* any number of transactions, from a new database on.                     *)
(***************************************************************************)
EXTENDS Txn
=============================================================================
