---------------------------- MODULE MCLargeArray ----------------------------
(***************************************************************************)
(* LargeArray.tla with small blocks and a few transactions.                *)
(***************************************************************************)
EXTENDS LargeArray

CONSTANT MaxTxns

\* A block of 2 * LEVEL_ONE words.
Cleared == [i \in 1 .. 2 * LEVEL_ONE |-> 0]
Contents8 == [1 .. 2 * LEVEL_ONE -> Block \cup Payload]

\* The transactions that were begun.
VARIABLE begun

counted == <<tableVars, begun>>

CountedInit == TableInit /\ begun = 0

\* The commit visits its record in the order of the block numbers: what any
\* order does is a matter of Txn.
InOrder ==
  (pc = "commit" /\ todo # {}) =>
    todo' = todo \ {CHOOSE k \in todo : \A j \in todo : k <= j}

Count == begun' = begun + (IF ~txn /\ txn' THEN 1 ELSE 0) /\ begun' <= MaxTxns

CountedNext == ArrayNext /\ Count /\ InOrder

AnySpec == CountedInit /\ [][CountedNext]_counted

CarefulSpec == CountedInit /\ [][CountedNext /\ CarefulArray]_counted

\* A caller that reads inside transactions only, and no I/O error.
InTxnSpec ==
  CountedInit
    /\ [][CountedNext /\ rc' # IO_ERROR /\ (~txn => call' # Dead)]_counted

\* In its first transaction it fills the array with 1s and commits; in the
\* others it gets items, pops them, and sets and pushes 2s.
Fills ==
  /\ rc' # IO_ERROR
  /\ pc # "ready" \/ txn' \/ ~txn
  /\ root' # 0 => data'[root'][1] # 2
  /\ (Between /\ root # 0) => array_length(root)' >= array_length(root)
  /\ (Between /\ call' \notin {Idle, Dead}) =>
       call'.push = <<1>> \/ (call'.op = "set" /\ call'.v = 1)

Changes == call'.at # "resize" /\ (Between /\ call' # Idle => call' = Dead \/ call'.v # 1)

OldPagesSpec ==
  CountedInit
    /\ [][/\ CountedNext
          /\ IF begun' <= 1 THEN Fills ELSE Changes
          /\ ~txn => call' # Dead]_counted
=============================================================================
