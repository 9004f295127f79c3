---------------------------- MODULE MCPageTable ----------------------------
(***************************************************************************)
(* PageTable.tla with small blocks and a few transactions.                 *)
(***************************************************************************)
EXTENDS PageTable

CONSTANT MaxTxns

\* A block of 2 * LEVEL_ONE words.
Cleared == [i \in 1 .. 2 * LEVEL_ONE |-> 0]
Contents4 == [1 .. 2 * LEVEL_ONE -> Block \cup Payload]

\* The transactions that were begun.
VARIABLE begun

counted == <<tableVars, begun>>

CountedInit == TableInit /\ begun = 0

\* The commit visits its record in the order of the block numbers: what any
\* order does is a matter of Txn.
InOrder ==
  (pc = "commit" /\ todo # {}) =>
    todo' = todo \ {CHOOSE k \in todo : \A j \in todo : k <= j}

Count == begun' = begun + (IF ~txn /\ txn' THEN 1 ELSE 0) /\ begun' <= MaxTxns

CountedNext == TableNext /\ Count /\ InOrder

AnySpec == CountedInit /\ [][CountedNext]_counted

CarefulSpec == CountedInit /\ [][CountedNext /\ Careful]_counted
=============================================================================
