------------------------------ MODULE MCBTree ------------------------------
(***************************************************************************)
(* BTree.tla with small nodes, and callers for the runs.                   *)
(***************************************************************************)
EXTENDS BTree

CONSTANT MaxCommits

VARIABLE commits

counted == <<vars, commits>>

CountedInit == Init /\ commits = 0

CountedNext ==
  /\ Next
  /\ commits' = commits + (IF Commit THEN 1 ELSE 0) /\ commits' <= MaxCommits

Keys == {e[1] : e \in Entries(root)}

\* Keys are set in ascending order.
Ascends == last'.op = "set" => \A k \in Key : k < last'.key <=> k \in Keys

(***************************************************************************)
(* The callers of a run, of which it starts with any one:                  *)
(*   any        makes every call;                                          *)
(*   careful    knows what btree_set and btree_pop cannot do, and never    *)
(*              commits;                                                   *)
(*   commits    is careful too, and fills the tree, keys ascending, until  *)
(*              it is more than a leaf; it commits that, and changes it in *)
(*              its next transaction; it does without the largest key, to  *)
(*              keep the run short;                                        *)
(*   pops once  fills the tree, keys ascending, then pops one key, and no  *)
(*              more.                                                      *)
(***************************************************************************)
CONSTANT Callers

VARIABLE caller

callers == <<counted, caller>>

\* What the last call was matters to the steps only.
CallersView == <<heap, root, saved, commits, caller>>

CallersInit == CountedInit /\ caller \in Callers

CallersNext ==
  /\ CountedNext /\ UNCHANGED caller
  /\ caller # "commits" => commits' = 0
  /\ caller \in {"careful", "commits"} => Careful
  /\ caller = "commits" =>
       /\ \E k \in Key : last'.key < k
       /\ commits = 0 => Ascends /\ last'.op # "pop"
       /\ commits' > commits => ~heap.node[root].leaf
  /\ caller = "pops once" => Ascends /\ last.op # "pop"

CallersSpec == CallersInit /\ [][CallersNext]_callers
=============================================================================
