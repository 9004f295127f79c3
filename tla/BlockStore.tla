---------------------------- MODULE BlockStore ----------------------------
(***************************************************************************)
(* What the block API of everdb-native promises its caller: a store of     *)
(* blocks with one transaction at a time.  Inside a transaction the caller *)
(* sees its own changes; nothing of them is part of the committed state    *)
(* until a commit publishes all of them at once, and an abort forgets      *)
(* them.  There is no free list, no file size and no copy on write here:   *)
(* the only trace of copying is that modifying a block may rename it.      *)
(***************************************************************************)
EXTENDS Naturals

CONSTANTS Id, Value, Zero

VARIABLES
  phase,        \* of the transaction: none, open, or committed
  working,      \* the caller's blocks and what they hold
  committed,    \* the same, in the last committed state
  root,         \* what the object list holds for the caller
  committedRoot \* the same, in the last committed state

store == <<working, root>>
snapshot == <<committed, committedRoot>>
vars == <<phase, store, snapshot>>

\* Names nobody can confuse with a block that is in use or may come back.
Fresh == Id \ (DOMAIN working \cup DOMAIN committed)

With(f, i, v) == [j \in DOMAIN f \cup {i} |-> IF j = i THEN v ELSE f[j]]
Without(f, i) == [j \in DOMAIN f \ {i} |-> f[j]]

Init ==
  /\ phase = "closed"
  /\ working = [i \in {} |-> Zero]
  /\ committed = [i \in {} |-> Zero]
  /\ root = Zero
  /\ committedRoot = Zero

Begin ==
  /\ phase = "closed"
  /\ phase' = "open"
  /\ UNCHANGED <<store, snapshot>>

\* A new block may hold anything.
Allocate(i) ==
  /\ phase = "open"
  /\ i \in Fresh
  /\ \E v \in Value : working' = With(working, i, v)
  /\ UNCHANGED <<phase, root, snapshot>>

\* A block of the committed state is renamed before it is modified.
Modify(i, j) ==
  /\ phase = "open"
  /\ i \in DOMAIN working \cap DOMAIN committed
  /\ j \in Fresh
  /\ working' = With(Without(working, i), j, working[i])
  /\ UNCHANGED <<phase, root, snapshot>>

Free(i) ==
  /\ phase = "open"
  /\ i \in DOMAIN working
  /\ working' = Without(working, i)
  /\ UNCHANGED <<phase, root, snapshot>>

\* Only a block allocated or renamed since the transaction began is written.
Write(i, v) ==
  /\ phase = "open"
  /\ i \in DOMAIN working \ DOMAIN committed
  /\ working' = [working EXCEPT ![i] = v]
  /\ UNCHANGED <<phase, root, snapshot>>

WriteRoot(v) ==
  /\ phase = "open"
  /\ root' = v
  /\ UNCHANGED <<phase, working, snapshot>>

\* From this step on the changes of the transaction are what an abort, or a
\* reader of the committed state, would see; nothing can change them.
Commit ==
  /\ phase = "open"
  /\ phase' = "committed"
  /\ committed' = working
  /\ committedRoot' = root
  /\ UNCHANGED store

End ==
  /\ phase = "committed"
  /\ phase' = "closed"
  /\ UNCHANGED <<store, snapshot>>

Abort ==
  /\ phase = "open"
  /\ phase' = "closed"
  /\ working' = committed
  /\ root' = committedRoot
  /\ UNCHANGED snapshot

Next ==
  \/ Begin
  \/ \E i \in Id : Allocate(i) \/ Free(i) \/ \E j \in Id : Modify(i, j)
  \/ \E i \in Id, v \in Value : Write(i, v)
  \/ \E v \in Value : WriteRoot(v)
  \/ Commit \/ End \/ Abort

Spec == Init /\ [][Next]_vars
=============================================================================
