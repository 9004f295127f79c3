----------------------------- MODULE MCObjects -----------------------------
(***************************************************************************)
(* Objects.tla with arrays of up to MaxLength items.                       *)
(***************************************************************************)
EXTENDS Objects, TLC

CONSTANT MaxLength

Empty == <<>>

\* The arrays of a caller, and object lists.
ArrayValue ==
  UNION {[1 .. n -> Item] : n \in 0 .. MaxLength}
    \cup UNION {[1 .. n -> 0 .. MaxBlocks - 1] : n \in 0 .. MaxLength}

\* A caller that does all it may but for a second handle on an object.
OneHandleSpec ==
  ObjectsInit
    /\ [][ObjectsNext /\ OneHandlePerObject' /\ FewTransactions]_objectVars

\* Nothing depends on rc, what the block API returned last.
View == <<io, disk, freelist, objlist, state, loop, live, api>>

\* Handles are interchangeable.
Handles == Permutations(Handle)
=============================================================================
