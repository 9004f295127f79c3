----------------------------- MODULE ListStore -----------------------------
(***************************************************************************)
(* What a page table, or an array, promises the code above it: a list,     *)
(* grown and shrunk at its end, whose elements are read and written by     *)
(* position, inside transactions.  Which blocks they are in is not seen.   *)
(***************************************************************************)
EXTENDS Sequences, SequencesExt

CONSTANT Word   \* what an element may be

VARIABLES
  phase,        \* of the transaction: closed, open, failed, or committed
  list,         \* as the transaction sees it
  saved         \* that of the last committed state

vars == <<phase, list, saved>>

Init == phase = "closed" /\ list = <<>> /\ saved = <<>>

Begin == phase = "closed" /\ phase' = "open" /\ UNCHANGED <<list, saved>>

Changes == phase = "open" /\ UNCHANGED <<phase, saved>>

\* A new element may be anything.
Grow == Changes /\ \E w \in Word : list' = Append(list, w)

Shrink == Changes /\ \E n \in 0 .. Len(list) - 1 : list' = SubSeq(list, 1, n)

Store(i, w) == Changes /\ list' = [list EXCEPT ![i] = w]

\* After an I/O error only an abort can follow.
Fail == phase = "open" /\ phase' = "failed" /\ list' = saved /\ UNCHANGED saved

Commit ==
  phase = "open" /\ phase' = "committed" /\ saved' = list /\ UNCHANGED list

End == phase = "committed" /\ phase' = "closed" /\ UNCHANGED <<list, saved>>

Abort ==
  phase \in {"open", "failed"} /\ phase' = "closed"
    /\ list' = saved /\ UNCHANGED saved

Next ==
  \/ Begin \/ Grow \/ Shrink \/ Fail \/ Commit \/ End \/ Abort
  \/ \E i \in DOMAIN list, w \in Word : Store(i, w)

Spec == Init /\ [][Next]_vars
=============================================================================
