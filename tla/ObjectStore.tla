---------------------------- MODULE ObjectStore ----------------------------
(***************************************************************************)
(* What the array API of everdb-native promises: arrays numbered from 0 in *)
(* the order of their creation, changed inside transactions, read at any   *)
(* time.  A handle is a name for a number.  There are no blocks here.      *)
(***************************************************************************)
EXTENDS Integers, Sequences, SequencesExt

CONSTANTS
  Handle, Item, ObjId, Index, None,
  OUT_OF_BOUNDS, NO_TRANSACTION, IO_ERROR   \* return codes other than 0

VARIABLES
  phase,        \* of the transaction: closed, open, or committed
  objects,      \* the arrays as the transaction sees them
  saved,        \* the arrays of the last committed state
  names,        \* the object each handle names, None for an unused handle
  result        \* the last call on an array and what it returned

arrays == <<objects, saved>>
vars == <<phase, arrays, names, result>>

Answer(call, err, out) == result' = [call |-> call, err |-> err, out |-> out]

Init ==
  /\ phase = "closed"
  /\ objects = <<>>
  /\ saved = <<>>
  /\ names = [h \in Handle |-> None]
  /\ result = [call |-> <<>>, err |-> 0, out |-> 0]

Begin ==
  /\ phase = "closed"
  /\ phase' = "open"
  /\ UNCHANGED <<arrays, names, result>>

Commit ==
  /\ phase = "open"
  /\ phase' = "committed"
  /\ saved' = objects
  /\ UNCHANGED <<objects, names, result>>

End ==
  /\ phase = "committed"
  /\ phase' = "closed"
  /\ UNCHANGED <<arrays, names, result>>

Abort ==
  /\ phase = "open"
  /\ phase' = "closed"
  /\ objects' = saved
  /\ UNCHANGED <<saved, names, result>>

Create(h) ==
  /\ phase = "open" /\ names[h] = None
  /\ objects' = Append(objects, <<>>)
  /\ names' = [names EXCEPT ![h] = Len(objects)]
  /\ Answer(<<"create">>, 0, 0)
  /\ UNCHANGED <<phase, saved>>

\* Opening a number does not look whether there is such an object.
Open(h, id) ==
  /\ names[h] = None
  /\ names' = [names EXCEPT ![h] = id]
  /\ UNCHANGED <<phase, arrays, result>>

Forget(h) ==
  /\ names' = [names EXCEPT ![h] = None]
  /\ UNCHANGED <<phase, arrays, result>>

Exists(h) == names[h] # None /\ names[h] < Len(objects)
Array(h) == objects[names[h] + 1]

Get(h, i) ==
  /\ Exists(h)
  /\ IF i < Len(Array(h))
     THEN Answer(<<"get", i>>, 0, Array(h)[i + 1])
     ELSE Answer(<<"get", i>>, OUT_OF_BOUNDS, 0)
  /\ UNCHANGED <<phase, arrays, names>>

Length(h) ==
  /\ Exists(h)
  /\ Answer(<<"length">>, 0, Len(Array(h)))
  /\ UNCHANGED <<phase, arrays, names>>

Becomes(h, a) == objects' = [objects EXCEPT ![names[h] + 1] = a]

Push(h, x) ==
  /\ phase = "open" /\ Exists(h)
  /\ Becomes(h, Append(Array(h), x))
  /\ Answer(<<"push", x>>, 0, 0)
  /\ UNCHANGED <<phase, saved, names>>

Pop(h) ==
  /\ phase = "open" /\ Exists(h)
  /\ \/ /\ Array(h) # <<>>
        /\ Becomes(h, Front(Array(h)))
        /\ Answer(<<"pop">>, 0, Last(Array(h)))
     \/ /\ Array(h) = <<>>
        /\ Answer(<<"pop">>, OUT_OF_BOUNDS, 0)
        /\ UNCHANGED objects
  /\ UNCHANGED <<phase, saved, names>>

Set(h, i, x) ==
  /\ phase = "open" /\ Exists(h)
  /\ \/ /\ i < Len(Array(h))
        /\ Becomes(h, [Array(h) EXCEPT ![i + 1] = x])
        /\ Answer(<<"set", i, x>>, 0, 0)
     \/ /\ i >= Len(Array(h))
        /\ Answer(<<"set", i, x>>, OUT_OF_BOUNDS, 0)
        /\ UNCHANGED objects
  /\ UNCHANGED <<phase, saved, names>>

Changing ==
  {<<"push", x>> : x \in Item} \cup {<<"pop">>}
    \cup {<<"set", i, x>> : i \in Index, x \in Item}

\* What a call that cannot be carried out returns; it leaves no trace.
Missing(h, call) ==
  /\ names[h] # None /\ ~Exists(h)
  /\ Answer(call, OUT_OF_BOUNDS, 0)
  /\ UNCHANGED <<phase, arrays, names>>

Refused(call) ==
  /\ \/ phase = "closed" /\ Answer(call, NO_TRANSACTION, 0)
     \/ phase = "open" /\ Answer(call, IO_ERROR, 0)
  /\ UNCHANGED <<phase, arrays, names>>

Next ==
  \/ Begin \/ Commit \/ End \/ Abort
  \/ \E call \in Changing \cup {<<"create">>} : Refused(call)
  \/ \E h \in Handle :
       \/ Create(h) \/ Forget(h) \/ Pop(h) \/ Length(h)
       \/ \E id \in ObjId : Open(h, id)
       \/ \E x \in Item : Push(h, x) \/ \E i \in Index : Set(h, i, x)
       \/ \E i \in Index : Get(h, i)
       \/ \E call \in Changing \cup {<<"length">>}
                 \cup {<<"get", i>> : i \in Index} : Missing(h, call)

Spec == Init /\ [][Next]_vars

\* The process ends and another one opens the file: what was committed stays.
Restart ==
  /\ phase' = "closed"
  /\ objects' = saved
  /\ names' = [h \in Handle |-> None]
  /\ Answer(<<>>, 0, 0)
  /\ UNCHANGED saved

RestartSpec == Init /\ [][Next \/ Restart]_vars
=============================================================================
