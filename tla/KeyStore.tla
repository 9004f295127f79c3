------------------------------ MODULE KeyStore ------------------------------
(***************************************************************************)
(* What a B-tree promises the code above it: a map from keys to values,    *)
(* inside transactions.                                                    *)
(***************************************************************************)
CONSTANTS Key, Value

VARIABLES
  map,          \* its entries, as the transaction sees them
  saved,        \* those of the last committed state
  call          \* the last call, its key, and whether there was room

vars == <<map, saved, call>>

Init == map = {} /\ saved = {} /\ call = <<"none", 0, TRUE>>

Without(k) == {e \in map : e[1] # k}

\* It fails when the tree is full.
Set(k, v) ==
  /\ \/ call' = <<"set", k, TRUE>> /\ map' = Without(k) \cup {<<k, v>>}
     \/ call' = <<"set", k, FALSE>> /\ UNCHANGED map
  /\ UNCHANGED saved

Pop(k) ==
  /\ call' = <<"pop", k, TRUE>>
  /\ map' = Without(k)
  /\ UNCHANGED saved

\* Changes to the tree that holds the map.
Grow == call' \in {<<"grow", 0, TRUE>>, <<"modify", 0, TRUE>>} /\ UNCHANGED <<map, saved>>

Commit == call' = <<"none", 0, TRUE>> /\ saved' = map /\ UNCHANGED map

Abort == call' = <<"none", 0, TRUE>> /\ map' = saved /\ UNCHANGED saved

Next ==
  \/ \E k \in Key : Pop(k) \/ \E v \in Value : Set(k, v)
  \/ Grow \/ Commit \/ Abort

Spec == Init /\ [][Next]_vars
=============================================================================
