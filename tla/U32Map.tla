------------------------------- MODULE U32Map -------------------------------
(***************************************************************************)
(* What mem_hash.h promises: a map of numbers to numbers in which a key    *)
(* that was never set has the value 0.                                     *)
(***************************************************************************)
CONSTANTS Key, Value

VARIABLES
  map,          \* the value of every key
  last          \* the key of the last call, and its value

vars == <<map, last>>

Init == map = [k \in Key |-> 0] /\ last = <<>>

Set(k, v) ==
  /\ map' = [map EXCEPT ![k] = v]
  /\ last' = <<k, v>>

Get(k) ==
  /\ last' = <<k, map[k]>>
  /\ UNCHANGED map

Next == \E k \in Key : Get(k) \/ \E v \in Value : Set(k, v)

Spec == Init /\ [][Next]_vars
=============================================================================
