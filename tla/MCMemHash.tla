----------------------------- MODULE MCMemHash -----------------------------
(***************************************************************************)
(* MemHash.tla with enough keys for three resizes and hash values that     *)
(* collide in tables of 3, 7 and 13 entries, some of them so close to the  *)
(* largest u32 that a probe wraps.                                         *)
(***************************************************************************)
EXTENDS MemHash

\* One order of the hash values stands for all: the keys do not matter.
OrderedInit == Init /\ \A j, k \in Key : j < k => hash[j] < hash[k]

OrderedSpec == OrderedInit /\ [][Next]_vars
=============================================================================
