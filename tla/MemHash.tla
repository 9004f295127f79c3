------------------------------ MODULE MemHash ------------------------------
(***************************************************************************)
(* mem_hash.h, the hash table a transaction keeps its record in: open      *)
(* addressing with triangular probing, which doubles its size when a set   *)
(* finds it half full, and never shrinks.  A set that has to resize takes  *)
(* a step for every old entry.                                             *)
(*                                                                         *)
(* The keys are any numbers but 0, which marks an unused entry.  The hash  *)
(* function is any one without collisions: that of the code, two xorshifts *)
(* and two multiplications by an odd number, can be undone.                *)
(***************************************************************************)
EXTENDS Integers, Sequences, FiniteSets, Functions

CONSTANTS
  Width,        \* 2^32, the number of values of a u32
  Key,          \* the keys in use
  Value,        \* the values
  HashValue     \* the values the hash function may take

HASH_SIZES ==
  <<3, 7, 13, 23, 41, 71, 127, 223, 373, 631, 1061, 1777, 1801, 3011, 5021,
    8369, 13963, 23279, 38803, 64679, 107827, 179717, 299539, 499253, 832103,
    1386839, 2311409, 3852361, 6420683>>

\* The keys fit in the largest table: a search of HASH_SIZES for a larger one
\* would read past its end.
ASSUME KeyAssumption ==
  /\ Key \subseteq 1 .. Width - 1
  /\ IsFiniteSet(Key)
  /\ 2 * Cardinality(Key) + 1 <= HASH_SIZES[Len(HASH_SIZES)]

\* The width is a power of two, as the probes need, and more than wide enough
\* for every table that the keys may fill.
ASSUME WidthAssumption ==
  /\ Width \in Nat /\ Width > 1
  /\ \A d, e \in 1 .. Width : d * e = Width => d = 1 \/ d % 2 = 0
  /\ \A i \in DOMAIN HASH_SIZES :
       (\A j \in 1 .. i - 1 : HASH_SIZES[j] < 2 * Cardinality(Key) + 1)
         => 4 * HASH_SIZES[i] <= Width

ASSUME ValueAssumption == 0 \in Value /\ Value \subseteq 0 .. Width - 1
ASSUME HashAssumption == HashValue \subseteq 0 .. Width - 1

VARIABLES
  hash,         \* mem_hash_hash
  count,        \* t->count
  capacity,     \* t->capacity
  entries,      \* t->entries
  old,          \* the entries a resize has still to move
  job,          \* the set that is waiting for the resize
  last          \* the key of the last call that has returned, and its value

table == <<count, capacity, entries>>
vars == <<hash, table, old, job, last>>

Unused == [k |-> 0, v |-> 0]
None == Unused  \* no set is waiting

\* u32 arithmetic throughout.
mem_hash_probe(h, i) == (h + ((i * i + i) % Width) \div 2) % Width

Slot(k, i) == mem_hash_probe(hash[k], i) % capacity

\* The i-th probe for k ends the search: it has found k, or a gap.
Ends(k, i) == entries[Slot(k, i)].k \in {0, k}

Found(k) ==
  Slot(k, CHOOSE i \in 0 .. Width - 1 :
            Ends(k, i) /\ \A j \in 0 .. i - 1 : ~Ends(k, j))

Init ==
  /\ hash \in {f \in [Key -> HashValue] : IsInjective(f)}
  /\ count = 0
  /\ capacity = 0
  /\ entries = [i \in {} |-> Unused]
  /\ old = <<>>
  /\ job = None
  /\ last = <<>>

\* The second half of mem_hash_set.
Insert(k, v) ==
  LET s == Found(k) IN
    /\ entries' = [entries EXCEPT ![s] = [k |-> k, v |-> v]]
    /\ count' = IF entries[s].k = 0 THEN count + 1 ELSE count

Idle == job = None

\* Mutant: the table is filled to the last entry.
FullLate == count + 1 > capacity

Full == count * 2 + 1 > capacity

\* A set that needs no resize.
SetInPlace(k, v) ==
  /\ Idle /\ ~Full
  /\ Insert(k, v)
  /\ last' = <<k, v>>
  /\ UNCHANGED <<hash, capacity, old, job>>

\* The first of HASH_SIZES that leaves the table less than half full.
NewCapacity ==
  HASH_SIZES[CHOOSE i \in DOMAIN HASH_SIZES :
     /\ HASH_SIZES[i] >= count * 2 + 1
     /\ \A j \in 1 .. i - 1 : HASH_SIZES[j] < count * 2 + 1]

\* Mutant: the old entries are still counted.
ResizeCounted(k, v) ==
  /\ Idle /\ Full
  /\ capacity' = NewCapacity
  /\ entries' = [i \in 0 .. NewCapacity - 1 |-> Unused]
  /\ old' = [i \in 1 .. capacity |-> entries[i - 1]]
  /\ job' = [k |-> k, v |-> v]
  /\ UNCHANGED <<hash, count, last>>

\* Mutant: the loop over the old entries starts at the second.
ResizeSkipsFirst(k, v) ==
  /\ Idle /\ Full
  /\ capacity' = NewCapacity
  /\ entries' = [i \in 0 .. NewCapacity - 1 |-> Unused]
  /\ old' = [i \in 1 .. capacity - 1 |-> entries[i]]
  /\ count' = 0
  /\ job' = [k |-> k, v |-> v]
  /\ UNCHANGED <<hash, last>>

\* mem_hash_set(t, k, v) calls mem_hash_resize: a new table, still empty.
\* NewCapacity is larger than capacity here, so the resize goes ahead.
mem_hash_resize(k, v) ==
  /\ Idle /\ Full
  /\ capacity' = NewCapacity
  /\ entries' = [i \in 0 .. NewCapacity - 1 |-> Unused]
  /\ old' = [i \in 1 .. capacity |-> entries[i - 1]]
  /\ count' = 0
  /\ job' = [k |-> k, v |-> v]
  /\ UNCHANGED <<hash, last>>

\* One turn of its loop; the mem_hash_set it calls finds the table not Full.
Move ==
  /\ old # <<>>
  /\ IF Head(old).k = 0 THEN UNCHANGED <<entries, count>>
                        ELSE ~Full /\ Insert(Head(old).k, Head(old).v)
  /\ old' = Tail(old)
  /\ UNCHANGED <<hash, capacity, job, last>>

\* The set that had to resize goes on.
SetAfterResize ==
  /\ ~Idle /\ old = <<>>
  /\ Insert(job.k, job.v)
  /\ job' = None
  /\ last' = <<job.k, job.v>>
  /\ UNCHANGED <<hash, capacity, old>>

mem_hash_get(k) ==
  /\ Idle
  /\ last' = <<k, IF capacity = 0 THEN 0 ELSE entries[Found(k)].v>>
  /\ UNCHANGED <<hash, table, old, job>>

Next ==
  \/ \E k \in Key :
       \/ mem_hash_get(k)
       \/ \E v \in Value : SetInPlace(k, v) \/ mem_hash_resize(k, v)
  \/ Move \/ SetAfterResize

Spec == Init /\ [][Next]_vars

-----------------------------------------------------------------------------
(***************************************************************************)
(* Properties.                                                             *)
(***************************************************************************)

Entry == [k : Key \cup {0}, v : Value]

\* The shape of the table: never more entries in use than there are keys.
HashTypeOK ==
  /\ hash \in [Key -> HashValue]
  /\ count \in 0 .. Cardinality(Key)
  /\ capacity \in {0} \cup Range(HASH_SIZES)
  /\ entries \in [0 .. capacity - 1 -> Entry]
  /\ old \in Seq(Entry)
  /\ job \in Entry
  /\ last \in {<<>>} \cup Key \X Value

\* No search runs for ever: the probes of mem_hash_probe, which come back to
\* the same half of a table of prime size, leave it when they wrap at 2^32.
SearchesEnd ==
  capacity > 0 => \A k \in Key : \E i \in 0 .. Width - 1 : Ends(k, i)

\* A fast search needs no more probes than the table has entries.
SearchesAreShort ==
  capacity > 0 => \A k \in Key : \E i \in 0 .. capacity - 1 : Ends(k, i)

\* What the table holds for a key, wherever the entry is.
Held(k) ==
  LET E == {e \in Range(entries) \cup Range(old) : e.k = k} IN
    IF E = {} THEN 0 ELSE (CHOOSE e \in E : TRUE).v

Map == INSTANCE U32Map WITH map <- [k \in Key |-> Held(k)]

\* mem_hash.h implements a map: a set changes one key, a resize none, and a
\* get finds what the last set of its key stored, whichever of the entries it
\* had to pass over were put in, changed or moved since.
ImplementsMap == Map!Spec
=============================================================================
