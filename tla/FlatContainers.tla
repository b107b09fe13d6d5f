----------------------------- MODULE FlatContainers -----------------------------
(***************************************************************************)
(* The containers the compiled rules are kept in (flatbuffers/containers). *)
(* A builder fills one while the rules are read, is then laid out in the   *)
(* buffer, and a view answers look-ups on the laid out vectors:            *)
(*   "set"       HashSetBuilder, an open addressing table of keys          *)
(*   "map"       HashMapBuilder, whose values are the vectors of selectors *)
(*               that CosmeticFilterCacheBuilder pushes to                 *)
(*   "multimap"  FlatMultiMapBuilder, pairs sorted by key                  *)
(* An item filed under a key is numbered by the call that files it.        *)
(***************************************************************************)
EXTENDS Naturals, Sequences, FiniteSets, SequencesExt

CONSTANTS
  FlatKey,       \* keys: numbers, in the order binary search uses
  Hash,      \* the hash functions considered: a set of [FlatKey -> Nat]
  MaxCalls   \* bound on the calls made to a builder

Empty == 0   \* the default key, which marks an empty slot; not in FlatKey
Sorts == {"set", "map", "multimap"}

VARIABLES
  sort,      \* the container that is built
  hash,      \* the persistent hash function, the same for builder and view
  indexes,   \* hash tables: the key of each slot, numbered from 0
  values,    \* hash tables: the vector of each slot
  size,      \* hash tables: how many slots are taken
  entries,   \* multimap: the pairs inserted, in order
  filed      \* what the calls asked for: the items of each key, in order
containerVars == <<sort, hash, indexes, values, size, entries, filed>>

Slots(cap) == 0 .. cap - 1
Capacity   == Cardinality(DOMAIN indexes)
Calls      == IF sort = "multimap" THEN Len(entries) ELSE Len(filed[Empty])

\* What the theorems assume of the constants.
ContainersShaped == FlatKey \subseteq Nat \ {Empty} /\ Hash \subseteq [FlatKey -> Nat]

\* 1, 2, 4, 8, ...: the numbers that no odd number but 1 divides.
PowerOfTwo(n) == \A d \in 1 .. n : n % d = 0 => d = 1 \/ d % 2 = 0

\* The types, and the size of a table: "It must be a power of two"
\* (hash_index.rs:39), "The load factor is 25%-50%" (hash_index.rs:3), once it
\* has grown.
ContainersTypeOK ==
  /\ sort \in Sorts /\ hash \in Hash
  /\ entries \in Seq([key : FlatKey, item : Nat]) /\ filed \in [FlatKey \cup {Empty} -> Seq(Nat)]
  /\ DOMAIN indexes = Slots(Capacity) /\ DOMAIN values = Slots(Capacity)
  /\ Capacity >= 4 /\ PowerOfTwo(Capacity)
  /\ \A s \in DOMAIN indexes : indexes[s] \in FlatKey \cup {Empty}
  /\ size = Cardinality({s \in DOMAIN indexes : indexes[s] # Empty})
  /\ size * 2 <= Capacity /\ (Capacity > 4 => size * 4 >= Capacity)

-----------------------------------------------------------------------------
(* hash_index.rs *)

\* Variant: steps of 1, 4, 9, ... slots from the first.
ProbedSquare(key, cap, n) == (hash[key] + n * n) % cap

\* The slots find_slot tries: steps of 1, 2, 3, ... from the hash's low bits.
ProbedSlot(key, cap, n) == (hash[key] + (n * (n + 1)) \div 2) % cap

\* The first of them where the probe holds.  The loop has no other end.
FindSlot(key, cap, probe) ==
  ProbedSlot(key, cap, Min({n \in Slots(cap) : probe[ProbedSlot(key, cap, n)]}))

Free(keys, key) == [s \in DOMAIN keys |-> keys[s] \in {Empty, key}]

\* The table with a key put in the first empty slot of those it may go to.
Placed(table, key, value) ==
  LET slot == FindSlot(key, Cardinality(DOMAIN table.keys), Free(table.keys, Empty))
  IN  [keys   |-> [table.keys EXCEPT ![slot] = key],
       values |-> [table.values EXCEPT ![slot] = value]]

\* An empty table of cap slots.
NewTable(cap) == [keys |-> [s \in Slots(cap) |-> Empty], values |-> [s \in Slots(cap) |-> <<>>]]

\* The table after its keys are placed, slot by slot, in one twice as large.
Rehash(old) ==
  LET cap == Cardinality(DOMAIN old.keys)
      placed[n \in 0 .. cap] ==
        IF n = 0 THEN NewTable(2 * cap)
        ELSE IF old.keys[n - 1] = Empty THEN placed[n - 1]
        ELSE Placed(placed[n - 1], old.keys[n - 1], old.values[n - 1])
  IN  placed[cap]

\* Variant: the slots of the table are kept where they are.
IncreaseInPlace(table, count) ==
  LET cap == Cardinality(DOMAIN table.keys)
      of(part, none) == [s \in Slots(2 * cap) |-> IF s < cap THEN part[s] ELSE none]
  IN  IF count * 2 <= cap THEN table
      ELSE [keys |-> of(table.keys, Empty), values |-> of(table.values, <<>>)]

\* Variant: the table grows when it is full.
IncreaseWhenFull(table, count) ==
  IF count < Cardinality(DOMAIN table.keys) THEN table ELSE Rehash(table)

MaybeIncreaseCapacity(table, count) ==
  IF count * 2 <= Cardinality(DOMAIN table.keys) THEN table ELSE Rehash(table)

\* insert(): the new table, its size, and the slot whose value the caller is
\* handed, which was found before the table may have grown.
Inserted(key, value) ==
  LET slot  == FindSlot(key, Capacity, Free(indexes, key))
      taken == indexes[slot] # Empty
      put   == [keys   |-> [indexes EXCEPT ![slot] = key],
                values |-> [values EXCEPT ![slot] = value]]
  IN  [table |-> IF taken THEN put ELSE MaybeIncreaseCapacity(put, size + 1),
       size  |-> IF taken THEN size ELSE size + 1,
       slot  |-> slot]

\* Variant: the value found is replaced.
InsertedAnyway(key) == Inserted(key, <<>>)

\* get_or_insert(): the value found is left as it is.
GotOrInserted(key) ==
  LET slot == FindSlot(key, Capacity, Free(indexes, key))
  IN  IF indexes[slot] # Empty
      THEN [table |-> [keys |-> indexes, values |-> values], size |-> size, slot |-> slot]
      ELSE Inserted(key, <<>>)

\* HashIndexView::get_single, on the vectors as they are laid out.
FoundSlot(key)   == FindSlot(key, Capacity, Free(indexes, key))
ContainsKey(key) == indexes[FoundSlot(key)] # Empty
GetSingle(key)   == IF ContainsKey(key) THEN values[FoundSlot(key)] ELSE <<>>

-----------------------------------------------------------------------------
(* flat_multimap.rs and sorted_index.rs *)

\* sort_by is stable: a pair goes behind those of its own key.
PutInOrder(sorted, pair) ==
  LET behind == Min({n \in 0 .. Len(sorted) : n < Len(sorted) => sorted[n + 1].key > pair.key})
  IN  InsertAt(sorted, behind + 1, pair)

\* finish(): the pairs as they are laid out.
SortedBy(pairs) ==
  LET sorted[n \in 0 .. Len(pairs)] ==
        IF n = 0 THEN <<>> ELSE PutInOrder(sorted[n - 1], pairs[n])
  IN  sorted[Len(pairs)]

Laid == SortedBy(entries)

\* Variant: partition_point(|x| *x <= key).
HalvedPast(laid, key, b) ==
  LET mid == b.left + (b.right - b.left) \div 2
  IN  IF b.left >= b.right THEN b
      ELSE IF laid[mid + 1].key <= key THEN [b EXCEPT !.left = mid + 1] ELSE [b EXCEPT !.right = mid]

\* One turn of the loop of partition_point(|x| *x < key).
Halved(laid, key, b) ==
  LET mid == b.left + (b.right - b.left) \div 2
  IN  IF b.left >= b.right THEN b
      ELSE IF laid[mid + 1].key < key THEN [b EXCEPT !.left = mid + 1] ELSE [b EXCEPT !.right = mid]

\* Positions are numbered from 0; the loop takes no more turns than there are keys.
PartitionPoint(laid, key) ==
  LET bounds[n \in 0 .. Len(laid)] ==
        IF n = 0 THEN [left |-> 0, right |-> Len(laid)] ELSE Halved(laid, key, bounds[n - 1])
  IN  bounds[Len(laid)].left

\* What the iterator of get() yields: the run of the key's values.
RunFrom(laid, key, index) ==
  LET end == Min({n \in index .. Len(laid) : n < Len(laid) => laid[n + 1].key # key})
  IN  [n \in 1 .. end - index |-> laid[index + n].item]

GetAll(key) == RunFrom(Laid, key, PartitionPoint(Laid, key))

-----------------------------------------------------------------------------
ContainersInit ==
  /\ sort \in Sorts
  /\ hash \in Hash
  /\ indexes = [s \in Slots(4) |-> Empty]
  /\ values = [s \in Slots(4) |-> <<>>]
  /\ size = 0
  /\ entries = <<>>
  /\ filed = [k \in FlatKey \cup {Empty} |-> <<>>]

Item == Calls + 1

\* filed[Empty] counts the calls.
Note(key) == filed' = [filed EXCEPT ![key] = Append(@, Item), ![Empty] = Append(@, Item)]

SetInsert(key) ==
  LET new == Inserted(key, <<>>)
  IN  /\ sort = "set" /\ Calls < MaxCalls
      /\ indexes' = new.table.keys /\ values' = new.table.values /\ size' = new.size
      /\ Note(key)
      /\ UNCHANGED <<sort, hash, entries>>

\* get_or_insert(key, StringVector::default()) and the push to what it returns.
MapPush(key) ==
  LET got == GotOrInserted(key)
  IN  /\ sort = "map" /\ Calls < MaxCalls
      /\ indexes' = got.table.keys /\ size' = got.size
      /\ values' = [got.table.values EXCEPT ![got.slot] = Append(@, Item)]
      /\ Note(key)
      /\ UNCHANGED <<sort, hash, entries>>

MultiInsert(key) ==
  /\ sort = "multimap" /\ Calls < MaxCalls
  /\ entries' = Append(entries, [key |-> key, item |-> Item])
  /\ Note(key)
  /\ UNCHANGED <<sort, hash, indexes, values, size>>

ContainersNext == \E key \in FlatKey : SetInsert(key) \/ MapPush(key) \/ MultiInsert(key)

ContainersSpec == ContainersInit /\ [][ContainersNext]_containerVars

-----------------------------------------------------------------------------
Filed(key) == filed[key] # <<>>

\* Probing ends.  find_slot has no bound of its own: whatever key is looked
\* up next, one of the slots it tries is free or the key's (the table is never
\* full, and the steps reach every slot of a table whose size is a power of 2).
ProbingEnds ==
  \A key \in FlatKey : \E n \in Slots(Capacity) :
    Free(indexes, key)[ProbedSlot(key, Capacity, n)]

\* A hash table holds exactly the keys filed, through collisions and growth.
KeysFound == sort # "multimap" => \A key \in FlatKey : ContainsKey(key) <=> Filed(key)

\* While a push does not make the table grow, it reaches the vector of its key
\* and no other key's answer changes.
PushedInPlace ==
  [][sort = "map" /\ Capacity' = Capacity =>
       \A key \in FlatKey : GetSingle(key)' =
         IF filed'[key] = filed[key] THEN GetSingle(key) ELSE Append(GetSingle(key), Item)]_containerVars

\* A multimap's get yields the items filed under the key, in the order filed.
RunsFound == sort = "multimap" => \A key \in FlatKey : GetAll(key) = filed[key]

\* A map's get yields the selectors pushed under the key: "keyed by the
\* .a-class selector, since we know that this rule cannot possibly apply
\* unless there is an .a-class element" (cosmetic_filter_cache.rs:151).
SelectorsUnderTheirKey == sort = "map" => \A key \in FlatKey : GetSingle(key) = filed[key]
=================================================================================
