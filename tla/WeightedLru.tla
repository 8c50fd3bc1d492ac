----------------------------- MODULE WeightedLru -----------------------------
(***************************************************************************)
(* The size-bounded least-recently-used cache of src/backend/src/state.rs: *)
(* an LruCache with a count of resident bytes beside it.  Both             *)
(* insert_search_cache_entry and insert_semantic_cache_entry maintain one. *)
(*                                                                         *)
(* A cache has its entries, the least recently used one first, and the     *)
(* bytes it believes to hold.                                              *)
(***************************************************************************)
EXTENDS Naturals, Sequences, SequencesExt

\* The sum of a sequence of numbers.
Total(numbers) ==
  LET sum[n \in 0 .. Len(numbers)] == IF n = 0 THEN 0 ELSE sum[n - 1] + numbers[n]
  IN sum[Len(numbers)]

EmptyCache == [entries |-> <<>>, resident |-> 0]

Holds(cache, key) == \E i \in DOMAIN cache.entries : cache.entries[i].key = key
PlaceOf(cache, key) ==
  CHOOSE i \in DOMAIN cache.entries : cache.entries[i].key = key
EntryOf(cache, key) == cache.entries[PlaceOf(cache, key)]
OthersThan(cache, key) == RemoveAt(cache.entries, PlaceOf(cache, key))

\* LruCache::get makes an entry the most recently used one.
Touched(cache, key) ==
  [cache EXCEPT !.entries = Append(OthersThan(cache, key), EntryOf(cache, key))]

Weigh(entries) == Total([i \in 1 .. Len(entries) |-> entries[i].weight])

\* usize::saturating_sub
Less(a, b) == IF a > b THEN a - b ELSE 0

\* The oldest n entries are evicted.
WithoutOldest(cache, n) ==
  [entries |-> SubSeq(cache.entries, n + 1, Len(cache.entries)),
   resident |-> Less(cache.resident, Weigh(SubSeq(cache.entries, 1, n)))]

\* An entry that is about to be replaced.
Popped(cache, key) ==
  IF Holds(cache, key)
    THEN [entries |-> OthersThan(cache, key),
          resident |-> Less(cache.resident, EntryOf(cache, key).weight)]
    ELSE cache

\* Evict until the weight fits, or nothing is left to evict.
MadeRoom(cache, weight, maxBytes) ==
  LET fits(n) == WithoutOldest(cache, n).resident + weight <= maxBytes
      n == CHOOSE i \in 0 .. Len(cache.entries) :
             /\ fits(i) \/ i = Len(cache.entries)
             /\ \A j \in 0 .. i - 1 : ~fits(j)
  IN WithoutOldest(cache, n)

\* Mutated form of Inserted: a replaced entry is still counted.
InsertedUncounted(cache, entry, capacity, maxBytes) ==
  IF entry.weight > maxBytes THEN cache
  ELSE LET popped == [Popped(cache, entry.key) EXCEPT !.resident = cache.resident]
           room == MadeRoom(popped, entry.weight, maxBytes)
           kept == IF Len(room.entries) = capacity THEN WithoutOldest(room, 1) ELSE room
       IN [entries |-> Append(kept.entries, entry),
           resident |-> kept.resident + entry.weight]

\* insert_search_cache_entry and insert_semantic_cache_entry.
Inserted(cache, entry, capacity, maxBytes) ==
  IF entry.weight > maxBytes THEN cache
  ELSE LET room == MadeRoom(Popped(cache, entry.key), entry.weight, maxBytes)
           kept == IF Len(room.entries) = capacity THEN WithoutOldest(room, 1) ELSE room
       IN [entries |-> Append(kept.entries, entry),
           resident |-> kept.resident + entry.weight]

\* What a cache is to be: no key twice, its bytes counted, its limits kept.
Accounted(cache, capacity, maxBytes) ==
  /\ \A i, j \in DOMAIN cache.entries :
       cache.entries[i].key = cache.entries[j].key => i = j
  /\ cache.resident = Weigh(cache.entries)
  /\ cache.resident <= maxBytes
  /\ Len(cache.entries) <= capacity
=============================================================================
