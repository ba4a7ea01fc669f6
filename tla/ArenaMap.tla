------------------------------ MODULE ArenaMap ------------------------------
(***************************************************************************)
(* arena.rs: ArenaMap, a map kept as a slice of entries sorted by key and  *)
(* searched by bisection.  Entries are sequences of [key, value] records.  *)
(* Nothing removes a second entry of a key: the slice is a multimap, in    *)
(* which the entries of one key stay in the order they were decoded in.    *)
(***************************************************************************)
EXTENDS Integers, Sequences, FiniteSets

(* Mutant: the entries are frozen as they came. *)
AsDecoded(entries) == entries

(* sort_by on the keys, which is stable: the place of entry i. *)
Rank(entries, i) ==
  1 + Cardinality({ j \in DOMAIN entries :
                      \/ entries[j].key < entries[i].key
                      \/ entries[j].key = entries[i].key /\ j < i })

SortedByKey(entries) ==
  [p \in DOMAIN entries |-> entries[CHOOSE i \in DOMAIN entries : Rank(entries, i) = p]]

(* slice::binary_search_by: one turn narrows the window in which an entry *)
(* of that key can be, found once it was hit; the index found, or 0.       *)
Narrowed(entries, key, w) ==
  LET mid == (w.lo + w.hi) \div 2
  IN  IF w.found # 0 \/ w.lo >= w.hi THEN w
      ELSE IF entries[mid].key = key THEN [w EXCEPT !.found = mid]
      ELSE IF entries[mid].key < key THEN [w EXCEPT !.lo = mid + 1]
      ELSE [w EXCEPT !.hi = mid]

BinarySearch(entries, key) ==
  LET window[n \in 0 .. Len(entries)] ==
        IF n = 0 THEN [lo |-> 1, hi |-> Len(entries) + 1, found |-> 0]
        ELSE Narrowed(entries, key, window[n - 1])
  IN  window[Len(entries)].found

(* ArenaMap::contains_key, and ArenaMap::get of a key it contains. *)
ContainsKey(entries, key) == BinarySearch(entries, key) # 0
Get(entries, key)         == entries[BinarySearch(entries, key)].value

=============================================================================
