--------------------------- MODULE ResponseCache ---------------------------
(***************************************************************************)
(* internal/cache/cache.go: the LRU cache as a sequence of entries, the    *)
(* most recently used one first.  The list and the map of the code hold    *)
(* the same entries; every call is one critical section.                   *)
(***************************************************************************)
EXTENDS Integers, Sequences

CacheEntry(k, v) == [key |-> k, value |-> v, expired |-> FALSE]

IsCached(c, k) == \E i \in DOMAIN c : c[i].key = k
Place(c, k) == CHOOSE i \in DOMAIN c : c[i].key = k
CachedEntry(c, k) == c[Place(c, k)]

removeElement(c, k) ==
    IF IsCached(c, k)
    THEN SubSeq(c, 1, Place(c, k) - 1) \o SubSeq(c, Place(c, k) + 1, Len(c))
    ELSE c

Hit(c, k) == IsCached(c, k) /\ ~CachedEntry(c, k).expired

(* A hit moves to the front, an expired entry goes. *)
CacheGet(c, k) ==
    IF Hit(c, k) THEN <<CachedEntry(c, k)>> \o removeElement(c, k)
    ELSE removeElement(c, k)

EvictLate(c, capacity) == \* mutant: off by one
    IF Len(c) > capacity + 1 THEN SubSeq(c, 1, Len(c) - 1) ELSE c

evictOldest(c, capacity) == IF Len(c) > capacity THEN SubSeq(c, 1, Len(c) - 1) ELSE c

CacheSet(c, k, v, capacity) ==
    evictOldest(<<CacheEntry(k, v)>> \o removeElement(c, k), capacity)

CacheExpire(c, k) ==
    [i \in DOMAIN c |-> IF c[i].key = k THEN [c[i] EXCEPT !.expired = TRUE] ELSE c[i]]
=============================================================================
