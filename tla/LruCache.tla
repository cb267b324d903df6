------------------------------- MODULE LruCache -------------------------------
(***************************************************************************)
(* LruCacheImpl (infrastructure/lru_cache/): a map whose nodes form a      *)
(* doubly linked list by their keys, with the sum of the entries' bytes    *)
(* kept beside it.  Every method holds one write lock throughout and is    *)
(* one step; get() and put() do nothing when the cache is not enabled,     *)
(* which is not modelled.  An entry is its size and the time it was made:  *)
(* its value and hit_count, which nothing reads, are left out.             *)
(***************************************************************************)
EXTENDS Integers, FiniteSets, Sequences, SequencesExt

CONSTANTS Keys,         \* cache keys
          Sizes,        \* bytes an entry may have
          MaxEntries,   \* CacheConfig::max_entries
          MaxBytes,     \* CacheConfig::max_bytes
          TTL,          \* CacheConfig::ttl_seconds, 0 for ever
          MaxTime,      \* bound: readings of the clock
          Wrap,         \* 2^64, for any value above the times
          Nil           \* Option::None of a key, and no node in the map

ASSUME CacheConfig == /\ Sizes \subseteq Nat
                      /\ MaxEntries \in Nat /\ MaxBytes \in Nat /\ TTL \in Nat
                      /\ MaxTime \in Nat /\ Wrap \in Nat /\ Wrap > MaxTime + TTL
                      /\ Nil \notin Keys

VARIABLES lru,   \* LruState
          now,   \* chrono::Utc::now(), in seconds
          used   \* history: the cached keys, the one last used first

vars == <<lru, now, used>>

Times == 0..MaxTime

CacheEntry == [byte_size: Sizes, created_at: Times]
Link == Keys \cup {Nil}
LruNode == [entry: CacheEntry, newer: Link, older: Link]

\* None is no node.
ASSUME NilIsNone == Nil \notin LruNode

TypeOK ==
    /\ lru.map \in [Keys -> LruNode \cup {Nil}]
    /\ lru.newest \in Link /\ lru.oldest \in Link
    /\ lru.total_bytes \in Nat
    /\ now \in Times
    /\ used \in Seq(Keys)

EmptyLru == [map |-> [k \in Keys |-> Nil], newest |-> Nil, oldest |-> Nil, total_bytes |-> 0]

Init == lru = EmptyLru /\ now \in Times /\ used = << >>

Mapped(s) == {k \in Keys : s.map[k] # Nil}

SaturatingSub(a, b) == IF a < b THEN 0 ELSE a - b

\* unlink(), of a key in the map: the node itself keeps its links.
Unlink(s, k) ==
    LET node == s.map[k]
    IN  [s EXCEPT
            !.map = [q \in Keys |->
                IF s.map[q] = Nil THEN Nil
                ELSE IF q = node.newer THEN [s.map[q] EXCEPT !.older = node.older]
                ELSE IF q = node.older THEN [s.map[q] EXCEPT !.newer = node.newer]
                ELSE s.map[q]],
            !.newest = IF @ = k THEN node.older ELSE @,
            !.oldest = IF @ = k THEN node.newer ELSE @]

\* push_front(), of a key in the map that is not linked.
PushFront(s, k) ==
    [s EXCEPT
        !.map = [q \in Keys |->
            IF q = k THEN [s.map[k] EXCEPT !.newer = Nil, !.older = s.newest]
            ELSE IF q = s.newest THEN [s.map[q] EXCEPT !.newer = k]
            ELSE s.map[q]],
        !.newest = k,
        !.oldest = IF @ = Nil THEN k ELSE @]

\* Mutant of Removed: the bytes stay.
Removed_KeepsBytes(s, k) == [Unlink(s, k) EXCEPT !.map[k] = Nil]

\* A key in the map is unlinked, removed, and its bytes taken off the total.
Removed(s, k) ==
    [Unlink(s, k) EXCEPT !.map[k] = Nil,
                         !.total_bytes = SaturatingSub(@, s.map[k].entry.byte_size)]

IfMapped(s, k) == IF s.map[k] = Nil THEN s ELSE Removed(s, k)

\* Mutant of NoRoom: the entry that is to be added is not counted.
NoRoom_OffByOne(s, bytes) ==
    Cardinality(Mapped(s)) > MaxEntries \/ s.total_bytes + bytes > MaxBytes

\* The condition of the loop of put().
NoRoom(s, bytes) ==
    Cardinality(Mapped(s)) >= MaxEntries \/ s.total_bytes + bytes > MaxBytes

\* Mutants of MakeRoom: nothing is evicted for an entry that will not fit all the
\* same, and the most recently used entry is evicted.
MakeRoom_OnlyIfFits(s, bytes) ==
    LET after[n \in 0..Cardinality(Mapped(s))] ==
            IF n = 0 THEN s
            ELSE LET prev == after[n - 1]
                 IN  IF NoRoom(prev, bytes) /\ prev.oldest # Nil /\ bytes <= MaxBytes
                     THEN Removed(prev, prev.oldest)
                     ELSE prev
    IN  after[Cardinality(Mapped(s))]

MakeRoom_Newest(s, bytes) ==
    LET after[n \in 0..Cardinality(Mapped(s))] ==
            IF n = 0 THEN s
            ELSE LET prev == after[n - 1]
                 IN  IF NoRoom(prev, bytes) /\ prev.newest # Nil
                     THEN Removed(prev, prev.newest)
                     ELSE prev
    IN  after[Cardinality(Mapped(s))]

\* The loop of put(), which stops also when nothing is left to evict and so goes
\* round at most as often as there are entries.
MakeRoom(s, bytes) ==
    LET after[n \in 0..Cardinality(Mapped(s))] ==
            IF n = 0 THEN s
            ELSE LET prev == after[n - 1]
                 IN  IF NoRoom(prev, bytes) /\ prev.oldest # Nil
                     THEN Removed(prev, prev.oldest)
                     ELSE prev
    IN  after[Cardinality(Mapped(s))]

Inserted(s, k, e) ==
    LET node == [entry |-> e, newer |-> Nil, older |-> Nil]
    IN  [PushFront([s EXCEPT !.map[k] = node], k) EXCEPT !.total_bytes = @ + e.byte_size]

\* The age is cast to u64: an entry from the future is older than any other.
IsExpired(e) == TTL > 0 /\ (now - e.created_at) % Wrap > TTL

\* The members of S in a sequence, in its order.
Among(S, seq) ==
    LET kept[n \in 0..Len(seq)] ==
            IF n = 0 THEN << >>
            ELSE IF seq[n] \in S THEN Append(kept[n - 1], seq[n]) ELSE kept[n - 1]
    IN  kept[Len(seq)]

\* A method ends, and of the keys in this order those that it leaves in the map
\* are the ones last used.
Used(order) == used' = Among(Mapped(lru'), order)

\* k is used, if the method leaves it in the map.
Use(k) == Used(<<k>> \o Among(Keys \ {k}, used))

\* Mutant of Get: a hit does not make the entry the most recently used.
Get_KeepsPlace(k) ==
    /\ lru.map[k] # Nil
    /\ lru' = IF IsExpired(lru.map[k].entry) THEN Removed(lru, k) ELSE lru
    /\ Use(k)
    /\ UNCHANGED now

\* get() of a key in the map; of another key it changes nothing.
Get(k) ==
    /\ lru.map[k] # Nil
    /\ lru' = IF IsExpired(lru.map[k].entry) THEN Removed(lru, k)
              ELSE PushFront(Unlink(lru, k), k)
    /\ Use(k)
    /\ UNCHANGED now

\* put() of an entry made now, as execute_spawned() does.
Put(k, bytes) ==
    /\ lru' = Inserted(MakeRoom(IfMapped(lru, k), bytes), k,
                       [byte_size |-> bytes, created_at |-> now])
    /\ Use(k)
    /\ UNCHANGED now

RemoveKey(k) == lru' = IfMapped(lru, k) /\ Used(used) /\ UNCHANGED now

Clear == lru' = EmptyLru /\ Used(used) /\ UNCHANGED now

\* The wall clock, which may be set back.
Tick == now' \in Times \ {now} /\ UNCHANGED <<lru, used>>

Next ==
    \/ \E k \in Keys : \/ Get(k)
                       \/ \E bytes \in Sizes : Put(k, bytes)
                       \/ RemoveKey(k)
    \/ Clear
    \/ Tick

Spec == Init /\ [][Next]_vars

-----------------------------------------------------------------------------
(* Properties *)

\* Where the links lead from each key, and nowhere from one that is not in the map.
Older == [k \in Link |-> IF k \in Mapped(lru) THEN lru.map[k].older ELSE Nil]
Newer == [k \in Link |-> IF k \in Mapped(lru) THEN lru.map[k].newer ELSE Nil]

\* The keys met on the way from an end of the list along its links.
Chain(first, link) ==
    LET last == Cardinality(Mapped(lru)) + 1
        nth[i \in 1..last] == IF i = 1 THEN first ELSE link[nth[i - 1]]
    IN  Among(Keys, [i \in 1..last |-> nth[i]])

NewestFirst == Chain(lru.newest, Older)
OldestFirst == Chain(lru.oldest, Newer)

\* The entries in the order of the list.
SlotsOf(keys) == [i \in DOMAIN keys |-> [key |-> keys[i], entry |-> lru.map[keys[i]].entry]]

Abstract == INSTANCE Lru WITH Entries <- CacheEntry, recent <- SlotsOf(NewestFirst)

\* The list holds exactly the keys of the map, each once, in the order in which
\* they were last hit or put, and reads the same from both ends: no sequence of
\* hits, replacements, expiries and evictions leaves a dangling link, a node
\* that is never evicted, or one out of its place.
ListIsOrderOfUse ==
    /\ ToSet(NewestFirst) = Mapped(lru)
    /\ Len(NewestFirst) = Cardinality(Mapped(lru))
    /\ NewestFirst = used
    /\ OldestFirst = Reverse(used)

\* The byte count is the sum over the entries, so the saturating subtractions
\* never saturate and the byte limit is tested on the truth.
TotalIsSum == lru.total_bytes = Abstract!BytesOf(SlotsOf(NewestFirst))

\* Map, list and byte count stay in step, whatever path an entry takes out.
Consistent == TypeOK /\ ListIsOrderOfUse /\ TotalIsSum

\* An entry of the size n is within the limits by itself; none is with
\* max_entries 0.
Fits(n) == MaxEntries > 0 /\ n <= MaxBytes

\* The limits are kept, but for one entry: put() also adds one that is not
\* within them by itself, and by then has evicted every other.  The cache is
\* over its limits only as long as that entry is alone in it.
LimitsKept ==
    \/ Cardinality(Mapped(lru)) <= MaxEntries /\ lru.total_bytes <= MaxBytes
    \/ \E k \in Keys : Mapped(lru) = {k} /\ ~Fits(lru.map[k].entry.byte_size)

\* The linked list, the byte count and the loop implement the order of use:
\* put() evicts the least recently used entries and not one more than needed,
\* and no other method reorders or drops an entry it is not about.
ImplementsLru == Abstract!LruSpec
=============================================================================
