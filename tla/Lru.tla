---------------------------------- MODULE Lru ----------------------------------
(***************************************************************************)
(* What the response cache promises, with no linked list, byte counter or  *)
(* eviction loop: the entries in the order they were last used, where a    *)
(* new one keeps as many of the most recently used as the limits allow.    *)
(* LruCache implements this specification.                                 *)
(***************************************************************************)
EXTENDS Integers, Sequences, SequencesExt

CONSTANTS Keys,         \* cache keys
          Entries,      \* cache entries, with their byte_size
          MaxEntries,   \* CacheConfig::max_entries
          MaxBytes      \* CacheConfig::max_bytes

VARIABLE recent   \* the keys with their entries, the most recently used first

Slots == [key: Keys, entry: Entries]

\* The slots but the one of k, if it has one.
Without(k) ==
    IF \E i \in DOMAIN recent : recent[i].key = k
    THEN RemoveAt(recent, CHOOSE i \in DOMAIN recent : recent[i].key = k)
    ELSE recent

\* The bytes of the first n slots.
BytesTo(slots, n) ==
    LET bytes[i \in 0..n] == IF i = 0 THEN 0 ELSE bytes[i - 1] + slots[i].entry.byte_size
    IN  bytes[n]

BytesOf(slots) == BytesTo(slots, Len(slots))

\* There is room for e besides the slots.
RoomFor(e, slots) == /\ Len(slots) < MaxEntries
                     /\ BytesOf(slots) + e.byte_size <= MaxBytes

\* As many of the most recently used slots as leave room for e: none of them
\* when e does not fit by itself.
Kept(slots, e) ==
    LET fitting == {p \in Prefixes(slots) : RoomFor(e, p)}
    IN  IF fitting = {} THEN << >>
        ELSE CHOOSE p \in fitting : \A other \in fitting : Len(other) <= Len(p)

LruInit == recent = << >>

Use(k) == \E i \in DOMAIN recent :
              /\ recent[i].key = k
              /\ recent' = <<recent[i]>> \o RemoveAt(recent, i)

Drop(k) == recent' = Without(k)

Add(k, e) == recent' = <<[key |-> k, entry |-> e]>> \o Kept(Without(k), e)

Clear == recent' = << >>

LruNext ==
    \/ \E k \in Keys : \/ Use(k)
                       \/ Drop(k)
                       \/ \E e \in Entries : Add(k, e)
    \/ Clear

LruSpec == LruInit /\ [][LruNext]_recent
=============================================================================
