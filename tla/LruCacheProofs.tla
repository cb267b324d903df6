---------------------------- MODULE LruCacheProofs ----------------------------
(***************************************************************************)
(* Theorems about the response cache: map, linked list and byte count stay *)
(* in step, the limits are kept, and the cache implements Lru.             *)
(*                                                                         *)
(* The argument is about one sequence r of slots, of which the state of    *)
(* the cache is the linked list (Lists): the node of each slot has the     *)
(* keys of its neighbours, there are no other nodes, and the total is the  *)
(* sum of r.  unlink() and push_front() are shown to take a list to a      *)
(* list, the loop of put() to leave a beginning of it, and the links to    *)
(* lead along it.  The inductive invariant says that there is such a       *)
(* sequence, that the history has its keys, and that it is within the      *)
(* limits or has one slot.                                                 *)
(***************************************************************************)
EXTENDS LruCache, FiniteSetTheorems, SequenceTheorems, WellFoundedInduction, TLAPS

-----------------------------------------------------------------------------
(* Induction on sets of numbers, and what it gives functions that are       *)
(* defined by recursion.                                                   *)

\* Induction, for sets of natural numbers: the form a prover can be given.
LEMMA NaturalInduction ==
    ASSUME NEW S, 0 \in S, \A n \in Nat : n \in S => n + 1 \in S
    PROVE  Nat \subseteq S
<1> DEFINE R == {ss \in Nat \X Nat : ss[1] < ss[2]}
           T == Nat \ S
<1> SUFFICES ASSUME T # {} PROVE FALSE
  OBVIOUS
<1>1. R = OpToRel(<, Nat)
  BY DEF OpToRel
<1>2. IsWellFoundedOn(R, Nat)
  BY <1>1, NatLessThanWellFounded, Zenon
<1> HIDE DEF R
<1>3. PICK n \in T : \A m \in T : <<m, n>> \notin R
  BY <1>2, WFMin
<1>4. n \in Nat /\ n # 0 /\ \A m \in T : ~(m < n)
  BY <1>3 DEF R
<1>5. n - 1 \in Nat /\ n - 1 \notin T /\ (n - 1) + 1 = n
  BY <1>4
<1>6. QED
  BY <1>3, <1>5

\* f starts with b and goes on with h, which takes a value to the next one.
Follows(f, b, h, n, S) ==
    /\ f \in [0..n -> S] /\ f[0] = b
    /\ \A i \in 1..n : f[i] = h[i][f[i - 1]]

\* Such a function exists, whatever the steps are.
LEMMA Recursion ==
    ASSUME NEW S, NEW b \in S, NEW n \in Nat, NEW h \in [1..n -> [S -> S]]
    PROVE  \E f : Follows(f, b, h, n, S)
<1> DEFINE Good(f, m) == /\ f[0] = b
                         /\ \A i \in 1..m : f[i] = h[i][f[i - 1]]
           T == {m \in Nat : m <= n => \E f \in [0..m -> S] : Good(f, m)}
<1>1. 0 \in T
  <2> DEFINE f == [i \in 0..0 |-> b]
  <2>1. f \in [0..0 -> S] /\ Good(f, 0)
    OBVIOUS
  <2>2. QED
    BY <2>1
<1>2. ASSUME NEW m \in Nat, m \in T PROVE m + 1 \in T
  <2> SUFFICES ASSUME m + 1 <= n PROVE \E f \in [0..(m + 1) -> S] : Good(f, m + 1)
    OBVIOUS
  <2>1. PICK f \in [0..m -> S] : Good(f, m)
    BY <1>2
  <2> DEFINE g == [i \in 0..(m + 1) |-> IF i = m + 1 THEN h[m + 1][f[m]] ELSE f[i]]
  <2>2. f[m] \in S /\ m + 1 \in 1..n
    OBVIOUS
  <2>3. h[m + 1][f[m]] \in S
    BY <2>2
  <2>4. g \in [0..(m + 1) -> S]
    BY <2>3
  <2>5. g[m + 1] = h[m + 1][f[m]] /\ \A i \in 0..m : g[i] = f[i]
    OBVIOUS
  <2> HIDE DEF g
  <2>6. ASSUME NEW i \in 1..(m + 1) PROVE g[i] = h[i][g[i - 1]]
    <3>1. CASE i = m + 1
      BY <2>5, <3>1
    <3>2. CASE i # m + 1
      <4>1. i \in 1..m /\ i \in 0..m /\ i - 1 \in 0..m
        BY <3>2
      <4>2. QED
        BY <2>1, <2>5, <4>1
    <3>3. QED
      BY <3>1, <3>2
  <2>7. Good(g, m + 1)
    BY <2>1, <2>5, <2>6
  <2>8. QED
    BY <2>4, <2>7
<1> HIDE DEF T
<1>3. n \in T
  BY <1>1, <1>2, NaturalInduction
<1>4. QED
  BY <1>3 DEF T, Follows

-----------------------------------------------------------------------------
(* Slots, and sequences of them.                                            *)

Slot == [key: Keys, entry: CacheEntry]

Size(slot) == slot.entry.byte_size

\* The size of a slot is a number.
LEMMA SizesAreNat == \A slot \in Slot : Size(slot) \in Nat
BY CacheConfig DEF Slot, Size, CacheEntry

\* A sequence without one of its places.
LEMMA CutIs ==
    ASSUME NEW S, NEW r \in Seq(S), NEW i \in 1..Len(r)
    PROVE  /\ RemoveAt(r, i) \in Seq(S) /\ Len(RemoveAt(r, i)) = Len(r) - 1
           /\ \A j \in 1..(Len(r) - 1) :
                 RemoveAt(r, i)[j] = IF j < i THEN r[j] ELSE r[j + 1]
<1> DEFINE a == SubSeq(r, 1, i - 1)
           b == SubSeq(r, i + 1, Len(r))
<1>1. a \in Seq(S) /\ Len(a) = i - 1 /\ \A j \in 1..(i - 1) : a[j] = r[j]
  OBVIOUS
<1>2. b \in Seq(S) /\ Len(b) = Len(r) - i /\ \A j \in 1..(Len(r) - i) : b[j] = r[i + j]
  OBVIOUS
<1>3. RemoveAt(r, i) = a \o b
  BY DEF RemoveAt
<1> HIDE DEF a, b
<1>4. /\ a \o b \in Seq(S) /\ Len(a \o b) = Len(r) - 1
      /\ \A j \in 1..(Len(r) - 1) : (a \o b)[j] = IF j <= i - 1 THEN a[j] ELSE b[j - (i - 1)]
  <2>1. /\ a \o b \in Seq(S) /\ Len(a \o b) = Len(a) + Len(b)
        /\ \A j \in 1..(Len(a) + Len(b)) :
              (a \o b)[j] = IF j <= Len(a) THEN a[j] ELSE b[j - Len(a)]
    BY <1>1, <1>2, ConcatProperties
  <2>2. Len(a) + Len(b) = Len(r) - 1 /\ Len(a) = i - 1
    BY <1>1, <1>2
  <2>3. QED
    BY <2>1, <2>2
<1>5. ASSUME NEW j \in 1..(Len(r) - 1)
      PROVE  (a \o b)[j] = IF j < i THEN r[j] ELSE r[j + 1]
  <2>1. CASE j < i
    BY <1>1, <1>4, <2>1
  <2>2. CASE ~(j < i)
    <3>1. j - (i - 1) \in 1..(Len(r) - i) /\ i + (j - (i - 1)) = j + 1
      BY <2>2
    <3>2. QED
      BY <1>2, <1>4, <2>2, <3>1
  <2>3. QED
    BY <2>1, <2>2
<1>6. QED
  BY <1>3, <1>4, <1>5

\* A sequence with a new first place, which can be taken away again.
LEMMA ConsIs ==
    ASSUME NEW S, NEW x \in S, NEW r \in Seq(S)
    PROVE  /\ <<x>> \o r \in Seq(S) /\ Len(<<x>> \o r) = Len(r) + 1
           /\ (<<x>> \o r)[1] = x
           /\ \A j \in 1..Len(r) : (<<x>> \o r)[j + 1] = r[j]
           /\ RemoveAt(<<x>> \o r, 1) = r
<1> DEFINE q == <<x>> \o r
<1>1. /\ q \in Seq(S) /\ Len(q) = Len(r) + 1 /\ q[1] = x
      /\ \A j \in 1..Len(r) : q[j + 1] = r[j]
  OBVIOUS
<1> HIDE DEF q
<1>2. /\ RemoveAt(q, 1) \in Seq(S) /\ Len(RemoveAt(q, 1)) = Len(q) - 1
      /\ \A j \in 1..(Len(q) - 1) : RemoveAt(q, 1)[j] = IF j < 1 THEN q[j] ELSE q[j + 1]
  <2>1. 1 \in 1..Len(q)
    BY <1>1
  <2>2. QED
    BY <1>1, <2>1, CutIs
<1>3. RemoveAt(q, 1) = r
  BY <1>1, <1>2, SeqEqual
<1>4. QED
  BY <1>1, <1>3 DEF q

-----------------------------------------------------------------------------
(* The bytes of slots.                                                      *)

\* bytes is the function that BytesTo(r, n) chooses.
IsBytes(bytes, r, n) ==
    bytes = [i \in 0..n |-> IF i = 0 THEN 0 ELSE bytes[i - 1] + r[i].entry.byte_size]

\* BytesTo is the value of a recursive function that exists.
LEMMA BytesExist ==
    ASSUME NEW r \in Seq(Slot), NEW n \in 0..Len(r)
    PROVE  \E bytes \in [0..n -> Nat] :
              IsBytes(bytes, r, n) /\ Abstract!BytesTo(r, n) = bytes[n]
<1> DEFINE h == [i \in 1..n |-> [x \in Nat |-> x + r[i].entry.byte_size]]
<1>1. \A i \in 1..n : r[i].entry.byte_size \in Nat
  BY SizesAreNat DEF Size
<1>2. h \in [1..n -> [Nat -> Nat]]
  BY <1>1
<1>3. n \in Nat
  OBVIOUS
<1>4. PICK f : Follows(f, 0, h, n, Nat)
  <2> HIDE DEF h
  <2>1. 0 \in Nat
    OBVIOUS
  <2>2. QED
    BY <1>2, <1>3, <2>1, Recursion
<1>5. ASSUME NEW i \in 1..n PROVE f[i] = f[i - 1] + r[i].entry.byte_size
  <2>1. f[i - 1] \in Nat
    BY <1>4 DEF Follows
  <2>2. QED
    BY <1>4, <2>1 DEF Follows
<1> HIDE DEF h
<1>6. IsBytes(f, r, n)
  <2> DEFINE g == [i \in 0..n |-> IF i = 0 THEN 0 ELSE f[i - 1] + r[i].entry.byte_size]
  <2>1. \A i \in 0..n : f[i] = g[i]
    BY <1>4, <1>5 DEF Follows
  <2>2. f = g
    BY <1>4, <2>1 DEF Follows
  <2>3. QED
    BY <2>2 DEF IsBytes
<1> DEFINE c == CHOOSE bytes : IsBytes(bytes, r, n)
<1>7. IsBytes(c, r, n)
  BY <1>6
<1>8. Abstract!BytesTo(r, n) = c[n]
  BY DEF Abstract!BytesTo, IsBytes
<1> HIDE DEF c
<1>9. c = f
  <2> DEFINE T == {i \in Nat : i <= n => c[i] = f[i]}
  <2>1. 0 \in T
    BY <1>4, <1>7 DEF IsBytes, Follows
  <2>2. ASSUME NEW i \in Nat, i \in T PROVE i + 1 \in T
    BY <1>5, <1>7, <2>2 DEF IsBytes
  <2> HIDE DEF T
  <2>3. Nat \subseteq T
    BY <2>1, <2>2, NaturalInduction
  <2>4. \A i \in 0..n : c[i] = f[i]
    BY <2>3 DEF T
  <2>5. c = [i \in 0..n |-> c[i]]
    BY <1>7 DEF IsBytes
  <2>6. QED
    BY <1>4, <2>4, <2>5 DEF Follows
<1>10. QED
  BY <1>4, <1>6, <1>8, <1>9 DEF Follows

\* Two such functions agree as long as the slots do.
LEMMA BytesAgree ==
    ASSUME NEW r \in Seq(Slot), NEW q \in Seq(Slot), NEW n \in 0..Len(r), NEW m \in 0..Len(q),
           NEW f \in [0..n -> Nat], IsBytes(f, r, n), NEW g \in [0..m -> Nat], IsBytes(g, q, m),
           NEW k \in Nat, k <= n, k <= m, \A i \in 1..k : r[i] = q[i]
    PROVE  f[k] = g[k]
<1> DEFINE T == {i \in Nat : i <= k => f[i] = g[i]}
<1>1. 0 \in T
  BY DEF IsBytes
<1>2. ASSUME NEW i \in Nat, i \in T PROVE i + 1 \in T
  <2> SUFFICES ASSUME i + 1 <= k PROVE f[i + 1] = g[i + 1]
    OBVIOUS
  <2>1. /\ i + 1 \in 1..k /\ i + 1 \in 0..n /\ i + 1 \in 0..m /\ i + 1 # 0
        /\ (i + 1) - 1 = i
    OBVIOUS
  <2>2. /\ f[i + 1] = f[i] + r[i + 1].entry.byte_size
        /\ g[i + 1] = g[i] + q[i + 1].entry.byte_size
    BY <2>1 DEF IsBytes
  <2>3. QED
    BY <1>2, <2>1, <2>2
<1> HIDE DEF T
<1>3. k \in T
  BY <1>1, <1>2, NaturalInduction
<1>4. QED
  BY <1>3 DEF T

\* The same first slots have the same bytes.
LEMMA BytesOfEqual ==
    ASSUME NEW r \in Seq(Slot), NEW q \in Seq(Slot), NEW n \in Nat, n <= Len(r), n <= Len(q),
           \A i \in 1..n : r[i] = q[i]
    PROVE  Abstract!BytesTo(r, n) = Abstract!BytesTo(q, n)
<1>1. n \in 0..Len(r) /\ n \in 0..Len(q) /\ n <= n
  OBVIOUS
<1>2. PICK f \in [0..n -> Nat] : IsBytes(f, r, n) /\ Abstract!BytesTo(r, n) = f[n]
  BY <1>1, BytesExist
<1>3. PICK g \in [0..n -> Nat] : IsBytes(g, q, n) /\ Abstract!BytesTo(q, n) = g[n]
  BY <1>1, BytesExist
<1>4. f[n] = g[n]
  BY <1>1, <1>2, <1>3, BytesAgree
<1>5. QED
  BY <1>2, <1>3, <1>4

\* The bytes of no slots, and of one slot more.
LEMMA BytesStep ==
    ASSUME NEW r \in Seq(Slot)
    PROVE  /\ Abstract!BytesTo(r, 0) = 0
           /\ \A n \in 0..Len(r) : Abstract!BytesTo(r, n) \in Nat
           /\ \A n \in Nat : n + 1 <= Len(r) =>
                 Abstract!BytesTo(r, n + 1) = Abstract!BytesTo(r, n) + Size(r[n + 1])
<1>1. Abstract!BytesTo(r, 0) = 0
  <2>1. 0 \in 0..Len(r)
    OBVIOUS
  <2>2. PICK f \in [0..0 -> Nat] : IsBytes(f, r, 0) /\ Abstract!BytesTo(r, 0) = f[0]
    BY <2>1, BytesExist
  <2>3. QED
    BY <2>2 DEF IsBytes
<1>2. ASSUME NEW n \in 0..Len(r) PROVE Abstract!BytesTo(r, n) \in Nat
  <2>1. PICK f \in [0..n -> Nat] : Abstract!BytesTo(r, n) = f[n]
    BY BytesExist
  <2>2. QED
    BY <2>1
<1>3. ASSUME NEW n \in Nat, n + 1 <= Len(r)
      PROVE  Abstract!BytesTo(r, n + 1) = Abstract!BytesTo(r, n) + Size(r[n + 1])
  <2>1. n \in 0..Len(r) /\ n + 1 \in 0..Len(r) /\ n + 1 \in 0..(n + 1) /\ n + 1 # 0
        /\ (n + 1) - 1 = n /\ n <= n + 1
    BY <1>3
  <2>2. PICK f \in [0..n -> Nat] : IsBytes(f, r, n) /\ Abstract!BytesTo(r, n) = f[n]
    BY <2>1, BytesExist
  <2>3. PICK g \in [0..(n + 1) -> Nat] :
           IsBytes(g, r, n + 1) /\ Abstract!BytesTo(r, n + 1) = g[n + 1]
    BY <2>1, BytesExist
  <2>4. n <= n /\ \A i \in 1..n : r[i] = r[i]
    OBVIOUS
  <2>41. f[n] = g[n]
    BY <2>1, <2>2, <2>3, <2>4, BytesAgree
  <2>5. g[n + 1] = g[n] + r[n + 1].entry.byte_size
    BY <2>1, <2>3 DEF IsBytes
  <2>6. QED
    BY <2>2, <2>3, <2>41, <2>5 DEF Size
<1>4. QED
  BY <1>1, <1>2, <1>3

\* A slot that goes takes its bytes off the sum.
LEMMA BytesOfCut ==
    ASSUME NEW r \in Seq(Slot), NEW i \in 1..Len(r)
    PROVE  Abstract!BytesOf(r) = Abstract!BytesOf(RemoveAt(r, i)) + Size(r[i])
<1> DEFINE q == RemoveAt(r, i)
           n == Len(r) - 1
           B(s, j) == Abstract!BytesTo(s, j)
<1>1. /\ n \in Nat /\ q \in Seq(Slot) /\ Len(q) = n
      /\ \A j \in 1..n : q[j] = IF j < i THEN r[j] ELSE r[j + 1]
  <2>1. q \in Seq(Slot) /\ Len(q) = Len(r) - 1
        /\ \A j \in 1..(Len(r) - 1) : q[j] = IF j < i THEN r[j] ELSE r[j + 1]
    BY CutIs
  <2>2. QED
    BY <2>1
<1>2. Size(r[i]) \in Nat /\ \A j \in 1..Len(r) : Size(r[j]) \in Nat
  BY SizesAreNat
<1>3. \A j \in 0..n : B(q, j) \in Nat /\ B(r, j) \in Nat /\ B(r, j + 1) \in Nat
  BY <1>1, BytesStep
<1> HIDE DEF q, n
<1>4. Len(r) = n + 1
  BY <1>1 DEF n
<1> DEFINE T == {j \in Nat : j >= i - 1 /\ j <= n => B(r, j + 1) = B(q, j) + Size(r[i])}
<1>5. B(r, i - 1) = B(q, i - 1)
  <2>1. i - 1 \in Nat /\ i - 1 <= Len(r) /\ i - 1 <= Len(q) /\ \A j \in 1..(i - 1) : r[j] = q[j]
    BY <1>1, <1>4
  <2>2. QED
    BY <1>1, <2>1, BytesOfEqual
<1>6. ASSUME NEW j \in Nat, j = i - 1 PROVE B(r, j + 1) = B(q, j) + Size(r[i])
  <2>1. j + 1 <= Len(r) /\ j + 1 = i
    BY <1>6
  <2>2. B(r, j + 1) = B(r, j) + Size(r[j + 1])
    BY <2>1, BytesStep
  <2>3. QED
    BY <1>5, <1>6, <2>1, <2>2
<1>7. 0 \in T
  <2>1. CASE i - 1 = 0
    BY <1>6, <2>1
  <2>2. CASE i - 1 # 0
    BY <2>2
  <2>3. QED
    BY <2>1, <2>2
<1>8. ASSUME NEW j \in Nat, j \in T PROVE j + 1 \in T
  <2> SUFFICES ASSUME j + 1 >= i - 1, j + 1 <= n
               PROVE  B(r, (j + 1) + 1) = B(q, j + 1) + Size(r[i])
    OBVIOUS
  <2>1. CASE j + 1 = i - 1
    <3>1. j + 1 \in Nat
      OBVIOUS
    <3>2. QED
      BY <1>6, <2>1, <3>1
  <2>2. CASE j + 1 # i - 1
    <3>1. j >= i - 1 /\ j <= n /\ j + 1 \in 1..n /\ ~(j + 1 < i) /\ j + 1 <= Len(q)
          /\ (j + 1) + 1 <= Len(r) /\ j \in 0..n /\ j + 1 \in Nat /\ (j + 1) + 1 \in 1..Len(r)
      BY <1>1, <1>4, <2>2
    <3>2. B(r, j + 1) = B(q, j) + Size(r[i])
      BY <1>8, <3>1
    <3>3. B(r, (j + 1) + 1) = B(r, j + 1) + Size(r[(j + 1) + 1])
      BY <3>1, BytesStep
    <3>4. B(q, j + 1) = B(q, j) + Size(q[j + 1])
      BY <1>1, <3>1, BytesStep
    <3>5. q[j + 1] = r[(j + 1) + 1]
      BY <1>1, <3>1
    <3>6. /\ B(q, j) \in Nat /\ Size(r[(j + 1) + 1]) \in Nat
      BY <1>2, <1>3, <3>1
    <3> HIDE DEF B
    <3>7. QED
      BY <1>2, <3>2, <3>3, <3>4, <3>5, <3>6
  <2>3. QED
    BY <2>1, <2>2
<1> HIDE DEF T
<1>9. n \in T
  BY <1>1, <1>7, <1>8, NaturalInduction
<1>10. B(r, n + 1) = B(q, n) + Size(r[i])
  BY <1>1, <1>4, <1>9 DEF T
<1>11. QED
  BY <1>1, <1>4, <1>10 DEF Abstract!BytesOf, q

-----------------------------------------------------------------------------
(* A state of the cache and the sequence of slots that it is the list of.   *)

LruState == [map: [Keys -> LruNode \cup {Nil}], newest: Link, oldest: Link, total_bytes: Nat]

KeyAt(r, i) == IF i \in 1..Len(r) THEN r[i].key ELSE Nil

NodeAt(r, i) == [entry |-> r[i].entry, newer |-> KeyAt(r, i - 1), older |-> KeyAt(r, i + 1)]

\* No key has two slots.
Keyed(r) == /\ r \in Seq(Slot)
            /\ \A i, j \in 1..Len(r) : r[i].key = r[j].key => i = j

\* The nodes of r are linked as they should be, and so are the ends.
Linked(s, r) ==
    /\ s \in LruState /\ Keyed(r)
    /\ \A i \in 1..Len(r) : s.map[r[i].key] = NodeAt(r, i)
    /\ s.newest = KeyAt(r, 1) /\ s.oldest = KeyAt(r, Len(r))

\* There are no other nodes than those of r and of the keys K.
Only(s, r, K) == \A q \in Keys \ K : s.map[q] # Nil => \E i \in 1..Len(r) : q = r[i].key

Lists(s, r) == /\ Linked(s, r) /\ Only(s, r, {})
               /\ s.total_bytes = Abstract!BytesOf(r)

\* k is in the map, with the entry e, and not in the list, which is r.
Apart(s, r, k, e) ==
    /\ Linked(s, r) /\ Only(s, r, {k})
    /\ s.map[k] \in LruNode /\ s.map[k].entry = e
    /\ \A i \in 1..Len(r) : r[i].key # k

\* Every place of a list has a key and would have a node.
LEMMA KeysAt ==
    ASSUME NEW r \in Seq(Slot)
    PROVE  /\ \A i : KeyAt(r, i) \in Link
           /\ \A i \in 1..Len(r) : /\ KeyAt(r, i) = r[i].key /\ r[i].key \in Keys /\ r[i].key # Nil
                                   /\ NodeAt(r, i) \in LruNode /\ NodeAt(r, i) # Nil
<1>1. \A i \in 1..Len(r) : r[i].key \in Keys /\ r[i].key # Nil /\ r[i].entry \in CacheEntry
  <2>1. \A slot \in Slot : slot.key \in Keys /\ slot.entry \in CacheEntry
    BY DEF Slot
  <2>2. \A i \in 1..Len(r) : r[i] \in Slot
    OBVIOUS
  <2>3. Nil \notin Keys
    BY CacheConfig
  <2>4. QED
    BY <2>1, <2>2, <2>3
<1>2. \A i : KeyAt(r, i) \in Link
  BY <1>1 DEF KeyAt, Link
<1>3. \A i \in 1..Len(r) : NodeAt(r, i) \in LruNode
  BY <1>1, <1>2 DEF NodeAt, LruNode
<1>4. \A i \in 1..Len(r) : KeyAt(r, i) = r[i].key
  BY DEF KeyAt
<1>5. QED
  BY <1>1, <1>2, <1>3, <1>4, NilIsNone

\* The keys of a list that has lost one place.
LEMMA KeysAtCut ==
    ASSUME NEW r \in Seq(Slot), NEW i \in 1..Len(r), NEW j \in Int
    PROVE  KeyAt(RemoveAt(r, i), j) = IF j < i THEN KeyAt(r, j) ELSE KeyAt(r, j + 1)
<1> DEFINE p == RemoveAt(r, i)
<1>1. /\ p \in Seq(Slot) /\ Len(p) = Len(r) - 1 /\ Len(r) \in Nat
      /\ \A m \in 1..(Len(r) - 1) : p[m] = IF m < i THEN r[m] ELSE r[m + 1]
  <2>1. Len(r) \in Nat
    OBVIOUS
  <2>2. QED
    BY <2>1, CutIs
<1> HIDE DEF p
<1>2. CASE j \in 1..(Len(r) - 1)
  <2>1. p[j] = IF j < i THEN r[j] ELSE r[j + 1]
    BY <1>1, <1>2
  <2>2. j \in 1..Len(p) /\ j \in 1..Len(r) /\ j + 1 \in 1..Len(r)
    BY <1>1, <1>2
  <2>3. KeyAt(p, j) = p[j].key /\ KeyAt(r, j) = r[j].key /\ KeyAt(r, j + 1) = r[j + 1].key
    BY <2>2 DEF KeyAt
  <2>4. QED
    BY <2>1, <2>3 DEF p
<1>3. CASE j \notin 1..(Len(r) - 1)
  <2>1. KeyAt(p, j) = Nil
    BY <1>1, <1>3 DEF KeyAt
  <2>2. CASE j < i
    <3>1. j \notin 1..Len(r)
      BY <1>1, <1>3, <2>2
    <3>2. QED
      BY <2>1, <2>2, <3>1 DEF KeyAt, p
  <2>3. CASE ~(j < i)
    <3>1. j + 1 \notin 1..Len(r)
      BY <1>1, <1>3, <2>3
    <3>2. QED
      BY <2>1, <2>3, <3>1 DEF KeyAt, p
  <2>4. QED
    BY <2>2, <2>3
<1>4. QED
  BY <1>2, <1>3

\* A list that has lost one place has every other key, and that one no more.
LEMMA CutIsKeyed ==
    ASSUME NEW r, Keyed(r), NEW i \in 1..Len(r)
    PROVE  /\ Keyed(RemoveAt(r, i))
           /\ \A j \in 1..Len(RemoveAt(r, i)) : RemoveAt(r, i)[j].key # r[i].key
           /\ \A j \in 1..Len(r) : j # i =>
                 \E m \in 1..Len(RemoveAt(r, i)) : RemoveAt(r, i)[m] = r[j]
<1> DEFINE p == RemoveAt(r, i)
           place(j) == IF j < i THEN j ELSE j + 1
<1>1. /\ p \in Seq(Slot) /\ Len(p) = Len(r) - 1 /\ Len(r) \in Nat
      /\ \A j \in 1..Len(p) : p[j] = IF j < i THEN r[j] ELSE r[j + 1]
  <2>1. r \in Seq(Slot) /\ Len(r) \in Nat
    BY DEF Keyed
  <2>2. QED
    BY <2>1, CutIs
<1> HIDE DEF p
<1>2. /\ \A j \in 1..Len(p) : p[j] = r[place(j)] /\ place(j) \in 1..Len(r) /\ place(j) # i
      /\ \A j, m \in 1..Len(p) : place(j) = place(m) => j = m
  BY <1>1
<1>3. \A j \in 1..Len(r) : j # i => \E m \in 1..Len(p) : place(m) = j
  <2> SUFFICES ASSUME NEW j \in 1..Len(r), j # i PROVE \E m \in 1..Len(p) : place(m) = j
    OBVIOUS
  <2>1. CASE j < i
    <3>1. j \in 1..Len(p) /\ place(j) = j
      BY <1>1, <2>1
    <3>2. QED
      BY <3>1
  <2>2. CASE ~(j < i)
    <3>1. j - 1 \in 1..Len(p) /\ place(j - 1) = j
      BY <1>1, <2>2
    <3>2. QED
      BY <3>1
  <2>3. QED
    BY <2>1, <2>2
<1> HIDE DEF place
<1>4. Keyed(p)
  BY <1>1, <1>2 DEF Keyed
<1>5. \A j \in 1..Len(p) : p[j].key # r[i].key
  BY <1>2 DEF Keyed
<1>6. \A j \in 1..Len(r) : j # i => \E m \in 1..Len(p) : p[m] = r[j]
  BY <1>2, <1>3
<1>7. QED
  BY <1>4, <1>5, <1>6 DEF p

\* unlink() closes the gap.
LEMMA UnlinkIs ==
    ASSUME NEW s, NEW r, Linked(s, r), Only(s, r, {}), NEW i \in 1..Len(r)
    PROVE  LET u == Unlink(s, r[i].key)
           IN  /\ Apart(u, RemoveAt(r, i), r[i].key, r[i].entry)
               /\ u.total_bytes = s.total_bytes
<1> DEFINE p == RemoveAt(r, i)
           k == r[i].key
           u == Unlink(s, k)
           newer == KeyAt(r, i - 1)
           older == KeyAt(r, i + 1)
           m == [q \in Keys |->
                    IF s.map[q] = Nil THEN Nil
                    ELSE IF q = newer THEN [s.map[q] EXCEPT !.older = older]
                    ELSE IF q = older THEN [s.map[q] EXCEPT !.newer = newer]
                    ELSE s.map[q]]
<1>1. /\ s \in LruState /\ r \in Seq(Slot) /\ Keyed(r) /\ Len(r) \in Nat
      /\ \A j \in 1..Len(r) : s.map[r[j].key] = NodeAt(r, j)
      /\ s.newest = KeyAt(r, 1) /\ s.oldest = KeyAt(r, Len(r))
  BY DEF Linked, Keyed
<1>2. /\ \A j : KeyAt(r, j) \in Link
      /\ \A j \in 1..Len(r) : /\ KeyAt(r, j) = r[j].key /\ r[j].key \in Keys /\ r[j].key # Nil
                              /\ NodeAt(r, j) \in LruNode /\ NodeAt(r, j) # Nil
  BY <1>1, KeysAt
<1>3. s.map[k] = NodeAt(r, i) /\ s.map[k].newer = newer /\ s.map[k].older = older
      /\ k \in Keys
  BY <1>1, <1>2 DEF NodeAt
<1>4. /\ newer \in Link /\ older \in Link
      /\ \A j \in 1..Len(r) : (r[j].key = newer <=> j = i - 1) /\ (r[j].key = older <=> j = i + 1)
  <2>1. newer \in Link /\ older \in Link
    BY <1>2
  <2>2. ASSUME NEW j \in 1..Len(r), NEW n \in Int PROVE r[j].key = KeyAt(r, n) <=> j = n
    <3>1. CASE n \in 1..Len(r)
      BY <1>1, <1>2, <3>1 DEF Keyed
    <3>2. CASE n \notin 1..Len(r)
      BY <1>2, <3>2 DEF KeyAt
    <3>3. QED
      BY <3>1, <3>2
  <2>3. i - 1 \in Int /\ i + 1 \in Int
    OBVIOUS
  <2>4. QED
    BY <2>1, <2>2, <2>3
<1>5. u = [map |-> m, newest |-> IF s.newest = k THEN older ELSE s.newest,
           oldest |-> IF s.oldest = k THEN newer ELSE s.oldest, total_bytes |-> s.total_bytes]
  <2>1. u = [s EXCEPT !.map = m, !.newest = IF s.newest = k THEN older ELSE s.newest,
                      !.oldest = IF s.oldest = k THEN newer ELSE s.oldest]
    BY <1>3 DEF Unlink, LruState
  <2>2. s = [map |-> s.map, newest |-> s.newest, oldest |-> s.oldest,
             total_bytes |-> s.total_bytes]
    BY <1>1 DEF LruState
  <2> HIDE DEF u, m, newer, older
  <2>3. QED
    BY <2>1, <2>2
<1>6. m \in [Keys -> LruNode \cup {Nil}]
  <2>1. ASSUME NEW q \in Keys PROVE m[q] \in LruNode \cup {Nil}
    <3>1. s.map[q] \in LruNode \cup {Nil}
      BY <1>1 DEF LruState
    <3>2. CASE s.map[q] = Nil
      BY <3>2
    <3>3. CASE s.map[q] # Nil
      <4>1. s.map[q] \in LruNode
        BY <3>1, <3>3
      <4>2. [s.map[q] EXCEPT !.older = older] \in LruNode /\ [s.map[q] EXCEPT !.newer = newer] \in LruNode
        BY <1>4, <4>1 DEF LruNode
      <4> HIDE DEF newer, older
      <4>3. QED
        BY <3>3, <4>1, <4>2
    <3>4. QED
      BY <3>2, <3>3
  <2>2. QED
    BY <2>1
<1>7. \A q \in Keys : m[q] # Nil => s.map[q] # Nil
  OBVIOUS
<1>8. /\ Keyed(p) /\ p \in Seq(Slot) /\ Len(p) = Len(r) - 1
      /\ \A j \in 1..Len(p) : p[j].key # k
      /\ \A j \in 1..Len(p) : p[j] = IF j < i THEN r[j] ELSE r[j + 1]
      /\ \A j \in 1..Len(r) : j # i => \E n \in 1..Len(p) : p[n] = r[j]
  <2>1. /\ p \in Seq(Slot) /\ Len(p) = Len(r) - 1
        /\ \A j \in 1..(Len(r) - 1) : p[j] = IF j < i THEN r[j] ELSE r[j + 1]
    BY <1>1, CutIs
  <2>2. QED
    BY <1>1, <2>1, CutIsKeyed
<1>9. \A j \in Int : KeyAt(p, j) = IF j < i THEN KeyAt(r, j) ELSE KeyAt(r, j + 1)
  BY <1>1, KeysAtCut
<1>10. ASSUME NEW j \in 1..Len(p) PROVE m[p[j].key] = NodeAt(p, j)
  <2> DEFINE o == IF j < i THEN j ELSE j + 1
  <2>1. o \in 1..Len(r) /\ o \in Int /\ j \in Int /\ o # i
    BY <1>1, <1>8
  <2>2. p[j] = r[o] /\ s.map[r[o].key] = NodeAt(r, o) /\ NodeAt(r, o) # Nil /\ r[o].key \in Keys
    BY <1>1, <1>2, <1>8, <2>1
  <2>3. NodeAt(r, o) = [entry |-> r[o].entry, newer |-> KeyAt(r, o - 1), older |-> KeyAt(r, o + 1)]
    BY DEF NodeAt
  <2>4. /\ KeyAt(p, j - 1) = IF j - 1 < i THEN KeyAt(r, j - 1) ELSE KeyAt(r, j)
        /\ KeyAt(p, j + 1) = IF j + 1 < i THEN KeyAt(r, j + 1) ELSE KeyAt(r, j + 2)
    <3>1. j - 1 \in Int /\ j + 1 \in Int /\ (j - 1) + 1 = j /\ (j + 1) + 1 = j + 2
      BY <2>1
    <3>2. QED
      BY <1>9, <3>1
  <2>5. NodeAt(p, j) = [entry |-> r[o].entry, newer |-> KeyAt(p, j - 1), older |-> KeyAt(p, j + 1)]
    BY <2>2 DEF NodeAt
  <2>6. m[r[o].key] = IF o = i - 1 THEN [s.map[r[o].key] EXCEPT !.older = older]
                      ELSE IF o = i + 1 THEN [s.map[r[o].key] EXCEPT !.newer = newer]
                      ELSE s.map[r[o].key]
    BY <1>4, <2>1, <2>2
  <2>7. CASE o = i - 1
    <3>1. j = i - 1 /\ o = j /\ j - 1 < i /\ ~(j + 1 < i) /\ j + 2 = i + 1
      BY <2>1, <2>7
    <3>2. m[r[o].key] = [entry |-> r[o].entry, newer |-> KeyAt(r, o - 1), older |-> older]
      <4>1. m[r[o].key] = [NodeAt(r, o) EXCEPT !.older = older]
        BY <2>2, <2>6, <2>7
      <4>2. QED
        BY <2>3, <4>1
    <3>3. KeyAt(p, j - 1) = KeyAt(r, o - 1) /\ KeyAt(p, j + 1) = older
      BY <2>4, <3>1
    <3>4. QED
      BY <2>2, <2>5, <3>2, <3>3
  <2>8. CASE o = i + 1
    <3>1. j = i /\ o = j + 1 /\ j - 1 < i /\ ~(j + 1 < i) /\ j + 2 = o + 1 /\ o # i - 1
      BY <2>1, <2>8
    <3>2. m[r[o].key] = [entry |-> r[o].entry, newer |-> newer, older |-> KeyAt(r, o + 1)]
      BY <2>2, <2>3, <2>6, <2>8, <3>1
    <3>3. KeyAt(p, j - 1) = newer /\ KeyAt(p, j + 1) = KeyAt(r, o + 1)
      BY <2>4, <3>1
    <3>4. QED
      BY <2>2, <2>5, <3>2, <3>3
  <2>9. CASE o # i - 1 /\ o # i + 1
    <3>1. m[r[o].key] = NodeAt(r, o)
      BY <2>2, <2>6, <2>9
    <3>2. KeyAt(p, j - 1) = KeyAt(r, o - 1) /\ KeyAt(p, j + 1) = KeyAt(r, o + 1)
      <4>1. CASE j < i
        <5>1. o = j /\ j - 1 < i /\ j + 1 < i
          BY <2>1, <2>9, <4>1
        <5>2. QED
          BY <2>4, <5>1
      <4>2. CASE ~(j < i)
        <5>1. o = j + 1 /\ ~(j - 1 < i) /\ ~(j + 1 < i) /\ o - 1 = j /\ o + 1 = j + 2
          BY <2>1, <2>9, <4>2
        <5>2. QED
          BY <2>4, <5>1
      <4>3. QED
        BY <4>1, <4>2
    <3>3. QED
      BY <2>2, <2>3, <2>5, <3>1, <3>2
  <2>10. QED
    BY <2>7, <2>8, <2>9
<1>11. m[k] = NodeAt(r, i)
  <2>1. k # newer /\ k # older
    BY <1>4
  <2>2. QED
    BY <1>2, <1>3, <2>1
<1>12. u.newest = KeyAt(p, 1)
  <2>1. KeyAt(p, 1) = IF 1 < i THEN KeyAt(r, 1) ELSE KeyAt(r, 2)
    BY <1>9
  <2>2. CASE i = 1
    BY <1>1, <1>2, <1>5, <2>1, <2>2
  <2>3. CASE i # 1
    <3>1. s.newest # k
      BY <1>1, <1>2, <2>3 DEF Keyed
    <3>2. 1 < i
      BY <2>3
    <3>3. QED
      BY <1>1, <1>5, <2>1, <3>1, <3>2
  <2>4. QED
    BY <2>2, <2>3
<1>13. u.oldest = KeyAt(p, Len(p))
  <2>1. KeyAt(p, Len(r) - 1) = IF Len(r) - 1 < i THEN KeyAt(r, Len(r) - 1) ELSE KeyAt(r, Len(r))
    <3>1. Len(r) - 1 \in Int /\ (Len(r) - 1) + 1 = Len(r)
      BY <1>1
    <3>2. QED
      BY <1>9, <3>1
  <2>2. CASE i = Len(r)
    <3>1. Len(r) - 1 < i /\ Len(r) - 1 = i - 1
      BY <1>1, <2>2
    <3>2. s.oldest = k
      BY <1>1, <1>2, <2>2
    <3>3. QED
      BY <1>5, <1>8, <2>1, <3>1, <3>2
  <2>3. CASE i # Len(r)
    <3>1. ~(Len(r) - 1 < i) /\ Len(r) \in 1..Len(r)
      BY <1>1, <2>3
    <3>2. s.oldest # k
      BY <1>1, <1>2, <2>3, <3>1 DEF Keyed
    <3>3. QED
      BY <1>1, <1>5, <1>8, <2>1, <3>1, <3>2
  <2>4. QED
    BY <2>2, <2>3
<1> HIDE DEF m, newer, older
<1>14. u.map = m /\ u.total_bytes = s.total_bytes
  BY <1>5
<1>15. u \in LruState
  <2>1. KeyAt(p, 1) \in Link /\ KeyAt(p, Len(p)) \in Link
    BY <1>8, KeysAt
  <2>2. u.newest \in Link /\ u.oldest \in Link /\ s.total_bytes \in Nat
    BY <1>1, <1>12, <1>13, <2>1 DEF LruState
  <2>3. u = [map |-> u.map, newest |-> u.newest, oldest |-> u.oldest, total_bytes |-> s.total_bytes]
    BY <1>5
  <2> HIDE DEF u
  <2>4. QED
    BY <1>6, <1>14, <2>2, <2>3 DEF LruState
<1> HIDE DEF u, p, k
<1>16. Linked(u, p)
  BY <1>8, <1>10, <1>12, <1>13, <1>14, <1>15 DEF Linked
<1>17. Only(u, p, {k})
  <2> SUFFICES ASSUME NEW q \in Keys \ {k}, u.map[q] # Nil PROVE \E n \in 1..Len(p) : q = p[n].key
    BY DEF Only
  <2>1. s.map[q] # Nil
    BY <1>7, <1>14
  <2>2. PICK j \in 1..Len(r) : q = r[j].key
    BY <2>1 DEF Only
  <2>3. j # i
    BY <2>2 DEF k
  <2>4. QED
    BY <1>8, <2>2, <2>3
<1>18. u.map[k] \in LruNode /\ u.map[k].entry = r[i].entry
  BY <1>2, <1>11, <1>14 DEF NodeAt
<1>19. Apart(u, p, k, r[i].entry) /\ u.total_bytes = s.total_bytes
  BY <1>8, <1>14, <1>16, <1>17, <1>18 DEF Apart
<1>20. QED
  BY <1>19 DEF u, p, k

\* A list with a new key in front of it still has each key once.
LEMMA ConsIsKeyed ==
    ASSUME NEW r, Keyed(r), NEW x \in Slot, \A i \in 1..Len(r) : r[i].key # x.key
    PROVE  Keyed(<<x>> \o r)
<1> DEFINE p == <<x>> \o r
<1>1. r \in Seq(Slot) /\ Len(r) \in Nat /\ \A i, j \in 1..Len(r) : r[i].key = r[j].key => i = j
  BY DEF Keyed
<1>2. /\ p \in Seq(Slot) /\ Len(p) = Len(r) + 1 /\ p[1] = x
      /\ \A j \in 1..Len(r) : p[j + 1] = r[j]
  BY <1>1, ConsIs
<1> HIDE DEF p
<1>3. \A n \in 1..Len(p) : n = 1 \/ (n - 1 \in 1..Len(r) /\ p[n] = r[n - 1])
  <2> SUFFICES ASSUME NEW n \in 1..Len(p), n # 1 PROVE n - 1 \in 1..Len(r) /\ p[n] = r[n - 1]
    OBVIOUS
  <2>1. n - 1 \in 1..Len(r) /\ (n - 1) + 1 = n
    BY <1>1, <1>2
  <2>2. QED
    BY <1>2, <2>1
<1>4. Keyed(p)
  <2> SUFFICES ASSUME NEW i \in 1..Len(p), NEW j \in 1..Len(p), p[i].key = p[j].key
               PROVE  i = j
    BY <1>2 DEF Keyed
  <2>1. CASE i = 1 \/ j = 1
    <3>1. \A n \in 1..Len(p) : n = 1 \/ p[n].key # x.key
      BY <1>3
    <3>2. QED
      BY <1>2, <2>1, <3>1
  <2>2. CASE i # 1 /\ j # 1
    <3>1. /\ i - 1 \in 1..Len(r) /\ j - 1 \in 1..Len(r)
          /\ p[i] = r[i - 1] /\ p[j] = r[j - 1]
      BY <1>3, <2>2
    <3>2. r[i - 1].key = r[j - 1].key
      BY <3>1
    <3>3. i - 1 = j - 1
      BY <1>1, <3>1, <3>2
    <3>4. QED
      BY <3>3
  <2>3. QED
    BY <2>1, <2>2
<1>5. QED
  BY <1>4 DEF p

\* push_front() puts the key before the first one.
LEMMA PushFrontIs ==
    ASSUME NEW s, NEW r, NEW k \in Keys, NEW e \in CacheEntry, Apart(s, r, k, e)
    PROVE  LET u == PushFront(s, k)
               p == <<[key |-> k, entry |-> e]>> \o r
           IN  Linked(u, p) /\ Only(u, p, {}) /\ u.total_bytes = s.total_bytes
<1> DEFINE u == PushFront(s, k)
           x == [key |-> k, entry |-> e]
           p == <<x>> \o r
           m == [q \in Keys |->
                    IF q = k THEN [s.map[k] EXCEPT !.newer = Nil, !.older = s.newest]
                    ELSE IF q = s.newest THEN [s.map[q] EXCEPT !.newer = k]
                    ELSE s.map[q]]
<1>1. /\ s \in LruState /\ r \in Seq(Slot) /\ Keyed(r) /\ Len(r) \in Nat
      /\ \A j \in 1..Len(r) : s.map[r[j].key] = NodeAt(r, j)
      /\ s.newest = KeyAt(r, 1) /\ s.oldest = KeyAt(r, Len(r))
      /\ Only(s, r, {k}) /\ s.map[k] \in LruNode /\ s.map[k].entry = e
      /\ \A j \in 1..Len(r) : r[j].key # k
  BY DEF Apart, Linked, Keyed
<1>2. /\ \A j : KeyAt(r, j) \in Link
      /\ \A j \in 1..Len(r) : /\ KeyAt(r, j) = r[j].key /\ r[j].key \in Keys /\ r[j].key # Nil
                              /\ NodeAt(r, j) \in LruNode /\ NodeAt(r, j) # Nil
  BY <1>1, KeysAt
<1>3. x \in Slot
  BY DEF Slot
<1>4. k # Nil /\ k \in Link
  BY CacheConfig DEF Link
<1>5. /\ p \in Seq(Slot) /\ Len(p) = Len(r) + 1 /\ p[1] = x
      /\ \A j \in 1..Len(r) : p[j + 1] = r[j]
  <2> HIDE DEF x
  <2>1. QED
    BY <1>1, <1>3, ConsIs
<1>6. x.key = k /\ x.entry = e
  OBVIOUS
<1> HIDE DEF p, x
<1>7. KeyAt(p, 1) = k /\ \A j \in Int : j # 1 => KeyAt(p, j) = KeyAt(r, j - 1)
  <2>1. KeyAt(p, 1) = k
    BY <1>1, <1>5, <1>6 DEF KeyAt
  <2>2. ASSUME NEW j \in Int, j # 1 PROVE KeyAt(p, j) = KeyAt(r, j - 1)
    <3>1. CASE j - 1 \in 1..Len(r)
      <4>1. p[(j - 1) + 1] = r[j - 1] /\ (j - 1) + 1 = j /\ j \in 1..Len(p)
        BY <1>1, <1>5, <3>1
      <4>2. QED
        BY <3>1, <4>1 DEF KeyAt
    <3>2. CASE j - 1 \notin 1..Len(r)
      <4>1. j \notin 1..Len(p)
        BY <1>1, <1>5, <2>2, <3>2
      <4>2. QED
        BY <3>2, <4>1 DEF KeyAt
    <3>3. QED
      BY <3>1, <3>2
  <2>3. QED
    BY <2>1, <2>2
<1>8. Keyed(p)
  BY <1>1, <1>3, <1>6, ConsIsKeyed DEF p
<1>9. u = [map |-> m, newest |-> k, oldest |-> IF s.oldest = Nil THEN k ELSE s.oldest,
           total_bytes |-> s.total_bytes]
  <2>1. u = [s EXCEPT !.map = m, !.newest = k, !.oldest = IF s.oldest = Nil THEN k ELSE s.oldest]
    BY DEF PushFront, LruState
  <2>2. s = [map |-> s.map, newest |-> s.newest, oldest |-> s.oldest,
             total_bytes |-> s.total_bytes]
    BY <1>1 DEF LruState
  <2> HIDE DEF u, m
  <2>3. QED
    BY <2>1, <2>2
<1>10. m \in [Keys -> LruNode \cup {Nil}]
  <2>1. ASSUME NEW q \in Keys PROVE m[q] \in LruNode \cup {Nil}
    <3>1. s.map[q] \in LruNode \cup {Nil}
      BY <1>1 DEF LruState
    <3>2. CASE q = k
      <4>1. s.newest \in Link /\ Nil \in Link
        BY <1>1, <1>2 DEF Link
      <4>2. [s.map[k] EXCEPT !.newer = Nil, !.older = s.newest] \in LruNode
        BY <1>1, <4>1 DEF LruNode
      <4>3. QED
        BY <3>2, <4>2
    <3>3. CASE q # k /\ q = s.newest
      <4>1. 1 \in 1..Len(r) /\ s.newest = r[1].key
        BY <1>1, <1>2, <3>3, CacheConfig DEF KeyAt
      <4>2. s.map[q] \in LruNode
        BY <1>1, <1>2, <3>3, <4>1
      <4>3. [s.map[q] EXCEPT !.newer = k] \in LruNode
        BY <1>4, <4>2 DEF LruNode
      <4>4. QED
        BY <3>3, <4>3
    <3>4. CASE q # k /\ q # s.newest
      BY <3>1, <3>4
    <3>5. QED
      BY <3>2, <3>3, <3>4
  <2>2. QED
    BY <2>1
<1>11. m[k] = NodeAt(p, 1)
  <2>1. PICK a, b : s.map[k] = [entry |-> e, newer |-> a, older |-> b]
    BY <1>1 DEF LruNode
  <2>2. m[k] = [s.map[k] EXCEPT !.newer = Nil, !.older = s.newest]
    OBVIOUS
  <2> DEFINE from == s.map[k]
             link == s.newest
  <2>21. m[k] = [from EXCEPT !.newer = Nil, !.older = link] /\ from = [entry |-> e, newer |-> a, older |-> b]
    BY <2>1, <2>2
  <2> HIDE DEF m, from, link
  <2>22. m[k] = [entry |-> e, newer |-> Nil, older |-> link]
    BY <2>21
  <2>3. m[k] = [entry |-> e, newer |-> Nil, older |-> s.newest]
    BY <2>22 DEF link
  <2>4. KeyAt(p, 0) = Nil /\ KeyAt(p, 2) = KeyAt(r, 1)
    BY <1>1, <1>7 DEF KeyAt
  <2>5. NodeAt(p, 1) = [entry |-> p[1].entry, newer |-> KeyAt(p, 0), older |-> KeyAt(p, 2)]
    BY DEF NodeAt
  <2>6. QED
    BY <1>1, <1>5, <1>6, <2>3, <2>4, <2>5
<1>12. ASSUME NEW j \in 1..Len(r) PROVE m[r[j].key] = NodeAt(p, j + 1)
  <2>1. /\ s.map[r[j].key] = NodeAt(r, j) /\ r[j].key # k /\ r[j].key \in Keys /\ p[j + 1] = r[j]
        /\ (r[j].key = s.newest <=> j = 1)
    <3>1. r[j].key = s.newest <=> j = 1
      BY <1>1, <1>2 DEF KeyAt, Keyed
    <3>2. QED
      BY <1>1, <1>2, <1>5, <3>1
  <2>2. NodeAt(r, j) = [entry |-> r[j].entry, newer |-> KeyAt(r, j - 1), older |-> KeyAt(r, j + 1)]
    BY DEF NodeAt
  <2>3. NodeAt(p, j + 1) = [entry |-> r[j].entry, newer |-> KeyAt(p, j), older |-> KeyAt(p, j + 2)]
    <3>1. (j + 1) - 1 = j /\ (j + 1) + 1 = j + 2
      OBVIOUS
    <3>2. QED
      BY <2>1, <3>1 DEF NodeAt
  <2>4. KeyAt(p, j + 2) = KeyAt(r, j + 1)
    <3>1. j + 2 \in Int /\ j + 2 # 1 /\ (j + 2) - 1 = j + 1
      OBVIOUS
    <3>2. QED
      BY <1>7, <3>1
  <2>5. CASE j = 1
    <3>1. m[r[j].key] = [NodeAt(r, j) EXCEPT !.newer = k]
      BY <2>1, <2>5
    <3>2. QED
      BY <1>7, <2>2, <2>3, <2>4, <2>5, <3>1
  <2>6. CASE j # 1
    <3>1. m[r[j].key] = NodeAt(r, j)
      BY <2>1, <2>6
    <3>2. KeyAt(p, j) = KeyAt(r, j - 1)
      BY <1>7, <2>6
    <3>3. QED
      BY <2>2, <2>3, <2>4, <3>1, <3>2
  <2>7. QED
    BY <2>5, <2>6
<1>13. \A i \in 1..Len(p) : m[p[i].key] = NodeAt(p, i)
  <2> SUFFICES ASSUME NEW i \in 1..Len(p) PROVE m[p[i].key] = NodeAt(p, i)
    OBVIOUS
  <2>1. CASE i = 1
    BY <1>5, <1>6, <1>11, <2>1
  <2>2. CASE i # 1
    <3>1. i - 1 \in 1..Len(r) /\ (i - 1) + 1 = i
      BY <1>1, <1>5, <2>2
    <3> HIDE DEF m
    <3>2. QED
      BY <1>5, <1>12, <3>1
  <2>3. QED
    BY <2>1, <2>2
<1>14. \A q \in Keys \ {k} : m[q] # Nil => s.map[q] # Nil
  <2> SUFFICES ASSUME NEW q \in Keys \ {k}, s.map[q] = Nil PROVE m[q] = Nil
    OBVIOUS
  <2>1. q # s.newest
    <3> SUFFICES ASSUME q = s.newest PROVE FALSE
      OBVIOUS
    <3>1. 1 \in 1..Len(r) /\ s.newest = r[1].key
      BY <1>1, <1>2, CacheConfig DEF KeyAt
    <3>2. QED
      BY <1>1, <1>2, <3>1
  <2>2. QED
    BY <2>1
<1>15. u.newest = KeyAt(p, 1) /\ u.oldest = KeyAt(p, Len(p))
  <2>1. u.newest = k /\ u.oldest = IF s.oldest = Nil THEN k ELSE s.oldest
    BY <1>9
  <2>2. CASE Len(r) = 0
    <3>1. s.oldest = Nil /\ Len(p) = 1
      BY <1>1, <1>5, <2>2 DEF KeyAt
    <3>2. QED
      BY <1>7, <2>1, <3>1
  <2>3. CASE Len(r) # 0
    <3>1. Len(r) \in 1..Len(r) /\ Len(p) \in Int /\ Len(p) # 1 /\ Len(p) - 1 = Len(r)
      BY <1>1, <1>5, <2>3
    <3>2. s.oldest # Nil /\ KeyAt(p, Len(p)) = KeyAt(r, Len(r))
      BY <1>1, <1>2, <1>7, <3>1
    <3>3. QED
      BY <1>1, <1>7, <2>1, <3>2
  <2>4. QED
    BY <2>2, <2>3
<1> HIDE DEF m
<1>16. u \in LruState
  <2>1. KeyAt(p, 1) \in Link /\ KeyAt(p, Len(p)) \in Link
    BY <1>5, KeysAt
  <2>2. u.newest \in Link /\ u.oldest \in Link /\ s.total_bytes \in Nat
    BY <1>1, <1>15, <2>1 DEF LruState
  <2>3. u = [map |-> m, newest |-> u.newest, oldest |-> u.oldest, total_bytes |-> s.total_bytes]
    BY <1>9
  <2> HIDE DEF u
  <2>4. QED
    BY <1>10, <2>2, <2>3 DEF LruState
<1>17. u.map = m /\ u.total_bytes = s.total_bytes
  BY <1>9
<1> HIDE DEF u
<1>18. Linked(u, p)
  BY <1>8, <1>13, <1>15, <1>16, <1>17 DEF Linked
<1>19. Only(u, p, {})
  <2> SUFFICES ASSUME NEW q \in Keys, u.map[q] # Nil PROVE \E n \in 1..Len(p) : q = p[n].key
    BY DEF Only
  <2>1. CASE q = k
    <3>1. 1 \in 1..Len(p)
      BY <1>1, <1>5
    <3>2. QED
      BY <1>5, <1>6, <2>1, <3>1
  <2>2. CASE q # k
    <3>1. PICK j \in 1..Len(r) : q = r[j].key
      BY <1>1, <1>14, <1>17, <2>2 DEF Only
    <3>2. j + 1 \in 1..Len(p) /\ p[j + 1] = r[j]
      BY <1>1, <1>5
    <3>3. QED
      BY <3>1, <3>2
  <2>3. QED
    BY <2>1, <2>2
<1>20. QED
  BY <1>17, <1>18, <1>19 DEF u, p, x

\* s without the key k, the total being n.
Gone(s, k, n) == [s EXCEPT !.map[k] = Nil, !.total_bytes = n]

\* A key apart from the list goes out of the map.
LEMMA ApartGone ==
    ASSUME NEW s, NEW r, NEW k \in Keys, NEW e, Apart(s, r, k, e),
           NEW n \in Nat
    PROVE  /\ Linked(Gone(s, k, n), r) /\ Only(Gone(s, k, n), r, {})
           /\ Gone(s, k, n).total_bytes = n
<1> DEFINE m == [s.map EXCEPT ![k] = Nil]
           u == Gone(s, k, n)
<1>1. /\ s \in LruState /\ r \in Seq(Slot) /\ Keyed(r)
      /\ \A j \in 1..Len(r) : s.map[r[j].key] = NodeAt(r, j)
      /\ s.newest = KeyAt(r, 1) /\ s.oldest = KeyAt(r, Len(r))
      /\ Only(s, r, {k})
      /\ \A j \in 1..Len(r) : r[j].key # k
  BY DEF Apart, Linked, Keyed
<1>2. s = [map |-> s.map, newest |-> s.newest, oldest |-> s.oldest, total_bytes |-> s.total_bytes]
      /\ s.map \in [Keys -> LruNode \cup {Nil}]
  BY <1>1 DEF LruState
<1>3. m \in [Keys -> LruNode \cup {Nil}] /\ m[k] = Nil
      /\ \A q \in Keys : q # k => m[q] = s.map[q]
  BY <1>2
<1>4. u = [map |-> m, newest |-> s.newest, oldest |-> s.oldest, total_bytes |-> n]
  <2>1. u = [s EXCEPT !.map = m, !.total_bytes = n]
    BY <1>2 DEF Gone
  <2> HIDE DEF m, u
  <2>2. QED
    BY <1>2, <2>1
<1> HIDE DEF m, u
<1>5. u \in LruState /\ u.map = m /\ u.newest = s.newest /\ u.oldest = s.oldest /\ u.total_bytes = n
  BY <1>1, <1>3, <1>4 DEF LruState
<1>6. \A j \in 1..Len(r) : r[j].key \in Keys
  BY <1>1, KeysAt
<1>7. Linked(u, r)
  BY <1>1, <1>3, <1>5, <1>6 DEF Linked
<1>8. Only(u, r, {})
  <2> SUFFICES ASSUME NEW q \in Keys, u.map[q] # Nil PROVE \E j \in 1..Len(r) : q = r[j].key
    BY DEF Only
  <2>1. q # k /\ s.map[q] # Nil
    BY <1>3, <1>5
  <2>2. QED
    BY <1>1, <2>1 DEF Only
<1>9. QED
  BY <1>5, <1>7, <1>8 DEF u

\* remove(), expiry and eviction take one slot out of the list.
LEMMA RemovedLists ==
    ASSUME NEW s, NEW r, Lists(s, r), NEW i \in 1..Len(r)
    PROVE  Lists(Removed(s, r[i].key), RemoveAt(r, i))
<1> DEFINE k == r[i].key
           p == RemoveAt(r, i)
           u == Unlink(s, k)
           n == SaturatingSub(u.total_bytes, s.map[k].entry.byte_size)
<1>1. /\ Linked(s, r) /\ Only(s, r, {}) /\ s.total_bytes = Abstract!BytesOf(r)
      /\ r \in Seq(Slot) /\ Keyed(r)
  BY DEF Lists, Linked, Keyed
<1>2. Apart(u, p, k, r[i].entry) /\ u.total_bytes = s.total_bytes
  BY <1>1, UnlinkIs
<1>3. s.map[k].entry.byte_size = Size(r[i]) /\ k \in Keys /\ Size(r[i]) \in Nat
  <2>1. s.map[k] = NodeAt(r, i)
    BY <1>1 DEF Linked
  <2>2. NodeAt(r, i).entry = r[i].entry
    BY DEF NodeAt
  <2>3. k \in Keys /\ Size(r[i]) \in Nat
    BY <1>1, KeysAt, SizesAreNat
  <2>4. QED
    BY <2>1, <2>2, <2>3 DEF Size
<1>4. p \in Seq(Slot) /\ Abstract!BytesOf(p) \in Nat
  <2>1. p \in Seq(Slot) /\ Len(p) = Len(r) - 1
    BY <1>1, CutIs
  <2>2. Len(p) \in 0..Len(p)
    BY <2>1
  <2>3. QED
    BY <2>1, <2>2, BytesStep DEF Abstract!BytesOf
<1>5. Abstract!BytesOf(r) = Abstract!BytesOf(p) + Size(r[i])
  BY <1>1, BytesOfCut
<1> HIDE DEF p, k, u
<1>6. n = Abstract!BytesOf(p) /\ n \in Nat
  BY <1>1, <1>2, <1>3, <1>4, <1>5 DEF SaturatingSub
<1>7. Removed(s, k) = Gone(u, k, n)
  BY DEF Removed, Gone, u
<1> HIDE DEF n
<1>8. Linked(Removed(s, k), p) /\ Only(Removed(s, k), p, {}) /\ Removed(s, k).total_bytes = n
  <2>1. n \in Nat /\ k \in Keys /\ Apart(u, p, k, r[i].entry)
    BY <1>2, <1>3, <1>6
  <2>2. QED
    BY <1>7, <2>1, ApartGone
<1>9. QED
  BY <1>6, <1>8 DEF Lists, p, k

\* An entry that was found goes before the others.
LEMMA GotLists ==
    ASSUME NEW s, NEW r, Lists(s, r), NEW i \in 1..Len(r)
    PROVE  Lists(PushFront(Unlink(s, r[i].key), r[i].key), <<r[i]>> \o RemoveAt(r, i))
<1> DEFINE k == r[i].key
           p == RemoveAt(r, i)
           u == Unlink(s, k)
           q == <<r[i]>> \o p
<1>1. /\ Linked(s, r) /\ Only(s, r, {}) /\ s.total_bytes = Abstract!BytesOf(r)
      /\ r \in Seq(Slot) /\ Keyed(r)
  BY DEF Lists, Linked, Keyed
<1>2. Apart(u, p, k, r[i].entry) /\ u.total_bytes = s.total_bytes
  BY <1>1, UnlinkIs
<1>3. r[i] \in Slot
  BY <1>1
<1>4. r[i] = [key |-> k, entry |-> r[i].entry] /\ k \in Keys /\ r[i].entry \in CacheEntry
  BY <1>3 DEF Slot
<1>5. p \in Seq(Slot)
  BY <1>1, CutIs
<1>6. /\ q \in Seq(Slot) /\ Len(q) = Len(p) + 1 /\ q[1] = r[i] /\ RemoveAt(q, 1) = p
      /\ Len(p) \in Nat
  BY <1>3, <1>5, ConsIs
<1>7. Abstract!BytesOf(q) = Abstract!BytesOf(p) + Size(r[i])
  <2>1. 1 \in 1..Len(q)
    BY <1>6
  <2> HIDE DEF q
  <2>2. QED
    BY <1>6, <2>1, BytesOfCut
<1>8. Abstract!BytesOf(r) = Abstract!BytesOf(p) + Size(r[i])
  BY <1>1, BytesOfCut
<1>9. /\ Linked(PushFront(u, k), <<[key |-> k, entry |-> r[i].entry]>> \o p)
      /\ Only(PushFront(u, k), <<[key |-> k, entry |-> r[i].entry]>> \o p, {})
      /\ PushFront(u, k).total_bytes = u.total_bytes
  <2> HIDE DEF u, p, k
  <2>1. QED
    BY <1>2, <1>4, PushFrontIs
<1>10. Linked(PushFront(u, k), q) /\ Only(PushFront(u, k), q, {})
  BY <1>4, <1>9
<1> HIDE DEF q
<1>11. Lists(PushFront(u, k), q)
  BY <1>1, <1>2, <1>7, <1>8, <1>9, <1>10 DEF Lists
<1>12. QED
  BY <1>11 DEF q

\* A new entry goes before the others.
LEMMA InsertedLists ==
    ASSUME NEW s, NEW r, Lists(s, r), NEW k \in Keys, s.map[k] = Nil, NEW e \in CacheEntry
    PROVE  Lists(Inserted(s, k, e), <<[key |-> k, entry |-> e]>> \o r)
<1> DEFINE node == [entry |-> e, newer |-> Nil, older |-> Nil]
           m == [s.map EXCEPT ![k] = node]
           t == [s EXCEPT !.map[k] = node]
           x == [key |-> k, entry |-> e]
           p == <<x>> \o r
           u == PushFront(t, k)
<1>1. /\ Linked(s, r) /\ Only(s, r, {}) /\ s.total_bytes = Abstract!BytesOf(r)
      /\ r \in Seq(Slot) /\ Keyed(r) /\ s \in LruState
      /\ \A j \in 1..Len(r) : s.map[r[j].key] = NodeAt(r, j)
      /\ s.newest = KeyAt(r, 1) /\ s.oldest = KeyAt(r, Len(r))
  BY DEF Lists, Linked, Keyed
<1>2. node \in LruNode /\ node.entry = e
  BY DEF LruNode, Link
<1> HIDE DEF node
<1>3. s = [map |-> s.map, newest |-> s.newest, oldest |-> s.oldest, total_bytes |-> s.total_bytes]
      /\ s.map \in [Keys -> LruNode \cup {Nil}]
  BY <1>1 DEF LruState
<1>4. m \in [Keys -> LruNode \cup {Nil}] /\ m[k] = node
      /\ \A q \in Keys : q # k => m[q] = s.map[q]
  BY <1>2, <1>3
<1>5. t = [map |-> m, newest |-> s.newest, oldest |-> s.oldest, total_bytes |-> s.total_bytes]
  BY <1>3
<1> HIDE DEF m, t
<1>6. /\ t \in LruState /\ t.map = m /\ t.newest = s.newest /\ t.oldest = s.oldest
      /\ t.total_bytes = s.total_bytes
  BY <1>1, <1>3, <1>4, <1>5 DEF LruState
<1>7. \A j \in 1..Len(r) : r[j].key \in Keys /\ r[j].key # k
  <2>1. \A j \in 1..Len(r) : r[j].key \in Keys /\ NodeAt(r, j) # Nil
    BY <1>1, KeysAt
  <2>2. QED
    BY <1>1, <2>1
<1>8. Linked(t, r)
  BY <1>1, <1>4, <1>6, <1>7 DEF Linked
<1>9. Only(t, r, {k})
  <2> SUFFICES ASSUME NEW q \in Keys \ {k}, t.map[q] # Nil PROVE \E j \in 1..Len(r) : q = r[j].key
    BY DEF Only
  <2>1. s.map[q] # Nil
    BY <1>4, <1>6
  <2>2. QED
    BY <1>1, <2>1 DEF Only
<1>10. Apart(t, r, k, e)
  BY <1>2, <1>4, <1>6, <1>7, <1>8, <1>9 DEF Apart
<1>11. Linked(u, p) /\ Only(u, p, {}) /\ u.total_bytes = t.total_bytes
  BY <1>10, PushFrontIs
<1>12. x \in Slot /\ Size(x) = e.byte_size
  BY DEF Slot, Size
<1>13. /\ p \in Seq(Slot) /\ Len(p) = Len(r) + 1 /\ p[1] = x /\ RemoveAt(p, 1) = r
       /\ Len(r) \in Nat
  <2> HIDE DEF x
  <2>1. QED
    BY <1>1, <1>12, ConsIs
<1>14. Abstract!BytesOf(p) = Abstract!BytesOf(r) + e.byte_size
  <2>1. 1 \in 1..Len(p)
    BY <1>13
  <2> HIDE DEF p, x
  <2>2. QED
    BY <1>12, <1>13, <2>1, BytesOfCut
<1> HIDE DEF u, p, x
<1>15. Inserted(s, k, e) = [u EXCEPT !.total_bytes = u.total_bytes + e.byte_size]
  BY DEF Inserted, u, t, node
<1>16. u \in LruState /\ e.byte_size \in Nat
  <2>1. Size(x) \in Nat
    BY <1>12, SizesAreNat
  <2>2. QED
    BY <1>11, <1>12, <2>1 DEF Linked
<1>17. u = [map |-> u.map, newest |-> u.newest, oldest |-> u.oldest, total_bytes |-> u.total_bytes]
  BY <1>16 DEF LruState
<1>18. LET v == Inserted(s, k, e)
       IN  /\ v \in LruState /\ v.map = u.map /\ v.newest = u.newest /\ v.oldest = u.oldest
           /\ v.total_bytes = u.total_bytes + e.byte_size
  <2>1. [u EXCEPT !.total_bytes = u.total_bytes + e.byte_size] =
            [map |-> u.map, newest |-> u.newest, oldest |-> u.oldest,
             total_bytes |-> u.total_bytes + e.byte_size]
    BY <1>17
  <2>2. u.map \in [Keys -> LruNode \cup {Nil}] /\ u.newest \in Link /\ u.oldest \in Link
        /\ u.total_bytes + e.byte_size \in Nat
    BY <1>16 DEF LruState
  <2>3. QED
    BY <1>15, <2>1, <2>2 DEF LruState
<1>19. Lists(Inserted(s, k, e), p)
  BY <1>1, <1>6, <1>11, <1>14, <1>18 DEF Lists, Linked, Only
<1>20. QED
  BY <1>19 DEF p, x

\* The first m places of a sequence.
LEMMA FirstIs ==
    ASSUME NEW S, NEW r \in Seq(S), NEW m \in 0..Len(r)
    PROVE  /\ SubSeq(r, 1, m) \in Seq(S) /\ Len(SubSeq(r, 1, m)) = m
           /\ \A j \in 1..m : SubSeq(r, 1, m)[j] = r[j]
OBVIOUS

\* Their bytes.
LEMMA BytesOfFirst ==
    ASSUME NEW r \in Seq(Slot), NEW m \in 0..Len(r)
    PROVE  Abstract!BytesOf(SubSeq(r, 1, m)) = Abstract!BytesTo(r, m)
<1>1. /\ SubSeq(r, 1, m) \in Seq(Slot) /\ Len(SubSeq(r, 1, m)) = m
      /\ \A j \in 1..m : SubSeq(r, 1, m)[j] = r[j]
  BY FirstIs
<1>2. m \in Nat /\ m <= Len(r) /\ m <= Len(SubSeq(r, 1, m))
  BY <1>1
<1>3. Abstract!BytesTo(SubSeq(r, 1, m), m) = Abstract!BytesTo(r, m)
  BY <1>1, <1>2, BytesOfEqual
<1>4. QED
  BY <1>1, <1>3 DEF Abstract!BytesOf

\* Without the last one.
LEMMA CutLast ==
    ASSUME NEW S, NEW r \in Seq(S), NEW m \in 1..Len(r)
    PROVE  RemoveAt(SubSeq(r, 1, m), m) = SubSeq(r, 1, m - 1)
<1> DEFINE p == SubSeq(r, 1, m)
           q == SubSeq(r, 1, m - 1)
<1>1. m \in 0..Len(r) /\ m - 1 \in 0..Len(r)
  OBVIOUS
<1>2. p \in Seq(S) /\ Len(p) = m /\ \A j \in 1..m : p[j] = r[j]
  BY <1>1, FirstIs
<1>3. q \in Seq(S) /\ Len(q) = m - 1 /\ \A j \in 1..(m - 1) : q[j] = r[j]
  BY <1>1, FirstIs
<1> HIDE DEF p, q
<1>4. m \in 1..Len(p)
  BY <1>2
<1>5. /\ RemoveAt(p, m) \in Seq(S) /\ Len(RemoveAt(p, m)) = m - 1
      /\ \A j \in 1..(m - 1) : RemoveAt(p, m)[j] = IF j < m THEN p[j] ELSE p[j + 1]
  <2>1. /\ RemoveAt(p, m) \in Seq(S) /\ Len(RemoveAt(p, m)) = Len(p) - 1
        /\ \A j \in 1..(Len(p) - 1) : RemoveAt(p, m)[j] = IF j < m THEN p[j] ELSE p[j + 1]
    BY <1>2, <1>4, CutIs
  <2>2. QED
    BY <1>2, <2>1
<1>6. \A j \in 1..(m - 1) : RemoveAt(p, m)[j] = q[j]
  <2> SUFFICES ASSUME NEW j \in 1..(m - 1) PROVE RemoveAt(p, m)[j] = q[j]
    OBVIOUS
  <2>1. j < m /\ j \in 1..m
    OBVIOUS
  <2>2. QED
    BY <1>2, <1>3, <1>5, <2>1
<1>7. RemoveAt(p, m) = q
  BY <1>3, <1>5, <1>6, SeqEqual
<1>8. QED
  BY <1>7 DEF p, q

\* The map has the keys of the list, and as many as the list has slots.
LEMMA MappedIs ==
    ASSUME NEW s, NEW r, Linked(s, r), Only(s, r, {})
    PROVE  /\ Mapped(s) = {r[i].key : i \in 1..Len(r)}
           /\ Cardinality(Mapped(s)) = Len(r) /\ IsFiniteSet(Mapped(s))
<1> DEFINE M == Mapped(s)
           f == [i \in 1..Len(r) |-> r[i].key]
<1>1. /\ r \in Seq(Slot) /\ Keyed(r) /\ Len(r) \in Nat
      /\ \A j \in 1..Len(r) : s.map[r[j].key] = NodeAt(r, j)
  BY DEF Linked, Keyed
<1>2. \A j \in 1..Len(r) : r[j].key \in Keys /\ NodeAt(r, j) # Nil
  BY <1>1, KeysAt
<1>3. M = {r[i].key : i \in 1..Len(r)}
  BY <1>1, <1>2 DEF Mapped, Only
<1>4. IsFiniteSet(1..Len(r)) /\ Cardinality(1..Len(r)) = Len(r)
  <2>1. /\ IsFiniteSet(1..Len(r))
        /\ Cardinality(1..Len(r)) = IF 1 > Len(r) THEN 0 ELSE Len(r) - 1 + 1
    BY <1>1, FS_Interval
  <2>2. QED
    BY <1>1, <2>1
<1> HIDE DEF M
<1>5. f \in Bijection(1..Len(r), M)
  <2>1. f \in Injection(1..Len(r), M)
    BY <1>1, <1>3 DEF Keyed, Injection, IsInjective
  <2>2. f \in Surjection(1..Len(r), M)
    BY <1>3 DEF Surjection
  <2>3. QED
    BY <2>1, <2>2 DEF Bijection
<1>6. ExistsBijection(1..Len(r), M)
  BY <1>5 DEF ExistsBijection
<1>7. IsFiniteSet(M) /\ Cardinality(M) = Len(r)
  BY <1>4, <1>6, FS_Bijection
<1>8. QED
  BY <1>3, <1>7 DEF M

\* One turn of the loop of put().
Evict(s, bytes) ==
    IF NoRoom(s, bytes) /\ s.oldest # Nil THEN Removed(s, s.oldest) ELSE s

\* The first j slots leave no room for bytes.
Crowded(r, j, bytes) == j >= MaxEntries \/ Abstract!BytesTo(r, j) + bytes > MaxBytes

\* The state lists the first m slots of r, and all longer beginnings are crowded.
LeftOf(s, r, m, bytes) ==
    /\ Lists(s, SubSeq(r, 1, m))
    /\ \A j \in (m + 1)..Len(r) : Crowded(r, j, bytes)

\* A turn of the loop does nothing when there is room or nothing left, and takes the
\* last slot otherwise.
LEMMA EvictLeaves ==
    ASSUME NEW s, NEW r \in Seq(Slot), NEW m \in 0..Len(r), NEW bytes \in Nat,
           LeftOf(s, r, m, bytes)
    PROVE  /\ m = 0 \/ ~Crowded(r, m, bytes) => Evict(s, bytes) = s
           /\ m # 0 /\ Crowded(r, m, bytes) => LeftOf(Evict(s, bytes), r, m - 1, bytes)
<1> DEFINE p == SubSeq(r, 1, m)
<1>1. p \in Seq(Slot) /\ Len(p) = m /\ \A j \in 1..m : p[j] = r[j]
  BY FirstIs
<1>2. Lists(s, p)
  BY DEF LeftOf
<1>3. s.total_bytes = Abstract!BytesTo(r, m)
  BY <1>2, BytesOfFirst DEF Lists
<1>4. Cardinality(Mapped(s)) = m
  <2> HIDE DEF p
  <2>1. QED
    BY <1>1, <1>2, MappedIs DEF Lists
<1>5. NoRoom(s, bytes) <=> Crowded(r, m, bytes)
  BY <1>3, <1>4 DEF NoRoom, Crowded
<1>6. s.oldest = KeyAt(p, m)
  <2> HIDE DEF p
  <2>1. QED
    BY <1>1, <1>2 DEF Lists, Linked
<1>7. CASE m = 0
  <2>1. s.oldest = Nil
    BY <1>1, <1>6, <1>7 DEF KeyAt
  <2>2. QED
    BY <1>7, <2>1 DEF Evict
<1>8. CASE m # 0
  <2> HIDE DEF p
  <2>1. m \in 1..Len(p) /\ m \in 1..Len(r)
    BY <1>1, <1>8
  <2>2. s.oldest = p[m].key /\ s.oldest # Nil
    BY <1>1, <1>6, <2>1, KeysAt
  <2>3. CASE ~Crowded(r, m, bytes)
    BY <1>5, <1>8, <2>3 DEF Evict
  <2>4. CASE Crowded(r, m, bytes)
    <3>1. Evict(s, bytes) = Removed(s, p[m].key)
      BY <1>5, <2>2, <2>4 DEF Evict
    <3>2. Lists(Removed(s, p[m].key), RemoveAt(p, m))
      BY <1>2, <2>1, RemovedLists
    <3>3. RemoveAt(p, m) = SubSeq(r, 1, m - 1)
      BY <2>1, CutLast DEF p
    <3>4. \A j \in ((m - 1) + 1)..Len(r) : Crowded(r, j, bytes)
      <4>1. \A j \in ((m - 1) + 1)..Len(r) : j = m \/ j \in (m + 1)..Len(r)
        OBVIOUS
      <4>2. QED
        BY <2>4, <4>1 DEF LeftOf
    <3>5. QED
      BY <1>8, <2>4, <3>1, <3>2, <3>3, <3>4 DEF LeftOf
  <2>5. QED
    BY <2>3, <2>4
<1>9. QED
  BY <1>7, <1>8

\* States of the cache that list something.
Good == {s \in LruState : \E r \in Seq(Slot) : Lists(s, r)}

\* A turn of the loop never leaves the states that list something.
LEMMA EvictIsGood ==
    ASSUME NEW bytes \in Nat
    PROVE  \A s \in Good : Evict(s, bytes) \in Good
<1> SUFFICES ASSUME NEW s \in Good PROVE Evict(s, bytes) \in Good
  OBVIOUS
<1>1. PICK r \in Seq(Slot) : Lists(s, r)
  BY DEF Good
<1>2. Len(r) \in 0..Len(r) /\ SubSeq(r, 1, Len(r)) = r
  BY SubSeqFull
<1>3. LeftOf(s, r, Len(r), bytes)
  <2>1. \A j \in (Len(r) + 1)..Len(r) : FALSE
    BY <1>2
  <2>2. QED
    BY <1>1, <1>2, <2>1 DEF LeftOf
<1>4. CASE Evict(s, bytes) = s
  BY <1>4
<1>5. CASE Evict(s, bytes) # s
  <2>1. LeftOf(Evict(s, bytes), r, Len(r) - 1, bytes) /\ Len(r) # 0
    BY <1>2, <1>3, <1>5, EvictLeaves
  <2>2. Len(r) - 1 \in 0..Len(r)
    BY <1>2, <2>1
  <2>3. SubSeq(r, 1, Len(r) - 1) \in Seq(Slot)
    BY <2>2, FirstIs
  <2>4. Lists(Evict(s, bytes), SubSeq(r, 1, Len(r) - 1))
    BY <2>1 DEF LeftOf
  <2>5. Evict(s, bytes) \in LruState
    BY <2>4 DEF Lists, Linked
  <2>6. QED
    BY <2>3, <2>4, <2>5 DEF Good
<1>6. QED
  BY <1>4, <1>5

\* after is the function that MakeRoom(s, bytes) chooses.
IsLoop(after, s, bytes, c) ==
    after = [n \in 0..c |-> IF n = 0 THEN s ELSE Evict(after[n - 1], bytes)]

\* MakeRoom is the value of a recursive function that exists.
LEMMA LoopExists ==
    ASSUME NEW s \in Good, NEW bytes \in Nat, Cardinality(Mapped(s)) \in Nat
    PROVE  \E after : /\ IsLoop(after, s, bytes, Cardinality(Mapped(s)))
                      /\ MakeRoom(s, bytes) = after[Cardinality(Mapped(s))]
<1> DEFINE c == Cardinality(Mapped(s))
           h == [i \in 1..c |-> [t \in Good |-> Evict(t, bytes)]]
<1>1. h \in [1..c -> [Good -> Good]]
  BY EvictIsGood
<1>2. PICK f : Follows(f, s, h, c, Good)
  <2> HIDE DEF h, c
  <2>1. c \in Nat
    BY DEF c
  <2>2. QED
    BY <1>1, <2>1, Recursion
<1>3. ASSUME NEW i \in 1..c PROVE f[i] = Evict(f[i - 1], bytes)
  <2>1. i - 1 \in 0..c
    OBVIOUS
  <2>2. f[i - 1] \in Good
    BY <1>2, <2>1 DEF Follows
  <2>3. f[i] = h[i][f[i - 1]]
    BY <1>2 DEF Follows
  <2>4. QED
    BY <2>2, <2>3
<1> HIDE DEF h, c
<1>4. IsLoop(f, s, bytes, c)
  <2> DEFINE g == [n \in 0..c |-> IF n = 0 THEN s ELSE Evict(f[n - 1], bytes)]
  <2>1. f \in [0..c -> Good] /\ f[0] = s
    BY <1>2 DEF Follows
  <2>2. \A n \in 0..c : n = 0 \/ n \in 1..c
    BY DEF c
  <2>3. \A n \in 0..c : f[n] = g[n]
    BY <1>3, <2>1, <2>2
  <2>4. f = g
    BY <2>1, <2>3
  <2>5. QED
    BY <2>4 DEF IsLoop
<1> DEFINE a == CHOOSE after : IsLoop(after, s, bytes, c)
<1>5. IsLoop(a, s, bytes, c)
  BY <1>4
<1>6. MakeRoom(s, bytes) = a[c]
  BY DEF MakeRoom, IsLoop, Evict, c
<1>7. QED
  BY <1>5, <1>6 DEF c

\* The loop of put() leaves as many of the newest slots as make room, and no others.
LEMMA MakeRoomLists ==
    ASSUME NEW s, NEW r, Lists(s, r), NEW bytes \in Nat
    PROVE  \E m \in 0..Len(r) :
              /\ Lists(MakeRoom(s, bytes), SubSeq(r, 1, m))
              /\ m = 0 \/ ~Crowded(r, m, bytes)
              /\ \A j \in (m + 1)..Len(r) : Crowded(r, j, bytes)
<1> DEFINE c == Len(r)
<1>1. r \in Seq(Slot) /\ c \in Nat /\ s \in Good
  <2>1. r \in Seq(Slot) /\ s \in LruState
    BY DEF Lists, Linked, Keyed
  <2>2. QED
    BY <2>1 DEF Good
<1>2. Cardinality(Mapped(s)) = c
  BY MappedIs DEF Lists
<1>3. PICK after : IsLoop(after, s, bytes, c) /\ MakeRoom(s, bytes) = after[c]
  <2> HIDE DEF c
  <2>1. QED
    BY <1>1, <1>2, LoopExists
<1>4. after[0] = s /\ \A n \in Nat : n + 1 <= c => after[n + 1] = Evict(after[n], bytes)
  <2>1. after[0] = s
    BY <1>1, <1>3 DEF IsLoop
  <2>2. ASSUME NEW n \in Nat, n + 1 <= c PROVE after[n + 1] = Evict(after[n], bytes)
    <3>1. n + 1 \in 0..c /\ n + 1 # 0 /\ (n + 1) - 1 = n
      BY <2>2
    <3> HIDE DEF c
    <3>2. QED
      BY <1>3, <3>1 DEF IsLoop
  <2>3. QED
    BY <2>1, <2>2
<1> DEFINE Turn(n, m) == /\ LeftOf(after[n], r, m, bytes)
                         /\ m = c - n \/ m = 0 \/ ~Crowded(r, m, bytes)
           T == {n \in Nat : n <= c => \E m \in 0..c : Turn(n, m)}
<1>5. 0 \in T
  <2>1. c \in 0..c /\ SubSeq(r, 1, c) = r /\ c = c - 0 /\ \A j \in (c + 1)..c : FALSE
    BY <1>1, SubSeqFull
  <2>2. Turn(0, c)
    BY <1>4, <2>1 DEF LeftOf
  <2>3. QED
    BY <2>1, <2>2
<1>6. ASSUME NEW n \in Nat, n \in T PROVE n + 1 \in T
  <2> SUFFICES ASSUME n + 1 <= c PROVE \E m \in 0..c : Turn(n + 1, m)
    OBVIOUS
  <2>1. n <= c
    BY <1>1
  <2>2. PICK m \in 0..c : Turn(n, m)
    BY <1>6, <2>1
  <2>3. after[n + 1] = Evict(after[n], bytes)
    BY <1>4
  <2>4. m \in 0..Len(r) /\ LeftOf(after[n], r, m, bytes)
    BY <2>2
  <2>5. CASE m = 0 \/ ~Crowded(r, m, bytes)
    <3>1. Evict(after[n], bytes) = after[n]
      BY <1>1, <2>4, <2>5, EvictLeaves
    <3>2. Turn(n + 1, m)
      BY <2>3, <2>4, <2>5, <3>1
    <3>3. QED
      BY <3>2
  <2>6. CASE m # 0 /\ Crowded(r, m, bytes)
    <3>1. LeftOf(Evict(after[n], bytes), r, m - 1, bytes)
      BY <1>1, <2>4, <2>6, EvictLeaves
    <3>2. m = c - n
      BY <2>2, <2>6
    <3>3. m - 1 \in 0..c /\ m - 1 = c - (n + 1)
      BY <1>1, <2>6, <3>2
    <3>4. Turn(n + 1, m - 1)
      BY <2>3, <3>1, <3>3
    <3> HIDE DEF Turn
    <3>5. QED
      BY <3>3, <3>4
  <2>7. QED
    BY <2>5, <2>6
<1> HIDE DEF T
<1>7. c \in T
  BY <1>1, <1>5, <1>6, NaturalInduction
<1>8. PICK m \in 0..c : Turn(c, m)
  BY <1>1, <1>7 DEF T
<1>9. m = 0 \/ ~Crowded(r, m, bytes)
  BY <1>1, <1>8
<1>10. QED
  BY <1>3, <1>8, <1>9 DEF LeftOf

\* And that is what the abstract specification keeps.
LEMMA KeptIs ==
    ASSUME NEW r \in Seq(Slot), NEW e \in CacheEntry, NEW m \in 0..Len(r),
           m = 0 \/ ~Crowded(r, m, e.byte_size),
           \A j \in (m + 1)..Len(r) : Crowded(r, j, e.byte_size)
    PROVE  Abstract!Kept(r, e) = SubSeq(r, 1, m)
<1> DEFINE first(j) == SubSeq(r, 1, j)
           fitting == {p \in Prefixes(r) : Abstract!RoomFor(e, p)}
<1>1. \A j \in 0..Len(r) : /\ first(j) \in Seq(Slot) /\ Len(first(j)) = j
                           /\ Abstract!BytesOf(first(j)) = Abstract!BytesTo(r, j)
  BY FirstIs, BytesOfFirst
<1>2. \A j \in 0..Len(r) : Abstract!BytesTo(r, j) \in Nat
  BY BytesStep
<1>3. e.byte_size \in Nat
  BY CacheConfig DEF CacheEntry
<1>4. Prefixes(r) = {first(j) : j \in 0..Len(r)}
  BY DEF Prefixes
<1> HIDE DEF first
<1>5. \A j \in 0..Len(r) : Abstract!RoomFor(e, first(j)) <=> ~Crowded(r, j, e.byte_size)
  <2> SUFFICES ASSUME NEW j \in 0..Len(r)
               PROVE  Abstract!RoomFor(e, first(j)) <=> ~Crowded(r, j, e.byte_size)
    OBVIOUS
  <2>1. Len(first(j)) = j /\ Abstract!BytesOf(first(j)) = Abstract!BytesTo(r, j)
        /\ Abstract!BytesTo(r, j) \in Nat
    BY <1>1, <1>2
  <2>2. QED
    BY <1>3, <2>1, CacheConfig DEF Abstract!RoomFor, Crowded
<1>6. ASSUME NEW p \in fitting PROVE \E j \in 0..m : p = first(j) /\ Len(p) = j
  <2>1. PICK j \in 0..Len(r) : p = first(j)
    BY <1>4, <1>6
  <2>2. ~Crowded(r, j, e.byte_size)
    BY <1>5, <1>6, <2>1
  <2>3. j \notin (m + 1)..Len(r)
    BY <2>2
  <2>4. j \in 0..m
    BY <2>3
  <2>5. QED
    BY <1>1, <2>1, <2>4
<1>7. Abstract!Kept(r, e) = IF fitting = {} THEN << >>
                            ELSE CHOOSE p \in fitting : \A q \in fitting : Len(q) <= Len(p)
  BY DEF Abstract!Kept, Abstract!Prefixes, Prefixes
<1>8. first(0) = << >>
  <2>1. 0 \in 0..Len(r)
    OBVIOUS
  <2>2. first(0) \in Seq(Slot) /\ Len(first(0)) = 0
    BY <1>1, <2>1
  <2>3. QED
    BY <2>2, EmptySeq
<1>9. CASE fitting = {}
  <2>1. m = 0
    <3> SUFFICES ASSUME m # 0 PROVE FALSE
      OBVIOUS
    <3>1. first(m) \in fitting
      BY <1>4, <1>5
    <3>2. QED
      BY <1>9, <3>1
  <2>2. QED
    BY <1>7, <1>8, <1>9, <2>1 DEF first
<1>10. CASE fitting # {}
  <2>1. first(m) \in fitting
    <3>1. CASE m = 0
      <4>1. PICK p \in fitting : TRUE
        BY <1>10
      <4>2. \E j \in 0..m : p = first(j)
        BY <1>6
      <4>3. p = first(m)
        BY <3>1, <4>2
      <4> HIDE DEF fitting
      <4>4. QED
        BY <4>1, <4>3
    <3>2. CASE m # 0
      BY <1>4, <1>5, <3>2
    <3>3. QED
      BY <3>1, <3>2
  <2> HIDE DEF fitting
  <2> DEFINE top == CHOOSE p \in fitting : \A q \in fitting : Len(q) <= Len(p)
  <2>2. Len(first(m)) = m
    BY <1>1
  <2>3. \A q \in fitting : Len(q) <= Len(first(m))
    <3> SUFFICES ASSUME NEW q \in fitting PROVE Len(q) <= m
      BY <2>2
    <3>1. PICK j \in 0..m : Len(q) = j
      BY <1>6
    <3>2. QED
      BY <3>1
  <2>4. top \in fitting /\ \A q \in fitting : Len(q) <= Len(top)
    <3>1. \E p \in fitting : \A q \in fitting : Len(q) <= Len(p)
      BY <2>1, <2>3
    <3>2. QED
      BY <3>1
  <2> HIDE DEF top
  <2>5. PICK j \in 0..m : top = first(j) /\ Len(top) = j
    BY <1>6, <2>4
  <2>6. m <= Len(top)
    BY <2>1, <2>2, <2>4
  <2>7. top = first(m)
    <3>1. j = m
      BY <2>5, <2>6
    <3>2. QED
      BY <2>5, <3>1
  <2>8. QED
    BY <1>7, <1>10, <2>7 DEF top, first
<1>11. QED
  BY <1>9, <1>10

-----------------------------------------------------------------------------
(* Filtering a sequence. *)

\* kept is the function that Among(S, seq) chooses.
IsKept(kept, S, seq) ==
    kept = [n \in 0..Len(seq) |->
               IF n = 0 THEN << >>
               ELSE IF seq[n] \in S THEN Append(kept[n - 1], seq[n]) ELSE kept[n - 1]]

\* Among is the value of a recursive function that exists.
LEMMA KeptExists ==
    ASSUME NEW U, NEW S, NEW seq \in Seq(U)
    PROVE  \E kept \in [0..Len(seq) -> Seq(U)] :
              IsKept(kept, S, seq) /\ Among(S, seq) = kept[Len(seq)]
<1> DEFINE n == Len(seq)
           h == [i \in 1..n |-> [x \in Seq(U) |-> IF seq[i] \in S THEN Append(x, seq[i]) ELSE x]]
           IsIt(kept) == IsKept(kept, S, seq)
<1>1. h \in [1..n -> [Seq(U) -> Seq(U)]]
  <2>1. ASSUME NEW i \in 1..n, NEW x \in Seq(U)
        PROVE  (IF seq[i] \in S THEN Append(x, seq[i]) ELSE x) \in Seq(U)
    <3>1. seq[i] \in U
      OBVIOUS
    <3>2. Append(x, seq[i]) \in Seq(U)
      BY <3>1, AppendProperties
    <3>3. QED
      BY <3>2
  <2>2. QED
    BY <2>1
<1>2. PICK f : Follows(f, << >>, h, n, Seq(U))
  <2>1. n \in Nat /\ << >> \in Seq(U)
    BY EmptySeq
  <2> HIDE DEF h, n
  <2>2. QED
    BY <1>1, <2>1, Recursion
<1>3. f \in [0..n -> Seq(U)] /\ f[0] = << >> /\ n \in Nat
  BY <1>2 DEF Follows
<1>4. ASSUME NEW i \in 1..n
      PROVE  f[i] = IF seq[i] \in S THEN Append(f[i - 1], seq[i]) ELSE f[i - 1]
  <2>1. f[i - 1] \in Seq(U)
    BY <1>3
  <2>2. f[i] = h[i][f[i - 1]]
    BY <1>2 DEF Follows
  <2>3. QED
    BY <2>1, <2>2
<1> HIDE DEF h
<1>5. IsIt(f)
  <2> DEFINE g == [i \in 0..n |->
                     IF i = 0 THEN << >>
                     ELSE IF seq[i] \in S THEN Append(f[i - 1], seq[i]) ELSE f[i - 1]]
  <2>1. \A i \in 0..n : i = 0 \/ i \in 1..n
    BY <1>3
  <2>2. \A i \in 0..n : f[i] = g[i]
    BY <1>3, <1>4, <2>1
  <2>3. f = g
    BY <1>3, <2>2
  <2>4. QED
    BY <2>3 DEF IsKept
<1> DEFINE c == CHOOSE kept : IsIt(kept)
<1>6. IsIt(c)
  BY <1>5
<1>7. Among(S, seq) = c[n]
  BY DEF Among, IsKept
<1> HIDE DEF c, n
<1>8. c = [i \in 0..n |->
             IF i = 0 THEN << >>
             ELSE IF seq[i] \in S THEN Append(c[i - 1], seq[i]) ELSE c[i - 1]]
  BY <1>6 DEF IsKept, n
<1>9. c = f
  <2> DEFINE T == {i \in Nat : i <= n => c[i] = f[i]}
  <2>1. 0 \in T
    BY <1>3, <1>8
  <2>2. ASSUME NEW i \in Nat, i \in T PROVE i + 1 \in T
    <3> SUFFICES ASSUME i + 1 <= n PROVE c[i + 1] = f[i + 1]
      OBVIOUS
    <3>1. i + 1 \in 1..n /\ i + 1 \in 0..n /\ i + 1 # 0 /\ (i + 1) - 1 = i /\ i <= n
      BY <1>3
    <3>2. c[i] = f[i]
      BY <2>2, <3>1
    <3>3. f[i + 1] = IF seq[i + 1] \in S THEN Append(f[i], seq[i + 1]) ELSE f[i]
      BY <1>4, <3>1
    <3>4. c[i + 1] = IF seq[i + 1] \in S THEN Append(c[i], seq[i + 1]) ELSE c[i]
      BY <1>8, <3>1
    <3>5. QED
      BY <3>2, <3>3, <3>4
  <2> HIDE DEF T
  <2>3. Nat \subseteq T
    BY <2>1, <2>2, NaturalInduction
  <2>4. \A i \in 0..n : c[i] = f[i]
    BY <1>3, <2>3 DEF T
  <2>5. c = [i \in 0..n |-> c[i]] /\ f = [i \in 0..n |-> f[i]]
    BY <1>3, <1>8
  <2>6. QED
    BY <2>4, <2>5
<1>10. QED
  BY <1>3, <1>5, <1>7, <1>9 DEF n

\* Appending to the second of two sequences that are put together.
Joins(a, b, x) == Append(a \o b, x) = a \o Append(b, x)

\* And it makes no difference when it is done.
LEMMA AppendJoins ==
    ASSUME NEW U, NEW a \in Seq(U), NEW b \in Seq(U), NEW x \in U
    PROVE  Joins(a, b, x)
BY DEF Joins

\* The places of seq that S leaves out are those of j..k.
Spares(S, seq, j, k) == \A i \in 1..Len(seq) : seq[i] \in S <=> i < j \/ i > k

\* When the places j..k alone are left out, what is before and behind them remains.
LEMMA AmongCut ==
    ASSUME NEW U, NEW S, NEW seq \in Seq(U), NEW j \in 1..(Len(seq) + 1), NEW k \in (j - 1)..Len(seq),
           Spares(S, seq, j, k)
    PROVE  Among(S, seq) = SubSeq(seq, 1, j - 1) \o SubSeq(seq, k + 1, Len(seq))
<1> DEFINE n == Len(seq)
           a == SubSeq(seq, 1, j - 1)
           b(i) == SubSeq(seq, k + 1, i)
<1>1. PICK f \in [0..n -> Seq(U)] : IsKept(f, S, seq) /\ Among(S, seq) = f[n]
  BY KeptExists
<1>2. n \in Nat /\ j \in Nat /\ k \in Nat
  OBVIOUS
<1>3. /\ f[0] = << >>
      /\ \A i \in Nat : i + 1 <= n =>
            f[i + 1] = IF seq[i + 1] \in S THEN Append(f[i], seq[i + 1]) ELSE f[i]
  <2>0. f = [i \in 0..n |-> IF i = 0 THEN << >>
                ELSE IF seq[i] \in S THEN Append(f[i - 1], seq[i]) ELSE f[i - 1]]
    BY <1>1 DEF IsKept
  <2> HIDE DEF n
  <2>1. f[0] = << >>
    BY <1>2, <2>0
  <2>2. ASSUME NEW i \in Nat, i + 1 <= n
        PROVE  f[i + 1] = IF seq[i + 1] \in S THEN Append(f[i], seq[i + 1]) ELSE f[i]
    <3>1. i + 1 \in 0..n /\ i + 1 # 0 /\ (i + 1) - 1 = i
      BY <1>2, <2>2
    <3>2. QED
      BY <2>0, <3>1
  <2>3. QED
    BY <2>1, <2>2
<1> DEFINE T == {i \in Nat : i <= n =>
                    f[i] = IF i < j THEN SubSeq(seq, 1, i)
                           ELSE IF i <= k THEN a ELSE a \o b(i)}
<1>4. SubSeq(seq, 1, 0) = << >> /\ a \in Seq(U)
  OBVIOUS
<1>5. 0 \in T
  BY <1>2, <1>3, <1>4
<1>6. ASSUME NEW i \in Nat, i \in T PROVE i + 1 \in T
  <2> SUFFICES ASSUME i + 1 <= n
               PROVE  f[i + 1] = IF i + 1 < j THEN SubSeq(seq, 1, i + 1)
                                 ELSE IF i + 1 <= k THEN a ELSE a \o b(i + 1)
    OBVIOUS
  <2>1. /\ f[i] = IF i < j THEN SubSeq(seq, 1, i) ELSE IF i <= k THEN a ELSE a \o b(i)
        /\ f[i + 1] = IF seq[i + 1] \in S THEN Append(f[i], seq[i + 1]) ELSE f[i]
        /\ (seq[i + 1] \in S <=> i + 1 < j \/ i + 1 > k)
        /\ i + 1 \in 1..n /\ seq[i + 1] \in U
    <3>1. i + 1 \in 1..n /\ i <= n
      BY <1>2
    <3>2. QED
      BY <1>3, <1>6, <3>1 DEF Spares
  <2>2. CASE i + 1 < j
    <3>1. i < j /\ i \in 0..Len(seq)
      BY <1>2, <2>2
    <3>2. f[i + 1] = Append(SubSeq(seq, 1, i), seq[i + 1])
      BY <2>1, <2>2, <3>1
    <3>3. Append(SubSeq(seq, 1, i), seq[i + 1]) = SubSeq(seq, 1, i + 1)
      BY <2>1
    <3>4. QED
      BY <2>2, <3>2, <3>3
  <2>3. CASE ~(i + 1 < j) /\ i + 1 <= k
    <3>1. f[i + 1] = f[i]
      BY <1>2, <2>1, <2>3
    <3>2. f[i] = a
      <4>1. CASE i < j
        <5>1. i = j - 1
          BY <1>2, <2>3, <4>1
        <5>2. QED
          BY <2>1, <4>1, <5>1
      <4>2. CASE ~(i < j)
        <5>1. i <= k
          BY <1>2, <2>3
        <5>2. QED
          BY <2>1, <4>2, <5>1
      <4>3. QED
        BY <4>1, <4>2
    <3>3. QED
      BY <2>3, <3>1, <3>2
  <2>4. CASE ~(i + 1 < j) /\ ~(i + 1 <= k)
    <3>1. f[i + 1] = Append(f[i], seq[i + 1])
      BY <1>2, <2>1, <2>4
    <3>2. b(i) \in Seq(U) /\ b(i + 1) = Append(b(i), seq[i + 1])
      BY <1>2, <2>1, <2>4
    <3>3. f[i] = a \o b(i)
      <4>1. CASE i > k
        <5>1. ~(i <= k) /\ ~(i < j)
          BY <1>2, <2>4, <4>1
        <5>2. QED
          BY <2>1, <5>1
      <4>2. CASE ~(i > k)
        <5>1. i = k
          BY <1>2, <2>4, <4>2
        <5>2. b(i) = << >> /\ a \o << >> = a
          <6>1. b(i) = << >>
            BY <1>2, <5>1
          <6>2. QED
            BY <1>4, <6>1, ConcatEmptySeq
        <5>3. f[i] = a
          <6>1. CASE i < j
            <7>1. i = j - 1
              BY <1>2, <2>4, <6>1
            <7>2. QED
              BY <2>1, <6>1, <7>1
          <6>2. CASE ~(i < j)
            BY <1>2, <2>1, <5>1, <6>2
          <6>3. QED
            BY <6>1, <6>2
        <5>4. QED
          BY <5>2, <5>3
      <4>3. QED
        BY <4>1, <4>2
    <3> HIDE DEF a, b
    <3>4. Append(a \o b(i), seq[i + 1]) = a \o Append(b(i), seq[i + 1])
      <4>1. Joins(a, b(i), seq[i + 1])
        BY <1>4, <2>1, <3>2, AppendJoins
      <4>2. QED
        BY <4>1, Zenon DEF Joins
    <3>5. QED
      BY <2>4, <3>1, <3>2, <3>3, <3>4
  <2>5. QED
    BY <2>2, <2>3, <2>4
<1> HIDE DEF T
<1>7. n \in T
  BY <1>2, <1>5, <1>6, NaturalInduction
<1>8. f[n] = IF n < j THEN SubSeq(seq, 1, n) ELSE IF n <= k THEN a ELSE a \o b(n)
  <2>1. \A i \in T : i <= n => f[i] = IF i < j THEN SubSeq(seq, 1, i)
                                      ELSE IF i <= k THEN a ELSE a \o b(i)
    BY DEF T
  <2> HIDE DEF n, a, b
  <2>2. n <= n
    BY <1>2
  <2>3. QED
    BY <1>7, <2>1, <2>2
<1>9. CASE n < j \/ n <= k
  <2>1. f[n] = a
    <3>1. CASE n < j
      <4>1. n = j - 1
        BY <1>2, <3>1
      <4>2. QED
        BY <1>8, <3>1, <4>1
    <3>2. CASE ~(n < j)
      BY <1>8, <1>9, <3>2
    <3>3. QED
      BY <3>1, <3>2
  <2>2. b(n) = << >>
    BY <1>2, <1>9
  <2>3. a \o << >> = a
    BY <1>4, ConcatEmptySeq
  <2>4. QED
    BY <1>1, <2>1, <2>2, <2>3
<1>10. CASE ~(n < j \/ n <= k)
  BY <1>1, <1>8, <1>10
<1>11. QED
  BY <1>9, <1>10

-----------------------------------------------------------------------------
(* The ways along the links. *)

KeysOf(r) == [i \in 1..Len(r) |-> r[i].key]

\* The keys of the slots, in their order.
LEMMA KeysOfIs ==
    ASSUME NEW r \in Seq(Slot)
    PROVE  /\ KeysOf(r) \in Seq(Keys) /\ Len(KeysOf(r)) = Len(r)
           /\ \A i \in 1..Len(r) : KeysOf(r)[i] = r[i].key
<1>1. \A i \in 1..Len(r) : r[i].key \in Keys
  BY KeysAt
<1>2. QED
  BY <1>1 DEF KeysOf

\* g is the way along the links from first, over c keys to none.
Leads(first, link, g, c) ==
    /\ g \in [1..(c + 1) -> Link] /\ g[1] = first
    /\ \A i \in 1..c : g[i] \in Keys /\ g[i + 1] = link[g[i]]
    /\ g[c + 1] = Nil

\* Chain walks this way and stops at its end.
LEMMA ChainIs ==
    ASSUME NEW c \in Nat, c = Cardinality(Mapped(lru)), NEW first, NEW link, NEW g,
           Leads(first, link, g, c)
    PROVE  Chain(first, link) = [i \in 1..c |-> g[i]]
<1> DEFINE last == c + 1
           IsNth(nth) == nth = [i \in 1..last |-> IF i = 1 THEN first ELSE link[nth[i - 1]]]
           p == CHOOSE nth : IsNth(nth)
           seq == [i \in 1..last |-> p[i]]
<1>0. /\ g \in [1..(c + 1) -> Link] /\ g[1] = first
      /\ \A i \in 1..c : g[i] \in Keys /\ g[i + 1] = link[g[i]]
      /\ g[c + 1] = Nil
  BY DEF Leads
<1>1. Chain(first, link) = Among(Keys, seq)
  BY DEF Chain
<1>2. IsNth(g)
  <2> DEFINE d == [i \in 1..last |-> IF i = 1 THEN first ELSE link[g[i - 1]]]
  <2>1. ASSUME NEW i \in 1..last, i # 1 PROVE g[i] = link[g[i - 1]]
    <3>1. i - 1 \in 1..c /\ (i - 1) + 1 = i
      BY <2>1
    <3>2. QED
      BY <1>0, <3>1
  <2>2. \A i \in 1..last : g[i] = d[i]
    BY <1>0, <2>1
  <2>3. g = d
    BY <1>0, <2>2
  <2>4. QED
    BY <2>3
<1>3. IsNth(p)
  BY <1>2
<1> HIDE DEF p
<1>4. \A i \in 1..last : p[i] = g[i]
  <2> DEFINE T == {i \in Nat : i + 1 <= last => p[i + 1] = g[i + 1]}
  <2>1. 0 \in T
    BY <1>0, <1>3
  <2>2. ASSUME NEW i \in Nat, i \in T PROVE i + 1 \in T
    <3> SUFFICES ASSUME (i + 1) + 1 <= last PROVE p[(i + 1) + 1] = g[(i + 1) + 1]
      OBVIOUS
    <3>1. /\ (i + 1) + 1 \in 1..last /\ (i + 1) + 1 # 1 /\ ((i + 1) + 1) - 1 = i + 1
          /\ i + 1 \in 1..c /\ i + 1 <= last
      OBVIOUS
    <3>2. p[(i + 1) + 1] = link[p[i + 1]]
      BY <1>3, <3>1
    <3>3. QED
      BY <1>0, <2>2, <3>1, <3>2
  <2> HIDE DEF T
  <2>3. Nat \subseteq T
    BY <2>1, <2>2, NaturalInduction
  <2>4. ASSUME NEW i \in 1..last PROVE p[i] = g[i]
    <3>1. i - 1 \in Nat /\ (i - 1) + 1 = i
      OBVIOUS
    <3>2. i - 1 \in T
      BY <2>3, <3>1
    <3>3. QED
      BY <3>1, <3>2 DEF T
  <2>5. QED
    BY <2>4
<1>5. seq \in Seq(Link) /\ Len(seq) = last /\ \A i \in 1..last : seq[i] = g[i]
  <2>1. seq = [i \in 1..last |-> g[i]]
    BY <1>4
  <2>2. last \in Nat
    OBVIOUS
  <2> HIDE DEF seq, last
  <2>3. \A i \in 1..last : g[i] \in Link
    BY <1>0 DEF last
  <2>4. QED
    BY <2>1, <2>2, <2>3
<1> HIDE DEF seq
<1>6. Among(Keys, seq) = SubSeq(seq, 1, last - 1) \o SubSeq(seq, last + 1, Len(seq))
  <2>1. Spares(Keys, seq, last, last)
    BY <1>0, <1>5, CacheConfig DEF Spares
  <2>2. last \in 1..(Len(seq) + 1) /\ last \in (last - 1)..Len(seq)
    BY <1>5
  <2> HIDE DEF last
  <2>3. QED
    BY <1>5, <2>1, <2>2, AmongCut
<1>7. /\ SubSeq(seq, 1, last - 1) \in Seq(Link) /\ Len(SubSeq(seq, 1, last - 1)) = c
      /\ \A i \in 1..c : SubSeq(seq, 1, last - 1)[i] = g[i]
  <2>1. last - 1 \in 0..Len(seq) /\ last - 1 = c
    BY <1>5
  <2>2. QED
    BY <1>5, <2>1, FirstIs
<1>8. SubSeq(seq, last + 1, Len(seq)) = << >>
  BY <1>5
<1>9. Among(Keys, seq) = SubSeq(seq, 1, last - 1)
  BY <1>6, <1>7, <1>8, ConcatEmptySeq
<1>10. [i \in 1..c |-> g[i]] \in Seq(Link) /\ Len([i \in 1..c |-> g[i]]) = c
  BY <1>0
<1>11. SubSeq(seq, 1, last - 1) = [i \in 1..c |-> g[i]]
  BY <1>7, <1>10, SeqEqual
<1>12. QED
  BY <1>1, <1>9, <1>11

\* Read from either end the list has the keys of the slots.
LEMMA ChainsAre ==
    ASSUME NEW r, Linked(lru, r), Only(lru, r, {})
    PROVE  /\ NewestFirst = KeysOf(r) /\ OldestFirst = Reverse(KeysOf(r))
           /\ SlotsOf(NewestFirst) = r
<1> DEFINE c == Len(r)
           f == [i \in 1..(c + 1) |-> KeyAt(r, i)]
           b == [i \in 1..(c + 1) |-> KeyAt(r, c + 1 - i)]
<1>1. /\ r \in Seq(Slot) /\ c \in Nat /\ DOMAIN r = 1..c
      /\ \A j \in 1..c : lru.map[r[j].key] = NodeAt(r, j)
      /\ lru.newest = KeyAt(r, 1) /\ lru.oldest = KeyAt(r, c)
  BY DEF Linked, Keyed
<1>2. /\ \A j : KeyAt(r, j) \in Link
      /\ \A j \in 1..c : KeyAt(r, j) = r[j].key /\ r[j].key \in Keys /\ NodeAt(r, j) # Nil
  BY <1>1, KeysAt
<1>3. Mapped(lru) = {r[i].key : i \in 1..c} /\ Cardinality(Mapped(lru)) = c
  BY MappedIs
<1>4. ASSUME NEW j \in 1..c
      PROVE  Older[KeyAt(r, j)] = KeyAt(r, j + 1) /\ Newer[KeyAt(r, j)] = KeyAt(r, j - 1)
  <2>1. KeyAt(r, j) \in Mapped(lru) /\ KeyAt(r, j) \in Link /\ lru.map[KeyAt(r, j)] = NodeAt(r, j)
    BY <1>1, <1>2, <1>3
  <2>2. NodeAt(r, j).older = KeyAt(r, j + 1) /\ NodeAt(r, j).newer = KeyAt(r, j - 1)
    BY DEF NodeAt
  <2>3. QED
    BY <2>1, <2>2 DEF Older, Newer
<1>5. NewestFirst = KeysOf(r)
  <2>1. f \in [1..(c + 1) -> Link] /\ f[1] = lru.newest /\ f[c + 1] = Nil
    BY <1>1, <1>2 DEF KeyAt
  <2>2. ASSUME NEW i \in 1..c PROVE f[i] \in Keys /\ f[i + 1] = Older[f[i]]
    <3>1. i \in 1..(c + 1) /\ i + 1 \in 1..(c + 1)
      BY <1>1
    <3>2. f[i] = KeyAt(r, i) /\ f[i + 1] = KeyAt(r, i + 1)
      BY <3>1
    <3>3. QED
      BY <1>2, <1>4, <3>2
  <2>3. \A i \in 1..c : f[i] = r[i].key
    <3> SUFFICES ASSUME NEW i \in 1..c PROVE f[i] = r[i].key
      OBVIOUS
    <3>1. i \in 1..(c + 1)
      BY <1>1
    <3>2. QED
      BY <1>2, <3>1
  <2> HIDE DEF f, c
  <2>4. NewestFirst = [i \in 1..c |-> f[i]]
    <3>1. Leads(lru.newest, Older, f, c)
      BY <2>1, <2>2 DEF Leads
    <3>2. QED
      BY <1>1, <1>3, <3>1, ChainIs DEF NewestFirst
  <2>5. QED
    BY <2>3, <2>4 DEF KeysOf, c
<1>6. OldestFirst = Reverse(KeysOf(r))
  <2>1. b \in [1..(c + 1) -> Link] /\ b[1] = lru.oldest /\ b[c + 1] = Nil
    <3>1. c + 1 - 1 = c /\ c + 1 - (c + 1) = 0 /\ 1 \in 1..(c + 1) /\ c + 1 \in 1..(c + 1)
      BY <1>1
    <3>2. KeyAt(r, 0) = Nil
      BY <1>1 DEF KeyAt
    <3>3. QED
      BY <1>1, <1>2, <3>1, <3>2
  <2>2. ASSUME NEW i \in 1..c
        PROVE  b[i] \in Keys /\ b[i + 1] = Newer[b[i]] /\ b[i] = r[c + 1 - i].key
    <3>1. /\ i \in 1..(c + 1) /\ i + 1 \in 1..(c + 1) /\ c + 1 - i \in 1..c
          /\ c + 1 - (i + 1) = (c + 1 - i) - 1
      BY <1>1
    <3>2. b[i] = KeyAt(r, c + 1 - i) /\ b[i + 1] = KeyAt(r, (c + 1 - i) - 1)
      BY <3>1
    <3>3. QED
      BY <1>2, <1>4, <3>1, <3>2
  <2>3. /\ Len(KeysOf(r)) = c
        /\ \A i \in 1..c : KeysOf(r)[(c - i) + 1] = b[i]
    <3>1. Len(KeysOf(r)) = c /\ \A i \in 1..c : KeysOf(r)[i] = r[i].key
      BY <1>1, KeysOfIs
    <3>2. ASSUME NEW i \in 1..c PROVE KeysOf(r)[(c - i) + 1] = b[i]
      <4>1. (c - i) + 1 \in 1..c /\ (c - i) + 1 = c + 1 - i
        BY <1>1
      <4> HIDE DEF b
      <4>2. QED
        BY <2>2, <3>1, <4>1
    <3>3. QED
      BY <3>1, <3>2
  <2> HIDE DEF b, c
  <2>4. OldestFirst = [i \in 1..c |-> b[i]]
    <3>1. Leads(lru.oldest, Newer, b, c)
      BY <2>1, <2>2 DEF Leads
    <3>2. QED
      BY <1>1, <1>3, <3>1, ChainIs DEF OldestFirst
  <2>5. QED
    BY <2>3, <2>4 DEF Reverse
<1>7. SlotsOf(KeysOf(r)) = r
  <2>1. DOMAIN KeysOf(r) = 1..c
    BY DEF KeysOf
  <2>2. ASSUME NEW i \in 1..c
        PROVE  [key |-> KeysOf(r)[i], entry |-> lru.map[KeysOf(r)[i]].entry] = r[i]
    <3>1. KeysOf(r)[i] = r[i].key
      BY DEF KeysOf
    <3>2. lru.map[r[i].key].entry = r[i].entry
      <4>1. lru.map[r[i].key] = NodeAt(r, i)
        BY <1>1
      <4>2. NodeAt(r, i).entry = r[i].entry
        BY DEF NodeAt
      <4>3. QED
        BY <4>1, <4>2
    <3>3. r[i] \in Slot
      BY <1>1
    <3>4. r[i] = [key |-> r[i].key, entry |-> r[i].entry]
      BY <3>3 DEF Slot
    <3>5. QED
      BY <3>1, <3>2, <3>4
  <2>3. SlotsOf(KeysOf(r)) = [i \in 1..c |-> r[i]]
    BY <2>1, <2>2 DEF SlotsOf
  <2>4. r = [i \in 1..c |-> r[i]]
    BY <1>1
  <2>5. QED
    BY <2>3, <2>4
<1>8. QED
  BY <1>5, <1>6, <1>7

-----------------------------------------------------------------------------
(* The history variable: what Among makes of the keys of the slots. *)

\* The keys of a list without one of its places,
LEMMA KeysOfCut ==
    ASSUME NEW r \in Seq(Slot), NEW i \in 1..Len(r)
    PROVE  KeysOf(RemoveAt(r, i)) = RemoveAt(KeysOf(r), i)
<1> DEFINE p == RemoveAt(r, i)
           k == KeysOf(r)
           c == RemoveAt(k, i)
<1>1. /\ p \in Seq(Slot) /\ Len(p) = Len(r) - 1
      /\ \A j \in 1..(Len(r) - 1) : p[j] = IF j < i THEN r[j] ELSE r[j + 1]
  BY CutIs
<1>2. k \in Seq(Keys) /\ Len(k) = Len(r) /\ \A j \in 1..Len(r) : k[j] = r[j].key
  BY KeysOfIs
<1> HIDE DEF p, k
<1>3. /\ c \in Seq(Keys) /\ Len(c) = Len(r) - 1
      /\ \A j \in 1..(Len(r) - 1) : c[j] = IF j < i THEN k[j] ELSE k[j + 1]
  <2>1. i \in 1..Len(k)
    BY <1>2
  <2>2. /\ c \in Seq(Keys) /\ Len(c) = Len(k) - 1
        /\ \A j \in 1..(Len(k) - 1) : c[j] = IF j < i THEN k[j] ELSE k[j + 1]
    BY <1>2, <2>1, CutIs
  <2>3. QED
    BY <1>2, <2>2
<1> HIDE DEF c
<1>4. KeysOf(p) \in Seq(Keys) /\ Len(KeysOf(p)) = Len(p) /\ \A j \in 1..Len(p) : KeysOf(p)[j] = p[j].key
  BY <1>1, KeysOfIs
<1>5. ASSUME NEW j \in 1..(Len(r) - 1) PROVE KeysOf(p)[j] = c[j]
  <2>1. j \in 1..Len(p) /\ j \in 1..Len(r) /\ j + 1 \in 1..Len(r)
    BY <1>1
  <2>2. QED
    BY <1>1, <1>2, <1>3, <1>4, <2>1
<1>6. KeysOf(p) = c
  BY <1>1, <1>3, <1>4, <1>5, SeqEqual
<1>7. QED
  BY <1>6 DEF p, c, k

\* of its first places,
LEMMA KeysOfFirst ==
    ASSUME NEW r \in Seq(Slot), NEW m \in 0..Len(r)
    PROVE  KeysOf(SubSeq(r, 1, m)) = SubSeq(KeysOf(r), 1, m)
<1> DEFINE p == SubSeq(r, 1, m)
           k == KeysOf(r)
           c == SubSeq(k, 1, m)
<1>1. p \in Seq(Slot) /\ Len(p) = m /\ \A j \in 1..m : p[j] = r[j]
  BY FirstIs
<1>2. k \in Seq(Keys) /\ Len(k) = Len(r) /\ \A j \in 1..Len(r) : k[j] = r[j].key
  BY KeysOfIs
<1> HIDE DEF p, k
<1>3. c \in Seq(Keys) /\ Len(c) = m /\ \A j \in 1..m : c[j] = k[j]
  BY <1>2, FirstIs
<1> HIDE DEF c
<1>4. KeysOf(p) \in Seq(Keys) /\ Len(KeysOf(p)) = m /\ \A j \in 1..m : KeysOf(p)[j] = p[j].key
  BY <1>1, KeysOfIs
<1>5. \A j \in 1..m : KeysOf(p)[j] = c[j]
  BY <1>1, <1>2, <1>3, <1>4
<1>6. KeysOf(p) = c
  BY <1>3, <1>4, <1>5, SeqEqual
<1>7. QED
  BY <1>6 DEF p, c, k

\* and of a list with a new first place.
LEMMA KeysOfCons ==
    ASSUME NEW r \in Seq(Slot), NEW x \in Slot
    PROVE  KeysOf(<<x>> \o r) = <<x.key>> \o KeysOf(r)
<1> DEFINE p == <<x>> \o r
           k == KeysOf(r)
           c == <<x.key>> \o k
<1>1. /\ p \in Seq(Slot) /\ Len(p) = Len(r) + 1 /\ p[1] = x
      /\ \A j \in 1..Len(r) : p[j + 1] = r[j]
  BY ConsIs
<1>2. k \in Seq(Keys) /\ Len(k) = Len(r) /\ \A j \in 1..Len(r) : k[j] = r[j].key
  BY KeysOfIs
<1>3. x.key \in Keys
  BY DEF Slot
<1> HIDE DEF p, k
<1>4. /\ c \in Seq(Keys) /\ Len(c) = Len(k) + 1 /\ c[1] = x.key
      /\ \A j \in 1..Len(k) : c[j + 1] = k[j]
  BY <1>2, <1>3, ConsIs
<1> HIDE DEF c
<1>5. KeysOf(p) \in Seq(Keys) /\ Len(KeysOf(p)) = Len(p) /\ \A j \in 1..Len(p) : KeysOf(p)[j] = p[j].key
  BY <1>1, KeysOfIs
<1>6. ASSUME NEW j \in 1..Len(p) PROVE KeysOf(p)[j] = c[j]
  <2>1. CASE j = 1
    BY <1>1, <1>4, <1>5, <2>1
  <2>2. CASE j # 1
    <3>1. j - 1 \in 1..Len(r) /\ (j - 1) + 1 = j
      BY <1>1, <2>2
    <3>2. p[j] = r[j - 1] /\ c[j] = k[j - 1] /\ k[j - 1] = r[j - 1].key
      BY <1>1, <1>2, <1>4, <3>1
    <3>3. QED
      BY <1>5, <3>2
  <2>3. QED
    BY <2>1, <2>2
<1>7. KeysOf(p) = c
  BY <1>1, <1>2, <1>4, <1>5, <1>6, SeqEqual
<1>8. QED
  BY <1>7 DEF p, c, k

\* When one place alone is left out.
LEMMA AmongButOne ==
    ASSUME NEW S, NEW r \in Seq(Slot), NEW i \in 1..Len(r),
           \A j \in 1..Len(r) : r[j].key \in S <=> j # i
    PROVE  Among(S, KeysOf(r)) = KeysOf(RemoveAt(r, i))
<1> DEFINE k == KeysOf(r)
<1>1. k \in Seq(Keys) /\ Len(k) = Len(r) /\ \A j \in 1..Len(r) : k[j] = r[j].key
  BY KeysOfIs
<1> HIDE DEF k
<1>2. Spares(S, k, i, i)
  BY <1>1 DEF Spares
<1>3. i \in 1..(Len(k) + 1) /\ i \in (i - 1)..Len(k)
  BY <1>1
<1>4. Among(S, k) = SubSeq(k, 1, i - 1) \o SubSeq(k, i + 1, Len(k))
  BY <1>1, <1>2, <1>3, AmongCut
<1>5. Among(S, k) = RemoveAt(k, i)
  BY <1>4 DEF RemoveAt
<1>6. QED
  BY <1>5, KeysOfCut DEF k

\* When all from a place on are left out.
LEMMA AmongFirst ==
    ASSUME NEW S, NEW r \in Seq(Slot), NEW m \in 0..Len(r),
           \A j \in 1..Len(r) : r[j].key \in S <=> j <= m
    PROVE  Among(S, KeysOf(r)) = KeysOf(SubSeq(r, 1, m))
<1> DEFINE k == KeysOf(r)
           n == Len(k)
<1>1. k \in Seq(Keys) /\ n = Len(r) /\ n \in Nat /\ \A j \in 1..Len(r) : k[j] = r[j].key
  BY KeysOfIs
<1> HIDE DEF k
<1>2. Spares(S, k, m + 1, n)
  <2> SUFFICES ASSUME NEW j \in 1..n PROVE k[j] \in S <=> j < m + 1 \/ j > n
    BY DEF Spares
  <2>1. k[j] \in S <=> j <= m
    BY <1>1
  <2>2. QED
    BY <2>1
<1>3. m + 1 \in 1..(n + 1) /\ n \in ((m + 1) - 1)..n /\ (m + 1) - 1 = m
  BY <1>1
<1>4. Among(S, k) = SubSeq(k, 1, (m + 1) - 1) \o SubSeq(k, n + 1, n)
  BY <1>1, <1>2, <1>3, AmongCut
<1>5. SubSeq(k, n + 1, n) = << >>
  <2>1. n + 1 \in Int /\ n \in Int /\ n < n + 1
    BY <1>1
  <2> HIDE DEF n
  <2>2. QED
    BY <2>1, SubSeqEmpty
<1>6. SubSeq(k, 1, m) \in Seq(Keys)
  <2>1. m \in 0..Len(k)
    BY <1>1
  <2>2. QED
    BY <1>1, <2>1, FirstIs
<1>7. SubSeq(k, 1, m) \o << >> = SubSeq(k, 1, m)
  BY <1>6, ConcatEmptySeq
<1>8. Among(S, k) = SubSeq(k, 1, m)
  BY <1>3, <1>4, <1>5, <1>7
<1>9. QED
  BY <1>8, KeysOfFirst DEF k

\* The history follows the list.
LEMMA AmongRemoved ==
    ASSUME NEW s, NEW r, Keyed(r), NEW i \in 1..Len(r), Lists(s, RemoveAt(r, i))
    PROVE  Among(Mapped(s), KeysOf(r)) = KeysOf(RemoveAt(r, i))
<1> DEFINE p == RemoveAt(r, i)
           M == Mapped(s)
<1>1. r \in Seq(Slot)
  BY DEF Keyed
<1>2. M = {p[j].key : j \in 1..Len(p)}
  BY MappedIs DEF Lists
<1>3. /\ \A j \in 1..Len(p) : p[j].key # r[i].key
      /\ \A j \in 1..Len(r) : j # i => \E n \in 1..Len(p) : p[n] = r[j]
  BY CutIsKeyed
<1> HIDE DEF M
<1>4. \A j \in 1..Len(r) : r[j].key \in M <=> j # i
  <2> SUFFICES ASSUME NEW j \in 1..Len(r) PROVE r[j].key \in M <=> j # i
    OBVIOUS
  <2> HIDE DEF p
  <2>1. CASE j = i
    BY <1>2, <1>3, <2>1
  <2>2. CASE j # i
    BY <1>2, <1>3, <2>2
  <2>3. QED
    BY <2>1, <2>2
<1>5. QED
  BY <1>1, <1>4, AmongButOne DEF M

\* The same for what an eviction leaves.
LEMMA AmongLeft ==
    ASSUME NEW s, NEW r, Keyed(r), NEW m \in 0..Len(r), Lists(s, SubSeq(r, 1, m))
    PROVE  Among(Mapped(s), KeysOf(r)) = KeysOf(SubSeq(r, 1, m))
<1> DEFINE p == SubSeq(r, 1, m)
           M == Mapped(s)
<1>1. r \in Seq(Slot) /\ \A a, b \in 1..Len(r) : r[a].key = r[b].key => a = b
  BY DEF Keyed
<1>2. M = {p[j].key : j \in 1..Len(p)}
  <2> HIDE DEF p
  <2>1. Linked(s, p) /\ Only(s, p, {})
    BY DEF Lists, p
  <2>2. QED
    BY <2>1, MappedIs
<1>3. Len(p) = m /\ \A j \in 1..m : p[j] = r[j]
  BY <1>1, FirstIs
<1> HIDE DEF M, p
<1>4. \A j \in 1..Len(r) : r[j].key \in M <=> j <= m
  <2> SUFFICES ASSUME NEW j \in 1..Len(r) PROVE r[j].key \in M <=> j <= m
    OBVIOUS
  <2>1. CASE j <= m
    <3>1. j \in 1..m
      BY <2>1
    <3>2. QED
      BY <1>2, <1>3, <2>1, <3>1
  <2>2. CASE ~(j <= m)
    <3> SUFFICES ASSUME r[j].key \in M PROVE FALSE
      BY <2>2
    <3>1. PICK b \in 1..m : r[j].key = p[b].key
      BY <1>2, <1>3
    <3>2. b \in 1..Len(r) /\ p[b] = r[b]
      BY <1>3
    <3>3. j = b
      BY <1>1, <3>1, <3>2
    <3>4. QED
      BY <2>2, <3>3
  <2>3. QED
    BY <2>1, <2>2
<1>5. QED
  BY <1>1, <1>4, AmongFirst DEF M

-----------------------------------------------------------------------------
(* The steps of the cache. *)

\* Without(k) of the abstract specification, of the slots r.
Spared(r, k) == IF \E i \in DOMAIN r : r[i].key = k
                THEN RemoveAt(r, CHOOSE i \in DOMAIN r : r[i].key = k)
                ELSE r

\* The slots but the one of k, if it has one.
LEMMA SparedIs ==
    ASSUME NEW r, Keyed(r), NEW k
    PROVE  /\ \A i \in 1..Len(r) : r[i].key = k => Spared(r, k) = RemoveAt(r, i)
           /\ (\A i \in 1..Len(r) : r[i].key # k) => Spared(r, k) = r
           /\ Keyed(Spared(r, k))
           /\ \A i \in 1..Len(Spared(r, k)) : Spared(r, k)[i].key # k
<1>1. DOMAIN r = 1..Len(r) /\ \A a, b \in 1..Len(r) : r[a].key = r[b].key => a = b
  BY DEF Keyed
<1>2. CASE \E i \in 1..Len(r) : r[i].key = k
  <2> DEFINE c == CHOOSE i \in DOMAIN r : r[i].key = k
  <2>1. c \in 1..Len(r) /\ r[c].key = k
    BY <1>1, <1>2
  <2>2. Spared(r, k) = RemoveAt(r, c)
    BY <1>1, <1>2 DEF Spared
  <2> HIDE DEF c
  <2>3. \A i \in 1..Len(r) : r[i].key = k => i = c
    BY <1>1, <2>1
  <2>4. /\ Keyed(RemoveAt(r, c))
        /\ \A j \in 1..Len(RemoveAt(r, c)) : RemoveAt(r, c)[j].key # k
    BY <2>1, CutIsKeyed
  <2>5. QED
    BY <1>2, <2>2, <2>3, <2>4
<1>3. CASE \A i \in 1..Len(r) : r[i].key # k
  <2>1. Spared(r, k) = r
    BY <1>1, <1>3 DEF Spared
  <2>2. QED
    BY <1>3, <2>1
<1>4. QED
  BY <1>2, <1>3

\* Leaving a key out of the history.
LEMMA AmongOthers ==
    ASSUME NEW r, Keyed(r), NEW k
    PROVE  Among(Keys \ {k}, KeysOf(r)) = KeysOf(Spared(r, k))
<1>1. /\ r \in Seq(Slot) /\ Len(r) \in Nat
      /\ \A a, b \in 1..Len(r) : r[a].key = r[b].key => a = b
      /\ \A j \in 1..Len(r) : r[j].key \in Keys
  <2>1. r \in Seq(Slot) /\ \A a, b \in 1..Len(r) : r[a].key = r[b].key => a = b
    BY DEF Keyed
  <2>2. QED
    BY <2>1, KeysAt
<1>2. CASE \E i \in 1..Len(r) : r[i].key = k
  <2>1. PICK i \in 1..Len(r) : r[i].key = k
    BY <1>2
  <2>2. \A j \in 1..Len(r) : r[j].key \in Keys \ {k} <=> j # i
    BY <1>1, <2>1
  <2>3. Spared(r, k) = RemoveAt(r, i)
    BY <2>1, SparedIs
  <2>4. QED
    BY <1>1, <2>2, <2>3, AmongButOne
<1>3. CASE \A i \in 1..Len(r) : r[i].key # k
  <2>1. \A j \in 1..Len(r) : r[j].key \in Keys \ {k} <=> j <= Len(r)
    BY <1>1, <1>3
  <2>2. Len(r) \in 0..Len(r) /\ SubSeq(r, 1, Len(r)) = r
    BY <1>1, SubSeqFull
  <2>3. Spared(r, k) = r
    BY <1>3, SparedIs
  <2>4. Among(Keys \ {k}, KeysOf(r)) = KeysOf(SubSeq(r, 1, Len(r)))
    BY <1>1, <2>1, <2>2, AmongFirst
  <2>5. QED
    BY <2>2, <2>3, <2>4
<1>4. QED
  BY <1>2, <1>3

\* A key has a node exactly when it has a slot.
LEMMA MappedHasSlot ==
    ASSUME NEW s, NEW r, Lists(s, r), NEW k \in Keys
    PROVE  s.map[k] # Nil <=> \E i \in 1..Len(r) : r[i].key = k
<1>1. Mapped(s) = {r[i].key : i \in 1..Len(r)}
  BY MappedIs DEF Lists
<1>2. s.map[k] # Nil <=> k \in Mapped(s)
  BY DEF Mapped
<1>3. QED
  BY <1>1, <1>2

\* put() and remove() take the key out of the list, if it is there.
LEMMA IfMappedLists ==
    ASSUME NEW s, NEW r, Lists(s, r), NEW k \in Keys
    PROVE  Lists(IfMapped(s, k), Spared(r, k))
<1>1. Keyed(r)
  BY DEF Lists, Linked
<1>2. CASE \E i \in 1..Len(r) : r[i].key = k
  <2>1. PICK i \in 1..Len(r) : r[i].key = k
    BY <1>2
  <2>2. Lists(Removed(s, k), RemoveAt(r, i))
    BY <2>1, RemovedLists
  <2>3. IfMapped(s, k) = Removed(s, k)
    BY <1>2, MappedHasSlot DEF IfMapped
  <2>4. Spared(r, k) = RemoveAt(r, i)
    BY <1>1, <2>1, SparedIs
  <2>5. QED
    BY <2>2, <2>3, <2>4
<1>3. CASE \A i \in 1..Len(r) : r[i].key # k
  <2>1. IfMapped(s, k) = s
    BY <1>3, MappedHasSlot DEF IfMapped
  <2>2. Spared(r, k) = r
    BY <1>1, <1>3, SparedIs
  <2>3. QED
    BY <2>1, <2>2
<1>4. QED
  BY <1>2, <1>3

\* The limits, which one slot may exceed by itself.
Within(r) == Len(r) <= 1 \/ (Len(r) <= MaxEntries /\ Abstract!BytesOf(r) <= MaxBytes)

\* Taking a slot out keeps the limits,
LEMMA WithinCut ==
    ASSUME NEW r \in Seq(Slot), NEW i \in 1..Len(r), Within(r)
    PROVE  Within(RemoveAt(r, i))
<1> DEFINE p == RemoveAt(r, i)
<1>1. p \in Seq(Slot) /\ Len(p) = Len(r) - 1 /\ Len(r) \in Nat
  <2>1. Len(r) \in Nat
    OBVIOUS
  <2>2. QED
    BY <2>1, CutIs
<1>2. Abstract!BytesOf(r) = Abstract!BytesOf(p) + Size(r[i])
  BY BytesOfCut
<1>3. Size(r[i]) \in Nat
  BY SizesAreNat
<1>4. Abstract!BytesOf(p) \in Nat
  <2> HIDE DEF p
  <2>1. Len(p) \in 0..Len(p)
    BY <1>1
  <2>2. QED
    BY <1>1, <2>1, BytesStep DEF Abstract!BytesOf
<1> HIDE DEF p
<1>5. Within(p)
  BY <1>1, <1>2, <1>3, <1>4, CacheConfig DEF Within
<1>6. QED
  BY <1>5 DEF p

\* (a new slot adds its bytes)
LEMMA BytesOfCons ==
    ASSUME NEW r \in Seq(Slot), NEW x \in Slot
    PROVE  Abstract!BytesOf(<<x>> \o r) = Abstract!BytesOf(r) + Size(x)
<1> DEFINE q == <<x>> \o r
<1>1. q \in Seq(Slot) /\ Len(q) = Len(r) + 1 /\ q[1] = x /\ RemoveAt(q, 1) = r /\ Len(r) \in Nat
  BY ConsIs
<1> HIDE DEF q
<1>2. 1 \in 1..Len(q)
  BY <1>1
<1>3. Abstract!BytesOf(q) = Abstract!BytesOf(RemoveAt(q, 1)) + Size(q[1])
  BY <1>1, <1>2, BytesOfCut
<1>4. QED
  BY <1>1, <1>3 DEF q

\* and so does moving one to the front,
LEMMA WithinMoved ==
    ASSUME NEW r \in Seq(Slot), NEW i \in 1..Len(r), Within(r)
    PROVE  Within(<<r[i]>> \o RemoveAt(r, i))
<1> DEFINE p == RemoveAt(r, i)
           q == <<r[i]>> \o p
<1>1. p \in Seq(Slot) /\ Len(p) = Len(r) - 1 /\ r[i] \in Slot
  BY CutIs
<1>2. Abstract!BytesOf(r) = Abstract!BytesOf(p) + Size(r[i])
  BY BytesOfCut
<1> HIDE DEF p
<1>3. Abstract!BytesOf(q) = Abstract!BytesOf(p) + Size(r[i])
  BY <1>1, BytesOfCons
<1>4. Len(q) = Len(p) + 1
  BY <1>1, ConsIs
<1>5. Len(r) = Len(q)
  BY <1>1, <1>4
<1> HIDE DEF q
<1>6. Within(q)
  BY <1>2, <1>3, <1>5 DEF Within
<1>7. QED
  BY <1>6 DEF p, q

\* and adding one after the loop has made room.
LEMMA WithinAdded ==
    ASSUME NEW r \in Seq(Slot), NEW m \in 0..Len(r), NEW x \in Slot,
           m = 0 \/ ~Crowded(r, m, Size(x))
    PROVE  Within(<<x>> \o SubSeq(r, 1, m))
<1> DEFINE p == SubSeq(r, 1, m)
           q == <<x>> \o p
<1>1. p \in Seq(Slot) /\ Len(p) = m
  BY FirstIs
<1>2. Abstract!BytesOf(p) = Abstract!BytesTo(r, m) /\ Abstract!BytesTo(r, m) \in Nat
  BY BytesOfFirst, BytesStep
<1> HIDE DEF p
<1>3. Abstract!BytesOf(q) = Abstract!BytesOf(p) + Size(x) /\ Len(q) = m + 1
  BY <1>1, BytesOfCons, ConsIs
<1>4. Size(x) \in Nat
  BY SizesAreNat
<1> HIDE DEF q
<1>5. Within(q)
  BY <1>2, <1>3, <1>4, CacheConfig DEF Within, Crowded
<1>6. QED
  BY <1>5 DEF p, q

-----------------------------------------------------------------------------
(* The inductive invariant and its steps. *)

\* The cache s with the history u is the list r, which is within the limits.
Stands(s, u, r) == Lists(s, r) /\ u = KeysOf(r) /\ Within(r)

IInv == now \in Times /\ \E r \in Seq(Slot) : Stands(lru, used, r)

\* What may become of the list r.
Moves(r, q) ==
    \/ q = r
    \/ \E i \in DOMAIN r : r[i].key \in Keys /\ q = <<r[i]>> \o RemoveAt(r, i)
    \/ \E k \in Keys : q = Spared(r, k)
    \/ \E k \in Keys, e \in CacheEntry :
          q = <<[key |-> k, entry |-> e]>> \o Abstract!Kept(Spared(r, k), e)
    \/ q = << >>

\* A slot of a list is made of its key and its entry.
LEMMA SlotIs ==
    ASSUME NEW r \in Seq(Slot), NEW i \in 1..Len(r)
    PROVE  /\ r[i] \in Slot /\ r[i].key \in Keys
           /\ r[i] = [key |-> r[i].key, entry |-> r[i].entry]
<1>1. r[i] \in Slot
  OBVIOUS
<1>2. QED
  BY <1>1 DEF Slot

\* get(): a hit moves the slot to the front, an expired one takes it out.
LEMMA GetStep ==
    ASSUME NEW r, Stands(lru, used, r), NEW k \in Keys, Get(k)
    PROVE  \E q \in Seq(Slot) : Stands(lru', used', q) /\ Moves(r, q)
<1>1. /\ Lists(lru, r) /\ used = KeysOf(r) /\ Within(r)
      /\ Keyed(r) /\ r \in Seq(Slot) /\ Len(r) \in Nat /\ DOMAIN r = 1..Len(r)
  BY DEF Stands, Lists, Linked, Keyed
<1>2. PICK i \in 1..Len(r) : r[i].key = k
  BY <1>1, MappedHasSlot DEF Get
<1> DEFINE p == RemoveAt(r, i)
           q == <<r[i]>> \o p
<1>3. Spared(r, k) = p
  BY <1>1, <1>2, SparedIs
<1>4. Keyed(p) /\ p \in Seq(Slot) /\ \A j \in 1..Len(p) : p[j].key # k
  <2>1. Keyed(p) /\ \A j \in 1..Len(p) : p[j].key # k
    BY <1>1, <1>2, CutIsKeyed
  <2>2. QED
    BY <2>1 DEF Keyed
<1>5. Among(Keys \ {k}, used) = KeysOf(p)
  BY <1>1, <1>3, AmongOthers
<1>6. r[i] \in Slot
  BY <1>1, SlotIs
<1> HIDE DEF p
<1>7. <<k>> \o KeysOf(p) = KeysOf(q) /\ Keyed(q)
  BY <1>2, <1>4, <1>6, KeysOfCons, ConsIsKeyed
<1>8. used' = Among(Mapped(lru'), KeysOf(q))
  BY <1>5, <1>7 DEF Get, Use, Used
<1>9. q \in Seq(Slot) /\ Len(q) = Len(p) + 1 /\ RemoveAt(q, 1) = p /\ Len(p) \in Nat
  BY <1>4, <1>6, ConsIs
<1>10. CASE IsExpired(lru.map[k].entry)
  <2> HIDE DEF q
  <2>1. Lists(lru', p)
    <3>1. lru' = Removed(lru, k)
      BY <1>10 DEF Get
    <3>2. Lists(Removed(lru, k), p)
      BY <1>1, <1>2, RemovedLists DEF p
    <3>3. QED
      BY <3>1, <3>2
  <2>2. used' = KeysOf(p)
    <3>1. 1 \in 1..Len(q)
      BY <1>9
    <3>2. Among(Mapped(lru'), KeysOf(q)) = KeysOf(RemoveAt(q, 1))
      BY <1>7, <1>9, <2>1, <3>1, AmongRemoved
    <3>3. QED
      BY <1>8, <1>9, <3>2
  <2>3. Within(p)
    BY <1>1, <1>2, WithinCut DEF p
  <2>4. Moves(r, p)
    BY <1>3 DEF Moves
  <2>5. QED
    BY <1>4, <2>1, <2>2, <2>3, <2>4 DEF Stands
<1>11. CASE ~IsExpired(lru.map[k].entry)
  <2>1. Lists(lru', q)
    <3>1. lru' = PushFront(Unlink(lru, k), k)
      BY <1>11 DEF Get
    <3>2. Lists(PushFront(Unlink(lru, k), k), q)
      BY <1>1, <1>2, GotLists DEF p
    <3>3. QED
      BY <3>1, <3>2
  <2>2. Within(q)
    BY <1>1, WithinMoved DEF p
  <2>3. Moves(r, q)
    BY <1>1, <1>2 DEF Moves, p
  <2> HIDE DEF q
  <2>4. used' = KeysOf(q)
    <3>1. Len(q) \in 0..Len(q) /\ SubSeq(q, 1, Len(q)) = q
      BY <1>9, SubSeqFull
    <3>2. Among(Mapped(lru'), KeysOf(q)) = KeysOf(SubSeq(q, 1, Len(q)))
      BY <1>7, <2>1, <3>1, AmongLeft
    <3>3. QED
      BY <1>8, <3>1, <3>2
  <2>5. QED
    BY <1>9, <2>1, <2>2, <2>3, <2>4 DEF Stands
<1>12. QED
  BY <1>10, <1>11

\* put(): the loop keeps what the abstract specification keeps.
LEMMA PutStep ==
    ASSUME NEW r, Stands(lru, used, r), now \in Times, NEW k \in Keys, NEW bytes \in Sizes, Put(k, bytes)
    PROVE  \E q \in Seq(Slot) : Stands(lru', used', q) /\ Moves(r, q)
<1> DEFINE e == [byte_size |-> bytes, created_at |-> now]
           x == [key |-> k, entry |-> e]
           p == Spared(r, k)
           s == IfMapped(lru, k)
           t == MakeRoom(s, bytes)
<1>1. /\ Lists(lru, r) /\ used = KeysOf(r) /\ Keyed(r)
  BY DEF Stands, Lists, Linked
<1>2. e \in CacheEntry /\ e.byte_size = bytes /\ bytes \in Nat
  BY CacheConfig DEF CacheEntry
<1>3. lru' = Inserted(t, k, e) /\ Use(k)
  BY DEF Put
<1> HIDE DEF e
<1>4. x \in Slot /\ x.key = k /\ Size(x) = bytes
  BY <1>2 DEF Slot, Size
<1>5. Lists(s, p) /\ Keyed(p) /\ p \in Seq(Slot) /\ \A j \in 1..Len(p) : p[j].key # k
  <2>1. Lists(s, p) /\ Keyed(p) /\ \A j \in 1..Len(p) : p[j].key # k
    BY <1>1, IfMappedLists, SparedIs
  <2>2. QED
    BY <2>1 DEF Keyed
<1>6. Among(Keys \ {k}, used) = KeysOf(p)
  BY <1>1, AmongOthers
<1> HIDE DEF p, s, t
<1>7. PICK m \in 0..Len(p) :
         /\ Lists(t, SubSeq(p, 1, m))
         /\ m = 0 \/ ~Crowded(p, m, bytes)
         /\ \A j \in (m + 1)..Len(p) : Crowded(p, j, bytes)
  BY <1>2, <1>5, MakeRoomLists DEF t
<1> DEFINE f == SubSeq(p, 1, m)
           q == <<x>> \o f
           z == <<x>> \o p
<1>8. f \in Seq(Slot) /\ Len(f) = m /\ \A j \in 1..m : f[j] = p[j]
  BY <1>5, FirstIs
<1>9. Abstract!Kept(p, e) = f
  BY <1>2, <1>5, <1>7, KeptIs
<1>10. Within(q)
  BY <1>4, <1>5, <1>7, WithinAdded
<1> HIDE DEF f
<1>11. t.map[k] = Nil
  <2>1. \A j \in 1..Len(f) : f[j].key # k
    <3>1. \A j \in 1..m : j \in 1..Len(p)
      BY <1>7
    <3>2. QED
      BY <1>5, <1>8, <3>1
  <2>2. Lists(t, f)
    BY <1>7 DEF f
  <2>3. QED
    BY <2>1, <2>2, MappedHasSlot
<1>12. Lists(lru', q)
  <2>1. Lists(t, f)
    BY <1>7 DEF f
  <2>2. QED
    BY <1>2, <1>3, <1>11, <2>1, InsertedLists
<1> HIDE DEF x
<1>13. /\ z \in Seq(Slot) /\ Len(z) = Len(p) + 1 /\ z[1] = x
       /\ \A j \in 1..Len(p) : z[j + 1] = p[j]
       /\ q \in Seq(Slot) /\ Len(q) = m + 1 /\ q[1] = x
       /\ \A j \in 1..m : q[j + 1] = f[j]
       /\ Keyed(z) /\ KeysOf(z) = <<k>> \o KeysOf(p) /\ Len(p) \in Nat
  <2>1. /\ z \in Seq(Slot) /\ Len(z) = Len(p) + 1 /\ z[1] = x
        /\ \A j \in 1..Len(p) : z[j + 1] = p[j]
    BY <1>4, <1>5, ConsIs
  <2>2. /\ q \in Seq(Slot) /\ Len(q) = Len(f) + 1 /\ q[1] = x
        /\ \A j \in 1..Len(f) : q[j + 1] = f[j]
    BY <1>4, <1>8, ConsIs
  <2>3. Keyed(z) /\ KeysOf(z) = <<k>> \o KeysOf(p)
    BY <1>4, <1>5, ConsIsKeyed, KeysOfCons
  <2>4. Len(p) \in Nat
    BY <1>5
  <2> HIDE DEF q, z
  <2>5. QED
    BY <1>8, <2>1, <2>2, <2>3, <2>4
<1> HIDE DEF q, z
<1>14. m + 1 \in 0..Len(z) /\ SubSeq(z, 1, m + 1) = q
  <2>1. m + 1 \in 0..Len(z)
    BY <1>13
  <2>2. /\ SubSeq(z, 1, m + 1) \in Seq(Slot) /\ Len(SubSeq(z, 1, m + 1)) = m + 1
        /\ \A j \in 1..(m + 1) : SubSeq(z, 1, m + 1)[j] = z[j]
    BY <1>13, <2>1, FirstIs
  <2>3. ASSUME NEW j \in 1..(m + 1) PROVE z[j] = q[j]
    <3>1. CASE j = 1
      BY <1>13, <3>1
    <3>2. CASE j # 1
      <4>1. j - 1 \in 1..m /\ j - 1 \in 1..Len(p) /\ (j - 1) + 1 = j
        BY <1>7, <3>2
      <4>2. z[j] = p[j - 1] /\ q[j] = f[j - 1] /\ f[j - 1] = p[j - 1]
        BY <1>8, <1>13, <4>1
      <4>3. QED
        BY <4>2
    <3>3. QED
      BY <3>1, <3>2
  <2>4. QED
    BY <1>13, <2>1, <2>2, <2>3, SeqEqual
<1>15. used' = KeysOf(q)
  <2>1. used' = Among(Mapped(lru'), KeysOf(z))
    BY <1>3, <1>6, <1>13 DEF Use, Used
  <2>2. Among(Mapped(lru'), KeysOf(z)) = KeysOf(SubSeq(z, 1, m + 1))
    BY <1>12, <1>13, <1>14, AmongLeft
  <2>3. QED
    BY <1>14, <2>1, <2>2
<1>16. Moves(r, q)
  BY <1>2, <1>9 DEF Moves, q, x, p
<1>17. QED
  BY <1>10, <1>12, <1>13, <1>15, <1>16 DEF Stands

\* remove() takes the slot out, if there is one.
LEMMA RemoveStep ==
    ASSUME NEW r, Stands(lru, used, r), NEW k \in Keys, RemoveKey(k)
    PROVE  \E q \in Seq(Slot) : Stands(lru', used', q) /\ Moves(r, q)
<1> DEFINE p == Spared(r, k)
<1>1. /\ Lists(lru, r) /\ used = KeysOf(r) /\ Within(r)
      /\ Keyed(r) /\ r \in Seq(Slot)
  BY DEF Stands, Lists, Linked, Keyed
<1>2. Lists(lru', p) /\ used' = Among(Mapped(lru'), KeysOf(r))
  BY <1>1, IfMappedLists DEF RemoveKey, Used
<1>3. Moves(r, p)
  BY DEF Moves
<1>4. p \in Seq(Slot)
  BY <1>2 DEF Lists, Linked, Keyed
<1>5. used' = KeysOf(p) /\ Within(p)
  <2>1. CASE \E i \in 1..Len(r) : r[i].key = k
    <3>1. PICK i \in 1..Len(r) : r[i].key = k
      BY <2>1
    <3>2. p = RemoveAt(r, i)
      BY <1>1, <3>1, SparedIs
    <3> HIDE DEF p
    <3>3. QED
      BY <1>1, <1>2, <3>2, AmongRemoved, WithinCut
  <2>2. CASE \A i \in 1..Len(r) : r[i].key # k
    <3>1. p = r
      BY <1>1, <2>2, SparedIs
    <3>2. Len(r) \in 0..Len(r) /\ SubSeq(r, 1, Len(r)) = r
      BY <1>1, SubSeqFull
    <3> HIDE DEF p
    <3>3. Among(Mapped(lru'), KeysOf(r)) = KeysOf(SubSeq(r, 1, Len(r)))
      BY <1>1, <1>2, <3>1, <3>2, AmongLeft
    <3>4. QED
      BY <1>1, <1>2, <3>1, <3>2, <3>3
  <2>3. QED
    BY <2>1, <2>2
<1> HIDE DEF p
<1>6. QED
  BY <1>2, <1>3, <1>4, <1>5 DEF Stands

\* The empty cache is the empty list.
LEMMA EmptyLists == Lists(EmptyLru, << >>) /\ << >> \in Seq(Slot) /\ KeysOf(<< >>) = << >> /\ Within(<< >>)
<1>1. << >> \in Seq(Slot) /\ Len(<< >>) = 0
  BY EmptySeq
<1>2. \A i : KeyAt(<< >>, i) = Nil
  BY <1>1 DEF KeyAt
<1>3. EmptyLru \in LruState
  BY DEF EmptyLru, LruState, Link
<1>4. Linked(EmptyLru, << >>)
  BY <1>1, <1>2, <1>3 DEF Linked, Keyed, EmptyLru
<1>5. Only(EmptyLru, << >>, {})
  BY DEF Only, EmptyLru
<1>6. Abstract!BytesOf(<< >>) = 0
  BY <1>1, BytesStep DEF Abstract!BytesOf
<1>7. Lists(EmptyLru, << >>)
  BY <1>4, <1>5, <1>6 DEF Lists, EmptyLru
<1>8. KeysOf(<< >>) = << >>
  BY <1>1 DEF KeysOf
<1>9. QED
  BY <1>1, <1>7, <1>8 DEF Within

\* clear() leaves the empty list.
LEMMA ClearStep ==
    ASSUME NEW r, Stands(lru, used, r), Clear
    PROVE  \E q \in Seq(Slot) : Stands(lru', used', q) /\ Moves(r, q)
<1>1. used = KeysOf(r) /\ Keyed(r) /\ r \in Seq(Slot)
  BY DEF Stands, Lists, Linked, Keyed
<1>2. 0 \in 0..Len(r) /\ SubSeq(r, 1, 0) = << >>
  BY <1>1
<1>3. Lists(lru', << >>) /\ used' = Among(Mapped(lru'), KeysOf(r))
  BY <1>1, EmptyLists DEF Clear, Used
<1>4. Among(Mapped(lru'), KeysOf(r)) = KeysOf(SubSeq(r, 1, 0))
  BY <1>1, <1>2, <1>3, AmongLeft
<1>5. used' = KeysOf(<< >>)
  BY <1>2, <1>3, <1>4
<1>6. Moves(r, << >>)
  BY DEF Moves
<1>7. QED
  BY <1>3, <1>5, <1>6, EmptyLists DEF Stands

\* Every step takes the list to a list, and as the abstract specification says.
LEMMA ListStep ==
    ASSUME NEW r \in Seq(Slot), Stands(lru, used, r), now \in Times, [Next]_vars
    PROVE  now' \in Times /\ \E q \in Seq(Slot) : Stands(lru', used', q) /\ Moves(r, q)
<1>1. ASSUME NEW k \in Keys, Get(k)
      PROVE  now' \in Times /\ \E q \in Seq(Slot) : Stands(lru', used', q) /\ Moves(r, q)
  BY <1>1, GetStep DEF Get
<1>2. ASSUME NEW k \in Keys, NEW bytes \in Sizes, Put(k, bytes)
      PROVE  now' \in Times /\ \E q \in Seq(Slot) : Stands(lru', used', q) /\ Moves(r, q)
  BY <1>2, PutStep DEF Put
<1>3. ASSUME NEW k \in Keys, RemoveKey(k)
      PROVE  now' \in Times /\ \E q \in Seq(Slot) : Stands(lru', used', q) /\ Moves(r, q)
  BY <1>3, RemoveStep DEF RemoveKey
<1>4. CASE Clear
  BY <1>4, ClearStep DEF Clear
<1>5. CASE Tick \/ UNCHANGED vars
  <2>1. now' \in Times /\ lru' = lru /\ used' = used
    BY <1>5 DEF Tick, vars
  <2>2. Stands(lru', used', r) /\ Moves(r, r)
    BY <2>1 DEF Moves
  <2>3. QED
    BY <2>1, <2>2
<1>6. QED
  BY <1>1, <1>2, <1>3, <1>4, <1>5 DEF Next

\* The inductive invariant holds at first,
THEOREM InitIInv == Init => IInv
<1> SUFFICES ASSUME Init PROVE IInv
  OBVIOUS
<1>1. Stands(lru, used, << >>)
  BY EmptyLists DEF Init, Stands
<1>2. QED
  BY <1>1, EmptyLists DEF Init, IInv

\* and every step preserves it:
THEOREM StepIInv == IInv /\ [Next]_vars => IInv'
<1> SUFFICES ASSUME IInv, [Next]_vars PROVE IInv'
  OBVIOUS
<1>1. PICK r \in Seq(Slot) : Stands(lru, used, r)
  BY DEF IInv
<1>2. now' \in Times /\ \E q \in Seq(Slot) : Stands(lru', used', q)
  BY <1>1, ListStep DEF IInv
<1>3. QED
  BY <1>2 DEF IInv

\* every reachable state of the cache is a list in the order of use, linked both ways,
\* with the sum of its bytes, within the limits.
THEOREM Invariance == Spec => []IInv
BY InitIInv, StepIInv, PTL DEF Spec

\* The inductive invariant implies that map, list, history and byte count agree.
LEMMA IInvConsistent == IInv => Consistent
<1> SUFFICES ASSUME IInv PROVE Consistent
  OBVIOUS
<1>1. PICK r \in Seq(Slot) : Stands(lru, used, r)
  BY DEF IInv
<1>2. Lists(lru, r) /\ used = KeysOf(r) /\ lru \in LruState
  BY <1>1 DEF Stands, Lists, Linked
<1>3. NewestFirst = used /\ OldestFirst = Reverse(used) /\ SlotsOf(NewestFirst) = r
  BY <1>2, ChainsAre DEF Lists
<1>4. Mapped(lru) = {r[i].key : i \in 1..Len(r)} /\ Cardinality(Mapped(lru)) = Len(r)
  BY <1>2, MappedIs DEF Lists
<1>5. used \in Seq(Keys) /\ Len(used) = Len(r) /\ \A i \in 1..Len(r) : used[i] = r[i].key
  BY <1>2, KeysOfIs
<1>6. TypeOK
  BY <1>2, <1>5 DEF TypeOK, LruState, IInv
<1>7. ListIsOrderOfUse
  <2>1. ToSet(used) = {used[i] : i \in 1..Len(r)}
    BY <1>5 DEF ToSet
  <2>2. ToSet(used) = Mapped(lru)
    BY <1>4, <1>5, <2>1
  <2>3. QED
    BY <1>3, <1>4, <1>5, <2>2 DEF ListIsOrderOfUse
<1>8. TotalIsSum
  BY <1>2, <1>3 DEF TotalIsSum, Lists
<1>9. QED
  BY <1>6, <1>7, <1>8 DEF Consistent

\* Map, linked list and byte count of LruCacheImpl stay in step after any number of
\* hits, expiries, replacements, evictions and removals.
THEOREM Consistency == Spec => []Consistent
BY Invariance, IInvConsistent, PTL

\* The inductive invariant implies the limits.
LEMMA IInvLimits == IInv => LimitsKept
<1> DEFINE Kept == Cardinality(Mapped(lru)) <= MaxEntries /\ lru.total_bytes <= MaxBytes
<1> SUFFICES ASSUME IInv PROVE LimitsKept
  OBVIOUS
<1> HIDE DEF Kept
<1>1. PICK r \in Seq(Slot) : Stands(lru, used, r)
  BY DEF IInv
<1>2. Linked(lru, r) /\ lru.total_bytes = Abstract!BytesOf(r) /\ Within(r) /\ Len(r) \in Nat
  BY <1>1 DEF Stands, Lists
<1>3. Mapped(lru) = {r[i].key : i \in 1..Len(r)} /\ Cardinality(Mapped(lru)) = Len(r)
  BY <1>1, MappedIs DEF Stands, Lists
<1>4. CASE Len(r) = 0
  <2>1. Abstract!BytesOf(r) = 0
    BY <1>4, BytesStep DEF Abstract!BytesOf
  <2>2. Kept
    BY <1>2, <1>3, <1>4, <2>1, CacheConfig DEF Kept
  <2>3. QED
    BY <2>2 DEF LimitsKept, Kept
<1>5. CASE Len(r) = 1
  <2> DEFINE k == r[1].key
  <2>1. 1 \in 1..Len(r) /\ 1..Len(r) = {1} /\ r[1] \in Slot
    BY <1>5
  <2>2. lru.map[k] = NodeAt(r, 1) /\ Mapped(lru) = {k}
    <3>1. \A i \in 1..Len(r) : lru.map[r[i].key] = NodeAt(r, i)
      BY <1>2 DEF Linked
    <3>2. {r[i].key : i \in 1..Len(r)} = {k}
      BY <2>1
    <3>3. Mapped(lru) = {k}
      BY <1>3, <3>2
    <3>4. lru.map[r[1].key] = NodeAt(r, 1)
      BY <2>1, <3>1
    <3>5. QED
      BY <3>3, <3>4
  <2>3. k \in Keys /\ lru.map[k].entry.byte_size = Size(r[1])
    BY <2>1, <2>2 DEF NodeAt, Size, Slot
  <2>4. Abstract!BytesOf(r) = Size(r[1])
    <3>1. Abstract!BytesTo(r, 0) = 0 /\ Abstract!BytesTo(r, 0 + 1) = Abstract!BytesTo(r, 0) + Size(r[0 + 1])
      BY <1>5, BytesStep
    <3>2. Size(r[1]) \in Nat
      BY <2>1, SizesAreNat
    <3>3. QED
      BY <1>5, <3>1, <3>2 DEF Abstract!BytesOf
  <2>5. CASE Fits(Size(r[1]))
    <3>1. Kept
      BY <1>2, <1>3, <1>5, <2>4, <2>5, CacheConfig DEF Fits, Kept
    <3>2. QED
      BY <3>1 DEF LimitsKept, Kept
  <2>6. CASE ~Fits(Size(r[1]))
    <3>1. Mapped(lru) = {k} /\ ~Fits(lru.map[k].entry.byte_size)
      BY <2>2, <2>3, <2>6
    <3> HIDE DEF k
    <3>2. QED
      BY <2>3, <3>1 DEF LimitsKept
  <2>7. QED
    BY <2>5, <2>6
<1>6. CASE Len(r) > 1
  <2>1. ~(Len(r) <= 1)
    BY <1>2, <1>6
  <2>2. Len(r) <= MaxEntries /\ Abstract!BytesOf(r) <= MaxBytes
    BY <1>2, <2>1 DEF Within
  <2>3. QED
    BY <1>2, <1>3, <2>2 DEF LimitsKept
<1>7. Len(r) = 0 \/ Len(r) = 1 \/ Len(r) > 1
  <2> DEFINE n == Len(r)
  <2>1. n \in Nat
    BY <1>2
  <2> HIDE DEF n
  <2>2. n = 0 \/ n = 1 \/ n > 1
    BY <2>1
  <2>3. QED
    BY <2>2 DEF n
<1>8. QED
  BY <1>4, <1>5, <1>6, <1>7

\* max_entries and max_bytes are kept, but while one entry that is over them by itself
\* is alone in the cache, whatever the two are.
THEOREM Limits == Spec => []LimitsKept
BY Invariance, IInvLimits, PTL

-----------------------------------------------------------------------------
(* The refinement. *)

\* The list can be read off its links.
ListIsRead == \A r \in Seq(Slot) : Lists(lru, r) => SlotsOf(NewestFirst) = r

\* Which is so in every state.
LEMMA ListIsReadHolds == ListIsRead
BY ChainsAre DEF ListIsRead, Lists

\* The empty cache is the empty sequence of slots.
LEMMA InitImplements == Init => Abstract!LruInit
<1> SUFFICES ASSUME Init PROVE Abstract!LruInit
  OBVIOUS
<1>1. Lists(lru, << >>) /\ << >> \in Seq(Slot)
  BY EmptyLists DEF Init
<1>2. SlotsOf(NewestFirst) = << >>
  BY <1>1, ListIsReadHolds DEF ListIsRead
<1>3. QED
  BY <1>2 DEF Abstract!LruInit

\* Every step of the linked list is a step of the abstract specification, or none.
LEMMA StepImplements ==
    IInv /\ ListIsRead /\ ListIsRead' /\ [Next]_vars => [Abstract!LruNext]_(SlotsOf(NewestFirst))
<1> SUFFICES ASSUME IInv, ListIsRead, ListIsRead', [Next]_vars
             PROVE  [Abstract!LruNext]_(SlotsOf(NewestFirst))
  OBVIOUS
<1> DEFINE recent == SlotsOf(NewestFirst)
<1>1. PICK r \in Seq(Slot) : Stands(lru, used, r)
  BY DEF IInv
<1>2. PICK q \in Seq(Slot) : Stands(lru', used', q) /\ Moves(r, q)
  BY <1>1, ListStep DEF IInv
<1>3. recent = r
  BY <1>1 DEF ListIsRead, Stands
<1>4. recent' = q
  BY <1>2 DEF ListIsRead, Stands
<1>5. \A k : Abstract!Without(k) = Spared(r, k)
  BY <1>3 DEF Abstract!Without, Abstract!RemoveAt, RemoveAt, Spared
<1> HIDE DEF recent
<1>6. CASE q = r
  BY <1>3, <1>4, <1>6 DEF recent
<1>7. ASSUME NEW i \in DOMAIN r, r[i].key \in Keys, q = <<r[i]>> \o RemoveAt(r, i)
      PROVE  Abstract!LruNext
  <2>1. Abstract!Use(r[i].key)
    BY <1>3, <1>4, <1>7 DEF Abstract!Use, Abstract!RemoveAt, RemoveAt, recent
  <2>2. QED
    BY <1>7, <2>1 DEF Abstract!LruNext
<1>8. ASSUME NEW k \in Keys, q = Spared(r, k) PROVE Abstract!LruNext
  <2>1. Abstract!Drop(k)
    BY <1>4, <1>5, <1>8 DEF Abstract!Drop, recent
  <2>2. QED
    BY <2>1 DEF Abstract!LruNext
<1>9. ASSUME NEW k \in Keys, NEW e \in CacheEntry,
             q = <<[key |-> k, entry |-> e]>> \o Abstract!Kept(Spared(r, k), e)
      PROVE  Abstract!LruNext
  <2>1. Abstract!Add(k, e)
    BY <1>4, <1>5, <1>9 DEF Abstract!Add, recent
  <2>2. QED
    BY <2>1 DEF Abstract!LruNext
<1>10. CASE q = << >>
  <2>1. Abstract!Clear
    BY <1>4, <1>10 DEF Abstract!Clear, recent
  <2>2. QED
    BY <2>1 DEF Abstract!LruNext
<1>11. QED
  BY <1>2, <1>6, <1>7, <1>8, <1>9, <1>10 DEF Moves

\* LruCacheImpl implements the order of use: put() evicts the least recently used
\* entries and not one more than needed, and no other method reorders or drops an entry
\* that it is not about.
THEOREM Implementation == Spec => ImplementsLru
<1>1. Init => Abstract!LruInit
  BY InitImplements
<1>2. ListIsRead
  BY ListIsReadHolds
<1>3. IInv /\ ListIsRead /\ ListIsRead' /\ [Next]_vars => [Abstract!LruNext]_(SlotsOf(NewestFirst))
  BY StepImplements
<1>4. QED
  BY <1>1, <1>2, <1>3, Invariance, PTL DEF Spec, ImplementsLru, Abstract!LruSpec
===============================================================================
