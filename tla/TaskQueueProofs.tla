---------------------------- MODULE TaskQueueProofs ----------------------------
(***************************************************************************)
(* Proofs about TaskQueue for any finite set of producers, any consumers   *)
(* and any capacity: the mutex serves all who wait, in the order in which  *)
(* they came, the counter is the length of the channel but for the calls   *)
(* in between, and every step is a step of Fifo or leaves it alone.        *)
(***************************************************************************)
EXTENDS TaskQueue, FiniteSetTheorems, SequenceTheorems, TLAPS

-----------------------------------------------------------------------------
(* Who waits for the mutex. *)

\* w is s, a queue of n without repetition, with the k-th taken out.
IsTakenOut(n, s, k, w) ==
    /\ n \in Nat /\ k \in 1..n
    /\ \A i, j \in 1..n : s[i] = s[j] => i = j
    /\ \A j \in 1..(n - 1) : w[j] = IF j < k THEN s[j] ELSE s[j + 1]

LEMMA TakeOut ==
    ASSUME NEW n, NEW s, NEW k, NEW w, IsTakenOut(n, s, k, w)
    PROVE  /\ \A u : (\E j \in 1..(n - 1) : w[j] = u)
                        <=> (\E i \in 1..n : s[i] = u) /\ u # s[k]
           /\ \A i, j \in 1..(n - 1) : w[i] = w[j] => i = j
<1> USE DEF IsTakenOut
<1> DEFINE At(j) == IF j < k THEN j ELSE j + 1
<1>1. \A j \in 1..(n - 1) : At(j) \in 1..n /\ At(j) # k /\ w[j] = s[At(j)]
  OBVIOUS
<1>2. \A i, j \in 1..(n - 1) : At(i) = At(j) => i = j
  OBVIOUS
<1>3. \A i, j \in 1..(n - 1) : w[i] = w[j] => i = j
  BY <1>1, <1>2
<1>4. ASSUME NEW j \in 1..(n - 1)
      PROVE  (\E i \in 1..n : s[i] = w[j]) /\ w[j] # s[k]
  BY <1>1
<1>5. ASSUME NEW i \in 1..n, i # k
      PROVE  \E j \in 1..(n - 1) : w[j] = s[i]
  <2>1. CASE i < k
    <3>1. i \in 1..(n - 1) /\ w[i] = s[i]
      BY <2>1
    <3>2. QED
      BY <3>1
  <2>2. CASE i > k
    <3>1. i - 1 \in 1..(n - 1) /\ w[i - 1] = s[(i - 1) + 1] /\ (i - 1) + 1 = i
      BY <2>2
    <3>2. QED
      BY <3>1
  <2>3. QED
    BY <1>5, <2>1, <2>2
<1>6. QED
  BY <1>3, <1>4, <1>5

\* The type of what the mutex consists of.
MutexType == pc \in [Callers -> PC] /\ waiters \in Seq(Consumers)

LEMMA WaitersDomain ==
    ASSUME MutexType
    PROVE  /\ Len(waiters) \in Nat /\ DOMAIN waiters = 1..Len(waiters)
           /\ \A i \in DOMAIN waiters : waiters[i] \in Consumers
BY DEF MutexType

\* A step that moves nobody into or out of the mutex or its queue.
LEMMA MutexUntouched ==
    ASSUME MutexType, MutexServesAll,
           \A c \in Consumers : /\ (pc'[c] = "lock") <=> (pc[c] = "lock")
                                /\ Holds(c)' <=> Holds(c),
           waiters' = waiters
    PROVE  MutexServesAll'
BY DEF MutexServesAll

LEMMA UnlockMutex ==
    ASSUME MutexType, MutexServesAll, NEW c \in Consumers, Holds(c), Unlock(c)
    PROVE  MutexServesAll'
<1>1. pc[c] # "lock" /\ c \in Callers /\ \A d \in Consumers : Holds(d) => d = c
  BY DEF Holds, MutexServesAll, Callers
<1>2. CASE waiters = << >>
  <2>1. pc' = [pc EXCEPT ![c] = "idle"] /\ waiters' = waiters
    BY <1>2 DEF Unlock
  <2>2. \A d \in Consumers : ~Holds(d)' /\ ((pc'[d] = "lock") <=> (pc[d] = "lock"))
    BY <1>1, <2>1 DEF Holds, MutexType, Callers
  <2>3. QED
    BY <1>2, <2>1, <2>2 DEF MutexServesAll
<1>3. CASE waiters # << >>
  <2> DEFINE h == Head(waiters)
             n == Len(waiters)
  <2>1. pc' = [pc EXCEPT ![c] = "idle", ![h] = "receive"] /\ waiters' = Tail(waiters)
    BY <1>3 DEF Unlock
  <2>2. /\ n \in Nat /\ 1 \in 1..n /\ DOMAIN waiters = 1..n
        /\ h = waiters[1] /\ h \in Consumers
        /\ DOMAIN waiters' = 1..(n - 1)
        /\ \A j \in 1..(n - 1) : waiters'[j] = waiters[j + 1]
    BY <1>3, <2>1 DEF MutexType
  <2>3. pc[h] = "lock"
    BY <2>2 DEF MutexServesAll
  <2> HIDE DEF h, n
  <2>4. IsTakenOut(n, waiters, 1, waiters')
    <3>1. \A i, j \in 1..n : waiters[i] = waiters[j] => i = j
      BY <2>2 DEF MutexServesAll
    <3>2. \A j \in 1..(n - 1) :
             waiters'[j] = IF j < 1 THEN waiters[j] ELSE waiters[j + 1]
      BY <2>2
    <3>3. QED
      BY <2>2, <3>1, <3>2 DEF IsTakenOut
  <2>5. /\ \A u : (\E j \in 1..(n - 1) : waiters'[j] = u)
                     <=> (\E i \in 1..n : waiters[i] = u) /\ u # h
        /\ \A i, j \in 1..(n - 1) : waiters'[i] = waiters'[j] => i = j
    <3>1. /\ \A u : (\E j \in 1..(n - 1) : waiters'[j] = u)
                       <=> (\E i \in 1..n : waiters[i] = u) /\ u # waiters[1]
          /\ \A i, j \in 1..(n - 1) : waiters'[i] = waiters'[j] => i = j
      BY <2>4, TakeOut
    <3>2. QED
      BY <2>2, <3>1
  <2>6. \A d \in Consumers : /\ Holds(d)' <=> d = h
                             /\ (pc'[d] = "lock") <=> (pc[d] = "lock" /\ d # h)
    BY <1>1, <2>1, <2>2, <2>3 DEF Holds, MutexType, Callers
  <2>7. \A d \in Consumers : (pc[d] = "lock") <=> \E i \in 1..n : waiters[i] = d
    BY <2>2 DEF MutexServesAll
  <2>8. QED
    BY <2>2, <2>5, <2>6, <2>7 DEF MutexServesAll
<1>4. QED
  BY <1>2, <1>3

\* A call of dequeue() takes the mutex if it is free, and else joins the queue.
LEMMA DequeueMutex ==
    ASSUME MutexType, MutexServesAll, NEW c \in Consumers, Dequeue(c)
    PROVE  MutexServesAll'
<1>1. pc[c] = "idle" /\ c \in Callers
  BY DEF Dequeue, Callers
<1>2. CASE \E d \in Consumers : Holds(d)
  <2> DEFINE n == Len(waiters)
  <2>1. pc' = [pc EXCEPT ![c] = "lock"] /\ waiters' = Append(waiters, c)
    BY <1>2 DEF Dequeue
  <2>2. /\ n \in Nat /\ DOMAIN waiters = 1..n /\ DOMAIN waiters' = 1..(n + 1)
        /\ \A i \in 1..n : waiters'[i] = waiters[i]
        /\ waiters'[n + 1] = c
    BY <2>1 DEF MutexType
  <2> HIDE DEF n
  <2>3. \A d \in Consumers : /\ Holds(d)' <=> Holds(d)
                             /\ (pc'[d] = "lock") <=> (pc[d] = "lock" \/ d = c)
    BY <1>1, <2>1 DEF Holds, MutexType, Callers
  <2>4. \A i \in 1..n : waiters[i] # c
    BY <1>1, <2>2 DEF MutexServesAll
  <2>5. \A d \in Consumers : (pc[d] = "lock") <=> \E i \in 1..n : waiters[i] = d
    BY <2>2 DEF MutexServesAll
  <2>6. \A i, j \in 1..(n + 1) : waiters'[i] = waiters'[j] => i = j
    <3>1. \A i, j \in 1..n : waiters[i] = waiters[j] => i = j
      BY <2>2 DEF MutexServesAll
    <3>2. QED
      BY <2>2, <2>4, <3>1
  <2>7. \A d \in Consumers : (pc'[d] = "lock") <=> \E i \in 1..(n + 1) : waiters'[i] = d
    <3>1. \A u : (\E i \in 1..(n + 1) : waiters'[i] = u)
                    <=> (\E i \in 1..n : waiters[i] = u) \/ u = c
      BY <2>2
    <3>2. QED
      BY <2>3, <2>5, <3>1
  <2>8. QED
    BY <1>2, <2>2, <2>3, <2>6, <2>7 DEF MutexServesAll
<1>3. CASE ~\E d \in Consumers : Holds(d)
  <2>1. pc' = [pc EXCEPT ![c] = "receive"] /\ waiters' = waiters
    BY <1>3 DEF Dequeue
  <2>2. \A d \in Consumers : /\ Holds(d)' <=> d = c
                             /\ (pc'[d] = "lock") <=> (pc[d] = "lock")
    BY <1>1, <1>3, <2>1 DEF Holds, MutexType, Callers
  <2>3. QED
    BY <2>1, <2>2 DEF MutexServesAll
<1>4. QED
  BY <1>2, <1>3

\* The queue with one taken out of it.
LEMMA WaiterLeaves ==
    ASSUME MutexType, NEW k \in DOMAIN waiters, waiters' = RemoveAt(waiters, k)
    PROVE  /\ DOMAIN waiters' = 1..(Len(waiters) - 1)
           /\ \A j \in 1..(Len(waiters) - 1) :
                 waiters'[j] = IF j < k THEN waiters[j] ELSE waiters[j + 1]
<1> DEFINE n == Len(waiters)
           a == SubSeq(waiters, 1, k - 1)
           b == SubSeq(waiters, k + 1, n)
<1>1. n \in Nat /\ k \in 1..n
  BY DEF MutexType
<1>2. /\ a \in Seq(Consumers) /\ Len(a) = k - 1
      /\ \A j \in 1..(k - 1) : a[j] = waiters[j]
  BY <1>1 DEF MutexType
<1>3. /\ b \in Seq(Consumers) /\ Len(b) = n - k
      /\ \A j \in 1..(n - k) : b[j] = waiters[k + j]
  BY <1>1 DEF MutexType
<1>4. waiters' = a \o b
  BY DEF RemoveAt
<1> HIDE DEF a, b, n
<1>5. /\ DOMAIN (a \o b) = 1..(Len(a) + Len(b))
      /\ \A j \in 1..(Len(a) + Len(b)) :
            (a \o b)[j] = IF j <= Len(a) THEN a[j] ELSE b[j - Len(a)]
  BY <1>2, <1>3
<1>6. ASSUME NEW j \in 1..(n - 1)
      PROVE  waiters'[j] = IF j < k THEN waiters[j] ELSE waiters[j + 1]
  <2>1. CASE j < k
    BY <1>1, <1>2, <1>3, <1>4, <1>5, <2>1
  <2>2. CASE j >= k
    <3>1. PICK i \in 1..(n - k) : i = j - (k - 1) /\ k + i = j + 1
      BY <1>1, <2>2
    <3>2. j \in 1..(Len(a) + Len(b)) /\ ~(j <= Len(a)) /\ j - Len(a) = i
      BY <1>1, <1>2, <1>3, <2>2, <3>1
    <3>3. (a \o b)[j] = b[i]
      BY <1>5, <3>2
    <3>4. b[i] = waiters[j + 1]
      BY <1>3, <3>1
    <3>5. QED
      BY <1>1, <1>4, <2>2, <3>3, <3>4
  <2>3. QED
    BY <1>1, <2>1, <2>2
<1>7. (k - 1) + (n - k) = n - 1
  BY <1>1
<1>8. DOMAIN waiters' = 1..(n - 1)
  BY <1>2, <1>3, <1>4, <1>5, <1>7
<1>9. QED
  BY <1>6, <1>8 DEF n

\* A dropped call leaves the queue, wherever it is in it.
LEMMA DropMutex ==
    ASSUME MutexType, MutexServesAll, NEW c \in Consumers, Drop(c)
    PROVE  MutexServesAll'
<1>1. CASE pc[c] = "receive"
  BY <1>1, UnlockMutex DEF Drop, Holds
<1>2. CASE pc[c] = "lock"
  <2> DEFINE n == Len(waiters)
  <2>1. pc' = [pc EXCEPT ![c] = "idle"]
    BY <1>2 DEF Drop
  <2>2. PICK k \in DOMAIN waiters : waiters[k] = c /\ waiters' = RemoveAt(waiters, k)
    BY <1>2 DEF Drop
  <2>3. n \in Nat /\ DOMAIN waiters = 1..n /\ k \in 1..n
    BY <2>2 DEF MutexType
  <2>4. /\ DOMAIN waiters' = 1..(n - 1)
        /\ \A j \in 1..(n - 1) :
              waiters'[j] = IF j < k THEN waiters[j] ELSE waiters[j + 1]
    BY <2>2, WaiterLeaves
  <2> HIDE DEF n
  <2>5. IsTakenOut(n, waiters, k, waiters')
    <3>1. \A i, j \in 1..n : waiters[i] = waiters[j] => i = j
      BY <2>3 DEF MutexServesAll
    <3>2. QED
      BY <2>3, <2>4, <3>1 DEF IsTakenOut
  <2>6. /\ \A u : (\E j \in 1..(n - 1) : waiters'[j] = u)
                     <=> (\E i \in 1..n : waiters[i] = u) /\ u # waiters[k]
        /\ \A i, j \in 1..(n - 1) : waiters'[i] = waiters'[j] => i = j
    BY <2>5, TakeOut
  <2>7. \A d \in Consumers : /\ Holds(d)' <=> Holds(d)
                             /\ (pc'[d] = "lock") <=> (pc[d] = "lock" /\ d # c)
    BY <1>2, <2>1 DEF Holds, MutexType, Callers
  <2>8. \A d \in Consumers : (pc[d] = "lock") <=> \E i \in 1..n : waiters[i] = d
    BY <2>3 DEF MutexServesAll
  <2>9. \A d \in Consumers : (pc'[d] = "lock") <=> \E j \in 1..(n - 1) : waiters'[j] = d
    BY <2>2, <2>6, <2>7, <2>8
  <2>10. \E d \in Consumers : Holds(d)
    BY <2>3 DEF MutexServesAll, MutexType
  <2>11. QED
    BY <2>4, <2>6, <2>7, <2>9, <2>10 DEF MutexServesAll
<1>3. QED
  BY <1>1, <1>2 DEF Drop

LEMMA MutexStep ==
    ASSUME TypeOK, MutexServesAll, [Next]_vars
    PROVE  MutexServesAll'
<1> MutexType
  BY DEF TypeOK, MutexType
<1>1. ASSUME NEW p \in Producers, NEW t \in Tasks, Enqueue(p, t)
      PROVE  MutexServesAll'
  BY <1>1, MutexUntouched, QueueConfig DEF Enqueue, Holds, MutexType, Callers
<1>2. ASSUME NEW p \in Producers, Count(p)
      PROVE  MutexServesAll'
  BY <1>2, MutexUntouched, QueueConfig DEF Count, Holds, MutexType, Callers
<1>3. ASSUME NEW c \in Consumers, Receive(c)
      PROVE  MutexServesAll'
  BY <1>3, MutexUntouched DEF Receive, Holds, MutexType, Callers
<1>4. ASSUME NEW c \in Consumers, Expire(c)
      PROVE  MutexServesAll'
  BY <1>4, UnlockMutex DEF Expire, Holds
<1>5. ASSUME NEW c \in Consumers, Uncount(c)
      PROVE  MutexServesAll'
  BY <1>5, UnlockMutex DEF Uncount, Holds
<1>6. CASE UNCHANGED vars
  BY <1>6, MutexUntouched DEF vars, Holds
<1>7. QED
  BY <1>1, <1>2, <1>3, <1>4, <1>5, <1>6, DequeueMutex, DropMutex DEF Next, DequeueStep

-----------------------------------------------------------------------------
(* The order in which the mutex is handed out. *)

\* A step in which nobody is overtaken.
Turn ==
    \A c \in Consumers : pc[c] = "lock" =>
        /\ pc'[c] = "lock" => Ahead(c)' \subseteq Ahead(c)
        /\ \A d \in Consumers : Holds(d)' /\ ~Holds(d) => d = c \/ d \in Ahead(c)

\* Nobody gets ahead of another when one is taken out.
LEMMA TakeOutOrder ==
    ASSUME NEW n, NEW k, DOMAIN waiters = 1..n, DOMAIN waiters' = 1..(n - 1),
           n \in Nat, k \in 1..n,
           \A j \in 1..(n - 1) : waiters'[j] = IF j < k THEN waiters[j] ELSE waiters[j + 1]
    PROVE  \A c \in Consumers : Ahead(c)' \subseteq Ahead(c)
<1> SUFFICES ASSUME NEW c \in Consumers, NEW d \in Ahead(c)'
             PROVE  d \in Ahead(c)
  OBVIOUS
<1> DEFINE At(j) == IF j < k THEN j ELSE j + 1
<1>1. d \in Consumers
  BY DEF Ahead
<1>2. PICK i, j \in 1..(n - 1) : i < j /\ waiters'[i] = d /\ waiters'[j] = c
  BY DEF Ahead
<1>3. At(i) \in 1..n /\ At(j) \in 1..n /\ At(i) < At(j)
  BY <1>2
<1>4. waiters[At(i)] = d /\ waiters[At(j)] = c
  BY <1>2
<1> HIDE DEF At
<1>5. QED
  BY <1>1, <1>3, <1>4 DEF Ahead

\* Nobody who waits is moved, and nobody gets the mutex.
LEMMA TurnUntouched ==
    ASSUME \A c \in Consumers : Holds(c)' => Holds(c), waiters' = waiters
    PROVE  Turn
BY DEF Turn, Ahead

LEMMA UnlockTurn ==
    ASSUME MutexType, MutexServesAll, NEW c \in Consumers, Holds(c), Unlock(c)
    PROVE  Turn
<1>1. pc[c] # "lock" /\ c \in Callers /\ \A d \in Consumers : Holds(d) => d = c
  BY DEF Holds, MutexServesAll, Callers
<1>2. CASE waiters = << >>
  <2>1. pc' = [pc EXCEPT ![c] = "idle"] /\ waiters' = waiters
    BY <1>2 DEF Unlock
  <2>2. \A d \in Consumers : Holds(d)' => Holds(d)
    BY <1>1, <2>1 DEF Holds, MutexType, Callers
  <2>3. QED
    BY <2>1, <2>2, TurnUntouched
<1>3. CASE waiters # << >>
  <2> DEFINE h == Head(waiters)
             n == Len(waiters)
  <2>1. pc' = [pc EXCEPT ![c] = "idle", ![h] = "receive"] /\ waiters' = Tail(waiters)
    BY <1>3 DEF Unlock
  <2>2. /\ n \in Nat /\ 1 \in 1..n /\ DOMAIN waiters = 1..n
        /\ h = waiters[1] /\ h \in Consumers
        /\ DOMAIN waiters' = 1..(n - 1)
        /\ \A j \in 1..(n - 1) : waiters'[j] = waiters[j + 1]
    BY <1>3, <2>1 DEF MutexType
  <2> HIDE DEF h, n
  <2>3. \A d \in Consumers : Holds(d)' => d = h
    BY <1>1, <2>1, <2>2 DEF Holds, MutexType, Callers
  <2>4. ASSUME NEW d \in Consumers, pc[d] = "lock", d # h
        PROVE  h \in Ahead(d)
    <3>1. PICK j \in 1..n : waiters[j] = d
      BY <2>2, <2>4 DEF MutexServesAll
    <3>2. 1 < j
      BY <2>2, <2>4, <3>1
    <3>3. QED
      BY <2>2, <3>1, <3>2 DEF Ahead
  <2>5. \A d \in Consumers : Ahead(d)' \subseteq Ahead(d)
    <3>1. \A j \in 1..(n - 1) :
             waiters'[j] = IF j < 1 THEN waiters[j] ELSE waiters[j + 1]
      BY <2>2
    <3>2. QED
      BY <2>2, <3>1, TakeOutOrder
  <2>6. QED
    BY <2>3, <2>4, <2>5 DEF Turn
<1>4. QED
  BY <1>2, <1>3

\* A new call takes a mutex for which nobody waits, or joins the end of the queue.
LEMMA DequeueTurn ==
    ASSUME MutexType, MutexServesAll, NEW c \in Consumers, Dequeue(c)
    PROVE  Turn
<1>1. pc[c] = "idle" /\ c \in Callers
  BY DEF Dequeue, Callers
<1>2. CASE \E d \in Consumers : Holds(d)
  <2> DEFINE n == Len(waiters)
  <2>1. pc' = [pc EXCEPT ![c] = "lock"] /\ waiters' = Append(waiters, c)
    BY <1>2 DEF Dequeue
  <2>2. /\ n \in Nat /\ DOMAIN waiters = 1..n /\ DOMAIN waiters' = 1..(n + 1)
        /\ \A i \in 1..n : waiters'[i] = waiters[i]
        /\ waiters'[n + 1] = c
    BY <2>1 DEF MutexType
  <2> HIDE DEF n
  <2>3. \A d \in Consumers : Holds(d)' => Holds(d)
    BY <1>1, <2>1 DEF Holds, MutexType, Callers
  <2>4. ASSUME NEW d \in Consumers, pc[d] = "lock", NEW e \in Ahead(d)'
        PROVE  e \in Ahead(d)
    <3>1. e \in Consumers
      BY DEF Ahead
    <3>2. PICK i, j \in 1..(n + 1) : i < j /\ waiters'[i] = e /\ waiters'[j] = d
      BY <2>2 DEF Ahead
    <3>3. j # n + 1
      BY <1>1, <2>2, <2>4, <3>2
    <3>4. i \in 1..n /\ j \in 1..n
      BY <2>2, <3>2, <3>3
    <3>5. QED
      BY <2>2, <3>1, <3>2, <3>4 DEF Ahead
  <2>5. QED
    BY <2>3, <2>4 DEF Turn
<1>3. CASE ~\E d \in Consumers : Holds(d)
  <2>1. waiters = << >>
    BY <1>3 DEF MutexServesAll
  <2>2. \A d \in Consumers : pc[d] # "lock"
    BY <2>1 DEF MutexServesAll
  <2>3. QED
    BY <2>2 DEF Turn
<1>4. QED
  BY <1>2, <1>3

LEMMA DropTurn ==
    ASSUME MutexType, MutexServesAll, NEW c \in Consumers, Drop(c)
    PROVE  Turn
<1>1. CASE pc[c] = "receive"
  BY <1>1, UnlockTurn DEF Drop, Holds
<1>2. CASE pc[c] = "lock"
  <2>1. pc' = [pc EXCEPT ![c] = "idle"]
    BY <1>2 DEF Drop
  <2>2. \A d \in Consumers : Holds(d)' => Holds(d)
    BY <2>1 DEF Holds, MutexType, Callers
  <2>3. PICK k \in DOMAIN waiters : waiters' = RemoveAt(waiters, k)
    BY <1>2 DEF Drop
  <2>4. Len(waiters) \in Nat /\ DOMAIN waiters = 1..Len(waiters)
    BY WaitersDomain
  <2>5. \A d \in Consumers : Ahead(d)' \subseteq Ahead(d)
    BY <2>3, <2>4, WaiterLeaves, TakeOutOrder
  <2>6. QED
    BY <2>2, <2>5 DEF Turn
<1>3. QED
  BY <1>1, <1>2 DEF Drop

LEMMA TurnStep ==
    ASSUME TypeOK, MutexServesAll, [Next]_vars
    PROVE  Turn
<1> MutexType
  BY DEF TypeOK, MutexType
<1>1. ASSUME NEW p \in Producers, NEW t \in Tasks, Enqueue(p, t)
      PROVE  Turn
  BY <1>1, TurnUntouched, QueueConfig DEF Enqueue, Holds, MutexType, Callers
<1>2. ASSUME NEW p \in Producers, Count(p)
      PROVE  Turn
  BY <1>2, TurnUntouched, QueueConfig DEF Count, Holds, MutexType, Callers
<1>3. ASSUME NEW c \in Consumers, Receive(c)
      PROVE  Turn
  BY <1>3, TurnUntouched DEF Receive, Holds, MutexType, Callers
<1>4. ASSUME NEW c \in Consumers, Expire(c) \/ Uncount(c)
      PROVE  Turn
  BY <1>4, UnlockTurn DEF Expire, Uncount, Holds
<1>5. CASE UNCHANGED vars
  BY <1>5, TurnUntouched DEF vars, Holds
<1>6. QED
  BY <1>1, <1>2, <1>3, <1>4, <1>5, DequeueTurn, DropTurn DEF Next, DequeueStep

-----------------------------------------------------------------------------
(* Types. *)

LEMMA UnlockType ==
    ASSUME MutexType, MutexServesAll, NEW c \in Consumers, Unlock(c)
    PROVE  MutexType'
<1>1. CASE waiters = << >>
  BY <1>1 DEF Unlock, MutexType, PC
<1>2. CASE waiters # << >>
  <2>1. Head(waiters) \in Consumers /\ Tail(waiters) \in Seq(Consumers)
    BY <1>2 DEF MutexType
  <2>2. QED
    BY <1>2, <2>1 DEF Unlock, MutexType, PC, Callers
<1>3. QED
  BY <1>1, <1>2

LEMMA CounterType ==
    ASSUME pending \in 0..Modulus - 1, FetchAdd \/ FetchSub
    PROVE  pending' \in 0..Modulus - 1
BY QueueConfig DEF FetchAdd, FetchSub

LEMMA TypeStep ==
    ASSUME TypeOK, MutexServesAll, [Next]_vars
    PROVE  TypeOK'
<1> DEFINE Answers == Tasks \cup {"none", "accepted", "full"}
           Kept == channel' \in Seq(Tasks) /\ Len(channel') <= Capacity
<1>0. /\ MutexType /\ answer \in [Callers -> Answers] /\ pending \in 0..Modulus - 1
      /\ channel \in Seq(Tasks) /\ Len(channel) <= Capacity /\ Len(channel) \in Nat
      /\ Capacity \in Nat
  BY QueueConfig DEF TypeOK, MutexType
<1>1. ASSUME NEW p \in Producers, NEW t \in Tasks, Enqueue(p, t)
      PROVE  TypeOK'
  <2>1. MutexType' /\ answer' \in [Callers -> Answers] /\ pending' = pending
    BY <1>0, <1>1 DEF Enqueue, MutexType, PC, Callers
  <2>2. Kept
    <3>1. CASE Len(channel) < Capacity
      BY <1>0, <1>1, <3>1 DEF Enqueue
    <3>2. CASE ~(Len(channel) < Capacity)
      BY <1>0, <1>1, <3>2 DEF Enqueue
    <3>3. QED
      BY <3>1, <3>2
  <2>3. QED
    BY <1>0, <2>1, <2>2 DEF TypeOK, MutexType
<1>2. ASSUME NEW p \in Producers, Count(p)
      PROVE  TypeOK'
  <2>1. MutexType' /\ pending' \in 0..Modulus - 1
    BY <1>0, <1>2, CounterType DEF Count, MutexType, PC
  <2>2. answer' = answer /\ channel' = channel
    BY <1>2 DEF Count
  <2>3. QED
    BY <1>0, <2>1, <2>2 DEF TypeOK, MutexType
<1>3. ASSUME NEW c \in Consumers, Dequeue(c)
      PROVE  TypeOK'
  <2>1. MutexType'
    <3>1. waiters' \in Seq(Consumers)
      <4>1. waiters' = waiters \/ waiters' = Append(waiters, c)
        BY <1>3 DEF Dequeue
      <4>2. QED
        BY <1>0, <4>1 DEF MutexType
    <3>2. pc' \in [Callers -> PC]
      BY <1>0, <1>3 DEF Dequeue, MutexType, PC
    <3>3. QED
      BY <3>1, <3>2 DEF MutexType
  <2>2. answer' = answer /\ channel' = channel /\ pending' = pending
    BY <1>3 DEF Dequeue
  <2>3. QED
    BY <1>0, <2>1, <2>2 DEF TypeOK, MutexType
<1>4. ASSUME NEW c \in Consumers, Receive(c)
      PROVE  TypeOK'
  <2>1. MutexType' /\ pending' = pending
    BY <1>0, <1>4 DEF Receive, MutexType, PC
  <2>2. Head(channel) \in Tasks /\ Kept
    BY <1>0, <1>4 DEF Receive
  <2>3. answer' \in [Callers -> Answers]
    BY <1>0, <1>4, <2>2 DEF Receive
  <2>4. QED
    BY <2>1, <2>2, <2>3, <1>0 DEF TypeOK, MutexType
<1>5. ASSUME NEW c \in Consumers, Expire(c)
      PROVE  TypeOK'
  <2>1. MutexType'
    BY <1>0, <1>5, UnlockType DEF Expire
  <2>2. answer' \in [Callers -> Answers] /\ channel' = channel /\ pending' = pending
    BY <1>0, <1>5 DEF Expire
  <2>3. QED
    BY <1>0, <2>1, <2>2 DEF TypeOK, MutexType
<1>6. ASSUME NEW c \in Consumers, Uncount(c)
      PROVE  TypeOK'
  <2>1. MutexType' /\ pending' \in 0..Modulus - 1
    BY <1>0, <1>6, UnlockType, CounterType DEF Uncount
  <2>2. answer' = answer /\ channel' = channel
    BY <1>6 DEF Uncount
  <2>3. QED
    BY <1>0, <2>1, <2>2 DEF TypeOK, MutexType
<1>7. ASSUME NEW c \in Consumers, Drop(c)
      PROVE  TypeOK'
  <2>1. CASE pc[c] = "receive"
    BY <1>0, <1>7, <2>1, UnlockType DEF Drop, TypeOK, MutexType
  <2>2. CASE pc[c] = "lock"
    <3>1. PICK k \in DOMAIN waiters : waiters' = RemoveAt(waiters, k)
      BY <1>7, <2>2 DEF Drop
    <3>2. waiters' \in Seq(Consumers)
      BY <1>0, <3>1 DEF RemoveAt, MutexType
    <3>3. pc' \in [Callers -> PC]
      BY <1>0, <1>7, <2>2 DEF Drop, MutexType, PC
    <3>4. QED
      BY <1>0, <1>7, <3>2, <3>3 DEF Drop, TypeOK
  <2>3. QED
    BY <1>7, <2>1, <2>2 DEF Drop
<1>8. CASE UNCHANGED vars
  BY <1>8 DEF vars, TypeOK
<1>9. QED
  BY <1>1, <1>2, <1>3, <1>4, <1>5, <1>6, <1>7, <1>8 DEF Next, DequeueStep

-----------------------------------------------------------------------------
(* The counter. *)

\* At most one received task is not taken off yet, and no more accepted ones
\* are uncounted than there are producers: the counter cannot wrap around to a
\* value that a true one has.
LEMMA DriftBounds ==
    ASSUME TypeOK, MutexServesAll
    PROVE  /\ IsFiniteSet(Uncounted) /\ IsFiniteSet(Received)
           /\ Cardinality(Uncounted) \in 0..Cardinality(Producers)
           /\ Cardinality(Received) \in 0..1
           /\ Cardinality(Producers) \in Nat
<1>1. /\ IsFiniteSet(Uncounted) /\ Cardinality(Uncounted) <= Cardinality(Producers)
      /\ Cardinality(Uncounted) \in Nat /\ Cardinality(Producers) \in Nat
  BY QueueConfig, FS_Subset, FS_CardinalityType DEF Uncounted
<1>2. CASE Received = {}
  BY <1>1, <1>2, FS_EmptySet
<1>3. CASE Received # {}
  <2>1. PICK c \in Consumers : Received = {c}
    BY <1>3 DEF Received, MutexServesAll, Holds
  <2>2. IsFiniteSet({c}) /\ Cardinality({c}) = 1
    BY FS_Singleton
  <2>3. QED
    BY <1>1, <2>1, <2>2
<1>4. QED
  BY <1>2, <1>3

\* Steps that leave the counter alone, and the sum that it is to be.
LEMMA CounterUntouched ==
    ASSUME PendingIsLength, pending' = pending,
           Len(channel)' + Drift' = Len(channel) + Drift
    PROVE  PendingIsLength'
BY DEF PendingIsLength

\* A caller that is not in between neither before nor after.
LEMMA DriftUntouched ==
    ASSUME \A p \in Producers : (pc'[p] = "count") <=> (pc[p] = "count"),
           \A c \in Consumers : (pc'[c] = "uncount") <=> (pc[c] = "uncount")
    PROVE  Drift' = Drift
<1>1. Uncounted' = Uncounted /\ Received' = Received
  BY DEF Uncounted, Received
<1>2. QED
  BY <1>1 DEF Drift

LEMMA EnqueuePending ==
    ASSUME TypeOK, MutexServesAll, PendingIsLength,
           NEW p \in Producers, NEW t \in Tasks, Enqueue(p, t)
    PROVE  PendingIsLength'
<1>1. CASE Len(channel) < Capacity
  <2>1. /\ channel' = Append(channel, t) /\ pending' = pending
        /\ pc[p] = "idle" /\ pc' = [pc EXCEPT ![p] = "count"]
    BY <1>1 DEF Enqueue
  <2>2. Uncounted' = Uncounted \cup {p} /\ p \notin Uncounted /\ Received' = Received
    BY <2>1, QueueConfig DEF TypeOK, Uncounted, Received, Callers
  <2>3. Cardinality(Uncounted') = Cardinality(Uncounted) + 1
    BY <2>2, DriftBounds, FS_AddElement
  <2>4. Len(channel') = Len(channel) + 1 /\ Len(channel) \in Nat
    BY <2>1 DEF TypeOK
  <2>5. Len(channel)' + Drift' = Len(channel) + Drift
    BY <2>2, <2>3, <2>4, DriftBounds DEF Drift
  <2>6. QED
    BY <2>1, <2>5, CounterUntouched
<1>2. CASE ~(Len(channel) < Capacity)
  BY <1>2, DriftUntouched, CounterUntouched DEF Enqueue
<1>3. QED
  BY <1>1, <1>2

LEMMA CountPending ==
    ASSUME TypeOK, MutexServesAll, PendingIsLength, NEW p \in Producers, Count(p)
    PROVE  PendingIsLength'
<1> DEFINE u == Cardinality(Uncounted)
           r == Cardinality(Received)
<1>1. /\ channel' = channel /\ FetchAdd
      /\ pc[p] = "count" /\ pc' = [pc EXCEPT ![p] = "idle"]
  BY DEF Count
<1>2. Uncounted' = Uncounted \ {p} /\ p \in Uncounted /\ Received' = Received
  BY <1>1, QueueConfig DEF TypeOK, Uncounted, Received, Callers
<1>3. Cardinality(Uncounted') = u - 1
  BY <1>2, DriftBounds, FS_RemoveElement
<1>4. Cardinality(Received') = r
  BY <1>2
<1>5. /\ u \in 0..Cardinality(Producers) /\ r \in 0..1 /\ Cardinality(Producers) \in Nat
      /\ Len(channel) \in Nat /\ Len(channel) <= Capacity
      /\ pending \in 0..Modulus - 1
      /\ Modulus \in Nat /\ Capacity \in Nat /\ Capacity + Cardinality(Producers) + 1 < Modulus
  BY DriftBounds, QueueConfig DEF TypeOK
<1>6. u >= 1
  <2>1. Cardinality(Uncounted') \in Nat
    BY <1>2, DriftBounds, FS_RemoveElement, FS_CardinalityType
  <2>2. QED
    BY <1>3, <1>5, <2>1
<1>7. Drift = r - u /\ Drift' = r - (u - 1)
  BY <1>3, <1>4 DEF Drift
<1> DEFINE n == Len(channel) + Drift
<1>8. /\ n \in Int /\ -Modulus < n /\ n < Modulus - 1
      /\ Len(channel)' + Drift' = n + 1
  <2> HIDE DEF u, r
  <2>1. QED
    BY <1>1, <1>5, <1>6, <1>7
<1>9. pending = IF n < 0 THEN Modulus + n ELSE n
  BY DEF PendingIsLength
<1>10. pending' = IF n + 1 < 0 THEN Modulus + (n + 1) ELSE n + 1
  <2> HIDE DEF n, u, r
  <2>1. CASE n = -1
    BY <1>1, <1>5, <1>8, <1>9, <2>1 DEF FetchAdd
  <2>2. CASE n # -1
    BY <1>1, <1>5, <1>8, <1>9, <2>2 DEF FetchAdd
  <2>3. QED
    BY <2>1, <2>2
<1> HIDE DEF n
<1>11. QED
  BY <1>8, <1>10 DEF PendingIsLength

LEMMA ReceivePending ==
    ASSUME TypeOK, MutexServesAll, PendingIsLength, NEW c \in Consumers, Receive(c)
    PROVE  PendingIsLength'
<1>1. /\ channel # << >> /\ channel' = Tail(channel) /\ pending' = pending
      /\ pc[c] = "receive" /\ pc' = [pc EXCEPT ![c] = "uncount"]
  BY DEF Receive
<1>2. Received' = Received \cup {c} /\ c \notin Received /\ Uncounted' = Uncounted
  BY <1>1, QueueConfig DEF TypeOK, Uncounted, Received, Callers
<1>3. Cardinality(Received') = Cardinality(Received) + 1
  BY <1>2, DriftBounds, FS_AddElement
<1>4. Len(channel') = Len(channel) - 1 /\ Len(channel) \in Nat
  BY <1>1 DEF TypeOK
<1>5. Len(channel)' + Drift' = Len(channel) + Drift
  BY <1>2, <1>3, <1>4, DriftBounds DEF Drift
<1>6. QED
  BY <1>1, <1>5, CounterUntouched

\* Whoever is handed the mutex has not received yet.
LEMMA UnlockDrift ==
    ASSUME TypeOK, MutexServesAll, NEW c \in Consumers, Unlock(c)
    PROVE  Uncounted' = Uncounted /\ Received' = Received \ {c}
<1>1. c \in Callers /\ c \notin Producers /\ pc \in [Callers -> PC]
  BY QueueConfig DEF Callers, TypeOK
<1>2. CASE waiters = << >>
  BY <1>1, <1>2 DEF Unlock, Uncounted, Received, Callers
<1>3. CASE waiters # << >>
  <2>1. /\ Head(waiters) \in Consumers /\ Head(waiters) \notin Producers
        /\ pc[Head(waiters)] = "lock"
    <3>1. 1 \in DOMAIN waiters /\ Head(waiters) = waiters[1] /\ waiters[1] \in Consumers
      BY <1>3 DEF TypeOK
    <3>2. QED
      BY <3>1, QueueConfig DEF MutexServesAll
  <2>2. pc' = [pc EXCEPT ![c] = "idle", ![Head(waiters)] = "receive"]
    BY <1>3 DEF Unlock
  <2>3. QED
    BY <1>1, <2>1, <2>2 DEF Uncounted, Received, Callers
<1>4. QED
  BY <1>2, <1>3

LEMMA UncountPending ==
    ASSUME TypeOK, MutexServesAll, PendingIsLength, NEW c \in Consumers, Uncount(c)
    PROVE  PendingIsLength'
<1> DEFINE u == Cardinality(Uncounted)
           r == Cardinality(Received)
<1>1. channel' = channel /\ FetchSub /\ Unlock(c) /\ c \in Received
  BY DEF Uncount, Received
<1>2. Cardinality(Received') = r - 1 /\ Cardinality(Uncounted') = u
  BY <1>1, UnlockDrift, DriftBounds, FS_RemoveElement
<1>3. /\ u \in 0..Cardinality(Producers) /\ r \in 0..1 /\ Cardinality(Producers) \in Nat
      /\ Len(channel) \in Nat /\ Len(channel) <= Capacity
      /\ pending \in 0..Modulus - 1
      /\ Modulus \in Nat /\ Capacity \in Nat /\ Capacity + Cardinality(Producers) + 1 < Modulus
  BY DriftBounds, QueueConfig DEF TypeOK
<1>4. Drift = r - u /\ Drift' = (r - 1) - u
  BY <1>2 DEF Drift
<1> DEFINE n == Len(channel) + Drift
<1>5. r >= 1
  <2>1. Cardinality(Received') \in Nat
    BY <1>1, UnlockDrift, DriftBounds, FS_RemoveElement, FS_CardinalityType
  <2>2. QED
    BY <1>2, <1>3, <2>1
<1>6. /\ n \in Int /\ -Modulus + 1 < n /\ n < Modulus
      /\ Len(channel)' + Drift' = n - 1
  <2> HIDE DEF u, r
  <2>1. QED
    BY <1>1, <1>3, <1>4, <1>5
<1>7. pending = IF n < 0 THEN Modulus + n ELSE n
  BY DEF PendingIsLength
<1>8. pending' = IF n - 1 < 0 THEN Modulus + (n - 1) ELSE n - 1
  <2> HIDE DEF n, u, r
  <2>1. CASE n = 0
    BY <1>1, <1>3, <1>6, <1>7, <2>1 DEF FetchSub
  <2>2. CASE n # 0
    BY <1>1, <1>3, <1>6, <1>7, <2>2 DEF FetchSub
  <2>3. QED
    BY <2>1, <2>2
<1> HIDE DEF n
<1>9. QED
  BY <1>6, <1>8 DEF PendingIsLength

\* Giving the mutex up without having received.
LEMMA ExpirePending ==
    ASSUME TypeOK, MutexServesAll, PendingIsLength, NEW c \in Consumers, pc[c] = "receive",
           Unlock(c), channel' = channel, pending' = pending
    PROVE  PendingIsLength'
<1>1. Uncounted' = Uncounted /\ Received' = Received
  BY UnlockDrift DEF Received
<1>2. QED
  BY <1>1, CounterUntouched DEF Drift

LEMMA PendingStep ==
    ASSUME TypeOK, MutexServesAll, PendingIsLength, [Next]_vars
    PROVE  PendingIsLength'
<1>1. ASSUME NEW c \in Consumers, Dequeue(c)
      PROVE  PendingIsLength'
  <2>1. c \notin Producers /\ pc \in [Callers -> PC]
    BY QueueConfig DEF TypeOK
  <2>2. QED
    BY <1>1, <2>1, DriftUntouched, CounterUntouched DEF Dequeue, Callers
<1>2. ASSUME NEW c \in Consumers, Expire(c)
      PROVE  PendingIsLength'
  BY <1>2, ExpirePending DEF Expire
<1>3. ASSUME NEW c \in Consumers, Drop(c)
      PROVE  PendingIsLength'
  <2>1. CASE pc[c] = "receive"
    BY <1>3, <2>1, ExpirePending DEF Drop
  <2>2. CASE pc[c] = "lock"
    <3>1. c \notin Producers /\ pc \in [Callers -> PC] /\ pc' = [pc EXCEPT ![c] = "idle"]
      BY <1>3, <2>2, QueueConfig DEF TypeOK, Drop
    <3>2. QED
      BY <1>3, <2>2, <3>1, DriftUntouched, CounterUntouched DEF Drop, Callers
  <2>3. QED
    BY <1>3, <2>1, <2>2 DEF Drop
<1>4. CASE UNCHANGED vars
  BY <1>4, DriftUntouched, CounterUntouched DEF vars
<1>5. QED
  BY <1>1, <1>2, <1>3, <1>4, EnqueuePending, CountPending, ReceivePending, UncountPending
     DEF Next, DequeueStep

-----------------------------------------------------------------------------
(* The theorems. *)

\* The inductive invariant: the counter can be told from the callers in between
\* only as long as the mutex lets one consumer receive at a time.
IInv == TypeOK /\ MutexServesAll /\ PendingIsLength

LEMMA InitIInv == Init => IInv
<1> SUFFICES ASSUME Init PROVE IInv
  OBVIOUS
<1>1. TypeOK
  <2>1. /\ channel \in Seq(Tasks) /\ waiters \in Seq(Consumers)
        /\ Len(channel) <= Capacity
    BY QueueConfig DEF Init
  <2>2. pending \in 0..Modulus - 1
    BY QueueConfig, FS_CardinalityType DEF Init
  <2>3. /\ pc \in [Callers -> PC]
        /\ answer \in [Callers -> Tasks \cup {"none", "accepted", "full"}]
    BY DEF Init, PC
  <2>4. QED
    BY <2>1, <2>2, <2>3 DEF TypeOK
<1>2. MutexServesAll
  BY DEF Init, MutexServesAll, Holds, Callers
<1>3. PendingIsLength
  <2>1. Uncounted = {} /\ Received = {}
    BY DEF Init, Uncounted, Received, Callers
  <2>2. Drift = 0
    BY <2>1, FS_EmptySet DEF Drift
  <2>3. QED
    BY <2>2 DEF Init, PendingIsLength
<1>4. QED
  BY <1>1, <1>2, <1>3 DEF IInv

\* Every reachable state satisfies the inductive invariant.
THEOREM Invariance == Spec => []IInv
<1>1. IInv /\ [Next]_vars => IInv'
  BY TypeStep, MutexStep, PendingStep DEF IInv
<1>2. QED
  BY InitIInv, <1>1, PTL DEF Spec

\* The state keeps its type; in particular the channel keeps its capacity.
THEOREM TypeCorrect == Spec => []TypeOK
BY Invariance, PTL DEF IInv

\* The mutex has one holder at most and loses nobody who waits for it.
THEOREM MutexIsFair == Spec => []MutexServesAll
BY Invariance, PTL DEF IInv

\* A dequeue waits for the holder of the mutex and those that called before it, and for
\* nobody who came later.
THEOREM NobodyIsOvertaken == Spec => WaitsItsTurn
<1>1. IInv /\ [Next]_vars => Turn
  BY TurnStep DEF IInv
<1>2. QED
  BY <1>1, Invariance, PTL DEF Spec, WaitsItsTurn, Turn

\* pending_count() is the length of the channel but for the calls in between.
THEOREM CounterFollowsChannel == Spec => []PendingIsLength
BY Invariance, PTL DEF IInv

\* The queue implements Fifo.
THEOREM QueueIsFifo == Spec => ImplementsFifo
<1>1. Init => Queue!FifoInit
  BY DEF Init, Queue!FifoInit, Callers
<1>2. IInv /\ [Next]_vars => [Queue!FifoNext]_<<channel, answer>>
  <2> SUFFICES ASSUME IInv, [Next]_vars
               PROVE  [Queue!FifoNext]_<<channel, answer>>
    OBVIOUS
  <2>1. ASSUME NEW p \in Producers, NEW t \in Tasks, Enqueue(p, t)
        PROVE  Queue!Put(p, t) \/ Queue!Refuse(p)
    <3>1. Len(channel) \in Nat /\ Len(channel) <= Capacity /\ Capacity \in Nat
      BY QueueConfig DEF IInv, TypeOK
    <3>2. QED
      BY <2>1, <3>1 DEF Enqueue, Queue!Put, Queue!Refuse
  <2>2. ASSUME NEW c \in Consumers, Receive(c)
        PROVE  Queue!Take(c)
    BY <2>2 DEF Receive, Queue!Take
  <2>3. ASSUME NEW c \in Consumers, Expire(c)
        PROVE  Queue!TakeNone(c)
    BY <2>3 DEF Expire, Queue!TakeNone
  <2>4. ASSUME NEW p \in Producers, Count(p)
        PROVE  UNCHANGED <<channel, answer>>
    BY <2>4 DEF Count
  <2>5. ASSUME NEW c \in Consumers, Dequeue(c) \/ Uncount(c) \/ Drop(c)
        PROVE  UNCHANGED <<channel, answer>>
    BY <2>5 DEF Dequeue, Uncount, Drop
  <2>6. CASE UNCHANGED vars
    BY <2>6 DEF vars
  <2>7. QED
    BY <2>1, <2>2, <2>3, <2>4, <2>5, <2>6 DEF Next, DequeueStep, Queue!FifoNext
<1>3. QED
  BY <1>1, <1>2, Invariance, PTL DEF Spec, ImplementsFifo, Queue!FifoSpec
=============================================================================
