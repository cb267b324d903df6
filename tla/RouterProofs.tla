----------------------------- MODULE RouterProofs -----------------------------
(***************************************************************************)
(* Proofs about Router for any agents, capabilities and callers: what       *)
(* route() answers is the best agent of the registry as it is at that       *)
(* moment, and a health report covers every agent that stayed.              *)
(***************************************************************************)
EXTENDS Router, SequenceTheorems, FiniteSetTheorems, TLAPS

-----------------------------------------------------------------------------
(* The inductive invariant: the lock's queue, and what each call has found  *)
(* out about a registry that others may change in the meantime.             *)

\* A call that waits for the lock is one that has not begun its scan, a
\* registration, or a health check that lists or looks up an agent.
Waits(k) ==
    /\ k # NoCall
    /\ k.op \in {"route", "all_matching"} => k.seen = << >> /\ k.best = NoAgent /\ k.found = << >>
    /\ k.op = "health_check" => k.at \in {"list", "get"}

\* The candidate of a scan is the best of the agents it has seen, and they are
\* all registered still.
BestSoFar(k) ==
    /\ ToSet(k.seen) \subseteq Registered(registry)
    /\ k.best = NoAgent => \A a \in ToSet(k.seen) : ~Matches(a, k.cap)
    /\ k.best # NoAgent =>
          /\ k.best \in ToSet(k.seen) /\ Matches(k.best, k.cap)
          /\ \A a \in ToSet(k.seen) :
                Matches(a, k.cap) => registry[a].priority <= registry[k.best].priority

\* What a scan has found are the agents it has seen that match, each once.
FoundSoFar(k) ==
    /\ ToSet(k.found) = {a \in ToSet(k.seen) : Matches(a, k.cap)}
    /\ IsInjective(k.found)

\* An agent that has stayed is registered, and is listed, being asked, or has
\* answered.
ReportSoFar(k) ==
    \A a \in k.stayed :
        /\ a \in Registered(registry)
        /\ \/ a \in k.todo
           \/ k.at = "check" /\ k.asked = a
           \/ k.report[a] \in {"ok", "sick"}

CallInv(c) ==
    /\ Contains(queue, c) => Waits(call[c])
    /\ In(c, {"route", "all_matching"}) => BestSoFar(call[c]) /\ FoundSoFar(call[c])
    /\ In(c, {"health_check"}) => ReportSoFar(call[c])

QueueInv == queue \in Seq(Callers) /\ IsInjective(queue)

CallsType == registry \in RegistryType /\ call \in [Callers -> Call \cup {NoCall}]

IInv == CallsType /\ QueueInv /\ \A c \in Callers : CallInv(c)

-----------------------------------------------------------------------------
(* The queue. *)

\* Whoever gets the lock leaves the queue, and nobody else does.
LEMMA LeaveQueue ==
    ASSUME QueueInv, NEW c, IsNext(c), Leave
    PROVE  /\ QueueInv' /\ Contains(queue, c) /\ c \in Callers
           /\ \A d : Contains(queue, d)' <=> Contains(queue, d) /\ d # c
<1>1. /\ queue \in Seq(Callers) /\ queue # << >> /\ queue' = Tail(queue) /\ c = queue[1]
      /\ Len(queue) \in Nat /\ Len(queue) >= 1
  BY DEF QueueInv, IsNext, Leave
<1>2. /\ Len(queue') = Len(queue) - 1 /\ queue' \in Seq(Callers)
      /\ \A i \in 1..Len(queue') : queue'[i] = queue[i + 1]
  BY <1>1
<1>3. \A i, j \in 1..Len(queue) : queue[i] = queue[j] => i = j
  BY <1>1 DEF QueueInv, IsInjective
<1>4. IsInjective(queue')
  BY <1>1, <1>2, <1>3 DEF IsInjective
<1>5. ASSUME NEW d
      PROVE  Contains(queue, d)' <=> Contains(queue, d) /\ d # c
  <2>1. ASSUME NEW i \in 1..Len(queue'), queue'[i] = d
        PROVE  Contains(queue, d) /\ d # c
    <3>1. i + 1 \in 1..Len(queue) /\ queue[i + 1] = d /\ i + 1 # 1
      BY <1>1, <1>2, <2>1
    <3>2. QED
      BY <1>1, <1>3, <3>1 DEF Contains
  <2>2. ASSUME NEW i \in 1..Len(queue), queue[i] = d, d # c
        PROVE  Contains(queue, d)'
    <3>1. i - 1 \in 1..Len(queue') /\ queue'[i - 1] = queue[(i - 1) + 1] /\ (i - 1) + 1 = i
      BY <1>1, <1>2, <2>2
    <3>2. QED
      BY <2>2, <3>1 DEF Contains
  <2>3. QED
    BY <2>1, <2>2 DEF Contains
<1>6. Contains(queue, c) /\ c \in Callers
  BY <1>1 DEF Contains
<1>7. QED
  BY <1>2, <1>4, <1>5, <1>6 DEF QueueInv

\* A caller that asks for the lock joins those who wait.
LEMMA JoinQueue ==
    ASSUME QueueInv, NEW c \in Callers, ~Contains(queue, c), queue' = Append(queue, c)
    PROVE  QueueInv' /\ \A d : Contains(queue, d)' <=> Contains(queue, d) \/ d = c
<1>1. /\ queue \in Seq(Callers) /\ Len(queue) \in Nat /\ queue' \in Seq(Callers)
      /\ Len(queue') = Len(queue) + 1 /\ queue'[Len(queue) + 1] = c
      /\ \A i \in 1..Len(queue) : queue'[i] = queue[i]
  BY DEF QueueInv
<1>2. \A i, j \in 1..Len(queue) : queue[i] = queue[j] => i = j
  BY <1>1 DEF QueueInv, IsInjective
<1>3. \A i \in 1..Len(queue) : queue[i] # c
  BY DEF Contains
<1>4. \A i, j \in 1..Len(queue') : queue'[i] = queue'[j] => i = j
  BY <1>1, <1>2, <1>3
<1>5. QED
  BY <1>1, <1>4 DEF QueueInv, IsInjective, Contains

LEMMA AppendToSet ==
    ASSUME NEW S, NEW s \in Seq(S), NEW a \in S
    PROVE  ToSet(Append(s, a)) = ToSet(s) \cup {a}
<1>1. /\ DOMAIN s = 1..Len(s) /\ Len(s) \in Nat
      /\ DOMAIN Append(s, a) = 1..(Len(s) + 1) /\ Append(s, a)[Len(s) + 1] = a
      /\ \A i \in 1..Len(s) : Append(s, a)[i] = s[i]
  OBVIOUS
<1>2. 1..(Len(s) + 1) = 1..Len(s) \cup {Len(s) + 1}
  BY <1>1
<1> HIDE DEF ToSet
<1>3. QED
  BY <1>1, <1>2, Zenon DEF ToSet

LEMMA AppendKeepsInjective ==
    ASSUME NEW S, NEW s \in Seq(S), NEW e \in S, IsInjective(s), e \notin ToSet(s)
    PROVE  IsInjective(Append(s, e))
<1>1. /\ DOMAIN s = 1..Len(s) /\ Len(s) \in Nat
      /\ DOMAIN Append(s, e) = 1..(Len(s) + 1) /\ Append(s, e)[Len(s) + 1] = e
      /\ \A i \in 1..Len(s) : Append(s, e)[i] = s[i]
  OBVIOUS
<1>2. /\ \A i, j \in 1..Len(s) : s[i] = s[j] => i = j
      /\ \A i \in 1..Len(s) : s[i] # e
  BY <1>1 DEF IsInjective, ToSet
<1>3. \A i \in 1..(Len(s) + 1) : i \in 1..Len(s) \/ i = Len(s) + 1
  BY <1>1
<1>4. \A i, j \in 1..(Len(s) + 1) : Append(s, e)[i] = Append(s, e)[j] => i = j
  BY <1>1, <1>2, <1>3
<1>5. QED
  BY <1>1, <1>4, Zenon DEF IsInjective

-----------------------------------------------------------------------------
(* The sort. *)

\* Of entries with the priorities p, i goes before j.
Before(p, i, j) == p[i] > p[j] \/ (p[i] = p[j] /\ i < j)

Place(p, j) == Cardinality({i \in DOMAIN p : Before(p, i, j)}) + 1

\* Each entry has a place of its own, and every place an entry.
LEMMA PlacesAreFilled ==
    ASSUME NEW n \in Nat, NEW p \in [1..n -> Nat]
    PROVE  /\ \A j \in 1..n : Place(p, j) \in 1..n
           /\ \A i, j \in 1..n : Before(p, i, j) => Place(p, i) < Place(p, j)
           /\ \A i, j \in 1..n : Place(p, i) = Place(p, j) => i = j
           /\ \A m \in 1..n : \E j \in 1..n : Place(p, j) = m
<1> DEFINE Ahead(j) == {i \in 1..n : Before(p, i, j)}
<1>1. IsFiniteSet(1..n) /\ Cardinality(1..n) = n
  BY FS_Interval
<1>2. \A j \in 1..n : Place(p, j) = Cardinality(Ahead(j)) + 1
  BY DEF Place
<1>3. ASSUME NEW j \in 1..n
      PROVE  Cardinality(Ahead(j)) \in 0..(n - 1)
  <2>1. Ahead(j) \subseteq (1..n) \ {j}
    BY DEF Before
  <2>2. IsFiniteSet((1..n) \ {j}) /\ Cardinality((1..n) \ {j}) = n - 1
    BY <1>1, FS_RemoveElement
  <2> HIDE DEF Ahead
  <2>3. IsFiniteSet(Ahead(j)) /\ Cardinality(Ahead(j)) <= n - 1
    BY <2>1, <2>2, FS_Subset
  <2>4. QED
    BY <2>3, FS_CardinalityType
<1>4. ASSUME NEW i \in 1..n, NEW j \in 1..n, Before(p, i, j)
      PROVE  Cardinality(Ahead(i)) < Cardinality(Ahead(j))
  <2>1. Ahead(i) \subseteq Ahead(j) \ {i} /\ i \in Ahead(j) /\ Ahead(j) \subseteq 1..n
    BY <1>4 DEF Before
  <2> HIDE DEF Ahead
  <2>2. IsFiniteSet(Ahead(j))
    BY <1>1, <2>1, FS_Subset
  <2>3. /\ IsFiniteSet(Ahead(j) \ {i})
        /\ Cardinality(Ahead(j) \ {i}) = Cardinality(Ahead(j)) - 1
    BY <2>1, <2>2, FS_RemoveElement
  <2>4. Cardinality(Ahead(i)) <= Cardinality(Ahead(j)) - 1
    BY <2>1, <2>3, FS_Subset
  <2>5. QED
    BY <1>3, <2>4
<1>5. \A i, j \in 1..n : i # j => Before(p, i, j) \/ Before(p, j, i)
  BY DEF Before
<1> HIDE DEF Ahead
<1>6. \A j \in 1..n : Place(p, j) \in 1..n
  <2> SUFFICES ASSUME NEW j \in 1..n PROVE Place(p, j) \in 1..n
    OBVIOUS
  <2>1. Place(p, j) = Cardinality(Ahead(j)) + 1 /\ Cardinality(Ahead(j)) \in 0..(n - 1)
    BY <1>2, <1>3
  <2>2. QED
    BY <2>1
<1>7. \A i, j \in 1..n : Before(p, i, j) => Place(p, i) < Place(p, j)
  <2> SUFFICES ASSUME NEW i \in 1..n, NEW j \in 1..n, Before(p, i, j)
               PROVE  Place(p, i) < Place(p, j)
    OBVIOUS
  <2>1. /\ Place(p, i) = Cardinality(Ahead(i)) + 1 /\ Cardinality(Ahead(i)) \in 0..(n - 1)
        /\ Place(p, j) = Cardinality(Ahead(j)) + 1 /\ Cardinality(Ahead(j)) \in 0..(n - 1)
        /\ Cardinality(Ahead(i)) < Cardinality(Ahead(j))
    BY <1>2, <1>3, <1>4
  <2>2. QED
    BY <2>1
<1>8. \A i, j \in 1..n : Place(p, i) = Place(p, j) => i = j
  <2> SUFFICES ASSUME NEW i \in 1..n, NEW j \in 1..n, i # j
               PROVE  Place(p, i) # Place(p, j)
    OBVIOUS
  <2>1. Place(p, i) < Place(p, j) \/ Place(p, j) < Place(p, i)
    BY <1>5, <1>7
  <2>2. Place(p, i) \in Int /\ Place(p, j) \in Int
    BY <1>6
  <2>3. QED
    BY <2>1, <2>2
<1>9. \A m \in 1..n : \E j \in 1..n : Place(p, j) = m
  <2> DEFINE place == [j \in 1..n |-> Place(p, j)]
  <2>1. place \in Injection(1..n, 1..n)
    BY <1>6, <1>8 DEF Injection, IsInjective
  <2>2. place \in Surjection(1..n, 1..n)
    BY <1>1, <2>1, FS_Injection
  <2>3. QED
    BY <2>2 DEF Surjection
<1>10. QED
  BY <1>6, <1>7, <1>8, <1>9

\* A stable sort lists the same agents, each as often, by their priority.
LEMMA SortIsRanked ==
    ASSUME registry \in RegistryType, NEW found \in Seq(Agents),
           ToSet(found) \subseteq Registered(registry), IsInjective(found)
    PROVE  LET list == ByPriority(found)
           IN  /\ ToSet(list) = ToSet(found)
               /\ IsInjective(list)
               /\ \A i, j \in DOMAIN list :
                     i < j => registry[list[i]].priority >= registry[list[j]].priority
<1> DEFINE n == Len(found)
           p == [i \in 1..n |-> registry[found[i]].priority]
           list == ByPriority(found)
<1>1. n \in Nat /\ DOMAIN found = 1..n
  OBVIOUS
<1>2. \A i \in 1..n : found[i] \in Registered(registry)
  BY <1>1 DEF ToSet
<1>3. \A a \in Registered(registry) : registry[a].priority \in Nat
  BY RegistryConfig DEF RegistryType, Registered, AgentInfo
<1>4. p \in [1..n -> Nat] /\ DOMAIN p = 1..n
  BY <1>2, <1>3
<1>5. \A j \in 1..n :
        {i \in DOMAIN found : \/ registry[found[i]].priority > registry[found[j]].priority
                              \/ /\ registry[found[i]].priority = registry[found[j]].priority
                                 /\ i < j}
           = {i \in DOMAIN p : Before(p, i, j)}
  BY <1>1 DEF Before
<1> DEFINE at(j) == Cardinality({i \in DOMAIN found :
                        \/ registry[found[i]].priority > registry[found[j]].priority
                        \/ /\ registry[found[i]].priority = registry[found[j]].priority
                           /\ i < j}) + 1
           order(m) == CHOOSE j \in DOMAIN found : at(j) = m
<1>6. list = [m \in DOMAIN found |-> found[order(m)]]
  BY DEF ByPriority
<1>7. \A j \in 1..n : at(j) = Place(p, j)
  BY <1>5 DEF Place
<1> HIDE DEF n, p, list, at
<1>8. \A j \in 1..n : Place(p, j) \in 1..n
  BY <1>1, <1>4, PlacesAreFilled, Zenon
<1>9. \A i, j \in 1..n : Before(p, i, j) => Place(p, i) < Place(p, j)
  BY <1>1, <1>4, PlacesAreFilled, Zenon
<1>10. \A i, j \in 1..n : Place(p, i) = Place(p, j) => i = j
  BY <1>1, <1>4, PlacesAreFilled, Zenon
<1>11. \A m \in 1..n : \E j \in 1..n : Place(p, j) = m
  BY <1>1, <1>4, PlacesAreFilled, Zenon
<1>12. \A m \in 1..n : order(m) \in 1..n /\ Place(p, order(m)) = m
  <2> SUFFICES ASSUME NEW m \in 1..n PROVE order(m) \in 1..n /\ Place(p, order(m)) = m
    OBVIOUS
  <2>1. \E j \in DOMAIN found : at(j) = m
    <3>1. PICK j \in 1..n : Place(p, j) = m
      BY <1>11, Zenon
    <3>2. j \in DOMAIN found /\ at(j) = m
      BY <1>1, <1>7, <3>1
    <3>3. QED
      BY <3>2
  <2>2. order(m) \in DOMAIN found /\ at(order(m)) = m
    BY <2>1
  <2> HIDE DEF order
  <2>3. QED
    BY <1>1, <1>7, <2>2
<1> HIDE DEF order
<1>13. \A j \in 1..n : order(Place(p, j)) = j
  <2> SUFFICES ASSUME NEW j \in 1..n PROVE order(Place(p, j)) = j
    OBVIOUS
  <2>1. PICK m \in 1..n : m = Place(p, j)
    BY <1>8
  <2>2. order(m) \in 1..n /\ Place(p, order(m)) = Place(p, j)
    BY <1>12, <2>1
  <2>3. order(m) = j
    BY <1>10, <2>2, Zenon
  <2>4. QED
    BY <2>1, <2>3
<1>14. DOMAIN list = 1..n /\ \A m \in 1..n : list[m] = found[order(m)]
  BY <1>1, <1>6
<1>15. ToSet(list) = ToSet(found)
  <2>1. \A m \in 1..n : list[m] \in ToSet(found)
    BY <1>1, <1>12, <1>14 DEF ToSet
  <2>2. \A j \in 1..n : Place(p, j) \in 1..n /\ list[Place(p, j)] = found[j]
    BY <1>13, <1>14, <1>8
  <2>3. QED
    BY <1>1, <1>14, <2>1, <2>2 DEF ToSet
<1>16. IsInjective(list)
  <2> SUFFICES ASSUME NEW i \in 1..n, NEW j \in 1..n, found[order(i)] = found[order(j)]
               PROVE  i = j
    BY <1>14 DEF IsInjective
  <2>1. order(i) = order(j)
    BY <1>1, <1>12 DEF IsInjective
  <2>2. QED
    BY <1>12, <2>1
<1>17. ASSUME NEW i \in 1..n, NEW j \in 1..n, i < j
       PROVE  registry[list[i]].priority >= registry[list[j]].priority
  <2>1. ~Before(p, order(j), order(i))
    <3>1. Before(p, order(j), order(i)) => j < i
      <4>1. order(i) \in 1..n /\ order(j) \in 1..n
            /\ Place(p, order(i)) = i /\ Place(p, order(j)) = j
        BY <1>12, <1>17
      <4>2. Before(p, order(j), order(i)) => Place(p, order(j)) < Place(p, order(i))
        BY <1>9, <4>1, Zenon
      <4>3. QED
        BY <4>1, <4>2
    <3>2. QED
      BY <1>1, <1>17, <3>1
  <2>2. p[order(i)] \in Nat /\ p[order(j)] \in Nat
    BY <1>4, <1>12
  <2>3. p[order(i)] >= p[order(j)]
    BY <2>1, <2>2 DEF Before
  <2>4. p[order(i)] = registry[list[i]].priority /\ p[order(j)] = registry[list[j]].priority
    BY <1>12, <1>14 DEF p
  <2>5. QED
    BY <2>3, <2>4
<1>18. QED
  BY <1>14, <1>15, <1>16, <1>17 DEF list

-----------------------------------------------------------------------------
(* The calls. *)

\* What a call is tells its operation, and the other way round.
LEMMA Operations ==
    ASSUME CallsType, NEW c \in Callers
    PROVE  /\ In(c, {"route", "all_matching"}) => call[c] \in Scan
           /\ In(c, {"health_check"}) => call[c] \in Health
           /\ In(c, {"write"}) => call[c] \in Write
           /\ call[c] # NoCall => call[c] \in Call
BY DEF CallsType, In, Call, Scan, Health, Write

\* A step of one caller that leaves the registry alone is nothing to the others.
LEMMA OthersKeep ==
    ASSUME IInv, NEW c \in Callers, registry' = registry,
           \A d \in Callers \ {c} :
              call'[d] = call[d] /\ (Contains(queue, d)' => Contains(queue, d))
    PROVE  \A d \in Callers \ {c} : CallInv(d)'
BY DEF IInv, CallInv, Waits, BestSoFar, FoundSoFar, ReportSoFar, In, Matches

\* Hence what such a step has to show.
LEMMA StepKeeps ==
    ASSUME IInv, NEW c \in Callers, registry' = registry, NEW k \in Call \cup {NoCall},
           call' = [call EXCEPT ![c] = k], QueueInv',
           \A d \in Callers \ {c} : Contains(queue, d)' => Contains(queue, d),
           CallInv(c)'
    PROVE  IInv'
<1>1. \A d \in Callers \ {c} : call'[d] = call[d]
  BY DEF IInv, CallsType
<1>2. \A d \in Callers \ {c} : CallInv(d)'
  BY <1>1, OthersKeep
<1>3. CallsType'
  BY DEF IInv, CallsType
<1>4. QED
  BY <1>2, <1>3 DEF IInv

-----------------------------------------------------------------------------
(* The steps. *)

\* A call that is made waits for the lock.
LEMMA CallKeeps ==
    ASSUME IInv, NEW c \in Callers, call[c] = NoCall, registry' = registry,
           NEW k \in Call, Waits(k), call' = [call EXCEPT ![c] = k],
           queue' = Append(queue, c),
           k.op \in {"route", "all_matching"} => BestSoFar(k) /\ FoundSoFar(k),
           k.op = "health_check" => ReportSoFar(k)
    PROVE  IInv'
<1>1. QueueInv /\ ~Contains(queue, c)
  BY DEF IInv, CallInv, Waits
<1>2. QueueInv' /\ \A d : Contains(queue, d)' <=> Contains(queue, d) \/ d = c
  BY <1>1, JoinQueue
<1>3. call'[c] = k
  BY DEF IInv, CallsType
<1>4. CallInv(c)'
  BY <1>3 DEF CallInv, In, BestSoFar, FoundSoFar, ReportSoFar, Matches, Waits
<1>5. QED
  BY <1>2, <1>4, StepKeeps

LEMMA CallScanKeeps ==
    ASSUME IInv, NEW c \in Callers, NEW op \in {"route", "all_matching"},
           NEW cap \in Capabilities, CallScan(c, op, cap)
    PROVE  IInv'
<1> DEFINE k == [op |-> op, cap |-> cap, seen |-> << >>, best |-> NoAgent, found |-> << >>]
<1>1. k \in Scan
  BY DEF Scan
<1>2. Waits(k) /\ BestSoFar(k) /\ FoundSoFar(k) /\ k.op # "health_check"
  BY <1>1, RouterConfig DEF Waits, BestSoFar, FoundSoFar, Call, ToSet, IsInjective
<1>3. k \in Call
  BY <1>1 DEF Call
<1>4. call[c] = NoCall /\ registry' = registry /\ queue' = Append(queue, c)
      /\ call' = [call EXCEPT ![c] = k]
  BY DEF CallScan
<1> HIDE DEF k
<1>5. QED
  BY <1>2, <1>3, <1>4, CallKeeps

LEMMA CallHealthKeeps ==
    ASSUME IInv, NEW c \in Callers, CallHealth(c)
    PROVE  IInv'
<1> DEFINE k == [op |-> "health_check", at |-> "list", todo |-> {}, asked |-> NoAgent,
                 report |-> [a \in Agents |-> "none"], stayed |-> {}]
<1>1. k \in Health
  BY DEF Health
<1>2. Waits(k) /\ ReportSoFar(k) /\ k.op \notin {"route", "all_matching"}
  BY <1>1, RouterConfig DEF Waits, ReportSoFar, Call
<1>3. k \in Call
  BY <1>1 DEF Call
<1>4. call[c] = NoCall /\ registry' = registry /\ queue' = Append(queue, c)
      /\ call' = [call EXCEPT ![c] = k]
  BY DEF CallHealth
<1> HIDE DEF k
<1>5. QED
  BY <1>2, <1>3, <1>4, CallKeeps

LEMMA CallWriteKeeps ==
    ASSUME IInv, NEW c \in Callers, NEW a \in Agents, NEW info \in Infos \cup {NoAgent},
           CallWrite(c, a, info)
    PROVE  IInv'
<1> DEFINE k == [op |-> "write", agent |-> a, info |-> info]
<1>1. k \in Write
  BY RouterConfig DEF Write
<1>2. Waits(k) /\ k.op \notin {"route", "all_matching", "health_check"}
  BY <1>1, RouterConfig DEF Waits, Call
<1>3. k \in Call
  BY <1>1 DEF Call
<1>4. call[c] = NoCall /\ registry' = registry /\ queue' = Append(queue, c)
      /\ call' = [call EXCEPT ![c] = k]
  BY DEF CallWrite
<1> HIDE DEF k
<1>5. QED
  BY <1>2, <1>3, <1>4, CallKeeps

LEMMA LockSharedKeeps ==
    ASSUME IInv, NEW c \in Callers, LockShared(c)
    PROVE  IInv'
<1>1. QueueInv' /\ \A d : Contains(queue, d)' => Contains(queue, d)
  BY LeaveQueue DEF LockShared, IInv
<1>2. CallInv(c)'
  BY <1>1 DEF LockShared, IInv, CallInv, In, BestSoFar, FoundSoFar, ReportSoFar, Matches, Waits
<1>3. \A d \in Callers \ {c} : CallInv(d)'
  BY <1>1, OthersKeep DEF LockShared
<1>4. QED
  BY <1>1, <1>2, <1>3 DEF LockShared, IInv, CallsType

\* The writer holds the lock alone: no scan has begun, and an agent that goes is
\* taken from those that have stayed.
LEMMA ChangeKeeps ==
    ASSUME IInv, NEW c \in Callers, Change(c)
    PROVE  IInv'
<1> DEFINE a == call[c].agent
           info == call[c].info
<1>1. call[c] \in Write /\ a \in Agents /\ info \in AgentInfo \cup {NoAgent}
  BY Operations DEF Change, IInv, Write
<1>2. registry' = [registry EXCEPT ![a] = info] /\ call' = Ended(c)
  BY DEF Change
<1>3. CallsType /\ QueueInv
  BY DEF IInv
<1>4. QueueInv' /\ \A d : Contains(queue, d)' => Contains(queue, d)
  BY <1>3, LeaveQueue DEF Change
<1>5. registry' \in RegistryType
  BY <1>1, <1>2, <1>3 DEF CallsType, RegistryType
<1>6. call'[c] = NoCall
  BY <1>2 DEF Ended
<1>7. ASSUME NEW d \in Callers, d # c
      PROVE  CallInv(d)' /\ call'[d] \in Call \cup {NoCall}
  <2>1. CallInv(d) /\ call[d] \in Call \cup {NoCall}
    BY DEF IInv, CallsType
  <2>2. CASE In(d, {"health_check"})
    <3>1. call[d] \in Health /\ ReportSoFar(call[d])
      BY <2>1, <2>2, <1>3, Operations DEF CallInv
    <3>2. call'[d] = IF info = NoAgent THEN [call[d] EXCEPT !.stayed = @ \ {a}] ELSE call[d]
      BY <1>2, <1>7, <2>2 DEF Ended
    <3>3. call'[d] \in Health
      BY <3>1, <3>2 DEF Health
    <3>4. /\ call'[d].op = "health_check" /\ call'[d].at = call[d].at
          /\ call'[d].todo = call[d].todo /\ call'[d].asked = call[d].asked
          /\ call'[d].report = call[d].report
          /\ call'[d].stayed = IF info = NoAgent THEN call[d].stayed \ {a} ELSE call[d].stayed
      BY <3>1, <3>2 DEF Health
    <3>5. \A b \in call'[d].stayed : b \in call[d].stayed /\ (b = a => info # NoAgent)
      BY <3>4
    <3>6. \A b \in Agents : b \in Registered(registry) /\ (b = a => info # NoAgent)
                               => b \in Registered(registry)'
      BY <1>1, <1>2, <1>3 DEF Registered, CallsType, RegistryType
    <3>7. ReportSoFar(call[d])'
      BY <3>1, <3>4, <3>5, <3>6 DEF ReportSoFar, Registered
    <3>8. call'[d] # NoCall /\ call'[d] \in Call
      BY <3>3, RouterConfig DEF Call
    <3>9. Contains(queue, d)' => Waits(call[d])'
      BY <1>4, <2>1, <2>2, <3>4, <3>8 DEF CallInv, Waits, In
    <3>10. QED
      BY <3>4, <3>7, <3>8, <3>9 DEF CallInv, In
  <2>3. CASE ~In(d, {"health_check"})
    <3>1. call'[d] = call[d]
      BY <1>2, <1>7, <2>3 DEF Ended
    <3>2. ~Scanning(d)
      BY DEF Change, HoldsLock
    <3>3. In(d, {"route", "all_matching"}) => Waits(call[d])
      BY <2>1, <3>2 DEF Scanning, CallInv
    <3>4. In(d, {"route", "all_matching"})' => BestSoFar(call[d])' /\ FoundSoFar(call[d])'
      BY <3>1, <3>3 DEF In, Waits, BestSoFar, FoundSoFar, ToSet, IsInjective
    <3>5. Contains(queue, d)' => Waits(call[d])'
      BY <1>4, <2>1, <3>1 DEF CallInv, Waits
    <3>6. ~In(d, {"health_check"})'
      BY <2>3, <3>1 DEF In
    <3>7. QED
      BY <2>1, <3>1, <3>4, <3>5, <3>6 DEF CallInv
  <2>4. QED
    BY <2>2, <2>3
<1>8. CallInv(c)'
  <2>1. ~Contains(queue, c)'
    BY <1>3, LeaveQueue DEF Change
  <2>2. QED
    BY <1>6, <2>1 DEF CallInv, In
<1>9. CallsType'
  <2>1. call' \in [Callers -> Call \cup {NoCall}]
    <3>1. call' = [d \in Callers |-> call'[d]]
      BY <1>2 DEF Ended
    <3>2. QED
      BY <3>1, <1>6, <1>7
  <2>2. QED
    BY <1>5, <2>1 DEF CallsType
<1>10. QED
  BY <1>4, <1>7, <1>8, <1>9 DEF IInv

\* The candidate stays the best of the agents seen as one more is seen.
LEMMA VisitKeeps ==
    ASSUME IInv, NEW c \in Callers, NEW a \in Agents, Visit(c, a)
    PROVE  IInv'
<1> DEFINE match == Matches(a, call[c].cap)
           seen == Append(call[c].seen, a)
           best == IF match /\ Better(a, call[c].best) THEN a ELSE call[c].best
           found == IF match THEN Append(call[c].found, a) ELSE call[c].found
           k == Passed(call[c], a)
<1>1. /\ call[c] \in Scan /\ BestSoFar(call[c]) /\ FoundSoFar(call[c]) /\ ~Contains(queue, c)
      /\ In(c, {"route", "all_matching"})
  BY Operations DEF Visit, Scanning, IInv, CallInv
<1>2. registry' = registry /\ queue' = queue /\ a \in Registered(registry)
  BY DEF Visit, Unseen
<1>3. call[c].seen \in Seq(Agents) /\ call[c].found \in Seq(Agents)
      /\ call[c].best \in Agents \cup {NoAgent} /\ call[c].cap \in Capabilities
      /\ call[c].op \in {"route", "all_matching"}
  BY <1>1 DEF Scan
<1>4. seen \in Seq(Agents) /\ found \in Seq(Agents) /\ best \in Agents \cup {NoAgent}
  BY <1>3
<1>5. k \in Scan /\ k.cap = call[c].cap /\ k.seen = seen /\ k.best = best /\ k.found = found
  <2>1. k = [call[c] EXCEPT !.seen = seen, !.best = best, !.found = found]
    BY Zenon DEF Passed
  <2> HIDE DEF k, seen, best, found, match
  <2>2. QED
    BY <1>1, <1>4, <2>1 DEF Scan
<1>6. call' = [call EXCEPT ![c] = k]
  BY DEF Visit
<1>7. ToSet(seen) = ToSet(call[c].seen) \cup {a}
  BY <1>3, AppendToSet
<1>8. \A b \in Registered(registry) : registry[b].priority \in Nat
  BY RegistryConfig DEF IInv, CallsType, RegistryType, Registered, AgentInfo
<1>9. BestSoFar(k)
  <2> DEFINE old == call[c].best
             cap == call[c].cap
             Seen == ToSet(call[c].seen)
  <2>1. /\ Seen \subseteq Registered(registry)
        /\ old = NoAgent => \A b \in Seen : ~Matches(b, cap)
        /\ old # NoAgent => /\ old \in Seen /\ Matches(old, cap)
                            /\ \A b \in Seen : Matches(b, cap)
                                  => registry[b].priority <= registry[old].priority
    BY <1>1 DEF BestSoFar
  <2>2. a # NoAgent
    BY RegistryConfig
  <2> HIDE DEF old, cap, Seen
  <2> DEFINE new == IF Matches(a, cap) /\ Better(a, old) THEN a ELSE old
  <2>3. /\ Seen \cup {a} \subseteq Registered(registry)
        /\ new = NoAgent => \A b \in Seen \cup {a} : ~Matches(b, cap)
        /\ new # NoAgent => /\ new \in Seen \cup {a} /\ Matches(new, cap)
                            /\ \A b \in Seen \cup {a} : Matches(b, cap)
                                  => registry[b].priority <= registry[new].priority
    BY <1>2, <1>8, <2>1, <2>2 DEF Better
  <2>4. ToSet(k.seen) = Seen \cup {a} /\ k.best = new /\ k.cap = cap
    BY <1>5, <1>7 DEF Seen, old, cap
  <2> HIDE DEF new, k
  <2>5. QED
    BY <2>3, <2>4 DEF BestSoFar
<1>10. FoundSoFar(k)
  <2>1. /\ ToSet(call[c].found) = {b \in ToSet(call[c].seen) : Matches(b, call[c].cap)}
        /\ IsInjective(call[c].found) /\ a \notin ToSet(call[c].seen)
    BY <1>1 DEF FoundSoFar, Visit, Unseen
  <2>2. IsInjective(found) /\ ToSet(found) = IF match THEN ToSet(call[c].found) \cup {a}
                                             ELSE ToSet(call[c].found)
    <3>1. a \notin ToSet(call[c].found)
      BY <2>1
    <3> HIDE DEF match
    <3>2. CASE match
      BY <1>3, <2>1, <3>1, <3>2, AppendToSet, AppendKeepsInjective
    <3>3. CASE ~match
      BY <2>1, <3>3
    <3>4. QED
      BY <3>2, <3>3
  <2> HIDE DEF k, seen, best, found
  <2>3. QED
    BY <1>5, <1>7, <2>1, <2>2 DEF FoundSoFar
<1> HIDE DEF k
<1>11. call'[c] = k /\ k \in Call /\ ~Contains(queue, c)'
  BY <1>1, <1>2, <1>5, <1>6 DEF IInv, CallsType, Call
<1>12. BestSoFar(call[c])' /\ FoundSoFar(call[c])'
  BY <1>2, <1>9, <1>11, <1>10 DEF BestSoFar, FoundSoFar, Registered, Matches
<1>13. ~In(c, {"health_check"})'
  BY <1>5, <1>11 DEF In, Scan
<1>14. CallInv(c)'
  BY <1>11, <1>12, <1>13 DEF CallInv
<1>15. QED
  BY <1>2, <1>6, <1>11, <1>14, StepKeeps DEF IInv, QueueInv

\* A caller that returns forgets its call.
LEMMA EndKeeps ==
    ASSUME IInv, NEW c \in Callers, ~Contains(queue, c),
           call' = [call EXCEPT ![c] = NoCall], UNCHANGED <<registry, queue>>
    PROVE  IInv'
<1>1. call'[c] = NoCall
  BY DEF IInv, CallsType
<1>2. CallInv(c)'
  BY <1>1 DEF CallInv, In
<1>3. QED
  BY <1>2, StepKeeps DEF IInv, QueueInv

LEMMA ReturnKeeps ==
    ASSUME IInv, NEW c \in Callers, Return(c)
    PROVE  IInv'
BY EndKeeps DEF Return, Scanning

LEMMA ReturnReportKeeps ==
    ASSUME IInv, NEW c \in Callers, ReturnReport(c)
    PROVE  IInv'
<1>1. ~Contains(queue, c)
  BY DEF ReturnReport, Reports, At, In, IInv, CallInv, Waits
<1>2. QED
  BY <1>1, EndKeeps DEF ReturnReport

\* What a step of a health check has to show.
LEMMA HealthKeeps ==
    ASSUME IInv, NEW c \in Callers, registry' = registry, NEW k \in Health,
           call' = [call EXCEPT ![c] = k], QueueInv',
           \A d \in Callers \ {c} : Contains(queue, d)' => Contains(queue, d),
           Contains(queue, c)' => k.at \in {"list", "get"},
           ReportSoFar(k)
    PROVE  IInv'
<1>1. k \in Call /\ k # NoCall /\ k.op = "health_check"
  BY RouterConfig DEF Call, Health
<1>2. call'[c] = k
  BY DEF IInv, CallsType
<1>3. CallInv(c)'
  BY <1>1, <1>2 DEF CallInv, In, Waits, ReportSoFar, Registered
<1>4. QED
  BY <1>1, <1>3, StepKeeps

LEMMA ListAgentsKeeps ==
    ASSUME IInv, NEW c \in Callers, ListAgents(c)
    PROVE  IInv'
<1> DEFINE R == Registered(registry)
           k == [call[c] EXCEPT !.at = "next", !.todo = R, !.stayed = R]
<1>1. call[c] \in Health /\ R \subseteq Agents
  BY Operations DEF ListAgents, At, IInv, Registered
<1>2. k \in Health /\ k.stayed = R /\ k.todo = R
  <2> HIDE DEF R
  <2>1. QED
    BY <1>1 DEF Health
<1>3. ReportSoFar(k)
  <2> HIDE DEF k
  <2>1. QED
    BY <1>2 DEF ReportSoFar
<1>4. call' = [call EXCEPT ![c] = k] /\ registry' = registry
  BY DEF ListAgents
<1>5. QueueInv' /\ ~Contains(queue, c)' /\ \A d : Contains(queue, d)' => Contains(queue, d)
  BY LeaveQueue DEF ListAgents, IInv
<1> HIDE DEF k
<1>6. QED
  BY <1>2, <1>3, <1>4, <1>5, HealthKeeps

LEMMA AskNextKeeps ==
    ASSUME IInv, NEW c \in Callers, AskNext(c)
    PROVE  IInv'
<1> DEFINE k == [call[c] EXCEPT !.at = "get"]
<1>1. call[c] \in Health /\ ReportSoFar(call[c]) /\ ~Contains(queue, c) /\ call[c].at = "next"
  BY Operations DEF AskNext, At, In, IInv, CallInv, Waits
<1>2. /\ k \in Health /\ k.at = "get" /\ k.stayed = call[c].stayed
      /\ k.todo = call[c].todo /\ k.report = call[c].report
  BY <1>1 DEF Health
<1>3. ReportSoFar(k)
  <2> HIDE DEF k
  <2>1. QED
    BY <1>1, <1>2 DEF ReportSoFar
<1>4. call' = [call EXCEPT ![c] = k] /\ registry' = registry
  BY DEF AskNext
<1>5. QueueInv' /\ \A d \in Callers \ {c} : Contains(queue, d)' => Contains(queue, d)
  BY <1>1, JoinQueue DEF AskNext, IInv
<1> HIDE DEF k
<1>6. QED
  BY <1>2, <1>3, <1>4, <1>5, HealthKeeps

\* Only an agent that is gone is left out, and that one has not stayed.
LEMMA GetAgentKeeps ==
    ASSUME IInv, NEW c \in Callers, GetAgent(c)
    PROVE  IInv'
<1>1. PICK a \in call[c].todo : call' = [call EXCEPT ![c] = LookedUp(call[c], a)]
  BY DEF GetAgent
<1> DEFINE k == LookedUp(call[c], a)
<1>2. call[c] \in Health /\ ReportSoFar(call[c]) /\ call[c].at = "get"
  BY Operations DEF GetAgent, At, In, IInv, CallInv
<1>3. a \in Agents /\ call[c].todo \in SUBSET Agents
  BY <1>1, <1>2 DEF Health
<1>4. k \in Health /\ ReportSoFar(k)
  <2>1. CASE a \in Registered(registry)
    <3>1. k = [call[c] EXCEPT !.at = "check", !.todo = call[c].todo \ {a}, !.asked = a]
      BY <2>1 DEF LookedUp
    <3> HIDE DEF k
    <3>2. /\ k \in Health /\ k.at = "check" /\ k.todo = call[c].todo \ {a} /\ k.asked = a
          /\ k.stayed = call[c].stayed /\ k.report = call[c].report
      BY <1>2, <1>3, <3>1 DEF Health
    <3>3. QED
      BY <1>2, <3>2 DEF ReportSoFar
  <2>2. CASE a \notin Registered(registry)
    <3> DEFINE r == [call[c].report EXCEPT ![a] = "gone"]
    <3>1. k = [call[c] EXCEPT !.at = "next", !.todo = call[c].todo \ {a}, !.report = r]
      BY <2>2 DEF LookedUp
    <3>2. r \in [Agents -> {"none", "ok", "sick", "gone"}]
          /\ \A b \in Agents \ {a} : r[b] = call[c].report[b]
      BY <1>2, <1>3 DEF Health
    <3> HIDE DEF k, r
    <3>3. /\ k \in Health /\ k.at = "next" /\ k.todo = call[c].todo \ {a}
          /\ k.stayed = call[c].stayed /\ k.report = r
      BY <1>2, <1>3, <3>1, <3>2 DEF Health
    <3>4. k.stayed \subseteq Agents
      BY <3>3 DEF Health
    <3>5. QED
      BY <1>2, <2>2, <3>2, <3>3, <3>4 DEF ReportSoFar
  <2>3. QED
    BY <2>1, <2>2
<1>5. registry' = registry
  BY DEF GetAgent
<1>6. QueueInv' /\ ~Contains(queue, c)' /\ \A d : Contains(queue, d)' => Contains(queue, d)
  BY LeaveQueue DEF GetAgent, IInv
<1> HIDE DEF k
<1>7. call' = [call EXCEPT ![c] = k]
  BY <1>1 DEF k
<1>8. QED
  BY <1>4, <1>5, <1>6, <1>7, HealthKeeps

LEMMA AgentAnswersKeeps ==
    ASSUME IInv, NEW c \in Callers, AgentAnswers(c)
    PROVE  IInv'
<1>1. PICK health \in {"ok", "sick"} :
          call' = [call EXCEPT ![c].at = "next", ![c].asked = NoAgent,
                               ![c].report[call[c].asked] = health]
  BY DEF AgentAnswers
<1> DEFINE r == [call[c].report EXCEPT ![call[c].asked] = health]
           k == [call[c] EXCEPT !.at = "next", !.asked = NoAgent, !.report = r]
<1>2. call[c] \in Health /\ ReportSoFar(call[c]) /\ call[c].at = "check" /\ ~Contains(queue, c)
  BY Operations DEF AgentAnswers, At, In, IInv, CallInv, Waits
<1>3. /\ r \in [Agents -> {"none", "ok", "sick", "gone"}]
      /\ \A b \in Agents : r[b] = call[c].report[b] \/ r[b] \in {"ok", "sick"}
      /\ call[c].asked \in Agents => r[call[c].asked] \in {"ok", "sick"}
  BY <1>2 DEF Health
<1>4. /\ k \in Health /\ k.at = "next" /\ k.todo = call[c].todo
      /\ k.stayed = call[c].stayed /\ k.report = r
  <2> HIDE DEF r
  <2>1. QED
    BY <1>2, <1>3 DEF Health
<1>5. call' = [call EXCEPT ![c] = k]
  BY <1>1
<1> HIDE DEF k, r
<1>6. k.stayed \subseteq Agents
  BY <1>4 DEF Health
<1>7. ReportSoFar(k)
  BY <1>2, <1>3, <1>4, <1>6 DEF ReportSoFar
<1>8. registry' = registry /\ queue' = queue
  BY DEF AgentAnswers
<1>9. QED
  BY <1>2, <1>4, <1>5, <1>7, <1>8, HealthKeeps DEF IInv, QueueInv

-----------------------------------------------------------------------------
(* The theorems. *)

\* The invariant holds throughout, whoever takes which step.
THEOREM Invariance == Spec => []IInv
<1>1. Init => IInv
  <2> SUFFICES ASSUME Init PROVE IInv
    OBVIOUS
  <2>1. CallsType /\ QueueInv
    BY DEF Init, CallsType, QueueInv, RegistryType, IsInjective
  <2>2. \A c \in Callers : CallInv(c)
    BY DEF Init, CallInv, In, Contains
  <2>3. QED
    BY <2>1, <2>2 DEF IInv
<1>2. IInv /\ [Next]_vars => IInv'
  <2> SUFFICES ASSUME IInv, [Next]_vars PROVE IInv'
    OBVIOUS
  <2>1. CASE UNCHANGED vars
    BY <2>1 DEF vars, IInv, CallsType, QueueInv, CallInv, In, Waits, BestSoFar, FoundSoFar, ReportSoFar,
                Matches
  <2>2. CASE Next
    <3>1. PICK c \in Callers :
              \/ \E op \in {"route", "all_matching"}, cap \in Capabilities : CallScan(c, op, cap)
              \/ \E a \in Agents, info \in Infos \cup {NoAgent} : CallWrite(c, a, info)
              \/ CallHealth(c)
              \/ Step(c)
              \/ AgentAnswers(c)
      BY <2>2 DEF Next
    <3>2. CASE Step(c)
      BY <3>2, LockSharedKeeps, ChangeKeeps, VisitKeeps, ReturnKeeps, ListAgentsKeeps,
         AskNextKeeps, GetAgentKeeps, ReturnReportKeeps DEF Step
    <3>3. QED
      BY <3>1, <3>2, CallScanKeeps, CallWriteKeeps, CallHealthKeeps, AgentAnswersKeeps
  <2>3. QED
    BY <2>1, <2>2
<1>3. QED
  BY <1>1, <1>2, PTL DEF Spec

\* Every variable of the router keeps its type, and only callers that are in a
\* method wait for the lock.
THEOREM TypeCorrect == Spec => []TypeOK
<1>1. IInv => TypeOK
  <2> SUFFICES ASSUME IInv PROVE TypeOK
    OBVIOUS
  <2>1. ASSUME NEW c \in ToSet(queue)
        PROVE  call[c] # NoCall
    <3>1. c \in Callers /\ Contains(queue, c)
      BY <2>1 DEF IInv, QueueInv, ToSet, Contains
    <3>2. QED
      BY <3>1 DEF IInv, CallInv, Waits
  <2>2. QED
    BY <2>1 DEF IInv, CallsType, QueueInv, TypeOK
<1>2. QED
  BY <1>1, Invariance, PTL

\* route() answers with the best agent of the registry at the moment of its
\* answer, whatever the other callers do to it while the scan is under way.
THEOREM RouteIsRight == Spec => []RouteAnswersBest
<1>1. IInv => RouteAnswersBest
  <2> SUFFICES ASSUME IInv, NEW c \in Callers, Answers(c, "route")
               PROVE  LET best == BestFor(registry, call[c].cap)
                      IN  IF best = {} THEN AnswerOf(c) = << >>
                          ELSE \E a \in best : AnswerOf(c) = <<a>>
    BY DEF RouteAnswersBest
  <2> DEFINE k == call[c]
             able == Capable(registry, k.cap)
  <2>1. k.op = "route" /\ BestSoFar(k) /\ ToSet(k.seen) = Registered(registry)
    BY DEF Answers, Scanning, Unseen, IInv, CallInv, BestSoFar
  <2>2. AnswerOf(c) = IF k.best = NoAgent THEN << >> ELSE <<k.best>>
    BY <2>1 DEF AnswerOf
  <2>3. able = {a \in ToSet(k.seen) : Matches(a, k.cap)}
    BY <2>1 DEF Capable, Matches
  <2>4. BestFor(registry, k.cap) =
            {a \in able : \A b \in able : registry[b].priority <= registry[a].priority}
    BY DEF BestFor
  <2> HIDE DEF able, k
  <2>5. CASE k.best = NoAgent
    <3>1. able = {}
      BY <2>1, <2>3, <2>5 DEF BestSoFar
    <3>2. QED
      BY <2>2, <2>4, <2>5, <3>1 DEF k
  <2>6. CASE k.best # NoAgent
    <3>1. k.best \in BestFor(registry, k.cap)
      BY <2>1, <2>3, <2>4, <2>6 DEF BestSoFar
    <3>2. QED
      BY <2>2, <2>6, <3>1 DEF k
  <2>7. QED
    BY <2>5, <2>6
<1>2. QED
  BY <1>1, Invariance, PTL

\* all_matching() lists the agents that route() might choose, each once and by
\* their priority, whatever the other callers do while it collects them.
THEOREM MatchingIsSorted == Spec => []MatchingIsRanked
<1>1. IInv => MatchingIsRanked
  <2> SUFFICES ASSUME IInv, NEW c \in Callers, Answers(c, "all_matching")
               PROVE  LET list == AnswerOf(c)
                      IN  /\ ToSet(list) = Capable(registry, call[c].cap)
                          /\ IsInjective(list)
                          /\ \A i, j \in DOMAIN list :
                                i < j => registry[list[i]].priority >= registry[list[j]].priority
    BY DEF MatchingIsRanked
  <2> DEFINE k == call[c]
  <2>1. k.op = "all_matching" /\ FoundSoFar(k) /\ ToSet(k.seen) = Registered(registry)
    BY DEF Answers, Scanning, Unseen, IInv, CallInv, BestSoFar
  <2>2. k \in Scan /\ registry \in RegistryType
    BY Operations DEF IInv, CallsType, Answers, Scanning
  <2>3. k.found \in Seq(Agents)
    BY <2>2 DEF Scan
  <2>4. AnswerOf(c) = ByPriority(k.found)
    BY <2>1 DEF AnswerOf
  <2>5. ToSet(k.found) = Capable(registry, k.cap)
    BY <2>1 DEF FoundSoFar, Capable, Matches
  <2>6. ToSet(k.found) \subseteq Registered(registry) /\ IsInjective(k.found)
    BY <2>1 DEF FoundSoFar
  <2> HIDE DEF k
  <2>7. QED
    BY <2>2, <2>3, <2>4, <2>5, <2>6, SortIsRanked DEF k
<1>2. QED
  BY <1>1, Invariance, PTL

\* health_check() reports every agent that stays by its own answer, however
\* many others come and go between its look-ups.
THEOREM ReportCoversThoseThatStay == Spec => []ReportIsComplete
<1>1. IInv => ReportIsComplete
  BY DEF IInv, CallInv, ReportSoFar, ReportIsComplete, Reports, At, In
<1>2. QED
  BY <1>1, Invariance, PTL
=============================================================================
