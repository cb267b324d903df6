---------------------------- MODULE DispatchProofs ----------------------------
(***************************************************************************)
(* Proofs about the tasks of Dispatch and the circuit breaker they share.  *)
(*                                                                         *)
(* First about CircuitBreaker, for any number of agents and calls, any     *)
(* threshold and any recovery timeout, whoever calls it: its circuits      *)
(* count consecutive failures and no report extends a pause.               *)
(*                                                                         *)
(* Then about Dispatch, for any finite set of tasks, any number of permits *)
(* and retries: the semaphore is conserved, attempts and results agree,    *)
(* the cache holds answers that were given, an agent that fails often      *)
(* enough is paused and a paused agent runs dry, nothing starts without a  *)
(* permit to give, and every step is a step of TaskPool or leaves it       *)
(* alone.                                                                  *)
(***************************************************************************)
EXTENDS Dispatch, CircuitBreaker, FiniteSetTheorems, SequenceTheorems, TLAPS


-----------------------------------------------------------------------------
(* The methods of one circuit. *)

\* The methods of the breaker and the passing of time keep a circuit within
\* its type and its fields in agreement.
LEMMA CircuitSteps ==
    ASSUME NEW c \in AgentCircuit, Consistent(c)
    PROVE  /\ AfterCheck(c) \in AgentCircuit /\ Consistent(AfterCheck(c))
           /\ AfterSuccess(c) \in AgentCircuit /\ Consistent(AfterSuccess(c))
           /\ AfterFailure(c) \in AgentCircuit /\ Consistent(AfterFailure(c))
           /\ AfterTick(c) \in AgentCircuit /\ Consistent(AfterTick(c))
<1>1. AfterCheck(c) \in AgentCircuit /\ Consistent(AfterCheck(c))
  BY CircuitConfig DEF AfterCheck, AgentCircuit, CircuitState, Consistent, Recovered, NotOpened
<1>2. AfterSuccess(c) \in AgentCircuit /\ Consistent(AfterSuccess(c))
  BY CircuitConfig DEF AfterSuccess, NewCircuit, AgentCircuit, CircuitState, Consistent, NotOpened
<1>3. AfterFailure(c) \in AgentCircuit /\ Consistent(AfterFailure(c))
  BY CircuitConfig
     DEF AfterFailure, Capped, AgentCircuit, CircuitState, Consistent, NotOpened
<1>4. AfterTick(c) \in AgentCircuit /\ Consistent(AfterTick(c))
  BY CircuitConfig DEF AfterTick, Capped, AgentCircuit, CircuitState, Consistent, NotOpened
<1>5. QED
  BY <1>1, <1>2, <1>3, <1>4

\* What each method does to the count of failures.
LEMMA CircuitFailures ==
    ASSUME NEW c \in AgentCircuit
    PROVE  /\ AfterCheck(c).failures = c.failures
           /\ AfterTick(c).failures = c.failures
           /\ AfterSuccess(c).failures = 0
           /\ AfterFailure(c).failures = Capped(c.failures + 1, FailureThreshold)
BY CircuitConfig
   DEF AfterCheck, AfterTick, AfterSuccess, AfterFailure, NewCircuit, Capped, AgentCircuit

LEMMA NewCircuitOK == NewCircuit \in AgentCircuit /\ Consistent(NewCircuit)
BY CircuitConfig DEF NewCircuit, AgentCircuit, CircuitState, Consistent, NotOpened

-----------------------------------------------------------------------------
(* The history of reports. *)

\* reports ends with exactly k failures: there are k of them, and whatever is
\* before them, if anything is, is a success.
Streak(reports, k) ==
    LET n == Len(reports)
    IN  /\ n <= FailureThreshold
        /\ k <= n
        /\ \A i \in 1..n : i > n - k => reports[i] = "failure"
        /\ k < n => reports[n - k] = "success"

LEMMA RememberedType ==
    ASSUME NEW reports \in Seq(Report), NEW r \in Report
    PROVE  Remembered(reports, r) \in Seq(Report)
<1> DEFINE all == Append(reports, r)
<1>1. all \in Seq(Report) /\ Len(all) > 0
  OBVIOUS
<1>2. Tail(all) \in Seq(Report)
  BY <1>1
<1>3. QED
  BY <1>1, <1>2 DEF Remembered

LEMMA RememberSuccess ==
    ASSUME NEW reports \in Seq(Report), NEW k \in 0..FailureThreshold, Streak(reports, k)
    PROVE  Streak(Remembered(reports, "success"), 0)
BY CircuitConfig DEF Streak, Remembered, Report

LEMMA RememberFailure ==
    ASSUME NEW reports \in Seq(Report), NEW k \in 0..FailureThreshold, Streak(reports, k)
    PROVE  Streak(Remembered(reports, "failure"), Capped(k + 1, FailureThreshold))
<1> DEFINE n == Len(reports)
           all == Append(reports, "failure")
<1>1. n \in Nat /\ n <= FailureThreshold /\ k <= n
  BY DEF Streak
<1>2. all \in Seq(Report) /\ Len(all) = n + 1
  BY DEF Report
<1>3. \A i \in 1..(n + 1) : i > n - k => all[i] = "failure"
  BY <1>1 DEF Streak
<1>4. k < n => all[n - k] = "success"
  BY <1>1 DEF Streak
<1> HIDE DEF n, all
<1>5. CASE n + 1 <= FailureThreshold
  <2>1. Remembered(reports, "failure") = all
    BY <1>2, <1>5, <1>1, CircuitConfig DEF Remembered, all
  <2>2. Capped(k + 1, FailureThreshold) = k + 1
    BY <1>1, <1>5, CircuitConfig DEF Capped
  <2>3. Streak(all, k + 1)
    BY <1>1, <1>2, <1>3, <1>4, <1>5 DEF Streak
  <2>4. QED
    BY <2>1, <2>2, <2>3
<1>6. CASE n = FailureThreshold
  <2>1. Remembered(reports, "failure") = Tail(all)
    BY <1>1, <1>2, <1>6, CircuitConfig DEF Remembered, all
  <2>2. Len(Tail(all)) = n /\ \A i \in 1..n : Tail(all)[i] = all[i + 1]
    BY <1>1, <1>2, <1>6, CircuitConfig
  <2>3. CASE k < n
    <3>1. Capped(k + 1, FailureThreshold) = k + 1
      BY <2>3, <1>6, CircuitConfig DEF Capped
    <3>2. Streak(Tail(all), k + 1)
      BY <1>1, <1>3, <1>4, <1>6, <2>2, <2>3 DEF Streak
    <3>3. QED
      BY <3>1, <3>2, <2>1
  <2>4. CASE k = n
    <3>1. Capped(k + 1, FailureThreshold) = n
      BY <2>4, <1>6, CircuitConfig DEF Capped
    <3>2. Streak(Tail(all), n)
      BY <1>1, <1>3, <1>6, <2>2, <2>4 DEF Streak
    <3>3. QED
      BY <3>1, <3>2, <2>1
  <2>5. QED
    BY <2>3, <2>4, <1>1
<1>7. QED
  BY <1>5, <1>6, <1>1, CircuitConfig

-----------------------------------------------------------------------------
(* The invariant of the breaker. *)

\* Every circuit counts the failures its history of reports ends with.
CountsStreak ==
    \A a \in Agents : Streak(recent[a], circuits[a].failures)

BreakerIInv == BreakerTypeOK /\ CircuitConsistent /\ CountsStreak

\* The parts of BreakerIInv that a change of one circuit and its history can
\* disturb, for one agent.
AgentOK(c, reports) ==
    /\ c \in AgentCircuit
    /\ Consistent(c)
    /\ reports \in Seq(Report)
    /\ Streak(reports, c.failures)

LEMMA AgentSteps ==
    ASSUME NEW c, NEW reports, AgentOK(c, reports)
    PROVE  /\ AgentOK(AfterCheck(c), reports)
           /\ AgentOK(AfterTick(c), reports)
           /\ AgentOK(AfterSuccess(c), Remembered(reports, "success"))
           /\ AgentOK(AfterFailure(c), Remembered(reports, "failure"))
           /\ AgentOK(NewCircuit, << >>)
<1>1. /\ c \in AgentCircuit /\ Consistent(c)
      /\ reports \in Seq(Report) /\ Streak(reports, c.failures)
  BY DEF AgentOK
<1>2. c.failures \in 0..FailureThreshold
  BY <1>1 DEF AgentCircuit
<1>3. Streak(Remembered(reports, "success"), 0)
  BY <1>1, <1>2, RememberSuccess
<1>4. Streak(Remembered(reports, "failure"), Capped(c.failures + 1, FailureThreshold))
  BY <1>1, <1>2, RememberFailure
<1>5. /\ Remembered(reports, "success") \in Seq(Report)
      /\ Remembered(reports, "failure") \in Seq(Report)
  BY <1>1, RememberedType DEF Report
<1>6. NewCircuit.failures = 0 /\ << >> \in Seq(Report) /\ Streak(<< >>, 0)
  BY CircuitConfig DEF NewCircuit, Streak
<1>7. QED
  BY <1>1, <1>3, <1>4, <1>5, <1>6, CircuitSteps, CircuitFailures, NewCircuitOK DEF AgentOK

\* The part of the type that is about the calls.
CallsOK ==
    /\ inflight \in [Agents -> SUBSET Calls]
    /\ probes \in [Agents -> SUBSET Calls]
    /\ \A a \in Agents : probes[a] \subseteq inflight[a]

LEMMA BreakerParts ==
    BreakerIInv <=> /\ circuits \in [Agents -> AgentCircuit]
                    /\ recent \in [Agents -> Seq(Report)]
                    /\ \A a \in Agents : AgentOK(circuits[a], recent[a])
                    /\ CallsOK
BY DEF BreakerIInv, BreakerTypeOK, CircuitConsistent, CountsStreak, AgentOK, CallsOK

LEMMA InitBreaker == BreakerInit => BreakerIInv
<1>1. AgentOK(NewCircuit, << >>)
  BY NewCircuitOK, CircuitConfig DEF AgentOK, NewCircuit, Streak
<1>2. QED
  BY <1>1, BreakerParts DEF BreakerInit, AgentOK, CallsOK

LEMMA NextBreaker == BreakerIInv /\ [BreakerNext]_breakerVars => BreakerIInv'
<1> SUFFICES ASSUME BreakerIInv, [BreakerNext]_breakerVars
             PROVE  BreakerIInv'
  OBVIOUS
<1>1. /\ circuits \in [Agents -> AgentCircuit]
      /\ recent \in [Agents -> Seq(Report)]
      /\ \A a \in Agents : AgentOK(circuits[a], recent[a])
      /\ CallsOK
  BY BreakerParts
<1>2. ASSUME NEW a \in Agents, NEW c, NEW reports, AgentOK(c, reports),
             circuits' = [circuits EXCEPT ![a] = c],
             recent' = [recent EXCEPT ![a] = reports],
             CallsOK'
      PROVE  BreakerIInv'
  <2>1. c \in AgentCircuit /\ reports \in Seq(Report)
    BY <1>2 DEF AgentOK
  <2>2. \A b \in Agents : AgentOK(circuits'[b], recent'[b])
    BY <1>1, <1>2
  <2>3. circuits' \in [Agents -> AgentCircuit] /\ recent' \in [Agents -> Seq(Report)]
    BY <1>1, <1>2, <2>1
  <2>4. QED
    BY <1>2, <2>2, <2>3
       DEF BreakerIInv, BreakerTypeOK, CircuitConsistent, CountsStreak, AgentOK, CallsOK
<1>3. ASSUME NEW a \in Agents, NEW c \in Calls, Check(a, c)
      PROVE  BreakerIInv'
  <2>1. CallsOK'
    <3>1. CASE Admits(circuits[a])
      <4>1. /\ inflight' = [inflight EXCEPT ![a] = @ \cup {c}]
            /\ probes' \in {probes, [probes EXCEPT ![a] = @ \cup {c}]}
        BY <1>1, <1>3, <3>1 DEF Check, CallsOK
      <4>2. QED
        BY <1>1, <4>1 DEF CallsOK
    <3>2. CASE ~Admits(circuits[a])
      BY <1>1, <1>3, <3>2 DEF Check, CallsOK
    <3>3. QED
      BY <3>1, <3>2
  <2>2. AgentOK(AfterCheck(circuits[a]), recent[a])
    BY <1>1, AgentSteps
  <2>3. /\ circuits' = [circuits EXCEPT ![a] = AfterCheck(circuits[a])]
        /\ recent' = [recent EXCEPT ![a] = recent[a]]
    BY <1>1, <1>3 DEF Check
  <2>4. QED
    BY <1>2, <2>1, <2>2, <2>3
<1>4. ASSUME NEW a \in Agents, NEW c \in Calls, RecordSuccess(a, c)
      PROVE  BreakerIInv'
  <2>1. CallsOK'
    BY <1>1, <1>4 DEF RecordSuccess, Leave, CallsOK
  <2>2. AgentOK(AfterSuccess(circuits[a]), Remembered(recent[a], "success"))
    BY <1>1, AgentSteps
  <2>3. QED
    BY <1>2, <1>4, <2>1, <2>2 DEF RecordSuccess, Remember
<1>5. ASSUME NEW a \in Agents, NEW c \in Calls, RecordFailure(a, c)
      PROVE  BreakerIInv'
  <2>1. CallsOK'
    BY <1>1, <1>5 DEF RecordFailure, Leave, CallsOK
  <2>2. AgentOK(AfterFailure(circuits[a]), Remembered(recent[a], "failure"))
    BY <1>1, AgentSteps
  <2>3. QED
    BY <1>2, <1>5, <2>1, <2>2 DEF RecordFailure, Remember
<1>6. ASSUME NEW a \in Agents, NEW c \in Calls, Abandon(a, c)
      PROVE  BreakerIInv'
  BY <1>1, <1>6
     DEF Abandon, Leave, CallsOK, BreakerIInv, BreakerTypeOK, CircuitConsistent, CountsStreak
<1>7. ASSUME NEW a \in Agents, Reset(a)
      PROVE  BreakerIInv'
  <2>1. CallsOK'
    BY <1>1, <1>7 DEF Reset, CallsOK
  <2>2. AgentOK(NewCircuit, << >>)
    BY <1>1, AgentSteps
  <2>3. QED
    BY <1>2, <1>7, <2>1, <2>2 DEF Reset
<1>8. CASE BreakerTick
  <2>1. \A a \in Agents : AgentOK(circuits'[a], recent'[a])
    BY <1>1, <1>8, AgentSteps DEF BreakerTick
  <2>2. circuits' \in [Agents -> AgentCircuit]
    BY <1>8, <2>1 DEF BreakerTick, AgentOK
  <2>3. QED
    BY <1>1, <1>8, <2>1, <2>2
       DEF BreakerTick, CallsOK, BreakerIInv, BreakerTypeOK, CircuitConsistent, CountsStreak,
           AgentOK
<1>9. CASE UNCHANGED breakerVars
  BY <1>9 DEF breakerVars, BreakerIInv, BreakerTypeOK, CircuitConsistent, CountsStreak
<1>10. QED
  BY <1>3, <1>4, <1>5, <1>6, <1>7, <1>8, <1>9 DEF BreakerNext

-----------------------------------------------------------------------------
(* What is proved of the breaker. *)

LEMMA AlwaysBreaker == BreakerSpec => []BreakerIInv
BY InitBreaker, NextBreaker, PTL DEF BreakerSpec

\* The state is well-typed; in particular the calls marked as probes are
\* always calls in flight.
THEOREM BreakerTypeCorrect == BreakerSpec => []BreakerTypeOK
<1>1. BreakerIInv => BreakerTypeOK
  BY DEF BreakerIInv
<1>2. QED
  BY <1>1, AlwaysBreaker, PTL

\* The fields of every circuit agree, so the branch of check() for an open
\* circuit without an opening time is dead code.
THEOREM CircuitFieldsAgree == BreakerSpec => []CircuitConsistent
<1>1. BreakerIInv => CircuitConsistent
  BY DEF BreakerIInv
<1>2. QED
  BY <1>1, AlwaysBreaker, PTL

\* An agent is paused or on probation exactly when the last FailureThreshold
\* reports on it were failures.
THEOREM PausedExactlyOnConsecutiveFailures == BreakerSpec => []PausedOnConsecutiveFailures
<1>1. BreakerIInv => PausedOnConsecutiveFailures
  <2> SUFFICES ASSUME BreakerIInv, NEW a \in Agents
               PROVE  circuits[a].state # "Closed" <=>
                        /\ Len(recent[a]) = FailureThreshold
                        /\ \A i \in DOMAIN recent[a] : recent[a][i] = "failure"
    BY DEF PausedOnConsecutiveFailures
  <2> DEFINE k == circuits[a].failures
             reports == recent[a]
  <2>1. /\ k \in 0..FailureThreshold
        /\ reports \in Seq(Report)
        /\ Streak(reports, k)
        /\ circuits[a].state # "Closed" <=> k = FailureThreshold
    BY CircuitConfig
       DEF BreakerIInv, BreakerTypeOK, CircuitConsistent, CountsStreak, Consistent,
           AgentCircuit, CircuitState
  <2> HIDE DEF k, reports
  <2>2. CASE k = FailureThreshold
    BY <2>1, <2>2, CircuitConfig DEF Streak, reports
  <2>3. CASE k < FailureThreshold
    <3>1. ASSUME Len(reports) = FailureThreshold
          PROVE  Len(reports) - k \in DOMAIN reports /\ reports[Len(reports) - k] = "success"
      BY <2>1, <2>3, <3>1, CircuitConfig DEF Streak
    <3>2. QED
      BY <2>1, <2>3, <3>1 DEF reports
  <2>4. QED
    BY <2>1, <2>2, <2>3, CircuitConfig
<1>2. QED
  BY <1>1, AlwaysBreaker, PTL

\* No report of a failure and no check sets the clock of a pause back.
THEOREM PauseKeepsItsClock == BreakerSpec => PauseNotExtended
<1> DEFINE ClockKept ==
      \A a \in Agents :
          circuits[a].state = "Open" /\ circuits'[a].state = "Open"
             => circuits'[a].opened_for >= circuits[a].opened_for
<1>1. ASSUME NEW c \in AgentCircuit, Consistent(c), c.state = "Open"
      PROVE  /\ AfterCheck(c).opened_for = c.opened_for
             /\ AfterFailure(c).opened_for = c.opened_for
             /\ AfterTick(c).opened_for >= c.opened_for
             /\ NewCircuit.state = "Closed" /\ AfterSuccess(c) = NewCircuit
  BY <1>1, CircuitConfig
     DEF AfterCheck, AfterFailure, AfterTick, AfterSuccess, NewCircuit, Capped, AgentCircuit,
         Consistent, NotOpened
<1>2. BreakerIInv /\ [BreakerNext]_breakerVars => [ClockKept]_breakerVars
  <2> SUFFICES ASSUME BreakerIInv, BreakerNext, NEW a \in Agents,
                      circuits[a].state = "Open", circuits'[a].state = "Open"
               PROVE  circuits'[a].opened_for >= circuits[a].opened_for
    OBVIOUS
  <2>1. circuits[a] \in AgentCircuit /\ Consistent(circuits[a])
    BY DEF BreakerIInv, BreakerTypeOK, CircuitConsistent
  <2>2. \/ circuits'[a] = circuits[a]
        \/ circuits'[a] = AfterCheck(circuits[a])
        \/ circuits'[a] = AfterSuccess(circuits[a])
        \/ circuits'[a] = AfterFailure(circuits[a])
        \/ circuits'[a] = AfterTick(circuits[a])
        \/ circuits'[a] = NewCircuit
    BY DEF BreakerIInv, BreakerTypeOK, BreakerNext, Check, RecordSuccess, RecordFailure,
           Abandon, Reset, BreakerTick
  <2>3. circuits[a].opened_for \in Int
    BY <2>1, CircuitConfig DEF AgentCircuit, NotOpened
  <2>4. QED
    BY <1>1, <2>1, <2>2, <2>3
<1>3. QED
  BY <1>2, AlwaysBreaker, PTL DEF BreakerSpec, PauseNotExtended

-----------------------------------------------------------------------------
(* The tasks. *)

\* A circuit whose fields agree.
GoodCircuit == {c \in AgentCircuit : Consistent(c)}

LEMMA CircuitTypes ==
    /\ NewCircuit \in GoodCircuit
    /\ \A c \in GoodCircuit : /\ AfterCheck(c) \in GoodCircuit
                              /\ AfterSuccess(c) \in GoodCircuit
                              /\ AfterFailure(c) \in GoodCircuit
                              /\ AfterTick(c) \in GoodCircuit
BY NewCircuitOK, CircuitSteps DEF GoodCircuit

\* Where a task that holds a permit can be.
HolderPC == PC \ {"unspawned", "spawned", "waiting", "done"}

\* The semaphore, its queue and the program counters.
PermitInv ==
    /\ pc \in [Tasks -> PC]
    /\ permits \in Nat
    /\ waiters \in Seq(Tasks)
    /\ PermitsConserved

-----------------------------------------------------------------------------
(* What each kind of step does to the semaphore. *)

LEMMA HoldersFinite ==
    /\ IsFiniteSet(Holders)
    /\ Cardinality(Holders) \in Nat
BY DispatchConfig, FS_Subset, FS_CardinalityType DEF Holders

\* A task that holds a permit goes on holding it.
LEMMA ContinuePermits ==
    ASSUME PermitInv, NEW t \in Holders, NEW label \in HolderPC, Continue(t, label)
    PROVE  PermitInv'
<1>1. t \in Tasks /\ pc[t] \in HolderPC
  BY DEF Holders, HolderPC, PermitInv
<1>2. /\ pc' = [pc EXCEPT ![t] = label]
      /\ permits' = permits
      /\ waiters' = waiters
  BY DEF Continue, Goto
<1>3. Holders' = Holders
  BY <1>1, <1>2 DEF Holders, HolderPC, PermitInv
<1>4. \A u \in Tasks : At(u, "waiting")' <=> At(u, "waiting")
  BY <1>1, <1>2 DEF At, HolderPC, PermitInv
<1>5. pc' \in [Tasks -> PC]
  BY <1>1, <1>2 DEF HolderPC, PermitInv
<1>6. QED
  BY <1>2, <1>3, <1>4, <1>5 DEF PermitInv, PermitsConserved

\* Spawning a task does not concern the semaphore.
LEMMA SpawnPermits ==
    ASSUME PermitInv, NEW t \in Tasks, Spawn(t)
    PROVE  PermitInv'
<1>1. /\ pc[t] = "unspawned"
      /\ pc' = [pc EXCEPT ![t] = "spawned"]
      /\ permits' = permits
      /\ waiters' = waiters
  BY DEF Spawn, At, Continue, Goto
<1>2. Holders' = Holders
  BY <1>1 DEF Holders, PermitInv
<1>3. \A u \in Tasks : At(u, "waiting")' <=> At(u, "waiting")
  BY <1>1 DEF At, PermitInv
<1>4. pc' \in [Tasks -> PC]
  BY <1>1 DEF PC, PermitInv
<1>5. QED
  BY <1>1, <1>2, <1>3, <1>4 DEF PermitInv, PermitsConserved

\* A task takes a free permit, or joins the end of the queue.
LEMMA AcquirePermits ==
    ASSUME PermitInv, NEW t \in Tasks, Acquire(t)
    PROVE  PermitInv'
<1>1. pc[t] = "spawned" /\ t \notin Holders
  BY DEF Acquire, At, Holders
<1>2. CASE permits > 0
  <2>1. /\ permits' = permits - 1
        /\ pc' = [pc EXCEPT ![t] = "check"]
        /\ waiters' = waiters
    BY <1>2 DEF Acquire, Goto
  <2>2. Holders' = Holders \cup {t}
    BY <2>1 DEF Holders, PermitInv
  <2>3. Cardinality(Holders') = Cardinality(Holders) + 1
    BY <1>1, <2>2, HoldersFinite, FS_AddElement
  <2>4. \A u \in Tasks : At(u, "waiting")' <=> At(u, "waiting")
    BY <1>1, <2>1 DEF At, PermitInv
  <2>5. waiters = << >>
    BY <1>2 DEF PermitInv, PermitsConserved
  <2>6. pc' \in [Tasks -> PC]
    BY <2>1 DEF PC, PermitInv
  <2>7. permits' \in Nat /\ permits' + Cardinality(Holders') = MaxConcurrency
    BY <1>2, <2>1, <2>3, HoldersFinite DEF PermitInv, PermitsConserved
  <2>8. QED
    BY <2>1, <2>4, <2>5, <2>6, <2>7 DEF PermitInv, PermitsConserved
<1>3. CASE permits = 0
  <2>1. /\ permits' = permits
        /\ pc' = [pc EXCEPT ![t] = "waiting"]
        /\ waiters' = Append(waiters, t)
    BY <1>3 DEF Acquire, Goto
  <2>2. Holders' = Holders
    BY <1>1, <2>1 DEF Holders, PermitInv
  <2>3. \A i \in DOMAIN waiters : waiters[i] # t
    BY <1>1 DEF PermitInv, PermitsConserved, At
  <2>4. /\ waiters' \in Seq(Tasks)
        /\ Len(waiters') = Len(waiters) + 1
        /\ \A i \in DOMAIN waiters : waiters'[i] = waiters[i]
        /\ waiters'[Len(waiters) + 1] = t
    BY <2>1 DEF PermitInv
  <2>5. DOMAIN waiters = 1..Len(waiters) /\ DOMAIN waiters' = 1..(Len(waiters) + 1)
    BY <2>4 DEF PermitInv
  <2>6. Len(waiters) \in Nat
    BY DEF PermitInv
  <2> DEFINE n == Len(waiters)
  <2> HIDE DEF n
  <2>7. /\ n \in Nat /\ DOMAIN waiters = 1..n /\ DOMAIN waiters' = 1..(n + 1)
        /\ \A i \in 1..n : waiters'[i] = waiters[i]
        /\ waiters'[n + 1] = t
    BY <2>4, <2>5, <2>6 DEF n
  <2>8. \A u \in Tasks : At(u, "waiting")' <=> \E i \in DOMAIN waiters' : waiters'[i] = u
    <3>1. \A u \in Tasks : At(u, "waiting")' <=> At(u, "waiting") \/ u = t
      BY <2>1 DEF At, PermitInv
    <3>2. \A u \in Tasks : At(u, "waiting") <=> \E i \in 1..n : waiters[i] = u
      BY <2>7 DEF PermitInv, PermitsConserved
    <3>3. \A u : (\E i \in 1..(n + 1) : waiters'[i] = u)
                    <=> (\E i \in 1..n : waiters[i] = u) \/ u = t
      BY <2>7
    <3>4. QED
      BY <3>1, <3>2, <3>3, <2>7
  <2>9. \A i, j \in DOMAIN waiters' : waiters'[i] = waiters'[j] => i = j
    <3>1. \A i, j \in 1..n : waiters[i] = waiters[j] => i = j
      BY <2>7 DEF PermitInv, PermitsConserved
    <3>2. \A i \in 1..n : waiters[i] # t
      BY <2>3, <2>7
    <3>3. QED
      BY <2>7, <3>1, <3>2
  <2>10. pc' \in [Tasks -> PC]
    BY <2>1 DEF PC, PermitInv
  <2>11. permits' = 0
    BY <1>3, <2>1
  <2>12. QED
    BY <2>1, <2>2, <2>4, <2>8, <2>9, <2>10, <2>11 DEF PermitInv, PermitsConserved
<1>4. QED
  BY <1>2, <1>3 DEF PermitInv

\* A task that ends returns its permit, or hands it to the head of the queue.
LEMMA FinishPermits ==
    ASSUME PermitInv, NEW t \in Holders, NEW r, Finish(t, r)
    PROVE  PermitInv'
<1>1. t \in Tasks /\ ~At(t, "waiting")
  BY DEF Holders, At
<1>2. CASE waiters = << >>
  <2>1. /\ permits' = permits + 1
        /\ pc' = [pc EXCEPT ![t] = "done"]
        /\ waiters' = waiters
    BY <1>2 DEF Finish
  <2>2. Holders' = Holders \ {t}
    BY <1>1, <2>1 DEF Holders, PermitInv
  <2>3. Cardinality(Holders') = Cardinality(Holders) - 1
    BY <2>2, HoldersFinite, FS_RemoveElement
  <2>4. \A u \in Tasks : At(u, "waiting")' <=> At(u, "waiting")
    BY <1>1, <2>1 DEF At, PermitInv
  <2>5. pc' \in [Tasks -> PC]
    BY <1>1, <2>1 DEF PC, PermitInv
  <2>6. permits' \in Nat /\ permits' + Cardinality(Holders') = MaxConcurrency
    BY <2>1, <2>3, HoldersFinite DEF PermitInv, PermitsConserved
  <2>7. QED
    BY <1>2, <2>1, <2>4, <2>5, <2>6 DEF PermitInv, PermitsConserved
<1>3. CASE waiters # << >>
  <2> DEFINE h == Head(waiters)
             n == Len(waiters)
  <2>1. /\ permits' = permits
        /\ pc' = [pc EXCEPT ![t] = "done", ![h] = "check"]
        /\ waiters' = Tail(waiters)
    BY <1>3 DEF Finish
  <2>2. /\ n \in Nat /\ n > 0
        /\ DOMAIN waiters = 1..n
        /\ h = waiters[1] /\ h \in Tasks
        /\ waiters' \in Seq(Tasks) /\ DOMAIN waiters' = 1..(n - 1)
        /\ \A i \in 1..(n - 1) : waiters'[i] = waiters[i + 1]
    BY <1>3, <2>1 DEF PermitInv
  <2>3. At(h, "waiting") /\ h # t /\ h \notin Holders
    BY <1>1, <2>2 DEF PermitInv, PermitsConserved, At, Holders
  <2> HIDE DEF h, n
  <2>4. Holders' = (Holders \ {t}) \cup {h}
    BY <1>1, <2>1, <2>2, <2>3 DEF Holders, PermitInv
  <2>5. Cardinality(Holders') = Cardinality(Holders)
    <3>1. /\ IsFiniteSet(Holders \ {t})
          /\ Cardinality(Holders \ {t}) = Cardinality(Holders) - 1
      BY HoldersFinite, FS_RemoveElement
    <3>2. h \notin Holders \ {t}
      BY <2>3
    <3>3. Cardinality((Holders \ {t}) \cup {h}) = Cardinality(Holders \ {t}) + 1
      BY <3>1, <3>2, FS_AddElement
    <3>4. QED
      BY <3>1, <3>3, <2>4, HoldersFinite
  <2>6. \A u \in Tasks : At(u, "waiting")' <=> At(u, "waiting") /\ u # h
    BY <1>1, <2>1, <2>2, <2>3 DEF At, PermitInv
  <2>7. \A i, j \in 1..n : waiters[i] = waiters[j] => i = j
    BY <2>2 DEF PermitInv, PermitsConserved
  <2>8. \A u \in Tasks : At(u, "waiting")' <=> \E i \in DOMAIN waiters' : waiters'[i] = u
    <3>1. \A u \in Tasks : At(u, "waiting") <=> \E i \in 1..n : waiters[i] = u
      BY <2>2 DEF PermitInv, PermitsConserved
    <3>2. \A u : (\E i \in 1..n : waiters[i] = u) /\ u # h
                    => \E i \in 1..(n - 1) : waiters'[i] = u
      <4>1. ASSUME NEW u, NEW i \in 1..n, waiters[i] = u, u # h
            PROVE  i - 1 \in 1..(n - 1) /\ waiters'[i - 1] = u
        <5>1. i # 1 /\ i - 1 \in 1..(n - 1) /\ (i - 1) + 1 = i
          BY <4>1, <2>2
        <5>2. QED
          BY <5>1, <4>1, <2>2
      <4>2. QED
        BY <4>1
    <3>3. \A u : (\E i \in 1..(n - 1) : waiters'[i] = u)
                    => (\E i \in 1..n : waiters[i] = u) /\ u # h
      <4>1. ASSUME NEW u, NEW i \in 1..(n - 1), waiters'[i] = u
            PROVE  i + 1 \in 1..n /\ waiters[i + 1] = u /\ u # h
        <5>1. i + 1 \in 1..n /\ i + 1 # 1 /\ 1 \in 1..n /\ waiters[i + 1] = u
          BY <4>1, <2>2
        <5>2. QED
          BY <5>1, <2>2, <2>7
      <4>2. QED
        BY <4>1
    <3>4. QED
      BY <3>1, <3>2, <3>3, <2>2, <2>6
  <2>9. \A i, j \in DOMAIN waiters' : waiters'[i] = waiters'[j] => i = j
    <3>1. ASSUME NEW i \in 1..(n - 1), NEW j \in 1..(n - 1), waiters'[i] = waiters'[j]
          PROVE  i = j
      <4>1. i + 1 \in 1..n /\ j + 1 \in 1..n /\ waiters[i + 1] = waiters[j + 1]
        BY <3>1, <2>2
      <4>2. i + 1 = j + 1
        BY <4>1, <2>7
      <4>3. QED
        BY <4>2
    <3>2. QED
      BY <3>1, <2>2
  <2>10. pc' \in [Tasks -> PC]
    BY <1>1, <2>1, <2>2 DEF PC, PermitInv
  <2>11. permits = 0
    BY <1>3 DEF PermitInv, PermitsConserved
  <2>12. QED
    BY <2>1, <2>2, <2>5, <2>8, <2>9, <2>10, <2>11 DEF PermitInv, PermitsConserved
<1>4. QED
  BY <1>2, <1>3

-----------------------------------------------------------------------------
(* The kinds of steps. *)

PermitVars == <<pc, permits, waiters, result>>

\* Every step of Dispatch does one of five things to the semaphore and the
\* results: nothing, it spawns a task, a task acquires a permit, a task that
\* holds one goes on with it, or it ends.
StepKind ==
    \/ UNCHANGED PermitVars
    \/ \E t \in Tasks : Spawn(t)
    \/ \E t \in Tasks : Acquire(t)
    \/ \E t \in Holders, label \in HolderPC : Continue(t, label)
    \/ \E t \in Holders, r \in Result : Finish(t, r)

LEMMA StepKinds == ASSUME [Next]_vars PROVE StepKind
<1>1. \A t \in Tasks : pc[t] \in HolderPC => t \in Holders
  BY DEF Holders, HolderPC
<1>2. ASSUME NEW t \in Tasks, TaskStep(t)
      PROVE  StepKind
  <2>1. CASE Acquire(t)
    BY <2>1 DEF StepKind
  <2>2. CASE CheckCircuit(t)
    <3>1. t \in Holders
      BY <1>1, <2>2 DEF CheckCircuit, At, HolderPC, PC
    <3>2. Continue(t, "lookup") \/ Finish(t, "rejected")
      BY <2>2 DEF CheckCircuit
    <3>3. QED
      BY <3>1, <3>2 DEF StepKind, HolderPC, PC, Result
  <2>3. CASE Lookup(t)
    <3>1. t \in Holders
      BY <1>1, <2>3 DEF Lookup, At, HolderPC, PC
    <3>2. Continue(t, "prompt") \/ Finish(t, "hit")
      BY <2>3 DEF Lookup
    <3>3. QED
      BY <3>1, <3>2 DEF StepKind, HolderPC, PC, Result
  <2>4. CASE BuildPrompt(t) \/ Backoff(t)
    <3>1. t \in Holders /\ Continue(t, "execute")
      BY <1>1, <2>4 DEF BuildPrompt, Backoff, At, HolderPC, PC
    <3>2. QED
      BY <3>1 DEF StepKind, HolderPC, PC
  <2>5. CASE ExecuteOk(t)
    <3>1. t \in Holders /\ Continue(t, "record_success")
      BY <1>1, <2>5 DEF ExecuteOk, At, HolderPC, PC
    <3>2. QED
      BY <3>1 DEF StepKind, HolderPC, PC
  <2>6. CASE ExecuteErr(t)
    <3>1. t \in Holders /\ Continue(t, "record_failure")
      BY <1>1, <2>6 DEF ExecuteErr, At, HolderPC, PC
    <3>2. QED
      BY <3>1 DEF StepKind, HolderPC, PC
  <2>7. CASE ExecutePanic(t)
    <3>1. t \in Holders /\ Finish(t, "panic")
      BY <1>1, <2>7 DEF ExecutePanic, At, HolderPC, PC
    <3>2. QED
      BY <3>1 DEF StepKind, Result
  <2>8. CASE ReportSuccess(t)
    <3>1. t \in Holders /\ Continue(t, "store")
      BY <1>1, <2>8 DEF ReportSuccess, At, HolderPC, PC
    <3>2. QED
      BY <3>1 DEF StepKind, HolderPC, PC
  <2>9. CASE Store(t)
    <3>1. t \in Holders /\ Finish(t, "answered")
      BY <1>1, <2>9 DEF Store, At, HolderPC, PC
    <3>2. QED
      BY <3>1 DEF StepKind, Result
  <2>10. CASE ReportFailure(t)
    <3>1. t \in Holders
      BY <1>1, <2>10 DEF ReportFailure, At, HolderPC, PC
    <3>2. Continue(t, "backoff") \/ Finish(t, "error")
      BY <2>10 DEF ReportFailure
    <3>3. QED
      BY <3>1, <3>2 DEF StepKind, HolderPC, PC, Result
  <2>11. QED
    BY <1>2, <2>1, <2>2, <2>3, <2>4, <2>5, <2>6, <2>7, <2>8, <2>9, <2>10 DEF TaskStep
<1>3. ASSUME \/ \E k \in Key : Evict(k)
             \/ \E s \in Sessions : AddLedgerEntry(s)
             \/ Tick
             \/ AllDone
             \/ UNCHANGED vars
      PROVE  StepKind
  BY <1>3 DEF Evict, AddLedgerEntry, Tick, AllDone, vars, PermitVars, StepKind
<1>4. QED
  BY <1>2, <1>3 DEF Next, StepKind

LEMMA InitPermits == Init => PermitInv
<1> SUFFICES ASSUME Init
             PROVE  PermitInv
  OBVIOUS
<1>1. Holders = {}
  BY DEF Init, Holders
<1>2. Cardinality(Holders) = 0
  BY <1>1, FS_EmptySet
<1>3. \A t \in Tasks : ~At(t, "waiting")
  BY DEF Init, At
<1>4. QED
  BY <1>2, <1>3, DispatchConfig DEF Init, PermitInv, PermitsConserved, PC

LEMMA NextPermits == PermitInv /\ [Next]_vars => PermitInv'
<1> SUFFICES ASSUME PermitInv, [Next]_vars
             PROVE  PermitInv'
  OBVIOUS
<1>1. CASE UNCHANGED PermitVars
  BY <1>1 DEF PermitVars, PermitInv, PermitsConserved, Holders, At
<1>2. QED
  BY <1>1, StepKinds, SpawnPermits, AcquirePermits, ContinuePermits, FinishPermits DEF StepKind

\* No way a task can end loses a permit or makes one up, and no permit is free
\* while a task waits for one.
THEOREM SemaphoreConserved == Spec => []PermitsConserved
<1>1. PermitInv => PermitsConserved
  BY DEF PermitInv
<1>2. QED
  BY <1>1, InitPermits, NextPermits, PTL DEF Spec

\* What a service built with max_concurrency 0 does, which nothing rejects.
NothingStarts ==
    MaxConcurrency = 0 => \A t \in Tasks : pc[t] \in {"unspawned", "spawned", "waiting"}

\* With max_concurrency 0 no task ever gets past acquire(): the subtasks of a request are
\* spawned and wait, and process(), which joins them, waits with them.
THEOREM NoPermitNoStart == Spec => []NothingStarts
<1>1. Init => NothingStarts
  BY DEF Init, NothingStarts
<1>2. PermitInv /\ PermitInv' /\ NothingStarts /\ [Next]_vars => NothingStarts'
  <2> SUFFICES ASSUME PermitInv, PermitInv', NothingStarts, [Next]_vars, MaxConcurrency = 0
               PROVE  \A t \in Tasks : pc'[t] \in {"unspawned", "spawned", "waiting"}
    BY DEF NothingStarts
  <2>1. \A t \in Tasks : pc[t] \in {"unspawned", "spawned", "waiting"}
    BY DEF NothingStarts
  <2>2. Holders = {}
    BY <2>1 DEF Holders
  <2>3. permits = 0
    BY <2>2, FS_EmptySet DEF PermitInv, PermitsConserved
  <2>4. CASE UNCHANGED PermitVars
    BY <2>1, <2>4 DEF PermitVars
  <2>5. ASSUME NEW t \in Tasks, Spawn(t)
        PROVE  \A u \in Tasks : pc'[u] \in {"unspawned", "spawned", "waiting"}
    BY <2>1, <2>5 DEF Spawn, Continue, Goto, PermitInv
  <2>6. ASSUME NEW t \in Tasks, Acquire(t)
        PROVE  \A u \in Tasks : pc'[u] \in {"unspawned", "spawned", "waiting"}
    BY <2>1, <2>3, <2>6 DEF Acquire, Goto, PermitInv
  <2>7. QED
    BY <2>2, <2>4, <2>5, <2>6, StepKinds DEF StepKind
<1>3. QED
  BY <1>1, <1>2, InitPermits, NextPermits, PTL DEF Spec

-----------------------------------------------------------------------------
(* Attempts, results and types. *)

\* How far a task is tells how many attempts it has begun, and whether it has
\* a result.
AttemptOK(p, n, r) ==
    /\ p \in PC
    /\ n \in 0..MaxRetries + 1
    /\ r \in Result \cup {NoResult}
    /\ p \in {"unspawned", "spawned", "waiting", "check", "lookup", "prompt"} => n = 0
    /\ p \in {"execute", "record_success", "store", "record_failure"} => n >= 1
    /\ p = "backoff" => n \in 1..MaxRetries
    /\ p # "done" => r = NoResult
    /\ r \in {"hit", "rejected"} => n = 0
    /\ r = "error" => n = MaxRetries + 1
    /\ r \in {"answered", "panic"} => n >= 1

AttemptInv == \A t \in Tasks : AttemptOK(pc[t], attempts[t], result[t])

\* The type of the other variables.
DataOK ==
    /\ job \in [Tasks -> Job]
    /\ attempts \in [Tasks -> 0..MaxRetries + 1]
    /\ system \in [Tasks -> SystemPrompt]
    /\ result \in [Tasks -> Result \cup {NoResult}]
    /\ circuits \in [Agents -> GoodCircuit]
    /\ cache \in [Key -> Entry]
    /\ ledger \in [Sessions -> SystemPrompt]

IInv == PermitInv /\ AttemptInv /\ DataOK

LEMMA IInvImplies == IInv => TypeOK /\ AttemptsMatchResult
<1> SUFFICES ASSUME IInv
             PROVE  TypeOK /\ AttemptsMatchResult
  OBVIOUS
<1>1. permits \in 0..MaxConcurrency
  BY HoldersFinite, DispatchConfig DEF IInv, PermitInv, PermitsConserved
<1>2. QED
  BY <1>1, DispatchConfig
     DEF IInv, TypeOK, PermitInv, DataOK, GoodCircuit, AttemptInv, AttemptOK,
         AttemptsMatchResult, At

LEMMA InitIInv == Init => IInv
<1>1. Init => AttemptInv
  BY DispatchConfig DEF Init, AttemptInv, AttemptOK, PC, NoResult, Result
<1>2. Init => DataOK
  BY DispatchConfig, CircuitTypes DEF Init, DataOK, SystemPrompt, Entry
<1>3. QED
  BY <1>1, <1>2, InitPermits DEF IInv

\* What a task's end does to the others: at most one, which was waiting, goes on.
LEMMA FinishOthers ==
    ASSUME PermitInv, NEW t \in Holders, NEW r, Finish(t, r)
    PROVE  /\ t \in Tasks /\ pc'[t] = "done"
           /\ \A u \in Tasks \ {t} : \/ pc'[u] = pc[u]
                                     \/ pc[u] = "waiting" /\ pc'[u] = "check"
<1>1. t \in Tasks /\ ~At(t, "waiting")
  BY DEF Holders, At
<1>2. CASE waiters = << >>
  BY <1>1, <1>2 DEF Finish, PermitInv
<1>3. CASE waiters # << >>
  <2>1. 1 \in DOMAIN waiters /\ Head(waiters) = waiters[1] /\ Head(waiters) \in Tasks
    BY <1>3 DEF PermitInv
  <2>2. At(Head(waiters), "waiting")
    BY <2>1 DEF PermitInv, PermitsConserved
  <2>3. pc' = [pc EXCEPT ![t] = "done", ![Head(waiters)] = "check"]
    BY <1>3 DEF Finish
  <2>4. QED
    BY <1>1, <2>1, <2>2, <2>3 DEF PermitInv, At
<1>4. QED
  BY <1>2, <1>3

\* The end of a task with a result that fits its attempts.
LEMMA FinishAttempts ==
    ASSUME IInv, NEW t \in Holders, NEW r \in Result, Finish(t, r),
           AttemptOK("done", attempts[t], r), attempts' = attempts
    PROVE  AttemptInv' /\ result' \in [Tasks -> Result \cup {NoResult}]
<1>1. result' = [result EXCEPT ![t] = r] /\ t \in Tasks
  BY DEF Finish, Holders
<1>2. \A u \in Tasks \ {t} : result'[u] = result[u]
  BY <1>1 DEF IInv, DataOK
<1>3. result'[t] = r
  BY <1>1 DEF IInv, DataOK
<1>4. \A u \in Tasks \ {t} : AttemptOK(pc'[u], attempts'[u], result'[u])
  BY <1>2, FinishOthers DEF IInv, AttemptInv, AttemptOK, PC
<1>5. AttemptOK(pc'[t], attempts'[t], result'[t])
  BY <1>3, FinishOthers DEF IInv
<1>6. result' \in [Tasks -> Result \cup {NoResult}]
  BY <1>1 DEF IInv, DataOK
<1>7. QED
  BY <1>4, <1>5, <1>6 DEF AttemptInv

\* A task goes on to a place that fits its attempts.
LEMMA ContinueAttempts ==
    ASSUME IInv, NEW t \in Tasks, NEW label \in PC, NEW n, Continue(t, label),
           attempts' = [attempts EXCEPT ![t] = n],
           AttemptOK(label, n, result[t])
    PROVE  /\ AttemptInv'
           /\ attempts' \in [Tasks -> 0..MaxRetries + 1]
           /\ result' \in [Tasks -> Result \cup {NoResult}]
<1>1. pc' = [pc EXCEPT ![t] = label] /\ result' = result
  BY DEF Continue, Goto
<1>2. pc \in [Tasks -> PC] /\ attempts \in [Tasks -> 0..MaxRetries + 1]
  BY DEF IInv, PermitInv, DataOK
<1>3. n \in 0..MaxRetries + 1
  BY DEF AttemptOK
<1>4. AttemptInv'
  <2>1. ASSUME NEW u \in Tasks
        PROVE  AttemptOK(pc'[u], attempts'[u], result'[u])
    <3>1. CASE u = t
      BY <1>1, <1>2, <3>1
    <3>2. CASE u # t
      BY <1>1, <1>2, <3>2 DEF IInv, AttemptInv
    <3>3. QED
      BY <3>1, <3>2
  <2>2. QED
    BY <2>1 DEF AttemptInv
<1>5. QED
  BY <1>1, <1>2, <1>3, <1>4 DEF IInv, DataOK

\* Every step of a spawned task keeps the attempts in step with the program
\* counter and the data within its type.
LEMMA TaskStepData ==
    ASSUME IInv, NEW t \in Tasks, TaskStep(t)
    PROVE  AttemptInv' /\ DataOK'
<1> DEFINE a == job[t].agent
           Same == [attempts EXCEPT ![t] = attempts[t]]
<1>1. /\ a \in Agents /\ job[t].session \in Sessions /\ KeyOf(t) \in Key
      /\ circuits[a] \in GoodCircuit
      /\ Same = attempts
      /\ AttemptOK(pc[t], attempts[t], result[t])
      /\ ledger[job[t].session] \in SystemPrompt /\ system[t] \in SystemPrompt
  BY DEF IInv, DataOK, AttemptInv, Job, KeyOf, Key
<1>2. pc[t] \in HolderPC => t \in Holders
  BY DEF Holders, HolderPC
<1>3. DataOK
  BY DEF IInv
<1> HIDE DEF a, Same
<1>4. \A c \in GoodCircuit : [circuits EXCEPT ![a] = c] \in [Agents -> GoodCircuit]
  BY <1>3 DEF DataOK
<1>5. CASE Acquire(t)
  <2>1. attempts' = attempts /\ result' = result /\ pc[t] = "spawned"
    BY <1>5 DEF Acquire, At
  <2>2. \A u \in Tasks : \/ pc'[u] = pc[u]
                         \/ pc[u] = "spawned" /\ pc'[u] \in {"check", "waiting"}
    BY <1>5, <2>1 DEF Acquire, Goto, IInv, PermitInv
  <2>3. AttemptInv'
    BY <2>1, <2>2 DEF IInv, AttemptInv, AttemptOK, PC
  <2>4. QED
    BY <1>3, <1>5, <2>3 DEF Acquire, DataOK
<1>6. CASE CheckCircuit(t)
  <2>1. /\ pc[t] = "check" /\ t \in Holders
        /\ attempts' = attempts
        /\ circuits' = [circuits EXCEPT ![a] = AfterCheck(circuits[a])]
        /\ UNCHANGED <<job, system, cache, ledger>>
        /\ Continue(t, "lookup") \/ Finish(t, "rejected")
    BY <1>2, <1>6 DEF CheckCircuit, At, HolderPC, PC, a
  <2>2. circuits' \in [Agents -> GoodCircuit]
    BY <1>1, <1>4, <2>1, CircuitTypes
  <2>3. AttemptInv' /\ result' \in [Tasks -> Result \cup {NoResult}]
    <3>1. CASE Continue(t, "lookup")
      <4>1. AttemptOK("lookup", attempts[t], result[t])
        BY <1>1, <2>1 DEF AttemptOK, PC
      <4>2. QED
        BY <1>1, <2>1, <3>1, <4>1, ContinueAttempts DEF PC, Same
    <3>2. CASE Finish(t, "rejected")
      <4>1. AttemptOK("done", attempts[t], "rejected")
        BY <1>1, <2>1 DEF AttemptOK, PC, Result
      <4>2. QED
        BY <2>1, <3>2, <4>1, FinishAttempts DEF Result
    <3>3. QED
      BY <2>1, <3>1, <3>2
  <2>4. QED
    BY <1>3, <2>1, <2>2, <2>3 DEF DataOK
<1>7. CASE Lookup(t)
  <2>1. /\ pc[t] = "lookup" /\ t \in Holders
        /\ attempts' = attempts
        /\ UNCHANGED <<job, system, circuits, cache, ledger>>
        /\ Continue(t, "prompt") \/ Finish(t, "hit")
    BY <1>2, <1>7 DEF Lookup, At, HolderPC, PC
  <2>2. AttemptInv' /\ result' \in [Tasks -> Result \cup {NoResult}]
    <3>1. CASE Continue(t, "prompt")
      <4>1. AttemptOK("prompt", attempts[t], result[t])
        BY <1>1, <2>1 DEF AttemptOK, PC
      <4>2. QED
        BY <1>1, <2>1, <3>1, <4>1, ContinueAttempts DEF PC, Same
    <3>2. CASE Finish(t, "hit")
      <4>1. AttemptOK("done", attempts[t], "hit")
        BY <1>1, <2>1 DEF AttemptOK, PC, Result
      <4>2. QED
        BY <2>1, <3>2, <4>1, FinishAttempts DEF Result
    <3>3. QED
      BY <2>1, <3>1, <3>2
  <2>3. QED
    BY <1>3, <2>1, <2>2 DEF DataOK
<1>8. CASE BuildPrompt(t)
  <2>1. /\ pc[t] = "prompt"
        /\ attempts' = [attempts EXCEPT ![t] = 1]
        /\ system' = [system EXCEPT ![t] = ledger[job[t].session]]
        /\ UNCHANGED <<job, circuits, cache, ledger>>
        /\ Continue(t, "execute")
    BY <1>8 DEF BuildPrompt, At
  <2>2. AttemptOK("execute", 1, result[t])
    BY <1>1, <2>1, DispatchConfig DEF AttemptOK, PC, NoResult, Result
  <2>3. AttemptInv' /\ attempts' \in [Tasks -> 0..MaxRetries + 1]
        /\ result' \in [Tasks -> Result \cup {NoResult}]
    BY <2>1, <2>2, ContinueAttempts DEF PC
  <2>4. QED
    BY <1>1, <1>3, <2>1, <2>3 DEF DataOK
<1>9. CASE ExecuteOk(t) \/ ExecuteErr(t)
  <2>1. PICK label \in {"record_success", "record_failure"} : Continue(t, label)
    BY <1>9 DEF ExecuteOk, ExecuteErr
  <2>2. /\ pc[t] = "execute"
        /\ attempts' = attempts
        /\ UNCHANGED <<job, system, circuits, cache, ledger>>
    BY <1>9 DEF ExecuteOk, ExecuteErr, At
  <2>3. AttemptOK(label, attempts[t], result[t])
    BY <1>1, <2>2 DEF AttemptOK, PC
  <2>4. AttemptInv' /\ result' \in [Tasks -> Result \cup {NoResult}]
    BY <1>1, <2>1, <2>2, <2>3, ContinueAttempts DEF PC, Same
  <2>5. QED
    BY <1>3, <2>2, <2>4 DEF DataOK
<1>10. CASE ExecutePanic(t)
  <2>1. /\ pc[t] = "execute" /\ t \in Holders
        /\ attempts' = attempts
        /\ UNCHANGED <<job, system, circuits, cache, ledger>>
        /\ Finish(t, "panic")
    BY <1>2, <1>10 DEF ExecutePanic, At, HolderPC, PC
  <2>2. AttemptOK("done", attempts[t], "panic")
    BY <1>1, <2>1 DEF AttemptOK, PC, Result
  <2>3. AttemptInv' /\ result' \in [Tasks -> Result \cup {NoResult}]
    BY <2>1, <2>2, FinishAttempts DEF Result
  <2>4. QED
    BY <1>3, <2>1, <2>3 DEF DataOK
<1>11. CASE ReportSuccess(t)
  <2>1. /\ pc[t] = "record_success"
        /\ attempts' = attempts
        /\ circuits' = [circuits EXCEPT ![a] = AfterSuccess(circuits[a])]
        /\ UNCHANGED <<job, system, cache, ledger>>
        /\ Continue(t, "store")
    BY <1>11 DEF ReportSuccess, At, a
  <2>2. circuits' \in [Agents -> GoodCircuit]
    BY <1>1, <1>4, <2>1, CircuitTypes
  <2>3. AttemptOK("store", attempts[t], result[t])
    BY <1>1, <2>1 DEF AttemptOK, PC
  <2>4. AttemptInv' /\ result' \in [Tasks -> Result \cup {NoResult}]
    BY <1>1, <2>1, <2>3, ContinueAttempts DEF PC, Same
  <2>5. QED
    BY <1>3, <2>1, <2>2, <2>4 DEF DataOK
<1>12. CASE Store(t)
  <2>1. /\ pc[t] = "store" /\ t \in Holders
        /\ attempts' = attempts
        /\ cache' = [cache EXCEPT ![KeyOf(t)] = system[t]]
        /\ UNCHANGED <<job, system, circuits, ledger>>
        /\ Finish(t, "answered")
    BY <1>2, <1>12 DEF Store, At, HolderPC, PC
  <2>2. AttemptOK("done", attempts[t], "answered")
    BY <1>1, <2>1 DEF AttemptOK, PC, Result
  <2>3. AttemptInv' /\ result' \in [Tasks -> Result \cup {NoResult}]
    BY <2>1, <2>2, FinishAttempts DEF Result
  <2>4. cache' \in [Key -> Entry]
    BY <1>1, <1>3, <2>1 DEF DataOK, Entry
  <2>5. QED
    BY <1>3, <2>1, <2>3, <2>4 DEF DataOK
<1>13. CASE ReportFailure(t)
  <2>1. /\ pc[t] = "record_failure" /\ t \in Holders
        /\ attempts' = attempts
        /\ circuits' = [circuits EXCEPT ![a] = AfterFailure(circuits[a])]
        /\ UNCHANGED <<job, system, cache, ledger>>
        /\ IF attempts[t] <= MaxRetries THEN Continue(t, "backoff") ELSE Finish(t, "error")
    BY <1>2, <1>13 DEF ReportFailure, At, HolderPC, PC, a
  <2>2. circuits' \in [Agents -> GoodCircuit]
    BY <1>1, <1>4, <2>1, CircuitTypes
  <2>3. AttemptInv' /\ result' \in [Tasks -> Result \cup {NoResult}]
    <3>1. CASE attempts[t] <= MaxRetries
      <4>1. AttemptOK("backoff", attempts[t], result[t])
        BY <1>1, <2>1, <3>1, DispatchConfig DEF AttemptOK, PC
      <4>2. QED
        BY <1>1, <2>1, <3>1, <4>1, ContinueAttempts DEF PC, Same
    <3>2. CASE ~(attempts[t] <= MaxRetries)
      <4>1. AttemptOK("done", attempts[t], "error")
        BY <1>1, <2>1, <3>2, DispatchConfig DEF AttemptOK, PC, Result
      <4>2. QED
        BY <2>1, <3>2, <4>1, FinishAttempts DEF Result
    <3>3. QED
      BY <3>1, <3>2
  <2>4. QED
    BY <1>3, <2>1, <2>2, <2>3 DEF DataOK
<1>14. CASE Backoff(t)
  <2>1. /\ pc[t] = "backoff"
        /\ attempts' = [attempts EXCEPT ![t] = attempts[t] + 1]
        /\ UNCHANGED <<job, system, circuits, cache, ledger>>
        /\ Continue(t, "execute")
    BY <1>14 DEF Backoff, At
  <2>2. AttemptOK("execute", attempts[t] + 1, result[t])
    BY <1>1, <2>1, DispatchConfig DEF AttemptOK, PC, NoResult, Result
  <2>3. AttemptInv' /\ attempts' \in [Tasks -> 0..MaxRetries + 1]
        /\ result' \in [Tasks -> Result \cup {NoResult}]
    BY <2>1, <2>2, ContinueAttempts DEF PC
  <2>4. QED
    BY <1>3, <2>1, <2>3 DEF DataOK
<1>15. QED
  BY <1>5, <1>6, <1>7, <1>8, <1>9, <1>10, <1>11, <1>12, <1>13, <1>14 DEF TaskStep

LEMMA NextIInv == IInv /\ [Next]_vars => IInv'
<1> SUFFICES ASSUME IInv, [Next]_vars
             PROVE  AttemptInv' /\ DataOK'
  BY NextPermits DEF IInv
<1>1. ASSUME NEW t \in Tasks, Spawn(t)
      PROVE  AttemptInv' /\ DataOK'
  <2>1. /\ pc[t] = "unspawned"
        /\ pc' = [pc EXCEPT ![t] = "spawned"]
        /\ UNCHANGED <<job, attempts, system, result, circuits, cache, ledger>>
    BY <1>1 DEF Spawn, At, Continue, Goto
  <2>2. AttemptInv'
    BY <2>1 DEF IInv, PermitInv, AttemptInv, AttemptOK, PC
  <2>3. QED
    BY <2>1, <2>2 DEF IInv, DataOK
<1>2. ASSUME NEW t \in Tasks, TaskStep(t)
      PROVE  AttemptInv' /\ DataOK'
  BY <1>2, TaskStepData
<1>3. ASSUME NEW k \in Key, Evict(k)
      PROVE  AttemptInv' /\ DataOK'
  BY <1>3 DEF Evict, IInv, AttemptInv, DataOK, Entry
<1>4. ASSUME NEW s \in Sessions, AddLedgerEntry(s)
      PROVE  AttemptInv' /\ DataOK'
  BY <1>4, DispatchConfig DEF AddLedgerEntry, IInv, AttemptInv, DataOK, SystemPrompt
<1>5. CASE Tick
  BY <1>5, CircuitTypes DEF Tick, IInv, AttemptInv, DataOK
<1>6. CASE AllDone \/ UNCHANGED vars
  BY <1>6 DEF AllDone, vars, IInv, AttemptInv, DataOK
<1>7. QED
  BY <1>1, <1>2, <1>3, <1>4, <1>5, <1>6 DEF Next

LEMMA AlwaysIInv == Spec => []IInv
BY InitIInv, NextIInv, PTL DEF Spec

\* Every variable keeps its type.
THEOREM TypeCorrect == Spec => []TypeOK
BY AlwaysIInv, IInvImplies, PTL

\* How a task ended tells how often its agent was called.
THEOREM AttemptsAgreeWithResults == Spec => []AttemptsMatchResult
BY AlwaysIInv, IInvImplies, PTL

-----------------------------------------------------------------------------
(* The refinement of TaskPool. *)

\* The place of a task in the pool, as a function of its program counter.
PoolPlace(p) ==
    IF p \in {"unspawned", "done"} THEN p
    ELSE IF p \in {"spawned", "waiting"} THEN "waiting"
    ELSE "running"

LEMMA PoolStatusIs ==
    /\ PoolStatus = [t \in Tasks |-> PoolPlace(pc[t])]
    /\ pc \in [Tasks -> PC] => Pool!In("running") = Holders
<1>1. PoolStatus = [t \in Tasks |-> PoolPlace(pc[t])]
  <2>1. \A t \in Tasks : PoolStatus[t] = PoolPlace(pc[t])
    BY DEF PoolStatus, PoolPlace
  <2>2. QED
    BY <2>1 DEF PoolStatus
<1>2. ASSUME pc \in [Tasks -> PC]
      PROVE  Pool!In("running") = Holders
  BY <1>1, <1>2 DEF Pool!In, Holders, PoolPlace, PC
<1>3. QED
  BY <1>1, <1>2

PoolVars == <<PoolStatus, result>>

\* A step that moves only task t to place s of the pool.
LEMMA PoolMoves ==
    ASSUME pc \in [Tasks -> PC], NEW t \in Tasks, NEW label \in PC,
           pc' = [pc EXCEPT ![t] = label]
    PROVE  PoolStatus' = [PoolStatus EXCEPT ![t] = PoolPlace(label)]
<1>1. PoolStatus' = [u \in Tasks |-> PoolPlace(pc'[u])]
  <2>1. \A u \in Tasks : PoolStatus'[u] = PoolPlace(pc'[u])
    BY DEF PoolStatus, PoolPlace
  <2>2. QED
    BY <2>1 DEF PoolStatus
<1>2. QED
  BY <1>1, PoolStatusIs

LEMMA PoolSteps ==
    ASSUME PermitInv, result \in [Tasks -> Result \cup {NoResult}], StepKind
    PROVE  [Pool!PoolNext]_PoolVars
<1>1. pc \in [Tasks -> PC] /\ PoolStatus = [t \in Tasks |-> PoolPlace(pc[t])]
  BY PoolStatusIs DEF PermitInv
<1>2. CASE UNCHANGED PermitVars
  BY <1>2 DEF PermitVars, PoolVars, PoolStatus
<1>3. ASSUME NEW t \in Tasks, Spawn(t)
      PROVE  Pool!PoolNext
  <2>1. pc[t] = "unspawned" /\ pc' = [pc EXCEPT ![t] = "spawned"] /\ result' = result
    BY <1>3 DEF Spawn, At, Continue, Goto
  <2>2. PoolStatus[t] = "unspawned" /\ PoolStatus' = [PoolStatus EXCEPT ![t] = "waiting"]
    BY <1>1, <2>1, PoolMoves DEF PoolPlace, PC
  <2>3. Pool!Submit(t)
    BY <2>1, <2>2 DEF Pool!Submit
  <2>4. QED
    BY <2>3 DEF Pool!PoolNext
<1>4. ASSUME NEW t \in Tasks, Acquire(t)
      PROVE  [Pool!PoolNext]_PoolVars
  <2>1. pc[t] = "spawned" /\ result' = result /\ PoolStatus[t] = "waiting"
    BY <1>1, <1>4 DEF Acquire, At, PoolPlace
  <2>2. CASE permits > 0
    <3>1. pc' = [pc EXCEPT ![t] = "check"]
      BY <1>4, <2>2 DEF Acquire, Goto
    <3>2. PoolStatus' = [PoolStatus EXCEPT ![t] = "running"]
      BY <1>1, <3>1, PoolMoves DEF PoolPlace, PC
    <3>3. Cardinality(Pool!In("running")) < MaxConcurrency
      BY <1>1, <2>2, PoolStatusIs, HoldersFinite DEF PermitInv, PermitsConserved
    <3>4. Pool!Start(t)
      BY <2>1, <3>2, <3>3 DEF Pool!Start, Cardinality, Pool!Cardinality
    <3>5. QED
      BY <3>4 DEF Pool!PoolNext
  <2>3. CASE ~(permits > 0)
    <3>1. pc' = [pc EXCEPT ![t] = "waiting"]
      BY <1>4, <2>3 DEF Acquire, Goto
    <3>2. PoolStatus' = [PoolStatus EXCEPT ![t] = "waiting"]
      BY <1>1, <3>1, PoolMoves DEF PoolPlace, PC
    <3>3. PoolStatus' = PoolStatus
      BY <1>1, <2>1, <3>2
    <3>4. QED
      BY <2>1, <3>3 DEF PoolVars
  <2>4. QED
    BY <2>2, <2>3
<1>5. ASSUME NEW t \in Holders, NEW label \in HolderPC, Continue(t, label)
      PROVE  UNCHANGED PoolVars
  <2>1. t \in Tasks /\ PoolStatus[t] = "running" /\ PoolPlace(label) = "running"
    BY <1>1 DEF Holders, HolderPC, PoolPlace, PC
  <2>2. PoolStatus' = [PoolStatus EXCEPT ![t] = "running"] /\ result' = result
    BY <1>1, <1>5, <2>1, PoolMoves DEF Continue, Goto, HolderPC
  <2>3. QED
    BY <1>1, <2>1, <2>2 DEF PoolVars
<1>6. ASSUME NEW t \in Holders, NEW r \in Result, Finish(t, r)
      PROVE  Pool!PoolNext
  <2>1. t \in Tasks /\ PoolStatus[t] = "running" /\ result' = [result EXCEPT ![t] = r]
    BY <1>1, <1>6 DEF Finish, Holders, PoolPlace
  <2>2. \/ PoolStatus' = [PoolStatus EXCEPT ![t] = "done"]
        \/ \E next \in Pool!In("waiting") :
              PoolStatus' = [PoolStatus EXCEPT ![t] = "done", ![next] = "running"]
    <3>1. CASE waiters = << >>
      <4>1. pc' = [pc EXCEPT ![t] = "done"]
        BY <1>6, <3>1 DEF Finish
      <4>2. QED
        BY <1>1, <2>1, <4>1, PoolMoves DEF PoolPlace, PC
    <3>2. CASE waiters # << >>
      <4> DEFINE h == Head(waiters)
      <4>1. pc' = [pc EXCEPT ![t] = "done", ![h] = "check"]
        BY <1>6, <3>2 DEF Finish
      <4>2. 1 \in DOMAIN waiters /\ h = waiters[1] /\ h \in Tasks
        BY <3>2 DEF PermitInv
      <4>3. pc[h] = "waiting"
        BY <4>2 DEF PermitInv, PermitsConserved, At
      <4> HIDE DEF h
      <4>4. h # t
        BY <4>3 DEF Holders
      <4>5. PoolStatus' = [u \in Tasks |-> PoolPlace(pc'[u])]
        <5>1. \A u \in Tasks : PoolStatus'[u] = PoolPlace(pc'[u])
          BY DEF PoolStatus, PoolPlace
        <5>2. QED
          BY <5>1 DEF PoolStatus
      <4>6. PoolStatus' = [PoolStatus EXCEPT ![t] = "done", ![h] = "running"]
        <5>1. \A u \in Tasks : pc'[u] = IF u = h THEN "check"
                                       ELSE IF u = t THEN "done" ELSE pc[u]
          BY <1>1, <2>1, <4>1, <4>2, <4>4
        <5>2. PoolPlace("check") = "running" /\ PoolPlace("done") = "done"
          BY DEF PoolPlace
        <5>3. \A u \in Tasks : PoolStatus'[u] = IF u = h THEN "running"
                                               ELSE IF u = t THEN "done" ELSE PoolStatus[u]
          BY <1>1, <4>5, <5>1, <5>2
        <5> HIDE DEF PoolPlace
        <5>4. QED
          BY <1>1, <2>1, <4>2, <4>4, <4>5, <5>3
      <4>7. h \in Pool!In("waiting")
        BY <1>1, <4>2, <4>3 DEF Pool!In, PoolPlace
      <4>8. QED
        BY <4>6, <4>7
    <3>3. QED
      BY <3>1, <3>2
  <2>3. Pool!Finish(t, r)
    BY <2>1, <2>2 DEF Pool!Finish
  <2>4. QED
    BY <2>1, <2>3 DEF Pool!PoolNext
<1>7. QED
  BY <1>2, <1>3, <1>4, <1>5, <1>6 DEF StepKind, PermitVars, PoolVars, PoolStatus

\* The tasks, their semaphore and all that they do under it are a pool of
\* MaxConcurrency slots.
THEOREM DispatchIsATaskPool == Spec => ImplementsTaskPool
<1>1. Init => Pool!PoolInit
  BY DEF Init, Pool!PoolInit, PoolStatus
<1>2. IInv /\ [Next]_vars => [Pool!PoolNext]_<<PoolStatus, result>>
  BY StepKinds, PoolSteps DEF IInv, DataOK, PoolVars
<1>3. QED
  BY <1>1, <1>2, AlwaysIInv, PTL DEF Spec, ImplementsTaskPool, Pool!PoolSpec

-----------------------------------------------------------------------------
(* The cached answers. *)

\* A task was given the answer s to the agent and prompt k.
Given(k, s) == \E t \in Tasks : KeyOf(t) = k /\ result[t] = "answered" /\ system[t] = s

\* What a step may do to the cache and the answers: an answer that was given
\* stays so, what is cached anew was given, and a hit was in the cache.
AnswersStep ==
    /\ job' = job
    /\ \A t \in Tasks : result[t] = "answered" => result'[t] = "answered" /\ system'[t] = system[t]
    /\ \A k \in Key : cache'[k] # NoEntry => cache'[k] = cache[k] \/ Given(k, cache[k])'
    /\ \A t \in Tasks : result'[t] = "hit" => result[t] = "hit" \/ cache[KeyOf(t)] # NoEntry

\* A step that changes neither the cache nor, but for the end of t, a result.
LEMMA PlainStep ==
    ASSUME IInv, NEW t \in Tasks, pc[t] # "done", UNCHANGED <<job, cache>>,
           \/ UNCHANGED result
           \/ \E r \in Result \ {"hit"} : result' = [result EXCEPT ![t] = r],
           \/ UNCHANGED system
           \/ \E s : system' = [system EXCEPT ![t] = s]
    PROVE  AnswersStep
<1>1. result[t] = NoResult
  BY DEF IInv, AttemptInv, AttemptOK
<1>2. \A u \in Tasks \ {t} : result'[u] = result[u] /\ system'[u] = system[u]
  BY DEF IInv, DataOK
<1>3. result'[t] # "hit"
  BY <1>1 DEF IInv, DataOK, NoResult
<1>4. QED
  BY <1>1, <1>2, <1>3 DEF AnswersStep, NoResult

LEMMA AnswersSteps == ASSUME IInv, [Next]_vars PROVE AnswersStep
<1>1. ASSUME NEW t \in Tasks, Spawn(t) \/ TaskStep(t)
      PROVE  AnswersStep
  <2>1. CASE Lookup(t)
    <3>1. result[t] = NoResult /\ UNCHANGED <<job, cache, system>>
      BY <2>1 DEF Lookup, At, IInv, AttemptInv, AttemptOK
    <3>2. \/ UNCHANGED result
          \/ cache[KeyOf(t)] # NoEntry /\ result' = [result EXCEPT ![t] = "hit"]
      BY <2>1 DEF Lookup, Continue, Finish
    <3>3. QED
      BY <3>1, <3>2 DEF AnswersStep, IInv, DataOK, NoResult
  <2>2. CASE Store(t)
    <3>1. /\ result[t] = NoResult /\ UNCHANGED <<job, system>>
          /\ result' = [result EXCEPT ![t] = "answered"]
          /\ cache' = [cache EXCEPT ![KeyOf(t)] = system[t]]
      BY <2>2 DEF Store, Finish, At, IInv, AttemptInv, AttemptOK
    <3>2. KeyOf(t)' = KeyOf(t) /\ result'[t] = "answered"
      BY <3>1 DEF KeyOf, IInv, DataOK
    <3>3. \A k \in Key : cache'[k] = IF k = KeyOf(t) THEN system[t] ELSE cache[k]
      BY <3>1 DEF IInv, DataOK
    <3>4. ASSUME NEW k \in Key, k = KeyOf(t)
          PROVE  Given(k, cache[k])'
      <4>1. cache'[k] = system'[t] /\ KeyOf(t)' = k
        BY <3>1, <3>2, <3>3, <3>4
      <4>2. QED
        BY <3>2, <4>1 DEF Given
    <3>5. \A k \in Key : cache'[k] # NoEntry => cache'[k] = cache[k] \/ Given(k, cache[k])'
      BY <3>3, <3>4
    <3>6. \A u \in Tasks \ {t} : result'[u] = result[u]
      BY <3>1 DEF IInv, DataOK
    <3>7. QED
      BY <3>1, <3>2, <3>5, <3>6 DEF AnswersStep, NoResult
  <2>3. CASE BuildPrompt(t)
    BY <2>3, PlainStep DEF BuildPrompt, At, Continue
  <2>4. CASE \/ Spawn(t) \/ Acquire(t) \/ ExecuteOk(t) \/ ExecuteErr(t)
             \/ ReportSuccess(t) \/ Backoff(t)
    <3>1. pc[t] # "done" /\ UNCHANGED <<job, cache, result, system>>
      BY <2>4 DEF Spawn, Acquire, ExecuteOk, ExecuteErr, ReportSuccess, Backoff, At, Continue
    <3>2. QED
      BY <3>1, PlainStep
  <2>5. CASE CheckCircuit(t) \/ ExecutePanic(t) \/ ReportFailure(t)
    <3>1. /\ pc[t] # "done" /\ UNCHANGED <<job, cache, system>>
          /\ \/ UNCHANGED result
             \/ \E r \in Result \ {"hit"} : result' = [result EXCEPT ![t] = r]
      BY <2>5 DEF CheckCircuit, ExecutePanic, ReportFailure, At, Continue, Finish, Result
    <3>2. QED
      BY <3>1, PlainStep
  <2>6. QED
    BY <1>1, <2>1, <2>2, <2>3, <2>4, <2>5 DEF TaskStep
<1>2. ASSUME NEW k \in Key, Evict(k)
      PROVE  AnswersStep
  BY <1>2 DEF Evict, AnswersStep, IInv, DataOK
<1>3. CASE UNCHANGED <<job, result, system, cache>>
  BY <1>3 DEF AnswersStep
<1>4. (\E s \in Sessions : AddLedgerEntry(s)) \/ Tick \/ AllDone \/ UNCHANGED vars
         => UNCHANGED <<job, result, system, cache>>
  BY DEF AddLedgerEntry, Tick, AllDone, vars
<1>5. QED
  BY <1>1, <1>2, <1>3, <1>4 DEF Next

\* No interleaving of tasks, retries, evictions and ledger entries puts into
\* the cache, or gives a task from it, what no agent has answered.
THEOREM CacheHoldsAnswers == Spec => []CachedAnswersWereGiven
<1>1. Init => CachedAnswersWereGiven
  BY DEF Init, CachedAnswersWereGiven, NoResult
<1>2. ASSUME IInv, CachedAnswersWereGiven, [Next]_vars
      PROVE  CachedAnswersWereGiven'
  <2>1. AnswersStep
    BY <1>2, AnswersSteps
  <2>2. \A t \in Tasks : KeyOf(t)' = KeyOf(t) /\ KeyOf(t) \in Key
    BY <1>2, <2>1 DEF AnswersStep, KeyOf, IInv, DataOK, Job, Key
  <2>3. \A k, s : Given(k, s) => Given(k, s)'
    BY <2>1, <2>2 DEF AnswersStep, Given
  <2>4. ASSUME NEW k \in Key, cache'[k] # NoEntry
        PROVE  Given(k, cache[k])'
    <3>1. cache'[k] = cache[k] => Given(k, cache[k])
      BY <1>2, <2>4 DEF CachedAnswersWereGiven, Given
    <3>2. QED
      BY <2>1, <2>3, <2>4, <3>1 DEF AnswersStep
  <2>5. ASSUME NEW t \in Tasks, result'[t] = "hit"
        PROVE  \E s : Given(KeyOf(t), s)'
    <3>1. \E s : Given(KeyOf(t), s)
      <4>1. CASE result[t] = "hit"
        BY <1>2, <4>1 DEF CachedAnswersWereGiven, Given
      <4>2. CASE cache[KeyOf(t)] # NoEntry
        BY <1>2, <2>2, <4>2 DEF CachedAnswersWereGiven, Given
      <4>3. QED
        BY <2>1, <2>5, <4>1, <4>2 DEF AnswersStep
    <3>2. QED
      BY <2>2, <2>3, <3>1
  <2>6. QED
    BY <2>2, <2>4, <2>5 DEF CachedAnswersWereGiven, Given
<1>3. QED
  BY <1>1, <1>2, AlwaysIInv, PTL DEF Spec
-----------------------------------------------------------------------------
(* Sums over a finite set. *)

\* Induction on the subsets of a finite set, from their order being
\* well-founded.
LEMMA SubsetInduction ==
    ASSUME NEW S, IsFiniteSet(S), NEW T,
           \A s \in SUBSET S : (\A r \in SUBSET s : r # s => r \in T) => s \in T
    PROVE  SUBSET S \subseteq T
<1> DEFINE Rest == (SUBSET S) \ T
<1> SUFFICES ASSUME Rest # {} PROVE FALSE
  OBVIOUS
<1>1. IsWellFoundedOn(StrictSubsetOrdering(S), SUBSET S)
  <2>1. FiniteSubsetsOf(S) = SUBSET S
    BY FS_FiniteSubsetsOfFinite
  <2>2. IsWellFoundedOn(StrictSubsetOrdering(S), FiniteSubsetsOf(S))
    BY FS_StrictSubsetOrderingWellFounded
  <2>3. QED
    BY <2>1, <2>2
<1>2. Rest \subseteq SUBSET S
  OBVIOUS
<1>3. PICK s \in Rest : \A r \in Rest : <<r, s>> \notin StrictSubsetOrdering(S)
  <2> HIDE DEF Rest
  <2>1. QED
    BY <1>1, <1>2, WFMin
<1>4. \A r \in SUBSET s : r # s => r \in T
  BY <1>3 DEF StrictSubsetOrdering
<1>5. QED
  BY <1>3, <1>4

Chosen(s) == CHOOSE x \in s : TRUE

\* g is the function that SumFunction chooses to add up the values of f.
IsSetSum(g, f, S) ==
    g = [s \in SUBSET S |-> IF s = {} THEN 0 ELSE f[Chosen(s)] + g[s \ {Chosen(s)}]]

LEMMA SetSumOfNone == ASSUME NEW S, NEW f, NEW g, IsSetSum(g, f, S) PROVE g[{}] = 0
<1>1. {} \in SUBSET S
  OBVIOUS
<1>2. QED
  BY <1>1 DEF IsSetSum

LEMMA SetSumStep ==
    ASSUME NEW S, NEW f, NEW g, IsSetSum(g, f, S), NEW s \in SUBSET S
    PROVE  /\ s = {} => g[s] = 0
           /\ s # {} => /\ Chosen(s) \in s
                        /\ s \ {Chosen(s)} \in SUBSET s
                        /\ s \ {Chosen(s)} # s
                        /\ g[s] = f[Chosen(s)] + g[s \ {Chosen(s)}]
<1>1. s # {} => Chosen(s) \in s
  BY DEF Chosen
<1>2. g[s] = IF s = {} THEN 0 ELSE f[Chosen(s)] + g[s \ {Chosen(s)}]
  BY DEF IsSetSum
<1>3. QED
  BY <1>1, <1>2

\* Two sums of the same values agree on the sets that both add up.
LEMMA SetSumsAgree ==
    ASSUME NEW A, NEW B, NEW f, NEW g, NEW h, NEW S, IsFiniteSet(S),
           IsSetSum(g, f, A), IsSetSum(h, f, B), S \subseteq A, S \subseteq B
    PROVE  \A s \in SUBSET S : g[s] = h[s]
<1> DEFINE T == {s \in SUBSET S : g[s] = h[s]}
<1>1. ASSUME NEW s \in SUBSET S, \A r \in SUBSET s : r # s => r \in T
      PROVE  s \in T
  <2>1. s \in SUBSET A /\ s \in SUBSET B
    OBVIOUS
  <2>2. CASE s = {}
    <3>1. g[s] = 0 /\ h[s] = 0
      BY <2>2, SetSumOfNone
    <3>2. QED
      BY <3>1
  <2>3. CASE s # {}
    <3>1. /\ s \ {Chosen(s)} \in T
          /\ g[s] = f[Chosen(s)] + g[s \ {Chosen(s)}]
          /\ h[s] = f[Chosen(s)] + h[s \ {Chosen(s)}]
      <4> HIDE DEF T
      <4>1. QED
        BY <1>1, <2>1, <2>3, SetSumStep
    <3>2. QED
      BY <3>1
  <2>4. QED
    BY <2>2, <2>3
<1> HIDE DEF T
<1>2. SUBSET S \subseteq T
  BY <1>1, SubsetInduction
<1>3. QED
  BY <1>2 DEF T

LEMMA SetSumExists ==
    ASSUME NEW f, NEW S, IsFiniteSet(S)
    PROVE  \E g : IsSetSum(g, f, S)
<1> DEFINE G(s) == CHOOSE g : IsSetSum(g, f, s)
           T == {s \in SUBSET S : IsSetSum(G(s), f, s)}
           V(u) == IF u = {} THEN 0
                   ELSE f[Chosen(u)] + G(u \ {Chosen(u)})[u \ {Chosen(u)}]
<1>1. ASSUME NEW s \in SUBSET S, \A r \in SUBSET s : r # s => r \in T
      PROVE  s \in T
  <2> DEFINE h == [u \in SUBSET s |-> V(u)]
  <2>1. \A r \in SUBSET s : r # s => IsSetSum(G(r), f, r)
    BY <1>1
  <2>2. ASSUME NEW r \in SUBSET s, r # s
        PROVE  V(r) = G(r)[r]
    <3> DEFINE q == r \ {Chosen(r)}
    <3>1. IsSetSum(G(r), f, r) /\ r \in SUBSET r
      BY <2>1, <2>2
    <3> HIDE DEF G
    <3>2. CASE r = {}
      BY <3>1, <3>2, SetSumStep
    <3>3. CASE r # {}
      <4>1. Chosen(r) \in r /\ G(r)[r] = f[Chosen(r)] + G(r)[q]
        BY <3>1, <3>3, SetSumStep
      <4>2. q \in SUBSET r /\ q \in SUBSET s /\ q # s
        BY <4>1
      <4>3. IsSetSum(G(q), f, q)
        BY <2>1, <4>2
      <4>4. IsFiniteSet(q)
        BY <4>2, FS_Subset
      <4> HIDE DEF q
      <4>5. G(r)[q] = G(q)[q]
        BY <3>1, <4>2, <4>3, <4>4, SetSumsAgree
      <4>6. V(r) = f[Chosen(r)] + G(q)[q]
        BY <3>3 DEF q
      <4>7. QED
        BY <4>1, <4>5, <4>6
    <3>4. QED
      BY <3>2, <3>3
  <2> HIDE DEF V
  <2>3. ASSUME NEW u \in SUBSET s
        PROVE  h[u] = IF u = {} THEN 0 ELSE f[Chosen(u)] + h[u \ {Chosen(u)}]
    <3>1. CASE u = {}
      BY <3>1 DEF V
    <3>2. CASE u # {}
      <4> DEFINE q == u \ {Chosen(u)}
      <4>1. q \in SUBSET s /\ q # s
        BY <3>2 DEF Chosen
      <4>2. h[q] = G(q)[q]
        BY <2>2, <4>1
      <4>3. h[u] = f[Chosen(u)] + G(q)[q]
        BY <3>2 DEF V
      <4>4. QED
        BY <3>2, <4>2, <4>3
    <3>3. QED
      BY <3>1, <3>2
  <2> HIDE DEF h
  <2>4. h = [u \in SUBSET s |-> h[u]]
    BY DEF h
  <2>5. IsSetSum(h, f, s)
    BY <2>3, <2>4 DEF IsSetSum
  <2>6. IsSetSum(G(s), f, s)
    BY <2>5
  <2>7. QED
    BY <2>6
<1> HIDE DEF T
<1>2. SUBSET S \subseteq T
  BY <1>1, SubsetInduction
<1>3. S \in T
  BY <1>2
<1>4. QED
  BY <1>3 DEF T

\* A sum of integers is one, and a sum of zeros is zero.
LEMMA SetSumIsInt ==
    ASSUME NEW S, IsFiniteSet(S), NEW f, NEW g, IsSetSum(g, f, S),
           \A x \in S : f[x] \in Int
    PROVE  \A s \in SUBSET S : g[s] \in Int /\ ((\A x \in S : f[x] = 0) => g[s] = 0)
<1> DEFINE T == {s \in SUBSET S : g[s] \in Int /\ ((\A x \in S : f[x] = 0) => g[s] = 0)}
<1>1. ASSUME NEW s \in SUBSET S, \A r \in SUBSET s : r # s => r \in T
      PROVE  s \in T
  <2>1. CASE s = {}
    <3>1. g[s] = 0
      BY <2>1, SetSumOfNone
    <3>2. QED
      BY <3>1
  <2>2. CASE s # {}
    <3>1. /\ s \ {Chosen(s)} \in T /\ Chosen(s) \in S
          /\ g[s] = f[Chosen(s)] + g[s \ {Chosen(s)}]
      <4> HIDE DEF T
      <4>1. QED
        BY <1>1, <2>2, SetSumStep
    <3>2. QED
      BY <3>1
  <2>3. QED
    BY <2>1, <2>2
<1> HIDE DEF T
<1>2. SUBSET S \subseteq T
  BY <1>1, SubsetInduction
<1>3. QED
  BY <1>2 DEF T

\* Adding up lesser values gives a lesser sum.
LEMMA SetSumMonotone ==
    ASSUME NEW S, IsFiniteSet(S), NEW f, NEW e, NEW g, NEW h,
           IsSetSum(g, f, S), IsSetSum(h, e, S),
           \A x \in S : f[x] \in Int /\ e[x] \in Int /\ f[x] <= e[x]
    PROVE  \A s \in SUBSET S : g[s] <= h[s]
<1> DEFINE T == {s \in SUBSET S : g[s] <= h[s]}
<1>1. \A s \in SUBSET S : g[s] \in Int /\ h[s] \in Int
  BY SetSumIsInt
<1>2. ASSUME NEW s \in SUBSET S, \A r \in SUBSET s : r # s => r \in T
      PROVE  s \in T
  <2>1. CASE s = {}
    <3>1. g[s] = 0 /\ h[s] = 0
      BY <2>1, SetSumOfNone
    <3>2. QED
      BY <3>1
  <2>2. CASE s # {}
    <3>1. /\ s \ {Chosen(s)} \in T /\ Chosen(s) \in S
          /\ g[s] = f[Chosen(s)] + g[s \ {Chosen(s)}]
          /\ h[s] = e[Chosen(s)] + h[s \ {Chosen(s)}]
      <4> HIDE DEF T
      <4>1. QED
        BY <1>2, <2>2, SetSumStep
    <3>2. PICK c, r : c = Chosen(s) /\ r = s \ {c}
      OBVIOUS
    <3>3. /\ c \in S /\ r \in SUBSET S
          /\ g[s] = f[c] + g[r] /\ h[s] = e[c] + h[r]
          /\ g[r] <= h[r] /\ g[r] \in Int /\ h[r] \in Int
      BY <1>1, <3>1, <3>2
    <3>4. f[c] \in Int /\ e[c] \in Int /\ f[c] <= e[c]
      BY <3>3
    <3>5. QED
      BY <3>3, <3>4
  <2>3. QED
    BY <2>1, <2>2
<1> HIDE DEF T
<1>3. SUBSET S \subseteq T
  BY <1>2, SubsetInduction
<1>4. QED
  BY <1>3 DEF T

\* Raising one value by k raises the sums it is part of by k.
LEMMA SetSumRaised ==
    ASSUME NEW S, IsFiniteSet(S), NEW f, NEW e, NEW g, NEW h, NEW k \in Int, NEW t,
           IsSetSum(g, f, S), IsSetSum(h, e, S),
           \A x \in S : f[x] \in Int /\ e[x] = (IF x = t THEN f[x] + k ELSE f[x])
    PROVE  \A s \in SUBSET S : h[s] = (IF t \in s THEN g[s] + k ELSE g[s])
<1> DEFINE T == {s \in SUBSET S : h[s] = (IF t \in s THEN g[s] + k ELSE g[s])}
<1>1. \A s \in SUBSET S : g[s] \in Int
  BY SetSumIsInt
<1>2. ASSUME NEW s \in SUBSET S, \A r \in SUBSET s : r # s => r \in T
      PROVE  s \in T
  <2>1. CASE s = {}
    <3>1. g[s] = 0 /\ h[s] = 0
      BY <2>1, SetSumOfNone
    <3>2. QED
      BY <2>1, <3>1
  <2>2. CASE s # {}
    <3>1. /\ s \ {Chosen(s)} \in T /\ Chosen(s) \in s
          /\ g[s] = f[Chosen(s)] + g[s \ {Chosen(s)}]
          /\ h[s] = e[Chosen(s)] + h[s \ {Chosen(s)}]
      <4> HIDE DEF T
      <4>1. QED
        BY <1>2, <2>2, SetSumStep
    <3>2. PICK c, r : c = Chosen(s) /\ r = s \ {c}
      OBVIOUS
    <3>3. /\ c \in s /\ r \in SUBSET S /\ r \in T
          /\ g[s] = f[c] + g[r] /\ h[s] = e[c] + h[r]
          /\ f[c] \in Int /\ g[r] \in Int
          /\ e[c] = (IF c = t THEN f[c] + k ELSE f[c])
          /\ h[r] = (IF t \in r THEN g[r] + k ELSE g[r])
      BY <1>1, <3>1, <3>2
    <3>4. CASE c = t
      BY <3>2, <3>3, <3>4
    <3>5. CASE c # t
      BY <3>2, <3>3, <3>5
    <3>6. QED
      BY <3>4, <3>5
  <2>3. QED
    BY <2>1, <2>2
<1> HIDE DEF T
<1>3. SUBSET S \subseteq T
  BY <1>2, SubsetInduction
<1>4. QED
  BY <1>3 DEF T

LEMMA SumIsSetSum ==
    ASSUME NEW f, IsFiniteSet(DOMAIN f)
    PROVE  \E g : IsSetSum(g, f, DOMAIN f) /\ SumFunction(f) = g[DOMAIN f]
<1> DEFINE g == CHOOSE h : IsSetSum(h, f, DOMAIN f)
<1>1. IsSetSum(g, f, DOMAIN f)
  BY SetSumExists
<1>2. SumFunction(f) = g[DOMAIN f]
  BY DEF SumFunction, SumFunctionOnSet, FoldFunctionOnSet, MapThenFoldSet, IsSetSum, Chosen
<1>3. QED
  BY <1>1, <1>2

\* The same three facts of SumFunction.
LEMMA SumIsInt ==
    ASSUME NEW S, IsFiniteSet(S), NEW f \in [S -> Int]
    PROVE  SumFunction(f) \in Int /\ ((\A x \in S : f[x] = 0) => SumFunction(f) = 0)
<1>1. PICK g : IsSetSum(g, f, S) /\ SumFunction(f) = g[S]
  BY SumIsSetSum
<1>2. S \in SUBSET S /\ \A x \in S : f[x] \in Int
  OBVIOUS
<1>3. QED
  BY <1>1, <1>2, SetSumIsInt

LEMMA SumIsMonotone ==
    ASSUME NEW S, IsFiniteSet(S), NEW f \in [S -> Int], NEW e \in [S -> Int],
           \A x \in S : f[x] <= e[x]
    PROVE  SumFunction(f) <= SumFunction(e)
<1>1. PICK g : IsSetSum(g, f, S) /\ SumFunction(f) = g[S]
  BY SumIsSetSum
<1>2. PICK h : IsSetSum(h, e, S) /\ SumFunction(e) = h[S]
  BY SumIsSetSum
<1>3. S \in SUBSET S /\ \A x \in S : f[x] \in Int /\ e[x] \in Int /\ f[x] <= e[x]
  OBVIOUS
<1>4. g[S] <= h[S]
  BY <1>1, <1>2, <1>3, SetSumMonotone
<1>5. QED
  BY <1>1, <1>2, <1>4

LEMMA SumIsRaised ==
    ASSUME NEW S, IsFiniteSet(S), NEW f \in [S -> Int], NEW e \in [S -> Int],
           NEW k \in Int, NEW t,
           \A x \in S \ {t} : e[x] = f[x],
           t \in S => e[t] = f[t] + k
    PROVE  /\ t \in S => SumFunction(e) = SumFunction(f) + k
           /\ t \notin S => SumFunction(e) = SumFunction(f)
<1>1. PICK g : IsSetSum(g, f, S) /\ SumFunction(f) = g[S]
  BY SumIsSetSum
<1>2. PICK h : IsSetSum(h, e, S) /\ SumFunction(e) = h[S]
  BY SumIsSetSum
<1>3. /\ S \in SUBSET S
      /\ \A x \in S : f[x] \in Int /\ e[x] = (IF x = t THEN f[x] + k ELSE f[x])
  OBVIOUS
<1>4. h[S] = (IF t \in S THEN g[S] + k ELSE g[S])
  BY <1>1, <1>2, <1>3, SetSumRaised
<1>5. QED
  BY <1>1, <1>2, <1>4

-----------------------------------------------------------------------------
(* What the breaker is told. *)

\* An answer from the agent of t has been recorded.
Succeeded(t) == At(t, "store") \/ result[t] = "answered"

\* The failures reported on an agent, while none of its users has succeeded,
\* are those its circuit counts.
CountsFailures ==
    \A a \in Agents :
        (\A t \in UsersOf(a) : ~Succeeded(t)) =>
           circuits[a].failures =
              Capped(SumFunction([t \in UsersOf(a) |-> FailuresOf(t)]), FailureThreshold)

\* What a step on behalf of t may do: its agent's circuit becomes c, and k
\* attempts of t have failed that had not before.
Told(t, c, k) ==
    /\ job' = job
    /\ circuits' = [circuits EXCEPT ![job[t].agent] = c]
    /\ \A u \in Tasks : FailuresOf(u)' = (IF u = t THEN FailuresOf(u) + k ELSE FailuresOf(u))
    /\ \A u \in Tasks : Succeeded(u) => Succeeded(u)'

\* The failures of a task, by where it is, its attempts and its result.
Reported(p, n, r) ==
    IF \/ p \in {"execute", "record_success", "record_failure", "store"}
       \/ r \in {"answered", "panic"}
    THEN n - 1
    ELSE n

\* A step of t from which the others only learn that there is a permit.
LEMMA OthersWait ==
    ASSUME IInv, NEW t \in Tasks, Spawn(t) \/ TaskStep(t)
    PROVE  /\ job' = job
           /\ \A u \in Tasks \ {t} :
                 /\ attempts'[u] = attempts[u]
                 /\ result'[u] = result[u]
                 /\ pc'[u] = pc[u] \/ (pc[u] = "waiting" /\ pc'[u] = "check")
<1>1. job' = job
  BY DEF Spawn, TaskStep, Acquire, CheckCircuit, Lookup, BuildPrompt, ExecuteOk, ExecuteErr,
         ExecutePanic, ReportSuccess, Store, ReportFailure, Backoff
<1>2. \A u \in Tasks \ {t} : attempts'[u] = attempts[u]
  BY DEF Spawn, TaskStep, Acquire, CheckCircuit, Lookup, BuildPrompt, ExecuteOk, ExecuteErr,
         ExecutePanic, ReportSuccess, Store, ReportFailure, Backoff, IInv, DataOK
<1>3. \/ \E label : Continue(t, label)
      \/ Acquire(t)
      \/ t \in Holders /\ \E r : Finish(t, r)
  BY DEF Spawn, TaskStep, CheckCircuit, Lookup, BuildPrompt, ExecuteOk, ExecuteErr,
         ExecutePanic, ReportSuccess, Store, ReportFailure, Backoff, At, Holders
<1>4. CASE \E label : Continue(t, label)
  BY <1>1, <1>2, <1>4 DEF Continue, Goto, IInv, PermitInv
<1>5. CASE Acquire(t)
  BY <1>1, <1>2, <1>5 DEF Acquire, Goto, IInv, PermitInv
<1>6. CASE t \in Holders /\ \E r : Finish(t, r)
  <2>1. PICK r : Finish(t, r)
    BY <1>6
  <2>2. \A u \in Tasks \ {t} : result'[u] = result[u]
    BY <2>1 DEF Finish, IInv, DataOK
  <2>3. \A u \in Tasks \ {t} : pc'[u] = pc[u] \/ (pc[u] = "waiting" /\ pc'[u] = "check")
    BY <1>6, <2>1, FinishOthers DEF IInv
  <2>4. QED
    BY <1>1, <1>2, <2>2, <2>3
<1>7. QED
  BY <1>3, <1>4, <1>5, <1>6

\* Where a step takes t, what it adds to its attempts, how it ends and what it
\* leaves of the circuit of its agent.
Moved(t, label, k, r, c) ==
    /\ pc'[t] = label
    /\ attempts'[t] = attempts[t] + k
    /\ result'[t] = r
    /\ circuits' = [circuits EXCEPT ![job[t].agent] = c]

OwnStep(t, c) ==
    \/ pc[t] = "unspawned" /\ Moved(t, "spawned", 0, NoResult, c)
    \/ pc[t] = "spawned" /\ \E p \in {"check", "waiting"} : Moved(t, p, 0, NoResult, c)
    \/ pc[t] = "check" /\ Admits(c) /\ Moved(t, "lookup", 0, NoResult, AfterCheck(c))
    \/ pc[t] = "check" /\ Moved(t, "done", 0, "rejected", AfterCheck(c))
    \/ pc[t] = "lookup" /\ Moved(t, "prompt", 0, NoResult, c)
    \/ pc[t] = "lookup" /\ Moved(t, "done", 0, "hit", c)
    \/ pc[t] \in {"prompt", "backoff"} /\ Moved(t, "execute", 1, NoResult, c)
    \/ pc[t] = "execute" /\ \E p \in {"record_success", "record_failure"} :
                               Moved(t, p, 0, NoResult, c)
    \/ pc[t] = "execute" /\ Moved(t, "done", 0, "panic", c)
    \/ pc[t] = "record_success" /\ Moved(t, "store", 0, NoResult, AfterSuccess(c))
    \/ pc[t] = "store" /\ Moved(t, "done", 0, "answered", c)
    \/ pc[t] = "record_failure" /\ Moved(t, "backoff", 0, NoResult, AfterFailure(c))
    \/ pc[t] = "record_failure" /\ Moved(t, "done", 0, "error", AfterFailure(c))

LEMMA OwnSteps ==
    ASSUME IInv, NEW t \in Tasks, Spawn(t) \/ TaskStep(t)
    PROVE  OwnStep(t, circuits[job[t].agent])
<1> DEFINE a == job[t].agent
           c == circuits[a]
<1>1. /\ pc \in [Tasks -> PC] /\ attempts[t] \in Nat
      /\ result \in [Tasks -> Result \cup {NoResult}]
      /\ pc[t] # "done" => result[t] = NoResult
      /\ circuits = [circuits EXCEPT ![a] = c]
      /\ pc[t] = "prompt" => attempts[t] = 0
      /\ attempts \in [Tasks -> 0..MaxRetries + 1]
  BY DispatchConfig DEF IInv, PermitInv, DataOK, AttemptInv, AttemptOK
<1>2. pc[t] \in HolderPC => t \in Holders
  BY DEF Holders, HolderPC
<1>3. ASSUME NEW label \in PC, Continue(t, label), pc[t] # "done"
      PROVE  pc'[t] = label /\ result'[t] = NoResult
  BY <1>1, <1>3 DEF Continue, Goto
<1>4. ASSUME NEW r \in Result, Finish(t, r), pc[t] \in HolderPC
      PROVE  pc'[t] = "done" /\ result'[t] = r
  <2>1. pc'[t] = "done"
    BY <1>2, <1>4, FinishOthers DEF IInv
  <2>2. result'[t] = r
    BY <1>1, <1>4 DEF Finish
  <2>3. QED
    BY <2>1, <2>2
<1>5. /\ attempts' = attempts => attempts'[t] = attempts[t] + 0
      /\ circuits' = circuits => circuits' = [circuits EXCEPT ![a] = c]
  BY <1>1
<1> HIDE DEF c
<1>6. CASE Spawn(t)
  <2>1. pc[t] = "unspawned" /\ attempts' = attempts /\ circuits' = circuits
    BY <1>6 DEF Spawn, At
  <2>2. pc'[t] = "spawned" /\ result'[t] = NoResult
    BY <1>3, <1>6, <2>1 DEF Spawn, PC
  <2>3. QED
    BY <1>5, <2>1, <2>2 DEF OwnStep, Moved, c
<1>7. CASE Acquire(t)
  <2>1. pc[t] = "spawned" /\ attempts' = attempts /\ circuits' = circuits /\ result' = result
    BY <1>7 DEF Acquire, At
  <2>2. pc'[t] \in {"check", "waiting"} /\ result'[t] = NoResult
    BY <1>1, <1>7, <2>1 DEF Acquire, Goto
  <2>3. QED
    BY <1>5, <2>1, <2>2 DEF OwnStep, Moved, c
<1>8. CASE CheckCircuit(t)
  <2>1. /\ pc[t] = "check" /\ attempts' = attempts
        /\ circuits' = [circuits EXCEPT ![a] = AfterCheck(c)]
        /\ (Admits(c) /\ Continue(t, "lookup")) \/ Finish(t, "rejected")
    BY <1>8 DEF CheckCircuit, At, c
  <2>2. CASE Admits(c) /\ Continue(t, "lookup")
    <3>1. pc'[t] = "lookup" /\ result'[t] = NoResult
      BY <1>3, <2>1, <2>2 DEF PC
    <3>2. QED
      BY <1>5, <2>1, <2>2, <3>1 DEF OwnStep, Moved, c
  <2>3. CASE Finish(t, "rejected")
    <3>1. pc'[t] = "done" /\ result'[t] = "rejected"
      BY <1>4, <2>1, <2>3 DEF HolderPC, PC, Result
    <3>2. QED
      BY <1>5, <2>1, <3>1 DEF OwnStep, Moved, c
  <2>4. QED
    BY <2>1, <2>2, <2>3
<1>9. CASE Lookup(t)
  <2>1. /\ pc[t] = "lookup" /\ attempts' = attempts /\ circuits' = circuits
        /\ Continue(t, "prompt") \/ Finish(t, "hit")
    BY <1>9 DEF Lookup, At
  <2>2. CASE Continue(t, "prompt")
    <3>1. pc'[t] = "prompt" /\ result'[t] = NoResult
      BY <1>3, <2>1, <2>2 DEF PC
    <3>2. QED
      BY <1>5, <2>1, <3>1 DEF OwnStep, Moved, c
  <2>3. CASE Finish(t, "hit")
    <3>1. pc'[t] = "done" /\ result'[t] = "hit"
      BY <1>4, <2>1, <2>3 DEF HolderPC, PC, Result
    <3>2. QED
      BY <1>5, <2>1, <3>1 DEF OwnStep, Moved, c
  <2>4. QED
    BY <2>1, <2>2, <2>3
<1>10. CASE BuildPrompt(t) \/ Backoff(t)
  <2>1. /\ pc[t] \in {"prompt", "backoff"} /\ circuits' = circuits
        /\ Continue(t, "execute")
    BY <1>10 DEF BuildPrompt, Backoff, At
  <2>2. attempts'[t] = attempts[t] + 1
    BY <1>1, <1>10 DEF BuildPrompt, Backoff, At
  <2>3. pc'[t] = "execute" /\ result'[t] = NoResult
    BY <1>3, <2>1 DEF PC
  <2>4. QED
    BY <1>5, <2>1, <2>2, <2>3 DEF OwnStep, Moved, c
<1>11. CASE ExecuteOk(t) \/ ExecuteErr(t)
  <2>1. /\ pc[t] = "execute" /\ attempts' = attempts /\ circuits' = circuits
        /\ Continue(t, "record_success") \/ Continue(t, "record_failure")
    BY <1>11 DEF ExecuteOk, ExecuteErr, At
  <2>2. pc'[t] \in {"record_success", "record_failure"} /\ result'[t] = NoResult
    BY <1>3, <2>1 DEF PC
  <2>3. QED
    BY <1>5, <2>1, <2>2 DEF OwnStep, Moved, c
<1>12. CASE ExecutePanic(t)
  <2>1. /\ pc[t] = "execute" /\ attempts' = attempts /\ circuits' = circuits
        /\ Finish(t, "panic")
    BY <1>12 DEF ExecutePanic, At
  <2>2. pc'[t] = "done" /\ result'[t] = "panic"
    BY <1>4, <2>1 DEF HolderPC, PC, Result
  <2>3. QED
    BY <1>5, <2>1, <2>2 DEF OwnStep, Moved, c
<1>13. CASE ReportSuccess(t)
  <2>1. /\ pc[t] = "record_success" /\ attempts' = attempts /\ Continue(t, "store")
        /\ circuits' = [circuits EXCEPT ![a] = AfterSuccess(c)]
    BY <1>13 DEF ReportSuccess, At, c
  <2>2. pc'[t] = "store" /\ result'[t] = NoResult
    BY <1>3, <2>1 DEF PC
  <2>3. QED
    BY <1>5, <2>1, <2>2 DEF OwnStep, Moved, c
<1>14. CASE Store(t)
  <2>1. /\ pc[t] = "store" /\ attempts' = attempts /\ circuits' = circuits
        /\ Finish(t, "answered")
    BY <1>14 DEF Store, At
  <2>2. pc'[t] = "done" /\ result'[t] = "answered"
    BY <1>4, <2>1 DEF HolderPC, PC, Result
  <2>3. QED
    BY <1>5, <2>1, <2>2 DEF OwnStep, Moved, c
<1>15. CASE ReportFailure(t)
  <2>1. /\ pc[t] = "record_failure" /\ attempts' = attempts
        /\ circuits' = [circuits EXCEPT ![a] = AfterFailure(c)]
        /\ Continue(t, "backoff") \/ Finish(t, "error")
    BY <1>15 DEF ReportFailure, At, c
  <2>2. CASE Continue(t, "backoff")
    <3>1. pc'[t] = "backoff" /\ result'[t] = NoResult
      BY <1>3, <2>1, <2>2 DEF PC
    <3>2. QED
      BY <1>5, <2>1, <3>1 DEF OwnStep, Moved, c
  <2>3. CASE Finish(t, "error")
    <3>1. pc'[t] = "done" /\ result'[t] = "error"
      BY <1>4, <2>1, <2>3 DEF HolderPC, PC, Result
    <3>2. QED
      BY <1>5, <2>1, <3>1 DEF OwnStep, Moved, c
  <2>4. QED
    BY <2>1, <2>2, <2>3
<1>16. QED
  BY <1>6, <1>7, <1>8, <1>9, <1>10, <1>11, <1>12, <1>13, <1>14, <1>15 DEF TaskStep

\* What the breaker is told of t: nothing, that it is there, of a success or of
\* a failure; only the last adds to the failures of t.
LEMMA TaskTells ==
    ASSUME IInv, NEW t \in Tasks, Spawn(t) \/ TaskStep(t), NEW c, c = circuits[job[t].agent]
    PROVE  \/ Told(t, c, 0)
           \/ Told(t, AfterCheck(c), 0)
           \/ Told(t, AfterSuccess(c), 0) /\ Succeeded(t)'
           \/ Told(t, AfterFailure(c), 1)
<1>1. \A u \in Tasks : /\ FailuresOf(u) = Reported(pc[u], attempts[u], result[u])
                       /\ FailuresOf(u)' = Reported(pc'[u], attempts'[u], result'[u])
  BY DEF FailuresOf, Reported
<1>2. OwnStep(t, c)
  BY OwnSteps
<1>3. /\ job' = job
      /\ \A u \in Tasks \ {t} :
            /\ attempts'[u] = attempts[u]
            /\ result'[u] = result[u]
            /\ pc'[u] = pc[u] \/ (pc[u] = "waiting" /\ pc'[u] = "check")
  BY OthersWait
<1>4. \A u \in Tasks \ {t} : FailuresOf(u)' = FailuresOf(u) /\ (Succeeded(u) => Succeeded(u)')
  BY <1>1, <1>3 DEF Reported, Succeeded, At
<1>5. /\ attempts[t] \in Nat
      /\ pc[t] # "done" => result[t] = NoResult
      /\ pc[t] = "prompt" => attempts[t] = 0
  BY DispatchConfig DEF IInv, DataOK, AttemptInv, AttemptOK
<1>6. ASSUME NEW k \in {0, 1}, NEW after, circuits' = [circuits EXCEPT ![job[t].agent] = after],
             FailuresOf(t)' = FailuresOf(t) + k,
             Succeeded(t) => Succeeded(t)'
      PROVE  Told(t, after, k)
  <2>1. \A u \in Tasks : FailuresOf(u)' = (IF u = t THEN FailuresOf(u) + k ELSE FailuresOf(u))
    BY <1>4, <1>6
  <2>2. \A u \in Tasks : Succeeded(u) => Succeeded(u)'
    BY <1>4, <1>6
  <2>3. QED
    BY <1>3, <1>6, <2>1, <2>2 DEF Told
<1>7. Succeeded(t) <=> pc[t] = "store" \/ result[t] = "answered"
  BY DEF Succeeded, At
<1>8. Succeeded(t)' <=> pc'[t] = "store" \/ result'[t] = "answered"
  BY DEF Succeeded, At
<1>9. FailuresOf(t) = Reported(pc[t], attempts[t], result[t])
  BY <1>1
<1>10. FailuresOf(t)' = Reported(pc'[t], attempts'[t], result'[t])
  BY <1>1
<1>11. CASE \/ pc[t] = "unspawned" /\ Moved(t, "spawned", 0, NoResult, c)
            \/ pc[t] = "spawned" /\ \E p \in {"check", "waiting"} : Moved(t, p, 0, NoResult, c)
            \/ pc[t] = "lookup" /\ Moved(t, "prompt", 0, NoResult, c)
            \/ pc[t] = "lookup" /\ Moved(t, "done", 0, "hit", c)
            \/ pc[t] \in {"prompt", "backoff"} /\ Moved(t, "execute", 1, NoResult, c)
            \/ pc[t] = "execute" /\ \E p \in {"record_success", "record_failure"} :
                                       Moved(t, p, 0, NoResult, c)
            \/ pc[t] = "execute" /\ Moved(t, "done", 0, "panic", c)
            \/ pc[t] = "store" /\ Moved(t, "done", 0, "answered", c)
  <2>1. circuits' = [circuits EXCEPT ![job[t].agent] = c]
    BY <1>11 DEF Moved
  <2>2. Succeeded(t) => Succeeded(t)'
    BY <1>5, <1>7, <1>8, <1>11 DEF Moved, NoResult
  <2>3. FailuresOf(t)' = FailuresOf(t) + 0
    BY <1>5, <1>9, <1>10, <1>11 DEF Moved, Reported, NoResult
  <2>4. QED
    BY <1>6, <2>1, <2>2, <2>3
<1>12. CASE \/ pc[t] = "check" /\ Admits(c) /\ Moved(t, "lookup", 0, NoResult, AfterCheck(c))
            \/ pc[t] = "check" /\ Moved(t, "done", 0, "rejected", AfterCheck(c))
  <2>1. circuits' = [circuits EXCEPT ![job[t].agent] = AfterCheck(c)]
    BY <1>12 DEF Moved
  <2>2. Succeeded(t) => Succeeded(t)'
    BY <1>5, <1>7, <1>12 DEF NoResult
  <2>3. FailuresOf(t)' = FailuresOf(t) + 0
    BY <1>5, <1>9, <1>10, <1>12 DEF Moved, Reported, NoResult
  <2>4. QED
    BY <1>6, <2>1, <2>2, <2>3
<1>13. CASE pc[t] = "record_success" /\ Moved(t, "store", 0, NoResult, AfterSuccess(c))
  <2>1. circuits' = [circuits EXCEPT ![job[t].agent] = AfterSuccess(c)]
    BY <1>13 DEF Moved
  <2>2. Succeeded(t)'
    BY <1>8, <1>13 DEF Moved
  <2>3. FailuresOf(t)' = FailuresOf(t) + 0
    BY <1>5, <1>9, <1>10, <1>13 DEF Moved, Reported, NoResult
  <2>4. QED
    BY <1>6, <2>1, <2>2, <2>3
<1>14. CASE \/ pc[t] = "record_failure" /\ Moved(t, "backoff", 0, NoResult, AfterFailure(c))
            \/ pc[t] = "record_failure" /\ Moved(t, "done", 0, "error", AfterFailure(c))
  <2>1. circuits' = [circuits EXCEPT ![job[t].agent] = AfterFailure(c)]
    BY <1>14 DEF Moved
  <2>2. Succeeded(t) => Succeeded(t)'
    BY <1>5, <1>7, <1>14 DEF NoResult
  <2>3. FailuresOf(t)' = FailuresOf(t) + 1
    BY <1>5, <1>9, <1>10, <1>14 DEF Moved, Reported, NoResult
  <2>4. QED
    BY <1>6, <2>1, <2>2, <2>3
<1>15. QED
  BY <1>2, <1>11, <1>12, <1>13, <1>14 DEF OwnStep

\* A step of the rest of the program leaves tasks and counts alone.
LEMMA OtherSteps ==
    ASSUME IInv, [Next]_vars
    PROVE  \/ \E t \in Tasks : Spawn(t) \/ TaskStep(t)
           \/ /\ UNCHANGED <<job, pc, attempts, result>>
              /\ \A a \in Agents : circuits'[a] \in {circuits[a], AfterTick(circuits[a])}
BY DEF Next, Evict, AddLedgerEntry, Tick, AllDone, vars, IInv, DataOK

LEMMA CircuitCounts ==
    ASSUME NEW c \in GoodCircuit
    PROVE  /\ AfterCheck(c).failures = c.failures
           /\ AfterTick(c).failures = c.failures
           /\ AfterFailure(c).failures = Capped(c.failures + 1, FailureThreshold)
           /\ c.state = "Open" /\ Admits(c) => AfterCheck(c).state # "Open"
BY CircuitConfig
   DEF AfterCheck, AfterTick, AfterFailure, Capped, Admits, Recovered, GoodCircuit, AgentCircuit

LEMMA InitCounts == Init => CountsFailures
<1> SUFFICES ASSUME Init, NEW a \in Agents
             PROVE  circuits[a].failures =
                      Capped(SumFunction([t \in UsersOf(a) |-> FailuresOf(t)]), FailureThreshold)
  BY DEF CountsFailures
<1>1. PICK f : f = [t \in UsersOf(a) |-> FailuresOf(t)]
  OBVIOUS
<1>2. IsFiniteSet(UsersOf(a))
  BY DispatchConfig, FS_Subset DEF UsersOf
<1>3. \A t \in UsersOf(a) : FailuresOf(t) = 0
  BY DEF Init, UsersOf, FailuresOf, NoResult
<1>4. f \in [UsersOf(a) -> Int] /\ \A t \in UsersOf(a) : f[t] = 0
  BY <1>1, <1>3
<1>5. SumFunction(f) = 0
  BY <1>2, <1>4, SumIsInt
<1>6. circuits[a].failures = 0
  BY DEF Init, NewCircuit
<1>7. QED
  BY <1>1, <1>5, <1>6, CircuitConfig DEF Capped

LEMMA NextCounts == IInv /\ CountsFailures /\ [Next]_vars => CountsFailures'
<1> SUFFICES ASSUME IInv, CountsFailures, [Next]_vars, NEW a \in Agents,
                    \A t \in UsersOf(a)' : ~Succeeded(t)'
             PROVE  circuits'[a].failures =
                      Capped(SumFunction([t \in UsersOf(a) |-> FailuresOf(t)])', FailureThreshold)
  BY DEF CountsFailures
<1>1. PICK S : S = UsersOf(a)
  OBVIOUS
<1>2. PICK f : f = [t \in S |-> FailuresOf(t)]
  OBVIOUS
<1>3. PICK e : e = [t \in S |-> FailuresOf(t)']
  OBVIOUS
<1>4. S \subseteq Tasks /\ IsFiniteSet(S)
  BY <1>1, DispatchConfig, FS_Subset DEF UsersOf
<1>5. circuits[a] \in GoodCircuit /\ circuits \in [Agents -> GoodCircuit]
  BY DEF IInv, DataOK
<1>6. \A t \in Tasks : FailuresOf(t) \in Int
  <2>1. \A t \in Tasks : attempts[t] \in Int
    BY DispatchConfig DEF IInv, DataOK
  <2>2. QED
    BY <2>1 DEF FailuresOf
<1>7. f \in [S -> Int] /\ \A t \in S : f[t] = FailuresOf(t)
  BY <1>2, <1>4, <1>6
<1>8. SumFunction(f) \in Int
  BY <1>4, <1>7, SumIsInt
<1>9. ASSUME job' = job
      PROVE  /\ SumFunction([t \in UsersOf(a) |-> FailuresOf(t)])' = SumFunction(e)
             /\ \A t \in S : ~Succeeded(t)'
  <2>1. UsersOf(a)' = S
    BY <1>1, <1>9 DEF UsersOf
  <2>2. [t \in UsersOf(a) |-> FailuresOf(t)]' = e
    BY <1>3, <2>1
  <2>3. QED
    BY <2>1, <2>2
<1>10. ASSUME \A t \in S : ~Succeeded(t)
       PROVE  circuits[a].failures = Capped(SumFunction(f), FailureThreshold)
  BY <1>1, <1>2, <1>10 DEF CountsFailures
<1>11. ASSUME NEW t \in Tasks, NEW c, NEW k \in {0, 1}, Told(t, c, k),
              job[t].agent = a => c.failures = Capped(circuits[a].failures + k, FailureThreshold)
       PROVE  circuits'[a].failures = Capped(SumFunction(e), FailureThreshold)
  <2>1. /\ job' = job
        /\ circuits' = [circuits EXCEPT ![job[t].agent] = c]
        /\ \A u \in S : FailuresOf(u)' = (IF u = t THEN FailuresOf(u) + k ELSE FailuresOf(u))
        /\ \A u \in S : Succeeded(u) => Succeeded(u)'
    BY <1>4, <1>11 DEF Told
  <2>2. circuits[a].failures = Capped(SumFunction(f), FailureThreshold)
    BY <1>9, <1>10, <2>1
  <2>3. (t \in S => e[t] = f[t] + k) /\ \A u \in S \ {t} : e[u] = f[u]
    BY <1>3, <1>7, <2>1
  <2>4. e \in [S -> Int]
    <3>1. e = [u \in S |-> e[u]]
      BY <1>3
    <3>2. \A u \in S : e[u] \in Int
      BY <1>7, <1>11, <2>3
    <3>3. QED
      BY <3>1, <3>2
  <2>5. /\ t \in S => SumFunction(e) = SumFunction(f) + k
        /\ t \notin S => SumFunction(e) = SumFunction(f)
    <3>1. k \in Int /\ IsFiniteSet(S) /\ f \in [S -> Int]
      BY <1>4, <1>7, <1>11
    <3>2. QED
      BY <2>3, <2>4, <3>1, SumIsRaised
  <2>6. t \in S <=> job[t].agent = a
    BY <1>1 DEF UsersOf
  <2>7. CASE job[t].agent = a
    <3>1. circuits'[a] = c
      BY <1>5, <2>1, <2>7
    <3>2. c.failures = Capped(Capped(SumFunction(f), FailureThreshold) + k, FailureThreshold)
      BY <1>11, <2>2, <2>7
    <3>3. QED
      BY <1>8, <2>5, <2>6, <2>7, <3>1, <3>2, CircuitConfig DEF Capped
  <2>8. CASE job[t].agent # a
    <3>1. circuits'[a] = circuits[a]
      BY <1>5, <2>1, <2>8
    <3>2. QED
      BY <2>2, <2>5, <2>6, <2>8, <3>1
  <2>9. QED
    BY <2>7, <2>8
<1>12. ASSUME NEW t \in Tasks, Spawn(t) \/ TaskStep(t)
       PROVE  circuits'[a].failures =
                Capped(SumFunction([u \in UsersOf(a) |-> FailuresOf(u)])', FailureThreshold)
  <2>1. PICK c : c = circuits[job[t].agent]
    OBVIOUS
  <2>2. job[t].agent = a => c \in GoodCircuit /\ c = circuits[a]
    BY <1>5, <2>1
  <2>3. c \in GoodCircuit => c.failures \in 0..FailureThreshold
    BY DEF GoodCircuit, AgentCircuit
  <2>4. job[t].agent = a =>
           /\ c.failures = Capped(circuits[a].failures + 0, FailureThreshold)
           /\ AfterCheck(c).failures = Capped(circuits[a].failures + 0, FailureThreshold)
           /\ AfterFailure(c).failures = Capped(circuits[a].failures + 1, FailureThreshold)
    BY <2>2, <2>3, CircuitCounts, CircuitConfig DEF Capped
  <2>5. job' = job
    BY <1>12, OthersWait
  <2>6. job[t].agent = a => t \in S
    BY <1>1 DEF UsersOf
  <2>7. CASE Told(t, c, 0)
    BY <1>9, <1>11, <2>4, <2>5, <2>7
  <2>8. CASE Told(t, AfterCheck(c), 0)
    BY <1>9, <1>11, <2>4, <2>5, <2>8
  <2>9. CASE Told(t, AfterSuccess(c), 0) /\ Succeeded(t)'
    <3>1. job[t].agent # a
      BY <1>9, <2>5, <2>6, <2>9
    <3>2. QED
      BY <1>9, <1>11, <2>5, <2>9, <3>1
  <2>10. CASE Told(t, AfterFailure(c), 1)
    BY <1>9, <1>11, <2>4, <2>5, <2>10
  <2>11. QED
    BY <1>12, <2>1, <2>7, <2>8, <2>9, <2>10, TaskTells
<1>13. ASSUME UNCHANGED <<job, pc, attempts, result>>,
              circuits'[a] \in {circuits[a], AfterTick(circuits[a])}
       PROVE  circuits'[a].failures =
                Capped(SumFunction([u \in UsersOf(a) |-> FailuresOf(u)])', FailureThreshold)
  <2>1. \A t \in S : FailuresOf(t)' = FailuresOf(t) /\ (Succeeded(t)' <=> Succeeded(t))
    BY <1>13 DEF FailuresOf, Succeeded, At
  <2>2. e = f
    BY <1>2, <1>3, <2>1
  <2>3. circuits[a].failures = Capped(SumFunction(f), FailureThreshold)
    BY <1>9, <1>10, <1>13, <2>1
  <2>4. circuits'[a].failures = circuits[a].failures
    BY <1>5, <1>13, CircuitCounts
  <2>5. QED
    BY <1>9, <1>13, <2>2, <2>3, <2>4
<1>14. QED
  BY <1>12, <1>13, OtherSteps

\* Whatever the interleaving of its users' reports, an agent whose failures
\* reach the threshold before any success of theirs is recorded is paused.
THEOREM UnresponsivePaused == Spec => []UnresponsiveAgentIsPaused
<1>1. IInv /\ CountsFailures => UnresponsiveAgentIsPaused
  <2> SUFFICES ASSUME IInv, CountsFailures, NEW a \in Agents,
                      \A t \in UsersOf(a) : ~At(t, "store") /\ result[t] # "answered",
                      SumFunction([t \in UsersOf(a) |-> FailuresOf(t)]) >= FailureThreshold
               PROVE  circuits[a].state # "Closed"
    BY DEF UnresponsiveAgentIsPaused
  <2>1. PICK n : n = SumFunction([t \in UsersOf(a) |-> FailuresOf(t)])
    OBVIOUS
  <2>2. circuits[a].failures = Capped(n, FailureThreshold) /\ n >= FailureThreshold
    BY <2>1 DEF CountsFailures, Succeeded
  <2>3. n \in Int
    <3>1. PICK f : f = [t \in UsersOf(a) |-> FailuresOf(t)]
      OBVIOUS
    <3>2. IsFiniteSet(UsersOf(a)) /\ UsersOf(a) \subseteq Tasks
      BY DispatchConfig, FS_Subset DEF UsersOf
    <3>3. \A t \in Tasks : attempts[t] \in Int
      BY DispatchConfig DEF IInv, DataOK
    <3>4. \A t \in UsersOf(a) : FailuresOf(t) \in Int
      BY <3>2, <3>3 DEF FailuresOf
    <3>5. f \in [UsersOf(a) -> Int]
      BY <3>1, <3>4
    <3>6. QED
      BY <2>1, <3>1, <3>2, <3>5, SumIsInt
  <2>4. circuits[a].failures = FailureThreshold
    BY <2>2, <2>3, CircuitConfig DEF Capped
  <2>5. QED
    BY <2>4, CircuitConfig DEF IInv, DataOK, GoodCircuit, AgentCircuit, Consistent
<1>2. IInv /\ CountsFailures /\ [Next]_vars => (IInv /\ CountsFailures)'
  BY NextIInv, NextCounts
<1>3. Init => IInv /\ CountsFailures
  BY InitIInv, InitCounts
<1>4. QED
  BY <1>1, <1>2, <1>3, PTL DEF Spec

-----------------------------------------------------------------------------
(* The calls of a paused agent. *)

\* The calls of a task, by where it is and its attempts.
CallsLeft(p, n) ==
    IF p \in {"unspawned", "spawned", "waiting", "check"} THEN 0
    ELSE IF p \in {"record_success", "store", "done"} THEN n
    ELSE MaxRetries + 1

LEMMA PossibleCallsAre ==
    ASSUME IInv, NEW t \in Tasks
    PROVE  PossibleCalls(t) = CallsLeft(pc[t], attempts[t]) /\ PossibleCalls(t) \in Int
<1>1. attempts[t] \in Int /\ MaxRetries + 1 \in Int
  BY DispatchConfig DEF IInv, DataOK
<1>2. PossibleCalls(t) = CallsLeft(pc[t], attempts[t])
  BY DEF PossibleCalls, CallsLeft
<1>3. QED
  BY <1>1, <1>2 DEF CallsLeft

\* Only being let through adds to the calls of a task, and it is let through by
\* a circuit that is then not open.
LEMMA CallsFall ==
    ASSUME IInv, [Next]_vars, NEW t \in Tasks,
           circuits[job[t].agent].state = "Open", circuits'[job[t].agent].state = "Open"
    PROVE  PossibleCalls(t)' <= PossibleCalls(t)
<1>1. IInv'
  BY NextIInv
<1>2. /\ PossibleCalls(t) = CallsLeft(pc[t], attempts[t]) /\ PossibleCalls(t) \in Int
  BY PossibleCallsAre
<1>3. PossibleCalls(t)' = CallsLeft(pc'[t], attempts'[t])
  BY DEF PossibleCalls, CallsLeft
<1>4. /\ attempts[t] \in 0..MaxRetries + 1 /\ attempts'[t] \in 0..MaxRetries + 1
      /\ pc[t] \in {"unspawned", "spawned", "waiting", "check", "lookup", "prompt"}
            => attempts[t] = 0
  BY <1>1 DEF IInv, DataOK, AttemptInv, AttemptOK
<1>5. PICK c : c = circuits[job[t].agent]
  OBVIOUS
<1>6. /\ job[t].agent \in Agents /\ circuits \in [Agents -> GoodCircuit]
      /\ c \in GoodCircuit /\ c.state = "Open"
  BY <1>5 DEF IInv, DataOK, Job
<1>7. CASE Spawn(t) \/ TaskStep(t)
  <2>1. OwnStep(t, c)
    BY <1>5, <1>7, OwnSteps
  <2>2. ~(Admits(c) /\ Moved(t, "lookup", 0, NoResult, AfterCheck(c)))
    BY <1>6, CircuitCounts DEF Moved
  <2>3. CallsLeft(pc'[t], attempts'[t]) <= CallsLeft(pc[t], attempts[t])
    <3>1. \/ pc[t] \in {"unspawned", "spawned"} /\ pc'[t] \in {"spawned", "check", "waiting"}
          \/ pc[t] = "check" /\ pc'[t] = "done" /\ attempts'[t] = attempts[t] + 0
          \/ pc[t] \in {"lookup", "prompt", "backoff", "execute", "record_failure"}
          \/ /\ pc[t] \in {"record_success", "store"} /\ pc'[t] \in {"store", "done"}
             /\ attempts'[t] = attempts[t] + 0
      BY <2>1, <2>2 DEF OwnStep, Moved
    <3>2. CASE pc[t] \in {"unspawned", "spawned"} /\ pc'[t] \in {"spawned", "check", "waiting"}
      BY <3>2 DEF CallsLeft
    <3>3. CASE pc[t] = "check" /\ pc'[t] = "done" /\ attempts'[t] = attempts[t] + 0
      BY <1>4, <3>3 DEF CallsLeft
    <3>4. CASE pc[t] \in {"lookup", "prompt", "backoff", "execute", "record_failure"}
      BY <1>4, <3>4, DispatchConfig DEF CallsLeft
    <3>5. CASE /\ pc[t] \in {"record_success", "store"} /\ pc'[t] \in {"store", "done"}
               /\ attempts'[t] = attempts[t] + 0
      BY <1>4, <3>5 DEF CallsLeft
    <3>6. QED
      BY <3>1, <3>2, <3>3, <3>4, <3>5
  <2>4. QED
    BY <1>2, <1>3, <2>3
<1>8. CASE \E u \in Tasks \ {t} : Spawn(u) \/ TaskStep(u)
  <2>1. /\ attempts'[t] = attempts[t]
        /\ pc'[t] = pc[t] \/ (pc[t] = "waiting" /\ pc'[t] = "check")
    BY <1>8, OthersWait
  <2>2. CallsLeft(pc'[t], attempts'[t]) = CallsLeft(pc[t], attempts[t])
    BY <2>1 DEF CallsLeft
  <2>3. QED
    BY <1>2, <1>3, <2>2
<1>9. CASE UNCHANGED <<job, pc, attempts, result>>
  <2>1. CallsLeft(pc'[t], attempts'[t]) = CallsLeft(pc[t], attempts[t])
    BY <1>9
  <2>2. QED
    BY <1>2, <1>3, <2>1
<1>10. QED
  BY <1>7, <1>8, <1>9, OtherSteps

\* While a circuit stays open, the calls that its agent may still get only run
\* down, however many tasks use it and wherever their retry loops are.
THEOREM PausedRunsDry == Spec => PausedAgentRunsDry
<1> DEFINE RunsDry ==
      \A a \in Agents :
          circuits[a].state = "Open" /\ circuits'[a].state = "Open" =>
             LET calls == [t \in UsersOf(a) |-> PossibleCalls(t)]
             IN  SumFunction(calls') <= SumFunction(calls)
<1>1. IInv /\ [Next]_vars => [RunsDry]_vars
  <2> SUFFICES ASSUME IInv, [Next]_vars, NEW a \in Agents,
                      circuits[a].state = "Open", circuits'[a].state = "Open"
               PROVE  SumFunction([t \in UsersOf(a) |-> PossibleCalls(t)]')
                        <= SumFunction([t \in UsersOf(a) |-> PossibleCalls(t)])
    OBVIOUS
  <2>1. PICK S : S = UsersOf(a)
    OBVIOUS
  <2>2. PICK f : f = [t \in S |-> PossibleCalls(t)]
    OBVIOUS
  <2>3. PICK e : e = [t \in S |-> PossibleCalls(t)']
    OBVIOUS
  <2>4. S \subseteq Tasks /\ IsFiniteSet(S) /\ \A t \in S : job[t].agent = a
    BY <2>1, DispatchConfig, FS_Subset DEF UsersOf
  <2>5. \A t \in Tasks : PossibleCalls(t) \in Int /\ PossibleCalls(t)' \in Int
    <3>1. \A t \in Tasks : PossibleCalls(t) \in Int
      BY PossibleCallsAre
    <3>2. \A t \in Tasks : PossibleCalls(t)' \in Int
      <4>1. \A t \in Tasks : attempts'[t] \in Int
        BY NextIInv, DispatchConfig DEF IInv, DataOK
      <4>2. MaxRetries + 1 \in Int
        BY DispatchConfig
      <4>3. \A t \in Tasks : PossibleCalls(t)' = CallsLeft(pc'[t], attempts'[t])
        BY DEF PossibleCalls, CallsLeft
      <4>4. QED
        BY <4>1, <4>2, <4>3 DEF CallsLeft
    <3>3. QED
      BY <3>1, <3>2
  <2>6. \A t \in S : PossibleCalls(t)' <= PossibleCalls(t)
    BY <2>4, CallsFall
  <2>7. /\ f \in [S -> Int] /\ e \in [S -> Int]
        /\ \A t \in S : e[t] <= f[t]
    BY <2>2, <2>3, <2>4, <2>5, <2>6
  <2>8. SumFunction(e) <= SumFunction(f)
    BY <2>4, <2>7, SumIsMonotone
  <2>9. job' = job
    BY OtherSteps, OthersWait
  <2>10. UsersOf(a)' = S
    BY <2>1, <2>9 DEF UsersOf
  <2>11. [t \in UsersOf(a) |-> PossibleCalls(t)]' = e
    BY <2>3, <2>10
  <2>12. QED
    BY <2>1, <2>2, <2>8, <2>11
<1>2. QED
  BY <1>1, AlwaysIInv, PTL DEF Spec, PausedAgentRunsDry
=============================================================================
