------------------------------- MODULE Dispatch -------------------------------
(***************************************************************************)
(* The parallel execution of subtasks: the tasks that process() spawns     *)
(* (application/orchestrator_service/process.rs) and execute_spawned()     *)
(* that each of them runs (worker.rs).  The tasks are those of every       *)
(* request in progress: they share one semaphore, one circuit breaker, one *)
(* cache and the sessions' ledgers.  Each await of the code is a point     *)
(* where other tasks may run, and so is a step of its own here.            *)
(*                                                                         *)
(* The semaphore is tokio's: permits are handed out in the order of the    *)
(* calls of acquire(), and a permit that is released goes to the first in  *)
(* the queue.                                                              *)
(***************************************************************************)
EXTENDS Circuit, Sequences, FiniteSets, Functions

CONSTANTS Tasks,            \* subtasks of the requests in progress
          Prompts,          \* subtask prompts
          Sessions,         \* session ids
          MaxConcurrency,   \* OrchestratorServiceBuilder::max_concurrency
          MaxRetries,       \* RetryPolicy::max_retries
          MaxLedger,        \* bound: ledger entries added to a session
          NoEntry           \* the cache has no entry for a key

ASSUME DispatchConfig == /\ MaxConcurrency \in Nat
                         /\ MaxRetries \in Nat
                         /\ MaxLedger \in Nat
                         /\ IsFiniteSet(Tasks)
                         /\ NoEntry \notin Nat

VARIABLES job,        \* agent, prompt and session of each subtask
          pc,         \* where its task is
          permits,    \* permits of the semaphore nobody holds
          waiters,    \* tasks queued in acquire()
          attempts,   \* calls of agent.execute() a task has begun
          system,     \* the system prompt a task sends its agent
          result,     \* how it ended
          cache,      \* the cached answers
          ledger      \* constraints and decisions in a session's ledger

vars == <<job, pc, permits, waiters, attempts, system, result, circuits, cache, ledger>>

Job == [agent: Agents, prompt: Prompts, session: Sessions]

\* CacheKey::compute(prompt, "", agent, config_version): the version is the
\* same for every task of a service, and the context is always empty.
Key == Agents \X Prompts
KeyOf(t) == <<job[t].agent, job[t].prompt>>

\* The system prompt lists the constraints and decisions of the ledger, so it
\* is identified by how many there are.  A cached answer is identified by the
\* system prompt the agent was given for it.
SystemPrompt == 0..MaxLedger
Entry == SystemPrompt \cup {NoEntry}

PC == {"unspawned", "spawned", "waiting", "check", "lookup", "prompt", "execute",
       "record_success", "store", "record_failure", "backoff", "done"}

\* "hit" is an answer from the cache, "rejected" the error of an open circuit,
\* "error" the last error once the retries are used up.
Result == {"answered", "hit", "rejected", "error", "panic"}
NoResult == "none"

TypeOK ==
    /\ job \in [Tasks -> Job]
    /\ pc \in [Tasks -> PC]
    /\ permits \in 0..MaxConcurrency
    /\ waiters \in Seq(Tasks)
    /\ attempts \in [Tasks -> 0..MaxRetries + 1]
    /\ system \in [Tasks -> SystemPrompt]
    /\ result \in [Tasks -> Result \cup {NoResult}]
    /\ circuits \in [Agents -> AgentCircuit]
    /\ cache \in [Key -> Entry]
    /\ ledger \in [Sessions -> SystemPrompt]

Init ==
    /\ job \in [Tasks -> Job]
    /\ pc = [t \in Tasks |-> "unspawned"]
    /\ permits = MaxConcurrency
    /\ waiters = << >>
    /\ attempts = [t \in Tasks |-> 0]
    /\ system = [t \in Tasks |-> 0]
    /\ result = [t \in Tasks |-> NoResult]
    /\ circuits = [a \in Agents |-> NewCircuit]
    /\ cache = [k \in Key |-> NoEntry]
    /\ ledger = [s \in Sessions |-> 0]

At(t, label) == pc[t] = label
Goto(t, label) == pc' = [pc EXCEPT ![t] = label]

\* Tasks that hold a permit.
Holders == {t \in Tasks : pc[t] \notin {"unspawned", "spawned", "waiting", "done"}}

\* Mutant of Finish: a permit is returned to the count past the queue.
Finish_NotHandedOver(t, r) ==
    /\ result' = [result EXCEPT ![t] = r]
    /\ permits' = permits + 1
    /\ pc' = [pc EXCEPT ![t] = "done"]
    /\ UNCHANGED waiters

\* The task ends with r; its permit is dropped, and goes to the first waiter.
Finish(t, r) ==
    /\ result' = [result EXCEPT ![t] = r]
    /\ IF waiters = << >>
       THEN /\ permits' = permits + 1
            /\ pc' = [pc EXCEPT ![t] = "done"]
            /\ UNCHANGED waiters
       ELSE /\ waiters' = Tail(waiters)
            /\ pc' = [pc EXCEPT ![t] = "done", ![Head(waiters)] = "check"]
            /\ UNCHANGED permits

Continue(t, label) == Goto(t, label) /\ UNCHANGED <<permits, waiters, result>>

-----------------------------------------------------------------------------
(* The steps of a task. *)

\* tokio::spawn in the loop of process().
Spawn(t) ==
    /\ At(t, "unspawned")
    /\ Continue(t, "spawned")
    /\ UNCHANGED <<job, attempts, system, circuits, cache, ledger>>

\* Mutant of Acquire: one permit too many is given out.
Acquire_OneTooMany(t) ==
    /\ At(t, "spawned")
    /\ IF permits >= 0
       THEN /\ permits' = permits - 1
            /\ Goto(t, "check")
            /\ UNCHANGED waiters
       ELSE /\ waiters' = Append(waiters, t)
            /\ Goto(t, "waiting")
            /\ UNCHANGED permits
    /\ UNCHANGED <<job, attempts, system, result, circuits, cache, ledger>>

\* sem.acquire().await, polled for the first time.
Acquire(t) ==
    /\ At(t, "spawned")
    /\ IF permits > 0
       THEN /\ permits' = permits - 1
            /\ Goto(t, "check")
            /\ UNCHANGED waiters
       ELSE /\ waiters' = Append(waiters, t)
            /\ Goto(t, "waiting")
            /\ UNCHANGED permits
    /\ UNCHANGED <<job, attempts, system, result, circuits, cache, ledger>>

\* Mutant of CheckCircuit: the verdict is dropped.
CheckCircuit_Ignored(t) ==
    /\ At(t, "check")
    /\ circuits' = [circuits EXCEPT ![job[t].agent] = AfterCheck(@)]
    /\ Continue(t, "lookup")
    /\ UNCHANGED <<job, attempts, system, cache, ledger>>

\* cb.check(): an open circuit ends the task.
CheckCircuit(t) ==
    LET a == job[t].agent
    IN  /\ At(t, "check")
        /\ circuits' = [circuits EXCEPT ![a] = AfterCheck(@)]
        /\ IF Admits(circuits[a]) THEN Continue(t, "lookup") ELSE Finish(t, "rejected")
        /\ UNCHANGED <<job, attempts, system, cache, ledger>>

\* cache.get(): a hit ends the task, and tells the breaker nothing.
Lookup(t) ==
    /\ At(t, "lookup")
    /\ IF cache[KeyOf(t)] # NoEntry THEN Finish(t, "hit") ELSE Continue(t, "prompt")
    /\ UNCHANGED <<job, attempts, system, circuits, cache, ledger>>

\* build_system_prompt(), once for all attempts, and the first attempt begins.
BuildPrompt(t) ==
    /\ At(t, "prompt")
    /\ system' = [system EXCEPT ![t] = ledger[job[t].session]]
    /\ attempts' = [attempts EXCEPT ![t] = 1]
    /\ Continue(t, "execute")
    /\ UNCHANGED <<job, circuits, cache, ledger>>

\* agent.execute() returns: an answer, an error or a timeout, or it panics.
ExecuteOk(t) ==
    /\ At(t, "execute")
    /\ Continue(t, "record_success")
    /\ UNCHANGED <<job, attempts, system, circuits, cache, ledger>>

ExecuteErr(t) ==
    /\ At(t, "execute")
    /\ Continue(t, "record_failure")
    /\ UNCHANGED <<job, attempts, system, circuits, cache, ledger>>

\* Mutant of ExecutePanic: a panic does not drop the permit.
ExecutePanic_KeepsPermit(t) ==
    /\ At(t, "execute")
    /\ result' = [result EXCEPT ![t] = "panic"]
    /\ Goto(t, "done")
    /\ UNCHANGED <<job, permits, waiters, attempts, system, circuits, cache, ledger>>

ExecutePanic(t) ==
    /\ At(t, "execute")
    /\ Finish(t, "panic")
    /\ UNCHANGED <<job, attempts, system, circuits, cache, ledger>>

ReportSuccess(t) ==
    /\ At(t, "record_success")
    /\ circuits' = [circuits EXCEPT ![job[t].agent] = AfterSuccess(@)]
    /\ Continue(t, "store")
    /\ UNCHANGED <<job, attempts, system, cache, ledger>>

\* cache.put() of the answer, which is then the task's result.
Store(t) ==
    /\ At(t, "store")
    /\ cache' = [cache EXCEPT ![KeyOf(t)] = system[t]]
    /\ Finish(t, "answered")
    /\ UNCHANGED <<job, attempts, system, circuits, ledger>>

\* Mutants of ReportFailure: one retry less, the last failure is not reported,
\* and the last failure is cached.
ReportFailure_RetryLost(t) ==
    /\ At(t, "record_failure")
    /\ circuits' = [circuits EXCEPT ![job[t].agent] = AfterFailure(@)]
    /\ IF attempts[t] < MaxRetries THEN Continue(t, "backoff") ELSE Finish(t, "error")
    /\ UNCHANGED <<job, attempts, system, cache, ledger>>

ReportFailure_LastUnreported(t) ==
    /\ At(t, "record_failure")
    /\ IF attempts[t] <= MaxRetries
       THEN /\ circuits' = [circuits EXCEPT ![job[t].agent] = AfterFailure(@)]
            /\ Continue(t, "backoff")
       ELSE UNCHANGED circuits /\ Finish(t, "error")
    /\ UNCHANGED <<job, attempts, system, cache, ledger>>

ReportFailure_Caches(t) ==
    /\ At(t, "record_failure")
    /\ circuits' = [circuits EXCEPT ![job[t].agent] = AfterFailure(@)]
    /\ IF attempts[t] <= MaxRetries
       THEN Continue(t, "backoff") /\ UNCHANGED cache
       ELSE Finish(t, "error") /\ cache' = [cache EXCEPT ![KeyOf(t)] = system[t]]
    /\ UNCHANGED <<job, attempts, system, ledger>>

\* record_failure(), and the end of the loop once the retries are used up.
ReportFailure(t) ==
    /\ At(t, "record_failure")
    /\ circuits' = [circuits EXCEPT ![job[t].agent] = AfterFailure(@)]
    /\ IF attempts[t] <= MaxRetries THEN Continue(t, "backoff") ELSE Finish(t, "error")
    /\ UNCHANGED <<job, attempts, system, cache, ledger>>

\* The backoff sleep ends, with the permit still held, and the next attempt
\* begins; the breaker is not asked again.
Backoff(t) ==
    /\ At(t, "backoff")
    /\ attempts' = [attempts EXCEPT ![t] = @ + 1]
    /\ Continue(t, "execute")
    /\ UNCHANGED <<job, system, circuits, cache, ledger>>

-----------------------------------------------------------------------------
(* The rest of the program. *)

\* The cache drops an entry: its age or the limits of the cache.
Evict(k) ==
    /\ cache[k] # NoEntry
    /\ cache' = [cache EXCEPT ![k] = NoEntry]
    /\ UNCHANGED <<job, pc, permits, waiters, attempts, system, result, circuits, ledger>>

\* add_ledger_entry() of a new constraint or decision.
AddLedgerEntry(s) ==
    /\ ledger[s] < MaxLedger
    /\ ledger' = [ledger EXCEPT ![s] = @ + 1]
    /\ UNCHANGED <<job, pc, permits, waiters, attempts, system, result, circuits, cache>>

Tick ==
    /\ \E a \in Agents : AfterTick(circuits[a]) # circuits[a]
    /\ circuits' = [a \in Agents |-> AfterTick(circuits[a])]
    /\ UNCHANGED <<job, pc, permits, waiters, attempts, system, result, cache, ledger>>

\* Every task has ended and nothing is left to do.
AllDone == (\A t \in Tasks : At(t, "done")) /\ UNCHANGED vars

\* Everything a spawned task does.
TaskStep(t) ==
    \/ Acquire(t)
    \/ CheckCircuit(t)
    \/ Lookup(t)
    \/ BuildPrompt(t)
    \/ ExecuteOk(t)
    \/ ExecuteErr(t)
    \/ ExecutePanic(t)
    \/ ReportSuccess(t)
    \/ Store(t)
    \/ ReportFailure(t)
    \/ Backoff(t)

Next ==
    \/ \E t \in Tasks : Spawn(t) \/ TaskStep(t)
    \/ \E k \in Key : Evict(k)
    \/ \E s \in Sessions : AddLedgerEntry(s)
    \/ Tick
    \/ AllDone

Spec == Init /\ [][Next]_vars

\* The runtime polls every task that can run, every call of an agent is bounded
\* by timeout(), and every backoff by max_delay.
FairSpec == Spec /\ \A t \in Tasks : WF_vars(TaskStep(t))

-----------------------------------------------------------------------------
(* Properties *)

\* The semaphore loses no permit and makes none up, on any of the ways a task
\* ends, and no permit stays free while a task waits for one: the queue holds
\* exactly the tasks that wait, each once, and is empty while a permit is free.
PermitsConserved ==
    /\ permits + Cardinality(Holders) = MaxConcurrency
    /\ \A t \in Tasks : At(t, "waiting") <=> \E i \in DOMAIN waiters : waiters[i] = t
    /\ \A i, j \in DOMAIN waiters : waiters[i] = waiters[j] => i = j
    /\ waiters # << >> => permits = 0

\* How a task ended tells how often its agent was called: never if it was
\* rejected or answered from the cache, MaxRetries + 1 times if it failed, and
\* at least once and no more often than that otherwise.
AttemptsMatchResult ==
    \A t \in Tasks :
        /\ result[t] \in {"hit", "rejected"} => attempts[t] = 0
        /\ result[t] = "error" => attempts[t] = MaxRetries + 1
        /\ result[t] \in {"answered", "panic"} => attempts[t] \in 1..MaxRetries + 1
        /\ At(t, "backoff") => attempts[t] \in 1..MaxRetries

UsersOf(a) == {t \in Tasks : job[t].agent = a}

\* The attempts of t that the breaker was told had failed.
FailuresOf(t) ==
    IF \/ pc[t] \in {"execute", "record_success", "record_failure", "store"}
       \/ result[t] \in {"answered", "panic"}
    THEN attempts[t] - 1
    ELSE attempts[t]

\* An agent whose failures reach the threshold, over all the tasks that use it
\* and before any of them had an answer from it recorded, is paused or on
\* probation: no interleaving of the tasks' reports loses one.
UnresponsiveAgentIsPaused ==
    \A a \in Agents :
        /\ \A t \in UsersOf(a) : ~At(t, "store") /\ result[t] # "answered"
        /\ SumFunction([t \in UsersOf(a) |-> FailuresOf(t)]) >= FailureThreshold
        => circuits[a].state # "Closed"

\* The calls of its agent that t has made or may still make; one that the
\* breaker has not let through makes none.
PossibleCalls(t) ==
    CASE pc[t] \in {"unspawned", "spawned", "waiting", "check"} -> 0
      [] pc[t] \in {"record_success", "store", "done"} -> attempts[t]
      [] OTHER -> MaxRetries + 1

\* A retry loop does not ask the breaker again, so an agent may be called
\* after its circuit has opened; but only by the tasks that were let through
\* before, within the retries they had: however many tasks use the agent, the
\* calls on it run dry while the circuit stays open.
PausedAgentRunsDry ==
    [][\A a \in Agents :
          circuits[a].state = "Open" /\ circuits'[a].state = "Open" =>
             LET calls == [t \in UsersOf(a) |-> PossibleCalls(t)]
             IN  SumFunction(calls') <= SumFunction(calls)]_vars

\* What the cache holds for a key, and what a task is given from it, is the
\* answer that an agent gave a task with the same agent and prompt: failures,
\* panics and rejections are never cached.
CachedAnswersWereGiven ==
    /\ \A k \in Key : cache[k] # NoEntry =>
          \E t \in Tasks : KeyOf(t) = k /\ result[t] = "answered" /\ system[t] = cache[k]
    /\ \A t \in Tasks : result[t] = "hit" =>
          \E u \in Tasks : KeyOf(u) = KeyOf(t) /\ result[u] = "answered"

\* Every spawned task ends, so process(), which awaits them all, is never left
\* waiting for a subtask: every task that waits gets a permit, every failing
\* agent uses the retries up.
EveryTaskFinishes == \A t \in Tasks : At(t, "spawned") ~> At(t, "done")

PoolStatus ==
    [t \in Tasks |-> CASE pc[t] \in {"unspawned", "done"} -> pc[t]
                       [] pc[t] \in {"spawned", "waiting"} -> "waiting"
                       [] OTHER -> "running"]

Pool == INSTANCE TaskPool WITH status <- PoolStatus, Results <- Result

\* The tasks are a pool of MaxConcurrency slots: none runs without a slot, no
\* slot is lost, and a task that has ended keeps its result.
ImplementsTaskPool == Pool!PoolSpec

-----------------------------------------------------------------------------
(* What the documentation says of the dispatch. *)

\* docs/ARCHITECTURE.md:80, "key = hash(prompt+contexto+agent+config)": an
\* answer from the cache was given in the context the task is asked in.
CacheHitInContext ==
    [][\A t \in Tasks :
          result[t] # "hit" /\ result'[t] = "hit"
             => cache[KeyOf(t)] = ledger[job[t].session]]_vars
=============================================================================
