# OmniShell in TLA+

OmniShell is a Rust library and command line that answers a user's request by
splitting it into subtasks, running each one on an AI agent (a program it starts
as a child process), and putting the answers together. This directory holds TLA+
models of its core, configurations that check them with TLC, and theorems about
them that TLAPS checks.

Source paths in this file are relative to the crate's `src/` directory;
`PROJECT.json` gives the lines behind every definition.

## 1. The system

### 1.1 Components

| component | source | state it keeps | operations that change it | correct when |
|---|---|---|---|---|
| circuit breaker | `application/circuit_breaker/breaker.rs` | per agent: `Closed`/`Open`/`HalfOpen`, failure count, opening time | `check`, `record_success`, `record_failure`, `reset` | the count is of *consecutive* failures in every interleaving of callers; a pause ends and no late report prolongs it; the three fields agree |
| subtask dispatch | `application/orchestrator_service/worker.rs`, the spawn loop of `process.rs` | permits and queue of the semaphore, attempts of each task | spawn, acquire, the retry loop, the release of the permit | permits are conserved on every way out; a failed task made exactly its attempts; every task ends; only answers are cached |
| request pipeline | `application/orchestrator_service/process.rs` | locals of each `process()` in progress | policy, budget, question, plan, route, spawn, await, answer, trim | an answer is complete and in the plan's order; a refused request leaves nothing; conversations stay in order; every request returns |
| context manager | `application/context_service/manager.rs` | per session: messages, ledger, token and byte totals | `add_message`, `add_ledger_entry`, `trim_context`, `clear_session`; `build_agent_input` reads three times | totals are the sums; a trim keeps the longest recent part that fits and the ledger; the loops end; an input is one conversation |
| router | `application/router/mod.rs` | map of agents behind a fair `RwLock` | `register`, `unregister`; `route` and `all_matching` scan it, `health_check` of the orchestrator reads it once per agent | a scan's answer is the best of the registry at the time it answers; a health report covers the agents that stay; no call starves |
| response cache | `infrastructure/lru_cache/` | map of nodes linked by their keys, ends of the list, byte total | `get`, `put`, `remove`, `clear`, eviction, expiry | list = map; total = sum; limits kept; evicts the least recently used and no more than needed |
| CLI agent adapter | `infrastructure/cli_adapter/` | a child process and its pipes per attempt | spawn, write the prompt, collect output, time out | an answer is the whole output of one child and an error is the child's; adapter and child do not block each other for ever; no child is left behind |
| planner | `application/planner/mod.rs` | none | – | its plan names a capability that the router knows how to serve, or the request fails |
| aggregator | `application/aggregator/mod.rs` | none | – | responses in the order given, sums of tokens and cache hits |
| task queue | `infrastructure/task_queue/mod.rs` | channel, and a pending counter beside it; a mutex around the receiver | `enqueue`, `dequeue`, `pending_count` | FIFO, bounded; the counter is off by calls in progress only; every dequeue returns |
| tool executor | `infrastructure/tool_executor/executor.rs` | configuration; a child process per call | `execute`: refuse, dry run, spawn, collect, cut, time out | the response is the output, or is cut at its limit and says so; every call returns; tool and executor do not block each other |
| policy guard | `infrastructure/policy_guard/guard.rs` | configuration only | – | a verdict for every input |
| token budget, counter | `domain/token/` | `limit`, `used` | `consume`, `reset` | `used <= limit` |
| memory store | `infrastructure/memory_store/mod.rs` | map of maps behind a lock | store, retrieve, delete | a map |
| secrets, configuration, command line | `infrastructure/secrets.rs`, `infrastructure/config/`, `interface/`, `runner.rs` | none that lasts | input and output | – |

### 1.2 How they interact

A call of `process()` goes, with an `await` (a point where other requests run)
at every arrow:

    policy check -> token estimate of the session -> add_message(question) -> plan
      -> for each subtask: route -> get_agent -> tokio::spawn
      -> await the handles in order -> aggregate -> add_message(answer) -> trim_context

A spawned subtask waits for a permit of the semaphore that all requests share, and
holds it while it asks the breaker, looks in the cache, reads the session's
constraints and decisions, and then calls the agent up to `max_retries + 1` times,
each call bounded by a timeout. It tells the breaker of every result and puts an
answer into the cache. Breaker, cache, context manager, router and semaphore are
shared by all requests; each of the first four is a map behind a lock that is held
for one method at a time, so the interleavings that matter are between methods.

### 1.3 What is hard about it

- **Interleaving.** Reports to the breaker, messages of a session and changes of the
  registry come from any number of tasks between any two awaits.
- **Stale state.** The breaker's verdict is used for every retry, the system prompt for
  every attempt; the agent that `route()` chose may be gone when `get_agent()` looks.
- **Partial failure.** An error while a plan is dispatched drops the handles of subtasks
  that run on; every early return after the question skips the trim.
- **Timeouts and retries.** A timeout drops a future and does not kill its process; the next
  attempt runs beside it.
- **Limits.** Permits, sessions, cache and pipes at their limit, and limits of 0.
- **Bookkeeping.** Totals kept beside the data with saturating subtractions, which would
  hide a drift; a linked list in a map.

`PROJECT.json` lists these hazards at their lines, each with the property that covers it or
the reason why none does.

## 2. Modules

    Circuit ---------- CircuitBreaker            Registry --- Router
       |                                            |
       +-------------- Dispatch                     |   Context --- ContextManager
                          | implements              |      |
                       TaskPool ------------------- Orchestrator --- PolicyGuard

    LruCache -- implements --> Lru               ChildProcess --- CliAgent
    TaskQueue - implements --> Fifo                         \--- ToolExecutor

Arrows not marked are EXTENDS or INSTANCE. `Circuit`, `Registry` and `Context` hold a
component's data and the effect of its methods as pure operators, so that the module of
the component and the modules that use it apply the same definitions. `CircuitBreaker` and `Dispatch`, and
`CliAgent` and `ToolExecutor`, share no names of their own (`BreakerSpec` and `Spec`, `ToolSpec` and `Spec`), so
that one module of proofs can extend both and state the lemmas about what they share once. An operator whose
name has an underscore, such as `AfterFailure_Reopens`, is a *mutant*: a plausible bug of
the definition it is named after. `PROJECT.json` pairs each property of a passing run with
a mutant that violates it.

**Circuit, CircuitBreaker.** `circuits`, declared in `Circuit`, is the breaker's map, with an absent entry as a new
one. `Check`, `RecordSuccess`, `RecordFailure` and `Reset` are the four methods, each atomic
under the map's write lock. A call asks once, may report any number of failures, and leaves
with a success, after a failure or without a report (a cache hit or a panic), as
`execute_spawned()` does. `opened_at` is kept as the ticks that have elapsed, up to the
timeout; `failures` is counted up to the threshold, since nothing tells greater values apart.
`recent` is a history variable: the last reports on an agent.

**Dispatch.** A task is what `tokio::spawn` runs. Its `pc` stands between two awaits of
`execute_spawned()`: `spawned`, `waiting` (in the semaphore's queue), `check`, `lookup`,
`prompt`, `execute`, `record_success`, `store`, `record_failure`, `backoff`, `done`. `ReportSuccess` and
`ReportFailure` are its calls of the breaker's `record_success()` and `record_failure()`. `Finish`
is the drop of the permit, which tokio hands to the first task of the queue. The breaker is
`Circuit`; the cache maps an agent and a prompt to the system prompt under which the agent
was asked; a system prompt is known by the number of constraints and decisions it lists.
The configuration version in the cache key is one constant of a service.

**TaskPool** is what Dispatch promises: tasks wait, run in one of `MaxConcurrency` slots
and finish. `Orchestrator` uses it in place of Dispatch.

**Context, ContextManager.** A session has its messages (role, tokens and bytes), the kinds of its
ledger entries, and the two totals. Methods are one step each, except two. `trim_context()` holds the
lock throughout; its three loops are modelled iteration by iteration so that they can be compared with
what they are for (`LongestFittingSuffix`) and with the one-step trim that `Orchestrator` takes
(`AfterTrim`). `build_agent_input()` takes the lock three times (`ReadSystemPrompt`, `ReadUserPrompt`,
`ReadContext`), and `reading` holds its locals; the history `meanwhile` tells what was done to the
session since the first read.

**Registry, Router.** `Router` models the fair lock and the scans of `route()` and
`all_matching()` agent by agent in any order (the map is a `HashMap`); `Registry` says what
they should answer, and `Orchestrator` takes them at that. `OrchestratorService::health_check()` is in
`Router` because it is a caller of it: it lists the agents (`ListAgents`), then queues for the lock
again for each one (`AskNext`, `GetAgent`), and waits for the agent's answer without the lock
(`AgentAnswers`), which may never come.

**Orchestrator.** One action per step of `process()` between awaits, with every early
return: refusals of policy and budget, errors of the planner and of `route()`, and an agent
that disappears before `get_agent()`. Requests share sessions, the registry, which changes at
any time, and the pool. A request is what a user asks: session, text, budget, capability. The policy's
verdict is `PolicyGuard`'s; the plan is `DeterministicPlanner`'s single subtask or one that another
`Planner` might make. Tokens are counted from bytes as `SimpleTokenCounter` does, and an answer has the
size of its parts joined by `ConcatAggregator`.

**PolicyGuard.** The verdicts as operators: a text is its size, whether a pattern matches it, and
whether `redact()` would cut it inside a character, which panics, inside `process()`.

**LruCache, Lru.** `LruCache` keeps nodes with `newer`/`older` keys, the two ends and
`total_bytes`, as the code does; `Unlink`, `PushFront`, `Removed` and `MakeRoom` are the
helper methods; the loop of `put()` and the ways along the links are functions by recursion, so that they can be
reasoned about. `used` is a history of the calls, to compare the list with. `Lru` keeps the entries in the order of their use and nothing else. Ages are
computed modulo a power of two, as the cast from `i64` to `u64` does.

**ChildProcess.** A child process as the operating system and `tokio::process` provide it, used by the
two components that start one. A pipe holds `PipeSize` units. A child may read some, all or none of its
input, writes its outputs in any order, and succeeds or fails; one that writes to a pipe nobody
reads any more is killed. `AfterStep(c)` is what a child may become by a step of its own. Everything
here is marked external in the map.

**CliAgent.** `execute()` writes the whole prompt, then closes the child's input, then
collects both outputs, waits for the exit and parses the output. A timeout, possible at any moment, drops
the adapter's ends of the pipes; the child lives on, beside the child of the next attempt. A child whose input is not a pipe (modes `Arg` and `File`)
inherits the adapter's, and is taken not to wait for it.

**ToolExecutor.** One call of `execute()`, under any configuration: the refusals in the order of the
code (`Refusal`), the dry run, the tool's process (`Spawn`, and `ToolStep` for what it does by itself), its two
outputs (`Take`), the timeout (`Expire`) and the response (`Complete`). `Answer` is how any of them returns.
An output is the sequence of the widths, in bytes, that its units have once
`from_utf8_lossy()` has decoded them, so that a byte limit may fall inside a character (a panic) and a
text may grow by being decoded. Calls share nothing but the configuration, so one is enough.

**TaskQueue, Fifo.** `TaskQueue` has the channel, the counter, the mutex of the receiver with its
queue, and each caller between two of its steps: `Enqueue` sends and `Count` counts; `Dequeue` asks for
the mutex, `Receive` takes a task and `Uncount` takes it off the count; `Expire` is the timeout and
`Drop` a caller that gives up the call at either of its awaits. The counter wraps around at
`Modulus`. `Fifo` has neither counter nor mutex: on it, every call takes effect at one instant.

**MCContextManager, MCRouter, MCOrchestrator** give values to constants for TLC.

## 3. Runs

Run `tlc -config <cfg> <module>` in this directory. The bounds are in the `.cfg` files.

| run | module, configuration | shows |
|---|---|---|
| circuit_breaker | `CircuitBreaker`, `CircuitBreaker.cfg` | two agents, three calls, threshold 2, timeout of 2 ticks. `PausedOnConsecutiveFailures`: the circuit is not closed exactly when the last two reports were failures. `CircuitConsistent`: its three fields agree. `PauseNotExtended`, `PauseEnds`: late failures do not prolong a pause |
| dispatch | `Dispatch`, `Dispatch.cfg` | three tasks, two agents, one prompt, two permits, one retry. `PermitsConserved`, `AttemptsMatchResult`, `UnresponsiveAgentIsPaused`, `CachedAnswersWereGiven`; `PausedAgentRunsDry`: while an agent is paused, the calls it may still get become no more; `EveryTaskFinishes`, `ImplementsTaskPool` |
| orchestrator | `MCOrchestrator`, `Orchestrator.cfg` | two requests of one or two subtasks each, in one session or two, four texts of which three are refused, one slot, a budget of 1 token. `OkIsComplete`, `RefusedLeavesNoTrace`, `ConversationsKeepOrder`, `OverflowIsUnanswered`, `EveryRequestReturns`, `EverySubtaskEnds` |
| context_manager | `MCContextManager`, `ContextManager.cfg` | up to four messages of three kinds that reach the limits of 2 messages, 8 bytes and 4 tokens each first, one of them larger than the byte limit, and two ledger entries. `Consistent`: the running totals are the sums over the messages, also in the middle of a trim; `TrimKeepsRecent`, `TrimEnds`; `InputIsOneConversation`: trims between the three reads of an input do no harm |
| router | `MCRouter`, `Router.cfg` | two callers, two agents, two priorities. `RouteAnswersBest`, `MatchingIsRanked`, `ReportIsComplete`; `EveryCallReturns`: also beside an agent that never answers its health check |
| lru_cache | `LruCache`, `LruCache.cfg` | four keys, sizes 1, 3 and 6, limits of 3 entries and 4 bytes, a clock that is set back. `Consistent`: the list is the order of use from both ends and the byte count the sum (`ListIsOrderOfUse`, `TotalIsSum`); `LimitsKept`: both limits hold, or one entry that is over them by itself is alone; `ImplementsLru` |
| cli_agent | `CliAgent`, `CliAgent.cfg` | two attempts, prompts of up to two units, outputs of none or two units, pipes of one. `ResultFitsChild`: an answer is the whole output of the attempt's own child, an error has a cause (`OkIsWholeOutput`, `ErrorHasCause`); `StuckOnlyOnLargePrompt`, `EveryChildEnds` |
| task_queue | `TaskQueue`, `TaskQueue.cfg` | two producers, three consumers, a channel of two, a counter of eight values. `PendingIsLength`: the counter is off by exactly the calls between their two steps, and may wrap; `MutexServesAll`; `WaitsItsTurn`: a dequeue waits for the holder of the mutex and those queued when it called, and for nobody who came later, so at most for one timeout of each; `EveryDequeueReturns`, `ImplementsFifo` |
| tool_executor | `ToolExecutor`, `ToolExecutor.cfg` | every configuration of two names, limits of 0 and 1 byte, outputs of up to two units of 1 or 3 bytes, pipes of one. `AnswerFitsOutput`: the response is the output cut as announced, and a panic has a cut inside a character for a cause (`ResponseIsOutput`, `PanicsOnlyInsideCharacter`); `OnlyTimeoutLeavesTool`, `NeverStuck`, `EveryToolEnds` |

Each module has a type invariant, `TypeOK`. Those of `CircuitBreaker`, `Dispatch`, `TaskQueue`, `Router` and
`Orchestrator` are theorems (section 4) and no run repeats them. The others are a conjunct of `Consistent`,
`ResultFitsChild` and `AnswerFitsOutput`, and checked and proved with them.

Three runs check a sentence of `docs/ARCHITECTURE.md` that the code does not keep, and end
with a counterexample:

| run | the documentation says | the code does |
|---|---|---|
| single_probe | line 182: after the timeout *one* probe request is let through | `check()` lets every caller through while the circuit is half-open |
| cache_hit_other_context | line 80: the cache key covers the context | the key is computed with an empty context, so an answer is reused under another system prompt |
| unchecked_output | line 167: `check_agent_output()` validates an agent's output before it is returned | nothing calls it, and an answer it would not pass is returned |

### Why these bounds

Two agents are the fewest with which reports and cache entries can be mixed up.
Three tasks over two permits are the fewest with which one waits while two run and a
permit is handed over. A threshold of 2 is the fewest at which counting matters, and one
retry gives a task two reports. Two requests of two subtasks over one slot are the fewest
with which subtasks of different requests compete while a request still spawns. Four messages
under a limit of two let a trim drop two for one limit and more for another, and two ledger entries let
one be added between two reads of a prompt that has one. Four keys with room
for three let a node be unlinked from either end and from between, and be evicted. Pipes of one
unit and data of two are the fewest that fill a pipe. A character of 3 bytes under a limit of 1 is cut
inside, and one of 1 byte before or after it is not. Three consumers are the fewest with which one holds the
mutex, one waits and one gives up; eight counter values are more than the capacity and the callers need, and few enough to wrap. Counters the code does not bound
(ledger entries, messages of a session, readings of the clock) have a bound in a guard,
marked "bound" at its constant.

### Fairness

- `Dispatch`: weak fairness of `TaskStep(t)` for each task. The tokio runtime polls every task
  that can run; agents answer or time out, as each call is under `timeout()`; sleeps end, as
  they are capped by `max_delay`. Nothing is assumed about *which* way an agent ends. Permits need no
  strong fairness: tokio's queue hands them over.
- `Orchestrator`: weak fairness of each request's `Process(r)` and of each subtask's
  `RunSubtask(t)`. That a submitted subtask gets a slot and ends is what `EveryTaskFinishes`
  establishes of `Dispatch`.
- `CircuitBreaker`: weak fairness of `BreakerTick`, the passing of time, and of nothing else.
- `ContextManager`: weak fairness of `TrimStep`: a loop without an await runs on.
- `Router`: weak fairness of each caller's `Step(c)`, and none for making calls or for an agent's answer
  to a health check.
- `TaskQueue`: weak fairness of each consumer's `DequeueStep(c)`: the runtime polls a consumer that can go
  on, and its timer fires. None for making calls, or for the mutex, which tokio hands over.
- `CliAgent`, `ToolExecutor`: weak fairness of the component and of its timer. Nothing is assumed about the
  child process, which may hang; only `EveryChildEnds` and `EveryToolEnds` have the fairness of the
  child as a premise, as nothing kills a program that computes for ever without touching its pipes.

Deadlock is checked in every run but `cli_agent` and `tool_executor`, where nothing is left to do once the
subtask is answered or out of attempts, or the call has returned, and the processes have ended. `Dispatch`
has an explicit `AllDone` step; in the other modules the environment can always move.

## 4. Proofs

`tlapm` checks the modules whose names end in `Proofs`, for all values of the constants that the named
assumptions allow; TLC evaluates the same assumptions on every run.

| proofs | about | assumptions |
|---|---|---|
| `DispatchProofs` | `CircuitBreaker`, `Dispatch` | `CircuitConfig`: the threshold is positive, the timeout a natural number; and for `Dispatch` `DispatchConfig`: the limits are natural numbers, `Tasks` is finite, `NoEntry` is not a number |
| `TaskQueueProofs` | `TaskQueue` | `QueueConfig`: the capacity is positive, as the code's channel demands; capacity and producers are fewer than the values of the counter; producers and consumers are apart |
| `RouterProofs` | `Router` | `RegistryConfig`, `RouterConfig`: priorities are natural numbers, and the marks for no agent and no call are neither |
| `ContextProofs` | the operators of `Context` | `ContextLimits`: the limits are natural numbers |
| `ContextManagerProofs` | `ContextManager` | `ContextLimits`, and `ManagerConfig`: the sizes of messages are natural numbers, and the marks for no session, no trim and no reading are neither |
| `OrchestratorProofs` | `Orchestrator` | `ContextLimits`, `RegistryConfig`, `PolicyConfig`: sizes are natural numbers; and `OrchestratorConfig`: the sets of requests, plans and agents are of their types, a plan is no longer than `MaxSubtasks`, the marks are neither |
| `LruCacheProofs` | `LruCache` | `CacheConfig`: sizes, limits and times are natural numbers, the clock does not reach the wrap-around, `Nil` is not a key; `NilIsNone`: it is no node either |
| `ChildProcessProofs` | `CliAgent`, `ToolExecutor` | `PipeConfig`: a pipe holds something; `CliConfig`: there is at least one attempt, sizes are natural numbers; `ToolConfig`: units have a positive width, the bounds are natural numbers |

| theorem | says |
|---|---|
| `DispatchProofs!BreakerTypeCorrect` | `BreakerSpec => []BreakerTypeOK` |
| `DispatchProofs!CircuitFieldsAgree` | `BreakerSpec => []CircuitConsistent` |
| `DispatchProofs!PausedExactlyOnConsecutiveFailures` | `BreakerSpec => []PausedOnConsecutiveFailures` |
| `DispatchProofs!PauseKeepsItsClock` | `BreakerSpec => PauseNotExtended` |
| `ChildProcessProofs!AnswersFitChildren` | `Spec => []ResultFitsChild` |
| `ChildProcessProofs!ResponsesFitOutput` | `ToolSpec => []AnswerFitsOutput` |
| `ChildProcessProofs!ToolsAreNotLeft` | `ToolSpec => []OnlyTimeoutLeavesTool` |
| `LruCacheProofs!Consistency` | `Spec => []Consistent` |
| `LruCacheProofs!Limits` | `Spec => []LimitsKept` |
| `LruCacheProofs!Implementation` | `Spec => ImplementsLru` |
| `DispatchProofs!SemaphoreConserved` | `Spec => []PermitsConserved` |
| `DispatchProofs!NoPermitNoStart` | `Spec => []NothingStarts` |
| `DispatchProofs!TypeCorrect` | `Spec => []TypeOK` |
| `DispatchProofs!AttemptsAgreeWithResults` | `Spec => []AttemptsMatchResult` |
| `DispatchProofs!CacheHoldsAnswers` | `Spec => []CachedAnswersWereGiven` |
| `DispatchProofs!UnresponsivePaused` | `Spec => []UnresponsiveAgentIsPaused` |
| `DispatchProofs!PausedRunsDry` | `Spec => PausedAgentRunsDry` |
| `DispatchProofs!DispatchIsATaskPool` | `Spec => ImplementsTaskPool` |
| `ContextManagerProofs!TotalsAreRight` | `Spec => []Consistent` |
| `ContextManagerProofs!TrimIsLongestFit` | `Spec => TrimKeepsRecent` |
| `ContextManagerProofs!InputIsConsistent` | `Spec => []InputIsOneConversation` |
| `OrchestratorProofs!TypeCorrect` | `Spec => []TypeOK` |
| `OrchestratorProofs!OkHasAllResponses` | `Spec => []OkIsComplete` |
| `OrchestratorProofs!RefusalsLeaveNothing` | `Spec => []RefusedLeavesNoTrace` |
| `OrchestratorProofs!ConversationsAreOrdered` | `Spec => []ConversationsKeepOrder` |
| `OrchestratorProofs!AnswersFit` | `Spec => []OverflowIsUnanswered` |
| `OrchestratorProofs!PoolIsUsedAsSpecified` | `Spec => Pool!PoolSpec` |
| `RouterProofs!TypeCorrect` | `Spec => []TypeOK` |
| `RouterProofs!RouteIsRight` | `Spec => []RouteAnswersBest` |
| `RouterProofs!MatchingIsSorted` | `Spec => []MatchingIsRanked` |
| `RouterProofs!ReportCoversThoseThatStay` | `Spec => []ReportIsComplete` |
| `TaskQueueProofs!TypeCorrect` | `Spec => []TypeOK` |
| `TaskQueueProofs!MutexIsFair` | `Spec => []MutexServesAll` |
| `TaskQueueProofs!NobodyIsOvertaken` | `Spec => WaitsItsTurn` |
| `TaskQueueProofs!CounterFollowsChannel` | `Spec => []PendingIsLength` |
| `TaskQueueProofs!QueueIsFifo` | `Spec => ImplementsFifo` |

**The breaker.** `PausedOnConsecutiveFailures` relates the circuit to the last reports and is
not inductive: a closed circuit says nothing of how many failures the history ends with. The
invariant `BreakerIInv` adds `CountsStreak`: the count of a circuit is exactly the length of
the streak of failures at the end of its history, capped at the threshold. `RememberSuccess` and
`RememberFailure` show that one report keeps this, also when the window of reports slides;
`AgentSteps` lifts it to one agent, `NextBreaker` to the map. With `CircuitConsistent`, the streak gives the
property. `PauseNotExtended` follows from `BreakerIInv` step by step: `AfterFailure` of an open circuit
leaves its clock alone.

**The dispatch.** `StepKinds` sorts the steps of `Dispatch` into five kinds by what they do to the
semaphore: none, a spawn, an acquisition, a step of a holder, and a holder's end.
`PermitInv` is `PermitsConserved` with the types it needs, and each kind of step keeps it; the
cardinality of the holders changes by one on an acquisition and an end, and stays when
a permit is handed over. `NoPermitNoStart` is about the one value of `MaxConcurrency` the run does not have: with
no permit there is no holder, and no step makes one, so every subtask stays in `acquire()`. `AttemptInv` says for each place of the loop how many attempts have
begun and whether there is a result; it is what makes `AttemptsMatchResult` inductive. `AnswersStep` is what a step may do to cache and
answers: an answer stays one, for a task that has a result never asks for its prompt again, and only such an answer is
stored. The
refinement maps a task's `pc` to its place in the pool. It needs `PermitInv`: that a task which
takes a permit finds a slot free in the pool is `permits + Cardinality(Holders) =
MaxConcurrency`, and that the task which is handed one waits in the pool is the part about the queue.

The two properties about an agent's failures and calls are sums over the tasks that use it. `UnresponsiveAgentIsPaused`
is not inductive: a circuit that is not closed says nothing of how many failures it has counted. The invariant adds
`CountsFailures`: while no user of the agent has succeeded, the circuit counts exactly the sum of their failures, capped at
the threshold. `OwnSteps` is the table of what a step does to its own task and to its agent's circuit, `OthersWait` what
the other tasks see of it (at most that one of them gets the permit), and `TaskTells` what the sum makes of
both: only a reported failure adds to it, and a reported success ends the premise for good. For
`PausedAgentRunsDry`, `CallsFall` shows that no task's possible calls rise while the circuit is open before
and after a step: the only step that raises them is being let through, which takes an open circuit to half-open.

**Sums and folds.** The library's induction theorems take an operator as a parameter, which the provers cannot
instantiate. The proofs do their inductions on *sets* instead, from the theorems that the order of the natural
numbers (`NaturalInduction`) and that of the subsets of a finite set (`SubsetInduction`) are well-founded.
That a recursive function, such as the one inside `SumTo` or `SumFunction`, exists at all is proved by exhibiting one
(`SumExists`, `SetSumExists`), and that its value is the only one by another induction (`SumsAgree`, `SetSumsAgree`).

**The task queue.** `IInv` is the conjunction of `TypeOK`, `MutexServesAll` and `PendingIsLength`, and none of
them is inductive alone: the counter can only be one above the length because the mutex lets one consumer
at most be between its two steps, and the mutex is only handed to one that waits because the queue holds
exactly those. The steps of the counter are additions modulo `Modulus`; that it is the length plus
`Drift` at every step needs the drift to stay above `-Modulus` and below it, which is where
`QueueConfig` comes in. A caller that drops its call in the middle of the queue is the lemma `TakeOut`: what is left
of the queue has each of the others once, and in the order they had (`TakeOutOrder`). With `MutexServesAll`, which says that
a free mutex has no queue, the order gives `WaitsItsTurn` step by step: a new call joins at the end, and a holder that is done
is followed by the first. The refinement is the identity on the channel and the answers;
`Expire` maps to `TakeNone` only because it looks at the channel once more.

**The router.** That a scan ends on the best agent says nothing of the scan before its end. `IInv` says of each
call what it has found out so far: `BestSoFar`, the candidate is the best of the agents seen and they are all still
registered, and `ReportSoFar`, an agent that has stayed is listed, being asked, or has answered. A change of the
registry would break the first, but the lock keeps it from a scan that has begun; one that has not, and waits in the
queue, has seen nothing (`Waits`). Nothing keeps it from a health check, so the history `stayed` shrinks with the
registry. `StepKeeps` reduces a step to the call it is a step of, and `ChangeKeeps` is the one step that touches all.
`RouteAnswersBest` is `BestSoFar` once no agent is left unseen. `FoundSoFar` says that `all_matching()` has found each
matching agent it has seen, and each once; `SortIsRanked` then shows that `ByPriority` permutes what it is given. The place of an
element is one more than the number of those before it: different elements have different places because their
sets of predecessors are strictly included in one another, and hence every place is taken (`PlacesAreFilled`).

**The context manager.** The totals are sums over a session's messages, and `TotalsOfAppend` and `TotalsOfTail` say what an
added and a dropped message do to them. In the middle of a trim that is not enough: `TrimOK` says that the session is what was there before
the trim without its first `n` messages, that no shorter cut would have fitted, and that the loops which have ended have done
their work for good. At the end of the third loop the rest fits, so it is the longest suffix that does
(`LeastTrimIsLongestFit`). `ReadingOK` says that what an input has read so far agrees with the session, unless that was cleared
in between; a trim never puts another question in the place of the last one (it keeps
it or drops them all: `LatestUserOfRest`), and the ledger only grows, which is why the three reads go
together.

**The pipeline.** `IInv` has one part for each thing a later step relies on. `StageOK` says where `process()` is and what it
must have done by then: that the policy has passed before anything is added, and that all of the plan is spawned and collected
before the answer. `SubtasksOK` ties a request to the pool: the subtasks spawned are the first of its
plan, and the responses collected are those of the first of them, in order, whichever ended first. `OrderOK` and `LimitsOK` are about a session: an
answer stands after its question and is never lost before it, and what takes a session over its limits, when no request is between its answer and
its trim, are questions without an answer. A trim keeps both because it leaves a suffix which is the longest that fits
(`AfterTrimIsLeast`), so that an answer goes only with all that was before it. `RequestKept` and `Moves` reduce a step of one
request to what it does to that request. `PoolIsUsedAsSpecified` and `DispatchIsATaskPool` meet in `TaskPool`: what the
pipeline takes from its pool is what the dispatch provides.

**The CLI agent.** The children are arbitrary programs, so the proof first says what any child may become: `ChildOK`,
it never writes more than it is to write and has written all of it once it succeeds, and `Becomes`, its own steps leave
`written - pipe` alone, which is what has been read of it. `InFlight` adds what the attempt knows of its own child:
`collected` is exactly that difference, and the prompt is written once it waits. When the child has succeeded and its
pipe is empty, the three give its whole output. That a child of an earlier attempt cannot disturb the answer needs that the children after
`attempt` are unborn and that one which has ended takes no step; `QuietOK` covers every step that gives no answer,
`ReturnOK` every one that does.

**The tool executor.** The lemmas about a child serve the tool as well. `ChildOK` also says that one which failed while its
parent held the pipes has written everything it was to write: only the loss of a pipe cuts an output short. `ToolInv` adds `InTouch`, which says of a
call that waits for its tool that what it has taken of an output is what was written and is no longer in the pipe. When the tool has exited
and both pipes are empty this is the whole text (`WholeOutput`), whatever the order the outputs were read in, and `CompleteOK` goes through
its two ends, a cut inside a character and any other. `Bytes` is a sum by recursion, so `BytesOfText` first
exhibits it (`SumExists`) and shows by induction that it is the length of a text of single bytes; hence every limit within such a text is
a boundary (`SingleBytesHaveBoundaries`), and a panic needs a character of several bytes.

**The cache.** Neither the properties nor the types are inductive here: that the links can be followed from either end says
nothing unless one knows where they lead. The invariant `IInv` names what the state stands for: there is one sequence `r` of slots,
a key with its entry each, of which the state is the linked list (`Lists`), whose keys are the history, and which is within the limits
or has one slot (`Within`). `Lists` says of the `i`th slot of `r` that its node has the keys of the slots before and
after it, that there are no nodes of other keys, and that the total is the sum. `UnlinkIs` and `PushFrontIs` do the pointer work: each takes
a list to a list, of `r` without a slot and of `r` with a slot before it, through all cases of a node at an end, between two, next to
one, or alone. `RemovedLists`, `GotLists` and `InsertedLists` are the methods made of them. The loop of `put()` is a
function by recursion that `LoopExists` exhibits; `MakeRoomLists` shows by induction that each turn leaves a beginning of the list (`EvictLeaves`), and that
it ends on the longest one with room: a turn is only taken when there is none, and sizes are never negative. That is
what `Kept` of `Lru` chooses. `ChainsAre` shows that the ways along the links are the keys of `r`, forwards
and backwards; it is what turns the invariant into `Consistent` and into the refinement mapping, under which `ListStep` says that every
step moves `r` as `Lru` does. For `LimitsKept`, more than one slot are within the limits by `Within`;
a single slot either fits by itself, and is within them, or is the entry alone that the property allows.

**Model-checked only.** Liveness (`PauseEnds`, `EveryTaskFinishes`, `EveryRequestReturns`,
`EverySubtaskEnds`, `TrimEnds`, `EveryCallReturns`, `EveryChildEnds`,
`EveryDequeueReturns`, `EveryToolEnds`), and `StuckOnlyOnLargePrompt` and `NeverStuck`, which say "blocked" with ENABLED:
fairness and ENABLED are beyond the prover. Every other property of a passing run is proved.

## 5. What is not modelled

- **Token budget, memory store.** A pair of numbers, and a map of maps behind a lock of which every method is one
  step: nothing in the program creates either, so there are no steps of theirs to interleave. `used + amount`
  wraps around in a release build.
- **Secrets, configuration, command line.** Input and output at the start of the program; the
  values they produce are the constants of the modules.
- **Sums of the aggregate** (tokens, durations, cache hits), ids and descriptions: nothing in the pipeline
  reads them. `check_tool_request()`: nothing calls it.
- **The text of a tool's arguments**: whether they have a forbidden character is a flag of a request.
- **Parsing, hashing, JSON, logging.** The cache key's hash is taken to be injective.
- **Durations.** Backoffs and timeouts are ordered, not measured. Clock times that matter
  (the pause of a circuit, the age of an entry) are counted.
- Single reads that change nothing: `active_agents()`, `get_ledger()`, `CliAgent::health_check()`, `list` methods.

Met on the way and not a property of any run: `record_success()` closes whatever circuit it finds, so a late
success ends a pause without a probe; a request over its budget is refused and its session is not trimmed; a request over its budget is only refused by what its session holds when it is read, and what others add
before its own question is not counted; an entry larger than `max_bytes`, or any entry with `max_entries` 0, empties the cache
and is inserted all the same (the second case of `LimitsKept`, which says that it is then alone); nothing rejects
`max_concurrency` 0, with which no subtask ever starts (`NoPermitNoStart`) and `process()` waits for ever; the cut of a
tool's output and the redaction of a refused input panic on a limit inside a character (`AnswerFitsOutput` says
that `execute()` panics on no other, `RefusedLeavesNoTrace` and `EveryRequestReturns` that a panic of the policy check leaves nothing behind and
ends the request); an error after the question was added returns without trimming, so a session may stay over its limits, by such questions only
(`OverflowIsUnanswered`); `execute_spawned()` uses neither an agent's
`default_timeout` nor its `max_concurrency`; the `File` input mode never passes the prompt on.

## 6. Plan

Done, in this order: the breaker; the dispatch and its abstract pool, with their proofs; sessions; the
router; the pipeline that composes them with the policy guard, planner and aggregator; the cache with its abstract specification; the CLI adapter;
the task queue with its abstract FIFO and their proofs; the tool executor; the input of an agent; the health check.

Then the proofs about the router, the cached answers, the CLI agent, the context manager and the pipeline, those about
an agent's failures and calls, and last those about the cache and the tool executor. With them every safety property, action
property and refinement that a run checks is a theorem, but for the two that speak of ENABLED.

What would come next is model rather than proof: the memory store and the token budget, once the program uses them, and
the durations that are only ordered here.
