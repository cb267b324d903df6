----------------------------- MODULE Orchestrator -----------------------------
(***************************************************************************)
(* The request pipeline: OrchestratorService::process()                    *)
(* (application/orchestrator_service/process.rs) for requests in progress  *)
(* at the same time, composed with the router's registry, the sessions of  *)
(* the context manager and the pool of subtasks.  The pool is TaskPool,    *)
(* which Dispatch implements, so retries, the breaker and the cache are    *)
(* seen here only through what a subtask finishes with.  Every await is a  *)
(* point where other requests may run.                                     *)
(***************************************************************************)
EXTENDS Context, Registry, PolicyGuard, FiniteSets

CONSTANTS Requests,            \* requests in progress at once
          Sessions,            \* session ids
          UserRequests,        \* what users may ask
          NoBudget,            \* UserRequest::max_tokens is None
          NoPreference,        \* UserRequest::preferred_capability is None
          DefaultCapability,   \* DeterministicPlanner::default_capability
          Plans,               \* plans of other planners: capabilities, in order
          MaxSubtasks,         \* bound: subtasks of a plan
          Infos,               \* what agents are registered with
          MaxConcurrency,      \* OrchestratorServiceBuilder::max_concurrency
          Responses,           \* what subtasks may finish with
          NoResult             \* what a subtask has until it has finished

UserRequest == [session: Sessions, message: Text, max_tokens: Nat \cup {NoBudget},
                preferred: Capabilities \cup {NoPreference}]

\* The response of a subtask, or the one that err_resp() makes of its error or
\* its panic, as the aggregator sees it: the size of its content.
Response == [error: BOOLEAN, bytes: Nat]

ASSUME OrchestratorConfig ==
    /\ UserRequests \subseteq UserRequest
    /\ DefaultCapability \in Capabilities
    /\ MaxSubtasks \in Nat \ {0}
    /\ Plans \subseteq UNION {[1..n -> Capabilities] : n \in 0..MaxSubtasks}
    /\ Infos \subseteq AgentInfo
    /\ MaxConcurrency \in Nat
    /\ Responses \subseteq Response

VARIABLES request,     \* what each request asks
          pc,          \* where process() is
          plan,        \* the capabilities of its subtasks
          chosen,      \* the agent route() chose for the next subtask
          spawned,     \* subtasks spawned so far
          responses,   \* responses collected so far
          outcome,     \* what process() returned
          context,     \* the context manager's sessions
          registry,    \* the router's agents
          status,      \* the pool: how far each subtask is
          result       \* the pool: what it finished with

pool == <<status, result>>
vars == <<request, pc, plan, chosen, spawned, responses, outcome, context, registry, pool>>

Subtasks == Requests \X (1..MaxSubtasks)

Pool == INSTANCE TaskPool WITH Tasks <- Subtasks, Results <- Responses

PC == {"policy", "budget", "add_user", "plan", "route", "get_agent", "await",
       "add_assistant", "trim", "returned"}

Outcome == {"pending", "ok", "policy_violation", "panic", "budget_exceeded", "error"}

Message == [role: {"User", "Assistant"}, from: Requests, tokens: Nat, bytes: Nat]

TypeOK ==
    /\ request \in [Requests -> UserRequests]
    /\ pc \in [Requests -> PC]
    /\ plan \in [Requests -> Seq(Capabilities)]
    /\ chosen \in [Requests -> Agents \cup {NoAgent}]
    /\ spawned \in [Requests -> 0..MaxSubtasks]
    /\ responses \in [Requests -> Seq([of: Subtasks, result: Responses])]
    /\ outcome \in [Requests -> Outcome]
    /\ \A s \in Sessions : context[s].messages \in Seq(Message)
    /\ registry \in RegistryType
    /\ Pool!PoolTypeOK

Init ==
    /\ request \in [Requests -> UserRequests]
    /\ pc = [r \in Requests |-> "policy"]
    /\ plan = [r \in Requests |-> << >>]
    /\ chosen = [r \in Requests |-> NoAgent]
    /\ spawned = [r \in Requests |-> 0]
    /\ responses = [r \in Requests |-> << >>]
    /\ outcome = [r \in Requests |-> "pending"]
    /\ context = [s \in Sessions |-> NewSession]
    /\ registry \in [Agents -> Infos \cup {NoAgent}]
    /\ Pool!PoolInit

\* count_tokens(): four bytes a token, rounded up.
CountTokens(bytes) == (bytes + 3) \div 4

\* The contents of the responses, joined by two newlines.
AggregateBytes(collected) ==
    IF collected = << >> THEN 0
    ELSE 2 * (Len(collected) - 1)
            + SumTo([i \in DOMAIN collected |-> collected[i].result.bytes], Len(collected))

MessageOf(r, role, bytes) ==
    [role |-> role, from |-> r, tokens |-> CountTokens(bytes), bytes |-> bytes]

Question(r) == MessageOf(r, "User", request[r].message.bytes)
Answer(r) == MessageOf(r, "Assistant", AggregateBytes(responses[r]))

Session(r) == request[r].session

At(r, label) == pc[r] = label
Goto(r, label) == pc' = [pc EXCEPT ![r] = label] /\ UNCHANGED outcome
Return(r, what) == /\ pc' = [pc EXCEPT ![r] = "returned"]
                   /\ outcome' = [outcome EXCEPT ![r] = what]

-----------------------------------------------------------------------------
(* The steps of process(). *)

\* A panic ends process() like a return does.
CheckPolicy(r) ==
    LET verdict == CheckUserInput(request[r].message)
    IN  /\ At(r, "policy")
        /\ CASE verdict = "pass" -> Goto(r, "budget")
             [] verdict = "fail" -> Return(r, "policy_violation")
             [] verdict = "panic" -> Return(r, "panic")
        /\ UNCHANGED <<request, plan, chosen, spawned, responses, context, registry, pool>>

\* The session holds more tokens than the request allows.
OverBudget(r) ==
    /\ request[r].max_tokens # NoBudget
    /\ context[Session(r)].total_tokens > request[r].max_tokens

\* Mutant of CheckBudget: the question is added before the budget is checked.
CheckBudget_AddsFirst(r) ==
    /\ At(r, "budget")
    /\ context' = [context EXCEPT ![Session(r)] = AfterAddMessage(@, Question(r))]
    /\ IF OverBudget(r) THEN Return(r, "budget_exceeded") ELSE Goto(r, "plan")
    /\ UNCHANGED <<request, plan, chosen, spawned, responses, registry, pool>>

\* The session's tokens are read here and the message added in a later step.
CheckBudget(r) ==
    /\ At(r, "budget")
    /\ IF OverBudget(r) THEN Return(r, "budget_exceeded") ELSE Goto(r, "add_user")
    /\ UNCHANGED <<request, plan, chosen, spawned, responses, context, registry, pool>>

AddQuestion(r) ==
    /\ At(r, "add_user")
    /\ context' = [context EXCEPT ![Session(r)] = AfterAddMessage(@, Question(r))]
    /\ Goto(r, "plan")
    /\ UNCHANGED <<request, plan, chosen, spawned, responses, registry, pool>>

\* DeterministicPlanner: one subtask, of the capability the user asks for.
DeterministicPlan(r) ==
    <<IF request[r].preferred = NoPreference THEN DefaultCapability ELSE request[r].preferred>>

\* The plan is this one or another planner's.  An error of the planner leaves the question in the session.
MakePlan(r) ==
    /\ At(r, "plan")
    /\ \/ /\ plan' \in {[plan EXCEPT ![r] = p] : p \in Plans \cup {DeterministicPlan(r)}}
          /\ Goto(r, "route")
       \/ /\ Return(r, "error")
          /\ UNCHANGED plan
    /\ UNCHANGED <<request, chosen, spawned, responses, context, registry, pool>>

\* route() for the next subtask of the loop; the ? returns on an error and
\* leaves the subtasks spawned before to themselves.
Route(r) ==
    LET best == BestFor(registry, plan[r][spawned[r] + 1])
    IN  /\ At(r, "route")
        /\ IF spawned[r] = Len(plan[r]) THEN Goto(r, "await") /\ UNCHANGED chosen
           ELSE IF best = {} THEN Return(r, "error") /\ UNCHANGED chosen
           ELSE /\ chosen' \in {[chosen EXCEPT ![r] = a] : a \in best}
                /\ Goto(r, "get_agent")
        /\ UNCHANGED <<request, plan, spawned, responses, context, registry, pool>>

\* Mutant of GetAgent: the handle is kept but the subtask is never spawned.
GetAgent_NotSpawned(r) ==
    /\ At(r, "get_agent")
    /\ IF registry[chosen[r]] = NoAgent
       THEN Return(r, "error") /\ UNCHANGED spawned
       ELSE /\ spawned' = [spawned EXCEPT ![r] = @ + 1]
            /\ Goto(r, "route")
    /\ UNCHANGED <<request, plan, chosen, responses, context, registry, pool>>

\* get_agent() of the id that route() returned, which may be gone by now, and
\* tokio::spawn of the subtask.
GetAgent(r) ==
    /\ At(r, "get_agent")
    /\ IF registry[chosen[r]] = NoAgent
       THEN Return(r, "error") /\ UNCHANGED <<spawned, pool>>
       ELSE /\ spawned' = [spawned EXCEPT ![r] = @ + 1]
            /\ Pool!Submit(<<r, spawned'[r]>>)
            /\ Goto(r, "route")
    /\ UNCHANGED <<request, plan, chosen, responses, context, registry>>

\* Mutant of Await: the subtasks are taken in the order they end.
Await_AsTheyEnd(r) ==
    /\ At(r, "await")
    /\ IF Len(responses[r]) = Len(plan[r])
       THEN Goto(r, "add_assistant") /\ UNCHANGED responses
       ELSE /\ \E i \in DOMAIN plan[r] :
                  /\ status[<<r, i>>] = "done"
                  /\ \A k \in DOMAIN responses[r] : responses[r][k].of # <<r, i>>
                  /\ responses' = [responses EXCEPT ![r] =
                                     Append(@, [of |-> <<r, i>>, result |-> result[<<r, i>>]])]
            /\ UNCHANGED <<pc, outcome>>
    /\ UNCHANGED <<request, plan, chosen, spawned, context, registry, pool>>

\* The handles are awaited in the order of the plan, whatever the order the
\* subtasks end in; a failed one yields an error response.
Await(r) ==
    LET t == <<r, Len(responses[r]) + 1>>
    IN  /\ At(r, "await")
        /\ IF Len(responses[r]) = Len(plan[r])
           THEN Goto(r, "add_assistant") /\ UNCHANGED responses
           ELSE /\ status[t] = "done"
                /\ responses' = [responses EXCEPT ![r] =
                                   Append(@, [of |-> t, result |-> result[t]])]
                /\ UNCHANGED <<pc, outcome>>
        /\ UNCHANGED <<request, plan, chosen, spawned, context, registry, pool>>

\* Mutant of AddAnswer: the session is not trimmed.
AddAnswer_Untrimmed(r) ==
    /\ At(r, "add_assistant")
    /\ context' = [context EXCEPT ![Session(r)] = AfterAddMessage(@, Answer(r))]
    /\ Return(r, "ok")
    /\ UNCHANGED <<request, plan, chosen, spawned, responses, registry, pool>>

\* The responses are aggregated and added to the session.
AddAnswer(r) ==
    /\ At(r, "add_assistant")
    /\ context' = [context EXCEPT ![Session(r)] = AfterAddMessage(@, Answer(r))]
    /\ Goto(r, "trim")
    /\ UNCHANGED <<request, plan, chosen, spawned, responses, registry, pool>>

Trim(r) ==
    /\ At(r, "trim")
    /\ context' = [context EXCEPT ![Session(r)] = AfterTrim(@)]
    /\ Return(r, "ok")
    /\ UNCHANGED <<request, plan, chosen, spawned, responses, registry, pool>>

Process(r) ==
    \/ CheckPolicy(r)
    \/ CheckBudget(r)
    \/ AddQuestion(r)
    \/ MakePlan(r)
    \/ Route(r)
    \/ GetAgent(r)
    \/ Await(r)
    \/ AddAnswer(r)
    \/ Trim(r)

-----------------------------------------------------------------------------
(* The rest of the program. *)

Register(a, info) ==
    /\ registry' = [registry EXCEPT ![a] = info]
    /\ registry' # registry
    /\ UNCHANGED <<request, pc, plan, chosen, spawned, responses, outcome, context, pool>>

Unregister(a) ==
    /\ registry[a] # NoAgent
    /\ registry' = [registry EXCEPT ![a] = NoAgent]
    /\ UNCHANGED <<request, pc, plan, chosen, spawned, responses, outcome, context, pool>>

\* Mutant of RunSubtask: a subtask is polled by the request that awaits it
\* instead of being spawned.
RunSubtask_Polled(t) ==
    /\ At(t[1], "await")
    /\ Pool!Start(t) \/ \E x \in Responses : Pool!Finish(t, x)
    /\ UNCHANGED <<request, pc, plan, chosen, spawned, responses, outcome, context, registry>>

\* A subtask gets a slot, or ends.
RunSubtask(t) ==
    /\ Pool!Start(t) \/ \E x \in Responses : Pool!Finish(t, x)
    /\ UNCHANGED <<request, pc, plan, chosen, spawned, responses, outcome, context, registry>>

Next ==
    \/ \E r \in Requests : Process(r)
    \/ \E a \in Agents : \/ \E info \in Infos : Register(a, info)
                         \/ Unregister(a)
    \/ \E t \in Subtasks : RunSubtask(t)

Spec == Init /\ [][Next]_vars

\* The runtime polls every request that can go on, and every subtask that is
\* submitted gets a slot and ends: what EveryTaskFinishes says of Dispatch.
FairSpec ==
    /\ Spec
    /\ \A r \in Requests : WF_vars(Process(r))
    /\ \A t \in Subtasks : WF_vars(RunSubtask(t))

-----------------------------------------------------------------------------
(* Properties *)

\* A request returns Ok only with one response per subtask of its plan, in the
\* order of the plan and each the one its own subtask finished with, and with
\* none of its subtasks still waiting or running.
OkIsComplete ==
    \A r \in Requests : outcome[r] = "ok" =>
        /\ Len(responses[r]) = Len(plan[r])
        /\ \A i \in DOMAIN plan[r] :
              /\ status[<<r, i>>] = "done"
              /\ responses[r][i] = [of |-> <<r, i>>, result |-> result[<<r, i>>]]

\* A request that the policy or the budget refuses leaves nothing behind: no
\* message in any session and no subtask, whatever else is in progress; so no
\* agent ever sees a text that the policy does not pass, as a prompt or in a
\* session.
RefusedLeavesNoTrace ==
    \A r \in Requests :
        \/ CheckUserInput(request[r].message) # "pass"
        \/ outcome[r] = "budget_exceeded"
        => /\ \A s \in Sessions : \A i \in DOMAIN context[s].messages :
                 context[s].messages[i].from # r
           /\ \A i \in 1..MaxSubtasks : status[<<r, i>>] = "unspawned"

\* Sessions hold only messages of their own requests, each question and answer
\* once and the question first, and a trim never takes the answer of a request
\* and leaves its question, however the requests of a session interleave.
ConversationsKeepOrder ==
    \A s \in Sessions :
        LET messages == context[s].messages
        IN  /\ \A i \in DOMAIN messages : Session(messages[i].from) = s
            /\ \A i, j \in DOMAIN messages :
                  messages[i].from = messages[j].from /\ i < j =>
                     messages[i].role = "User" /\ messages[j].role = "Assistant"
            /\ \A i \in DOMAIN messages :
                  LET r == messages[i].from
                  IN  messages[i].role = "User" /\ outcome[r] = "ok"
                         => \E j \in DOMAIN messages : messages[j] = Answer(r)

\* A session that no request is working on is within its limits, but for
\* questions of requests that failed after the last trim: an answer is never
\* what takes it over them.
OverflowIsUnanswered ==
    \A s \in Sessions :
        LET messages == context[s].messages
            idle == \A r \in Requests : Session(r) = s => pc[r] \in {"policy", "returned"}
        IN  idle => \E n \in 0..Len(messages) :
                       /\ Fits(SubSeq(messages, 1, n))
                       /\ \A i \in (n + 1)..Len(messages) :
                             messages[i].role = "User" /\ outcome[messages[i].from] = "error"

\* process() returns: nothing it awaits is waited for in vain, with fewer slots
\* than subtasks and with agents that come and go.
EveryRequestReturns == \A r \in Requests : <>At(r, "returned")

\* A subtask that is spawned ends even if the request it belongs to has
\* returned an error and dropped its handle.
EverySubtaskEnds ==
    \A t \in Subtasks : status[t] = "waiting" ~> status[t] = "done"

-----------------------------------------------------------------------------
(* What the documentation says of the pipeline. *)

\* docs/ARCHITECTURE.md:167, "Agent output se valida con check_agent_output()
\* antes de retornar al usuario": no request returns an answer that the policy
\* guard does not pass.
OutputIsChecked ==
    \A r \in Requests : outcome[r] = "ok" =>
        CheckAgentOutput(AggregateBytes(responses[r])) = "pass"
=============================================================================
