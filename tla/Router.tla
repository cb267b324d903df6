-------------------------------- MODULE Router --------------------------------
(***************************************************************************)
(* CapabilityRouter (application/router/mod.rs): the map of agents behind  *)
(* a tokio RwLock, which is fair: it is taken in the order it is asked     *)
(* for.  register() and unregister() change the map in one step under the  *)
(* write lock; route() and all_matching() go through the agents one by one *)
(* in the map's order, which is no particular one, under the read lock.    *)
(* OrchestratorService::health_check() (process.rs) lists the agents and   *)
(* then asks for each anew, and holds no lock while an agent answers.      *)
(***************************************************************************)
EXTENDS Registry, Sequences, FiniteSets, SequencesExt

CONSTANTS Callers,    \* tasks that call the router
          NoCall,     \* a caller that is in none of its methods
          Infos       \* bound: what agents may be registered with

VARIABLES registry,   \* the map
          call,       \* the method each caller is in, with its locals
          queue       \* the callers that wait for the lock, oldest first

vars == <<registry, call, queue>>

\* seen: the agents the scan has passed, in that order; best: route()'s
\* candidate; found: what all_matching() has collected.
Scan == [op: {"route", "all_matching"}, cap: Capabilities, seen: Seq(Agents),
         best: Agents \cup {NoAgent}, found: Seq(Agents)]
\* todo: the agents that are listed and not asked for yet; asked: the one whose
\* health is being checked.  Both "sick" and "gone" are reported as not healthy.
\* stayed: the agents registered ever since they were listed (history).
Health == [op: {"health_check"}, at: {"list", "next", "get", "check"},
           todo: SUBSET Agents, asked: Agents \cup {NoAgent},
           report: [Agents -> {"none", "ok", "sick", "gone"}], stayed: SUBSET Agents]
Write == [op: {"write"}, agent: Agents, info: AgentInfo \cup {NoAgent}]
Call == Scan \cup Health \cup Write

ASSUME RouterConfig == NoCall \notin Call /\ Infos \subseteq AgentInfo

TypeOK ==
    /\ registry \in RegistryType
    /\ call \in [Callers -> Call \cup {NoCall}]
    /\ queue \in Seq(Callers)
    /\ \A c \in ToSet(queue) : call[c] # NoCall

Init ==
    /\ registry = [a \in Agents |-> NoAgent]
    /\ call = [c \in Callers |-> NoCall]
    /\ queue = << >>

In(c, ops) == call[c] # NoCall /\ call[c].op \in ops

At(c, at) == In(c, {"health_check"}) /\ call[c].at = at

Scanning(c) == In(c, {"route", "all_matching"}) /\ ~Contains(queue, c)

\* Mutant of HoldsLock: an agent's health is checked under the lock.
HoldsLock_Checking(c) == Scanning(c) \/ At(c, "check")

HoldsLock(c) == Scanning(c)

CallScan(c, op, cap) ==
    /\ call[c] = NoCall
    /\ call' = [call EXCEPT ![c] = [op |-> op, cap |-> cap, seen |-> << >>,
                                    best |-> NoAgent, found |-> << >>]]
    /\ queue' = Append(queue, c)
    /\ UNCHANGED registry

CallHealth(c) ==
    /\ call[c] = NoCall
    /\ call' = [call EXCEPT ![c] = [op |-> "health_check", at |-> "list", todo |-> {},
                                    asked |-> NoAgent,
                                    report |-> [a \in Agents |-> "none"], stayed |-> {}]]
    /\ queue' = Append(queue, c)
    /\ UNCHANGED registry

\* register() of an agent, or unregister() where info is NoAgent.
CallWrite(c, a, info) ==
    /\ call[c] = NoCall
    /\ call' = [call EXCEPT ![c] = [op |-> "write", agent |-> a, info |-> info]]
    /\ queue' = Append(queue, c)
    /\ UNCHANGED registry

\* The lock is c's to take as far as those who wait for it are concerned.
IsNext(c) == queue # << >> /\ c = Head(queue)

\* The caller that is next gets the lock.
Leave == queue' = Tail(queue)

LockShared(c) ==
    /\ IsNext(c) /\ In(c, {"route", "all_matching"})
    /\ Leave
    /\ UNCHANGED <<registry, call>>

\* The calls once c's is over; an agent that is unregistered has not stayed.
Ended(c) ==
    [d \in Callers |->
        IF d = c THEN NoCall
        ELSE IF In(d, {"health_check"}) /\ call[c].info = NoAgent
        THEN [call[d] EXCEPT !.stayed = @ \ {call[c].agent}]
        ELSE call[d]]

\* The write lock excludes every scan; register() replaces an agent of the same
\* id and unregister() of an unknown one does nothing.
Change(c) ==
    /\ IsNext(c) /\ In(c, {"write"})
    /\ \A d \in Callers : ~HoldsLock(d)
    /\ registry' = [registry EXCEPT ![call[c].agent] = call[c].info]
    /\ call' = Ended(c)
    /\ Leave

Matches(a, cap) == registry[a].enabled /\ cap \in registry[a].capabilities

\* Mutant of Better: the lower priority wins.
Better_Lowest(a, best) == best = NoAgent \/ registry[a].priority < registry[best].priority

\* Only a higher priority displaces the candidate of route().
Better(a, best) == best = NoAgent \/ registry[a].priority > registry[best].priority

Unseen(c) == Registered(registry) \ ToSet(call[c].seen)

\* A scan once it has passed a.
Passed(k, a) ==
    LET match == Matches(a, k.cap)
    IN  [k EXCEPT !.seen = Append(@, a),
                  !.best = IF match /\ Better(a, @) THEN a ELSE @,
                  !.found = IF match THEN Append(@, a) ELSE @]

Visit(c, a) ==
    /\ Scanning(c)
    /\ a \in Unseen(c)
    /\ call' = [call EXCEPT ![c] = Passed(call[c], a)]
    /\ UNCHANGED <<registry, queue>>

\* Mutant of ByPriority: the list is returned as it was collected.
ByPriority_Unsorted(found) == found

\* A stable sort, the highest priority first: an agent's place in the list is
\* after all those that go before it.
ByPriority(found) ==
    LET before(i, j) == \/ registry[found[i]].priority > registry[found[j]].priority
                        \/ /\ registry[found[i]].priority = registry[found[j]].priority
                           /\ i < j
        place(j) == Cardinality({i \in DOMAIN found : before(i, j)}) + 1
    IN  [n \in DOMAIN found |-> found[CHOOSE j \in DOMAIN found : place(j) = n]]

\* route() returns the candidate, or an error, which is << >> here;
\* all_matching() returns the sorted list.
AnswerOf(c) ==
    IF call[c].op = "all_matching" THEN ByPriority(call[c].found)
    ELSE IF call[c].best = NoAgent THEN << >>
    ELSE <<call[c].best>>

\* The call ends with AnswerOf(c) and gives up the lock.
Return(c) ==
    /\ Scanning(c)
    /\ Unseen(c) = {}
    /\ call' = [call EXCEPT ![c] = NoCall]
    /\ UNCHANGED <<registry, queue>>

-----------------------------------------------------------------------------
(* health_check() *)

\* all_agent_info(), which holds the lock only to copy.
ListAgents(c) ==
    /\ IsNext(c) /\ At(c, "list")
    /\ call' = [call EXCEPT ![c].at = "next", ![c].todo = Registered(registry),
                            ![c].stayed = Registered(registry)]
    /\ Leave
    /\ UNCHANGED registry

\* The next agent is asked for with get_agent(), which takes the lock again.
AskNext(c) ==
    /\ At(c, "next") /\ call[c].todo # {}
    /\ call' = [call EXCEPT ![c].at = "get"]
    /\ queue' = Append(queue, c)
    /\ UNCHANGED registry

\* Mutant of LookedUp: an agent that is gone ends the loop.
LookedUp_StopsAtGone(k, a) ==
    IF a \in Registered(registry)
    THEN [k EXCEPT !.at = "check", !.todo = @ \ {a}, !.asked = a]
    ELSE [k EXCEPT !.at = "next", !.todo = {}, !.report[a] = "gone"]

\* A health check once it has looked up a: one that is gone is not healthy.
LookedUp(k, a) ==
    IF a \in Registered(registry)
    THEN [k EXCEPT !.at = "check", !.todo = @ \ {a}, !.asked = a]
    ELSE [k EXCEPT !.at = "next", !.todo = @ \ {a}, !.report[a] = "gone"]

GetAgent(c) ==
    /\ IsNext(c) /\ At(c, "get")
    /\ \E a \in call[c].todo : call' = [call EXCEPT ![c] = LookedUp(call[c], a)]
    /\ Leave
    /\ UNCHANGED registry

\* The agent answers, in its own time: AiAgent::health_check() has no timeout.
AgentAnswers(c) ==
    /\ At(c, "check")
    /\ \E health \in {"ok", "sick"} :
          call' = [call EXCEPT ![c].at = "next", ![c].asked = NoAgent,
                               ![c].report[call[c].asked] = health]
    /\ UNCHANGED <<registry, queue>>

Reports(c) == At(c, "next") /\ call[c].todo = {}

ReturnReport(c) ==
    /\ Reports(c)
    /\ call' = [call EXCEPT ![c] = NoCall]
    /\ UNCHANGED <<registry, queue>>

-----------------------------------------------------------------------------
Step(c) == LockShared(c) \/ Change(c) \/ (\E a \in Agents : Visit(c, a)) \/ Return(c)
           \/ ListAgents(c) \/ AskNext(c) \/ GetAgent(c) \/ ReturnReport(c)

Next ==
    \E c \in Callers :
        \/ \E op \in {"route", "all_matching"}, cap \in Capabilities : CallScan(c, op, cap)
        \/ \E a \in Agents, info \in Infos \cup {NoAgent} : CallWrite(c, a, info)
        \/ CallHealth(c)
        \/ Step(c)
        \/ AgentAnswers(c)

Spec == Init /\ [][Next]_vars

\* A call that can go on is polled; nobody has to call, and no agent to answer.
FairSpec == Spec /\ \A c \in Callers : WF_vars(Step(c))

-----------------------------------------------------------------------------
(* Properties *)

Answers(c, op) == Scanning(c) /\ call[c].op = op /\ Unseen(c) = {}

\* route() answers with an enabled agent of the highest priority that declares
\* the capability, of the registry as it is when it answers and not as it was
\* when the call was made, and with an error only if there is none: what
\* Orchestrator takes route() to do in one step.
RouteAnswersBest ==
    \A c \in Callers : Answers(c, "route") =>
        LET best == BestFor(registry, call[c].cap)
        IN  IF best = {} THEN AnswerOf(c) = << >>
            ELSE \E a \in best : AnswerOf(c) = <<a>>

\* all_matching() lists every agent that route() might ever choose, each once
\* and none before one of a higher priority, so that its first is one that
\* route() may answer with.
MatchingIsRanked ==
    \A c \in Callers : Answers(c, "all_matching") =>
        LET list == AnswerOf(c)
        IN  /\ ToSet(list) = Capable(registry, call[c].cap)
            /\ IsInjective(list)
            /\ \A i, j \in DOMAIN list :
                  i < j => registry[list[i]].priority >= registry[list[j]].priority

\* The report of health_check() has every agent that was registered when it was
\* listed, and one that has stayed registered is reported by its own answer,
\* whatever becomes of the others while the report is made.
ReportIsComplete ==
    \A c \in Callers : Reports(c) =>
        \A a \in call[c].stayed : call[c].report[a] \in {"ok", "sick"}

\* Every call returns: a registration gets in between the scans however many
\* requests are being routed, and a health check takes the lock again for each
\* agent however many are registered meanwhile.  Only an agent that does not
\* answer holds up a call, which is its own health check and no other.
EveryCallReturns ==
    \A c \in Callers : call[c] # NoCall ~> call[c] = NoCall \/ At(c, "check")
=============================================================================
