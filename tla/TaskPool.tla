------------------------------- MODULE TaskPool -------------------------------
(***************************************************************************)
(* What the orchestrator promises of the subtasks it dispatches, with no   *)
(* word of semaphores, retries, caches or circuits: at most MaxConcurrency *)
(* of them run at once, each that is submitted waits, runs and finishes in *)
(* that order, and what it finished with is final.  A slot that a subtask  *)
(* leaves may pass to one that waits in the same step.  Dispatch           *)
(* implements this specification and Orchestrator relies on it.            *)
(***************************************************************************)
EXTENDS Integers, FiniteSets

CONSTANTS Tasks,            \* subtasks
          MaxConcurrency,   \* OrchestratorServiceBuilder::max_concurrency
          Results,          \* what a subtask may finish with
          NoResult          \* what it has until then

VARIABLES status,   \* how far each subtask is
          result    \* what it finished with

Status == {"unspawned", "waiting", "running", "done"}

In(s) == {t \in Tasks : status[t] = s}

PoolTypeOK == /\ status \in [Tasks -> Status]
              /\ result \in [Tasks -> Results \cup {NoResult}]

PoolInit == /\ status = [t \in Tasks |-> "unspawned"]
            /\ result = [t \in Tasks |-> NoResult]

Submit(t) == /\ status[t] = "unspawned"
             /\ status' = [status EXCEPT ![t] = "waiting"]
             /\ UNCHANGED result

Start(t) == /\ status[t] = "waiting"
            /\ Cardinality(In("running")) < MaxConcurrency
            /\ status' = [status EXCEPT ![t] = "running"]
            /\ UNCHANGED result

Finish(t, r) ==
    /\ status[t] = "running"
    /\ result' = [result EXCEPT ![t] = r]
    /\ \/ status' = [status EXCEPT ![t] = "done"]
       \/ \E next \in In("waiting") :
             status' = [status EXCEPT ![t] = "done", ![next] = "running"]

PoolNext == \E t \in Tasks : \/ Submit(t)
                             \/ Start(t)
                             \/ \E r \in Results : Finish(t, r)

PoolSpec == PoolInit /\ [][PoolNext]_<<status, result>>
=============================================================================
