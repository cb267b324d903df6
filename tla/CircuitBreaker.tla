---------------------------- MODULE CircuitBreaker ----------------------------
(***************************************************************************)
(* The circuit breaker shared by every task of the process                 *)
(* (application/circuit_breaker/breaker.rs), used the way its callers use  *)
(* it: a call asks check() once, and if it is let through it reports each  *)
(* of its attempts with record_success or record_failure before it leaves  *)
(* (orchestrator_service/worker.rs).  Between the check and the report the *)
(* call runs an agent, so checks and reports of different calls for one    *)
(* agent interleave freely.                                                *)
(*                                                                         *)
(* No name here is one of Dispatch's, so that one module can extend both:  *)
(* they are two specifications of what happens to circuits.                *)
(***************************************************************************)
EXTENDS Circuit, Sequences, FiniteSets

CONSTANT Calls   \* calls that may be in flight at once

VARIABLES inflight,   \* calls let through for an agent that have not left yet
          probes,     \* those let through while the circuit was half-open
          recent      \* history: the last FailureThreshold reports on an agent

breakerVars == <<circuits, inflight, probes, recent>>

Report == {"success", "failure"}

BreakerTypeOK ==
    /\ circuits \in [Agents -> AgentCircuit]
    /\ inflight \in [Agents -> SUBSET Calls]
    /\ probes \in [Agents -> SUBSET Calls]
    /\ recent \in [Agents -> Seq(Report)]
    /\ \A a \in Agents : probes[a] \subseteq inflight[a]

BreakerInit ==
    /\ circuits = [a \in Agents |-> NewCircuit]
    /\ inflight = [a \in Agents |-> {}]
    /\ probes = [a \in Agents |-> {}]
    /\ recent = [a \in Agents |-> << >>]

\* The reports on an agent once r is made, no more of them than the threshold.
Remembered(reports, r) ==
    LET all == Append(reports, r)
    IN  IF Len(all) > FailureThreshold THEN Tail(all) ELSE all

Remember(a, r) == recent' = [recent EXCEPT ![a] = Remembered(@, r)]

Idle(c) == \A a \in Agents : c \notin inflight[a]

Leave(a, c) ==
    /\ inflight' = [inflight EXCEPT ![a] = @ \ {c}]
    /\ probes' = [probes EXCEPT ![a] = @ \ {c}]

-----------------------------------------------------------------------------
(* The methods of the breaker. *)

\* check(a) on behalf of call c, which goes on only if it gets Ok.
Check(a, c) ==
    /\ Idle(c)
    /\ circuits' = [circuits EXCEPT ![a] = AfterCheck(@)]
    /\ IF Admits(circuits[a])
       THEN /\ inflight' = [inflight EXCEPT ![a] = @ \cup {c}]
            /\ probes' = [probes EXCEPT ![a] =
                            IF circuits'[a].state = "HalfOpen" THEN @ \cup {c} ELSE @]
       ELSE UNCHANGED <<inflight, probes>>
    /\ UNCHANGED recent

RecordSuccess(a, c) ==
    /\ c \in inflight[a]
    /\ circuits' = [circuits EXCEPT ![a] = AfterSuccess(@)]
    /\ Leave(a, c)
    /\ Remember(a, "success")

\* A failed attempt; the call retries, without another check, or gives up.
RecordFailure(a, c) ==
    /\ c \in inflight[a]
    /\ circuits' = [circuits EXCEPT ![a] = AfterFailure(@)]
    /\ \/ UNCHANGED <<inflight, probes>>
       \/ Leave(a, c)
    /\ Remember(a, "failure")

\* A call that is let through and leaves without a report: it was answered
\* from the cache, or its agent panicked.
Abandon(a, c) ==
    /\ c \in inflight[a]
    /\ Leave(a, c)
    /\ UNCHANGED <<circuits, recent>>

Reset(a) ==
    /\ circuits' = [circuits EXCEPT ![a] = NewCircuit]
    /\ recent' = [recent EXCEPT ![a] = << >>]
    /\ UNCHANGED <<inflight, probes>>

\* Time passes.
BreakerTick ==
    /\ circuits' = [a \in Agents |-> AfterTick(circuits[a])]
    /\ UNCHANGED <<inflight, probes, recent>>

BreakerNext ==
    \/ \E a \in Agents, c \in Calls :
          \/ Check(a, c)
          \/ RecordSuccess(a, c)
          \/ RecordFailure(a, c)
          \/ Abandon(a, c)
    \/ \E a \in Agents : Reset(a)
    \/ BreakerTick

BreakerSpec == BreakerInit /\ [][BreakerNext]_breakerVars

\* Nothing obliges anyone to call the breaker; only time is sure to pass.
FairBreakerSpec == BreakerSpec /\ WF_breakerVars(BreakerTick)

-----------------------------------------------------------------------------
(* Properties *)

\* The three fields of a circuit agree: a circuit is closed exactly while it
\* counts fewer failures than the threshold, and it has an opening time
\* exactly while it is not closed, so the branch of check() for an open
\* circuit without an opening time is never taken (breaker.rs:93).
CircuitConsistent == \A a \in Agents : Consistent(circuits[a])

\* An agent is paused, or on probation, exactly when the last
\* FailureThreshold reports made on it were all failures: the counter counts
\* consecutive failures, whichever calls and in whichever order they come
\* from, and one success in between starts the count again.
PausedOnConsecutiveFailures ==
    \A a \in Agents :
        circuits[a].state # "Closed" <=>
            /\ Len(recent[a]) = FailureThreshold
            /\ \A i \in DOMAIN recent[a] : recent[a][i] = "failure"

\* Calls that were in flight when the circuit opened, and retry loops that
\* outlive it, keep reporting failures; none of them sets the clock of a
\* pause back, so a pause lasts RecoveryTimeout however many there are.
PauseNotExtended ==
    [][\A a \in Agents :
          circuits[a].state = "Open" /\ circuits'[a].state = "Open"
             => circuits'[a].opened_for >= circuits[a].opened_for]_breakerVars

\* A pause ends: an agent that is paused is later one that check() lets
\* callers through to, whatever its callers report in the meantime.
PauseEnds == \A a \in Agents : []<>Admits(circuits[a])

-----------------------------------------------------------------------------
(* What the documentation says of the breaker. *)

\* docs/ARCHITECTURE.md:182, "Tras recovery_timeout, se permite una probe
\* request (half-open)": one probe is out at a time on a half-open circuit.
SingleProbe ==
    \A a \in Agents : circuits[a].state = "HalfOpen" => Cardinality(probes[a]) <= 1
=============================================================================
