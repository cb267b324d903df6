------------------------------- MODULE Circuit -------------------------------
(***************************************************************************)
(* The breaker's map, and one agent's circuit in it: the record            *)
(* AgentCircuit of application/circuit_breaker/breaker.rs and what check,  *)
(* record_success and record_failure do to it.  Every method of            *)
(* CircuitBreaker works on one entry of the map under the write lock, so   *)
(* each is a function of the entry.  CircuitBreaker and Dispatch apply     *)
(* these operators to the entry of the agent they are called with.         *)
(*                                                                         *)
(* Two abstractions keep the record finite.  failures is only ever         *)
(* compared with failure_threshold, so it is counted up to the threshold.  *)
(* opened_at: Option<Instant> is only read through opened_at.elapsed() >=  *)
(* recovery_timeout, so the record keeps the elapsed ticks, counted up to  *)
(* the timeout, and NotOpened for None.                                    *)
(***************************************************************************)
EXTENDS Integers

CONSTANTS Agents,            \* agent ids
          FailureThreshold,  \* CircuitBreakerConfig::failure_threshold
          RecoveryTimeout    \* CircuitBreakerConfig::recovery_timeout, in ticks

VARIABLE circuits   \* the map of breaker.rs; an absent entry is NewCircuit

\* A threshold of 0 opens at the first failure, exactly as 1 does.
ASSUME CircuitConfig == /\ FailureThreshold \in Nat \ {0}
                        /\ RecoveryTimeout \in Nat

NotOpened == -1

CircuitState == {"Closed", "Open", "HalfOpen"}

AgentCircuit == [state: CircuitState,
                 failures: 0..FailureThreshold,
                 opened_for: {NotOpened} \cup 0..RecoveryTimeout]

\* What entry().or_default() creates.
NewCircuit == [state |-> "Closed", failures |-> 0, opened_for |-> NotOpened]

Capped(n, bound) == IF n > bound THEN bound ELSE n

Recovered(c) == c.opened_for >= RecoveryTimeout

\* check(): the caller is let through.  An open circuit without an opening
\* time is let through as well.
Admits(c) == \/ c.state \in {"Closed", "HalfOpen"}
             \/ c.opened_for = NotOpened
             \/ Recovered(c)

\* check(): what it leaves in the map.
AfterCheck(c) ==
    IF c.state = "Open"
    THEN IF c.opened_for = NotOpened THEN [c EXCEPT !.state = "Closed"]
         ELSE IF Recovered(c) THEN [c EXCEPT !.state = "HalfOpen"]
         ELSE c
    ELSE c

\* Mutants of AfterSuccess: the count survives a success, always or as long as
\* the circuit is closed.
AfterSuccess_KeepsCount(c) == [NewCircuit EXCEPT !.failures = c.failures]

AfterSuccess_OnlyRecovers(c) == IF c.state = "Closed" THEN c ELSE NewCircuit

AfterSuccess(c) == NewCircuit

\* Mutant of AfterFailure: every failure past the threshold opens the circuit
\* anew.
AfterFailure_Reopens(c) ==
    LET failures == Capped(c.failures + 1, FailureThreshold)
    IN  IF failures >= FailureThreshold
        THEN [state |-> "Open", failures |-> failures, opened_for |-> 0]
        ELSE [c EXCEPT !.failures = failures]

AfterFailure(c) ==
    LET failures == Capped(c.failures + 1, FailureThreshold)
    IN  IF failures >= FailureThreshold /\ c.state # "Open"
        THEN [state |-> "Open", failures |-> failures, opened_for |-> 0]
        ELSE [c EXCEPT !.failures = failures]

\* Instant::now() moves on; a circuit that was never opened has no clock.
AfterTick(c) ==
    IF c.opened_for = NotOpened THEN c
    ELSE [c EXCEPT !.opened_for = Capped(c.opened_for + 1, RecoveryTimeout)]

\* A closed circuit is one that has not reached the threshold and has no
\* opening time; a circuit that is open or half-open has both.
Consistent(c) ==
    IF c.state = "Closed"
    THEN c.failures < FailureThreshold /\ c.opened_for = NotOpened
    ELSE c.failures = FailureThreshold /\ c.opened_for # NotOpened
=============================================================================
