------------------------------- MODULE CliAgent -------------------------------
(***************************************************************************)
(* CliAgent::execute() (infrastructure/cli_adapter/agent.rs) and the       *)
(* processes it starts, under the attempts that execute_spawned() makes    *)
(* for one subtask: each attempt runs a child of its own, with a pipe for  *)
(* the prompt, which is written to the end before anything is read, and    *)
(* pipes for its output.  An attempt may time out at any moment; that      *)
(* drops the adapter's ends of the pipes and leaves the child alone.       *)
(***************************************************************************)
EXTENDS ChildProcess

CONSTANTS MaxAttempts,   \* RetryPolicy::max_retries + 1
          MaxPrompt,     \* bound: units of the prompt
          OutputSizes    \* bound: units a child may write to stdout, and to stderr

ASSUME CliConfig == /\ MaxAttempts \in Nat \ {0}
                    /\ MaxPrompt \in Nat /\ OutputSizes \subseteq Nat

VARIABLES mode,        \* CliAgentConfig::input_mode
          format,      \* CliAgentConfig::output_format
          prompt,      \* units of the prompt
          attempt,     \* the attempt that is made, 0 before the first
          pc,          \* where execute() is
          unwritten,   \* units of the prompt it has not written
          collected,   \* units of stdout it has read
          result,      \* what the last attempt ended with
          children     \* the child of each attempt

vars == <<mode, format, prompt, attempt, pc, unwritten, collected, result, children>>

Attempts == 1..MaxAttempts
InputMode == {"Stdin", "Arg", "File"}
OutputFormat == {"Text", "Json", "Auto"}

TypeOK ==
    /\ mode \in InputMode /\ format \in OutputFormat /\ prompt \in 0..MaxPrompt
    /\ attempt \in 0..MaxAttempts
    /\ pc \in {"idle", "write", "wait"}
    /\ unwritten \in 0..prompt
    /\ collected \in Nat
    /\ result \in {"none", "ok", "error", "timeout"}
    /\ children \in [Attempts -> Child]

Init ==
    /\ mode \in InputMode /\ format \in OutputFormat /\ prompt \in 0..MaxPrompt
    /\ attempt = 0 /\ pc = "idle"
    /\ unwritten = 0 /\ collected = 0 /\ result = "none"
    /\ children = [n \in Attempts |-> Unborn]

Running(n) == IsRunning(children[n])
Exited(n) == HasExited(children[n])

\* Mutant of Return: the adapter's ends of the pipes are not dropped.
Return_KeepsPipes(r) ==
    /\ pc' = "idle" /\ result' = r
    /\ UNCHANGED <<mode, format, prompt, attempt, unwritten, collected, children>>

\* execute() ends, or is dropped by timeout(); what it holds of the child is
\* dropped with it, and nothing kills the child.
Return(r) ==
    /\ pc' = "idle" /\ result' = r
    /\ children' = [children EXCEPT ![attempt] = Released(@)]
    /\ UNCHANGED <<mode, format, prompt, attempt, unwritten, collected>>

-----------------------------------------------------------------------------
(* The adapter. *)

\* The next attempt: the first one, or one after an error or a timeout.  The
\* child starts by reading its input or at once with its work; only with
\* "Stdin" is its input a pipe.
Execute ==
    /\ pc = "idle" /\ result # "ok" /\ attempt < MaxAttempts
    /\ attempt' = attempt + 1
    /\ unwritten' = prompt /\ collected' = 0
    /\ \/ \E total \in [Outputs -> OutputSizes], doing \in {"read", "stdout", "stderr"} :
             /\ doing = "read" => mode = "Stdin"
             /\ children' = [children EXCEPT ![attempt'] =
                                              Born(doing, total, mode = "Stdin")]
             /\ pc' = IF mode = "Stdin" THEN "write" ELSE "wait"
             /\ result' = "none"
       \/ /\ result' = "error"   \* the program cannot be spawned
          /\ UNCHANGED <<pc, children>>
    /\ UNCHANGED <<mode, format, prompt>>

\* write_all() writes what the pipe takes; the error of a pipe that the child
\* no longer reads is the attempt's, however the child ended.
WriteStdin ==
    /\ pc = "write" /\ unwritten > 0
    /\ IF Exited(attempt) THEN Return("error")
       ELSE /\ children[attempt].stdin < PipeSize
            /\ children' = [children EXCEPT ![attempt].stdin = @ + 1]
            /\ unwritten' = unwritten - 1
            /\ UNCHANGED <<mode, format, prompt, attempt, pc, collected, result>>

CloseStdin ==
    /\ pc = "write" /\ unwritten = 0
    /\ pc' = "wait"
    /\ children' = [children EXCEPT ![attempt].eof = TRUE]
    /\ UNCHANGED <<mode, format, prompt, attempt, unwritten, collected, result>>

\* Mutant of Collect: stdout is read to its end before stderr is read at all.
Collect_InTurn(o) ==
    /\ pc = "wait" /\ children[attempt].pipe[o] > 0
    /\ o = "stderr" => Exited(attempt)
    /\ children' = [children EXCEPT ![attempt] = Drained(@, o)]
    /\ collected' = IF o = "stdout" THEN collected + 1 ELSE collected
    /\ UNCHANGED <<mode, format, prompt, attempt, pc, unwritten, result>>

\* wait_with_output() reads both outputs as they come.
Collect(o) ==
    /\ pc = "wait" /\ children[attempt].pipe[o] > 0
    /\ children' = [children EXCEPT ![attempt] = Drained(@, o)]
    /\ collected' = IF o = "stdout" THEN collected + 1 ELSE collected
    /\ UNCHANGED <<mode, format, prompt, attempt, pc, unwritten, result>>

\* parse_output(), of an output that is JSON and has what json_content_path asks
\* for, or not: "Text" takes it as it is, and "Auto" whatever is no JSON.
ParseFails(isJson) == format = "Json" /\ ~isJson

\* Mutants of Finish: the attempt ends with the process and not its output, and
\* a child that has written to stderr has failed.
Finish_AtExit ==
    /\ pc = "wait" /\ Exited(attempt)
    /\ \E isJson \in BOOLEAN :
          Return(IF children[attempt].doing = "failed" \/ ParseFails(isJson) THEN "error" ELSE "ok")

Finish_StderrIsFailure ==
    /\ pc = "wait" /\ Exited(attempt)
    /\ \A o \in Outputs : children[attempt].pipe[o] = 0
    /\ \E isJson \in BOOLEAN :
          Return(IF \/ children[attempt].doing = "failed"
                    \/ children[attempt].written["stderr"] > 0
                    \/ ParseFails(isJson)
                 THEN "error" ELSE "ok")

\* The child has exited and both outputs are at their end.
Finish ==
    /\ pc = "wait" /\ Exited(attempt)
    /\ \A o \in Outputs : children[attempt].pipe[o] = 0
    /\ \E isJson \in BOOLEAN :
          Return(IF children[attempt].doing = "failed" \/ ParseFails(isJson) THEN "error" ELSE "ok")

\* timeout() around execute() in execute_spawned().
Timeout == pc \in {"write", "wait"} /\ Return("timeout")

-----------------------------------------------------------------------------
(* The children, each by itself. *)

ChildStep(n) ==
    /\ \E c \in AfterStep(children[n]) : children' = [children EXCEPT ![n] = c]
    /\ UNCHANGED <<mode, format, prompt, attempt, pc, unwritten, collected, result>>

-----------------------------------------------------------------------------
Adapter == Execute \/ WriteStdin \/ CloseStdin \/ (\E o \in Outputs : Collect(o)) \/ Finish

Next == Adapter \/ Timeout \/ (\E n \in Attempts : ChildStep(n))

Spec == Init /\ [][Next]_vars

\* The runtime polls execute() when a pipe or the child is ready, and its timer
\* fires; a child may hang.
FairSpec == Spec /\ WF_vars(Adapter) /\ WF_vars(Timeout)

-----------------------------------------------------------------------------
(* Properties *)

\* An attempt is answered with the whole output of a child that has succeeded,
\* and one that was given the prompt through a pipe was given all of it; what
\* the children of earlier attempts still write is never part of it.
OkIsWholeOutput ==
    result = "ok" =>
        /\ children[attempt].doing = "succeeded"
        /\ collected = children[attempt].total["stdout"]
        /\ mode = "Stdin" => unwritten = 0

\* An attempt is answered with an error only if its child could not be started
\* or has failed, or was not told the whole prompt, or if its output was to be
\* JSON; what earlier children did, or where a child writes, is no reason.
ErrorHasCause ==
    result = "error" =>
        \/ children[attempt].doing \in {"unborn", "failed"}
        \/ mode = "Stdin" /\ unwritten > 0
        \/ format = "Json"

\* Every attempt is answered as its own child and its own prompt call for.
ResultFitsChild == TypeOK /\ OkIsWholeOutput /\ ErrorHasCause

\* Child n waits for the adapter, and the adapter for its child.
Blocked(n) == Running(n) /\ ~ENABLED ChildStep(n)
Waits == ~ENABLED Adapter

\* Adapter and child wait for one another, until the timeout, only if the
\* prompt does not fit the pipe that it is written to and the child fills one
\* that is not read yet: both in "Stdin" mode.  Once the prompt is written
\* they never do.
StuckOnlyOnLargePrompt ==
    pc # "idle" /\ Waits /\ Blocked(attempt) =>
        /\ mode = "Stdin" /\ pc = "write"
        /\ prompt > PipeSize
        /\ \E o \in Outputs : children[attempt].total[o] > PipeSize

\* No child is left behind on its pipes: one that does not hang of itself ends,
\* also when its attempt has timed out, as it then sees the end of its input and
\* the loss of its output.
EveryChildEnds ==
    (\A n \in Attempts : WF_vars(ChildStep(n)))
        => \A n \in Attempts : Running(n) ~> Exited(n)
=============================================================================
