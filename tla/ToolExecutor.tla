----------------------------- MODULE ToolExecutor -----------------------------
(***************************************************************************)
(* SecureToolExecutor::execute() (infrastructure/tool_executor): a call    *)
(* that passes the configured checks starts a tool, collects what it       *)
(* writes and answers with it, cut to the configured sizes.  Calls share   *)
(* nothing but the configuration, so one call is modelled.  No name here   *)
(* is one of CliAgent's, so that one module can extend both.               *)
(***************************************************************************)
EXTENDS ChildProcess, SequencesExt

CONSTANTS Names,       \* names of files and directories
          Widths,      \* bytes that a unit of output takes once it is decoded
          MaxUnits,    \* bound: units a tool may write to an output
          MaxLimit     \* bound: ToolExecutorConfig::max_stdout_bytes, max_stderr_bytes

ASSUME ToolConfig == /\ Widths \subseteq Nat \ {0}
                     /\ MaxUnits \in Nat /\ MaxLimit \in Nat

VARIABLES config,      \* ToolExecutorConfig
          request,     \* ToolRequest: the path of the command, and whether its
                       \* arguments are free of the characters not allowed in them
          text,        \* what the tool is to write to each output: the widths of
                       \* its units
          phase,       \* where execute() is
          taken,       \* units of each output it has read
          answer,      \* how it ended
          response,    \* ToolResponse
          child        \* the tool's process

toolVars == <<config, request, text, phase, taken, answer, response, child>>

Texts == SeqOf(Widths, MaxUnits)
Commands == {<<name>> : name \in Names} \cup {<<dir, name>> : dir, name \in Names}

Config == [enabled: BOOLEAN, allowed: SUBSET Names, denied: SUBSET Names,
           dry_run: BOOLEAN, limit: [Outputs -> 0..MaxLimit]]
Request == [command: Commands, clean: BOOLEAN]
Response == [kept: [Outputs -> Nat], truncated: BOOLEAN, dry_run: BOOLEAN]

NoResponse == [kept |-> [o \in Outputs |-> 0], truncated |-> FALSE, dry_run |-> FALSE]

\* The bytes of a text.
Bytes(widths) ==
    LET sum[i \in 0..Len(widths)] == IF i = 0 THEN 0 ELSE sum[i - 1] + widths[i]
    IN  sum[Len(widths)]

ToolTypeOK ==
    /\ config \in Config /\ request \in Request /\ text \in [Outputs -> Texts]
    /\ phase \in {"called", "wait", "returned"}
    /\ taken \in [Outputs -> 0..MaxUnits]
    /\ answer \in {"none", "disabled", "denied", "bad_arg", "no_spawn", "timeout", "panic", "ok"}
    /\ response \in Response
    /\ child \in Child

ToolInit ==
    /\ config \in Config /\ request \in Request
    /\ text = [o \in Outputs |-> << >>]
    /\ phase = "called"
    /\ taken = [o \in Outputs |-> 0]
    /\ answer = "none" /\ response = NoResponse
    /\ child = Unborn

-----------------------------------------------------------------------------
(* What execute() decides before it starts anything. *)

\* basename(): the command without its directory.
Basename(command) == Last(command)

\* is_allowed(): the deny list has precedence.
IsAllowed(command) == Basename(command) \in config.allowed \ config.denied

\* Why a call is refused, in the order of the tests.
Refusal ==
    CASE ~config.enabled -> "disabled"
      [] config.enabled /\ ~IsAllowed(request.command) -> "denied"
      [] config.enabled /\ IsAllowed(request.command) /\ ~request.clean -> "bad_arg"
      [] OTHER -> "none"

\* Mutant of Answer: the executor's ends of the pipes are not dropped.
Answer_KeepsPipes(how) ==
    /\ phase' = "returned" /\ answer' = how
    /\ UNCHANGED <<config, request, text, taken, child>>

\* execute() ends; what it holds of the tool is dropped with it, and nothing
\* kills the tool.
Answer(how) ==
    /\ phase' = "returned" /\ answer' = how
    /\ child' = Released(child)
    /\ UNCHANGED <<config, request, text, taken>>

Refuse ==
    /\ phase = "called" /\ Refusal # "none"
    /\ Answer(Refusal) /\ UNCHANGED response

DryRun ==
    /\ phase = "called" /\ Refusal = "none" /\ config.dry_run
    /\ Answer("ok")
    /\ response' = [NoResponse EXCEPT !.dry_run = TRUE]

\* The tool starts with any of its work; its input is empty.
Spawn ==
    /\ phase = "called" /\ Refusal = "none" /\ ~config.dry_run
    /\ phase' = "wait"
    /\ \E writes \in [Outputs -> Texts], doing \in {"read", "stdout", "stderr"} :
          /\ text' = writes
          /\ child' = Born(doing, [o \in Outputs |-> Len(writes[o])], FALSE)
    /\ UNCHANGED <<config, request, taken, answer, response>>

\* The command does not exist or cannot be run.
SpawnFails ==
    /\ phase = "called" /\ Refusal = "none" /\ ~config.dry_run
    /\ Answer("no_spawn") /\ UNCHANGED response

-----------------------------------------------------------------------------
(* What it does with a tool that runs. *)

\* Mutant of Take: stdout is read to its end before stderr is read at all.
Take_InTurn(o) ==
    /\ phase = "wait" /\ child.pipe[o] > 0
    /\ o = "stderr" => HasExited(child)
    /\ child' = Drained(child, o)
    /\ taken' = [taken EXCEPT ![o] = @ + 1]
    /\ UNCHANGED <<config, request, text, phase, answer, response>>

\* wait_with_output() reads both outputs as they come, whatever their limits.
Take(o) ==
    /\ phase = "wait" /\ child.pipe[o] > 0
    /\ child' = Drained(child, o)
    /\ taken' = [taken EXCEPT ![o] = @ + 1]
    /\ UNCHANGED <<config, request, text, phase, answer, response>>

\* The output as it was read; String::from_utf8_lossy() has decoded it, which
\* gives a unit that is not UTF-8 a width of its own.
Output(o) == SubSeq(text[o], 1, taken[o])

TooLong(o) == Bytes(Output(o)) > config.limit[o]

\* Mutant of OnBoundary: a cut at the very start is not foreseen.
OnBoundary_NotAtStart(widths, n) == \E k \in 1..Len(widths) : Bytes(SubSeq(widths, 1, k)) = n

\* Whether so many bytes of a text end between two of its characters.
OnBoundary(widths, n) == \E k \in 0..Len(widths) : Bytes(SubSeq(widths, 1, k)) = n

\* What the response has of an output, in bytes.
Kept(o) == IF TooLong(o) THEN config.limit[o] ELSE Bytes(Output(o))

Truncated == \E o \in Outputs : TooLong(o)

\* A text that is cut inside a character panics.
Respond ==
    IF \E o \in Outputs : TooLong(o) /\ ~OnBoundary(Output(o), config.limit[o])
    THEN Answer("panic") /\ UNCHANGED response
    ELSE /\ Answer("ok")
         /\ response' = [kept |-> [o \in Outputs |-> Kept(o)],
                         truncated |-> Truncated, dry_run |-> FALSE]

\* Mutants of Complete: the tool's exit is not waited for, or its last output is
\* not read.
Complete_AtEnd ==
    /\ phase = "wait" /\ \A o \in Outputs : taken[o] = Len(text[o])
    /\ Respond

Complete_AtExit ==
    /\ phase = "wait" /\ HasExited(child)
    /\ Respond

\* The tool has exited, with whatever status, and both outputs are at their end.
Complete ==
    /\ phase = "wait" /\ HasExited(child)
    /\ \A o \in Outputs : child.pipe[o] = 0
    /\ Respond

\* timeout() around wait_with_output().
Expire == phase = "wait" /\ Answer("timeout") /\ UNCHANGED response

-----------------------------------------------------------------------------
\* The tool, by itself.
ToolStep ==
    /\ child' \in AfterStep(child)
    /\ UNCHANGED <<config, request, text, phase, taken, answer, response>>

Executor == Refuse \/ DryRun \/ Spawn \/ SpawnFails \/ (\E o \in Outputs : Take(o)) \/ Complete

ToolNext == Executor \/ Expire \/ ToolStep

ToolSpec == ToolInit /\ [][ToolNext]_toolVars

\* The runtime polls execute() when an output or the tool is ready, and its timer
\* fires; the tool may hang.
FairToolSpec == ToolSpec /\ WF_toolVars(Executor) /\ WF_toolVars(Expire)

-----------------------------------------------------------------------------
(* Properties *)

\* A tool's response has the whole of each output the tool has written before
\* it exited or, if that is longer than its limit, exactly the limit's bytes of
\* it, which are whole characters; truncated is set when either was cut, and
\* only then.
ResponseIsOutput ==
    answer = "ok" /\ ~response.dry_run =>
        /\ \A o \in Outputs :
              /\ response.kept[o] = IF Bytes(text[o]) <= config.limit[o]
                                    THEN Bytes(text[o]) ELSE config.limit[o]
              /\ OnBoundary(text[o], response.kept[o])
        /\ response.truncated <=> \E o \in Outputs : response.kept[o] < Bytes(text[o])

\* execute() panics only on an output that is too long and whose limit falls
\* inside one of its characters: never on output of single bytes.
PanicsOnlyInsideCharacter ==
    answer = "panic" =>
        \E o \in Outputs : /\ Bytes(text[o]) > config.limit[o]
                           /\ \E i \in DOMAIN text[o] : text[o][i] > 1

\* What a call makes of the tool's output, whatever the limits.
AnswerFitsOutput == ToolTypeOK /\ ResponseIsOutput /\ PanicsOnlyInsideCharacter

\* When execute() has returned, the tool has ended or was never started; only a
\* call that has timed out leaves it running.
OnlyTimeoutLeavesTool ==
    phase = "returned" /\ IsRunning(child) => answer = "timeout"

\* Executor and tool never wait for one another, however much the tool writes
\* to either output and whether or not it reads its input.
NeverStuck == phase = "wait" => ENABLED Executor \/ ENABLED ToolStep

\* A tool that does not hang of itself ends, also one whose call has timed out:
\* it sees the loss of its outputs.
EveryToolEnds == WF_toolVars(ToolStep) => (IsRunning(child) ~> HasExited(child))
=============================================================================
