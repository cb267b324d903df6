----------------------------- MODULE ChildProcess -----------------------------
(***************************************************************************)
(* A process that CliAgent or SecureToolExecutor has started, and the      *)
(* pipes between the two, as the operating system and tokio::process       *)
(* provide them.  A child is any program that reads some of its input,     *)
(* writes some output and exits, in any order.  Data is counted in units   *)
(* of which a pipe holds PipeSize.                                         *)
(***************************************************************************)
EXTENDS Integers

CONSTANT PipeSize   \* what a pipe of the system holds

ASSUME PipeConfig == PipeSize \in Nat \ {0}

Outputs == {"stdout", "stderr"}

\* doing: what the child does next, or how it ended.  total, written: units it
\* is to write to each output, and has written.
\* stdin, and pipe for each output, are what the pipes hold; attached says
\* whether the parent holds its ends of them, and eof whether the child's
\* input ends after what its pipe holds.
Child == [doing: {"unborn", "read", "stdout", "stderr", "succeeded", "failed"},
          stdin: 0..PipeSize, eof: BOOLEAN, attached: BOOLEAN,
          total: [Outputs -> Nat], written: [Outputs -> Nat],
          pipe: [Outputs -> 0..PipeSize]]

Unborn == [doing |-> "unborn", stdin |-> 0, eof |-> FALSE, attached |-> FALSE,
           total |-> [o \in Outputs |-> 0], written |-> [o \in Outputs |-> 0],
           pipe |-> [o \in Outputs |-> 0]]

\* A child that is to write total; piped says whether its input is a pipe that
\* the parent holds.
Born(doing, total, piped) ==
    [Unborn EXCEPT !.doing = doing, !.total = total, !.attached = TRUE, !.eof = ~piped]

IsRunning(c) == c.doing \in {"read", "stdout", "stderr"}
HasExited(c) == c.doing \in {"succeeded", "failed"}

\* The child when the parent drops its ends of the pipes: its input ends, and
\* nothing kills it.
Released(c) == [c EXCEPT !.attached = FALSE, !.eof = TRUE, !.pipe = Unborn.pipe]

\* The parent reads a unit from an output.
Drained(c, o) == [c EXCEPT !.pipe[o] = @ - 1]

\* What a child may turn to: its outputs may be written in any order, and it
\* exits when they are, whether or not it has read its input.
Turns(c) ==
    LET left == {o \in Outputs : c.written[o] < c.total[o]}
    IN  left \cup (IF c.stdin > 0 \/ ~c.eof THEN {"read"} ELSE {})
             \cup (IF left = {} THEN {"succeeded", "failed"} ELSE {})

Turned(c) == {[c EXCEPT !.doing = next] : next \in Turns(c)}

\* A unit of the input, or its end.
AfterRead(c) ==
    CASE c.stdin > 0 -> Turned([c EXCEPT !.stdin = @ - 1])
      [] c.stdin = 0 /\ c.eof -> Turned(c)
      [] OTHER -> {}

\* A unit of output; a child whose output nobody reads any more is killed by
\* SIGPIPE.
AfterWrite(c, o) ==
    CASE c.written[o] = c.total[o] -> Turned(c)
      [] c.written[o] < c.total[o] /\ ~c.attached -> {[c EXCEPT !.doing = "failed"]}
      [] c.written[o] < c.total[o] /\ c.attached /\ c.pipe[o] < PipeSize
            -> Turned([c EXCEPT !.written[o] = @ + 1, !.pipe[o] = @ + 1])
      [] OTHER -> {}

\* What a child may become in a step of its own; none if it waits for the
\* parent, or has ended.
AfterStep(c) ==
    CASE c.doing = "read" -> AfterRead(c)
      [] c.doing \in Outputs -> AfterWrite(c, c.doing)
      [] OTHER -> {}
=============================================================================
