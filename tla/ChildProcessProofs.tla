---------------------------- MODULE ChildProcessProofs ----------------------------
(***************************************************************************)
(* Proofs about child processes and the two components that start them,    *)
(* for any sizes of the pipes, the prompt and the outputs:                 *)
(*   CliAgent      an attempt is answered with the whole output of its own *)
(*                 child, and an error has a cause, whatever children of   *)
(*                 earlier attempts are still about;                       *)
(*   ToolExecutor  a response has the whole of each output, or its limit's *)
(*                 worth of whole characters, and only a timeout leaves a  *)
(*                 tool running.                                           *)
(* Both rest on what a step of a child, by itself or at its parent's hands,*)
(* does to what the child has written and what its pipes hold.             *)
(***************************************************************************)
EXTENDS CliAgent, ToolExecutor, SequenceTheorems, WellFoundedInduction, TLAPS

-----------------------------------------------------------------------------
(* A child by itself. *)

\* A child writes what it is to write and not more, and has written all of it
\* when it succeeds, or exits while the parent still holds the pipes.
ChildOK(c) ==
    /\ c \in Child
    /\ \A o \in Outputs : c.written[o] <= c.total[o]
    /\ c.doing = "succeeded" \/ (c.doing = "failed" /\ c.attached)
          => \A o \in Outputs : c.written[o] = c.total[o]

\* A child may become d without anybody reading its output.
Becomes(c, d) ==
    /\ d.total = c.total /\ d.attached = c.attached
    /\ \A o \in Outputs : d.written[o] - d.pipe[o] = c.written[o] - c.pipe[o]

LEMMA UnbornOK == ChildOK(Unborn)
BY PipeConfig DEF ChildOK, Child, Unborn, Outputs

LEMMA BornOK ==
    ASSUME NEW doing \in {"read", "stdout", "stderr"}, NEW total \in [Outputs -> Nat],
           NEW piped \in BOOLEAN
    PROVE  LET c == Born(doing, total, piped)
           IN  /\ ChildOK(c) /\ c.total = total /\ c.attached
               /\ \A o \in Outputs : c.written[o] = 0 /\ c.pipe[o] = 0
<1> DEFINE c == Born(doing, total, piped)
           none == [o \in Outputs |-> 0]
<1>1. PICK eof \in BOOLEAN :
         c = [Unborn EXCEPT !.doing = doing, !.total = total, !.attached = TRUE, !.eof = eof]
  <2>1. (~piped) \in BOOLEAN
    OBVIOUS
  <2>2. c = [Unborn EXCEPT !.doing = doing, !.total = total, !.attached = TRUE, !.eof = ~piped]
    BY DEF Born
  <2>3. QED
    BY <2>1, <2>2, Zenon
<1>2. /\ none \in [Outputs -> Nat] /\ none \in [Outputs -> 0..PipeSize]
      /\ \A o \in Outputs : none[o] = 0
  BY PipeConfig
<1>3. Unborn = [doing |-> "unborn", stdin |-> 0, eof |-> FALSE, attached |-> FALSE,
                total |-> none, written |-> none, pipe |-> none]
  BY DEF Unborn
<1> HIDE DEF c, none
<1>4. /\ c \in Child /\ c.doing = doing /\ c.total = total
      /\ c.written = none /\ c.pipe = none /\ c.attached
  <2>1. c = [doing |-> doing, stdin |-> 0, eof |-> eof, attached |-> TRUE,
             total |-> total, written |-> none, pipe |-> none]
    BY <1>1, <1>3
  <2>2. 0 \in 0..PipeSize
    BY PipeConfig
  <2>3. QED
    BY <1>2, <2>1, <2>2 DEF Child
<1>5. ChildOK(c) /\ \A o \in Outputs : c.written[o] = 0 /\ c.pipe[o] = 0
  BY <1>2, <1>4 DEF ChildOK, Outputs
<1>6. QED
  BY <1>4, <1>5 DEF c

\* To turn to something else is all right: a child only succeeds when nothing
\* is left to be written.
LEMMA TurnedOK ==
    ASSUME NEW c, ChildOK(c), NEW d \in Turned(c)
    PROVE  ChildOK(d) /\ Becomes(c, d)
<1>1. PICK next \in Turns(c) : d = [c EXCEPT !.doing = next]
  BY DEF Turned
<1>2. next \in {"read", "stdout", "stderr", "succeeded", "failed"}
  BY DEF Turns, Outputs
<1>3. next \in {"succeeded", "failed"} => \A o \in Outputs : ~(c.written[o] < c.total[o])
  BY DEF Turns, Outputs
<1>4. /\ d \in Child /\ d.doing = next /\ d.total = c.total
      /\ d.written = c.written /\ d.pipe = c.pipe /\ d.attached = c.attached
  BY <1>1, <1>2 DEF ChildOK, Child
<1>5. \A o \in Outputs : c.written[o] \in Nat /\ c.total[o] \in Nat /\ c.pipe[o] \in Nat
  BY PipeConfig DEF ChildOK, Child
<1>6. QED
  BY <1>3, <1>4, <1>5 DEF ChildOK, Becomes

LEMMA StepOK ==
    ASSUME NEW c, ChildOK(c), NEW d \in AfterStep(c)
    PROVE  IsRunning(c) /\ ChildOK(d) /\ Becomes(c, d)
<1>1. c \in Child /\ \A o \in Outputs : c.written[o] \in Nat /\ c.total[o] \in Nat
                                        /\ c.pipe[o] \in 0..PipeSize
  BY DEF ChildOK, Child
<1>2. CASE c.doing = "read"
  <2>1. d \in AfterRead(c)
    BY <1>2 DEF AfterStep, Outputs
  <2>2. CASE c.stdin > 0
    <3> DEFINE e == [c EXCEPT !.stdin = c.stdin - 1]
    <3>1. d \in Turned(e)
      BY <2>1, <2>2 DEF AfterRead
    <3>2. /\ e \in Child /\ e.doing = c.doing /\ e.total = c.total
          /\ e.written = c.written /\ e.pipe = c.pipe /\ e.attached = c.attached
      BY <1>1, <2>2, PipeConfig DEF Child
    <3> HIDE DEF e
    <3>3. ChildOK(e)
      BY <3>2 DEF ChildOK
    <3>4. ChildOK(d) /\ Becomes(e, d)
      BY <3>1, <3>3, TurnedOK
    <3>5. QED
      BY <1>2, <3>2, <3>4 DEF Becomes, IsRunning
  <2>3. CASE ~(c.stdin > 0)
    <3>1. d \in Turned(c)
      BY <2>1, <2>3 DEF AfterRead
    <3>2. QED
      BY <1>2, <3>1, TurnedOK DEF IsRunning
  <2>4. QED
    BY <2>2, <2>3
<1>3. ASSUME NEW o \in Outputs, c.doing = o
      PROVE  IsRunning(c) /\ ChildOK(d) /\ Becomes(c, d)
  <2>1. d \in AfterWrite(c, o) /\ IsRunning(c) /\ c.doing \notin {"succeeded", "failed"}
    BY <1>3 DEF AfterStep, IsRunning, Outputs
  <2>2. CASE c.written[o] = c.total[o]
    <3>1. d \in Turned(c)
      <4>1. ~(c.written[o] < c.total[o])
        BY <1>1, <2>2
      <4>2. QED
        BY <2>1, <2>2, <4>1 DEF AfterWrite
    <3>2. QED
      BY <2>1, <3>1, TurnedOK
  <2>3. CASE c.written[o] < c.total[o] /\ ~c.attached
    <3>1. d = [c EXCEPT !.doing = "failed"]
      BY <1>1, <2>1, <2>3 DEF AfterWrite
    <3>2. /\ d \in Child /\ d.doing = "failed" /\ d.total = c.total
          /\ d.written = c.written /\ d.pipe = c.pipe /\ d.attached = c.attached
      BY <1>1, <3>1 DEF Child
    <3>3. QED
      BY <1>1, <2>1, <2>3, <3>2 DEF ChildOK, Becomes
  <2>4. CASE c.written[o] < c.total[o] /\ c.attached
    <3> DEFINE w == [c.written EXCEPT ![o] = c.written[o] + 1]
               p == [c.pipe EXCEPT ![o] = c.pipe[o] + 1]
               e == [c EXCEPT !.written = w, !.pipe = p]
    <3>0. e = [c EXCEPT !.written[o] = @ + 1, !.pipe[o] = @ + 1]
      BY <1>1 DEF Child
    <3>1. c.pipe[o] < PipeSize /\ d \in Turned(e)
      <4>1. c.written[o] # c.total[o] /\ ~(c.written[o] < c.total[o] /\ ~c.attached)
        BY <1>1, <2>4
      <4> HIDE DEF e
      <4>2. QED
        BY <2>1, <2>4, <3>0, <4>1 DEF AfterWrite
    <3>2. /\ w \in [Outputs -> Nat] /\ p \in [Outputs -> 0..PipeSize]
          /\ \A q \in Outputs : w[q] = (IF q = o THEN c.written[q] + 1 ELSE c.written[q])
          /\ \A q \in Outputs : p[q] = (IF q = o THEN c.pipe[q] + 1 ELSE c.pipe[q])
      BY <1>1, <3>1, PipeConfig DEF Child
    <3> HIDE DEF w, p
    <3>3. /\ e \in Child /\ e.doing = c.doing /\ e.total = c.total
          /\ e.written = w /\ e.pipe = p /\ e.attached = c.attached
      BY <1>1, <3>2 DEF Child
    <3> HIDE DEF e
    <3>4. ChildOK(e)
      BY <1>1, <2>1, <2>4, <3>2, <3>3 DEF ChildOK
    <3>5. ChildOK(d) /\ Becomes(e, d)
      BY <3>1, <3>4, TurnedOK
    <3>6. \A q \in Outputs : e.written[q] - e.pipe[q] = c.written[q] - c.pipe[q]
      BY <1>1, <3>2, <3>3, PipeConfig
    <3>7. QED
      BY <2>1, <3>3, <3>5, <3>6 DEF Becomes
  <2>5. QED
    BY <1>1, <2>2, <2>3, <2>4 DEF ChildOK, Child
<1>4. QED
  BY <1>2, <1>3 DEF AfterStep

\* What the parent does to a child leaves it all right.
LEMMA ReleasedOK ==
    ASSUME NEW c, ChildOK(c)
    PROVE  LET d == Released(c) IN ChildOK(d) /\ d.doing = c.doing /\ d.total = c.total
<1> DEFINE d == Released(c)
           none == [o \in Outputs |-> 0]
<1>1. none \in [Outputs -> 0..PipeSize] /\ Unborn.pipe = none
  BY PipeConfig DEF Unborn
<1>2. d = [c EXCEPT !.attached = FALSE, !.eof = TRUE, !.pipe = none]
  BY <1>1 DEF Released
<1> HIDE DEF d, none
<1>3. /\ d \in Child /\ d.doing = c.doing /\ d.total = c.total /\ d.written = c.written
      /\ d.attached = FALSE
  BY <1>1, <1>2 DEF ChildOK, Child
<1>4. ChildOK(d)
  BY <1>3 DEF ChildOK
<1>5. QED
  BY <1>3, <1>4 DEF d

LEMMA EofOK ==
    ASSUME NEW c, ChildOK(c)
    PROVE  LET d == [c EXCEPT !.eof = TRUE] IN ChildOK(d) /\ Becomes(c, d)
<1> DEFINE d == [c EXCEPT !.eof = TRUE]
<1>1. /\ d \in Child /\ d.doing = c.doing /\ d.total = c.total
      /\ d.written = c.written /\ d.pipe = c.pipe /\ d.attached = c.attached
  BY DEF ChildOK, Child
<1>2. QED
  BY <1>1 DEF ChildOK, Becomes

LEMMA FedOK ==
    ASSUME NEW c, ChildOK(c), c.stdin < PipeSize
    PROVE  LET d == [c EXCEPT !.stdin = c.stdin + 1] IN ChildOK(d) /\ Becomes(c, d)
<1> DEFINE d == [c EXCEPT !.stdin = c.stdin + 1]
<1>1. /\ d \in Child /\ d.doing = c.doing /\ d.total = c.total
      /\ d.written = c.written /\ d.pipe = c.pipe /\ d.attached = c.attached
  BY PipeConfig DEF ChildOK, Child
<1>2. QED
  BY <1>1 DEF ChildOK, Becomes

LEMMA DrainedOK ==
    ASSUME NEW c, ChildOK(c), NEW o \in Outputs, c.pipe[o] > 0
    PROVE  LET d == Drained(c, o)
           IN  /\ ChildOK(d) /\ d.doing = c.doing /\ d.total = c.total /\ d.written = c.written
               /\ d.attached = c.attached
               /\ \A q \in Outputs : d.pipe[q] = IF q = o THEN c.pipe[q] - 1 ELSE c.pipe[q]
<1> DEFINE d == Drained(c, o)
           p == [c.pipe EXCEPT ![o] = c.pipe[o] - 1]
<1>1. c \in Child /\ \A q \in Outputs : c.pipe[q] \in 0..PipeSize
  BY DEF ChildOK, Child
<1>2. /\ p \in [Outputs -> 0..PipeSize]
      /\ \A q \in Outputs : p[q] = IF q = o THEN c.pipe[q] - 1 ELSE c.pipe[q]
  BY <1>1, PipeConfig DEF Child
<1>3. d = [c EXCEPT !.pipe = p]
  BY <1>1 DEF Drained, Child
<1> HIDE DEF d, p
<1>4. /\ d \in Child /\ d.doing = c.doing /\ d.total = c.total /\ d.written = c.written
      /\ d.pipe = p /\ d.attached = c.attached
  BY <1>1, <1>2, <1>3 DEF Child
<1>5. ChildOK(d)
  BY <1>4 DEF ChildOK
<1>6. QED
  BY <1>2, <1>4, <1>5 DEF d

-----------------------------------------------------------------------------
(* The adapter and its children. *)

\* What an attempt in flight knows of its own child: it has read what the child
\* has written and the pipe no longer holds, and only a prompt that is written
\* to the end lets it wait.
InFlight ==
    /\ result = "none" /\ attempt > 0
    /\ LET c == children[attempt] IN c.written["stdout"] - c.pipe["stdout"] = collected
    /\ pc = "write" => mode = "Stdin"
    /\ pc = "wait" /\ mode = "Stdin" => unwritten = 0

\* The properties, with what makes them inductive.
IInv ==
    /\ TypeOK
    /\ \A n \in Attempts : ChildOK(children[n])
    /\ \A n \in Attempts : n > attempt => children[n] = Unborn
    /\ pc # "idle" => InFlight
    /\ result # "none" => attempt > 0
    /\ OkIsWholeOutput
    /\ ErrorHasCause

LEMMA OneChild ==
    ASSUME IInv, NEW n \in Attempts, NEW d, ChildOK(d), children' = [children EXCEPT ![n] = d]
    PROVE  /\ children' \in [Attempts -> Child]
           /\ \A m \in Attempts : children'[m] = IF m = n THEN d ELSE children[m]
           /\ \A m \in Attempts : ChildOK(children'[m])
<1>1. children \in [Attempts -> Child] /\ d \in Child
  BY DEF IInv, TypeOK, ChildOK
<1>2. /\ children' \in [Attempts -> Child]
      /\ \A m \in Attempts : children'[m] = IF m = n THEN d ELSE children[m]
  BY <1>1
<1>3. \A m \in Attempts : ChildOK(children'[m])
  BY <1>2 DEF IInv
<1>4. QED
  BY <1>2, <1>3

LEMMA InitOK == Init => IInv
<1> SUFFICES ASSUME Init PROVE IInv
  OBVIOUS
<1>1. ChildOK(Unborn) /\ Unborn \in Child
  BY UnbornOK DEF ChildOK
<1>2. TypeOK /\ \A n \in Attempts : children[n] = Unborn
  BY <1>1, CliConfig DEF Init, TypeOK
<1>3. QED
  BY <1>1, <1>2 DEF Init, IInv, OkIsWholeOutput, ErrorHasCause

\* An answer is right if it is when it is given: nothing it speaks of changes
\* when the pipes are dropped.
LEMMA ReturnOK ==
    ASSUME IInv, pc # "idle", NEW r \in {"ok", "error", "timeout"}, Return(r),
           r = "ok" => /\ children[attempt].doing = "succeeded"
                       /\ collected = children[attempt].total["stdout"]
                       /\ mode = "Stdin" => unwritten = 0,
           r = "error" => \/ children[attempt].doing \in {"unborn", "failed"}
                          \/ mode = "Stdin" /\ unwritten > 0
                          \/ format = "Json"
    PROVE  IInv'
<1>1. attempt \in Attempts /\ attempt > 0
  BY DEF IInv, TypeOK, InFlight, Attempts
<1> DEFINE d == Released(children[attempt])
<1>2. ChildOK(d) /\ d.doing = children[attempt].doing /\ d.total = children[attempt].total
  BY <1>1, ReleasedOK DEF IInv
<1>3. children' = [children EXCEPT ![attempt] = d]
  BY DEF Return
<1> HIDE DEF d
<1>4. /\ children' \in [Attempts -> Child]
      /\ \A m \in Attempts : children'[m] = IF m = attempt THEN d ELSE children[m]
      /\ \A m \in Attempts : ChildOK(children'[m])
  BY <1>1, <1>2, <1>3, OneChild
<1>5. TypeOK'
  BY <1>4 DEF IInv, TypeOK, Return
<1>6. \A n \in Attempts : n > attempt' => children'[n] = Unborn
  BY <1>1, <1>4 DEF IInv, Return, Attempts
<1>7. children'[attempt'].doing = children[attempt].doing
      /\ children'[attempt'].total = children[attempt].total
  BY <1>1, <1>2, <1>4 DEF Return
<1>8. OkIsWholeOutput' /\ ErrorHasCause'
  BY <1>7 DEF Return, OkIsWholeOutput, ErrorHasCause
<1>9. QED
  BY <1>1, <1>4, <1>5, <1>6, <1>8 DEF IInv, Return

\* A step that leaves the answer alone and turns child n into d.
LEMMA QuietOK ==
    ASSUME IInv, NEW n \in Attempts, NEW d, ChildOK(d), n <= attempt,
           children' = [children EXCEPT ![n] = d],
           TypeOK', UNCHANGED <<mode, format, attempt, result>>,
           pc' # "idle" => InFlight',
           \/ result = "none"
           \/ IsRunning(children[n]) /\ unwritten' = unwritten /\ collected' = collected
    PROVE  IInv'
<1>1. /\ \A m \in Attempts : children'[m] = IF m = n THEN d ELSE children[m]
      /\ \A m \in Attempts : ChildOK(children'[m])
  BY OneChild
<1>2. \A m \in Attempts : m > attempt' => children'[m] = Unborn
  BY <1>1 DEF IInv, Attempts, TypeOK
<1>3. OkIsWholeOutput' /\ ErrorHasCause'
  <2>1. CASE result = "none"
    BY <2>1 DEF OkIsWholeOutput, ErrorHasCause
  <2>2. CASE result # "none"
    <3>1. attempt \in Attempts
      BY <2>2 DEF IInv, TypeOK, Attempts
    <3>2. CASE n = attempt
      <4>1. children[attempt].doing \in {"read", "stdout", "stderr"}
        BY <2>2, <3>2 DEF IsRunning
      <4>2. QED
        BY <2>2, <4>1 DEF IInv, OkIsWholeOutput, ErrorHasCause
    <3>3. CASE n # attempt
      <4>1. children'[attempt'] = children[attempt]
        BY <1>1, <3>1, <3>3
      <4>2. QED
        BY <2>2, <4>1 DEF IInv, OkIsWholeOutput, ErrorHasCause
    <3>4. QED
      BY <3>2, <3>3
  <2>3. QED
    BY <2>1, <2>2
<1>4. QED
  BY <1>1, <1>2, <1>3 DEF IInv

LEMMA ExecuteOK == IInv /\ Execute => IInv'
<1> SUFFICES ASSUME IInv, Execute PROVE IInv'
  OBVIOUS
<1>1. /\ attempt \in Nat /\ attempt' = attempt + 1 /\ attempt' \in Attempts
      /\ \A m \in Attempts : m > attempt' => m > attempt
  BY CliConfig DEF IInv, TypeOK, Execute, Attempts
<1>2. prompt \in Nat /\ unwritten' = prompt /\ collected' = 0
  BY CliConfig DEF IInv, TypeOK, Execute
<1>3. ASSUME NEW total \in [Outputs -> OutputSizes], NEW doing \in {"read", "stdout", "stderr"},
             children' = [children EXCEPT ![attempt'] = Born(doing, total, mode = "Stdin")],
             pc' = IF mode = "Stdin" THEN "write" ELSE "wait", result' = "none"
      PROVE  IInv'
  <2> DEFINE piped == mode = "Stdin"
             d == Born(doing, total, piped)
  <2>1. total \in [Outputs -> Nat] /\ piped \in BOOLEAN
    BY CliConfig
  <2> HIDE DEF piped
  <2>2. ChildOK(d) /\ d.written["stdout"] = 0 /\ d.pipe["stdout"] = 0
    <3>1. ChildOK(d) /\ \A o \in Outputs : d.written[o] = 0 /\ d.pipe[o] = 0
      BY <2>1, BornOK
    <3>2. QED
      BY <3>1 DEF Outputs
  <2> HIDE DEF d
  <2>3. children' = [children EXCEPT ![attempt'] = d]
    BY <1>3 DEF d, piped
  <2>4. /\ children' \in [Attempts -> Child]
        /\ \A m \in Attempts : children'[m] = IF m = attempt' THEN d ELSE children[m]
        /\ \A m \in Attempts : ChildOK(children'[m])
    BY <1>1, <2>2, <2>3, OneChild
  <2>5. TypeOK'
    BY <1>1, <1>2, <1>3, <2>4 DEF IInv, TypeOK, Execute, Attempts
  <2>6. \A m \in Attempts : m > attempt' => children'[m] = Unborn
    BY <1>1, <2>4 DEF IInv, Attempts
  <2>7. InFlight'
    BY <1>1, <1>2, <1>3, <2>2, <2>4 DEF InFlight, Execute
  <2>8. QED
    BY <1>1, <1>3, <2>4, <2>5, <2>6, <2>7 DEF IInv, OkIsWholeOutput, ErrorHasCause
<1>4. ASSUME result' = "error", UNCHANGED <<pc, children>>
      PROVE  IInv'
  <2>1. TypeOK'
    BY <1>1, <1>2, <1>4 DEF IInv, TypeOK, Execute, Attempts
  <2>2. children'[attempt'] = Unborn
    BY <1>1, <1>4 DEF IInv
  <2>3. children'[attempt'].doing = "unborn"
    BY <2>2 DEF Unborn
  <2>4. OkIsWholeOutput' /\ ErrorHasCause'
    BY <1>4, <2>3 DEF OkIsWholeOutput, ErrorHasCause
  <2>5. QED
    BY <1>1, <1>4, <2>1, <2>4 DEF IInv, Execute
<1>5. QED
  BY <1>3, <1>4 DEF Execute

LEMMA WriteOK == IInv /\ WriteStdin => IInv'
<1> SUFFICES ASSUME IInv, WriteStdin PROVE IInv'
  OBVIOUS
<1>1. /\ pc # "idle" /\ InFlight /\ mode = "Stdin" /\ unwritten \in Nat /\ unwritten > 0
      /\ attempt \in Attempts /\ children \in [Attempts -> Child]
  BY CliConfig DEF IInv, WriteStdin, InFlight, TypeOK, Attempts
<1>2. CASE Exited(attempt)
  <2>1. Return("error")
    BY <1>2 DEF WriteStdin
  <2>2. QED
    BY <1>1, <2>1, ReturnOK
<1>3. CASE ~Exited(attempt)
  <2> DEFINE c == children[attempt]
             d == [c EXCEPT !.stdin = c.stdin + 1]
  <2>1. ChildOK(d) /\ Becomes(c, d)
    BY <1>1, <1>3, FedOK DEF IInv, WriteStdin
  <2>2. /\ children' = [children EXCEPT ![attempt] = d] /\ unwritten' = unwritten - 1
        /\ UNCHANGED <<mode, format, prompt, attempt, pc, collected, result>>
    BY <1>3, <1>1 DEF WriteStdin
  <2> HIDE DEF d
  <2>3. children' \in [Attempts -> Child] /\ children'[attempt] = d
    BY <1>1, <2>1, <2>2, OneChild
  <2>4. TypeOK'
    BY <1>1, <2>2, <2>3 DEF IInv, TypeOK
  <2>5. d.written["stdout"] - d.pipe["stdout"] = c.written["stdout"] - c.pipe["stdout"]
    BY <2>1 DEF Becomes, Outputs
  <2>6. InFlight'
    BY <1>1, <2>2, <2>3, <2>5 DEF InFlight, WriteStdin
  <2>7. attempt <= attempt /\ result = "none"
    BY <1>1 DEF InFlight, Attempts
  <2>8. QED
    BY <1>1, <2>1, <2>2, <2>4, <2>6, <2>7, QuietOK
<1>4. QED
  BY <1>2, <1>3

LEMMA CloseOK == IInv /\ CloseStdin => IInv'
<1> SUFFICES ASSUME IInv, CloseStdin PROVE IInv'
  OBVIOUS
<1>1. /\ InFlight /\ attempt \in Attempts /\ children \in [Attempts -> Child]
      /\ unwritten = 0 /\ pc' = "wait"
  BY CliConfig DEF IInv, CloseStdin, InFlight, TypeOK, Attempts
<1> DEFINE c == children[attempt]
           d == [c EXCEPT !.eof = TRUE]
<1>2. ChildOK(d) /\ Becomes(c, d)
  <2>1. ChildOK(c)
    BY <1>1 DEF IInv
  <2>2. QED
    BY <2>1, EofOK
<1>3. /\ children' = [children EXCEPT ![attempt] = d]
      /\ UNCHANGED <<mode, format, prompt, attempt, unwritten, collected, result>>
  BY <1>1 DEF CloseStdin
<1> HIDE DEF d
<1>4. children' \in [Attempts -> Child] /\ children'[attempt] = d
  BY <1>1, <1>2, <1>3, OneChild
<1>5. TypeOK'
  BY <1>1, <1>3, <1>4 DEF IInv, TypeOK
<1>6. d.written["stdout"] - d.pipe["stdout"] = c.written["stdout"] - c.pipe["stdout"]
  BY <1>2 DEF Becomes, Outputs
<1>7. InFlight'
  BY <1>1, <1>3, <1>4, <1>6 DEF InFlight
<1>8. attempt <= attempt /\ result = "none"
  BY <1>1 DEF InFlight, Attempts
<1>9. QED
  BY <1>1, <1>2, <1>3, <1>5, <1>7, <1>8, QuietOK

LEMMA CollectOK == ASSUME NEW o \in Outputs PROVE IInv /\ Collect(o) => IInv'
<1> SUFFICES ASSUME IInv, Collect(o) PROVE IInv'
  OBVIOUS
<1>1. /\ InFlight /\ attempt \in Attempts /\ children \in [Attempts -> Child]
      /\ pc = "wait" /\ collected \in Nat
  BY CliConfig DEF IInv, Collect, InFlight, TypeOK, Attempts
<1> DEFINE c == children[attempt]
           d == Drained(c, o)
<1>2. ChildOK(c) /\ c.pipe[o] > 0
  BY <1>1 DEF IInv, Collect
<1>3. /\ ChildOK(d) /\ d.written = c.written
      /\ \A q \in Outputs : d.pipe[q] = IF q = o THEN c.pipe[q] - 1 ELSE c.pipe[q]
  BY <1>2, DrainedOK
<1>4. /\ children' = [children EXCEPT ![attempt] = d]
      /\ collected' = IF o = "stdout" THEN collected + 1 ELSE collected
      /\ UNCHANGED <<mode, format, prompt, attempt, pc, unwritten, result>>
  BY <1>1 DEF Collect
<1>5. c.written["stdout"] \in Nat /\ c.pipe["stdout"] \in Nat
  BY <1>2, PipeConfig DEF ChildOK, Child, Outputs
<1> HIDE DEF d
<1>6. children' \in [Attempts -> Child] /\ children'[attempt] = d
  BY <1>1, <1>3, <1>4, OneChild
<1>7. TypeOK'
  BY <1>1, <1>4, <1>6 DEF IInv, TypeOK
<1>8. d.written["stdout"] - d.pipe["stdout"] = collected'
  <2>1. c.written["stdout"] - c.pipe["stdout"] = collected
    BY <1>1 DEF InFlight
  <2>2. d.pipe["stdout"] = IF "stdout" = o THEN c.pipe["stdout"] - 1 ELSE c.pipe["stdout"]
    BY <1>3 DEF Outputs
  <2> HIDE DEF c
  <2>3. QED
    BY <1>1, <1>3, <1>4, <1>5, <2>1, <2>2
<1>9. InFlight'
  BY <1>1, <1>4, <1>6, <1>8 DEF InFlight
<1>10. attempt <= attempt /\ result = "none"
  BY <1>1 DEF InFlight, Attempts
<1>11. QED
  BY <1>1, <1>3, <1>4, <1>7, <1>9, <1>10, QuietOK

LEMMA FinishOK == IInv /\ Finish => IInv'
<1> SUFFICES ASSUME IInv, Finish PROVE IInv'
  OBVIOUS
<1> DEFINE c == children[attempt]
<1>1. /\ pc # "idle" /\ InFlight /\ (mode = "Stdin" => unwritten = 0)
      /\ ChildOK(c) /\ c.doing \in {"succeeded", "failed"} /\ c.pipe["stdout"] = 0
  BY CliConfig DEF IInv, Finish, InFlight, TypeOK, Attempts, Exited, HasExited, Outputs
<1>2. PICK isJson \in BOOLEAN :
         Return(IF c.doing = "failed" \/ ParseFails(isJson) THEN "error" ELSE "ok")
  BY DEF Finish
<1>3. CASE c.doing = "failed" \/ ParseFails(isJson)
  <2>1. Return("error")
    BY <1>2, <1>3
  <2>2. c.doing = "failed" \/ format = "Json"
    BY <1>3 DEF ParseFails
  <2>3. QED
    BY <1>1, <2>1, <2>2, ReturnOK
<1>4. CASE ~(c.doing = "failed" \/ ParseFails(isJson))
  <2>1. Return("ok")
    BY <1>2, <1>4
  <2>2. c.doing = "succeeded"
    BY <1>1, <1>4
  <2>3. c.written["stdout"] = c.total["stdout"] /\ c.written["stdout"] \in Nat
    BY <1>1, <2>2 DEF ChildOK, Child, Outputs
  <2>4. c.written["stdout"] - c.pipe["stdout"] = collected
    BY <1>1 DEF InFlight
  <2>5. collected = c.total["stdout"]
    BY <1>1, <2>3, <2>4
  <2>6. QED
    BY <1>1, <2>1, <2>2, <2>5, ReturnOK
<1>5. QED
  BY <1>3, <1>4

LEMMA ChildStepOK == ASSUME NEW n \in Attempts PROVE IInv /\ ChildStep(n) => IInv'
<1> SUFFICES ASSUME IInv, ChildStep(n) PROVE IInv'
  OBVIOUS
<1> DEFINE c == children[n]
<1>1. PICK d \in AfterStep(c) : children' = [children EXCEPT ![n] = d]
  BY DEF ChildStep
<1>2. ChildOK(c) /\ children \in [Attempts -> Child]
  BY DEF IInv, TypeOK
<1>3. IsRunning(c) /\ ChildOK(d) /\ Becomes(c, d)
  BY <1>1, <1>2, StepOK
<1>4. UNCHANGED <<mode, format, prompt, attempt, pc, unwritten, collected, result>>
  BY DEF ChildStep
<1>5. n <= attempt
  <2>1. c # Unborn
    BY <1>3 DEF IsRunning, Unborn
  <2>2. QED
    BY <2>1 DEF IInv, TypeOK, Attempts
<1>6. /\ children' \in [Attempts -> Child]
      /\ \A m \in Attempts : children'[m] = IF m = n THEN d ELSE children[m]
  BY <1>1, <1>3, OneChild
<1>7. TypeOK'
  BY <1>4, <1>6 DEF IInv, TypeOK
<1>8. ASSUME pc' # "idle" PROVE InFlight'
  <2>1. InFlight /\ attempt \in Attempts
    BY <1>4, <1>8 DEF IInv, TypeOK, InFlight, Attempts
  <2>2. d.written["stdout"] - d.pipe["stdout"] = c.written["stdout"] - c.pipe["stdout"]
    BY <1>3 DEF Becomes, Outputs
  <2>3. /\ children'[attempt].written["stdout"] - children'[attempt].pipe["stdout"]
           = children[attempt].written["stdout"] - children[attempt].pipe["stdout"]
    BY <1>6, <2>1, <2>2
  <2>4. QED
    BY <1>4, <2>1, <2>3 DEF InFlight
<1>9. QED
  BY <1>1, <1>3, <1>4, <1>5, <1>7, <1>8, QuietOK

\* Whatever the children of this and of earlier attempts do, and whenever an
\* attempt times out: it is answered with the whole output of its own child if
\* that has succeeded, and with an error only for a cause of its own.
THEOREM AnswersFitChildren == Spec => []ResultFitsChild
<1>1. IInv /\ [Next]_vars => IInv'
  <2> SUFFICES ASSUME IInv, [Next]_vars PROVE IInv'
    OBVIOUS
  <2>1. CASE Timeout
    <3>1. pc # "idle" /\ Return("timeout")
      BY <2>1 DEF Timeout
    <3>2. QED
      BY <3>1, ReturnOK
  <2>2. CASE UNCHANGED vars
    BY <2>2 DEF vars, IInv, TypeOK, InFlight, OkIsWholeOutput, ErrorHasCause
  <2>3. QED
    BY <2>1, <2>2, ExecuteOK, WriteOK, CloseOK, CollectOK, FinishOK, ChildStepOK
       DEF Next, Adapter
<1>2. IInv => ResultFitsChild
  BY DEF IInv, ResultFitsChild
<1>3. QED
  BY <1>1, <1>2, InitOK, PTL DEF Spec

-----------------------------------------------------------------------------
(* The bytes of a text. *)

LEMMA NaturalInduction ==
    ASSUME NEW S, 0 \in S, \A n \in Nat : n \in S => n + 1 \in S
    PROVE  Nat \subseteq S
<1> DEFINE R == {ss \in Nat \X Nat : ss[1] < ss[2]}
           T == Nat \ S
<1> SUFFICES ASSUME T # {} PROVE FALSE
  OBVIOUS
<1>1. R = OpToRel(<, Nat)
  BY DEF OpToRel
<1>2. IsWellFoundedOn(R, Nat)
  BY <1>1, NatLessThanWellFounded, Zenon
<1> HIDE DEF R
<1>3. PICK n \in T : \A m \in T : <<m, n>> \notin R
  BY <1>2, WFMin
<1>4. n \in Nat /\ n # 0 /\ \A m \in T : ~(m < n)
  BY <1>3 DEF R
<1>5. n - 1 \in Nat /\ n - 1 \notin T /\ (n - 1) + 1 = n
  BY <1>4
<1>6. QED
  BY <1>3, <1>5

\* sum is the function that Bytes(widths) chooses, as far as n.
IsSum(sum, widths, n) ==
    sum = [i \in 0..n |-> IF i = 0 THEN 0 ELSE sum[i - 1] + widths[i]]

LEMMA SumExists == ASSUME NEW widths, NEW n \in Nat PROVE \E sum : IsSum(sum, widths, n)
<1> DEFINE S == {m \in Nat : \E sum : IsSum(sum, widths, m)}
<1>1. 0 \in S
  <2> DEFINE s == [i \in 0..0 |-> 0]
  <2>1. IsSum(s, widths, 0)
    BY DEF IsSum
  <2>2. QED
    BY <2>1
<1>2. ASSUME NEW m \in Nat, m \in S PROVE m + 1 \in S
  <2>1. PICK s : IsSum(s, widths, m)
    BY <1>2
  <2> DEFINE t == [i \in 0..(m + 1) |-> IF i = m + 1 THEN s[m] + widths[m + 1] ELSE s[i]]
             u == [i \in 0..(m + 1) |-> IF i = 0 THEN 0 ELSE t[i - 1] + widths[i]]
  <2>2. ASSUME NEW i \in 0..(m + 1) PROVE t[i] = u[i]
    <3>1. CASE i = m + 1
      BY <3>1
    <3>2. CASE i # m + 1
      <4>1. i \in 0..m /\ (i # 0 => i - 1 \in 0..m /\ i - 1 # m + 1)
        BY <3>2
      <4>2. s[i] = IF i = 0 THEN 0 ELSE s[i - 1] + widths[i]
        BY <2>1, <4>1 DEF IsSum
      <4>3. QED
        BY <3>2, <4>1, <4>2
    <3>3. QED
      BY <3>1, <3>2
  <2>3. t = u
    BY <2>2
  <2>4. IsSum(t, widths, m + 1)
    BY <2>3 DEF IsSum
  <2> HIDE DEF t
  <2>5. QED
    BY <2>4
<1> HIDE DEF S
<1>3. Nat \subseteq S
  BY <1>1, <1>2, NaturalInduction
<1>4. QED
  BY <1>3 DEF S

\* A text has a number of bytes: one for each unit if no unit is wider.
LEMMA BytesOfText ==
    ASSUME NEW widths \in Seq(Nat)
    PROVE  /\ Bytes(widths) \in Nat
           /\ (\A i \in 1..Len(widths) : widths[i] = 1) => Bytes(widths) = Len(widths)
<1> DEFINE n == Len(widths)
           sum == CHOOSE s : IsSum(s, widths, n)
           S == {i \in Nat : i <= n =>
                   /\ sum[i] \in Nat
                   /\ (\A j \in 1..n : widths[j] = 1) => sum[i] = i}
<1>1. n \in Nat /\ \A i \in 1..n : widths[i] \in Nat
  OBVIOUS
<1>2. IsSum(sum, widths, n)
  BY <1>1, SumExists
<1>3. Bytes(widths) = sum[n]
  BY DEF Bytes, IsSum
<1> HIDE DEF sum
<1>4. 0 \in S
  BY <1>1, <1>2 DEF IsSum
<1>5. ASSUME NEW i \in Nat, i \in S PROVE i + 1 \in S
  <2> SUFFICES ASSUME i + 1 <= n
               PROVE  /\ sum[i + 1] \in Nat
                      /\ (\A j \in 1..n : widths[j] = 1) => sum[i + 1] = i + 1
    OBVIOUS
  <2>1. i + 1 \in 1..n /\ i + 1 \in 0..n /\ i + 1 # 0 /\ (i + 1) - 1 = i /\ i <= n
    BY <1>1
  <2>2. sum[i + 1] = sum[i] + widths[i + 1]
    BY <1>2, <2>1 DEF IsSum
  <2>3. QED
    BY <1>1, <1>5, <2>1, <2>2
<1> HIDE DEF S
<1>6. n \in S
  BY <1>1, <1>4, <1>5, NaturalInduction
<1>7. QED
  BY <1>1, <1>3, <1>6 DEF S

-----------------------------------------------------------------------------
(* The executor and its tool. *)

\* What execute() knows of a tool it waits for: it holds the pipes, and has
\* taken what the tool has written and the pipes no longer hold.
InTouch ==
    /\ answer = "none" /\ child.attached
    /\ \A o \in Outputs : /\ child.total[o] = Len(text[o])
                          /\ child.written[o] - child.pipe[o] = taken[o]

\* The properties, with what makes them inductive.
ToolInv ==
    /\ ToolTypeOK
    /\ ChildOK(child)
    /\ phase = "called" => /\ child = Unborn /\ answer = "none"
                           /\ taken = [o \in Outputs |-> 0]
    /\ phase = "wait" => InTouch
    /\ ResponseIsOutput /\ PanicsOnlyInsideCharacter
    /\ OnlyTimeoutLeavesTool

\* Texts are sequences of units that have a width.
LEMMA TextsAre ==
    ASSUME NEW w \in Texts
    PROVE  /\ w \in Seq(Nat) /\ Len(w) \in 0..MaxUnits
           /\ \A i \in 1..Len(w) : w[i] \in Nat \ {0}
<1>1. PICK m \in 0..MaxUnits : w \in [1..m -> Widths]
  BY DEF Texts, SeqOf
<1>2. w \in [1..m -> Nat] /\ \A i \in 1..m : w[i] \in Nat \ {0}
  BY <1>1, ToolConfig
<1>3. m \in Nat /\ w \in Seq(Nat) /\ Len(w) = m
  BY <1>1, <1>2, ToolConfig
<1>4. QED
  BY <1>1, <1>2, <1>3

\* A part of a text from its beginning.
LEMMA BeginningIs ==
    ASSUME NEW w \in Seq(Nat), NEW k \in 0..Len(w)
    PROVE  /\ SubSeq(w, 1, k) \in Seq(Nat) /\ Len(SubSeq(w, 1, k)) = k
           /\ \A i \in 1..k : SubSeq(w, 1, k)[i] = w[i]
           /\ k = Len(w) => SubSeq(w, 1, k) = w
<1>1. /\ SubSeq(w, 1, k) \in Seq(Nat) /\ Len(SubSeq(w, 1, k)) = k
      /\ \A i \in 1..k : SubSeq(w, 1, k)[i] = w[i]
  OBVIOUS
<1>2. QED
  BY <1>1, SeqEqual

\* A limit within a text of single bytes is at the end of one of them.
LEMMA SingleBytesHaveBoundaries ==
    ASSUME NEW w \in Seq(Nat), \A i \in 1..Len(w) : w[i] = 1, NEW n \in Nat, n < Bytes(w)
    PROVE  OnBoundary(w, n)
<1>1. Bytes(w) = Len(w) /\ Len(w) \in Nat
  BY BytesOfText
<1>2. n \in 0..Len(w)
  BY <1>1
<1>3. /\ SubSeq(w, 1, n) \in Seq(Nat) /\ Len(SubSeq(w, 1, n)) = n
      /\ \A i \in 1..n : SubSeq(w, 1, n)[i] = 1
  <2>1. \A i \in 1..n : i \in 1..Len(w)
    BY <1>1, <1>2
  <2>2. QED
    BY <1>2, <2>1, BeginningIs
<1>4. Bytes(SubSeq(w, 1, n)) = n
  BY <1>3, BytesOfText
<1>5. QED
  BY <1>2, <1>4 DEF OnBoundary

LEMMA InitTool == ToolInit => ToolInv
<1> SUFFICES ASSUME ToolInit PROVE ToolInv
  OBVIOUS
<1>1. ChildOK(Unborn) /\ Unborn \in Child /\ Unborn.doing = "unborn"
  BY UnbornOK DEF ChildOK, Unborn
<1>2. << >> \in Texts
  <2>1. << >> \in [1..0 -> Widths] /\ 0 \in 0..MaxUnits
    BY ToolConfig
  <2>2. QED
    BY <2>1 DEF Texts, SeqOf
<1>3. NoResponse \in Response
  BY DEF NoResponse, Response
<1>4. ToolTypeOK
  BY <1>1, <1>2, <1>3, ToolConfig DEF ToolInit, ToolTypeOK
<1>5. QED
  BY <1>1, <1>4
     DEF ToolInit, ToolInv, ResponseIsOutput, PanicsOnlyInsideCharacter, OnlyTimeoutLeavesTool,
         IsRunning

\* execute() may end with an answer that fits what it has, and unless it is a
\* timeout only when the tool no longer runs.
LEMMA AnswerOK ==
    ASSUME ToolInv, response' \in Response,
           NEW how \in {"disabled", "denied", "bad_arg", "no_spawn", "timeout", "panic", "ok"},
           Answer(how),
           IsRunning(child) => how = "timeout",
           ResponseIsOutput', PanicsOnlyInsideCharacter'
    PROVE  ToolInv'
<1> DEFINE d == Released(child)
<1>1. child' = d /\ phase' = "returned" /\ answer' = how
      /\ UNCHANGED <<config, request, text, taken>>
  BY DEF Answer
<1>2. ChildOK(d) /\ d.doing = child.doing
  BY ReleasedOK DEF ToolInv
<1> HIDE DEF d
<1>3. ToolTypeOK'
  BY <1>1, <1>2 DEF ToolInv, ToolTypeOK, ChildOK
<1>4. OnlyTimeoutLeavesTool'
  BY <1>1, <1>2 DEF OnlyTimeoutLeavesTool, IsRunning
<1>5. QED
  BY <1>1, <1>2, <1>3, <1>4 DEF ToolInv

\* An answer without a response of a tool needs nothing of it.
LEMMA PlainAnswerOK ==
    ASSUME ToolInv, UNCHANGED response,
           NEW how \in {"disabled", "denied", "bad_arg", "no_spawn", "timeout"}, Answer(how),
           IsRunning(child) => how = "timeout"
    PROVE  ToolInv'
<1>1. answer' = how /\ response' \in Response
  BY DEF Answer, ToolInv, ToolTypeOK
<1>2. ResponseIsOutput' /\ PanicsOnlyInsideCharacter'
  BY <1>1 DEF ResponseIsOutput, PanicsOnlyInsideCharacter
<1>3. QED
  BY <1>1, <1>2, AnswerOK

LEMMA RefuseOK == ToolInv /\ (Refuse \/ DryRun \/ SpawnFails) => ToolInv'
<1> SUFFICES ASSUME ToolInv, Refuse \/ DryRun \/ SpawnFails PROVE ToolInv'
  OBVIOUS
<1>1. ~IsRunning(child)
  BY DEF ToolInv, Refuse, DryRun, SpawnFails, IsRunning, Unborn
<1>2. CASE Refuse
  <2>1. Refusal \in {"disabled", "denied", "bad_arg"}
    BY <1>2 DEF Refuse, Refusal
  <2>2. Answer(Refusal) /\ UNCHANGED response
    BY <1>2 DEF Refuse
  <2>3. QED
    BY <1>1, <2>1, <2>2, PlainAnswerOK
<1>3. CASE SpawnFails
  <2>1. Answer("no_spawn") /\ UNCHANGED response
    BY <1>3 DEF SpawnFails
  <2>2. QED
    BY <1>1, <2>1, PlainAnswerOK
<1>4. CASE DryRun
  <2>1. Answer("ok") /\ response' = [NoResponse EXCEPT !.dry_run = TRUE]
    BY <1>4 DEF DryRun
  <2>2. response' \in Response /\ response'.dry_run /\ answer' = "ok"
    BY <2>1 DEF NoResponse, Response, Answer
  <2>3. ResponseIsOutput' /\ PanicsOnlyInsideCharacter'
    BY <2>2 DEF ResponseIsOutput, PanicsOnlyInsideCharacter
  <2>4. QED
    BY <1>1, <2>1, <2>2, <2>3, AnswerOK
<1>5. QED
  BY <1>2, <1>3, <1>4

LEMMA SpawnOK == ToolInv /\ Spawn => ToolInv'
<1> SUFFICES ASSUME ToolInv, Spawn PROVE ToolInv'
  OBVIOUS
<1>1. /\ phase = "called" /\ phase' = "wait" /\ answer = "none"
      /\ taken = [o \in Outputs |-> 0]
      /\ UNCHANGED <<config, request, taken, answer, response>>
  BY DEF Spawn, ToolInv
<1>2. PICK writes \in [Outputs -> Texts], doing \in {"read", "stdout", "stderr"} :
         /\ text' = writes
         /\ child' = Born(doing, [o \in Outputs |-> Len(writes[o])], FALSE)
  BY DEF Spawn
<1> DEFINE total == [o \in Outputs |-> Len(writes[o])]
           piped == FALSE
           d == Born(doing, total, piped)
<1>3. total \in [Outputs -> Nat] /\ \A o \in Outputs : total[o] = Len(writes[o])
  <2>1. \A o \in Outputs : writes[o] \in Texts
    BY <1>2
  <2>2. \A o \in Outputs : Len(writes[o]) \in Nat
    BY <2>1, TextsAre, LenProperties
  <2>3. QED
    BY <2>2
<1>4. piped \in BOOLEAN /\ child' = d
  BY <1>2
<1> HIDE DEF total, piped
<1>5. /\ ChildOK(d) /\ d.total = total /\ d.attached
      /\ \A o \in Outputs : d.written[o] = 0 /\ d.pipe[o] = 0
  BY <1>3, <1>4, BornOK
<1> HIDE DEF d
<1>6. ToolTypeOK'
  BY <1>1, <1>2, <1>4, <1>5 DEF ToolInv, ToolTypeOK, ChildOK
<1>7. InTouch'
  <2>1. \A o \in Outputs : text'[o] = writes[o] /\ taken'[o] = 0
    BY <1>1, <1>2
  <2>2. /\ answer' = "none" /\ child'.attached
        /\ \A o \in Outputs : child'.total[o] = total[o] /\ child'.written[o] - child'.pipe[o] = 0
    BY <1>1, <1>4, <1>5
  <2>3. QED
    BY <1>3, <2>1, <2>2 DEF InTouch
<1>8. QED
  BY <1>1, <1>4, <1>5, <1>6, <1>7
     DEF ToolInv, ResponseIsOutput, PanicsOnlyInsideCharacter, OnlyTimeoutLeavesTool

LEMMA TakeOK == ASSUME NEW o \in Outputs PROVE ToolInv /\ Take(o) => ToolInv'
<1> SUFFICES ASSUME ToolInv, Take(o) PROVE ToolInv'
  OBVIOUS
<1>1. /\ phase = "wait" /\ child.pipe[o] > 0 /\ ChildOK(child) /\ InTouch
      /\ taken' = [taken EXCEPT ![o] = taken[o] + 1]
      /\ UNCHANGED <<config, request, text, phase, answer, response>>
  BY DEF Take, ToolInv
<1> DEFINE d == Drained(child, o)
<1>2. /\ ChildOK(d) /\ d.total = child.total /\ d.written = child.written
      /\ d.attached = child.attached
      /\ \A q \in Outputs : d.pipe[q] = IF q = o THEN child.pipe[q] - 1 ELSE child.pipe[q]
  BY <1>1, DrainedOK
<1>3. child' = d
  BY DEF Take
<1> HIDE DEF d
<1>4. \A q \in Outputs : /\ child.written[q] \in Nat /\ child.pipe[q] \in Nat
                         /\ child.written[q] <= child.total[q] /\ child.total[q] \in Nat
                         /\ text[q] \in Texts /\ taken[q] \in Nat
  BY <1>1, PipeConfig, ToolConfig DEF ChildOK, Child, ToolInv, ToolTypeOK
<1>5. \A q \in Outputs : /\ taken'[q] = IF q = o THEN taken[q] + 1 ELSE taken[q]
                         /\ child.written[q] - child.pipe[q] = taken[q]
                         /\ child.total[q] = Len(text[q])
  BY <1>1 DEF InTouch, ToolInv, ToolTypeOK
<1>6. \A q \in Outputs : d.written[q] - d.pipe[q] = taken'[q]
  BY <1>2, <1>4, <1>5
<1>7. \A q \in Outputs : taken'[q] \in 0..MaxUnits
  <2> SUFFICES ASSUME NEW q \in Outputs PROVE taken'[q] \in 0..MaxUnits
    OBVIOUS
  <2>1. d.pipe[q] \in Nat
    BY <1>2, PipeConfig DEF ChildOK, Child
  <2>2. taken'[q] <= Len(text[q]) /\ Len(text[q]) \in 0..MaxUnits
    <3>1. Len(text[q]) \in 0..MaxUnits
      BY <1>4, TextsAre
    <3>2. taken'[q] <= child.total[q]
      BY <1>2, <1>4, <1>6, <2>1
    <3>3. QED
      BY <1>5, <3>1, <3>2
  <2>3. taken'[q] \in Nat
    BY <1>4, <1>5
  <2>4. QED
    BY <2>2, <2>3, ToolConfig
<1>8. taken' \in [Outputs -> 0..MaxUnits]
  BY <1>1, <1>7 DEF ToolInv, ToolTypeOK
<1>9. ToolTypeOK'
  BY <1>1, <1>2, <1>3, <1>8 DEF ToolInv, ToolTypeOK, ChildOK
<1>10. InTouch'
  BY <1>1, <1>2, <1>3, <1>5, <1>6 DEF InTouch
<1>11. QED
  BY <1>1, <1>2, <1>3, <1>9, <1>10
     DEF ToolInv, ResponseIsOutput, PanicsOnlyInsideCharacter, OnlyTimeoutLeavesTool

\* When the tool has exited and both pipes are empty, the executor has the
\* whole of each output.
LEMMA WholeOutput ==
    ASSUME ToolInv, phase = "wait", HasExited(child), NEW o \in Outputs, child.pipe[o] = 0
    PROVE  /\ Output(o) = text[o] /\ text[o] \in Texts /\ text[o] \in Seq(Nat)
           /\ Bytes(text[o]) \in Nat /\ config.limit[o] \in Nat
<1>1. child.written[o] = child.total[o] /\ child.written[o] \in Nat
  BY DEF ToolInv, InTouch, ChildOK, Child, HasExited
<1>2. taken[o] = Len(text[o])
  BY <1>1 DEF ToolInv, InTouch
<1>3. text[o] \in Texts /\ text[o] \in Seq(Nat)
  BY TextsAre DEF ToolInv, ToolTypeOK
<1>4. Output(o) = text[o]
  <2>1. Len(text[o]) \in 0..Len(text[o])
    BY <1>3
  <2>2. SubSeq(text[o], 1, Len(text[o])) = text[o]
    BY <1>3, <2>1, BeginningIs
  <2>3. QED
    BY <1>2, <2>2 DEF Output
<1>5. Bytes(text[o]) \in Nat
  BY <1>3, BytesOfText
<1>6. config.limit[o] \in Nat
  BY ToolConfig DEF ToolInv, ToolTypeOK, Config
<1>7. QED
  BY <1>3, <1>4, <1>5, <1>6

LEMMA CompleteOK == ToolInv /\ Complete => ToolInv'
<1> SUFFICES ASSUME ToolInv, Complete PROVE ToolInv'
  OBVIOUS
<1>1. phase = "wait" /\ HasExited(child) /\ ~IsRunning(child)
  BY DEF Complete, HasExited, IsRunning
<1>2. \A o \in Outputs : /\ Output(o) = text[o] /\ text[o] \in Texts /\ text[o] \in Seq(Nat)
                         /\ Bytes(text[o]) \in Nat /\ config.limit[o] \in Nat
  BY <1>1, WholeOutput DEF Complete
<1>3. \A o \in Outputs : TooLong(o) <=> Bytes(text[o]) > config.limit[o]
  BY <1>2 DEF TooLong
<1>4. CASE \E o \in Outputs : TooLong(o) /\ ~OnBoundary(Output(o), config.limit[o])
  <2>1. Answer("panic") /\ UNCHANGED response
    BY <1>4 DEF Complete, Respond
  <2>2. PICK o \in Outputs : TooLong(o) /\ ~OnBoundary(text[o], config.limit[o])
    BY <1>2, <1>4
  <2>3. \E i \in DOMAIN text[o] : text[o][i] > 1
    <3> SUFFICES ASSUME \A i \in DOMAIN text[o] : ~(text[o][i] > 1) PROVE FALSE
      OBVIOUS
    <3>1. /\ text[o] \in Seq(Nat) /\ DOMAIN text[o] = 1..Len(text[o])
          /\ \A i \in 1..Len(text[o]) : text[o][i] \in Nat \ {0}
      BY <1>2, TextsAre
    <3>2. \A i \in 1..Len(text[o]) : text[o][i] = 1
      BY <3>1
    <3>3. config.limit[o] \in Nat /\ config.limit[o] < Bytes(text[o])
      BY <1>2, <1>3, <2>2
    <3>4. QED
      BY <2>2, <3>1, <3>2, <3>3, SingleBytesHaveBoundaries
  <2>4. answer' = "panic" /\ response' \in Response /\ UNCHANGED <<text, config>>
    BY <2>1 DEF Answer, ToolInv, ToolTypeOK
  <2>5. PanicsOnlyInsideCharacter'
    BY <1>3, <2>2, <2>3, <2>4 DEF PanicsOnlyInsideCharacter
  <2>6. ResponseIsOutput'
    BY <2>4 DEF ResponseIsOutput
  <2>7. QED
    BY <1>1, <2>1, <2>4, <2>5, <2>6, AnswerOK
<1>5. CASE ~(\E o \in Outputs : TooLong(o) /\ ~OnBoundary(Output(o), config.limit[o]))
  <2> DEFINE kept == [o \in Outputs |-> Kept(o)]
  <2>1. /\ Answer("ok")
        /\ response' = [kept |-> kept, truncated |-> Truncated, dry_run |-> FALSE]
    BY <1>5 DEF Complete, Respond
  <2>2. \A o \in Outputs :
           /\ kept[o] = IF Bytes(text[o]) > config.limit[o] THEN config.limit[o]
                                                           ELSE Bytes(text[o])
           /\ kept[o] \in Nat
    BY <1>2, <1>3 DEF Kept
  <2>3. Truncated \in BOOLEAN /\ (Truncated <=> \E o \in Outputs : kept[o] < Bytes(text[o]))
    BY <1>2, <1>3, <2>2 DEF Truncated
  <2>4. kept \in [Outputs -> Nat]
    BY <2>2
  <2> HIDE DEF kept
  <2>5. /\ answer' = "ok" /\ UNCHANGED <<text, config>> /\ response' \in Response
        /\ response'.kept = kept /\ response'.truncated = Truncated
    BY <2>1, <2>3, <2>4 DEF Answer, Response
  <2>6. ASSUME NEW o \in Outputs PROVE OnBoundary(text[o], kept[o])
    <3>1. CASE TooLong(o)
      BY <1>2, <1>3, <1>5, <2>2, <3>1
    <3>2. CASE ~TooLong(o)
      <4>1. kept[o] = Bytes(text[o])
        BY <1>3, <2>2, <3>2
      <4>2. Len(text[o]) \in 0..Len(text[o]) /\ SubSeq(text[o], 1, Len(text[o])) = text[o]
        BY <1>2, BeginningIs
      <4>3. QED
        BY <4>1, <4>2 DEF OnBoundary
    <3>3. QED
      BY <3>1, <3>2
  <2>7. \A o \in Outputs : kept[o] = IF Bytes(text[o]) <= config.limit[o] THEN Bytes(text[o])
                                                                         ELSE config.limit[o]
    BY <1>2, <2>2
  <2>8. ResponseIsOutput'
    BY <2>3, <2>5, <2>6, <2>7 DEF ResponseIsOutput, OnBoundary
  <2>9. PanicsOnlyInsideCharacter'
    BY <2>5 DEF PanicsOnlyInsideCharacter
  <2>10. QED
    BY <1>1, <2>1, <2>5, <2>8, <2>9, AnswerOK
<1>6. QED
  BY <1>4, <1>5

LEMMA ToolStepOK == ToolInv /\ ToolStep => ToolInv'
<1> SUFFICES ASSUME ToolInv, ToolStep PROVE ToolInv'
  OBVIOUS
<1>1. /\ child' \in AfterStep(child) /\ ChildOK(child)
      /\ UNCHANGED <<config, request, text, phase, taken, answer, response>>
  BY DEF ToolStep, ToolInv
<1>2. IsRunning(child) /\ ChildOK(child') /\ Becomes(child, child')
  BY <1>1, StepOK
<1>3. ToolTypeOK'
  BY <1>1, <1>2 DEF ToolInv, ToolTypeOK, ChildOK
<1>4. child # Unborn
  BY <1>2 DEF IsRunning, Unborn
<1>5. phase = "wait" => InTouch'
  BY <1>1, <1>2 DEF ToolInv, InTouch, Becomes
<1>6. QED
  BY <1>1, <1>2, <1>3, <1>4, <1>5
     DEF ToolInv, ResponseIsOutput, PanicsOnlyInsideCharacter, OnlyTimeoutLeavesTool

LEMMA AlwaysToolInv == ToolSpec => []ToolInv
<1>1. ToolInv /\ [ToolNext]_toolVars => ToolInv'
  <2> SUFFICES ASSUME ToolInv, [ToolNext]_toolVars PROVE ToolInv'
    OBVIOUS
  <2>1. CASE Expire
    BY <2>1, PlainAnswerOK DEF Expire
  <2>2. CASE UNCHANGED toolVars
    BY <2>2 DEF toolVars, ToolInv, ToolTypeOK, InTouch, ResponseIsOutput,
                PanicsOnlyInsideCharacter, OnlyTimeoutLeavesTool
  <2>3. QED
    BY <2>1, <2>2, RefuseOK, SpawnOK, TakeOK, CompleteOK, ToolStepOK DEF ToolNext, Executor
<1>2. QED
  BY <1>1, InitTool, PTL DEF ToolSpec

\* Whatever a tool writes and wherever the limits fall: a response has the
\* whole of each output, or exactly its limit's bytes of it and says so, and
\* execute() panics only on a limit inside a character.
THEOREM ResponsesFitOutput == ToolSpec => []AnswerFitsOutput
<1>1. ToolInv => AnswerFitsOutput
  BY DEF ToolInv, AnswerFitsOutput
<1>2. QED
  BY <1>1, AlwaysToolInv, PTL

\* Only a call that has timed out leaves a tool running behind it.
THEOREM ToolsAreNotLeft == ToolSpec => []OnlyTimeoutLeavesTool
<1>1. ToolInv => OnlyTimeoutLeavesTool
  BY DEF ToolInv
<1>2. QED
  BY <1>1, AlwaysToolInv, PTL
=============================================================================
