------------------------------- MODULE TaskQueue -------------------------------
(***************************************************************************)
(* BoundedTaskQueue (infrastructure/task_queue/mod.rs): a tokio channel    *)
(* whose receiver is behind a tokio mutex, and beside it an atomic counter *)
(* of the tasks in the channel, which enqueue() raises after it has sent   *)
(* and dequeue() lowers after it has received.  The mutex is handed to     *)
(* those who wait for it in the order of their calls.                      *)
(*                                                                         *)
(* The struct owns both ends of the channel, so neither is closed while a  *)
(* call is in progress.                                                    *)
(***************************************************************************)
EXTENDS Integers, Sequences, SequencesExt, FiniteSets

CONSTANTS Producers,   \* tasks of the runtime that enqueue
          Consumers,   \* tasks of the runtime that dequeue
          Tasks,       \* subtasks
          Capacity,    \* queue_capacity
          Modulus      \* number of values of the counter, a usize

\* A channel of capacity 0 is refused by tokio with a panic, in new(); callers
\* and capacity are far fewer than the values of a usize.
ASSUME QueueConfig ==
    /\ Capacity \in Nat \ {0} /\ Modulus \in Nat
    /\ IsFiniteSet(Producers) /\ Producers \cap Consumers = {}
    /\ Capacity + Cardinality(Producers) + 1 < Modulus
    /\ Tasks \cap {"none", "accepted", "full"} = {}

VARIABLES channel,   \* tasks sent and not received
          pending,   \* the counter
          pc,        \* where each caller is
          waiters,   \* consumers queued for the receiver's mutex
          answer     \* what the last call of each caller returns

vars == <<channel, pending, pc, waiters, answer>>

Callers == Producers \cup Consumers

PC == {"idle", "count", "lock", "receive", "uncount"}

TypeOK ==
    /\ channel \in Seq(Tasks) /\ Len(channel) <= Capacity
    /\ pending \in 0..Modulus - 1
    /\ pc \in [Callers -> PC]
    /\ waiters \in Seq(Consumers)
    /\ answer \in [Callers -> Tasks \cup {"none", "accepted", "full"}]

Init ==
    /\ channel = << >>
    /\ pending = 0
    /\ pc = [x \in Callers |-> "idle"]
    /\ waiters = << >>
    /\ answer = [x \in Callers |-> "none"]

\* fetch_add() and fetch_sub() wrap around.
FetchAdd == pending' = IF pending = Modulus - 1 THEN 0 ELSE pending + 1
FetchSub == pending' = IF pending = 0 THEN Modulus - 1 ELSE pending - 1

\* The consumer that holds the mutex.
Holds(c) == pc[c] \in {"receive", "uncount"}

\* Mutant of Unlock: an unfair mutex, any of those who wait may be the next.
Unlock_ToAny(c) ==
    IF waiters = << >>
    THEN /\ pc' = [pc EXCEPT ![c] = "idle"]
         /\ UNCHANGED waiters
    ELSE \E i \in DOMAIN waiters :
            /\ pc' = [pc EXCEPT ![c] = "idle", ![waiters[i]] = "receive"]
            /\ waiters' = RemoveAt(waiters, i)

\* c is done, and its guard of the mutex is dropped: it goes to the first of
\* those who wait.
Unlock(c) ==
    IF waiters = << >>
    THEN /\ pc' = [pc EXCEPT ![c] = "idle"]
         /\ UNCHANGED waiters
    ELSE /\ pc' = [pc EXCEPT ![c] = "idle", ![Head(waiters)] = "receive"]
         /\ waiters' = Tail(waiters)

-----------------------------------------------------------------------------
(* enqueue() *)

\* try_send(): a full channel is the caller's error, at once.
Enqueue(p, t) ==
    /\ p \in Producers /\ pc[p] = "idle"
    /\ IF Len(channel) < Capacity
       THEN /\ channel' = Append(channel, t)
            /\ answer' = [answer EXCEPT ![p] = "accepted"]
            /\ pc' = [pc EXCEPT ![p] = "count"]
       ELSE /\ answer' = [answer EXCEPT ![p] = "full"]
            /\ UNCHANGED <<channel, pc>>
    /\ UNCHANGED <<pending, waiters>>

Count(p) ==
    /\ pc[p] = "count"
    /\ FetchAdd
    /\ pc' = [pc EXCEPT ![p] = "idle"]
    /\ UNCHANGED <<channel, waiters, answer>>

-----------------------------------------------------------------------------
(* dequeue() *)

\* rx.lock().await, polled for the first time.
Dequeue(c) ==
    /\ c \in Consumers /\ pc[c] = "idle"
    /\ IF \E d \in Consumers : Holds(d)
       THEN /\ pc' = [pc EXCEPT ![c] = "lock"]
            /\ waiters' = Append(waiters, c)
       ELSE /\ pc' = [pc EXCEPT ![c] = "receive"]
            /\ UNCHANGED waiters
    /\ UNCHANGED <<channel, pending, answer>>

\* Mutant of Receive: the mutex is given up before the task is taken off.
Receive_UnlocksFirst(c) ==
    /\ pc[c] = "receive" /\ channel # << >>
    /\ channel' = Tail(channel)
    /\ answer' = [answer EXCEPT ![c] = Head(channel)]
    /\ IF waiters = << >>
       THEN pc' = [pc EXCEPT ![c] = "uncount"] /\ UNCHANGED waiters
       ELSE /\ pc' = [pc EXCEPT ![c] = "uncount", ![Head(waiters)] = "receive"]
            /\ waiters' = Tail(waiters)
    /\ UNCHANGED pending

Receive(c) ==
    /\ pc[c] = "receive" /\ channel # << >>
    /\ channel' = Tail(channel)
    /\ answer' = [answer EXCEPT ![c] = Head(channel)]
    /\ pc' = [pc EXCEPT ![c] = "uncount"]
    /\ UNCHANGED <<pending, waiters>>

\* Mutants of Expire: the timeout takes a task with it, and the wait begins anew.
Expire_LosesTask(c) ==
    /\ pc[c] = "receive"
    /\ channel' = IF channel = << >> THEN << >> ELSE Tail(channel)
    /\ answer' = [answer EXCEPT ![c] = "none"]
    /\ Unlock(c)
    /\ UNCHANGED pending

Expire_WaitsOn(c) ==
    /\ pc[c] = "receive" /\ channel = << >>
    /\ answer' = [answer EXCEPT ![c] = "none"]
    /\ UNCHANGED <<channel, pending, pc, waiters>>

\* timeout() around recv() looks at the channel once more before it expires.
Expire(c) ==
    /\ pc[c] = "receive" /\ channel = << >>
    /\ answer' = [answer EXCEPT ![c] = "none"]
    /\ Unlock(c)
    /\ UNCHANGED <<channel, pending>>

\* Mutant of Uncount: a plain store of what is in the channel.
Uncount_Stores(c) ==
    /\ pc[c] = "uncount"
    /\ pending' = Len(channel)
    /\ Unlock(c)
    /\ UNCHANGED <<channel, answer>>

\* fetch_sub(), and the end of the call.
Uncount(c) ==
    /\ pc[c] = "uncount"
    /\ FetchSub
    /\ Unlock(c)
    /\ UNCHANGED <<channel, answer>>

\* The caller drops the call at one of its two awaits.
Drop(c) ==
    /\ \/ /\ pc[c] = "lock"
          /\ pc' = [pc EXCEPT ![c] = "idle"]
          /\ \E i \in DOMAIN waiters :
                waiters[i] = c /\ waiters' = RemoveAt(waiters, i)
       \/ pc[c] = "receive" /\ Unlock(c)
    /\ UNCHANGED <<channel, pending, answer>>

-----------------------------------------------------------------------------
DequeueStep(c) == Receive(c) \/ Expire(c) \/ Uncount(c)

Next ==
    \/ \E p \in Producers : Count(p) \/ \E t \in Tasks : Enqueue(p, t)
    \/ \E c \in Consumers : Dequeue(c) \/ DequeueStep(c) \/ Drop(c)

Spec == Init /\ [][Next]_vars

\* The runtime polls a consumer that can go on, and its timer fires; nobody
\* has to call.
FairSpec == Spec /\ \A c \in Consumers : WF_vars(DequeueStep(c))

-----------------------------------------------------------------------------
(* Properties *)

Uncounted == {p \in Producers : pc[p] = "count"}
Received == {c \in Consumers : pc[c] = "uncount"}

\* How far the counter is from the length of the channel, read as a number
\* that may be negative.
Drift == Cardinality(Received) - Cardinality(Uncounted)

\* What pending_count() returns is the length of the channel but for the calls
\* in between their two steps, and nothing else: also after refusals,
\* timeouts and dropped calls.  It is above the capacity by one while a
\* received task is not taken off, and just below 2^64 when a task is taken
\* off before it is counted.
PendingIsLength ==
    pending = LET n == Len(channel) + Drift
              IN  IF n < 0 THEN Modulus + n ELSE n

\* The mutex has one holder at most and loses nobody: those who wait are
\* queued, each once, and they wait only while it is held.
MutexServesAll ==
    /\ \A c, d \in Consumers : Holds(c) /\ Holds(d) => c = d
    /\ \A c \in Consumers : pc[c] = "lock" <=> \E i \in DOMAIN waiters : waiters[i] = c
    /\ \A i, j \in DOMAIN waiters : waiters[i] = waiters[j] => i = j
    /\ waiters # << >> => \E c \in Consumers : Holds(c)

\* Consumers that wait before c in the queue for the mutex.
Ahead(c) ==
    {d \in Consumers : \E i, j \in DOMAIN waiters :
                          i < j /\ waiters[i] = d /\ waiters[j] = c}

\* The lock is waited for outside the timeout, so a dequeue can wait longer than
\* its own timeout, but not for anybody who came after it: while it waits nobody
\* gets ahead of it in the queue, and the mutex goes to one ahead of it or to
\* it.  What it waits for is then the holder and those queued when it called,
\* each for one timeout of its own at most.
WaitsItsTurn ==
    [][\A c \in Consumers : pc[c] = "lock" =>
          /\ pc'[c] = "lock" => Ahead(c)' \subseteq Ahead(c)
          /\ \A d \in Consumers : Holds(d)' /\ ~Holds(d) => d = c \/ d \in Ahead(c)]_vars

\* A dequeue that waits for the lock returns all the same: each one before it
\* expires or receives in turn.
EveryDequeueReturns ==
    \A c \in Consumers : pc[c] # "idle" ~> pc[c] = "idle"

\* The queue is a bounded FIFO: no task is lost, doubled or overtaken, also by
\* a timeout or a dropped call that races its arrival; full and empty are
\* answered only when they are so.
Queue == INSTANCE Fifo WITH items <- channel
ImplementsFifo == Queue!FifoSpec
=============================================================================
