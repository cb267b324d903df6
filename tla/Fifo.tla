--------------------------------- MODULE Fifo ---------------------------------
(***************************************************************************)
(* What the TaskQueue port (domain/task/config.rs) promises, with no word  *)
(* of channels, locks, timeouts or counters: a bounded queue on which each *)
(* call takes effect at one instant.  A task that is put is refused        *)
(* exactly if the queue is full then, a call that takes gets the oldest    *)
(* task, and gets none only if there is none then.                         *)
(***************************************************************************)
EXTENDS Integers, Sequences

CONSTANTS Producers,   \* those who put tasks
          Consumers,   \* those who take them
          Tasks,       \* tasks
          Capacity     \* what the queue holds

VARIABLES items,       \* the queue, oldest first
          answer       \* what the last call of each caller is answered

FifoAnswer == Tasks \cup {"none", "accepted", "full"}

FifoInit == /\ items = << >>
            /\ answer = [x \in Producers \cup Consumers |-> "none"]

Put(p, t) == /\ Len(items) < Capacity
             /\ items' = Append(items, t)
             /\ answer' = [answer EXCEPT ![p] = "accepted"]

Refuse(p) == /\ Len(items) = Capacity
             /\ answer' = [answer EXCEPT ![p] = "full"]
             /\ UNCHANGED items

Take(c) == /\ items # << >>
           /\ items' = Tail(items)
           /\ answer' = [answer EXCEPT ![c] = Head(items)]

TakeNone(c) == /\ items = << >>
               /\ answer' = [answer EXCEPT ![c] = "none"]
               /\ UNCHANGED items

FifoNext == \/ \E p \in Producers : Refuse(p) \/ \E t \in Tasks : Put(p, t)
            \/ \E c \in Consumers : Take(c) \/ TakeNone(c)

FifoSpec == FifoInit /\ [][FifoNext]_<<items, answer>>
=============================================================================
