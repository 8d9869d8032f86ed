-------------------------------- MODULE Fifo --------------------------------
(***************************************************************************)
(* A queue of chunks, as the worklist uses one: the chunks a thread has    *)
(* are pushed to the end and popped from the front.                        *)
(***************************************************************************)
EXTENDS Sequences

CONSTANT Threads

VARIABLES
  queue,  \* the chunks in the queue
  hand    \* the chunks each thread has

fifoVars == <<queue, hand>>

Push(t, c) ==
  /\ c \in hand[t]
  /\ queue' = Append(queue, c)
  /\ hand' = [hand EXCEPT ![t] = @ \ {c}]

Pop(t) ==
  /\ queue # <<>>
  /\ queue' = Tail(queue)
  /\ hand' = [hand EXCEPT ![t] = @ \cup {Head(queue)}]

FifoNext == \E t \in Threads : Pop(t) \/ \E c \in hand[t] : Push(t, c)

FifoSpec == queue = <<>> /\ [][FifoNext]_fifoVars
=============================================================================
