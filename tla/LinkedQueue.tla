----------------------------- MODULE LinkedQueue -----------------------------
(***************************************************************************)
(* ConExtLinkedQueue (WorkListHelpers.h) on a machine with store buffers:  *)
(* the lock bit is taken by an atomic instruction, which waits for the     *)
(* thread's stores, but it is given back by a plain store, and pop reads   *)
(* tail without the lock.  What a thread stores while it has the lock goes *)
(* to its buffer and reaches memory one store at a time, in order.         *)
(***************************************************************************)
EXTENDS Integers, Sequences, FiniteSets

CONSTANTS
  Threads,
  Chunks,
  Nil       \* the null pointer

VARIABLES
  locked,  \* lock bit of head
  mem,     \* memory: head, tail, and the link of each chunk
  buf,     \* stores of a thread that are not in memory yet
  pc,      \* where a thread is
  arg,     \* the chunk it pushes
  hand     \* the chunks it has

queueVars == <<locked, mem, buf, pc, arg, hand>>

Words == {"head", "tail"} \cup Chunks

QueueInit ==
  /\ locked = FALSE
  /\ mem = [w \in Words |-> Nil]
  /\ buf = [t \in Threads |-> <<>>]
  /\ pc = [t \in Threads |-> "idle"]
  /\ arg = [t \in Threads |-> Nil]
  /\ hand \in {h \in [Threads -> SUBSET Chunks] :
                 \A c \in Chunks : Cardinality({t \in Threads : c \in h[t]}) = 1}

\* Memory as a thread with the stores s sees it.
Seen[s \in Seq([word : Words, value : Chunks \cup {Nil}])] ==
  IF s = <<>> THEN mem
  ELSE [Seen[SubSeq(s, 1, Len(s) - 1)] EXCEPT ![s[Len(s)].word] = s[Len(s)].value]

Load(t, w) == Seen[buf[t]][w]

Store(w, v) == [word |-> w, value |-> v]

Go(t, place) == pc' = [pc EXCEPT ![t] = place]

\* The oldest store of a thread reaches memory; that of head unlocks it.
Flush(t) ==
  /\ buf[t] # <<>>
  /\ mem' = [mem EXCEPT ![Head(buf[t]).word] = Head(buf[t]).value]
  /\ locked' = (locked /\ Head(buf[t]).word # "head")
  /\ buf' = [buf EXCEPT ![t] = Tail(@)]
  /\ UNCHANGED <<pc, arg, hand>>

Lock(t, place) ==
  /\ buf[t] = <<>>
  /\ ~locked
  /\ locked' = TRUE
  /\ Go(t, place)
  /\ UNCHANGED <<mem, buf, arg, hand>>

CallPush(t) ==
  /\ pc[t] = "idle"
  /\ \E c \in hand[t] : arg' = [arg EXCEPT ![t] = c]
  /\ Go(t, "lockPush")
  /\ UNCHANGED <<locked, mem, buf, hand>>

LockPush(t) == pc[t] = "lockPush" /\ Lock(t, "push")

\* The stores of push, the last of which unlocks.
PushStoresTailKept(t) ==           \* mutant: tail is only set in an empty queue
  LET c == arg[t]  tail == Load(t, "tail")
  IN  IF tail # Nil
        THEN <<Store(c, Nil), Store(tail, c), Store("head", Load(t, "head"))>>
        ELSE <<Store(c, Nil), Store("tail", c), Store("head", c)>>
PushStoresHeadOnly(t) ==           \* mutant: tail is not set in an empty queue
  LET c == arg[t]  tail == Load(t, "tail")
  IN  IF tail # Nil
        THEN <<Store(c, Nil), Store(tail, c), Store("tail", c),
               Store("head", Load(t, "head"))>>
        ELSE <<Store(c, Nil), Store("head", c)>>
PushStores(t) ==
  LET c == arg[t]  tail == Load(t, "tail")
  IN  IF tail # Nil
        THEN <<Store(c, Nil), Store(tail, c), Store("tail", c),
               Store("head", Load(t, "head"))>>
        ELSE <<Store(c, Nil), Store("tail", c), Store("head", c)>>

Push(t) ==
  /\ pc[t] = "push"
  /\ buf' = [buf EXCEPT ![t] = @ \o PushStores(t)]
  /\ hand' = [hand EXCEPT ![t] = @ \ {arg[t]}]
  /\ arg' = [arg EXCEPT ![t] = Nil]
  /\ Go(t, "idle")
  /\ UNCHANGED <<locked, mem>>

\* pop looks at tail first.
PopEmpty(t) ==
  /\ pc[t] = "idle"
  /\ Load(t, "tail") = Nil
  /\ UNCHANGED queueVars

CallPop(t) ==
  /\ pc[t] = "idle"
  /\ Load(t, "tail") # Nil
  /\ Go(t, "lockPop")
  /\ UNCHANGED <<locked, mem, buf, arg, hand>>

LockPop(t) == pc[t] = "lockPop" /\ Lock(t, "pop")

\* The queue was emptied since tail was read.
PopNothing(t) ==
  /\ pc[t] = "pop"
  /\ Load(t, "head") = Nil
  /\ buf' = [buf EXCEPT ![t] = Append(@, Store("head", Nil))]
  /\ Go(t, "idle")
  /\ UNCHANGED <<locked, mem, arg, hand>>

Pop(t) ==
  LET c == Load(t, "head")
  IN  /\ pc[t] = "pop"
      /\ c # Nil
      /\ buf' = [buf EXCEPT ![t] = @ \o
           IF Load(t, "tail") = c
             THEN <<Store("tail", Nil), Store("head", Nil)>>
             ELSE <<Store("head", Load(t, c)), Store(c, Nil)>>]
      /\ hand' = [hand EXCEPT ![t] = @ \cup {c}]
      /\ Go(t, "idle")
      /\ UNCHANGED <<locked, mem, arg>>

QueueNext ==
  \E t \in Threads :
    \/ Flush(t) \/ CallPush(t) \/ LockPush(t) \/ Push(t)
    \/ PopEmpty(t) \/ CallPop(t) \/ LockPop(t) \/ PopNothing(t) \/ Pop(t)

QueueSpec == QueueInit /\ [][QueueNext]_queueVars

-----------------------------------------------------------------------------
\* Memory when all stores have reached it.  Only the thread that had the lock
\* last has stores to head and tail, and the links in the queue.
Settled ==
  [w \in Words |->
     LET writers == {t \in Threads : \E i \in DOMAIN buf[t] : buf[t][i].word = w}
     IN  IF writers = {} THEN mem[w]
         ELSE Load(CHOOSE t \in writers : TRUE, w)]

\* The chunks from c to the tail.
Chain[n \in Nat, c \in Chunks \cup {Nil}] ==
  IF n = 0 \/ c = Nil THEN <<>>
  ELSE <<c>> \o (IF c = Settled["tail"] THEN <<>> ELSE Chain[n - 1, Settled[c]])

Contents == Chain[Cardinality(Chunks) + 1, Settled["head"]]

Abstract == INSTANCE Fifo WITH queue <- Contents

\* The assertions of push and pop, and one chunk in one place: head is null when
\* tail is, and the last chunk has no successor.
QueueTypeOK ==
  /\ \A t \in Threads :
       /\ pc[t] = "push" /\ Load(t, "tail") = Nil => Load(t, "head") = Nil
       /\ pc[t] = "pop" /\ Load(t, "head") # Nil /\ Load(t, "tail") = Load(t, "head")
            => Load(t, Load(t, "head")) = Nil
  /\ \A c \in Chunks :
       Cardinality({t \in Threads : c \in hand[t]})
         + Cardinality({i \in DOMAIN Contents : Contents[i] = c}) = 1

\* No chunk is lost, popped twice or overtaken.
ImplementsFifo == Abstract!FifoSpec

\* pop without the lock misses chunks only while the push of all of them is
\* still in another thread's store buffer: never its own, never older ones.
OnlyUnseenPushesAreMissed ==
  \A t \in Threads :
    Load(t, "tail") = Nil =>
      \A i \in DOMAIN Contents :
        \E u \in Threads \ {t} : \E k \in DOMAIN buf[u] :
          buf[u][k] = Store("tail", Contents[i])
=============================================================================
