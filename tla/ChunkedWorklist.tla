--------------------------- MODULE ChunkedWorklist ---------------------------
(***************************************************************************)
(* PerSocketChunkFIFO (worklists/Chunk.h), the worklist of the mesh loops. *)
(* A thread pushes to a chunk of its own and hands it to its socket's      *)
(* queue when it is full.  It pops from another chunk of its own, and when *)
(* that is empty takes a chunk from the sockets' queues, its own socket's  *)
(* first, and only then the chunk it pushes to.  One step is one access to *)
(* a socket's queue, which is locked (ConExtLinkedQueue).                  *)
(***************************************************************************)
EXTENDS Topology, Sequences

CONSTANT ChunkSize

ASSUME ChunkSizeAssumption == ChunkSize \in Nat \ {0}

VARIABLES
  cur,      \* each thread's chunk to pop from
  next,     \* each thread's chunk to push to
  Q,        \* each socket's queue of chunks
  looked    \* how many threads' sockets a pop has found without chunks

wlVars == <<cur, next, Q, looked>>

WlInit ==
  /\ cur = [t \in Threads |-> <<>>]
  /\ next = [t \in Threads |-> <<>>]
  /\ Q = [s \in Sockets |-> <<>>]
  /\ looked = [t \in Threads |-> 0]

\* A full chunk is handed over when there is one more item to push.
Emplace(t, x) ==
  /\ \/ /\ Len(next[t]) < ChunkSize
        /\ next' = [next EXCEPT ![t] = Append(@, x)]
        /\ UNCHANGED Q
     \/ /\ Len(next[t]) = ChunkSize
        /\ Q' = [Q EXCEPT ![SocketOf[t]] = Append(@, next[t])]
        /\ next' = [next EXCEPT ![t] = <<x>>]
  /\ UNCHANGED <<cur, looked>>

\* Pop takes x from the thread's own chunk.
ExtractFront(t, x) ==
  /\ cur[t] # <<>>
  /\ x = Head(cur[t])
  /\ cur' = [cur EXCEPT ![t] = Tail(@)]
  /\ looked' = [looked EXCEPT ![t] = 0]
  /\ UNCHANGED <<next, Q>>

\* The queue popChunk looks at next: those of the threads' sockets in turn,
\* beginning with its own.
QueueToLookAt(t) == SocketOf[(t + looked[t]) % ActiveThreads]

PopChunk(t) ==
  LET s == QueueToLookAt(t) IN
  /\ cur[t] = <<>>
  /\ looked[t] < ActiveThreads
  /\ Q[s] # <<>>
  /\ cur' = [cur EXCEPT ![t] = Head(Q[s])]
  /\ Q' = [Q EXCEPT ![s] = Tail(@)]
  /\ UNCHANGED <<next, looked>>

FindEmpty(t) ==
  /\ cur[t] = <<>>
  /\ looked[t] < ActiveThreads
  /\ Q[QueueToLookAt(t)] = <<>>
  /\ looked' = [looked EXCEPT ![t] = @ + 1]
  /\ UNCHANGED <<cur, next, Q>>

\* No queue had a chunk: the thread's other chunk is the one to pop from.
TakeNext(t) ==
  /\ cur[t] = <<>>
  /\ looked[t] = ActiveThreads
  /\ next[t] # <<>>
  /\ cur' = [cur EXCEPT ![t] = next[t]]
  /\ next' = [next EXCEPT ![t] = <<>>]
  /\ UNCHANGED <<Q, looked>>

Search(t) == PopChunk(t) \/ FindEmpty(t) \/ TakeNext(t)

\* Pop returns nothing.
PopNothing(t) ==
  /\ cur[t] = <<>>
  /\ looked[t] = ActiveThreads
  /\ next[t] = <<>>
  /\ looked' = [looked EXCEPT ![t] = 0]
  /\ UNCHANGED <<cur, next, Q>>
=============================================================================
