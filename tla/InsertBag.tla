------------------------------ MODULE InsertBag ------------------------------
(***************************************************************************)
(* galois::InsertBag: a list of chunks per thread, each with room for a    *)
(* few elements.  emplace links a new chunk before it has constructed the  *)
(* first element in it; an iterator takes the first place of a chunk       *)
(* without looking at dend.  The program's graph keeps its nodes in one,   *)
(* and its writer walks over the nodes during the parallel loop.           *)
(***************************************************************************)
EXTENDS Integers, Sequences, SequencesExt

CONSTANTS
  MaxThreads,
  Room,        \* places in a chunk, from dbegin to dlast
  MaxChunks,   \* bound on the chunks of a thread
  Serial       \* whether the bag is read only while nobody inserts

ASSUME BagAssumption == {MaxThreads, Room, MaxChunks} \subseteq Nat \ {0} /\ Serial \in BOOLEAN

Threads == 0 .. MaxThreads - 1

VARIABLES
  chunks,  \* per thread, the chunks: dend, and how many elements are constructed
  ins,     \* per thread, where emplace is
  at,      \* the iterator: thr, p and v, p = 0 for the null pointer
  end,     \* the end iterator
  moving,  \* whether the iterator is in advance_thread
  range,   \* the threads whose elements are read: the first, and one past the last
  got      \* the places the reader has been at

iterVars == <<at, end, moving, range, got>>
bagVars == <<chunks, ins, iterVars>>

Reading == at # <<>>

BagInit ==
  /\ chunks = [t \in Threads |-> <<>>]
  /\ ins = [t \in Threads |-> "idle"]
  /\ at = <<>>
  /\ end = <<>>
  /\ moving = FALSE
  /\ range = <<0, 0>>
  /\ got = <<>>

-----------------------------------------------------------------------------
\* emplace: a new chunk is linked if there is none or the last is full.
LinkChunk(t) ==
  /\ chunks' = [chunks EXCEPT ![t] = Append(@, [dend |-> 0, built |-> 0])]
  /\ ins' = [ins EXCEPT ![t] = "construct"]

Full(t) == chunks[t] # <<>> => Last(chunks[t]).dend = Room

Emplace(t) ==
  /\ ins[t] = "idle"
  /\ Serial => ~Reading
  /\ \/ Full(t) /\ Len(chunks[t]) < MaxChunks /\ LinkChunk(t)
     \/ ~Full(t) /\ ins' = [ins EXCEPT ![t] = "construct"] /\ UNCHANGED chunks
  /\ UNCHANGED iterVars

Construct(t) ==
  /\ ins[t] = "construct"
  /\ chunks' = [chunks EXCEPT ![t][Len(chunks[t])].built = @ + 1]
  /\ ins' = [ins EXCEPT ![t] = "publish"]
  /\ UNCHANGED iterVars

Publish(t) ==
  /\ ins[t] = "publish"
  /\ chunks' = [chunks EXCEPT ![t][Len(chunks[t])].dend = @ + 1]
  /\ ins' = [ins EXCEPT ![t] = "idle"]
  /\ UNCHANGED iterVars

Clear ==
  /\ \A t \in Threads : ins[t] = "idle"
  /\ ~Reading
  /\ \E t \in Threads : chunks[t] # <<>>
  /\ chunks' = [t \in Threads |-> <<>>]
  /\ UNCHANGED <<ins, iterVars>>

-----------------------------------------------------------------------------
\* init_thread: the first place of the first chunk of thread t.
First(t) ==
  [thr |-> t, p |-> IF t \in Threads /\ chunks[t] # <<>> THEN 1 ELSE 0, v |-> 0]

\* The iterator is at i, or goes on in advance_thread if it found no chunk.
MoveTo(i) ==
  /\ at' = i
  /\ moving' = (i.p = 0 /\ i.thr < MaxThreads)

\* The iterator constructed for thread t: the first place of t or, if it has no
\* chunk, of the next thread that has one.
LocalEndKept(t) == First(t)              \* mutant: the constructor does not advance
Iterator(t) ==
  LET later == {u \in t .. MaxThreads - 1 : chunks[u] # <<>>}
  IN  First(IF later = {} THEN MaxThreads ELSE Min(later))

Begin(from, to) ==
  /\ ~Reading
  /\ Serial => \A t \in Threads : ins[t] = "idle"
  /\ at' = Iterator(from)
  /\ end' = Iterator(to)
  /\ range' = <<from, to>>
  /\ UNCHANGED <<chunks, ins, moving, got>>

\* begin() and end(); local_begin() and local_end(), which the loops call
\* before a barrier that every insertion comes after.
BeginAll == Begin(0, MaxThreads)
BeginLocal(t) == Serial /\ Begin(t, t + 1)

\* The loop's body reads the element; then increment.
AtElement == Reading /\ ~moving /\ at # end

\* increment: advance_local, advance_chunk, or the first round of advance_thread.
SuccessorNoChunk(i) ==                   \* mutant: advance_chunk is left out
  IF i.v + 1 # chunks[i.thr][i.p].dend THEN [i EXCEPT !.v = @ + 1]
  ELSE First(i.thr + 1)
Successor(i) ==
  CASE i.v + 1 # chunks[i.thr][i.p].dend -> [i EXCEPT !.v = @ + 1]
    [] i.v + 1 = chunks[i.thr][i.p].dend /\ i.p < Len(chunks[i.thr]) ->
         [i EXCEPT !.p = @ + 1, !.v = 0]
    [] OTHER -> First(i.thr + 1)

Increment ==
  /\ AtElement
  /\ got' = Append(got, at)
  /\ MoveTo(Successor(at))
  /\ UNCHANGED <<chunks, ins, end, range>>

\* One round of advance_thread.
AdvanceThread ==
  /\ moving
  /\ MoveTo(First(at.thr + 1))
  /\ UNCHANGED <<chunks, ins, end, range, got>>

AtEnd == Reading /\ ~moving /\ at = end

Finish ==
  /\ AtEnd
  /\ at' = <<>>
  /\ end' = <<>>
  /\ range' = <<0, 0>>
  /\ got' = <<>>
  /\ UNCHANGED <<chunks, ins, moving>>

BagNext ==
  \/ \E t \in Threads : Emplace(t) \/ Construct(t) \/ Publish(t) \/ BeginLocal(t)
  \/ Clear \/ BeginAll \/ AdvanceThread \/ Increment \/ Finish

BagSpec == BagInit /\ [][BagNext]_bagVars

-----------------------------------------------------------------------------
\* "reading the bag can only be done serially" (Bag.h): what a reader is at is
\* an element, constructed and published.
OnlyElements ==
  AtElement => /\ at.p \in DOMAIN chunks[at.thr]
               /\ at.v < chunks[at.thr][at.p].dend

\* The elements of the threads from .. to - 1.
Elements(from, to) ==
  UNION {{[thr |-> t, p |-> k, v |-> i] : i \in 0 .. chunks[t][k].dend - 1} :
           <<t, k>> \in {x \in (from .. to - 1) \X (1 .. MaxChunks) :
                           x[2] \in DOMAIN chunks[x[1]]}}

\* A reader that reaches the end has been at every element of the threads it
\* was to read, once, and at nothing else; the local ranges of the threads are
\* the bag.
ReadsAllElements ==
  AtEnd => ToSet(got) = Elements(range[1], range[2]) /\ IsInjective(got)
=============================================================================
