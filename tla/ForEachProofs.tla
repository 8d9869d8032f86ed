---------------------------- MODULE ForEachProofs ----------------------------
(***************************************************************************)
(* galois::for_each for any number of threads and sockets, any worklist    *)
(* chunk, any items and any pattern of conflicts: every item is processed  *)
(* exactly once, and the token ring ends the loop only when none is left.  *)
(***************************************************************************)
EXTENDS ForEach, WellFoundedInduction, TLAPS

Working == {"work", "commit", "cancel", "abort"}
Ending == {"term", "prop", "check", "exit"}
Locations == {"init", "barrier", "pop"} \cup Working \cup Ending

\* The types of the worklist's, the ring's and the loop's variables.
WlTypes ==
  /\ machine \in Machines
  /\ cur \in [Threads -> Seq(Items)]
  /\ next \in [Threads -> Seq(Items)]
  /\ Q \in [Sockets -> Seq(Seq(Items))]
  /\ looked \in [Threads -> 0 .. ActiveThreads]

RingTypes ==
  /\ hasToken \in [Threads -> BOOLEAN]
  /\ tokenIsBlack \in [Threads -> BOOLEAN]
  /\ processIsBlack \in [Threads -> BOOLEAN]
  /\ lastWasWhite \in BOOLEAN
  /\ globalTerm \in BOOLEAN
  /\ handing \in [Threads -> {"none", "black", "white", "coloured"}]

LoopTypes ==
  /\ aborted \in [Threads -> Seq(Items \X Nat)]
  /\ pc \in [Threads -> Locations]
  /\ loop \in [Threads -> {"worklist", "aborts"}]
  /\ item \in [Threads -> (Items \X Nat) \cup {<<>>}]
  /\ \A t \in Threads : pc[t] \in Working => item[t] \in Items \X Nat
  /\ pushBuffer \in [Threads -> Seq(Items)]
  /\ num \in [Threads -> Nat]
  /\ didWork \in [Threads -> BOOLEAN]
  /\ held = [t \in Threads |-> held[t]]
  /\ done \subseteq Items

StateTypes == WlTypes /\ RingTypes /\ LoopTypes

\* The parts of the state that a thread's place decides.
PlacesAgree ==
  \A t \in Threads :
    /\ pc[t] \in {"init", "barrier"} => processIsBlack[t]
    /\ pc[t] \in Working => didWork[t]
    /\ pushBuffer[t] # <<>> => pc[t] \in {"init", "commit"}
    /\ handing[t] # "none" <=> pc[t] = "prop"
    /\ pc[t] = "exit" => globalTerm
    /\ num[t] # 0 => didWork[t]

\* A pass over the queues is over when its thread is elsewhere.
LooksAreFresh ==
  \A t \in Threads :
    looked[t] # 0 => pc[t] = "pop" /\ loop[t] = "worklist" /\ ~AtLimit(t)

-----------------------------------------------------------------------------
\* The locks and the chunks.
LocksApart ==
  /\ \A t \in Threads : held[t] # {} => pc[t] \in {"work", "commit", "cancel"}
  /\ \A t, u \in Threads : t # u => held[t] \cap held[u] = {}

ChunksFit ==
  \A t \in Threads : Len(cur[t]) <= ChunkSize /\ Len(next[t]) <= ChunkSize

QueuedFit ==
  \A s \in Sockets : \A c \in Range(Q[s]) : Len(c) <= ChunkSize

-----------------------------------------------------------------------------
\* The token ring.
HasIt(t) == hasToken[t] \/ handing[t] # "none"

OneToken ==
  /\ \E t \in Threads : HasIt(t)
  /\ \A t, u \in Threads : HasIt(t) /\ HasIt(u) => t = u
  /\ \A t \in Threads : ~(hasToken[t] /\ handing[t] # "none")

TokenIsWhite ==
  \A t \in Threads : /\ hasToken[t] => ~tokenIsBlack[t]
                     /\ handing[t] # "black"
                     /\ handing[t] = "coloured" => ~tokenIsBlack[RingNext(t)]

\* The token has been at t since it was last at thread 0.
Visited(t) ==
  \E h \in Threads : \/ handing[h] # "none" /\ t <= h
                     \/ hasToken[h] /\ (t < h \/ h = 0)

\* t has started an iteration since the token was last there.
Worked(t) == processIsBlack[t] \/ (didWork[t] /\ pc[t] \notin {"prop", "check"})

QueuesEmpty == \A s \in Sockets : Q[s] = <<>>
ChunksEmpty(t) == cur[t] = <<>> /\ next[t] = <<>>

\* What t has found empty in its present pass over the worklist and its
\* aborted items still is.
LooksHold(t) ==
  /\ pc[t] = "pop" /\ loop[t] = "worklist" =>
       \A k \in 0 .. looked[t] - 1 : Q[SocketOf[(t + k) % ActiveThreads]] = <<>>
  /\ pc[t] = "pop" /\ loop[t] = "aborts" => ChunksEmpty(t) /\ QueuesEmpty
  /\ pc[t] = "term" => ChunksEmpty(t) /\ QueuesEmpty /\ aborted[t] = <<>>

\* While no thread has worked, those the token has been at have looked since.
FirstRound ==
  TokenIsWhite /\ (\A t \in Threads : ~Worked(t)) =>
    \A t \in Threads : Visited(t) => LooksHold(t) /\ (t # 0 => ~didWork[t])

Clean(t) == ChunksEmpty(t) /\ QueuesEmpty /\ aborted[t] = <<>>

\* In a round after a white one, a thread the token has left again has found
\* nothing, and nobody has worked unless a thread that the token has yet to
\* come to.
SecondRound ==
  /\ lastWasWhite /\ TokenIsWhite
  /\ \A t \in Threads : ~Visited(t) \/ t = 0 => ~Worked(t)
  =>
  /\ \A t \in Threads : ~Worked(t) /\ ~didWork[t] /\ LooksHold(t)
  /\ \A t \in Threads \ {0} : Visited(t) => Clean(t)

\* The end has been announced.
Ended ==
  globalTerm =>
    /\ hasToken[0] /\ pc[0] \in {"check", "exit"}
    /\ \A t \in Threads : ~processIsBlack[t] /\ ~didWork[t] /\ Clean(t)

-----------------------------------------------------------------------------
\* Where items are: in a thread's chunks, its push buffer, its aborted items or
\* its hand, in a socket's queue, or among the finished ones.
FirstsOf(a) == {x[1] : x \in Range(a)}
InAborted(t) == FirstsOf(aborted[t])

Places ==
  ({"cur", "next", "push", "aborted", "hand"} \X Threads)
    \cup ({"queue"} \X Sockets) \cup {<<"done", 0>>}

Contents ==
  [p \in Places |->
     CASE p[1] = "cur" -> Range(cur[p[2]])
       [] p[1] = "next" -> Range(next[p[2]])
       [] p[1] = "push" -> Range(pushBuffer[p[2]])
       [] p[1] = "aborted" -> InAborted(p[2])
       [] p[1] = "hand" -> InHand(p[2])
       [] p[1] = "queue" -> InQueue(p[2])
       [] p[1] = "done" -> done]

\* No item is in two places.
ApartIn(f, P) == \A p, q \in P : p # q => f[p] \cap f[q] = {}
Apart == ApartIn(Contents, Places)

\* No item is twice in one.
Once(c) == IsInjective(c)
AbortedOnce(a) == \A j, k \in DOMAIN a : a[j][1] = a[k][1] => j = k
ChunksOnce(q) ==
  /\ \A k \in DOMAIN q : Once(q[k])
  /\ \A j, k \in DOMAIN q : j # k => Range(q[j]) \cap Range(q[k]) = {}

NoneTwice ==
  /\ \A t \in Threads : /\ Once(cur[t]) /\ Once(next[t]) /\ Once(pushBuffer[t])
                        /\ AbortedOnce(aborted[t])
  /\ \A s \in Sockets : ChunksOnce(Q[s])

\* Items come from the loop's range or from the iteration on a finished one.
Descend ==
  \A p \in Places : \A x \in Contents[p] :
    x \in Range(InitialItems) \/ \E i \in done : x \in Range(Pushes[i])

-----------------------------------------------------------------------------
\* Thread ids are taken modulo their number.
LEMMA ThreadsModulo ==
  ASSUME NEW x \in 0 .. 2 * ActiveThreads - 1
  PROVE  /\ x < ActiveThreads => x % ActiveThreads = x
         /\ x >= ActiveThreads => x % ActiveThreads = x - ActiveThreads
         /\ x % ActiveThreads \in Threads
<1>1. ActiveThreads \in Nat \ {0}
  BY TopologyAssumption
<1>2. x < ActiveThreads => x % ActiveThreads = x
  BY <1>1
<1>3. x >= ActiveThreads => x % ActiveThreads = x - ActiveThreads
  BY <1>1
<1> QED BY <1>1, <1>2, <1>3 DEF Threads

LEMMA RingNextIs ==
  ASSUME NEW t \in Threads
  PROVE  /\ RingNext(t) = IF t = ActiveThreads - 1 THEN 0 ELSE t + 1
         /\ RingNext(t) \in Threads
<1>1. ActiveThreads \in Nat \ {0} /\ t \in 0 .. ActiveThreads - 1
  BY TopologyAssumption DEF Threads
<1>2. PICK x \in 0 .. 2 * ActiveThreads - 1 : x = t + 1
  BY <1>1
<1>3. /\ x < ActiveThreads => x % ActiveThreads = x
      /\ x >= ActiveThreads => x % ActiveThreads = x - ActiveThreads
      /\ x % ActiveThreads \in Threads
  BY ThreadsModulo
<1> QED BY <1>1, <1>2, <1>3 DEF RingNext

LEMMA SocketsOfThreads ==
  ASSUME machine \in Machines
  PROVE  /\ SocketOf \in [Threads -> Nat]
         /\ \A t \in Threads : SocketOf[t] \in Sockets
         /\ Sockets \subseteq Nat
  BY TopologyAssumption DEF SocketOf, Sockets

\* popChunk looks at the queue of some thread's socket.
LEMMA LooksAtAQueue ==
  ASSUME WlTypes, NEW t \in Threads, looked[t] < ActiveThreads
  PROVE  QueueToLookAt(t) \in Sockets
<1>1. ActiveThreads \in Nat /\ t \in 0 .. ActiveThreads - 1 /\ looked[t] \in 0 .. ActiveThreads
  BY TopologyAssumption DEF WlTypes, Threads
<1>2. t + looked[t] \in 0 .. 2 * ActiveThreads - 1
  BY <1>1
<1> QED BY <1>2, ThreadsModulo, SocketsOfThreads DEF QueueToLookAt, WlTypes

\* The sockets of all threads are those of the threads from any one on.
LEMMA LooksReachAll ==
  ASSUME NEW t \in Threads,
         \A k \in 0 .. ActiveThreads - 1 : Q[SocketOf[(t + k) % ActiveThreads]] = <<>>
  PROVE  QueuesEmpty
<1> SUFFICES ASSUME NEW u \in Threads PROVE Q[SocketOf[u]] = <<>>
  BY DEF QueuesEmpty, Sockets
<1>1. ActiveThreads \in Nat /\ t \in 0 .. ActiveThreads - 1 /\ u \in 0 .. ActiveThreads - 1
  BY TopologyAssumption DEF Threads
<1> DEFINE k == IF u >= t THEN u - t ELSE u - t + ActiveThreads
<1>2. k \in 0 .. ActiveThreads - 1
  BY <1>1
<1>3. PICK x \in 0 .. 2 * ActiveThreads - 1 : x = t + k
  BY <1>1, <1>2
<1>4. /\ x < ActiveThreads => x % ActiveThreads = x
      /\ x >= ActiveThreads => x % ActiveThreads = x - ActiveThreads
  BY ThreadsModulo
<1>5. x % ActiveThreads = u
  BY <1>1, <1>3, <1>4
<1> HIDE DEF k
<1> QED BY <1>2, <1>3, <1>5

-----------------------------------------------------------------------------
\* Parts of a sequence, and its set.
LEMMA HeadAndTail ==
  ASSUME NEW S, NEW s \in Seq(S), s # <<>>
  PROVE  /\ Len(s) \in Nat \ {0} /\ Head(s) \in S /\ Head(s) = s[1]
         /\ Tail(s) \in Seq(S) /\ Len(Tail(s)) = Len(s) - 1
         /\ \A i \in 1 .. Len(Tail(s)) : Tail(s)[i] = s[i + 1]
  OBVIOUS

LEMMA SubSeqIs ==
  ASSUME NEW S, NEW s \in Seq(S), NEW a \in 1 .. Len(s) + 1, NEW b \in 0 .. Len(s)
  PROVE  /\ SubSeq(s, a, b) \in Seq(S)
         /\ Len(SubSeq(s, a, b)) = IF a <= b THEN b - a + 1 ELSE 0
         /\ \A i \in 1 .. b - a + 1 : SubSeq(s, a, b)[i] = s[a + i - 1]
  OBVIOUS

LEMMA SetOfEmpty == Range(<<>>) = {}
  BY DEF Range

LEMMA SetOfAppend ==
  ASSUME NEW S, NEW s \in Seq(S), NEW x \in S
  PROVE  Range(Append(s, x)) = Range(s) \cup {x}
<1>1. DOMAIN Append(s, x) = 1 .. Len(s) + 1
  OBVIOUS
<1>2. \A i \in 1 .. Len(s) : Append(s, x)[i] = s[i]
  OBVIOUS
<1>3. Append(s, x)[Len(s) + 1] = x
  OBVIOUS
<1>4. Len(s) \in Nat /\ DOMAIN s = 1 .. Len(s)
  OBVIOUS
<1> QED BY <1>1, <1>2, <1>3, <1>4 DEF Range

LEMMA SetOfHeadTail ==
  ASSUME NEW S, NEW s \in Seq(S), s # <<>>
  PROVE  /\ Range(s) = Range(Tail(s)) \cup {Head(s)}
         /\ Head(s) \in S /\ Tail(s) \in Seq(S)
<1>1. Tail(s) \in Seq(S) /\ Len(Tail(s)) = Len(s) - 1 /\ Len(s) \in Nat \ {0} /\ Head(s) = s[1]
  BY HeadAndTail
<1>2. \A i \in 1 .. Len(s) - 1 : Tail(s)[i] = s[i + 1]
  BY HeadAndTail, <1>1
<1>3. DOMAIN s = 1 .. Len(s) /\ DOMAIN Tail(s) = 1 .. Len(s) - 1
  BY <1>1
<1>4. ASSUME NEW x \in Range(s) PROVE x \in Range(Tail(s)) \cup {Head(s)}
  <2>1. PICK i \in 1 .. Len(s) : x = s[i]
    BY <1>3, <1>4 DEF Range
  <2>2. CASE i = 1
    BY <1>1, <2>1, <2>2
  <2>3. CASE i # 1
    <3>1. i - 1 \in 1 .. Len(s) - 1 /\ (i - 1) + 1 = i
      BY <1>1, <2>1, <2>3
    <3>2. Tail(s)[i - 1] = x
      BY <1>2, <2>1, <3>1
    <3> QED BY <1>3, <3>1, <3>2, ZenonT(30) DEF Range
  <2> QED BY <2>2, <2>3
<1>5. Range(Tail(s)) \subseteq Range(s)
  BY <1>1, <1>2, <1>3 DEF Range
<1>6. Head(s) \in Range(s)
  BY <1>1, <1>3 DEF Range
<1> QED BY <1>1, <1>4, <1>5, <1>6, HeadAndTail

LEMMA SetOfSeq ==
  ASSUME NEW S, NEW s \in Seq(S)
  PROVE  Range(s) \subseteq S /\ (Range(s) = {} <=> s = <<>>)
<1>1. DOMAIN s = 1 .. Len(s) /\ Len(s) \in Nat /\ \A i \in 1 .. Len(s) : s[i] \in S
  OBVIOUS
<1>2. s # <<>> => 1 \in DOMAIN s
  BY <1>1, HeadAndTail
<1> QED BY <1>1, <1>2, SetOfEmpty, ZenonT(30) DEF Range

-----------------------------------------------------------------------------
\* A set of natural numbers has a least element.
LEMMA LeastElement ==
  ASSUME NEW S \in SUBSET Nat, S # {}
  PROVE  \E m \in S : \A n \in S : m <= n
<1> DEFINE R == {p \in Nat \X Nat : p[1] < p[2]}
<1>1. R = OpToRel(<, Nat)
  BY DEF OpToRel
<1>2. IsWellFoundedOn(R, Nat)
  BY <1>1, NatLessThanWellFounded, ZenonT(30)
<1> HIDE DEF R
<1>3. PICK m \in S : \A n \in S : ~(<<n, m>> \in R)
  BY <1>2, WFMin, ZenonT(30)
<1>4. ASSUME NEW n \in S PROVE m <= n
  <2>1. n < m => <<n, m>> \in R
    BY DEF R
  <2> QED BY <1>3, <2>1
<1> QED BY <1>4

\* A socket on which a thread runs has a leader.
LEMMA LeaderOfSocket ==
  ASSUME machine \in Machines, NEW t \in Threads
  PROVE  LET l == GetLeaderForSocket(SocketOf[t]) IN
         l \in Threads /\ SocketOf[l] = SocketOf[t] /\ l <= t
<1> DEFINE S == {u \in Threads : SocketOf[u] = SocketOf[t]}
<1>1. S \in SUBSET Nat /\ t \in S
  BY TopologyAssumption DEF Threads
<1>2. PICK m \in S : \A n \in S : m <= n
  BY <1>1, LeastElement, ZenonT(30)
<1> QED BY <1>1, <1>2 DEF GetLeaderForSocket

\* The abort policies name one of the loop's threads.
LEMMA PolicyNamesAThread ==
  ASSUME machine \in Machines, NEW t \in Threads, NEW retries \in Nat
  PROVE  AbortPolicy(t, retries) \in Threads
<1>1. ActiveThreads \in Nat /\ t \in 0 .. ActiveThreads - 1 /\ SocketOf[t] \in Nat
  BY TopologyAssumption, SocketsOfThreads DEF Threads
<1>2. GetLeaderForSocket(SocketOf[t] \div 2) \in Threads
  <2>1. SocketOf[t] \div 2 \in 0 .. SocketOf[t]
    BY <1>1
  <2>2. PICK u \in 0 .. t : SocketOf[u] = SocketOf[t] \div 2
    BY <2>1, TopologyAssumption DEF SocketOf
  <2>3. u \in Threads
    BY <1>1, <2>2 DEF Threads
  <2> QED BY <2>2, <2>3, LeaderOfSocket
<1>3. GetLeader(t) \in Threads /\ GetLeader(t) <= t
  BY LeaderOfSocket DEF GetLeader
<1>4. GetLeader(t) + (t - GetLeader(t)) \div 2 \in Threads
  <2>1. PICK l \in 0 .. t : l = GetLeader(t)
    BY <1>1, <1>3 DEF Threads
  <2>2. PICK d \in Nat : d = t - l
    BY <1>1, <2>1
  <2>3. d \div 2 \in 0 .. d
    BY <2>2
  <2>4. l + d \div 2 \in 0 .. t
    BY <1>1, <2>1, <2>2, <2>3
  <2> QED BY <1>1, <2>1, <2>2, <2>4 DEF Threads
<1> QED BY <1>2, <1>4 DEF AbortPolicy, BasicPolicy, DoublePolicy

\* The worklist's operations keep its types.
LEMMA WlSteps ==
  ASSUME WlTypes, NEW t \in Threads, UNCHANGED machine,
         \/ UNCHANGED wlVars
         \/ \E x \in Items : Emplace(t, x)
         \/ \E x : ExtractFront(t, x)
         \/ Search(t)
         \/ PopNothing(t)
  PROVE  WlTypes'
<1>0. UNCHANGED Sockets /\ SocketOf[t] \in Sockets /\ ActiveThreads \in Nat
  BY SocketsOfThreads, TopologyAssumption DEF Sockets, SocketOf, WlTypes
<1>1. CASE UNCHANGED wlVars
  BY <1>0, <1>1 DEF wlVars, WlTypes
<1>2. ASSUME NEW x \in Items, Emplace(t, x) PROVE WlTypes'
  <2>1. Append(next[t], x) \in Seq(Items) /\ <<x>> \in Seq(Items)
    BY DEF WlTypes
  <2>2. Append(Q[SocketOf[t]], next[t]) \in Seq(Seq(Items))
    BY <1>0 DEF WlTypes
  <2> QED BY <1>0, <1>2, <2>1, <2>2, ZenonT(30) DEF Emplace, WlTypes
<1>3. ASSUME NEW x, ExtractFront(t, x) PROVE WlTypes'
  <2>1. cur[t] # <<>> => Tail(cur[t]) \in Seq(Items)
    BY HeadAndTail DEF WlTypes
  <2> QED BY <1>0, <1>3, <2>1 DEF ExtractFront, WlTypes
<1>4. CASE PopChunk(t)
  <2>1. QueueToLookAt(t) \in Sockets
    BY <1>4, LooksAtAQueue DEF PopChunk
  <2>2. /\ Head(Q[QueueToLookAt(t)]) \in Seq(Items)
        /\ Tail(Q[QueueToLookAt(t)]) \in Seq(Seq(Items))
    BY <1>4, <2>1, HeadAndTail DEF PopChunk, WlTypes
  <2> QED BY <1>0, <1>4, <2>1, <2>2 DEF PopChunk, WlTypes
<1>5. CASE FindEmpty(t)
  BY <1>0, <1>5 DEF FindEmpty, WlTypes
<1>6. CASE TakeNext(t)
  BY <1>0, <1>6 DEF TakeNext, WlTypes
<1>7. CASE PopNothing(t)
  BY <1>0, <1>7 DEF PopNothing, WlTypes
<1> QED BY <1>1, <1>2, <1>3, <1>4, <1>5, <1>6, <1>7 DEF Search

\* So do the token's.
LEMMA RingSteps ==
  ASSUME RingTypes, NEW t \in Threads,
         \/ UNCHANGED termVars
         \/ \E work \in BOOLEAN : LocalTermination(t, work)
         \/ PropColour(t)
         \/ PropToken(t)
  PROVE  RingTypes'
<1> USE DEF RingTypes
<1>1. CASE UNCHANGED termVars
  BY <1>1 DEF termVars
<1>2. ASSUME NEW work \in BOOLEAN, LocalTermination(t, work) PROVE RingTypes'
  BY <1>2, ZenonT(30) DEF LocalTermination, HandleToken, Colour
<1>3. CASE PropColour(t)
  BY <1>3, RingNextIs DEF PropColour
<1>4. CASE PropToken(t)
  BY <1>4, RingNextIs DEF PropToken
<1> QED BY <1>1, <1>2, <1>3, <1>4

\* So do all steps.
LEMMA TypesStep == StateTypes /\ [Next]_vars => StateTypes'
<1> SUFFICES ASSUME StateTypes, [Next]_vars PROVE StateTypes'
  OBVIOUS
<1> USE DEF StateTypes
<1>1. CASE UNCHANGED vars
  <2>1. UNCHANGED <<machine, wlVars, termVars>>
    BY <1>1 DEF vars
  <2>2. WlTypes'
    <3>1. 0 \in Threads
      BY TopologyAssumption DEF Threads
    <3> QED BY <2>1, <3>1, WlSteps
  <2>3. RingTypes'
    BY <2>1 DEF RingTypes, termVars
  <2>4. LoopTypes'
    BY <1>1 DEF vars, execVars, iterVars, LoopTypes
  <2> QED BY <2>2, <2>3, <2>4
<1>2. ASSUME NEW t \in Threads, Go(t) PROVE StateTypes'
  <2> USE DEF LoopTypes, Goto, iterVars, Locations, Working, Ending
  <2>0. UNCHANGED machine /\ machine \in Machines
    BY <1>2 DEF Go, WlTypes
  <2>1. CASE PushOne(t)
    <3>1. Head(pushBuffer[t]) \in Items /\ Tail(pushBuffer[t]) \in Seq(Items)
      BY <2>1, SetOfHeadTail DEF PushOne
    <3>2. WlTypes'
      BY <2>0, <2>1, <3>1, WlSteps DEF PushOne
    <3>3. RingTypes'
      BY <2>1, RingSteps DEF PushOne
    <3>4. LoopTypes'
      BY <2>1, <3>1 DEF PushOne
    <3> QED BY <3>2, <3>3, <3>4
  <2>2. CASE PopItem(t)
    <3>1. PICK x \in Range(cur[t]) : ExtractFront(t, x) /\ StartIteration(t, <<x, 0>>)
      BY <2>2, ZenonT(30) DEF PopItem
    <3>2. <<x, 0>> \in Items \X Nat
      BY SetOfSeq DEF WlTypes
    <3>3. WlTypes'
      BY <2>0, <3>1, WlSteps
    <3>4. RingTypes'
      BY <2>2, RingSteps DEF PopItem
    <3>5. LoopTypes'
      BY <2>2, <3>1, <3>2 DEF PopItem, StartIteration
    <3> QED BY <3>3, <3>4, <3>5
  <2>3. CASE SearchWorklist(t)
    <3>1. WlTypes' /\ RingTypes'
      BY <2>0, <2>3, WlSteps, RingSteps DEF SearchWorklist
    <3>2. LoopTypes'
      BY <2>3 DEF SearchWorklist, execVars
    <3> QED BY <3>1, <3>2
  <2>4. CASE LeaveWorklist(t)
    <3>1. WlTypes' /\ RingTypes'
      BY <2>0, <2>4, WlSteps, RingSteps DEF LeaveWorklist
    <3>2. LoopTypes'
      BY <2>4 DEF LeaveWorklist
    <3> QED BY <3>1, <3>2
  <2>5. CASE PopAborted(t)
    <3>1. Head(aborted[t]) \in Items \X Nat /\ Tail(aborted[t]) \in Seq(Items \X Nat)
      BY <2>5, SetOfHeadTail DEF PopAborted
    <3>2. WlTypes' /\ RingTypes'
      BY <2>0, <2>5, WlSteps, RingSteps DEF PopAborted
    <3>3. LoopTypes'
      BY <2>5, <3>1 DEF PopAborted, StartIteration
    <3> QED BY <3>2, <3>3
  <2>6. CASE PushAborted(t)
    <3> DEFINE retries == NextRetries(item[t][2])
               u == AbortPolicy(t, retries)
    <3>1. item[t][1] \in Items /\ item[t][2] \in Nat
      BY <2>6 DEF PushAborted
    <3>2. retries \in Nat
      BY <3>1 DEF NextRetries
    <3>3. u \in Threads
      BY <2>0, <3>2, PolicyNamesAThread
    <3> HIDE DEF retries, u
    <3>4. Append(aborted[u], <<item[t][1], retries>>) \in Seq(Items \X Nat)
      BY <3>1, <3>2, <3>3
    <3>5. WlTypes' /\ RingTypes'
      BY <2>0, <2>6, WlSteps, RingSteps DEF PushAborted
    <3>6. aborted' = [aborted EXCEPT ![u] = Append(@, <<item[t][1], retries>>)]
      BY <2>6 DEF PushAborted, retries, u
    <3>7. aborted' \in [Threads -> Seq(Items \X Nat)]
      BY <3>3, <3>4, <3>6
    <3>8. LoopTypes'
      BY <2>6, <3>7 DEF PushAborted
    <3> QED BY <3>5, <3>8
  <2>7. CASE Terminate(t)
    <3>1. RingTypes'
      BY <2>7, RingSteps DEF Terminate
    <3>2. WlTypes'
      BY <2>0, <2>7, WlSteps DEF Terminate
    <3>3. LoopTypes'
      BY <2>7 DEF Terminate
    <3> QED BY <3>1, <3>2, <3>3
  <2>8. CASE Propagate(t)
    <3>1. WlTypes' /\ RingTypes'
      BY <2>0, <2>8, WlSteps, RingSteps DEF Propagate
    <3>2. LoopTypes'
      BY <2>8 DEF Propagate
    <3> QED BY <3>1, <3>2
  <2>9. CASE \/ ArriveAtBarrier(t) \/ LeaveBarrier(t) \/ LeaveAborts(t) \/ Acquire(t)
             \/ Return(t) \/ Commit(t) \/ Conflict(t) \/ CancelIteration(t)
             \/ CheckTermination(t)
    <3>1. UNCHANGED <<wlVars, termVars>>
      BY <2>9 DEF ArriveAtBarrier, LeaveBarrier, LeaveAborts, Acquire, Return, Commit,
                  Conflict, CancelIteration, CheckTermination
    <3>2. WlTypes' /\ RingTypes'
      BY <2>0, <3>1, WlSteps, RingSteps
    <3>3. CASE ArriveAtBarrier(t) \/ LeaveBarrier(t) \/ LeaveAborts(t)
      BY <3>2, <3>3, ZenonT(30) DEF ArriveAtBarrier, LeaveBarrier, LeaveAborts
    <3>4. CASE Acquire(t)
      BY <3>2, <3>4, ZenonT(30) DEF Acquire
    <3>5. CASE Return(t)
      BY <3>2, <3>5, ForEachAssumption DEF Return
    <3>6. CASE Commit(t)
      BY <3>2, <3>6, ZenonT(30) DEF Commit
    <3>7. CASE Conflict(t) \/ CancelIteration(t)
      BY <3>2, <3>7, ZenonT(30) DEF Conflict, CancelIteration
    <3>8. CASE CheckTermination(t)
      BY <3>2, <3>8 DEF CheckTermination
    <3> QED BY <2>9, <3>3, <3>4, <3>5, <3>6, <3>7, <3>8, ZenonT(30)
  <2> QED BY <1>2, <2>1, <2>2, <2>3, <2>4, <2>5, <2>6, <2>7, <2>8, <2>9, ZenonT(30) DEF Go, Step
<1> QED BY <1>1, <1>2 DEF Next

-----------------------------------------------------------------------------
\* What a thread's place decides.
LEMMA PlacesStep == StateTypes /\ PlacesAgree /\ [Next]_vars => PlacesAgree'
<1> SUFFICES ASSUME StateTypes, PlacesAgree, [Next]_vars PROVE PlacesAgree'
  OBVIOUS
<1> USE DEF PlacesAgree
<1>1. CASE UNCHANGED vars
  BY <1>1 DEF vars, termVars, execVars
<1>2. ASSUME NEW t \in Threads, Go(t) PROVE PlacesAgree'
  <2> USE DEF StateTypes, LoopTypes, RingTypes, Goto, Working
  <2>1. CASE PushOne(t)
    BY <2>1 DEF PushOne, termVars
  <2>2. CASE PopItem(t)
    BY <2>2 DEF PopItem, StartIteration, termVars
  <2>3. CASE SearchWorklist(t)
    BY <2>3 DEF SearchWorklist, termVars, execVars
  <2>4. CASE LeaveWorklist(t)
    BY <2>4 DEF LeaveWorklist, termVars
  <2>5. CASE PopAborted(t)
    BY <2>5 DEF PopAborted, StartIteration, termVars
  <2>6. CASE PushAborted(t)
    BY <2>6 DEF PushAborted, termVars
  <2>7. CASE Terminate(t)
    <3>1. \A u \in Threads : /\ u # t => processIsBlack'[u] = processIsBlack[u]
                             /\ u # t => handing'[u] = handing[u]
                             /\ globalTerm => globalTerm'
      BY <2>7 DEF Terminate, LocalTermination, HandleToken
    <3> QED BY <2>7, <3>1 DEF Terminate
  <2>8. CASE Propagate(t)
    <3>1. UNCHANGED <<processIsBlack, globalTerm>>
      BY <2>8 DEF Propagate, PropColour, PropToken
    <3>2. \A u \in Threads : u # t => handing'[u] = handing[u]
      BY <2>8 DEF Propagate, PropColour, PropToken
    <3> QED BY <2>8, <3>1, <3>2 DEF Propagate
  <2>9. CASE ArriveAtBarrier(t) \/ LeaveBarrier(t)
    BY <2>9 DEF ArriveAtBarrier, LeaveBarrier, termVars
  <2>10. CASE LeaveAborts(t)
    BY <2>10 DEF LeaveAborts, termVars
  <2>11. CASE Acquire(t)
    BY <2>11 DEF Acquire, termVars
  <2>12. CASE Return(t)
    BY <2>12 DEF Return, termVars
  <2>13. CASE Commit(t)
    BY <2>13 DEF Commit, termVars
  <2>14. CASE Conflict(t) \/ CancelIteration(t)
    BY <2>14 DEF Conflict, CancelIteration, termVars
  <2>15. CASE CheckTermination(t)
    BY <2>15 DEF CheckTermination, termVars
  <2> QED BY <1>2, <2>1, <2>2, <2>3, <2>4, <2>5, <2>6, <2>7, <2>8, <2>9, <2>10, <2>11,
             <2>12, <2>13, <2>14, <2>15, ZenonT(30) DEF Go, Step
<1> QED BY <1>1, <1>2 DEF Next

\* An iteration acquires a lock that no other holds, and gives up all its
\* locks before it leaves the operator's part of the loop.
LEMMA LocksStep == StateTypes /\ LocksApart /\ [Next]_vars => LocksApart'
<1> SUFFICES ASSUME StateTypes, LocksApart, [Next]_vars PROVE LocksApart'
  OBVIOUS
<1> USE DEF LocksApart
<1>1. CASE UNCHANGED vars
  BY <1>1 DEF vars, execVars, iterVars
<1>2. ASSUME NEW t \in Threads, Go(t) PROVE LocksApart'
  <2> USE DEF StateTypes, LoopTypes, Goto, iterVars
  <2>1. CASE UNCHANGED <<pc, held>>
    BY <2>1
  <2>2. CASE Acquire(t)
    <3>1. pc[t] = "work" /\ UNCHANGED pc
      BY <2>2 DEF Acquire
    <3>2. \A u \in Threads \ {t} : held'[u] = held[u] /\ Wanted(t) \notin held[u]
      BY <2>2 DEF Acquire, Owned
    <3>3. held'[t] = held[t] \cup {Wanted(t)}
      BY <2>2 DEF Acquire
    <3>4. ASSUME NEW u \in Threads \ {t} PROVE held'[t] \cap held'[u] = {}
      <4>1. held[t] \cap held[u] = {}
        OBVIOUS
      <4> QED BY <3>2, <3>3, <4>1, Zenon
    <3>5. \A u, v \in Threads \ {t} : u # v => held'[u] \cap held'[v] = {}
      BY <3>2
    <3>6. \A u, v \in Threads : u # v => held'[u] \cap held'[v] = {}
      BY <3>4, <3>5, ZenonT(30)
    <3>7. \A u \in Threads : held'[u] # {} => pc'[u] \in {"work", "commit", "cancel"}
      BY <3>1, <3>2, ZenonT(30)
    <3> QED BY <3>6, <3>7
  <2>3. CASE Commit(t)
    BY <2>3 DEF Commit
  <2>4. CASE CancelIteration(t)
    BY <2>4 DEF CancelIteration
  <2>5. CASE Return(t) \/ Conflict(t)
    BY <2>5, ZenonT(30) DEF Return, Conflict
  <2>6. CASE /\ UNCHANGED held
             /\ pc[t] \notin {"work", "commit", "cancel"}
             /\ \E place \in Locations : Goto(t, place)
    BY <2>6
  <2>7. PushOne(t) \/ SearchWorklist(t) \/ LeaveWorklist(t) => UNCHANGED <<pc, held>>
    BY DEF PushOne, SearchWorklist, LeaveWorklist, execVars
  <2>8. \/ ArriveAtBarrier(t) \/ LeaveBarrier(t) \/ LeaveAborts(t) \/ PopItem(t)
        \/ PopAborted(t) \/ PushAborted(t) \/ Terminate(t) \/ Propagate(t)
        \/ CheckTermination(t)
        => /\ UNCHANGED held
           /\ pc[t] \notin {"work", "commit", "cancel"}
           /\ \E place \in Locations : Goto(t, place)
    BY DEF ArriveAtBarrier, LeaveBarrier, LeaveAborts, PopItem, PopAborted, PushAborted,
           StartIteration, Terminate, Propagate, CheckTermination, Locations, Working,
           Ending
  <2> QED BY <1>2, <2>1, <2>2, <2>3, <2>4, <2>5, <2>6, <2>7, <2>8, ZenonT(30) DEF Go, Step
<1> QED BY <1>1, <1>2 DEF Next

-----------------------------------------------------------------------------
\* The worklist's operations keep chunks within their size.
LEMMA ChunksStep ==
  ASSUME WlTypes, ChunksFit, QueuedFit, NEW t \in Threads, UNCHANGED machine,
         \/ UNCHANGED wlVars
         \/ \E x \in Items : Emplace(t, x)
         \/ \E x : ExtractFront(t, x)
         \/ Search(t)
         \/ PopNothing(t)
  PROVE  ChunksFit' /\ QueuedFit'
<1> USE DEF WlTypes
<1>0. UNCHANGED Sockets /\ SocketOf[t] \in Sockets /\ ChunkSize \in Nat \ {0}
  BY SocketsOfThreads, ChunkSizeAssumption DEF Sockets, SocketOf
<1>1. CASE UNCHANGED wlVars \/ PopNothing(t) \/ FindEmpty(t)
  BY <1>0, <1>1 DEF wlVars, PopNothing, FindEmpty, ChunksFit, QueuedFit
<1>2. ASSUME NEW x \in Items, Emplace(t, x) PROVE ChunksFit' /\ QueuedFit'
  <2>1. CASE Len(next[t]) < ChunkSize
    <3>1. Len(Append(next[t], x)) = Len(next[t]) + 1 /\ Len(next[t]) \in Nat
      OBVIOUS
    <3>2. UNCHANGED <<cur, Q>> /\ next' = [next EXCEPT ![t] = Append(@, x)]
      BY <1>0, <1>2, <2>1 DEF Emplace
    <3>3. \A u \in Threads : Len(next'[u]) <= ChunkSize
      <4>1. \A u \in Threads : u # t => next'[u] = next[u]
        BY <3>2
      <4>2. next'[t] = Append(next[t], x)
        BY <3>2
      <4>3. Len(next'[t]) <= ChunkSize
        BY <1>0, <2>1, <3>1, <4>2
      <4> QED BY <4>1, <4>3, ZenonT(30) DEF ChunksFit
    <3> QED BY <1>0, <3>2, <3>3 DEF ChunksFit, QueuedFit
  <2>2. CASE Len(next[t]) = ChunkSize
    <3>1. Range(Append(Q[SocketOf[t]], next[t])) = Range(Q[SocketOf[t]]) \cup {next[t]}
      BY <1>0, SetOfAppend
    <3>2. /\ Q' = [Q EXCEPT ![SocketOf[t]] = Append(@, next[t])]
          /\ next' = [next EXCEPT ![t] = <<x>>]
          /\ UNCHANGED cur
      BY <1>0, <1>2, <2>2 DEF Emplace
    <3>3. ASSUME NEW s \in Sockets, NEW c \in Range(Q'[s]) PROVE Len(c) <= ChunkSize
      <4>1. c \in Range(Q[s]) \/ c = next[t]
        BY <1>0, <3>1, <3>2
      <4> QED BY <1>0, <2>2, <4>1 DEF QueuedFit
    <3>4. \A u \in Threads : u # t => next'[u] = next[u]
      BY <3>2
    <3>5. next'[t] = <<x>> /\ Len(<<x>>) = 1
      BY <3>2
    <3> QED BY <1>0, <3>2, <3>3, <3>4, <3>5 DEF ChunksFit, QueuedFit
  <2> QED BY <1>2, <2>1, <2>2 DEF Emplace
<1>3. ASSUME NEW x, ExtractFront(t, x) PROVE ChunksFit' /\ QueuedFit'
  <2>1. Len(Tail(cur[t])) = Len(cur[t]) - 1 /\ Len(cur[t]) \in Nat
    BY <1>3, HeadAndTail DEF ExtractFront
  <2> QED BY <1>0, <1>3, <2>1 DEF ExtractFront, ChunksFit, QueuedFit
<1>4. CASE PopChunk(t)
  <2>1. QueueToLookAt(t) \in Sockets /\ Q[QueueToLookAt(t)] # <<>>
    BY <1>4, LooksAtAQueue DEF PopChunk
  <2>2. Range(Q[QueueToLookAt(t)]) =
          Range(Tail(Q[QueueToLookAt(t)])) \cup {Head(Q[QueueToLookAt(t)])}
    BY <2>1, SetOfHeadTail
  <2>3. QueuedFit'
    BY <1>0, <1>4, <2>1, <2>2 DEF PopChunk, QueuedFit
  <2>4. Len(Head(Q[QueueToLookAt(t)])) <= ChunkSize
    BY <2>1, <2>2 DEF QueuedFit
  <2>5. ChunksFit'
    BY <1>4, <2>4 DEF PopChunk, ChunksFit
  <2> QED BY <2>3, <2>5
<1>5. CASE TakeNext(t)
  <2>1. Len(<<>>) = 0
    OBVIOUS
  <2> QED BY <1>0, <1>5, <2>1 DEF TakeNext, ChunksFit, QueuedFit
<1> QED BY <1>1, <1>2, <1>3, <1>4, <1>5 DEF Search

-----------------------------------------------------------------------------
\* The token passes from a thread to the next and is never doubled or lost.
LEMMA TokenStep ==
  ASSUME RingTypes, OneToken, NEW t \in Threads,
         \/ UNCHANGED termVars
         \/ \E work \in BOOLEAN : LocalTermination(t, work)
         \/ PropColour(t)
         \/ PropToken(t)
  PROVE  OneToken'
<1> USE DEF RingTypes
<1>1. CASE UNCHANGED termVars
  BY <1>1 DEF termVars, OneToken, HasIt
<1>2. ASSUME NEW work \in BOOLEAN, LocalTermination(t, work) PROVE OneToken'
  <2>1. CASE UNCHANGED <<hasToken, handing>>
    BY <2>1 DEF OneToken, HasIt
  <2>2. CASE /\ hasToken[t]
             /\ hasToken' = [hasToken EXCEPT ![t] = FALSE]
             /\ \E black \in BOOLEAN : handing' = [handing EXCEPT ![t] = Colour(black)]
    <3>1. \A u \in Threads : u # t => hasToken'[u] = hasToken[u] /\ handing'[u] = handing[u]
      BY <2>2
    <3>2. ~hasToken'[t] /\ handing'[t] # "none" /\ HasIt(t)
      BY <2>2 DEF Colour, HasIt
    <3>3. \A u \in Threads : HasIt(u)' <=> HasIt(u)
      BY <3>1, <3>2 DEF HasIt
    <3> QED BY <3>1, <3>2, <3>3 DEF OneToken
  <2> QED BY <1>2, <2>1, <2>2, ZenonT(30) DEF LocalTermination, HandleToken
<1>3. CASE PropColour(t)
  <2>1. UNCHANGED hasToken /\ \A u \in Threads : handing'[u] # "none" <=> handing[u] # "none"
    BY <1>3 DEF PropColour
  <2> QED BY <2>1 DEF OneToken, HasIt
<1>4. CASE PropToken(t)
  <2>1. HasIt(t)
    BY <1>4 DEF PropToken, HasIt
  <2>2. \A u \in Threads : HasIt(u) => u = t
    BY <2>1 DEF OneToken
  <2>3. RingNext(t) \in Threads
    BY RingNextIs
  <2>4. /\ hasToken' = [hasToken EXCEPT ![RingNext(t)] = TRUE]
        /\ handing' = [handing EXCEPT ![t] = "none"]
        /\ ~hasToken[t]
    BY <1>4 DEF PropToken, OneToken
  <2>5. hasToken'[RingNext(t)]
    BY <2>3, <2>4
  <2>6. \A u \in Threads : handing'[u] = "none"
    BY <2>2, <2>4 DEF HasIt
  <2>7. \A u \in Threads : hasToken'[u] => u = RingNext(t)
    BY <2>2, <2>4 DEF HasIt
  <2> QED BY <2>3, <2>5, <2>6, <2>7 DEF OneToken, HasIt
<1> QED BY <1>1, <1>2, <1>3, <1>4

-----------------------------------------------------------------------------
\* A thread's step leaves the others where they are.
LEMMA OthersStay ==
  ASSUME StateTypes, NEW t \in Threads, Step(t), NEW u \in Threads \ {t}
  PROVE  /\ UNCHANGED <<pc[u], loop[u], num[u], didWork[u]>>
         /\ UNCHANGED <<cur[u], next[u], looked[u]>>
<1> USE DEF StateTypes, WlTypes, LoopTypes, Goto
<1>1. UNCHANGED <<pc[u], loop[u], num[u], didWork[u]>>
  <2>1. CASE PushOne(t) \/ SearchWorklist(t)
    BY <2>1 DEF PushOne, SearchWorklist, execVars
  <2>2. CASE ArriveAtBarrier(t) \/ LeaveBarrier(t) \/ LeaveAborts(t) \/ LeaveWorklist(t)
    BY <2>2 DEF ArriveAtBarrier, LeaveBarrier, LeaveAborts, LeaveWorklist
  <2>3. CASE PopItem(t) \/ PopAborted(t)
    BY <2>3 DEF PopItem, PopAborted, StartIteration
  <2>4. CASE Acquire(t) \/ Return(t) \/ Commit(t) \/ Conflict(t) \/ CancelIteration(t)
    BY <2>4 DEF Acquire, Return, Commit, Conflict, CancelIteration
  <2>5. CASE PushAborted(t)
    BY <2>5 DEF PushAborted
  <2>6. CASE Terminate(t) \/ Propagate(t) \/ CheckTermination(t)
    BY <2>6 DEF Terminate, Propagate, CheckTermination
  <2> QED BY <2>1, <2>2, <2>3, <2>4, <2>5, <2>6 DEF Step
<1>2. UNCHANGED <<cur[u], next[u], looked[u]>>
  <2>1. CASE UNCHANGED wlVars
    BY <2>1 DEF wlVars
  <2>2. CASE PushOne(t)
    BY <2>2 DEF PushOne, Emplace
  <2>3. CASE PopItem(t)
    BY <2>3 DEF PopItem, ExtractFront
  <2>4. CASE SearchWorklist(t)
    BY <2>4 DEF SearchWorklist, Search, PopChunk, FindEmpty, TakeNext
  <2>5. CASE LeaveWorklist(t)
    BY <2>1, <2>5 DEF LeaveWorklist, PopNothing
  <2>6. \/ ArriveAtBarrier(t) \/ LeaveBarrier(t) \/ PopAborted(t) \/ LeaveAborts(t)
        \/ Acquire(t) \/ Return(t) \/ Commit(t) \/ Conflict(t) \/ CancelIteration(t)
        \/ PushAborted(t) \/ Terminate(t) \/ Propagate(t) \/ CheckTermination(t)
        => UNCHANGED wlVars
    BY DEF ArriveAtBarrier, LeaveBarrier, PopAborted, LeaveAborts, Acquire, Return,
           Commit, Conflict, CancelIteration, PushAborted, Terminate, Propagate,
           CheckTermination
  <2> QED BY <2>1, <2>2, <2>3, <2>4, <2>5, <2>6 DEF Step
<1> QED BY <1>1, <1>2

\* A thread that leaves the worklist has ended its pass over the queues.
LEMMA FreshStep == StateTypes /\ LooksAreFresh /\ [Next]_vars => LooksAreFresh'
<1> SUFFICES ASSUME StateTypes, LooksAreFresh, [Next]_vars PROVE LooksAreFresh'
  OBVIOUS
<1> USE DEF StateTypes, WlTypes, LoopTypes
<1>1. CASE UNCHANGED vars
  BY <1>1, SMTT(30) DEF vars, wlVars, execVars, LooksAreFresh, AtLimit, IsLeader, GetLeader,
              GetLeaderForSocket, SocketOf
<1>2. ASSUME NEW t \in Threads, Go(t) PROVE LooksAreFresh'
  <2>0. \A u \in Threads : IsLeader(u)' <=> IsLeader(u)
    BY <1>2 DEF Go, IsLeader, GetLeader, GetLeaderForSocket, SocketOf
  <2>1. ASSUME \A u \in Threads \ {t} : UNCHANGED <<looked[u], pc[u], loop[u], num[u]>>
        PROVE  LooksAreFresh'
    <3> SUFFICES looked'[t] # 0 =>
                   pc'[t] = "pop" /\ loop'[t] = "worklist" /\ ~AtLimit(t)'
      <4>1. \A u \in Threads \ {t} : AtLimit(u)' <=> AtLimit(u)
        BY <2>0, <2>1 DEF AtLimit
      <4> QED BY <2>1, <4>1, ZenonT(30) DEF LooksAreFresh
    <3>1. CASE looked'[t] = 0
      BY <3>1
    <3>2. CASE SearchWorklist(t)
      BY <2>0, <3>2 DEF SearchWorklist, execVars, AtLimit
    <3>3. CASE UNCHANGED looked /\ ~(pc[t] = "pop" /\ loop[t] = "worklist" /\ ~AtLimit(t))
      BY <3>1, <3>3 DEF LooksAreFresh
    <3>4. PopItem(t) => looked'[t] = 0
      BY DEF PopItem, ExtractFront
    <3>5. CASE LeaveWorklist(t)
      <4>1. CASE AtLimit(t)
        BY <3>3, <3>5, <4>1 DEF LeaveWorklist, wlVars
      <4>2. CASE ~AtLimit(t)
        BY <3>1, <3>5, <4>2 DEF LeaveWorklist, PopNothing
      <4> QED BY <4>1, <4>2
    <3>6. PushOne(t) => UNCHANGED looked /\ pc[t] # "pop"
      BY DEF PushOne, Emplace
    <3>7. \/ ArriveAtBarrier(t) \/ LeaveBarrier(t) \/ PopAborted(t) \/ LeaveAborts(t)
          \/ Acquire(t) \/ Return(t) \/ Commit(t) \/ Conflict(t) \/ CancelIteration(t)
          \/ PushAborted(t) \/ Terminate(t) \/ Propagate(t) \/ CheckTermination(t)
          => UNCHANGED looked /\ ~(pc[t] = "pop" /\ loop[t] = "worklist")
      BY DEF ArriveAtBarrier, LeaveBarrier, PopAborted, LeaveAborts, Acquire, Return,
             Commit, Conflict, CancelIteration, PushAborted, Terminate, Propagate,
             CheckTermination, wlVars
    <3> QED BY <1>2, <3>1, <3>2, <3>3, <3>4, <3>5, <3>6, <3>7 DEF Go, Step
  <2>2. \A u \in Threads \ {t} : UNCHANGED <<looked[u], pc[u], loop[u], num[u]>>
    BY <1>2, OthersStay, ZenonT(30) DEF Go
  <2> QED BY <2>1, <2>2
<1> QED BY <1>1, <1>2 DEF Next

-----------------------------------------------------------------------------
\* The steps that find or do work: the thread has worked once they are taken,
\* and it had before unless there was something for it to find.
Busy(t) ==
  \/ PushOne(t) \/ ArriveAtBarrier(t) \/ LeaveBarrier(t) \/ PopItem(t) \/ PopAborted(t)
  \/ Acquire(t) \/ Return(t) \/ Commit(t) \/ Conflict(t) \/ CancelIteration(t)
  \/ PushAborted(t)

LEMMA BusySteps ==
  ASSUME StateTypes, PlacesAgree, NEW t \in Threads, Busy(t)
  PROVE  /\ Worked(t)'
         /\ Worked(t) \/ ~Clean(t)
         /\ UNCHANGED termVars
<1> USE DEF StateTypes, LoopTypes, RingTypes, PlacesAgree, Goto, Working, Worked
<1>1. UNCHANGED termVars
  BY DEF Busy, PushOne, ArriveAtBarrier, LeaveBarrier, PopItem, PopAborted, Acquire,
         Return, Commit, Conflict, CancelIteration, PushAborted
<1>2. UNCHANGED processIsBlack
  BY <1>1 DEF termVars
<1>3. CASE PushOne(t)
  BY <1>1, <1>2, <1>3 DEF PushOne
<1>4. CASE ArriveAtBarrier(t) \/ LeaveBarrier(t)
  BY <1>1, <1>2, <1>4 DEF ArriveAtBarrier, LeaveBarrier
<1>5. CASE PopItem(t)
  <2>1. ~Clean(t)
    BY <1>5 DEF PopItem, ExtractFront, Clean, ChunksEmpty
  <2>2. didWork'[t] /\ pc'[t] = "work"
    BY <1>5 DEF PopItem, StartIteration
  <2> QED BY <1>1, <2>1, <2>2
<1>6. CASE PopAborted(t)
  <2>1. ~Clean(t)
    BY <1>6 DEF PopAborted, Clean
  <2>2. didWork'[t] /\ pc'[t] = "work"
    BY <1>6 DEF PopAborted, StartIteration
  <2> QED BY <1>1, <2>1, <2>2
<1>7. CASE Acquire(t) \/ Return(t) \/ Commit(t) \/ Conflict(t) \/ CancelIteration(t)
  BY <1>1, <1>7, SMTT(30) DEF Acquire, Return, Commit, Conflict, CancelIteration
<1>8. CASE PushAborted(t)
  BY <1>1, <1>8 DEF PushAborted
<1> QED BY <1>3, <1>4, <1>5, <1>6, <1>7, <1>8 DEF Busy

\* A step after which, for the ring, nothing has changed but that threads may
\* have looked at more.
Calm ==
  /\ \A u \in Threads :
       /\ Worked(u)' <=> Worked(u)
       /\ Visited(u)' <=> Visited(u)
       /\ ~didWork[u] => ~didWork'[u]
       /\ Clean(u) => Clean(u)'
       /\ LooksHold(u) /\ ~Worked(u) => LooksHold(u)'
  /\ TokenIsWhite' <=> TokenIsWhite
  /\ lastWasWhite' <=> lastWasWhite

LEMMA CalmKeepsRounds ==
  ASSUME Calm, FirstRound, SecondRound, RingTypes, RingTypes'
  PROVE  FirstRound' /\ SecondRound'
<1>1. FirstRound'
  BY DEF Calm, FirstRound
<1>2. SecondRound'
  <2> SUFFICES ASSUME /\ lastWasWhite /\ TokenIsWhite
                      /\ \A t \in Threads : ~Visited(t) \/ t = 0 => ~Worked(t)
               PROVE  /\ \A t \in Threads : ~Worked(t)' /\ ~didWork'[t] /\ LooksHold(t)'
                      /\ \A t \in Threads \ {0} : Visited(t)' => Clean(t)'
    BY DEF Calm, SecondRound
  <2> QED BY DEF Calm, SecondRound
<1> QED BY <1>1, <1>2

\* The steps that look for work and find none yet.
Quiet(t) ==
  SearchWorklist(t) \/ LeaveWorklist(t) \/ LeaveAborts(t) \/ CheckTermination(t)

\* Looking only empties queues.
LEMMA QuietQueues ==
  ASSUME StateTypes, NEW t \in Threads, Quiet(t), UNCHANGED machine
  PROVE  /\ UNCHANGED <<termVars, aborted, SocketOf, Sockets>>
         /\ \A s \in Sockets : Q[s] = <<>> => Q'[s] = <<>>
<1>1. UNCHANGED <<termVars, aborted, SocketOf, Sockets>>
  BY DEF Quiet, SearchWorklist, LeaveWorklist, LeaveAborts, CheckTermination, execVars,
         SocketOf, Sockets
<1>2. ASSUME NEW s \in Sockets, Q[s] = <<>> PROVE Q'[s] = <<>>
  <2>1. CASE PopChunk(t)
    <3>1. Q[QueueToLookAt(t)] # <<>>
      BY <2>1 DEF PopChunk
    <3> QED BY <1>2, <2>1, <3>1 DEF PopChunk, StateTypes, WlTypes
  <2>2. CASE UNCHANGED Q
    BY <1>2, <2>2
  <2> QED BY <2>1, <2>2 DEF Quiet, SearchWorklist, LeaveWorklist, LeaveAborts,
             CheckTermination, Search, FindEmpty, TakeNext, PopNothing, wlVars
<1> QED BY <1>1, <1>2

\* What a quiet thread has seen empty it may go by.
LEMMA QuietLooks ==
  ASSUME StateTypes, PlacesAgree, LooksAreFresh, NEW t \in Threads, Quiet(t),
         UNCHANGED machine, LooksHold(t), ~Worked(t)
  PROVE  LooksHold(t)'
<1> USE DEF StateTypes, WlTypes, LoopTypes, Goto
<1>0. /\ UNCHANGED <<aborted, SocketOf, Sockets>>
      /\ \A s \in Sockets : Q[s] = <<>> => Q'[s] = <<>>
      /\ ActiveThreads \in Nat \ {0}
  BY QuietQueues, TopologyAssumption, ZenonT(30)
<1>1. pc[t] = "pop" => ~didWork[t] /\ ~AtLimit(t)
  BY ForEachAssumption DEF Worked, PlacesAgree, AtLimit
<1>2. CASE SearchWorklist(t)
  <2>1. pc'[t] = "pop" /\ loop'[t] = "worklist" /\ pc[t] = "pop" /\ loop[t] = "worklist"
    BY <1>2 DEF SearchWorklist, execVars
  <2>2. \A k \in 0 .. looked[t] - 1 : Q[SocketOf[(t + k) % ActiveThreads]] = <<>>
    BY <2>1 DEF LooksHold
  <2>3. CASE FindEmpty(t)
    <3>1. looked'[t] = looked[t] + 1 /\ UNCHANGED Q /\ looked[t] \in Nat
      BY <2>3 DEF FindEmpty
    <3>2. Q[SocketOf[(t + looked[t]) % ActiveThreads]] = <<>>
      BY <2>3 DEF FindEmpty, QueueToLookAt
    <3>3. \A k \in 0 .. looked'[t] - 1 : k = looked[t] \/ k \in 0 .. looked[t] - 1
      BY <3>1
    <3>4. \A k \in 0 .. looked'[t] - 1 : Q'[SocketOf'[(t + k) % ActiveThreads]] = <<>>
      BY <1>0, <2>2, <3>1, <3>2, <3>3
    <3> QED BY <2>1, <3>4 DEF LooksHold
  <2>4. CASE UNCHANGED looked
    <3>1. ASSUME NEW k \in 0 .. looked[t] - 1
          PROVE  Q'[SocketOf'[(t + k) % ActiveThreads]] = <<>>
      <4>1. t \in 0 .. ActiveThreads - 1 /\ looked[t] \in 0 .. ActiveThreads
        BY DEF Threads
      <4>2. PICK x \in 0 .. 2 * ActiveThreads - 1 : x = t + k
        BY <1>0, <4>1, SMTT(30)
      <4>3. SocketOf[x % ActiveThreads] \in Sockets
        BY ThreadsModulo, SocketsOfThreads
      <4> QED BY <1>0, <2>2, <4>2, <4>3
    <3> QED BY <2>1, <2>4, <3>1 DEF LooksHold
  <2> QED BY <1>2, <2>3, <2>4 DEF SearchWorklist, Search, PopChunk, TakeNext
<1>3. CASE LeaveWorklist(t)
  <2>1. /\ pc'[t] = "pop" /\ loop'[t] = "aborts" /\ pc[t] = "pop" /\ loop[t] = "worklist"
        /\ PopNothing(t)
    BY <1>1, <1>3 DEF LeaveWorklist
  <2>2. \A k \in 0 .. ActiveThreads - 1 : Q[SocketOf[(t + k) % ActiveThreads]] = <<>>
    BY <2>1 DEF LooksHold, PopNothing
  <2>3. QueuesEmpty
    BY <2>2, LooksReachAll
  <2>4. QueuesEmpty' /\ ChunksEmpty(t)'
    BY <1>0, <2>1, <2>3 DEF QueuesEmpty, ChunksEmpty, PopNothing
  <2> QED BY <2>1, <2>4 DEF LooksHold
<1>4. CASE LeaveAborts(t)
  <2>1. /\ pc'[t] = "term" /\ pc[t] = "pop" /\ loop[t] = "aborts" /\ aborted[t] = <<>>
        /\ UNCHANGED <<cur, next, Q>>
    BY <1>4 DEF LeaveAborts, wlVars
  <2>2. ChunksEmpty(t)' /\ QueuesEmpty'
    BY <1>0, <2>1 DEF LooksHold, ChunksEmpty, QueuesEmpty
  <2> QED BY <1>0, <2>1, <2>2 DEF LooksHold
<1>5. CASE CheckTermination(t)
  <2>1. pc'[t] \in {"pop", "exit"} /\ loop'[t] = "worklist" /\ looked'[t] = 0
    BY <1>5 DEF CheckTermination, LooksAreFresh, wlVars
  <2> QED BY <2>1 DEF LooksHold
<1> QED BY <1>2, <1>3, <1>4, <1>5 DEF Quiet

LEMMA QuietIsCalm ==
  ASSUME StateTypes, PlacesAgree, LooksAreFresh, NEW t \in Threads, Quiet(t),
         UNCHANGED machine
  PROVE  Calm
<1>0. /\ UNCHANGED <<termVars, aborted, SocketOf, Sockets>>
      /\ \A s \in Sockets : Q[s] = <<>> => Q'[s] = <<>>
  BY QuietQueues
<1>1. \A u \in Threads \ {t} :
        UNCHANGED <<pc[u], loop[u], didWork[u], cur[u], next[u], looked[u]>>
  BY OthersStay DEF Quiet, Step
<1>2. QueuesEmpty => QueuesEmpty'
  BY <1>0 DEF QueuesEmpty
<1>3. UNCHANGED <<hasToken, tokenIsBlack, processIsBlack, lastWasWhite, handing>>
  BY <1>0 DEF termVars
<1>4. ASSUME NEW u \in Threads
      PROVE  /\ Worked(u)' <=> Worked(u)
             /\ ~didWork[u] => ~didWork'[u]
  <2>1. CASE u # t
    BY <1>1, <1>3, <2>1 DEF Worked
  <2>2. CASE u = t
    BY <1>3, <2>2 DEF Quiet, SearchWorklist, LeaveWorklist, LeaveAborts,
          CheckTermination, execVars, Worked, Goto, StateTypes, LoopTypes
  <2> QED BY <2>1, <2>2
<1>5. ASSUME NEW u \in Threads, Clean(u) PROVE Clean(u)'
  <2>1. ChunksEmpty(u)'
    <3>1. CASE u # t
      BY <1>1, <1>5, <3>1 DEF Clean, ChunksEmpty
    <3>2. CASE u = t
      <4>1. ~PopChunk(t)
        BY <1>5, LooksAtAQueue DEF PopChunk, Clean, QueuesEmpty, StateTypes
      <4>2. ~TakeNext(t)
        BY <1>5, <3>2 DEF TakeNext, Clean, ChunksEmpty
      <4> QED BY <1>5, <3>2, <4>1, <4>2 DEF Quiet, SearchWorklist, LeaveWorklist,
                 LeaveAborts, CheckTermination, Search, FindEmpty, PopNothing, wlVars,
                 Clean, ChunksEmpty
    <3> QED BY <3>1, <3>2
  <2> QED BY <1>0, <1>2, <1>5, <2>1 DEF Clean
<1>6. ASSUME NEW u \in Threads, LooksHold(u), ~Worked(u) PROVE LooksHold(u)'
  <2>1. CASE u = t
    BY <1>6, <2>1, QuietLooks
  <2>2. CASE u # t
    <3>1. ChunksEmpty(u) => ChunksEmpty(u)'
      BY <1>1, <2>2 DEF ChunksEmpty
    <3>2. ASSUME NEW k \in 0 .. looked[u] - 1, Q[SocketOf[(u + k) % ActiveThreads]] = <<>>
          PROVE  Q'[SocketOf'[(u + k) % ActiveThreads]] = <<>>
      <4>1. /\ u \in 0 .. ActiveThreads - 1 /\ looked[u] \in 0 .. ActiveThreads
            /\ ActiveThreads \in Nat
        BY TopologyAssumption DEF Threads, StateTypes, WlTypes
      <4>2. PICK x \in 0 .. 2 * ActiveThreads - 1 : x = u + k
        BY <4>1
      <4>3. SocketOf[x % ActiveThreads] \in Sockets
        BY ThreadsModulo, SocketsOfThreads DEF StateTypes, WlTypes
      <4> QED BY <1>0, <3>2, <4>2, <4>3
    <3>3. UNCHANGED <<pc[u], loop[u], looked[u], aborted>>
      BY <1>0, <1>1, <2>2
    <3> QED BY <1>2, <1>6, <3>1, <3>2, <3>3 DEF LooksHold
  <2> QED BY <2>1, <2>2
<1>7. TokenIsWhite' <=> TokenIsWhite
  BY <1>3 DEF TokenIsWhite
<1>8. \A u \in Threads : Visited(u)' <=> Visited(u)
  BY <1>3 DEF Visited
<1> QED BY <1>3, <1>4, <1>5, <1>6, <1>7, <1>8 DEF Calm

-----------------------------------------------------------------------------
\* Where the token is decides its colour and which threads it has been at.
TokenPlaced ==
  \A h \in Threads :
    /\ hasToken[h] =>
         /\ TokenIsWhite <=> ~tokenIsBlack[h]
         /\ \A t \in Threads : Visited(t) <=> t < h \/ h = 0
    /\ handing[h] # "none" =>
         /\ TokenIsWhite <=>
              /\ handing[h] # "black"
              /\ handing[h] = "coloured" => ~tokenIsBlack[RingNext(h)]
         /\ \A t \in Threads : Visited(t) <=> t <= h

LEMMA TokenIsAt == OneToken => TokenPlaced
<1> SUFFICES ASSUME OneToken, NEW h \in Threads
             PROVE  /\ hasToken[h] =>
                         /\ TokenIsWhite <=> ~tokenIsBlack[h]
                         /\ \A t \in Threads : Visited(t) <=> t < h \/ h = 0
                    /\ handing[h] # "none" =>
                         /\ TokenIsWhite <=>
                              /\ handing[h] # "black"
                              /\ handing[h] = "coloured" => ~tokenIsBlack[RingNext(h)]
                         /\ \A t \in Threads : Visited(t) <=> t <= h
  BY DEF TokenPlaced
<1>1. ASSUME hasToken[h]
      PROVE  /\ TokenIsWhite <=> ~tokenIsBlack[h]
             /\ \A t \in Threads : Visited(t) <=> t < h \/ h = 0
  <2>1. \A u \in Threads : handing[u] = "none" /\ (hasToken[u] => u = h)
    BY <1>1 DEF OneToken, HasIt
  <2> QED BY <1>1, <2>1 DEF TokenIsWhite, Visited
<1>2. ASSUME handing[h] # "none"
      PROVE  /\ TokenIsWhite <=>
                  /\ handing[h] # "black"
                  /\ handing[h] = "coloured" => ~tokenIsBlack[RingNext(h)]
             /\ \A t \in Threads : Visited(t) <=> t <= h
  <2>1. \A u \in Threads : ~hasToken[u] /\ (handing[u] # "none" => u = h)
    BY <1>2 DEF OneToken, HasIt
  <2> QED BY <1>2, <2>1 DEF TokenIsWhite, Visited
<1> QED BY <1>1, <1>2

\* Handing the token on is calm, and so is asking for the end without it.
LEMMA PropagateIsCalm ==
  ASSUME StateTypes, PlacesAgree, OneToken, NEW t \in Threads, Propagate(t),
         UNCHANGED machine
  PROVE  Calm
<1> USE DEF StateTypes, RingTypes, LoopTypes
<1>1. TokenPlaced /\ TokenPlaced'
  <2>1. OneToken'
    BY TokenStep DEF Propagate
  <2> QED BY <2>1, TokenIsAt, PTL
<1>2. /\ UNCHANGED <<processIsBlack, lastWasWhite, didWork, aborted, cur, next, Q, Sockets>>
      /\ pc[t] = "prop" /\ pc'[t] \in {"prop", "check"}
      /\ \A u \in Threads \ {t} : pc'[u] = pc[u]
      /\ UNCHANGED <<loop, looked, SocketOf>>
  BY DEF Propagate, PropColour, PropToken, Goto, wlVars, Sockets, SocketOf
<1>3. \A u \in Threads : /\ Worked(u)' <=> Worked(u)
                         /\ ~didWork[u] => ~didWork'[u]
                         /\ Clean(u) => Clean(u)'
                         /\ LooksHold(u) => LooksHold(u)'
  BY <1>2 DEF Worked, Clean, ChunksEmpty, QueuesEmpty, LooksHold
<1>4. handing[t] # "none"
  BY <1>2 DEF PlacesAgree
<1>5. /\ TokenIsWhite' <=> TokenIsWhite
      /\ \A u \in Threads : Visited(u)' <=> Visited(u)
  <2>1. CASE PropColour(t)
    <3>1. handing'[t] = "coloured" /\ (tokenIsBlack'[RingNext(t)] <=> handing[t] = "black")
      BY <2>1, RingNextIs, ZenonT(30) DEF PropColour
    <3>2. handing[t] # "coloured"
      BY <2>1 DEF PropColour
    <3> QED BY <1>1, <1>4, <3>1, <3>2, ZenonT(30) DEF TokenPlaced
  <2>2. CASE PropToken(t)
    <3>1. RingNext(t) \in Threads /\ hasToken'[RingNext(t)] /\ UNCHANGED tokenIsBlack
      BY <2>2, RingNextIs DEF PropToken
    <3>2. handing[t] = "coloured"
      BY <2>2 DEF PropToken
    <3>3. \A u \in Threads : u < RingNext(t) \/ RingNext(t) = 0 <=> u <= t
      <4>1. ActiveThreads \in Nat \ {0} /\ t \in 0 .. ActiveThreads - 1
        BY TopologyAssumption DEF Threads
      <4>2. CASE t = ActiveThreads - 1
        BY <4>1, <4>2, RingNextIs DEF Threads
      <4>3. CASE t # ActiveThreads - 1
        BY <4>1, <4>3, RingNextIs DEF Threads
      <4> QED BY <4>2, <4>3
    <3> QED BY <1>1, <3>1, <3>2, <3>3, ZenonT(30) DEF TokenPlaced
  <2> QED BY <2>1, <2>2 DEF Propagate
<1> QED BY <1>2, <1>3, <1>5 DEF Calm

\* What asking for the end leaves alone.
LEMMA TerminateSteps ==
  ASSUME StateTypes, PlacesAgree, NEW t \in Threads, Terminate(t), UNCHANGED machine
  PROVE  /\ UNCHANGED <<didWork, aborted, cur, next, Q, Sockets, SocketOf, loop, looked>>
         /\ pc[t] = "term" /\ pc'[t] \in {"prop", "check"} /\ handing[t] = "none"
         /\ \A u \in Threads \ {t} : /\ UNCHANGED pc[u]
                                     /\ Worked(u)' <=> Worked(u)
         /\ \A u \in Threads : /\ Clean(u)' <=> Clean(u)
                               /\ LooksHold(u) => LooksHold(u)'
         /\ Worked(t)' <=> processIsBlack'[t]
         /\ Worked(t) <=> processIsBlack[t] \/ didWork[t]
<1> USE DEF StateTypes, RingTypes, LoopTypes
<1>1. UNCHANGED <<didWork, aborted, cur, next, Q, Sockets, SocketOf, loop, looked>>
  BY DEF Terminate, wlVars, Sockets, SocketOf
<1>2. /\ pc[t] = "term" /\ pc'[t] \in {"prop", "check"}
      /\ \A u \in Threads \ {t} : UNCHANGED pc[u]
  BY DEF Terminate, Goto
<1>3. \A u \in Threads \ {t} : UNCHANGED processIsBlack[u]
  BY DEF Terminate, LocalTermination, HandleToken
<1>4. \A u \in Threads \ {t} : Worked(u)' <=> Worked(u)
  BY <1>1, <1>2, <1>3 DEF Worked
<1>5. \A u \in Threads : Clean(u)' <=> Clean(u)
  BY <1>1 DEF Clean, ChunksEmpty, QueuesEmpty
<1>6. \A u \in Threads : LooksHold(u) => LooksHold(u)'
  BY <1>1, <1>2 DEF LooksHold, ChunksEmpty, QueuesEmpty
<1>7. handing[t] = "none"
  BY <1>2 DEF PlacesAgree
<1>8. (Worked(t)' <=> processIsBlack'[t]) /\ (Worked(t) <=> processIsBlack[t] \/ didWork[t])
  BY <1>2 DEF Worked
<1> QED BY <1>1, <1>2, <1>4, <1>5, <1>6, <1>7, <1>8

\* A thread asks for the end.
LEMMA TerminateKeepsRounds ==
  ASSUME StateTypes, PlacesAgree, OneToken, FirstRound, SecondRound, Ended,
         NEW t \in Threads, Terminate(t), UNCHANGED machine
  PROVE  FirstRound' /\ SecondRound' /\ Ended'
<1> USE DEF StateTypes, RingTypes, LoopTypes
<1> DEFINE failed == Worked(t) \/ tokenIsBlack[t]
<1>0. TokenPlaced /\ TokenPlaced' /\ RingTypes'
  <2>1. OneToken' /\ RingTypes'
    BY TokenStep, RingSteps DEF Terminate
  <2> QED BY <2>1, TokenIsAt, PTL
<1>1. /\ UNCHANGED <<didWork, aborted, cur, next, Q, Sockets, SocketOf, loop, looked>>
      /\ pc[t] = "term" /\ pc'[t] \in {"prop", "check"} /\ handing[t] = "none"
      /\ \A u \in Threads \ {t} : /\ UNCHANGED pc[u]
                                  /\ Worked(u)' <=> Worked(u)
      /\ \A u \in Threads : /\ Clean(u)' <=> Clean(u)
                            /\ LooksHold(u) => LooksHold(u)'
      /\ Worked(t)' <=> processIsBlack'[t]
      /\ Worked(t) <=> processIsBlack[t] \/ didWork[t]
  BY TerminateSteps
<1>2. LooksHold(t) => Clean(t)
  BY <1>1 DEF LooksHold, Clean
<1>3. LooksHold(t)'
  BY <1>1 DEF LooksHold
<1>4. globalTerm => t # 0 /\ ~hasToken[t]
  <2>1. globalTerm => t # 0 /\ hasToken[0] /\ 0 \in Threads
    BY <1>1, TopologyAssumption, SMTT(30) DEF Ended, Threads
  <2> QED BY <2>1 DEF OneToken, HasIt
<1>5. CASE ~hasToken[t]
  <2>1. /\ UNCHANGED <<hasToken, tokenIsBlack, lastWasWhite, globalTerm, handing>>
        /\ processIsBlack'[t] <=> Worked(t)
        /\ \A u \in Threads \ {t} : UNCHANGED processIsBlack[u]
    BY <1>1, <1>5 DEF Terminate, LocalTermination
  <2>2. Calm
    <3>1. TokenIsWhite' <=> TokenIsWhite
      BY <2>1 DEF TokenIsWhite
    <3>2. \A u \in Threads : Visited(u)' <=> Visited(u)
      BY <2>1 DEF Visited
    <3> QED BY <1>1, <2>1, <3>1, <3>2 DEF Calm
  <2>3. Ended'
    <3> SUFFICES ASSUME globalTerm PROVE Ended'
      BY <2>1 DEF Ended
    <3>1. hasToken'[0] /\ pc'[0] \in {"check", "exit"}
      <4>1. 0 \in Threads \ {t}
        BY <1>4, TopologyAssumption DEF Threads
      <4> QED BY <1>1, <2>1, <4>1 DEF Ended
    <3>2. \A u \in Threads : ~processIsBlack'[u]
      BY <1>1, <2>1, ZenonT(30) DEF Ended
    <3> QED BY <1>1, <3>1, <3>2 DEF Ended
  <2> QED BY <1>0, <2>2, <2>3, CalmKeepsRounds
<1>6. CASE hasToken[t] /\ ~(t = 0 /\ lastWasWhite /\ ~failed)
  <2>1. /\ lastWasWhite' = IF t = 0 THEN ~failed ELSE lastWasWhite
        /\ handing'[t] = Colour(t # 0 /\ failed)
        /\ ~processIsBlack'[t]
        /\ UNCHANGED globalTerm
    BY <1>1, <1>6 DEF Terminate, LocalTermination, HandleToken
  <2>2. /\ TokenIsWhite <=> ~tokenIsBlack[t]
        /\ \A u \in Threads : Visited(u) <=> u < t \/ t = 0
    BY <1>0, <1>6 DEF TokenPlaced
  <2>3. /\ TokenIsWhite' <=> ~(t # 0 /\ failed)
        /\ \A u \in Threads : Visited(u)' <=> u <= t
    BY <1>0, <2>1, ZenonT(30) DEF TokenPlaced, Colour
  <2>4. Ended'
    BY <1>4, <1>6, <2>1 DEF Ended
  <2>5. t \in Nat /\ \A u \in Threads : u \in Nat
    BY TopologyAssumption DEF Threads
  <2>6. ~Worked(t)'
    BY <1>1, <2>1
  <2>7. CASE t # 0
    <3>1. TokenIsWhite' => TokenIsWhite /\ ~Worked(t)
      BY <2>2, <2>3, <2>7
    <3>2. \A u \in Threads : Visited(u)' <=> Visited(u) \/ u = t
      BY <2>2, <2>3, <2>5, <2>7
    <3>3. FirstRound'
      BY <1>1, <1>3, <3>1, <3>2 DEF FirstRound
    <3>4. SecondRound'
      <4> SUFFICES ASSUME /\ lastWasWhite' /\ TokenIsWhite'
                          /\ \A u \in Threads : ~Visited(u)' \/ u = 0 => ~Worked(u)'
                   PROVE  /\ \A u \in Threads : ~Worked(u)' /\ ~didWork'[u] /\ LooksHold(u)'
                          /\ \A u \in Threads \ {0} : Visited(u)' => Clean(u)'
        BY DEF SecondRound
      <4>1. \A u \in Threads : ~Visited(u) \/ u = 0 => ~Worked(u)
        BY <1>1, <2>7, <3>1, <3>2, ZenonT(30)
      <4>2. lastWasWhite /\ TokenIsWhite
        BY <2>1, <2>7, <3>1
      <4>3. /\ \A u \in Threads : ~Worked(u) /\ ~didWork[u] /\ LooksHold(u)
            /\ \A u \in Threads \ {0} : Visited(u) => Clean(u)
        BY <4>1, <4>2 DEF SecondRound
      <4> QED BY <1>1, <1>2, <2>6, <3>2, <4>3
    <3> QED BY <2>4, <3>3, <3>4
  <2>8. CASE t = 0
    <3>1. TokenIsWhite' /\ \A u \in Threads : Visited(u) /\ (Visited(u)' <=> u = 0)
      BY <2>2, <2>3, <2>5, <2>8
    <3>2. FirstRound'
      BY <1>3, <2>8, <3>1 DEF FirstRound
    <3>3. SecondRound'
      <4> SUFFICES ASSUME lastWasWhite', \A u \in Threads : ~Worked(u)'
                   PROVE  \A u \in Threads : ~didWork'[u] /\ LooksHold(u)'
        BY <2>6, <2>8, <3>1 DEF SecondRound
      <4>1. TokenIsWhite /\ ~Worked(t) /\ ~didWork[t]
        BY <1>1, <2>1, <2>2, <2>8, ZenonT(30)
      <4>2. \A u \in Threads : ~Worked(u)
        BY <1>1, <4>1
      <4>3. \A u \in Threads : LooksHold(u) /\ (u # 0 => ~didWork[u])
        BY <3>1, <4>1, <4>2 DEF FirstRound
      <4> QED BY <1>1, <2>8, <4>1, <4>3
    <3> QED BY <2>4, <3>2, <3>3
  <2> QED BY <2>7, <2>8
<1>7. CASE hasToken[t] /\ t = 0 /\ lastWasWhite /\ ~failed
  <2>1. /\ UNCHANGED <<hasToken, lastWasWhite, handing>>
        /\ processIsBlack' = [processIsBlack EXCEPT ![0] = FALSE]
        /\ tokenIsBlack' = [tokenIsBlack EXCEPT ![0] = FALSE]
    BY <1>1, <1>7, ZenonT(30) DEF Terminate, LocalTermination, HandleToken
  <2>2. TokenIsWhite /\ \A u \in Threads : Visited(u)
    BY <1>0, <1>7 DEF TokenPlaced
  <2>3. TokenIsWhite' /\ \A u \in Threads : Visited(u)'
    BY <1>0, <1>7, <2>1 DEF TokenPlaced
  <2>4. /\ \A u \in Threads : ~Worked(u) /\ ~didWork[u] /\ LooksHold(u)
        /\ \A u \in Threads \ {0} : Clean(u)
    BY <1>7, <2>2 DEF SecondRound
  <2>5. ~Worked(t)'
    BY <1>1, <1>7, <2>1
  <2>6. \A u \in Threads : ~Worked(u)' /\ ~didWork'[u] /\ LooksHold(u)' /\ Clean(u)'
    BY <1>1, <1>2, <1>7, <2>4, <2>5
  <2>7. FirstRound' /\ SecondRound'
    BY <2>6 DEF FirstRound, SecondRound
  <2>8. Ended'
    <3>1. pc'[0] = "check"
      BY <1>1, <1>7, <2>1 DEF Terminate, Goto
    <3>2. \A u \in Threads : ~processIsBlack'[u]
      BY <2>6 DEF Worked
    <3> QED BY <1>7, <2>1, <2>6, <3>1, <3>2 DEF Ended
  <2> QED BY <2>7, <2>8
<1> QED BY <1>5, <1>6, <1>7

\* A thread finds or does work.
LEMMA BusyKeepsRounds ==
  ASSUME StateTypes, PlacesAgree, SecondRound, Ended, NEW t \in Threads, Busy(t)
  PROVE  FirstRound' /\ SecondRound' /\ Ended'
<1>1. Worked(t)' /\ (Worked(t) \/ ~Clean(t)) /\ UNCHANGED termVars
  BY BusySteps
<1>2. UNCHANGED <<hasToken, tokenIsBlack, processIsBlack, lastWasWhite, globalTerm, handing>>
  BY <1>1 DEF termVars
<1>3. \A u \in Threads : Visited(u)' <=> Visited(u)
  BY <1>2 DEF Visited
<1>4. TokenIsWhite' <=> TokenIsWhite
  BY <1>2 DEF TokenIsWhite
<1>5. \A u \in Threads \ {t} : Worked(u)' <=> Worked(u)
  <2>1. \A u \in Threads \ {t} : UNCHANGED <<pc[u], didWork[u]>>
    BY OthersStay DEF Busy, Step
  <2> QED BY <1>2, <2>1 DEF Worked
<1>6. FirstRound'
  BY <1>1 DEF FirstRound
<1>7. SecondRound'
  <2> SUFFICES ASSUME /\ lastWasWhite /\ TokenIsWhite
                      /\ \A u \in Threads : ~Visited(u) \/ u = 0 => ~Worked(u)'
               PROVE  FALSE
    BY <1>2, <1>3, <1>4 DEF SecondRound
  <2>1. Visited(t) /\ t # 0
    BY <1>1
  <2>2. \A u \in Threads : ~Visited(u) \/ u = 0 => ~Worked(u)
    BY <1>5, <2>1
  <2>3. ~Worked(t) /\ Clean(t)
    BY <2>1, <2>2 DEF SecondRound
  <2> QED BY <1>1, <2>3
<1>8. Ended'
  <2>1. globalTerm => ~Worked(t) /\ Clean(t)
    BY DEF Ended, Worked
  <2> QED BY <1>1, <1>2, <2>1 DEF Ended
<1> QED BY <1>6, <1>7, <1>8

\* The ring's invariants, together.
RingInv == OneToken /\ FirstRound /\ SecondRound /\ Ended

LEMMA RingStep ==
  StateTypes /\ PlacesAgree /\ LooksAreFresh /\ RingInv /\ [Next]_vars => RingInv'
<1> SUFFICES ASSUME StateTypes, PlacesAgree, LooksAreFresh, RingInv, [Next]_vars
             PROVE  RingInv'
  OBVIOUS
<1> USE DEF StateTypes, RingInv
<1>0. RingTypes'
  BY TypesStep
<1>1. CASE UNCHANGED vars
  <2>1. UNCHANGED <<cur, next, Q, looked, hasToken, tokenIsBlack, processIsBlack,
                    lastWasWhite, globalTerm, handing, aborted, pc, loop, didWork,
                    Sockets, SocketOf>>
    BY <1>1 DEF vars, wlVars, termVars, execVars, Sockets, SocketOf
  <2>2. OneToken'
    BY <2>1 DEF OneToken, HasIt
  <2>3. \A u \in Threads : /\ Worked(u)' <=> Worked(u)
                           /\ Visited(u)' <=> Visited(u)
                           /\ Clean(u)' <=> Clean(u)
                           /\ LooksHold(u)' <=> LooksHold(u)
    BY <2>1 DEF Worked, Visited, Clean, LooksHold, ChunksEmpty, QueuesEmpty
  <2>4. TokenIsWhite' <=> TokenIsWhite
    BY <2>1 DEF TokenIsWhite
  <2>5. FirstRound' /\ SecondRound'
    BY <1>0, <2>1, <2>3, <2>4, CalmKeepsRounds DEF Calm
  <2>6. Ended'
    BY <2>1, <2>3 DEF Ended
  <2> QED BY <2>2, <2>5, <2>6
<1>2. ASSUME NEW t \in Threads, Go(t) PROVE RingInv'
  <2>0. UNCHANGED machine /\ Step(t)
    BY <1>2 DEF Go
  <2>1. CASE Busy(t)
    BY <2>1, BusySteps, BusyKeepsRounds, TokenStep
  <2>2. CASE Quiet(t)
    <3>1. UNCHANGED termVars /\ Calm
      BY <2>0, <2>2, QuietQueues, QuietIsCalm
    <3>2. OneToken' /\ FirstRound' /\ SecondRound'
      BY <1>0, <3>1, TokenStep, CalmKeepsRounds
    <3>3. Ended'
      <4> SUFFICES ASSUME globalTerm PROVE Ended'
        BY <3>1 DEF Ended, termVars
      <4>1. hasToken'[0] /\ \A u \in Threads : ~processIsBlack'[u]
        BY <3>1 DEF Ended, termVars
      <4>2. \A u \in Threads : ~didWork'[u] /\ Clean(u)'
        BY <3>1 DEF Ended, Calm
      <4>3. pc'[0] \in {"check", "exit"}
        <5>1. CASE t = 0
          BY <2>2, <5>1 DEF Ended, Quiet, SearchWorklist, LeaveWorklist, LeaveAborts,
                CheckTermination, Goto, LoopTypes
        <5>2. CASE t # 0
          <6>1. 0 \in Threads \ {t}
            BY <5>2, TopologyAssumption DEF Threads
          <6> QED BY <2>0, <6>1, OthersStay DEF Ended
        <5> QED BY <5>1, <5>2
      <4> QED BY <4>1, <4>2, <4>3 DEF Ended
    <3> QED BY <3>2, <3>3
  <2>3. CASE Propagate(t)
    <3>1. OneToken' /\ Calm
      BY <2>0, <2>3, TokenStep, PropagateIsCalm DEF Propagate
    <3>2. FirstRound' /\ SecondRound'
      BY <1>0, <3>1, CalmKeepsRounds
    <3>3. ~globalTerm
      <4>1. handing[t] # "none" /\ ~hasToken[t] /\ HasIt(t)
        BY <2>3 DEF Propagate, PlacesAgree, OneToken, HasIt
      <4>2. globalTerm => HasIt(0) /\ hasToken[0] /\ 0 \in Threads
        BY TopologyAssumption, SMTT(30) DEF Ended, HasIt, Threads
      <4> QED BY <4>1, <4>2 DEF OneToken
    <3>4. UNCHANGED globalTerm
      BY <2>3 DEF Propagate, PropColour, PropToken
    <3> QED BY <3>1, <3>2, <3>3, <3>4 DEF Ended
  <2>4. CASE Terminate(t)
    <3>1. OneToken'
      BY <2>4, TokenStep DEF Terminate, LoopTypes
    <3> QED BY <2>0, <2>4, <3>1, TerminateKeepsRounds
  <2> QED BY <2>0, <2>1, <2>2, <2>3, <2>4 DEF Step, Busy, Quiet
<1> QED BY <1>1, <1>2 DEF Next

-----------------------------------------------------------------------------
\* block_range gives every position of the range to one thread: thread t's
\* block ends where that of thread t + 1 begins, and the last at the end.
NumPer ==
  LET up == (Len(InitialItems) + ActiveThreads - 1) \div ActiveThreads IN
  IF up > 1 THEN up ELSE 1
Bound(t) == IF NumPer * t < Len(InitialItems) THEN NumPer * t ELSE Len(InitialItems)

LEMMA NumPerIs == NumPer \in Nat \ {0} /\ Len(InitialItems) <= NumPer * ActiveThreads
<1>1. PICK L \in Nat, N \in Nat \ {0} : L = Len(InitialItems) /\ N = ActiveThreads
  BY TopologyAssumption, ForEachAssumption
<1>2. PICK up \in Nat : up = (L + N - 1) \div N
  BY <1>1
<1>3. L <= N * up
  <2>1. L + N - 1 < N * up + N
    BY <1>1, <1>2
  <2> QED BY <1>1, <1>2, <2>1
<1>4. CASE up > 1
  BY <1>1, <1>2, <1>3, <1>4 DEF NumPer
<1>5. CASE ~(up > 1)
  <2>1. NumPer = 1
    BY <1>1, <1>2, <1>5 DEF NumPer
  <2>2. N * up <= N
    BY <1>1, <1>2, <1>5
  <2> QED BY <1>1, <1>2, <1>3, <2>1, <2>2
<1> QED BY <1>4, <1>5

LEMMA BoundIs ==
  ASSUME NEW t \in Nat
  PROVE  /\ Bound(t) \in 0 .. Len(InitialItems)
         /\ \A u \in Nat : t <= u => Bound(t) <= Bound(u)
<1>1. PICK L \in Nat, p \in Nat \ {0} : L = Len(InitialItems) /\ p = NumPer
  BY ForEachAssumption, NumPerIs
<1>2. Bound(t) \in 0 .. L
  BY <1>1 DEF Bound
<1>3. ASSUME NEW u \in Nat, t <= u PROVE Bound(t) <= Bound(u)
  <2>1. PICK d \in Nat : u = t + d
    BY <1>3
  <2>2. p * u = p * t + p * d /\ p * d \in Nat /\ p * t \in Nat
    BY <2>1
  <2> QED BY <1>1, <2>2 DEF Bound
<1> QED BY <1>1, <1>2, <1>3

LEMMA BlockIs ==
  ASSUME NEW t \in Threads
  PROVE  /\ Block(t) \in Seq(Items)
         /\ Len(Block(t)) = Bound(t + 1) - Bound(t)
         /\ \A i \in 1 .. Bound(t + 1) - Bound(t) : Block(t)[i] = InitialItems[Bound(t) + i]
<1>1. /\ t \in Nat /\ t + 1 \in Nat /\ t <= t + 1
      /\ Len(InitialItems) \in Nat /\ DOMAIN InitialItems = 1 .. Len(InitialItems)
  BY ForEachAssumption, TopologyAssumption DEF Threads
<1>2. PICK L \in Nat : L = Len(InitialItems)
  BY <1>1, ZenonT(30)
<1>3. PICK u \in Nat : u = t + 1
  BY <1>1
<1>4. /\ Bound(t) \in 0 .. L /\ Bound(u) \in 0 .. L /\ Bound(t) <= Bound(u)
  BY <1>1, <1>2, <1>3, BoundIs, ZenonT(30)
<1>5. PICK a \in 1 .. L + 1, b \in 0 .. L : a = Bound(t) + 1 /\ b = Bound(u) /\ a <= b + 1
  BY <1>4
<1>6. Block(t) = SubSeq(InitialItems, a, b)
  BY <1>3, <1>5 DEF Block, Bound, NumPer
<1>7. \A i \in a .. b : InitialItems[i] \in Items
  BY <1>1, <1>2, <1>5, ForEachAssumption
<1>8. /\ SubSeq(InitialItems, a, b) \in Seq(Items)
      /\ Len(SubSeq(InitialItems, a, b)) = IF a <= b THEN b - a + 1 ELSE 0
      /\ \A i \in 1 .. b - a + 1 : SubSeq(InitialItems, a, b)[i] = InitialItems[a + i - 1]
  <2>1. InitialItems \in Seq(Items) /\ a \in 1 .. Len(InitialItems) + 1 /\ b \in 0 .. Len(InitialItems)
    BY <1>1, <1>2, <1>5, ForEachAssumption
  <2> QED BY <2>1, SubSeqIs, SMTT(30)
<1>9. b - a + 1 = Bound(u) - Bound(t) /\ \A i \in Nat : a + i - 1 = Bound(t) + i
  BY <1>4, <1>5
<1>10. Len(Block(t)) = Bound(u) - Bound(t)
  <2>1. Len(Block(t)) = IF a <= b THEN b - a + 1 ELSE 0
    BY <1>6, <1>8
  <2>2. Len(Block(t)) = b - a + 1
    BY <1>5, <2>1
  <2> QED BY <1>9, <2>2
<1>11. \A i \in 1 .. Bound(u) - Bound(t) : Block(t)[i] = InitialItems[Bound(t) + i]
  <2>1. \A i \in 1 .. b - a + 1 : Block(t)[i] = InitialItems[a + i - 1] /\ i \in Nat
    BY <1>6, <1>8
  <2> QED BY <1>9, <2>1
<1> QED BY <1>3, <1>6, <1>8, <1>10, <1>11

\* So every item of the range is in one block, once.
LEMMA BlocksPartition ==
  /\ \A t \in Threads : IsInjective(Block(t))
  /\ \A t, u \in Threads : t # u => Range(Block(t)) \cap Range(Block(u)) = {}
  /\ UNION {Range(Block(t)) : t \in Threads} = Range(InitialItems)
<1> DEFINE L == Len(InitialItems)
<1>0. /\ L \in Nat /\ DOMAIN InitialItems = 1 .. L /\ ActiveThreads \in Nat \ {0}
      /\ NumPer \in Nat \ {0} /\ L <= NumPer * ActiveThreads
      /\ \A t \in Threads : t \in Nat /\ t + 1 \in Nat
  BY TopologyAssumption, ForEachAssumption, NumPerIs DEF Threads
<1>1. ASSUME NEW t \in Threads
      PROVE  /\ Bound(t) \in 0 .. L /\ Bound(t + 1) \in Bound(t) .. L
             /\ DOMAIN Block(t) = 1 .. Bound(t + 1) - Bound(t)
             /\ \A i \in DOMAIN Block(t) : /\ Block(t)[i] = InitialItems[Bound(t) + i]
                                           /\ Bound(t) + i \in DOMAIN InitialItems
                                           /\ Bound(t) + i \in Bound(t) + 1 .. Bound(t + 1)
  <2>1. Bound(t) \in 0 .. L /\ Bound(t + 1) \in Bound(t) .. L
    BY <1>0, BoundIs
  <2>2. DOMAIN Block(t) = 1 .. Bound(t + 1) - Bound(t)
    BY <2>1, BlockIs
  <2> QED BY <1>0, <2>1, <2>2, BlockIs, SMTT(30)
<1> HIDE DEF L
<1>2. ASSUME NEW t \in Threads PROVE IsInjective(Block(t))
  <2> SUFFICES ASSUME NEW i \in DOMAIN Block(t), NEW j \in DOMAIN Block(t),
                      Block(t)[i] = Block(t)[j]
               PROVE  i = j
    BY DEF IsInjective
  <2>1. Bound(t) + i = Bound(t) + j
    BY <1>1, ItemsAreDistinct, SMTT(30) DEF IsInjective
  <2> QED BY <1>1, <2>1
<1>3. ASSUME NEW t \in Threads, NEW u \in Threads, t < u
      PROVE  Range(Block(t)) \cap Range(Block(u)) = {}
  <2> SUFFICES ASSUME NEW i \in DOMAIN Block(t), NEW j \in DOMAIN Block(u),
                      Block(t)[i] = Block(u)[j]
               PROVE  FALSE
    BY DEF Range
  <2>1. Bound(t) + i = Bound(u) + j
    BY <1>1, ItemsAreDistinct DEF IsInjective
  <2>2. Bound(t + 1) <= Bound(u)
    BY <1>0, <1>3, BoundIs
  <2> QED BY <1>1, <2>1, <2>2
<1>4. \A t, u \in Threads : t # u => Range(Block(t)) \cap Range(Block(u)) = {}
  BY <1>0, <1>3
<1>5. \A t \in Threads : Range(Block(t)) \subseteq Range(InitialItems)
  BY <1>1 DEF Range
<1>6. ASSUME NEW k \in 1 .. L
      PROVE  \E t \in Threads : InitialItems[k] \in Range(Block(t))
  <2>1. PICK p \in Nat \ {0} : p = NumPer
    BY <1>0
  <2>2. PICK q \in Nat : q = (k - 1) \div p
    BY <1>0, <2>1
  <2>3. p * q <= k - 1 /\ k - 1 < p * q + p
    BY <1>0, <2>1, <2>2
  <2>4. q \in Threads
    <3>1. p * q < p * ActiveThreads
      BY <1>0, <2>1, <2>3
    <3>2. ASSUME q >= ActiveThreads PROVE FALSE
      <4>1. PICK d \in Nat : q = ActiveThreads + d
        BY <1>0, <3>2
      <4>2. p * q = p * ActiveThreads + p * d /\ p * d \in Nat
        BY <1>0, <4>1
      <4> QED BY <1>0, <3>1, <4>2
    <3> QED BY <1>0, <3>2 DEF Threads
  <2>5. p * (q + 1) = p * q + p
    OBVIOUS
  <2>6. Bound(q) < k /\ k <= Bound(q + 1)
    <3>1. Bound(q) = p * q
      BY <1>0, <2>1, <2>3 DEF Bound, L
    <3>2. k <= Bound(q + 1)
      BY <1>0, <2>1, <2>3, <2>5 DEF Bound, L
    <3> QED BY <2>3, <3>1, <3>2
  <2>7. PICK i \in DOMAIN Block(q) : i = k - Bound(q)
    BY <1>1, <2>4, <2>6
  <2>8. Block(q)[i] = InitialItems[k]
    BY <1>1, <2>4, <2>7
  <2> QED BY <2>4, <2>8 DEF Range
<1>7. Range(InitialItems) \subseteq UNION {Range(Block(t)) : t \in Threads}
  BY <1>0, <1>6 DEF Range
<1> QED BY <1>2, <1>4, <1>5, <1>7

-----------------------------------------------------------------------------
\* The inductive invariant of the loop, but for where its items are.
LoopInv ==
  /\ StateTypes /\ PlacesAgree /\ LooksAreFresh
  /\ LocksApart /\ ChunksFit /\ QueuedFit
  /\ RingInv

LEMMA LoopInitially == Init => LoopInv
<1> SUFFICES ASSUME Init PROVE LoopInv
  OBVIOUS
<1>0. 0 \in Threads /\ ActiveThreads \in Nat \ {0} /\ ChunkSize \in Nat
  BY TopologyAssumption, ChunkSizeAssumption DEF Threads
<1>1. WlTypes
  <2>1. <<>> \in Seq(Items) /\ <<>> \in Seq(Seq(Items))
    OBVIOUS
  <2> QED BY <1>0, <2>1 DEF Init, WlInit, WlTypes
<1>2. RingTypes
  BY ZenonT(30) DEF Init, TermInit, RingTypes
<1>3. LoopTypes
  <2>1. <<>> \in Seq(Items \X Nat)
    OBVIOUS
  <2>2. pushBuffer \in [Threads -> Seq(Items)]
    BY BlockIs DEF Init
  <2> QED BY <2>1, <2>2 DEF Init, LoopTypes, Locations, Working
<1>4. PlacesAgree /\ LooksAreFresh /\ LocksApart
  BY DEF Init, WlInit, TermInit, PlacesAgree, LooksAreFresh, LocksApart, Working
<1>5. ChunksFit /\ QueuedFit
  <2>1. Len(<<>>) = 0
    OBVIOUS
  <2> QED BY <1>0, <2>1, SetOfEmpty DEF Init, WlInit, ChunksFit, QueuedFit
<1>6. OneToken
  BY <1>0 DEF Init, TermInit, OneToken, HasIt
<1>7. Worked(0) /\ ~globalTerm
  BY <1>0 DEF Init, TermInit, Worked
<1>8. FirstRound /\ SecondRound /\ Ended
  BY <1>0, <1>7 DEF FirstRound, SecondRound, Ended
<1> QED BY <1>1, <1>2, <1>3, <1>4, <1>5, <1>6, <1>8 DEF LoopInv, StateTypes, RingInv

LEMMA LoopStep == LoopInv /\ [Next]_vars => LoopInv'
<1> SUFFICES ASSUME LoopInv, [Next]_vars PROVE LoopInv'
  OBVIOUS
<1> USE DEF LoopInv
<1>1. StateTypes' /\ PlacesAgree' /\ LooksAreFresh' /\ LocksApart' /\ RingInv'
  BY TypesStep, PlacesStep, FreshStep, LocksStep, RingStep
<1>2. ChunksFit' /\ QueuedFit'
  <2>1. CASE UNCHANGED vars
    BY <2>1 DEF vars, wlVars, ChunksFit, QueuedFit, Sockets, SocketOf
  <2>2. ASSUME NEW t \in Threads, Go(t) PROVE ChunksFit' /\ QueuedFit'
    <3>1. PushOne(t) => \E x \in Items : Emplace(t, x)
      BY SetOfHeadTail DEF PushOne, StateTypes, LoopTypes
    <3>2. PopItem(t) => \E x : ExtractFront(t, x)
      BY DEF PopItem
    <3>3. SearchWorklist(t) => Search(t)
      BY DEF SearchWorklist
    <3>4. LeaveWorklist(t) => UNCHANGED wlVars \/ PopNothing(t)
      BY DEF LeaveWorklist
    <3>5. \/ ArriveAtBarrier(t) \/ LeaveBarrier(t) \/ PopAborted(t) \/ LeaveAborts(t)
          \/ Acquire(t) \/ Return(t) \/ Commit(t) \/ Conflict(t) \/ CancelIteration(t)
          \/ PushAborted(t) \/ Terminate(t) \/ Propagate(t) \/ CheckTermination(t)
          => UNCHANGED wlVars
      BY ZenonT(30) DEF ArriveAtBarrier, LeaveBarrier, PopAborted, LeaveAborts, Acquire, Return,
             Commit, Conflict, CancelIteration, PushAborted, Terminate, Propagate,
             CheckTermination
    <3>6. \/ UNCHANGED wlVars
          \/ \E x \in Items : Emplace(t, x)
          \/ \E x : ExtractFront(t, x)
          \/ Search(t)
          \/ PopNothing(t)
      BY <2>2, <3>1, <3>2, <3>3, <3>4, <3>5 DEF Go, Step
    <3> QED BY <2>2, <3>6, ChunksStep DEF StateTypes, Go
  <2> QED BY <2>1, <2>2 DEF Next
<1> QED BY <1>1, <1>2

LEMMA LoopAlways == Spec => []LoopInv
  BY LoopInitially, LoopStep, PTL DEF Spec

\* For any number of threads and chunk size, and whatever conflicts: a lock is
\* one iteration's (acquire, commitIteration, cancelIteration), there is one
\* token (localTermination, propToken), and chunks do not overflow (emplace).
THEOREM LoopStateIsSound == Spec => []TypeOK
<1>1. LoopInv => TypeOK
  <2> SUFFICES ASSUME LoopInv PROVE TypeOK
    OBVIOUS
  <2>1. PICK h \in Threads : HasIt(h)
    BY DEF LoopInv, RingInv, OneToken
  <2>2. {t \in Threads : hasToken[t] \/ handing[t] # "none"} = {h}
    BY <2>1 DEF LoopInv, RingInv, OneToken, HasIt
  <2> QED BY <2>2 DEF LoopInv, LocksApart, ChunksFit, TypeOK
<1> QED BY <1>1, LoopAlways, PTL

\* For any number of threads: the assertions of localTermination hold.  Once
\* thread 0 has announced the end, no thread works and no token is under way.
THEOREM NoWorkAfterTheEnd == Spec => []NothingAfterTermination
<1>1. LoopInv => NothingAfterTermination
  <2> SUFFICES ASSUME LoopInv, globalTerm
               PROVE  /\ \A t \in Threads : ~didWork[t] /\ handing[t] = "none"
                      /\ \A t \in Threads \ {0} : ~hasToken[t]
    BY DEF NothingAfterTermination
  <2>1. 0 \in Threads /\ hasToken[0]
    BY TopologyAssumption DEF LoopInv, RingInv, Ended, Threads
  <2>2. \A t \in Threads : HasIt(t) => t = 0
    BY <2>1 DEF LoopInv, RingInv, OneToken, HasIt
  <2>3. handing[0] = "none"
    BY <2>1 DEF LoopInv, RingInv, OneToken
  <2> QED BY <2>2, <2>3 DEF LoopInv, RingInv, Ended, HasIt
<1> QED BY <1>1, LoopAlways, PTL

=============================================================================
