------------------------------- MODULE ForEach -------------------------------
(***************************************************************************)
(* galois::for_each (runtime/Executor_ForEach.h): threads that take items  *)
(* from the worklist, run the operator on them speculatively, abort and    *)
(* retry what conflicts, and agree on the end of the loop.                 *)
(*                                                                         *)
(* The operator is any cautious one: it locks the nodes of its item's      *)
(* neighbourhood one after the other and then pushes items.  As the mesh's *)
(* loops with several threads do, it can conflict and never breaks.        *)
(***************************************************************************)
EXTENDS ChunkedWorklist, Termination, Functions

CONSTANTS
  InitialItems, \* the range of the loop, a sequence
  Nhood,        \* the locks the iteration on an item acquires, in order
  Pushes,       \* the items it pushes, in order
  Limit         \* iterations a leader runs before it turns to aborted items

Items == DOMAIN Nhood

ASSUME ForEachAssumption ==
  /\ InitialItems \in Seq(Items)
  /\ Pushes \in [Items -> Seq(Items)]
  /\ Limit \in Nat \ {0}

\* The operator pushes nodes that it has just created: no item comes twice.
ASSUME ItemsAreDistinct ==
  /\ IsInjective(InitialItems)
  /\ \A i \in Items :
       /\ IsInjective(Pushes[i])
       /\ Range(Pushes[i]) \cap Range(InitialItems) = {}
       /\ \A j \in Items \ {i} : Range(Pushes[i]) \cap Range(Pushes[j]) = {}

VARIABLES
  aborted,    \* each thread's queue of <<item, retries>>
  pc,         \* where a thread is
  loop,       \* the queue it runs: "worklist" or "aborts"
  item,       \* the <<item, retries>> it works on
  acquired,   \* how many acquisitions its iteration has made
  held,       \* the locks its context holds
  pushBuffer,
  num,        \* iterations of the leader's runQueue
  didWork,
  done        \* the items whose iteration has committed

iterVars == <<item, acquired, held>>
execVars == <<aborted, pc, loop, iterVars, pushBuffer, num, didWork, done>>
vars == <<machine, wlVars, termVars, execVars>>

\* block_range: the part of the range that thread t pushes.
Block(t) ==
  LET dist == Len(InitialItems)
      least(a, b) == IF a < b THEN a ELSE b
      up == (dist + ActiveThreads - 1) \div ActiveThreads
      numper == IF up > 1 THEN up ELSE 1 IN
  SubSeq(InitialItems, least(numper * t, dist) + 1, least(numper * (t + 1), dist))

Init ==
  /\ machine \in Machines
  /\ WlInit
  /\ TermInit
  /\ aborted = [t \in Threads |-> <<>>]
  /\ pc = [t \in Threads |-> "init"]
  /\ loop = [t \in Threads |-> "worklist"]
  /\ item = [t \in Threads |-> <<>>]
  /\ acquired = [t \in Threads |-> 0]
  /\ held = [t \in Threads |-> {}]
  /\ pushBuffer = [t \in Threads |-> Block(t)]
  /\ num = [t \in Threads |-> 0]
  /\ didWork = [t \in Threads |-> FALSE]
  /\ done = {}

Goto(t, place) == pc' = [pc EXCEPT ![t] = place]

\* The worklist's push, for the initial items and for those of an iteration.
PushOne(t) ==
  /\ pc[t] \in {"init", "commit"}
  /\ pushBuffer[t] # <<>>
  /\ Emplace(t, Head(pushBuffer[t]))
  /\ pushBuffer' = [pushBuffer EXCEPT ![t] = Tail(@)]
  /\ UNCHANGED <<termVars, aborted, pc, loop, iterVars, num, didWork, done>>

ArriveAtBarrier(t) ==
  /\ pc[t] = "init"
  /\ pushBuffer[t] = <<>>
  /\ Goto(t, "barrier")
  /\ UNCHANGED <<wlVars, termVars, aborted, loop, iterVars, pushBuffer, num,
                 didWork, done>>

LeaveBarrier(t) ==
  /\ pc[t] = "barrier"
  /\ \A u \in Threads : pc[u] # "init"
  /\ Goto(t, "pop")
  /\ UNCHANGED <<wlVars, termVars, aborted, loop, iterVars, pushBuffer, num,
                 didWork, done>>

-----------------------------------------------------------------------------
\* runQueue on the worklist.  A leader leaves it after Limit iterations.
AtLimit(t) == IsLeader(t) /\ num[t] = Limit

StartIteration(t, x) ==
  /\ item' = [item EXCEPT ![t] = x]
  /\ acquired' = [acquired EXCEPT ![t] = 0]
  /\ didWork' = [didWork EXCEPT ![t] = TRUE]
  /\ Goto(t, "work")

PopItem(t) ==
  /\ pc[t] = "pop" /\ loop[t] = "worklist"
  /\ ~AtLimit(t)
  /\ \E x \in Range(cur[t]) : ExtractFront(t, x) /\ StartIteration(t, <<x, 0>>)
  /\ num' = [num EXCEPT ![t] = IF IsLeader(t) THEN @ + 1 ELSE @]
  /\ UNCHANGED <<termVars, aborted, loop, held, pushBuffer, done>>

SearchWorklist(t) ==
  /\ pc[t] = "pop" /\ loop[t] = "worklist"
  /\ ~AtLimit(t)
  /\ Search(t)
  /\ UNCHANGED <<termVars, execVars>>

LeaveWorklist(t) ==
  /\ pc[t] = "pop" /\ loop[t] = "worklist"
  /\ IF AtLimit(t) THEN UNCHANGED wlVars ELSE PopNothing(t)
  /\ loop' = [loop EXCEPT ![t] = "aborts"]
  /\ UNCHANGED <<termVars, aborted, pc, iterVars, pushBuffer, num, didWork, done>>

\* handleAborts: runQueue on the thread's aborted items.
PopAborted(t) ==
  /\ pc[t] = "pop" /\ loop[t] = "aborts"
  /\ aborted[t] # <<>>
  /\ StartIteration(t, Head(aborted[t]))
  /\ aborted' = [aborted EXCEPT ![t] = Tail(@)]
  /\ UNCHANGED <<wlVars, termVars, loop, held, pushBuffer, num, done>>

NeverAsk(t) ==                          \* mutant: the end is not asked for
  /\ pc[t] = "pop" /\ loop[t] = "aborts"
  /\ aborted[t] = <<>>
  /\ loop' = [loop EXCEPT ![t] = "worklist"]
  /\ UNCHANGED <<wlVars, termVars, aborted, pc, iterVars, pushBuffer, num,
                 didWork, done>>
LeaveAborts(t) ==
  /\ pc[t] = "pop" /\ loop[t] = "aborts"
  /\ aborted[t] = <<>>
  /\ Goto(t, "term")
  /\ UNCHANGED <<wlVars, termVars, aborted, loop, iterVars, pushBuffer, num,
                 didWork, done>>

-----------------------------------------------------------------------------
\* The operator's next acquire.
Wanted(t) == Nhood[item[t][1]][acquired[t] + 1]
AllAcquired(t) == acquired[t] = Len(Nhood[item[t][1]])
Owned(l, t) == \E u \in Threads \ {t} : l \in held[u]

Acquire(t) ==
  /\ pc[t] = "work"
  /\ ~AllAcquired(t)
  /\ ~Owned(Wanted(t), t)
  /\ held' = [held EXCEPT ![t] = @ \cup {Wanted(t)}]
  /\ acquired' = [acquired EXCEPT ![t] = @ + 1]
  /\ UNCHANGED <<wlVars, termVars, aborted, pc, loop, item, pushBuffer, num,
                 didWork, done>>

\* The operator returns; from here on its effects stay.
Return(t) ==
  /\ pc[t] = "work"
  /\ AllAcquired(t)
  /\ pushBuffer' = [pushBuffer EXCEPT ![t] = Pushes[item[t][1]]]
  /\ done' = done \cup {item[t][1]}
  /\ Goto(t, "commit")
  /\ UNCHANGED <<wlVars, termVars, aborted, loop, iterVars, num, didWork>>

\* commitIteration releases the locks after the pushes.
Commit(t) ==
  /\ pc[t] = "commit"
  /\ pushBuffer[t] = <<>>
  /\ held' = [held EXCEPT ![t] = {}]
  /\ item' = [item EXCEPT ![t] = <<>>]
  /\ Goto(t, "pop")
  /\ UNCHANGED <<wlVars, termVars, aborted, loop, acquired, pushBuffer, num,
                 didWork, done>>

Conflict(t) ==
  /\ pc[t] = "work"
  /\ ~AllAcquired(t)
  /\ Owned(Wanted(t), t)
  /\ Goto(t, "cancel")
  /\ UNCHANGED <<wlVars, termVars, aborted, loop, iterVars, pushBuffer, num,
                 didWork, done>>

KeepLocks(t) ==                         \* mutant: the locks are not released
  /\ pc[t] = "cancel"
  /\ Goto(t, "abort")
  /\ UNCHANGED <<wlVars, termVars, aborted, loop, iterVars, pushBuffer,
                 num, didWork, done>>
CancelIteration(t) ==
  /\ pc[t] = "cancel"
  /\ held' = [held EXCEPT ![t] = {}]
  /\ Goto(t, "abort")
  /\ UNCHANGED <<wlVars, termVars, aborted, loop, item, acquired, pushBuffer,
                 num, didWork, done>>

-----------------------------------------------------------------------------
\* AbortHandler: which thread's queue an aborted item goes to.  The policies
\* only look at the parity of retries, so the count is kept below 4.
NextRetries(r) == IF r = 3 THEN 2 ELSE r + 1

BasicPolicy(t) == GetLeaderForSocket(SocketOf[t] \div 2)

DoublePolicy(t, retries) ==
  IF (retries - 1) % 2 = 1 THEN t
  ELSE IF t # GetLeader(t) THEN GetLeader(t) + (t - GetLeader(t)) \div 2
  ELSE GetLeaderForSocket(SocketOf[t] \div 2)

\* An item of the worklist is first kept (push(val)).
EagerPolicy(t, retries) == t            \* mutant: aborted items stay
AbortPolicy(t, retries) ==
  IF retries = 1 THEN t
  ELSE IF MaxSockets > 2 THEN BasicPolicy(t)
  ELSE DoublePolicy(t, retries)

\* runQueue returns after an abort: the thread turns to its aborted items, or
\* to termination if it was with them.
PushAborted(t) ==
  LET retries == NextRetries(item[t][2]) IN
  /\ pc[t] = "abort"
  /\ aborted' = [aborted EXCEPT ![AbortPolicy(t, retries)] =
                   Append(@, <<item[t][1], retries>>)]
  /\ item' = [item EXCEPT ![t] = <<>>]
  /\ loop' = [loop EXCEPT ![t] = "aborts"]
  /\ Goto(t, IF loop[t] = "worklist" THEN "pop" ELSE "term")
  /\ UNCHANGED <<wlVars, termVars, acquired, held, pushBuffer, num, didWork,
                 done>>

-----------------------------------------------------------------------------
ForgetWork(t) ==                        \* mutant: didWork is not passed on
  /\ pc[t] = "term"
  /\ LocalTermination(t, FALSE)
  /\ Goto(t, IF handing'[t] = "none" THEN "check" ELSE "prop")
  /\ UNCHANGED <<wlVars, aborted, loop, iterVars, pushBuffer, num, didWork, done>>
Terminate(t) ==
  /\ pc[t] = "term"
  /\ LocalTermination(t, didWork[t])
  /\ Goto(t, IF handing'[t] = "none" THEN "check" ELSE "prop")
  /\ UNCHANGED <<wlVars, aborted, loop, iterVars, pushBuffer, num, didWork, done>>

Propagate(t) ==
  /\ pc[t] = "prop"
  /\ PropColour(t) \/ PropToken(t)
  /\ Goto(t, IF handing'[t] = "none" THEN "check" ELSE "prop")
  /\ UNCHANGED <<wlVars, aborted, loop, iterVars, pushBuffer, num, didWork, done>>

CheckTermination(t) ==
  /\ pc[t] = "check"
  /\ Goto(t, IF globalTerm THEN "exit" ELSE "pop")
  /\ loop' = [loop EXCEPT ![t] = "worklist"]
  /\ num' = [num EXCEPT ![t] = 0]
  /\ didWork' = [didWork EXCEPT ![t] = FALSE]
  /\ UNCHANGED <<wlVars, termVars, aborted, iterVars, pushBuffer, done>>

Step(t) ==
  \/ PushOne(t) \/ ArriveAtBarrier(t) \/ LeaveBarrier(t)
  \/ PopItem(t) \/ SearchWorklist(t) \/ LeaveWorklist(t)
  \/ PopAborted(t) \/ LeaveAborts(t)
  \/ Acquire(t) \/ Return(t) \/ Commit(t)
  \/ Conflict(t) \/ CancelIteration(t) \/ PushAborted(t)
  \/ Terminate(t) \/ Propagate(t) \/ CheckTermination(t)

Go(t) == Step(t) /\ UNCHANGED machine

AllExited == \A t \in Threads : pc[t] = "exit"

Next == (\E t \in Threads : Go(t)) \/ (AllExited /\ UNCHANGED vars)

Spec == Init /\ [][Next]_vars

\* Every thread is scheduled again and again.
FairSpec == Spec /\ \A t \in Threads : WF_vars(Go(t))

-----------------------------------------------------------------------------
\* The items a thread works on, and those in all the places items can be.
InHand(t) == {item[t][1] : x \in {y \in {pc[t]} : y \in {"work", "cancel", "abort"}}}
Waiting(t) == Range(cur[t]) \cup Range(next[t]) \cup Range(pushBuffer[t])
                \cup {x[1] : x \in Range(aborted[t])} \cup InHand(t)
InQueue(s) == UNION {Range(c) : c \in Range(Q[s])}
Unfinished == (UNION {Waiting(t) : t \in Threads})
                \cup UNION {InQueue(s) : s \in Sockets}

Abstract ==
  INSTANCE UnorderedSet WITH
    InitialItems <- Range(InitialItems),
    Pushes <- [i \in DOMAIN Pushes |-> Range(Pushes[i])],
    todo <- Unfinished,
    finished <- globalTerm

\* Locks belong to one context and only while an iteration runs; at most one
\* token exists; chunks do not overflow.
TypeOK ==
  /\ \A t \in Threads : held[t] # {} => pc[t] \in {"work", "commit", "cancel"}
  /\ \A t, u \in Threads : t # u => held[t] \cap held[u] = {}
  /\ \E t \in Threads : {u \in Threads : hasToken[u] \/ handing[u] # "none"} = {t}
  /\ \A t \in Threads : Len(cur[t]) <= ChunkSize /\ Len(next[t]) <= ChunkSize

\* for_each processes every item exactly once, and the token ring announces
\* the end only when no item is left: none in the chunk of another thread, in
\* an abort queue that a thread filled after its owner had looked at it, or in
\* the hands of a thread.
ImplementsUnorderedSet == Abstract!SetSpec

\* The assertions of localTermination: no thread has worked, and no token is
\* under way, once the end has been announced.
NothingAfterTermination ==
  globalTerm => /\ \A t \in Threads : ~didWork[t] /\ handing[t] = "none"
                /\ \A t \in Threads \ {0} : ~hasToken[t]

\* The loop ends.  Two iterations that lock the same nodes in opposite orders
\* can abort each other again and again, but not for ever: the abort handler
\* moves what is aborted towards thread 0, which runs it alone.
Terminates == <>AllExited
=============================================================================
