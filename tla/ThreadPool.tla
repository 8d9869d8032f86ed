----------------------------- MODULE ThreadPool -----------------------------
(***************************************************************************)
(* The pool that every parallel loop runs on (ThreadPool.h, ThreadPool.cpp)*)
(* Thread 0 is the program's; a run wakes the others down a binary tree    *)
(* (cascade), each does the work, and they report up the tree (decascade). *)
(* A thread waits for a run on a condition variable or, after burnPower,   *)
(* by spinning.  runDedicated takes a thread out of the pool.              *)
(***************************************************************************)
EXTENDS Integers, Sequences, FiniteSets

CONSTANTS
  MaxThreads,       \* mi.maxThreads
  MaxCalls          \* bound on the calls of the program

ASSUME PoolAssumption == MaxThreads \in Nat \ {0, 1} /\ MaxCalls \in Nat

Threads == 0 .. MaxThreads - 1
Workers == Threads \ {0}

VARIABLES
  pc, wbegin, wend, done, fastRelease,  \* per thread: its place and its my_box
  fastmode,        \* per worker: how it waits
  masterFastmode, reserved, running, work,
  num,             \* threads of the current run
  todo,            \* the runs left of thread 0's call
  ran,             \* how often each thread has called work in this run
  calls            \* calls made so far

boxVars == <<wbegin, wend, done, fastRelease>>
masterVars == <<masterFastmode, reserved, running, num, todo, calls>>
poolVars == <<pc, boxVars, fastmode, masterVars, work, ran>>

\* The constructor has waited for all threads.
PoolInit ==
  /\ pc = [t \in Threads |-> IF t = 0 THEN "idle" ELSE "wait"]
  /\ wbegin = [t \in Threads |-> 0]
  /\ wend = [t \in Threads |-> 0]
  /\ done = [t \in Threads |-> TRUE]
  /\ fastRelease = [t \in Threads |-> FALSE]
  /\ fastmode = [t \in Workers |-> FALSE]
  /\ masterFastmode = 0
  /\ reserved = 0
  /\ running = FALSE
  /\ work = "none"
  /\ num = 0
  /\ todo = <<>>
  /\ ran = [t \in Threads |-> 0]
  /\ calls = 0

Go(t, place) == pc' = [pc EXCEPT ![t] = place]

-----------------------------------------------------------------------------
\* The calls.  Each is a sequence of runs: of what, on how many threads, and
\* the value of masterFastmode after it.
ARun(w, n, fast) == [work |-> w, num |-> n, fast |-> fast]

BeKindRuns == IF masterFastmode # 0 THEN <<ARun("leaveFast", masterFastmode, 0)>> ELSE <<>>

BurnPowerRunsNoReset(n) ==               \* mutant: a change of n is no reset
  IF masterFastmode = n /\ n # 0 THEN <<>> ELSE <<ARun("enterFast", n, n)>>
BurnPowerRuns(n) ==
  IF masterFastmode = n /\ n # 0 THEN <<>>
  ELSE Append(BeKindRuns, ARun("enterFast", n, n))

Call(runs) ==
  /\ pc[0] = "idle"
  /\ todo = <<>>
  /\ calls < MaxCalls
  /\ calls' = calls + 1
  /\ todo' = runs
  /\ UNCHANGED <<pc, boxVars, fastmode, masterFastmode, reserved, running, num, work, ran>>

\* Loops run on getActiveThreads() threads.  setActiveThreads keeps this number
\* within the threads that are usable when it is called; runDedicated does not
\* set it again, so that it may be any number up to MaxThreads.  In fast mode
\* the program runs no loop on more threads than it has put into it.
Run(n) ==
  /\ masterFastmode = 0 \/ n <= masterFastmode
  /\ Call(<<ARun("user", n, masterFastmode)>>)

BurnPower(n) == Call(BurnPowerRuns(n))

BeKind == masterFastmode # 0 /\ Call(BeKindRuns)

\* The destructor.
Shutdown == Call(Append(BeKindRuns, ARun("shutdown", MaxThreads, 0)))

-----------------------------------------------------------------------------
\* wakeup(fast) of the child c, which is to wake the threads b .. e - 1.  A
\* thread asleep on its condition variable is notified in slow mode only.
Wakeup(c, b, e, fast) ==
  /\ wbegin' = [wbegin EXCEPT ![c] = b]
  /\ wend' = [wend EXCEPT ![c] = e]
  /\ done' = [done EXCEPT ![c] = FALSE]
  /\ fastRelease' = [fastRelease EXCEPT ![c] = @ \/ fast]

NotNotified(t, place, c, fast) == pc' = [pc EXCEPT ![t] = place]  \* mutant
Notified(t, place, c, fast) ==
  pc' = [pc EXCEPT ![t] = place,
                   ![c] = IF ~fast /\ @ = "asleep" THEN "wait" ELSE @]

IsFast(t) == IF t = 0 THEN masterFastmode # 0 ELSE fastmode[t]

UsableThreads == MaxThreads - reserved

\* min(max(1, n), mi.maxThreads - reserved)
Sanitized(n) ==
  LET atLeastOne == IF n = 0 THEN 1 ELSE n
  IN  IF atLeastOne < UsableThreads THEN atLeastOne ELSE UsableThreads

\* runInternal, up to cascade.
StartRun ==
  /\ pc[0] = "idle"
  /\ todo # <<>>
  /\ running' = TRUE
  /\ work' = Head(todo).work
  /\ num' = Sanitized(Head(todo).num)
  /\ wbegin' = [wbegin EXCEPT ![0] = 1]
  /\ wend' = [wend EXCEPT ![0] = num']
  /\ ran' = [t \in Threads |-> 0]
  /\ Go(0, "cascade")
  /\ UNCHANGED <<done, fastRelease, fastmode, masterFastmode, reserved, todo, calls>>

WaitSlow(t) ==
  /\ pc[t] = "wait"
  /\ ~fastmode[t]
  /\ Go(t, IF done[t] THEN "asleep" ELSE "cascade")
  /\ UNCHANGED <<boxVars, fastmode, masterVars, work, ran>>

\* A condition variable may wake up by itself.
Spurious(t) ==
  /\ pc[t] = "asleep"
  /\ Go(t, "wait")
  /\ UNCHANGED <<boxVars, fastmode, masterVars, work, ran>>

WaitFast(t) ==
  /\ pc[t] = "wait"
  /\ fastmode[t]
  /\ fastRelease[t]
  /\ fastRelease' = [fastRelease EXCEPT ![t] = FALSE]
  /\ Go(t, "cascade")
  /\ UNCHANGED <<wbegin, wend, done, fastmode, masterVars, work, ran>>

\* The second child of a thread that wakes the threads wbegin .. wend - 1.
Midpoint(t) == wbegin[t] + (1 + wend[t] - wbegin[t]) \div 2

Cascade(t) ==
  /\ pc[t] = "cascade"
  /\ \/ /\ wbegin[t] # wend[t]
        /\ Wakeup(wbegin[t], wbegin[t] + 1, Midpoint(t), IsFast(t))
        /\ Notified(t, "cascade2", wbegin[t], IsFast(t))
     \/ /\ wbegin[t] = wend[t]
        /\ Go(t, "work")
        /\ UNCHANGED boxVars
  /\ UNCHANGED <<fastmode, masterVars, work, ran>>

CascadeSecond(t) ==
  /\ pc[t] = "cascade2"
  /\ \/ /\ Midpoint(t) < wend[t]
        /\ Wakeup(Midpoint(t), Midpoint(t) + 1, wend[t], IsFast(t))
        /\ Notified(t, "work", Midpoint(t), IsFast(t))
     \/ /\ Midpoint(t) >= wend[t]
        /\ Go(t, "work")
        /\ UNCHANGED boxVars
  /\ UNCHANGED <<fastmode, masterVars, work, ran>>

\* work(): what it throws decides how the thread goes on.
After(t) ==
  CASE work = "shutdown" -> IF t = 0 THEN "joining" ELSE "exited"
    [] work = "dedicated" -> "dedicated"
    [] OTHER -> "join"

Work(t) ==
  /\ pc[t] = "work"
  /\ Go(t, After(t))
  /\ ran' = [ran EXCEPT ![t] = @ + 1]
  /\ fastmode' = IF t # 0 /\ work \in {"enterFast", "leaveFast"}
                   THEN [fastmode EXCEPT ![t] = (work = "enterFast")] ELSE fastmode
  /\ done' = IF work = "dedicated" THEN [done EXCEPT ![t] = TRUE] ELSE done
  /\ UNCHANGED <<wbegin, wend, fastRelease, masterVars, work>>

\* decascade waits for the children, one after the other.
Join(t) ==
  /\ pc[t] = "join"
  /\ wbegin[t] # wend[t] => done[wbegin[t]]
  /\ Go(t, "join2")
  /\ UNCHANGED <<boxVars, fastmode, masterVars, work, ran>>

JoinFirstOnly(t) ==                      \* mutant: the second child is not waited for
  /\ pc[t] = "join2"
  /\ done' = [done EXCEPT ![t] = TRUE]
  /\ Go(t, IF t = 0 THEN "end" ELSE "wait")
  /\ UNCHANGED <<wbegin, wend, fastRelease, fastmode, masterVars, work, ran>>
JoinSecond(t) ==
  /\ pc[t] = "join2"
  /\ wbegin[t] # wend[t] /\ Midpoint(t) < wend[t] => done[Midpoint(t)]
  /\ done' = [done EXCEPT ![t] = TRUE]
  /\ Go(t, IF t = 0 THEN "end" ELSE "wait")
  /\ UNCHANGED <<wbegin, wend, fastRelease, fastmode, masterVars, work, ran>>

EndRun ==
  /\ pc[0] = "end"
  /\ work' = "none"
  /\ running' = FALSE
  /\ masterFastmode' = Head(todo).fast
  /\ todo' = Tail(todo)
  /\ Go(0, "idle")
  /\ UNCHANGED <<boxVars, fastmode, reserved, num, ran, calls>>

-----------------------------------------------------------------------------
\* The last thread of the pool, or what is left of it.
Dedicated == MaxThreads - reserved - 1

\* Up to the assignment to done, which is not under the thread's mutex.
RunDedicated ==
  /\ pc[0] = "idle"
  /\ todo = <<>>
  /\ calls < MaxCalls
  /\ Dedicated > 0
  /\ calls' = calls + 1
  /\ reserved' = reserved + 1
  /\ work' = "dedicated"
  /\ wbegin' = [wbegin EXCEPT ![Dedicated] = 0]
  /\ wend' = [wend EXCEPT ![Dedicated] = 0]
  /\ done' = [done EXCEPT ![Dedicated] = FALSE]
  /\ Go(0, "dedicate")
  /\ ran' = [t \in Threads |-> 0]
  /\ UNCHANGED <<fastRelease, fastmode, masterFastmode, running, num, todo>>

WakeDedicated ==
  /\ pc[0] = "dedicate"
  /\ Wakeup(MaxThreads - reserved, 0, 0, masterFastmode # 0)
  /\ Notified(0, "dedicating", MaxThreads - reserved, masterFastmode # 0)
  /\ UNCHANGED <<fastmode, masterVars, work, ran>>

EndRunDedicated ==
  /\ pc[0] = "dedicating"
  /\ done[MaxThreads - reserved]
  /\ work' = "none"
  /\ Go(0, "idle")
  /\ UNCHANGED <<boxVars, fastmode, masterVars, ran>>

\* The dedicated function returns at the end of the program.
DedicatedReturns(t) ==
  /\ pc[t] = "dedicated"
  /\ pc[0] = "joining"
  /\ Go(t, "exited")
  /\ UNCHANGED <<boxVars, fastmode, masterVars, work, ran>>

\* The destructor has joined all threads.
Joined ==
  /\ pc[0] = "joining"
  /\ \A t \in Workers : pc[t] = "exited"
  /\ Go(0, "exited")
  /\ UNCHANGED <<boxVars, fastmode, masterVars, work, ran>>

Exited == pc[0] = "exited" /\ UNCHANGED poolVars

\* A call has been made, and the program does not make another.
Rest == pc[0] = "idle" /\ todo = <<>> /\ calls = MaxCalls /\ UNCHANGED poolVars

Progress(t) ==
  \/ t # 0 /\ (WaitSlow(t) \/ WaitFast(t) \/ DedicatedReturns(t))
  \/ t = 0 /\ (StartRun \/ EndRun \/ WakeDedicated \/ EndRunDedicated \/ Joined)
  \/ Cascade(t) \/ CascadeSecond(t) \/ Work(t) \/ Join(t) \/ JoinSecond(t)

PoolNext ==
  \/ \E t \in Threads : Progress(t) \/ Spurious(t)
  \/ \E n \in 0 .. MaxThreads : Run(n) \/ BurnPower(n)
  \/ BeKind \/ RunDedicated \/ Shutdown \/ Rest \/ Exited

\* The threads are scheduled by the operating system.
PoolSpec ==
  /\ PoolInit
  /\ [][PoolNext]_poolVars
  /\ \A t \in Threads : WF_poolVars(Progress(t))

-----------------------------------------------------------------------------
\* A thread is in fast mode exactly if it is one of the masterFastmode first,
\* between runs; a release of the fast path is never left over.
PoolTypeOK ==
  pc[0] = "idle" /\ todo = <<>> =>
    \A t \in Workers :
      pc[t] # "dedicated" =>
        /\ fastmode[t] = (t < masterFastmode)
        /\ done[t]
        /\ ~fastRelease[t]

\* When a run returns, each of its threads has called its work once, and no
\* other thread has; nor is any still about to.
EachThreadOnce ==
  /\ \A t \in Threads : ran[t] <= 1
  /\ pc[0] = "end" => \A t \in Threads : ran[t] = (IF t < num THEN 1 ELSE 0)
  /\ pc[0] = "idle" => \A t \in Workers : pc[t] \in {"wait", "asleep", "dedicated"}

\* cascade wakes a thread the way it waits: a thread that spins is released and
\* one that sleeps is notified, whatever calls have gone before and although
\* runDedicated takes threads away that are counted in masterFastmode.
WokenAsTheyWait ==
  \A t \in Threads :
    /\ pc[t] = "cascade" /\ wbegin[t] # wend[t] => fastmode[wbegin[t]] = IsFast(t)
    /\ pc[t] = "cascade2" /\ Midpoint(t) < wend[t] => fastmode[Midpoint(t)] = IsFast(t)

Returned == pc[0] = "exited" \/ (pc[0] = "idle" /\ todo = <<>>)

\* Every call returns: no wake-up is lost, whichever way the threads wait.  Only
\* runDedicated may wait for ever: it clears done before wakeup, which clears it
\* again after a thread that has woken up by itself has set it; and in fast mode
\* it releases a thread that may not be one of those that spin.
CallsReturn == ~Returned ~> Returned \/ pc[0] = "dedicating"
=============================================================================
