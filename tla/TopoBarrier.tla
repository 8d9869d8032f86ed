----------------------------- MODULE TopoBarrier -----------------------------
(***************************************************************************)
(* The barrier of all parallel loops (Barrier_Topo.cpp): one tree node per *)
(* socket, a 4-ary tree that counts the arrivals and a binary tree that    *)
(* spreads the wake-up.  A step is one access to a shared word.  Here      *)
(* ActiveThreads is the size of the pool, num the threads that take part.  *)
(***************************************************************************)
EXTENDS Topology, FiniteSets

CONSTANTS
  Rounds,    \* waits of a thread between two calls of reinit
  SenseBits  \* width of the wake-up words, 32 in the code

VARIABLES
  num, round,     \* as in Barrier
  pc,             \* where a thread is in wait
  sense,          \* the value a thread waits for next
  childnotready,  \* per socket, arrivals still missing
  parentsense     \* per socket, the last wake-up

topoVars == <<machine, num, round, pc, sense, childnotready, parentsense>>

Participants == 0 .. num - 1

\* getCumulativeMaxSocket(P - 1) + 1 sockets take part.
Pkgs == [P \in 1 .. ActiveThreads |-> Cardinality({SocketOf[t] : t \in 0 .. P - 1})]

HaveChild ==
  [P \in 1 .. ActiveThreads, i \in Sockets |->
     Cardinality({j \in 0 .. 3 : 4 * i + j + 1 < Pkgs[P]})
       + Cardinality({t \in 0 .. P - 1 : SocketOf[t] = i /\ ~IsLeader(t)})]

ParentSocket(i) == (i - 1) \div 4

WakeChild(i, k) == 2 * i + k

\* _reinit: the sockets and threads beyond P keep what they hold.
Reset(P) ==
  /\ childnotready' = [i \in Sockets |-> IF i < Pkgs[P] THEN HaveChild[P, i]
                                         ELSE childnotready[i]]
  /\ parentsense' = [i \in Sockets |-> IF i < Pkgs[P] THEN 0 ELSE parentsense[i]]
  /\ sense' = [t \in Threads |-> IF t < P THEN 1 ELSE sense[t]]

\* The system's barrier is built for the whole pool.
TopoInit ==
  /\ machine \in Machines
  /\ num = ActiveThreads
  /\ round = [t \in Threads |-> 0]
  /\ pc = [t \in Threads |-> "out"]
  /\ childnotready = [i \in Sockets |-> HaveChild[num, i]]
  /\ parentsense = [i \in Sockets |-> 0]
  /\ sense = [t \in Threads |-> 1]

Go(t, place) == pc' = [pc EXCEPT ![t] = place]

\* getBarrier with another number of threads, between two parallel loops.
Reinit ==
  /\ \A t \in Threads : pc[t] = "out"
  /\ \E P \in 1 .. ActiveThreads :
       /\ P # num
       /\ num' = P
       /\ Reset(P)
  /\ round' = [t \in Threads |-> 0]
  /\ UNCHANGED pc

\* wait: a leader waits for its children, the others report to their leader.
Wait(t) ==
  /\ t < num
  /\ pc[t] = "out"
  /\ round[t] < Rounds
  /\ round' = [round EXCEPT ![t] = @ + 1]
  /\ IF IsLeader(t)
       THEN Go(t, "children") /\ UNCHANGED childnotready
       ELSE /\ childnotready' = [childnotready EXCEPT ![SocketOf[t]] = @ - 1]
            /\ Go(t, "woken")
  /\ UNCHANGED <<num, sense, parentsense>>

ChildrenReady(t) ==
  /\ pc[t] = "children"
  /\ childnotready[SocketOf[t]] = 0
  /\ Go(t, "reset")
  /\ UNCHANGED <<num, round, sense, childnotready, parentsense>>

ResetForgotten(t) ==               \* mutant: the counter is not reset
  /\ pc[t] = "reset"
  /\ Go(t, IF SocketOf[t] = 0 THEN "signal1" ELSE "report")
  /\ UNCHANGED <<num, round, sense, childnotready, parentsense>>
ResetChildren(t) ==
  /\ pc[t] = "reset"
  /\ childnotready' = [childnotready EXCEPT ![SocketOf[t]] = HaveChild[num, SocketOf[t]]]
  /\ Go(t, IF SocketOf[t] = 0 THEN "signal1" ELSE "report")
  /\ UNCHANGED <<num, round, sense, parentsense>>

Report(t) ==
  /\ pc[t] = "report"
  /\ childnotready' = [childnotready EXCEPT ![ParentSocket(SocketOf[t])] = @ - 1]
  /\ Go(t, "woken")
  /\ UNCHANGED <<num, round, sense, parentsense>>

Leave(t) ==
  /\ sense' = [sense EXCEPT ![t] = (@ + 1) % 2^SenseBits]
  /\ Go(t, "out")
  /\ UNCHANGED <<num, round, childnotready>>

Woken(t) ==
  /\ pc[t] = "woken"
  /\ parentsense[SocketOf[t]] = sense[t]
  /\ IF IsLeader(t)
       THEN Go(t, "signal1") /\ UNCHANGED <<num, round, sense, childnotready>>
       ELSE Leave(t)
  /\ UNCHANGED parentsense

\* childpointers[k - 1]->parentsense = s, where there is such a child.
Signal(t, k) ==
  LET child == WakeChild(SocketOf[t], k)
  IN  parentsense' = IF child < Pkgs[num]
                       THEN [parentsense EXCEPT ![child] = sense[t]]
                       ELSE parentsense

SignalFirst(t) ==
  /\ pc[t] = "signal1"
  /\ Signal(t, 1)
  /\ Go(t, "signal2")
  /\ UNCHANGED <<num, round, sense, childnotready>>

SignalSecond(t) ==
  /\ pc[t] = "signal2"
  /\ Signal(t, 2)
  /\ IF t = 0 THEN Go(t, "own") /\ UNCHANGED <<num, round, sense, childnotready>>
              ELSE Leave(t)

\* Thread 0 wakes the other threads of its socket.
SignalOwn(t) ==
  /\ pc[t] = "own"
  /\ parentsense' = [parentsense EXCEPT ![SocketOf[t]] = sense[t]]
  /\ Leave(t)

Step(t) ==
  \/ Wait(t) \/ ChildrenReady(t) \/ ResetChildren(t) \/ Report(t)
  \/ Woken(t) \/ SignalFirst(t) \/ SignalSecond(t) \/ SignalOwn(t)

Turn(t) == Step(t) /\ UNCHANGED machine

TopoNext == (Reinit /\ UNCHANGED machine) \/ \E t \in Threads : Turn(t)

\* Every thread that is not spinning goes on: the system runs all of them.
TopoSpec ==
  TopoInit /\ [][TopoNext]_topoVars /\ \A t \in Threads : WF_topoVars(Turn(t))

-----------------------------------------------------------------------------
Abstract == INSTANCE Barrier WITH MaxThreads <- ActiveThreads,
                                  inside <- {t \in Threads : pc[t] # "out"}

\* wait is a barrier, round after round and after each reinit: nobody leaves
\* it before all have come, and everybody leaves it.
ImplementsBarrier == Abstract!BarrierSpec
=============================================================================
