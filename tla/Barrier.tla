------------------------------- MODULE Barrier -------------------------------
(***************************************************************************)
(* What a barrier promises (substrate/Barrier.h): a thread that waits goes *)
(* on only when every thread that takes part has come to the same wait.    *)
(* The client calls wait Rounds times between two calls of reinit, and     *)
(* reinit only while no thread is in wait.                                 *)
(***************************************************************************)
EXTENDS Integers

CONSTANTS
  MaxThreads,  \* threads of the pool
  Rounds       \* waits of a thread between two calls of reinit

VARIABLES
  num,     \* threads that take part
  round,   \* waits each thread has begun
  inside   \* threads that are in wait

barrierVars == <<num, round, inside>>

Pool == 0 .. MaxThreads - 1

BarrierInit ==
  /\ num \in 1 .. MaxThreads
  /\ round = [t \in Pool |-> 0]
  /\ inside = {}

Arrive(t) ==
  /\ t < num
  /\ t \notin inside
  /\ round[t] < Rounds
  /\ round' = [round EXCEPT ![t] = @ + 1]
  /\ inside' = inside \cup {t}
  /\ UNCHANGED num

Depart(t) ==
  /\ t \in inside
  /\ \A u \in 0 .. num - 1 : round[u] >= round[t]
  /\ inside' = inside \ {t}
  /\ UNCHANGED <<num, round>>

Resize ==
  /\ inside = {}
  /\ num' \in 1 .. MaxThreads
  /\ round' = [t \in Pool |-> 0]
  /\ UNCHANGED inside

BarrierNext ==
  \/ Resize
  \/ \E t \in Pool : Arrive(t) \/ Depart(t)

\* Threads keep coming to the barrier, and those that may leave it do.
BarrierSpec ==
  /\ BarrierInit /\ [][BarrierNext]_barrierVars
  /\ \A t \in Pool : WF_barrierVars(Arrive(t)) /\ WF_barrierVars(Depart(t))
=============================================================================
