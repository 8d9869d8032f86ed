--------------------------- MODULE CountingBarrier ---------------------------
(***************************************************************************)
(* Barrier_Counting.cpp: a counter and one shared sense bit.               *)
(***************************************************************************)
EXTENDS Integers

CONSTANTS
  MaxThreads,  \* threads of the pool
  Rounds       \* waits of a thread between two calls of reinit

VARIABLES
  num, round,   \* as in Barrier
  pc,           \* where a thread is in wait
  count,        \* threads still to come
  sense,        \* flips when the last one has come
  local_sense   \* the sense a thread waits for

countingVars == <<num, round, pc, count, sense, local_sense>>

\* What the theorem takes the constants to be.
CountingAssumption == MaxThreads \in Nat \ {0} /\ Rounds \in Nat

Pool == 0 .. MaxThreads - 1

Place(t, p) == pc' = [pc EXCEPT ![t] = p]

CountingInit ==
  /\ num = MaxThreads
  /\ round = [t \in Pool |-> 0]
  /\ pc = [t \in Pool |-> "out"]
  /\ count = MaxThreads
  /\ sense = FALSE
  /\ local_sense = [t \in Pool |-> FALSE]

\* resize drops the senses of the threads beyond P.
Reinit ==
  /\ \A t \in Pool : pc[t] = "out"
  /\ num' \in 1 .. MaxThreads
  /\ count' = num'
  /\ sense' = FALSE
  /\ local_sense' = [t \in Pool |-> FALSE]
  /\ round' = [t \in Pool |-> 0]
  /\ UNCHANGED pc

\* wait up to the decrement of the counter.
Wait(t) ==
  /\ t < num
  /\ pc[t] = "out"
  /\ round[t] < Rounds
  /\ round' = [round EXCEPT ![t] = @ + 1]
  /\ local_sense' = [local_sense EXCEPT ![t] = ~@]
  /\ count' = count - 1
  /\ Place(t, IF count' = 0 THEN "last" ELSE "spin")
  /\ UNCHANGED <<num, sense>>

ResetCount(t) ==
  /\ pc[t] = "last"
  /\ count' = num
  /\ Place(t, "flip")
  /\ UNCHANGED <<num, round, sense, local_sense>>

FlipSense(t) ==
  /\ pc[t] = "flip"
  /\ sense' = local_sense[t]
  /\ Place(t, "out")
  /\ UNCHANGED <<num, round, count, local_sense>>

Spin(t) ==
  /\ pc[t] = "spin"
  /\ sense = local_sense[t]
  /\ Place(t, "out")
  /\ UNCHANGED <<num, round, count, sense, local_sense>>

Step(t) == Wait(t) \/ ResetCount(t) \/ FlipSense(t) \/ Spin(t)

CountingNext == Reinit \/ \E t \in Pool : Step(t)

CountingSpec == CountingInit /\ [][CountingNext]_countingVars

\* The abstract barrier: inside are the threads in wait.
Abstract == INSTANCE Barrier WITH inside <- {t \in Pool : pc[t] # "out"}
=============================================================================
