---------------------------- MODULE UnorderedSet ----------------------------
(***************************************************************************)
(* What for_each promises (docs/parallel_loops.dox): the items are         *)
(* processed in some order, each exactly once, as if one after the other;  *)
(* an iteration may add items; and the loop ends when all are processed.   *)
(***************************************************************************)
CONSTANTS
  InitialItems,
  Pushes        \* the items the iteration on an item adds

VARIABLES todo, done, finished

SetInit ==
  /\ todo = InitialItems
  /\ done = {}
  /\ finished = FALSE

Process(i) ==
  /\ i \in todo \ done
  /\ todo' = (todo \ {i}) \cup Pushes[i]
  /\ done' = done \cup {i}
  /\ UNCHANGED finished

Finish ==
  /\ todo = {}
  /\ finished' = TRUE
  /\ UNCHANGED <<todo, done>>

SetSpec ==
  SetInit /\ [][Finish \/ \E i \in todo : Process(i)]_<<todo, done, finished>>
=============================================================================
