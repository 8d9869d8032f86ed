--------------------------- MODULE SequentialMesh ---------------------------
(***************************************************************************)
(* The main loop with one active thread.  Nothing conflicts and the order  *)
(* of the iterations is fixed: a loop starts with the nodes of the graph   *)
(* in the order the InsertBag holds them, which is the order of creation,  *)
(* and with one thread the chunked worklist is a first-in first-out queue. *)
(* This implements MeshRefinement.                                         *)
(***************************************************************************)
EXTENDS MeshProperties, SequencesExt

CONSTANTS
  Steps,              \* config.steps
  InsideCondition(_)  \* whether the terrain may deviate from a triangle

ASSUME SequentialAssumption == Steps \in Nat

VARIABLES
  step,       \* j
  phase,      \* the loop that runs: "check", "produce", or "done"
  queue,      \* interiors in the worklist, first to be popped first
  bag,        \* active interiors in the order of their creation
  fresh       \* interiors the first loop has not seen yet

seqVars == <<meshVars, step, phase, queue, bag, fresh>>

SeqInit ==
  /\ MeshInit
  /\ step = 0
  /\ phase = IF Steps = 0 THEN "done" ELSE "check"
  /\ queue = <<>>
  /\ \E first, second \in interiors :     \* 0-1-3 is created before 0-3-2
       first[3] = second[2] /\ bag = <<first, second>>
  /\ fresh = interiors

SeqCheckConditions ==
  /\ phase = "check"
  /\ \E deviates \in [fresh -> BOOLEAN] :
       /\ \A i \in fresh : deviates[i] \in InsideCondition(i)
       /\ toRefine' = toRefine \cup {i \in fresh : deviates[i]}
  /\ fresh' = {}
  /\ queue' = bag
  /\ phase' = "produce"
  /\ UNCHANGED <<vertices, edges, interiors, hanging, step, bag>>

\* The two interiors that replace i, in the order of their creation: the one
\* with the first end of the side that was broken comes first.
CreatedInOrder(i) ==
  CHOOSE c \in (interiors' \ interiors) \X (interiors' \ interiors) :
    \E e \in Sides : /\ c[1][2] = Neutral(i, e) /\ c[1][3] = First(i, e)
                     /\ c[2][2] = Neutral(i, e) /\ c[2][3] = Second(i, e)

SeqCommit(i) ==
  /\ i \in interiors
  /\ Productions(i)
  /\ queue' = Tail(queue) \o CreatedInOrder(i)
  /\ bag' = Remove(bag, i) \o CreatedInOrder(i)
  /\ fresh' = (fresh \ {i}) \cup ToSet(CreatedInOrder(i))

SeqPassRequeued(i) ==                   \* mutant: the item is queued again
  /\ i \in interiors => ~Applicable(i)
  /\ queue' = Append(Tail(queue), i)
  /\ UNCHANGED <<meshVars, bag, fresh>>
SeqPass(i) ==
  /\ i \in interiors => ~Applicable(i)
  /\ queue' = Tail(queue)
  /\ UNCHANGED <<meshVars, bag, fresh>>

SeqIterate ==
  /\ phase = "produce"
  /\ queue # <<>>
  /\ SeqCommit(Head(queue)) \/ SeqPass(Head(queue))
  /\ UNCHANGED <<step, phase>>

SeqEndStepEarly ==                      \* mutant: the queue is not drained
  /\ phase = "produce"
  /\ step' = step + 1
  /\ phase' = IF step' < Steps THEN "check" ELSE "done"
  /\ UNCHANGED <<meshVars, queue, bag, fresh>>
SeqEndStep ==
  /\ phase = "produce"
  /\ queue = <<>>
  /\ step' = step + 1
  /\ phase' = IF step' < Steps THEN "check" ELSE "done"
  /\ UNCHANGED <<meshVars, queue, bag, fresh>>

SeqDone == phase = "done" /\ UNCHANGED seqVars

SeqNext == SeqCheckConditions \/ SeqIterate \/ SeqEndStep \/ SeqDone

SeqSpec == SeqInit /\ [][SeqNext]_seqVars /\ WF_seqVars(SeqNext)

-----------------------------------------------------------------------------
\* The queue and the bag as sets: the loops of MeshRefinement.
AnyOrder ==
  INSTANCE MeshRefinement WITH worklist <- ToSet(queue), MultiThreaded <- FALSE

\* One thread implements the loops whose iterations come in any order.
ImplementsMeshRefinement == AnyOrder!Spec

\* The program ends with one thread.
SeqTerminates == <>(phase = "done")
=============================================================================
