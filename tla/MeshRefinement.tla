--------------------------- MODULE MeshRefinement ---------------------------
(***************************************************************************)
(* The main loop (GraphGrammar.cpp): config.steps times, a first parallel  *)
(* loop marks the triangles the terrain deviates from, then a second one   *)
(* runs the productions on a worklist of nodes.  An iteration of the       *)
(* second loop is one step here; ParallelMesh shows that the threads and   *)
(* their locks implement this.                                             *)
(*                                                                         *)
(* The worklist also holds vertices.  Their iterations return at           *)
(* basicCondition and change nothing, so only interiors are kept in it.    *)
(***************************************************************************)
EXTENDS MeshProperties

CONSTANTS
  Steps,              \* config.steps
  InsideCondition(_), \* whether the terrain may deviate from a triangle
  MultiThreaded       \* more than one active thread: iterations can conflict

ASSUME StepsAssumption == Steps \in Nat

VARIABLES
  step,       \* j
  phase,      \* the loop that runs: "check", "produce", or "done"
  worklist,   \* interiors waiting for an iteration of the second loop
  fresh       \* interiors the first loop has not seen yet

vars == <<meshVars, step, phase, worklist, fresh>>

Init ==
  /\ MeshInit
  /\ step = 0
  /\ phase = IF Steps = 0 THEN "done" ELSE "check"
  /\ worklist = {}
  /\ fresh = interiors

\* The first loop.  Whether a triangle deviates from the terrain depends on
\* its vertices only, so the answer for one it has seen does not change.
CheckConditions ==
  /\ phase = "check"
  /\ \E deviates \in [fresh -> BOOLEAN] :
       /\ \A i \in fresh : deviates[i] \in InsideCondition(i)
       /\ toRefine' = toRefine \cup {i \in fresh : deviates[i]}
  /\ fresh' = {}
  /\ worklist' = interiors
  /\ phase' = "produce"
  /\ UNCHANGED <<vertices, edges, interiors, hanging, step>>

-----------------------------------------------------------------------------
Created == interiors' \ interiors

\* An iteration whose production succeeds, and which commits: the nodes it
\* created are pushed to the worklist.
Commit(i) ==
  /\ i \in interiors
  /\ Productions(i)
  /\ worklist' = (worklist \ {i}) \cup Created
  /\ fresh' = (fresh \ {i}) \cup Created
  /\ UNCHANGED <<step, phase>>

\* afterStep locks every node of the graph, so an iteration can meet a
\* conflict after its production: the mesh stays rewritten, the pushes are
\* dropped and the item is tried again.
AbortAfterWrite(i) ==
  /\ MultiThreaded
  /\ i \in interiors
  /\ Productions(i)
  /\ fresh' = (fresh \ {i}) \cup Created
  /\ UNCHANGED <<worklist, step, phase>>

\* An iteration on a removed interior, or one no production applies to.
PassRequeued(i) ==                      \* mutant: the item is queued again
  /\ i \in interiors => ~Applicable(i)
  /\ UNCHANGED vars
Pass(i) ==
  /\ i \in interiors => ~Applicable(i)
  /\ worklist' = worklist \ {i}
  /\ UNCHANGED <<meshVars, step, phase, fresh>>

Iterate ==
  /\ phase = "produce"
  /\ \E i \in worklist : Commit(i) \/ AbortAfterWrite(i) \/ Pass(i)

EndStep ==
  /\ phase = "produce"
  /\ worklist = {}
  /\ step' = step + 1
  /\ phase' = IF step' < Steps THEN "check" ELSE "done"
  /\ UNCHANGED <<meshVars, worklist, fresh>>

Done == phase = "done" /\ UNCHANGED vars

Next == CheckConditions \/ Iterate \/ EndStep \/ Done

Spec == Init /\ [][Next]_vars

FairSpec == Spec /\ WF_vars(Next)

-----------------------------------------------------------------------------
\* Flags, worklist and edges refer to nodes that exist.
TypeOK ==
  /\ MeshTypeOK
  /\ step \in 0..Steps
  /\ phase \in {"check", "produce", "done"}
  /\ phase = "done" <=> step = Steps
  /\ fresh \subseteq interiors

\* Every step ends, and so does the program: refinement does not propagate for
\* ever, and no conflict makes an iteration repeat for ever.
Terminates == <>(phase = "done")
=============================================================================
