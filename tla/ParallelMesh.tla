---------------------------- MODULE ParallelMesh ----------------------------
(***************************************************************************)
(* The second loop of a step run by several threads.  An iteration locks   *)
(* the nodes it visits as the graph's methods do, snapshots the triangle   *)
(* (ProductionState), rewrites it, and then writes the whole graph to a    *)
(* file (afterStep), which locks every node.  A lock that another thread   *)
(* holds aborts the iteration; nothing undoes what it has written.         *)
(*                                                                         *)
(* The nodes a method locks are locked in one step here, and the first     *)
(* loop, whose iterations touch only their own triangle's mark, is one     *)
(* step too.  Iterations on vertices change nothing and are left out.      *)
(***************************************************************************)
EXTENDS MeshProperties

CONSTANTS
  Threads,
  Steps,              \* config.steps
  InsideCondition(_)  \* whether the terrain may deviate from a triangle

ASSUME ParallelAssumption == Steps \in Nat

VARIABLES
  step, phase, fresh, \* as in MeshRefinement
  wl,                 \* interiors in the worklist and the abort queues
  pc,                 \* where a thread's iteration is
  item,               \* the interior it is on
  locks,              \* the nodes its context has locked
  seen,               \* the snapshot in its ProductionState
  written             \* what its iteration has changed in the graph

threadVars == <<pc, item, locks, seen, written>>
parVars == <<meshVars, step, phase, fresh, wl, threadVars>>

Nothing == [vNew |-> {}, eNew |-> {}, eOld |-> [p \in {} |-> TRUE],
            iNew |-> {}, iOld |-> {}, rOld |-> {}, hNew |-> {}, hOld |-> {}]

ParInit ==
  /\ MeshInit
  /\ step = 0
  /\ phase = IF Steps = 0 THEN "done" ELSE "check"
  /\ fresh = interiors
  /\ wl = {}
  /\ pc = [t \in Threads |-> "idle"]
  /\ item = [t \in Threads |-> <<>>]
  /\ locks = [t \in Threads |-> {}]
  /\ seen = [t \in Threads |-> <<>>]
  /\ written = [t \in Threads |-> Nothing]

ParCheckConditions ==
  /\ phase = "check"
  /\ \E deviates \in [fresh -> BOOLEAN] :
       /\ \A i \in fresh : deviates[i] \in InsideCondition(i)
       /\ toRefine' = toRefine \cup {i \in fresh : deviates[i]}
  /\ fresh' = {}
  /\ wl' = interiors
  /\ phase' = "produce"
  /\ UNCHANGED <<vertices, edges, interiors, hanging, step, threadVars>>

-----------------------------------------------------------------------------
\* What ProductionState copies of triangle i.
Snapshot(i) ==
  <<BrokenEdges(i), {e \in Sides \ BrokenEdges(i) : IsBorder(i, e)},
    {e \in Sides : i[e] \in hanging}, i \in toRefine>>

\* getNeighbours locks the vertices and interiors next to a vertex.
Neighbours(v) ==
  {w \in vertices : {v, w} \in DOMAIN edges} \cup {i \in interiors : v \in Corners(i)}

\* The sides whose middle node a production looks for, among the neighbours of
\* their ends.
Searched(i) ==
  (IF OneBroken(i) THEN BrokenEdges(i) ELSE {})
    \cup FirstOf(P4Edges(i)) \cup FirstOf(P6Edges(i))

\* The nodes a thread locks next.
Wants(t) ==
  CASE pc[t] = "start" -> {item[t]}
    [] pc[t] = "vertices" -> Corners(item[t])
    [] pc[t] = "search" ->
         UNION {Neighbours(v) : v \in UNION {Side(item[t], e) : e \in Searched(item[t])}}
    [] pc[t] = "afterStep" -> vertices \cup interiors
    [] OTHER -> {}

\* Nodes that another thread has locked.
Taken(t) == UNION {locks[u] : u \in Threads \ {t}}

Conflicting(t) == Wants(t) \cap Taken(t) # {}

Lock(t, place) ==
  /\ ~Conflicting(t)
  /\ locks' = [locks EXCEPT ![t] = @ \cup Wants(t)]
  /\ pc' = [pc EXCEPT ![t] = place]

\* An iteration ends: its locks are released.
Release(t) ==
  /\ pc' = [pc EXCEPT ![t] = "idle"]
  /\ item' = [item EXCEPT ![t] = <<>>]
  /\ locks' = [locks EXCEPT ![t] = {}]
  /\ seen' = [seen EXCEPT ![t] = <<>>]
  /\ written' = [written EXCEPT ![t] = Nothing]

Pop(t) ==
  /\ phase = "produce"
  /\ pc[t] = "idle"
  /\ \E i \in wl : /\ item' = [item EXCEPT ![t] = i]
                   /\ wl' = wl \ {i}
  /\ pc' = [pc EXCEPT ![t] = "start"]
  /\ UNCHANGED <<meshVars, step, phase, fresh, locks, seen, written>>

\* basicCondition locks the item to see whether it is still in the graph.
LockItem(t) ==
  /\ pc[t] = "start"
  /\ Lock(t, IF item[t] \in interiors THEN "vertices" ELSE "return")
  /\ UNCHANGED <<meshVars, step, phase, fresh, wl, item, seen, written>>

LockNoVertices(t) ==                    \* mutant: the vertices are not locked
  /\ pc[t] = "vertices"
  /\ pc' = [pc EXCEPT ![t] = "search"]
  /\ seen' = [seen EXCEPT ![t] = Snapshot(item[t])]
  /\ UNCHANGED <<meshVars, step, phase, fresh, wl, item, locks, written>>
LockVertices(t) ==
  /\ pc[t] = "vertices"
  /\ Lock(t, "search")
  /\ seen' = [seen EXCEPT ![t] = Snapshot(item[t])]
  /\ UNCHANGED <<meshVars, step, phase, fresh, wl, item, written>>

LockNeighbours(t) ==
  /\ pc[t] = "search"
  /\ Lock(t, "write")
  /\ UNCHANGED <<meshVars, step, phase, fresh, wl, item, seen, written>>

\* The production; new nodes are locked as they are added.
Write(t) ==
  /\ pc[t] = "write"
  /\ Productions(item[t])
  /\ written' = [written EXCEPT ![t] =
       [vNew |-> vertices' \ vertices,
        eNew |-> DOMAIN edges' \ DOMAIN edges,
        eOld |-> [p \in DOMAIN edges \ DOMAIN edges' |-> edges[p]],
        iNew |-> interiors' \ interiors, iOld |-> {item[t]},
        rOld |-> toRefine \ toRefine',
        hNew |-> hanging' \ hanging, hOld |-> hanging \ hanging']]
  /\ locks' = [locks EXCEPT ![t] =
                 @ \cup (vertices' \ vertices) \cup (interiors' \ interiors)]
  /\ pc' = [pc EXCEPT ![t] = "afterStep"]
  /\ UNCHANGED <<step, phase, fresh, wl, item, seen>>

NoProduction(t) ==
  /\ pc[t] = "write"
  /\ ~Applicable(item[t])
  /\ pc' = [pc EXCEPT ![t] = "return"]
  /\ UNCHANGED <<meshVars, step, phase, fresh, wl, item, locks, seen, written>>

\* The operator returns and the iteration commits: what it created is pushed.
Return(t) ==
  /\ \/ pc[t] = "return"
     \/ pc[t] = "afterStep" /\ ~Conflicting(t)
  /\ wl' = wl \cup written[t].iNew
  /\ fresh' = (fresh \ written[t].iOld) \cup written[t].iNew
  /\ Release(t)
  /\ UNCHANGED <<meshVars, step, phase>>

\* A conflict: the pushes are dropped and the item is tried again.
Abort(t) ==
  /\ Conflicting(t)
  /\ wl' = wl \cup {item[t]}
  /\ fresh' = (fresh \ written[t].iOld) \cup written[t].iNew
  /\ Release(t)
  /\ UNCHANGED <<meshVars, step, phase>>

Iteration(t) ==
  \/ Pop(t) \/ LockItem(t) \/ LockVertices(t) \/ LockNeighbours(t)
  \/ Write(t) \/ NoProduction(t) \/ Return(t) \/ Abort(t)

ParEndStep ==
  /\ phase = "produce"
  /\ wl = {}
  /\ \A t \in Threads : pc[t] = "idle"
  /\ step' = step + 1
  /\ phase' = IF step' < Steps THEN "check" ELSE "done"
  /\ UNCHANGED <<meshVars, fresh, wl, threadVars>>

ParDone == phase = "done" /\ UNCHANGED parVars

ParNext ==
  \/ ParCheckConditions \/ ParEndStep \/ ParDone
  \/ \E t \in Threads : Iteration(t)

ParSpec == ParInit /\ [][ParNext]_parVars

-----------------------------------------------------------------------------
\* The graph without what unfinished iterations have written to it.
All(field) == UNION {written[t][field] : t \in Threads}
OldEdges(p) == {u \in Threads : p \in DOMAIN written[u].eOld}

Serial ==
  INSTANCE MeshRefinement WITH
    vertices <- vertices \ All("vNew"),
    edges <- [p \in (DOMAIN edges \ All("eNew"))
                      \cup UNION {DOMAIN written[t].eOld : t \in Threads} |->
                IF p \in DOMAIN edges THEN edges[p]
                ELSE LET u == CHOOSE u \in OldEdges(p) : TRUE IN written[u].eOld[p]],
    interiors <- (interiors \ All("iNew")) \cup All("iOld"),
    toRefine <- toRefine \cup All("rOld"),
    hanging <- (hanging \ All("hNew")) \cup All("hOld"),
    worklist <- wl \cup {item[t] : t \in {u \in Threads : pc[u] \notin {"idle", "return"}}},
    MultiThreaded <- Cardinality(Threads) > 1

\* The snapshot a production decides on is still what the graph holds when the
\* production writes: no other thread has broken a side of the triangle or set
\* or cleared a flag of its vertices in between.
SnapshotIsCurrent ==
  \A t \in Threads :
    pc[t] \in {"search", "write"} => seen[t] = Snapshot(item[t])

\* The threads' iterations take effect one after the other: every execution is
\* one of MeshRefinement, where an iteration is a single step.
Serializable == Serial!Spec

\* "Operators must be cautious: All locks should be acquired successfully
\* before the first write to user state" (docs/tutorial.dox): an iteration that
\* has written to the graph never meets a conflict.
Cautious ==
  \A t \in Threads :
    written[t] # Nothing => ~Conflicting(t)
=============================================================================
