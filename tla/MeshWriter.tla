----------------------------- MODULE MeshWriter -----------------------------
(***************************************************************************)
(* The graph's nodes and those who read them.  The threads create nodes in *)
(* the graph's InsertBag, which can be read as a whole or thread by        *)
(* thread.  MyGraphFormatWriter walks over all of it once the steps are    *)
(* finished: vertices and triangles get numbers as they are met, and edges *)
(* are written with these numbers.  No two nodes have equal data here.     *)
(***************************************************************************)
EXTENDS InsertBag, TLC

CONSTANTS
  Vertices, Triangles,
  Links,      \* the edges: pairs of vertices, or of a triangle and a vertex
  Borders     \* those that are border edges

ASSUME WriterAssumption ==
  /\ Vertices \cap Triangles = {}
  /\ \A l \in Links : \E a, b \in Vertices \cup Triangles : l = {a, b} /\ a # b
  /\ Borders \subseteq Links

Nodes == Vertices \cup Triangles

VARIABLES
  content,    \* the nodes at the places of the bag
  visited,    \* whether the node the writer is at has its number
  rest,       \* neighbours of that node still to come
  vertices, interiors,  \* the numbers given: from nodes
  edges       \* the edges written

fileVars == <<visited, rest, vertices, interiors, edges>>
writerVars == <<bagVars, content, fileVars>>

Neighbours(n) == {m \in Nodes : {n, m} \in Links}

None == [n \in {} |-> 0]

Created == Range(content)

WriterInit ==
  /\ BagInit
  /\ content = None
  /\ visited = FALSE /\ rest = {} /\ vertices = None /\ interiors = None /\ edges = {}

-----------------------------------------------------------------------------
\* createNode: the threads have taken on less than all nodes, and a triangle is
\* created after its vertices, by whichever thread.
TakeNode(t) ==
  /\ Cardinality(Created) + Cardinality({u \in Threads : ins[u] = "construct"})
       < Cardinality(Nodes)
  /\ Emplace(t)
  /\ UNCHANGED <<content, fileVars>>

CreateNode(t) ==
  /\ Construct(t)
  /\ \E n \in Nodes \ Created :
       /\ n \in Triangles => Neighbours(n) \subseteq Created
       /\ content' = content @@ ([thr |-> t, p |-> Len(chunks[t]), v |-> Last(chunks[t]).built] :> n)
  /\ UNCHANGED fileVars

AddNode(t) == Publish(t) /\ UNCHANGED <<content, fileVars>>

ClearGraph == Clear /\ content' = None /\ UNCHANGED fileVars

\* An id is a letter for the kind of node and its number.
Id(n, number) == <<IF n \in Triangles THEN "h" ELSE "n", number>>

\* getNodeId, for a vertex or the first node of an edge of a triangle: a node
\* that is not found is added to nodes.
Added(nodes, n) ==
  IF n \in DOMAIN nodes THEN nodes
  ELSE [m \in DOMAIN nodes \cup {n} |-> IF m = n THEN Cardinality(DOMAIN nodes) ELSE nodes[m]]

\* getNodeId with an additional set, which is only searched.
AddedUnlessAlone(nodes, n, additional) == Added(nodes, n)  \* mutant: it is not searched
AddedUnless(nodes, n, additional) ==
  IF n \in DOMAIN additional THEN nodes ELSE Added(nodes, n)

FoundId(nodes, n, additional) ==
  Id(n, IF n \in DOMAIN nodes THEN nodes[n] ELSE additional[n])

\* addEdge
FindEdge(a, b) == \E e \in edges : {e[1], e[2]} = {a, b}
AddAnyEdge(a, b, border) == edges' = edges \cup {<<a, b, border>>}  \* mutant
AddEdge(a, b, border) ==
  edges' = IF FindEdge(a, b) THEN edges ELSE edges \cup {<<a, b, border>>}

\* The steps are finished and the mesh is whole when it is written.
Writing == range = <<0, MaxThreads>>

StartWriting == Created = Nodes /\ BeginAll /\ UNCHANGED <<content, fileVars>>

\* The walk is at a node, which gets a number.
VisitNode ==
  /\ AtElement
  /\ Writing
  /\ ~visited
  /\ visited' = TRUE
  /\ LET n == content[at]
     IN  \/ /\ n \in Vertices
            /\ vertices' = Added(vertices, n)
            /\ rest' = Neighbours(n) \cap Vertices
            /\ UNCHANGED interiors
         \/ /\ n \in Triangles
            /\ interiors' = AddedUnless(interiors, n, vertices)
            /\ rest' = Neighbours(n)
            /\ UNCHANGED vertices
  /\ UNCHANGED <<bagVars, content, edges>>

\* An edge of that node, in whatever order the node has them.
VisitEdge ==
  /\ \E m \in rest :
       LET n == content[at]
       IN  /\ rest' = rest \ {m}
           /\ \/ /\ n \in Vertices
                 /\ vertices' = Added(vertices, m)
                 /\ AddEdge(FoundId(vertices, n, None), FoundId(vertices', m, None),
                            {n, m} \in Borders)
                 /\ UNCHANGED interiors
              \/ /\ n \in Triangles
                 /\ interiors' = AddedUnless(interiors, m, vertices)
                 /\ AddEdge(FoundId(interiors, n, vertices), FoundId(interiors', m, vertices),
                            {n, m} \in Borders)
                 /\ UNCHANGED vertices
  /\ UNCHANGED <<bagVars, content, visited>>

NextNode ==
  /\ visited /\ rest = {}
  /\ Increment
  /\ visited' = FALSE
  /\ UNCHANGED <<content, rest, vertices, interiors, edges>>

FindNext == AdvanceThread /\ UNCHANGED <<content, fileVars>>

CloseFile ==
  /\ Writing
  /\ Finish
  /\ vertices' = None /\ interiors' = None /\ edges' = {}
  /\ UNCHANGED <<content, visited, rest>>

\* A loop over the graph as a container takes the nodes that thread t created.
\* (The steps pass iterators over all nodes instead, which ForEach splits.)
LoopBegin(t) == BeginLocal(t) /\ UNCHANGED <<content, fileVars>>
LoopIterate == ~Writing /\ Increment /\ UNCHANGED <<content, fileVars>>
LoopEnd == ~Writing /\ Finish /\ UNCHANGED <<content, fileVars>>

WriterNext ==
  \/ \E t \in Threads : TakeNode(t) \/ CreateNode(t) \/ AddNode(t) \/ LoopBegin(t)
  \/ ClearGraph
  \/ StartWriting \/ VisitNode \/ VisitEdge \/ NextNode \/ FindNext \/ CloseFile
  \/ LoopIterate \/ LoopEnd

WriterSpec == WriterInit /\ [][WriterNext]_writerVars

-----------------------------------------------------------------------------
Written == Writing /\ AtEnd

\* The node that the file lists under an id.
Listed(id, n) ==
  IF id[1] = "n" THEN n \in DOMAIN vertices /\ vertices[n] = id[2]
                 ELSE n \in DOMAIN interiors /\ interiors[n] = id[2]

\* The lines of the file that stand for the link of n and m.
Lines(n, m) ==
  {e \in edges : \/ Listed(e[1], n) /\ Listed(e[2], m)
                 \/ Listed(e[1], m) /\ Listed(e[2], n)}

OneThread == \E t \in Threads : \A u \in Threads \ {t} : chunks[u] = <<>>

\* The walk has met every triangle after its vertices.
VerticesFirst ==
  \A i, k \in DOMAIN got :
    content[got[i]] \in Triangles /\ content[got[k]] \in Neighbours(content[got[i]]) => k < i

\* writeToFile writes each edge between vertices once, with its border mark,
\* though it meets the edge at both ends, and whichever threads have created
\* the nodes.
VertexEdgesAreWritten ==
  Written => \A n, m \in Vertices :
    /\ Cardinality(Lines(n, m)) = (IF {n, m} \in Links THEN 1 ELSE 0)
    /\ \A e \in Lines(n, m) : e[3] = ({n, m} \in Borders)

\* It writes each triangle once, and with its own vertices, if one thread has
\* created the mesh, since the bag then has a triangle after its vertices, or if
\* the bag of several threads happens to.  Otherwise a vertex first met at a
\* triangle is numbered as a triangle, and its edges lead to another vertex.
TrianglesAreWritten ==
  Written /\ (OneThread \/ VerticesFirst) =>
    /\ DOMAIN interiors = Triangles
    /\ \A n \in Triangles, m \in Nodes :
         Cardinality(Lines(n, m)) = (IF {n, m} \in Links THEN 1 ELSE 0)
=============================================================================
