--------------------------- MODULE MeshProperties ---------------------------
(***************************************************************************)
(* What the productions keep true of the mesh, whichever of them are       *)
(* applied, to which triangles and in which order.                         *)
(***************************************************************************)
EXTENDS MeshGrammar

MeshTypeOK ==
  /\ edges \in [DOMAIN edges -> BOOLEAN]
  /\ \A p \in DOMAIN edges : p \subseteq vertices
  /\ interiors \subseteq vertices \X vertices \X vertices
  /\ toRefine \subseteq interiors
  /\ hanging \subseteq vertices

\* A border edge never ends in a hanging node: productions 1 and 3 break a
\* border edge without looking at the flags of its ends.
BorderIsFirm == \A p \in DOMAIN edges : edges[p] => p \cap hanging = {}

\* The ends of a broken side never hang.  So a triangle with two broken sides
\* has no hanging vertex, which is why production 5 may break its third side
\* without the test productions 1 and 3 make.
BrokenSidesAreFirm ==
  \A i \in interiors : \A e \in BrokenEdges(i) : Side(i, e) \cap hanging = {}

\* The mesh is refined one level at a time: an edge is broken only while no
\* end of it hangs, whichever production breaks it and whatever iterations
\* came before.
OnlyFirmEdgesBreak ==
  [][\A p \in DOMAIN edges \ DOMAIN edges' : p \cap hanging = {}]_meshVars

\* Every broken side has exactly one node half way that is joined to both its
\* ends: findNodeBetween(...).get() is never taken of an empty optional, and
\* never finds the wrong node.
BrokenSidesHaveTheirNode ==
  \A i \in interiors : \A e \in BrokenEdges(i) :
    Cardinality(NodesBetween(First(i, e), Second(i, e))) = 1

\* No edge is broken twice: the triangles on its two sides share the node the
\* first of them created, in whatever order and by whatever productions.
OneVertexPerLocation == \A v \in vertices : v[4] = 0

\* The node on a broken side of triangle i.
NodesOnSides(i) ==
  UNION {NodesBetween(First(i, e), Second(i, e)) : e \in BrokenEdges(i)}

\* The hanging flag, which is set and cleared by different iterations, is set
\* on exactly the nodes that lie on a broken side of some triangle.
HangingFlagsAreExact == hanging = UNION {NodesOnSides(i) : i \in interiors}

\* The edges along the sides of triangle i, the two halves of a broken one
\* included.
EdgesAlong(i) ==
  {Side(i, e) : e \in Sides \ BrokenEdges(i)}
    \cup UNION {{{u, h} : u \in Side(i, e),
                         h \in NodesBetween(First(i, e), Second(i, e))} :
                 e \in BrokenEdges(i)}

\* The triangles tile the terrain: every border edge has one triangle beside
\* it, every other edge has two.
TrianglesTile ==
  LET along == [i \in interiors |-> EdgesAlong(i)] IN
  \A p \in DOMAIN edges :
    Cardinality({i \in interiors : p \in along[i]}) = IF edges[p] THEN 1 ELSE 2

\* The triangles never all wait for one another.  Production 3 refuses to break
\* an edge with a hanging end and leaves the triangle to a later iteration; as
\* long as some node hangs, some triangle with a broken side can be rewritten.
NeverStuck ==
  hanging # {} =>
    \E i \in interiors : BrokenEdges(i) # {} /\ Applicable(i)
=============================================================================
