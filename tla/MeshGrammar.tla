----------------------------- MODULE MeshGrammar -----------------------------
(***************************************************************************)
(* The hypergraph of the terrain mesh and the six productions that rewrite *)
(* it (productions/, model/ProductionState.h, utils/ConnectivityManager.h).*)
(*                                                                         *)
(* A triangle ("interior") is a hyperedge node joined to its three         *)
(* vertices; it is identified by them, in the order its edge list keeps    *)
(* them.  Side e of a triangle joins its vertices e and e % 3 + 1; it is   *)
(* broken when the graph has no edge between them.                         *)
(***************************************************************************)
EXTENDS Geometry, FiniteSets

CONSTANTS
  Heights(_),   \* what get_height may answer at a position
  Corner        \* positions of the terrain's four corners, indexed 0..3

\* South-west, north-west, south-east and north-east.  In UTM coordinates they
\* are a convex quadrilateral and not quite a rectangle.
ASSUME CornerAssumption ==
  /\ Corner \in [0..3 -> Int \X Int]
  /\ Turn(Corner[0], Corner[1], Corner[3]) < 0 /\ Turn(Corner[1], Corner[3], Corner[2]) < 0
  /\ Turn(Corner[3], Corner[2], Corner[0]) < 0 /\ Turn(Corner[2], Corner[0], Corner[1]) < 0

VARIABLES
  vertices,     \* active vertex nodes
  edges,        \* border flag of each edge, a function on pairs of vertices
  interiors,    \* active hyperedge nodes
  toRefine,     \* interiors whose toRefine flag is set
  hanging       \* vertices whose hanging flag is set

meshVars == <<vertices, edges, interiors, toRefine, hanging>>

-----------------------------------------------------------------------------
\* The terrain's rectangle cut by its diagonal 0-3 into two triangles.
MeshInit ==
  \E z \in [0..3 -> UNION {Heights(Corner[n]) : n \in 0..3}] :
  LET c(n) == <<Corner[n][1], Corner[n][2], z[n], 0>> IN
  /\ \A n \in 0..3 : z[n] \in Heights(Corner[n])
  /\ vertices = {c(n) : n \in 0..3}
  /\ edges = [e \in {{c(0), c(1)}, {c(1), c(3)}, {c(2), c(3)}, {c(0), c(2)},
                     {c(3), c(0)}} |-> e # {c(3), c(0)}]
  /\ interiors = {<<c(0), c(1), c(3)>>, <<c(0), c(3), c(2)>>}
  /\ toRefine = {}
  /\ hanging = {}

-----------------------------------------------------------------------------
\* What a production reads: the ProductionState of triangle i.
Sides == 1..3
First(i, e) == i[e]
Second(i, e) == i[(e % 3) + 1]
Neutral(i, e) == i[((e + 1) % 3) + 1]
Side(i, e) == {First(i, e), Second(i, e)}
IsBorder(i, e) == edges[Side(i, e)]
Corners(i) == {i[e] : e \in Sides}

BrokenEdges(i) == {e \in Sides : Side(i, e) \notin DOMAIN edges}

\* Square of a side's length: the length the edge records, or the distance of
\* its ends.
Length(i, e) == SqDist(First(i, e), Second(i, e))

\* A broken side counts as -1, below every length, so it is never the longest
\* where this is used, with at most one side broken.
LongestEdges(i) ==
  {e \in Sides \ BrokenEdges(i) :
     \A f \in Sides \ BrokenEdges(i) : Length(i, e) >= Length(i, f)}

LongestEdgesIncludingBrokenOnes(i) ==
  {e \in Sides : \A f \in Sides : Length(i, e) >= Length(i, f)}

\* The lists above are in increasing order: their first element, if any.
FirstOf(S) == {e \in S : \A f \in S : e <= f}

\* Common neighbours of u and v that lie half way between them.
NodesBetween(u, v) ==
  {w \in vertices : /\ {u, w} \in DOMAIN edges
                    /\ {v, w} \in DOMAIN edges
                    /\ HalfWay(w, u, v)}

FindNodeBetween(u, v) == CHOOSE w \in NodesBetween(u, v) : TRUE

\* The way round over the node on a broken side is at least as long as the
\* two other sides.
BrokenEdgeIsTheLongest(i, b) ==
  LET h == FindNodeBetween(First(i, b), Second(i, b)) IN
  \A e \in Sides \ {b} :
    ~SumLess(SqDist(First(i, b), h), SqDist(Second(i, b), h), Length(i, e))

AnyEnds(i, e) == TRUE                   \* mutant: the flags are not tested
NoHangingEnd(i, e) == Side(i, e) \cap hanging = {}

-----------------------------------------------------------------------------
\* Two triangles replace i, both with node h and the vertex opposite side e.
HalvesSwapped(i, e, h) ==       \* mutant: the neutral vertex is mistaken
  {<<h, Neutral(i, e), First(i, e)>>, <<h, First(i, e), Second(i, e)>>}
Halves(i, e, h) ==
  {<<h, Neutral(i, e), First(i, e)>>, <<h, Neutral(i, e), Second(i, e)>>}

ReplaceInterior(i, e, h) ==
  /\ interiors' = (interiors \ {i}) \cup Halves(i, e, h)
  /\ toRefine' = toRefine \ {i}

BreakElementTwice(i, e) ==      \* mutant: a second node instead of the first
  \E z \in Heights(MiddleXY(First(i, e), Second(i, e))) :
  LET p == MiddleXY(First(i, e), Second(i, e))
      n == <<p[1], p[2], z, 1>> IN
  /\ vertices' = vertices \cup {n}
  /\ edges' = [q \in DOMAIN edges \cup {{n, i[k]} : k \in Sides} |->
                 n \notin q /\ edges[q]]
  /\ ReplaceInterior(i, e, n)
  /\ UNCHANGED hanging
BreakElementWithHangingNode(i, e) ==
  \E h \in NodesBetween(First(i, e), Second(i, e)) :
  LET spoke == {h, Neutral(i, e)} IN
  /\ edges' = [p \in DOMAIN edges \cup {spoke} |-> p # spoke /\ edges[p]]
  /\ ReplaceInterior(i, e, h)
  /\ hanging' = hanging \ {h}
  /\ UNCHANGED vertices

\* The node createNodeOnEdge may add half way along side e.  The grid bounds the
\* model: there is none where it is too coarse.
NewNodes(i, e) ==
  LET p == MiddleXY(First(i, e), Second(i, e))
      k == Cardinality({v \in vertices : XY(v) = p})
  IN  {n \in {<<p[1], p[2], z, k>> : z \in Heights(p)} :
         HalfWay(n, First(i, e), Second(i, e))}

\* A node created on the border is not a hanging one.
HangsInverted(i, e) == IsBorder(i, e)   \* mutant: the test is inverted
Hangs(i, e) == ~IsBorder(i, e)

RemoveEdge(i, e) == DOMAIN edges \ {Side(i, e)}

\* The two edges node n cuts side e into.
FirstPart(i, e, n) == {{n, First(i, e)}}    \* mutant: one addEdge is missing
Parts(i, e, n) == {{n, First(i, e)}, {n, Second(i, e)}}

BreakElementWithoutHangingNode(i, e) ==
  \E n \in NewNodes(i, e) :
  /\ n \notin vertices        \* createNode allocates
  /\ vertices' = vertices \cup {n}
  /\ edges' = [p \in RemoveEdge(i, e) \cup Parts(i, e, n)
                       \cup {{n, Neutral(i, e)}} |->
                 IF n \in p THEN p \in Parts(i, e, n) /\ IsBorder(i, e) ELSE edges[p]]
  /\ ReplaceInterior(i, e, n)
  /\ hanging' = hanging \cup (IF Hangs(i, e) THEN {n} ELSE {})

-----------------------------------------------------------------------------
\* The side each production breaks; a production whose set is empty returns
\* false.
MayBreak(i, e) == IsBorder(i, e) \/ NoHangingEnd(i, e)

P1Edges(i) ==
  IF i \in toRefine /\ BrokenEdges(i) = {}
  THEN {e \in LongestEdges(i) : MayBreak(i, e)}
  ELSE {}

OneBroken(i) == Cardinality(BrokenEdges(i)) = 1
TwoBroken(i) == Cardinality(BrokenEdges(i)) = 2

P2Edges(i) ==
  IF OneBroken(i)
  THEN {b \in BrokenEdges(i) : BrokenEdgeIsTheLongest(i, b)}
  ELSE {}

P3EdgesBorderOnly(i) ==                 \* mutant: its second loop is missing
  IF OneBroken(i) /\ P2Edges(i) = {}
  THEN {e \in LongestEdges(i) : IsBorder(i, e)}
  ELSE {}
P3Edges(i) ==
  IF OneBroken(i) /\ P2Edges(i) = {}
  THEN LET border == {e \in LongestEdges(i) : IsBorder(i, e)} IN
       IF border # {} THEN border
       ELSE {e \in LongestEdges(i) : NoHangingEnd(i, e)}
  ELSE {}

P4Edges(i) ==
  IF TwoBroken(i)
  THEN LongestEdgesIncludingBrokenOnes(i) \cap BrokenEdges(i)
  ELSE {}

P5Edges(i) ==
  IF TwoBroken(i) /\ Cardinality(LongestEdgesIncludingBrokenOnes(i)) = 1
  THEN LongestEdgesIncludingBrokenOnes(i) \ BrokenEdges(i)
  ELSE {}

P6Edges(i) ==
  IF BrokenEdges(i) = Sides THEN LongestEdgesIncludingBrokenOnes(i) ELSE {}

Production1(i) ==
  \E e \in FirstOf(P1Edges(i)) : BreakElementWithoutHangingNode(i, e)

Production2(i) ==
  \E e \in FirstOf(P2Edges(i)) : BreakElementWithHangingNode(i, e)

Production3(i) ==
  \E e \in FirstOf(P3Edges(i)) : BreakElementWithoutHangingNode(i, e)

Production4(i) ==
  \E e \in FirstOf(P4Edges(i)) : BreakElementWithHangingNode(i, e)

Production5(i) ==
  \E e \in FirstOf(P5Edges(i)) : BreakElementWithoutHangingNode(i, e)

Production6(i) ==
  \E e \in FirstOf(P6Edges(i)) : BreakElementWithHangingNode(i, e)

\* The first production that applies rewrites i (the guards exclude one
\* another).
Productions(i) ==
  \/ Production1(i) \/ Production2(i) \/ Production3(i)
  \/ Production4(i) \/ Production5(i) \/ Production6(i)

Applicable(i) ==
  P1Edges(i) \cup P2Edges(i) \cup P3Edges(i)
    \cup P4Edges(i) \cup P5Edges(i) \cup P6Edges(i) # {}
=============================================================================
