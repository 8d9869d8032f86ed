---------------------------- MODULE GrammarProofs ----------------------------
(***************************************************************************)
(* Lemmas about the productions, whichever of them rewrites which triangle *)
(* of a mesh: borders and broken sides keep ending in vertices that do not *)
(* hang, triangles that do not overlap stay so when one is cut, and the    *)
(* tiling is kept by the productions that use a hanging node.              *)
(***************************************************************************)
EXTENDS MeshProperties, FiniteSetTheorems, TLAPS

\* The inductive invariant: with the types, that border edges and broken sides
\* end in vertices that do not hang.
FirmInv == MeshTypeOK /\ BorderIsFirm /\ BrokenSidesAreFirm

\* The names of a triangle's vertices as seen from its sides.
LEMMA CornersOf ==
  ASSUME NEW i
  PROVE  /\ First(i, 1) = i[1] /\ Second(i, 1) = i[2] /\ Neutral(i, 1) = i[3]
         /\ First(i, 2) = i[2] /\ Second(i, 2) = i[3] /\ Neutral(i, 2) = i[1]
         /\ First(i, 3) = i[3] /\ Second(i, 3) = i[1] /\ Neutral(i, 3) = i[2]
  BY DEF First, Second, Neutral

LEMMA CornersAreVertices ==
  ASSUME NEW V, NEW i \in V \X V \X V, NEW e \in Sides
  PROVE  First(i, e) \in V /\ Second(i, e) \in V /\ Neutral(i, e) \in V
<1>1. e = 1 \/ e = 2 \/ e = 3
  BY DEF Sides
<1>2. i[1] \in V /\ i[2] \in V /\ i[3] \in V
  OBVIOUS
<1> QED
  BY <1>1, <1>2, CornersOf

\* A side of one of the two triangles that replace i lies on the node they
\* share or is one of i's two other sides.
LEMMA SidesOfHalves ==
  ASSUME NEW i, NEW e \in Sides, NEW h, NEW j \in Halves(i, e, h), NEW f \in Sides
  PROVE  \/ Side(j, f) = {h, Neutral(i, e)}
         \/ Side(j, f) = {h, First(i, e)}
         \/ Side(j, f) = {h, Second(i, e)}
         \/ \E g \in Sides \ {e} : Side(j, f) = Side(i, g)
<1> DEFINE k == <<h, Neutral(i, e), First(i, e)>>
           l == <<h, Neutral(i, e), Second(i, e)>>
<1>1. j = k \/ j = l
  BY DEF Halves
<1>2. f = 1 \/ f = 2 \/ f = 3
  BY DEF Sides
<1>3. e = 1 \/ e = 2 \/ e = 3
  BY DEF Sides
<1>4. /\ \E g \in Sides \ {e} : {Neutral(i, e), First(i, e)} = Side(i, g)
      /\ \E g \in Sides \ {e} : {Neutral(i, e), Second(i, e)} = Side(i, g)
  <2>1. CASE e = 1
    BY <2>1, CornersOf DEF Side, Sides
  <2>2. CASE e = 2
    BY <2>2, CornersOf DEF Side, Sides
  <2>3. CASE e = 3
    BY <2>3, CornersOf DEF Side, Sides
  <2> QED
    BY <1>3, <2>1, <2>2, <2>3
<1>5. /\ Side(k, 1) = {h, Neutral(i, e)}
      /\ Side(k, 2) = {Neutral(i, e), First(i, e)}
      /\ Side(k, 3) = {First(i, e), h}
      /\ Side(l, 1) = {h, Neutral(i, e)}
      /\ Side(l, 2) = {Neutral(i, e), Second(i, e)}
      /\ Side(l, 3) = {Second(i, e), h}
  BY CornersOf DEF Side
<1> HIDE DEF k, l
<1> QED
  BY <1>1, <1>2, <1>4, <1>5

-----------------------------------------------------------------------------
\* Breaking an edge whose ends do not hang keeps the invariant, and that edge
\* is the only one that disappears.
LEMMA BreakWithoutHangingNode ==
  ASSUME FirmInv,
         NEW i \in interiors, NEW e \in Sides \ BrokenEdges(i),
         NoHangingEnd(i, e),
         BreakElementWithoutHangingNode(i, e)
  PROVE  /\ FirmInv'
         /\ \A p \in DOMAIN edges \ DOMAIN edges' : p \cap hanging = {}
<1> DEFINE u == First(i, e)
           v == Second(i, e)
           w == Neutral(i, e)
           s == Side(i, e)
<1>1. PICK n \in NewNodes(i, e) :
        /\ n \notin vertices
        /\ vertices' = vertices \cup {n}
        /\ edges' = [p \in (DOMAIN edges \ {s}) \cup {{n, u}, {n, v}} \cup {{n, w}} |->
                       IF n \in p THEN p \in {{n, u}, {n, v}} /\ edges[s]
                                  ELSE edges[p]]
        /\ interiors' = (interiors \ {i}) \cup Halves(i, e, n)
        /\ toRefine' = toRefine \ {i}
        /\ hanging' = hanging \cup (IF ~edges[s] THEN {n} ELSE {})
  BY ZenonT(30) DEF BreakElementWithoutHangingNode, ReplaceInterior, IsBorder, RemoveEdge, Hangs, Parts
<1>2. /\ edges \in [DOMAIN edges -> BOOLEAN]
      /\ \A p \in DOMAIN edges : p \subseteq vertices
      /\ interiors \subseteq vertices \X vertices \X vertices
      /\ toRefine \subseteq interiors
      /\ hanging \subseteq vertices
  BY DEF FirmInv, MeshTypeOK
<1>3. u \in vertices /\ v \in vertices /\ w \in vertices
  BY <1>2, CornersAreVertices
<1>4. s \in DOMAIN edges /\ s = {u, v} /\ s \cap hanging = {}
  BY DEF BrokenEdges, Side, NoHangingEnd
<1> HIDE DEF u, v, w, s
<1>5. DOMAIN edges' = (DOMAIN edges \ {s}) \cup {{n, u}, {n, v}, {n, w}}
  BY <1>1
<1>6. MeshTypeOK'
  <2>1. edges' \in [DOMAIN edges' -> BOOLEAN]
    BY <1>1, <1>2, <1>4, ZenonT(30)
  <2>2. \A p \in DOMAIN edges' : p \subseteq vertices'
    BY <1>1, <1>2, <1>3, <1>5
  <2>3. interiors' \subseteq vertices' \X vertices' \X vertices'
    BY <1>1, <1>2, <1>3 DEF Halves, u, v, w
  <2>4. toRefine' \subseteq interiors' /\ hanging' \subseteq vertices'
    BY <1>1, <1>2
  <2> QED
    BY <2>1, <2>2, <2>3, <2>4 DEF MeshTypeOK
<1>7. BorderIsFirm'
  <2> SUFFICES ASSUME NEW p \in DOMAIN edges', edges'[p]
               PROVE  p \cap hanging' = {}
    BY DEF BorderIsFirm
  <2>1. CASE n \in p
    <3>1. p \in {{n, u}, {n, v}} /\ edges[s]
      BY <1>1, <2>1, ZenonT(30)
    <3> QED
      BY <3>1, <1>1, <1>2, <1>4
  <2>2. CASE n \notin p
    <3>1. p \in DOMAIN edges /\ edges[p]
      BY <1>1, <1>5, <2>2
    <3> QED
      BY <3>1, <1>1, <2>2 DEF FirmInv, BorderIsFirm
  <2> QED
    BY <2>1, <2>2
<1>8. BrokenSidesAreFirm'
  <2> SUFFICES ASSUME NEW j \in interiors', NEW f \in Sides,
                      Side(j, f) \notin DOMAIN edges'
               PROVE  Side(j, f) \cap hanging' = {}
    BY DEF BrokenSidesAreFirm, BrokenEdges, NoHangingEnd, Side, First, Second
  <2>1. PICK k \in interiors : \E g \in Sides : Side(j, f) = Side(k, g)
    <3>1. CASE j \in interiors
      BY <3>1
    <3>2. CASE j \in Halves(i, e, n)
      <4>1. {n, u} \in DOMAIN edges' /\ {n, v} \in DOMAIN edges' /\ {n, w} \in DOMAIN edges'
        BY <1>5
      <4>2. e \in Sides
        OBVIOUS
      <4>3. \/ Side(j, f) = {n, w}
            \/ Side(j, f) = {n, u}
            \/ Side(j, f) = {n, v}
            \/ \E g \in Sides \ {e} : Side(j, f) = Side(i, g)
        BY <3>2, <4>2, SidesOfHalves DEF u, v, w
      <4> QED
        BY <4>1, <4>3
    <3> QED
      BY <1>1, <3>1, <3>2
  <2>2. PICK g \in Sides : Side(j, f) = Side(k, g)
    BY <2>1
  <2>3. Side(k, g) \subseteq vertices
    BY <1>2, CornersAreVertices DEF Side
  <2>4. Side(k, g) \cap hanging = {}
    <3>1. CASE Side(k, g) \in DOMAIN edges
      BY <3>1, <1>4, <1>5, <2>2
    <3>2. CASE Side(k, g) \notin DOMAIN edges
      BY <3>2 DEF FirmInv, BrokenSidesAreFirm, BrokenEdges, NoHangingEnd
    <3> QED
      BY <3>1, <3>2
  <2> QED
    BY <1>1, <2>2, <2>3, <2>4
<1>9. \A p \in DOMAIN edges \ DOMAIN edges' : p \cap hanging = {}
  BY <1>4, <1>5
<1> QED
  BY <1>6, <1>7, <1>8, <1>9 DEF FirmInv

\* Rewriting a triangle with the node on its broken side keeps the invariant,
\* and no edge disappears.
LEMMA BreakWithHangingNode ==
  ASSUME FirmInv,
         NEW i \in interiors, NEW e \in BrokenEdges(i),
         BreakElementWithHangingNode(i, e)
  PROVE  FirmInv' /\ DOMAIN edges \subseteq DOMAIN edges'
<1> DEFINE u == First(i, e)
           v == Second(i, e)
           w == Neutral(i, e)
<1>1. PICK h \in NodesBetween(u, v) :
        /\ edges' = [p \in DOMAIN edges \cup {{h, w}} |-> p # {h, w} /\ edges[p]]
        /\ interiors' = (interiors \ {i}) \cup Halves(i, e, h)
        /\ toRefine' = toRefine \ {i}
        /\ hanging' = hanging \ {h}
        /\ vertices' = vertices
  BY SMTT(30) DEF BreakElementWithHangingNode, ReplaceInterior
<1>2. /\ edges \in [DOMAIN edges -> BOOLEAN]
      /\ \A p \in DOMAIN edges : p \subseteq vertices
      /\ interiors \subseteq vertices \X vertices \X vertices
      /\ toRefine \subseteq interiors
      /\ hanging \subseteq vertices
  BY DEF FirmInv, MeshTypeOK
<1>3. e \in Sides
  BY DEF BrokenEdges
<1>4. u \in vertices /\ v \in vertices /\ w \in vertices
  BY <1>2, <1>3, CornersAreVertices
<1>5. h \in vertices /\ {u, h} \in DOMAIN edges /\ {v, h} \in DOMAIN edges
  BY DEF NodesBetween
<1> HIDE DEF u, v, w
<1>6. DOMAIN edges' = DOMAIN edges \cup {{h, w}}
  BY <1>1
<1>7. MeshTypeOK'
  <2>1. edges' \in [DOMAIN edges' -> BOOLEAN]
    BY <1>1, <1>2
  <2>2. \A p \in DOMAIN edges' : p \subseteq vertices'
    BY <1>1, <1>2, <1>4, <1>5, <1>6
  <2>3. interiors' \subseteq vertices' \X vertices' \X vertices'
    BY <1>1, <1>2, <1>4, <1>5 DEF Halves, u, v, w
  <2>4. toRefine' \subseteq interiors' /\ hanging' \subseteq vertices'
    BY <1>1, <1>2
  <2> QED
    BY <2>1, <2>2, <2>3, <2>4 DEF MeshTypeOK
<1>8. BorderIsFirm'
  BY <1>1, <1>6, ZenonT(30) DEF FirmInv, BorderIsFirm
<1>9. BrokenSidesAreFirm'
  <2> SUFFICES ASSUME NEW j \in interiors', NEW f \in Sides,
                      Side(j, f) \notin DOMAIN edges'
               PROVE  Side(j, f) \cap hanging' = {}
    BY DEF BrokenSidesAreFirm, BrokenEdges, NoHangingEnd, Side, First, Second
  <2>1. PICK k \in interiors : \E g \in Sides : Side(j, f) = Side(k, g)
    <3>1. CASE j \in interiors
      BY <3>1
    <3>2. CASE j \in Halves(i, e, h)
      <4>1. {h, u} \in DOMAIN edges' /\ {h, v} \in DOMAIN edges' /\ {h, w} \in DOMAIN edges'
        <5>1. {h, u} = {u, h} /\ {h, v} = {v, h}
          OBVIOUS
        <5> QED
          BY <1>5, <1>6, <5>1, ZenonT(30)
      <4>2. \/ Side(j, f) = {h, w}
            \/ Side(j, f) = {h, u}
            \/ Side(j, f) = {h, v}
            \/ \E g \in Sides \ {e} : Side(j, f) = Side(i, g)
        BY <1>3, <3>2, SidesOfHalves DEF u, v, w
      <4> QED
        BY <4>1, <4>2
    <3> QED
      BY <1>1, <3>1, <3>2
  <2>2. PICK g \in Sides : Side(j, f) = Side(k, g)
    BY <2>1
  <2>3. Side(k, g) \cap hanging = {}
    BY <1>6, <2>2 DEF FirmInv, BrokenSidesAreFirm, BrokenEdges, NoHangingEnd
  <2> QED
    BY <1>1, <2>2, <2>3
<1> QED
  BY <1>6, <1>7, <1>8, <1>9 DEF FirmInv

-----------------------------------------------------------------------------
\* Production 5 tests no flag, and need not: each end of the side it breaks is
\* an end of one of the two broken sides.
LEMMA Production5IsFirm ==
  ASSUME FirmInv, NEW i \in interiors, NEW e \in P5Edges(i)
  PROVE  e \in Sides \ BrokenEdges(i) /\ NoHangingEnd(i, e)
<1> DEFINE B == BrokenEdges(i)
<1>1. e \in Sides \ B /\ Cardinality(B) = 2 /\ B \subseteq Sides
  BY DEF P5Edges, TwoBroken, LongestEdgesIncludingBrokenOnes, BrokenEdges
<1>2. IsFiniteSet(Sides \ {e}) /\ Cardinality(Sides \ {e}) = 2
  <2>1. \A a, b \in Int : /\ IsFiniteSet(a..b)
                          /\ Cardinality(a..b) = IF a > b THEN 0 ELSE b - a + 1
    BY FS_Interval
  <2>2. 1 \in Int /\ 3 \in Int
    OBVIOUS
  <2>3. IsFiniteSet(1..3) /\ Cardinality(1..3) = IF 1 > 3 THEN 0 ELSE 3 - 1 + 1
    BY <2>1, <2>2, Zenon
  <2>4. IsFiniteSet(Sides) /\ Cardinality(Sides) = 3
    BY <2>3 DEF Sides
  <2> QED
    BY <1>1, <2>4, FS_RemoveElement
<1>3. B = Sides \ {e}
  BY <1>1, <1>2, FS_Subset
<1>4. \A g \in Sides \ {e} : Side(i, g) \cap hanging = {}
  BY <1>3 DEF FirmInv, BrokenSidesAreFirm, NoHangingEnd
<1>5. e = 1 \/ e = 2 \/ e = 3
  BY <1>1 DEF Sides
<1>6. Side(i, e) \subseteq UNION {Side(i, g) : g \in Sides \ {e}}
  <2>1. CASE e = 1
    BY <2>1, CornersOf DEF Side, Sides
  <2>2. CASE e = 2
    BY <2>2, CornersOf DEF Side, Sides
  <2>3. CASE e = 3
    BY <2>3, CornersOf DEF Side, Sides
  <2> QED
    BY <1>5, <2>1, <2>2, <2>3
<1> QED
  BY <1>1, <1>4, <1>6 DEF NoHangingEnd

\* Every production breaks an edge without hanging ends or uses the node on a
\* broken side.
LEMMA ProductionsBreak ==
  ASSUME FirmInv, NEW i \in interiors, Productions(i)
  PROVE  \/ \E e \in Sides \ BrokenEdges(i) :
              NoHangingEnd(i, e) /\ BreakElementWithoutHangingNode(i, e)
         \/ \E e \in BrokenEdges(i) : BreakElementWithHangingNode(i, e)
<1>1. ASSUME NEW e \in Sides \ BrokenEdges(i), MayBreak(i, e)
      PROVE  NoHangingEnd(i, e)
  BY <1>1 DEF MayBreak, IsBorder, NoHangingEnd, BrokenEdges, FirmInv, BorderIsFirm
<1>2. CASE Production1(i)
  <2>1. PICK e \in P1Edges(i) : BreakElementWithoutHangingNode(i, e)
    BY <1>2 DEF Production1, FirstOf
  <2>2. e \in Sides \ BrokenEdges(i) /\ MayBreak(i, e)
    BY DEF P1Edges, LongestEdges
  <2> QED
    BY <1>1, <2>1, <2>2
<1>3. CASE Production2(i)
  <2>1. PICK e \in P2Edges(i) : BreakElementWithHangingNode(i, e)
    BY <1>3 DEF Production2, FirstOf
  <2>2. e \in BrokenEdges(i)
    BY DEF P2Edges
  <2> QED
    BY <2>1, <2>2
<1>4. CASE Production3(i)
  <2>1. PICK e \in P3Edges(i) : BreakElementWithoutHangingNode(i, e)
    BY <1>4 DEF Production3, FirstOf
  <2>2. e \in Sides \ BrokenEdges(i) /\ MayBreak(i, e)
    BY DEF P3Edges, LongestEdges, MayBreak
  <2> QED
    BY <1>1, <2>1, <2>2
<1>5. CASE Production4(i)
  <2>1. PICK e \in P4Edges(i) : BreakElementWithHangingNode(i, e)
    BY <1>5 DEF Production4, FirstOf
  <2>2. e \in BrokenEdges(i)
    BY DEF P4Edges
  <2> QED
    BY <2>1, <2>2
<1>6. CASE Production5(i)
  <2>1. PICK e \in P5Edges(i) : BreakElementWithoutHangingNode(i, e)
    BY <1>6 DEF Production5, FirstOf
  <2>2. e \in Sides \ BrokenEdges(i) /\ NoHangingEnd(i, e)
    BY Production5IsFirm
  <2> QED
    BY <2>1, <2>2
<1>7. CASE Production6(i)
  <2>1. PICK e \in P6Edges(i) : BreakElementWithHangingNode(i, e)
    BY <1>7 DEF Production6, FirstOf
  <2>2. e \in BrokenEdges(i)
    BY DEF P6Edges, LongestEdgesIncludingBrokenOnes
  <2> QED
    BY <2>1, <2>2
<1> QED
  BY <1>2, <1>3, <1>4, <1>5, <1>6, <1>7 DEF Productions

\* Whichever production an iteration executes, the invariant is kept and the
\* edges that disappear do not end in a hanging node.
LEMMA ProductionsAreFirm ==
  ASSUME FirmInv, NEW i \in interiors, Productions(i)
  PROVE  /\ FirmInv'
         /\ \A p \in DOMAIN edges \ DOMAIN edges' : p \cap hanging = {}
  BY ProductionsBreak, BreakWithoutHangingNode, BreakWithHangingNode

-----------------------------------------------------------------------------
\* The mesh the program starts with: no vertex hangs and no side is broken.
LEMMA InitFirm == MeshInit => FirmInv
<1> SUFFICES ASSUME MeshInit PROVE FirmInv
  BY Zenon
<1>1. PICK z \in [0..3 -> UNION {Heights(Corner[n]) : n \in 0..3}] :
        LET c(n) == <<Corner[n][1], Corner[n][2], z[n], 0>> IN
        /\ vertices = {c(n) : n \in 0..3}
        /\ edges = [e \in {{c(0), c(1)}, {c(1), c(3)}, {c(2), c(3)}, {c(0), c(2)},
                           {c(3), c(0)}} |-> e # {c(3), c(0)}]
        /\ interiors = {<<c(0), c(1), c(3)>>, <<c(0), c(3), c(2)>>}
        /\ toRefine = {}
        /\ hanging = {}
  BY ZenonT(30) DEF MeshInit
<1> DEFINE c(n) == <<Corner[n][1], Corner[n][2], z[n], 0>>
<1>2. c(0) \in vertices /\ c(1) \in vertices /\ c(2) \in vertices /\ c(3) \in vertices
  <2>1. vertices = {c(n) : n \in 0..3}
    BY <1>1, Zenon
  <2>2. 0 \in 0..3 /\ 1 \in 0..3 /\ 2 \in 0..3 /\ 3 \in 0..3
    BY SMTT(30)
  <2> HIDE DEF c
  <2> QED BY <2>1, <2>2, Zenon
<1>3. /\ edges = [e \in {{c(0), c(1)}, {c(1), c(3)}, {c(2), c(3)}, {c(0), c(2)},
                           {c(3), c(0)}} |-> e # {c(3), c(0)}]
      /\ interiors = {<<c(0), c(1), c(3)>>, <<c(0), c(3), c(2)>>}
      /\ toRefine = {} /\ hanging = {}
  BY <1>1
<1> HIDE DEF c
<1>4. MeshTypeOK
  BY <1>2, <1>3 DEF MeshTypeOK
<1>5. BorderIsFirm /\ BrokenSidesAreFirm
  BY <1>3 DEF BorderIsFirm, BrokenSidesAreFirm, NoHangingEnd
<1> QED
  BY <1>4, <1>5 DEF FirmInv

\* FirmInv depends on nothing but the mesh, and not on the toRefine flags as
\* long as they are on interiors.
LEMMA FirmFrame ==
  ASSUME FirmInv,
         vertices' = vertices, edges' = edges, interiors' = interiors,
         hanging' = hanging, toRefine' \subseteq interiors'
  PROVE  FirmInv'
BY DEF FirmInv, MeshTypeOK, BorderIsFirm, BrokenSidesAreFirm, BrokenEdges,
       NoHangingEnd, Side, First, Second

-----------------------------------------------------------------------------
\* Places in the plane.
IsPoint(v) == v[1] \in Int /\ v[2] \in Int
SamePlace(u, v) == u[1] = v[1] /\ u[2] = v[2]

\* Turning a triangle round or over.
LEMMA Turns ==
  ASSUME NEW a, NEW b, NEW c, IsPoint(a), IsPoint(b), IsPoint(c)
  PROVE  /\ Turn(a, b, c) \in Int
         /\ Turn(b, c, a) = Turn(a, b, c) /\ Turn(c, a, b) = Turn(a, b, c)
         /\ Turn(b, a, c) = -Turn(a, b, c)
         /\ Turn(a, a, b) = 0 /\ Turn(a, b, a) = 0 /\ Turn(a, b, b) = 0
<1>1. PICK a1 \in Int, a2 \in Int : a[1] = a1 /\ a[2] = a2
  BY DEF IsPoint
<1>2. PICK b1 \in Int, b2 \in Int : b[1] = b1 /\ b[2] = b2
  BY DEF IsPoint
<1>3. PICK c1 \in Int, c2 \in Int : c[1] = c1 /\ c[2] = c2
  BY DEF IsPoint
<1> QED BY <1>1, <1>2, <1>3 DEF Turn

\* A point half way between two others is half way from a line, too.
LEMMA TurnHalfWay ==
  ASSUME NEW a, NEW b, NEW u, NEW v, NEW h,
         IsPoint(a), IsPoint(b), IsPoint(u), IsPoint(v), IsPoint(h), HalfWay(h, u, v)
  PROVE  2 * Turn(a, b, h) = Turn(a, b, u) + Turn(a, b, v)
<1>1. PICK a1 \in Int, a2 \in Int, b1 \in Int, b2 \in Int :
        a[1] = a1 /\ a[2] = a2 /\ b[1] = b1 /\ b[2] = b2
  BY DEF IsPoint
<1>2. PICK u1 \in Int, u2 \in Int, v1 \in Int, v2 \in Int, h1 \in Int, h2 \in Int :
        /\ u[1] = u1 /\ u[2] = u2 /\ v[1] = v1 /\ v[2] = v2 /\ h[1] = h1 /\ h[2] = h2
  BY ZenonT(30) DEF IsPoint
<1>3. v1 = 2 * h1 - u1 /\ v2 = 2 * h2 - u2
  BY <1>2 DEF HalfWay
<1> QED BY <1>1, <1>2, <1>3 DEF Turn

\* The two halves of a triangle, and of one of its sides.
LEMMA TurnOfHalves ==
  ASSUME NEW u, NEW v, NEW w, NEW h,
         IsPoint(u), IsPoint(v), IsPoint(w), IsPoint(h), HalfWay(h, u, v)
  PROVE  /\ 2 * Turn(h, w, u) = Turn(u, v, w) /\ 2 * Turn(h, w, v) = -Turn(u, v, w)
         /\ 2 * Turn(u, h, w) = Turn(u, v, w) /\ 2 * Turn(h, v, w) = Turn(u, v, w)
<1>1. PICK w1 \in Int, w2 \in Int : w[1] = w1 /\ w[2] = w2
  BY DEF IsPoint
<1>2. PICK u1 \in Int, u2 \in Int, v1 \in Int, v2 \in Int, h1 \in Int, h2 \in Int :
        /\ u[1] = u1 /\ u[2] = u2 /\ v[1] = v1 /\ v[2] = v2 /\ h[1] = h1 /\ h[2] = h2
  BY ZenonT(30) DEF IsPoint
<1>3. v1 = 2 * h1 - u1 /\ v2 = 2 * h2 - u2
  BY <1>2 DEF HalfWay
<1> QED BY <1>1, <1>2, <1>3 DEF Turn

\* Multiples with known factors have known signs.
LEMMA SignOfMultiple ==
  ASSUME NEW g \in Int, NEW d \in Int, NEW x \in Int, NEW y \in Int,
         g # 0, d # 0, g * y = d * x
  PROVE  /\ x = 0 <=> y = 0
         /\ g > 0 /\ d > 0 => (y > 0 <=> x > 0)
         /\ g < 0 /\ d < 0 => (y > 0 <=> x > 0)
         /\ g > 0 /\ d < 0 => (y > 0 <=> x < 0)
         /\ g < 0 /\ d > 0 => (y > 0 <=> x < 0)
  OBVIOUS

\* Lines through the same two points turn the same way or the opposite way.
LEMMA OneLine ==
  ASSUME NEW p, NEW q, NEW u, NEW v, IsPoint(p), IsPoint(q), IsPoint(u), IsPoint(v),
         ~SamePlace(p, q), ~SamePlace(u, v), Turn(p, q, u) = 0, Turn(p, q, v) = 0
  PROVE  \E g, d \in Int \ {0} :
           \A x : IsPoint(x) => g * Turn(u, v, x) = d * Turn(p, q, x)
<1>1. PICK p1 \in Int, p2 \in Int, u1 \in Int, u2 \in Int :
        p[1] = p1 /\ p[2] = p2 /\ u[1] = u1 /\ u[2] = u2
  BY DEF IsPoint
<1>2. PICK g1 \in Int, g2 \in Int, d1 \in Int, d2 \in Int :
        /\ q[1] - p1 = g1 /\ q[2] - p2 = g2 /\ v[1] - u1 = d1 /\ v[2] - u2 = d2
        /\ g1 # 0 \/ g2 # 0
        /\ d1 # 0 \/ d2 # 0
  <2>1. PICK q1 \in Int, q2 \in Int, v1 \in Int, v2 \in Int :
          q[1] = q1 /\ q[2] = q2 /\ v[1] = v1 /\ v[2] = v2
    BY DEF IsPoint
  <2>2. (q1 - p1 # 0 \/ q2 - p2 # 0) /\ (v1 - u1 # 0 \/ v2 - u2 # 0)
    BY <1>1, <2>1 DEF SamePlace
  <2> QED BY <2>1, <2>2
<1>3. g1 * (u2 - p2) - g2 * (u1 - p1) = 0
  BY <1>1, <1>2 DEF Turn
<1>4. v[1] = u1 + d1 /\ v[2] = u2 + d2
  BY <1>2 DEF IsPoint
<1>5. g1 * (u2 + d2 - p2) - g2 * (u1 + d1 - p1) = 0
  BY <1>1, <1>2, <1>4 DEF Turn
<1>6. g1 * d2 = g2 * d1
  BY <1>3, <1>5
<1>7. ASSUME NEW x, IsPoint(x)
      PROVE  /\ g1 * Turn(u, v, x) = d1 * Turn(p, q, x)
             /\ g2 * Turn(u, v, x) = d2 * Turn(p, q, x)
  <2>1. PICK x1 \in Int, x2 \in Int : x[1] = x1 /\ x[2] = x2
    BY <1>7 DEF IsPoint
  <2>2. PICK a \in Int, b \in Int : a = x1 - u1 /\ b = x2 - u2
    OBVIOUS
  <2>3. Turn(u, v, x) = d1 * b - d2 * a
    BY <1>1, <1>2, <2>1, <2>2 DEF Turn
  <2>4. Turn(p, q, x) = g1 * (b + u2 - p2) - g2 * (a + u1 - p1)
    BY <1>1, <1>2, <2>1, <2>2 DEF Turn
  <2>5. Turn(p, q, x) = g1 * b - g2 * a
    BY <1>3, <2>4
  <2>6. (g1 * d2) * a = (g2 * d1) * a /\ (g1 * d2) * b = (g2 * d1) * b
    BY <1>6
  <2>7. g1 * (d1 * b - d2 * a) = d1 * (g1 * b - g2 * a)
    BY <2>6
  <2>8. g2 * (d1 * b - d2 * a) = d2 * (g1 * b - g2 * a)
    BY <2>6
  <2> QED BY <2>3, <2>5, <2>7, <2>8
<1>8. (g1 # 0 /\ d1 # 0) \/ (g2 # 0 /\ d2 # 0)
  BY <1>2, <1>6
<1>9. CASE g1 # 0 /\ d1 # 0
  BY <1>7, <1>9
<1>10. CASE g2 # 0 /\ d2 # 0
  BY <1>7, <1>10
<1> QED BY <1>8, <1>9, <1>10

\* Three points of one line are no triangle.
LEMMA Flat ==
  ASSUME NEW u, NEW v, NEW a, NEW b, NEW c,
         IsPoint(u), IsPoint(v), IsPoint(a), IsPoint(b), IsPoint(c), ~SamePlace(u, v),
         Turn(u, v, a) = 0, Turn(u, v, b) = 0, Turn(u, v, c) = 0
  PROVE  Turn(a, b, c) = 0
<1>1. CASE SamePlace(a, b)
  BY <1>1 DEF SamePlace, IsPoint, Turn
<1>2. CASE ~SamePlace(a, b)
  <2>1. PICK g \in Int \ {0}, d \in Int \ {0} :
          \A x : IsPoint(x) => g * Turn(a, b, x) = d * Turn(u, v, x)
    BY <1>2, OneLine
  <2>2. g * Turn(a, b, c) = 0
    BY <2>1
  <2>3. Turn(a, b, c) \in Int
    BY Turns
  <2> QED BY <2>2, <2>3
<1> QED BY <1>1, <1>2

\* Two points on different sides of a line that has u and v on it are not on
\* one side of u and v.
LEMMA LineParts ==
  ASSUME NEW p, NEW q, NEW u, NEW v, NEW x, NEW y,
         IsPoint(p), IsPoint(q), IsPoint(u), IsPoint(v), IsPoint(x), IsPoint(y),
         ~SamePlace(p, q), ~SamePlace(u, v), Turn(p, q, u) = 0, Turn(p, q, v) = 0,
         Turn(p, q, x) >= 0, Turn(p, q, y) <= 0
  PROVE  /\ ~(Turn(u, v, x) > 0 /\ Turn(u, v, y) > 0)
         /\ ~(Turn(u, v, x) < 0 /\ Turn(u, v, y) < 0)
<1>1. PICK g \in Int \ {0}, d \in Int \ {0} :
        \A z : IsPoint(z) => g * Turn(u, v, z) = d * Turn(p, q, z)
  BY OneLine
<1>2. PICK a \in Int, b \in Int, s \in Int, t \in Int :
        a = Turn(u, v, x) /\ b = Turn(u, v, y) /\ s = Turn(p, q, x) /\ t = Turn(p, q, y)
  BY Turns
<1>3. g * a = d * s /\ g * b = d * t
  BY <1>1, <1>2
<1>4. s >= 0 /\ t <= 0
  BY <1>2
<1>5. ~(a > 0 /\ b > 0) /\ ~(a < 0 /\ b < 0)
  BY <1>3, <1>4, SignOfMultiple
<1> QED BY <1>2, <1>5

-----------------------------------------------------------------------------
\* Vertices have places of their own.
Points == \A v \in vertices : IsPoint(v) /\ v[4] = 0
Placed == \A u, v \in vertices : SamePlace(u, v) => u = v

\* Triangles have an area, and a line through two vertices keeps any two of them
\* apart.
Proper == \A i \in interiors : Turn(i[1], i[2], i[3]) # 0
Separates(p, q, i, j) ==
  /\ ~SamePlace(p, q)
  /\ \A c \in Corners(i) : Turn(p, q, c) >= 0
  /\ \A c \in Corners(j) : Turn(p, q, c) <= 0
Disjoint ==
  \A i, j \in interiors : i # j => \E p, q \in vertices : Separates(p, q, i, j)

\* Every vertex is a corner.
AllUsed == \A v \in vertices : \E i \in interiors : v \in Corners(i)

\* The triangles do not overlap.
Plane == MeshTypeOK /\ Points /\ Placed /\ Proper /\ Disjoint /\ AllUsed

\* The corners of a triangle as seen from side e are points, and not in line.
LEMMA SidesAre ==
  ASSUME Plane, NEW i \in interiors, NEW e \in Sides
  PROVE  /\ First(i, e) \in vertices /\ Second(i, e) \in vertices /\ Neutral(i, e) \in vertices
         /\ IsPoint(First(i, e)) /\ IsPoint(Second(i, e)) /\ IsPoint(Neutral(i, e))
         /\ Corners(i) = {First(i, e), Second(i, e), Neutral(i, e)}
         /\ Turn(First(i, e), Second(i, e), Neutral(i, e)) # 0
         /\ ~SamePlace(First(i, e), Second(i, e))
<1> USE DEF Plane
<1>1. i \in vertices \X vertices \X vertices
  BY DEF MeshTypeOK
<1>2. First(i, e) \in vertices /\ Second(i, e) \in vertices /\ Neutral(i, e) \in vertices
  BY <1>1, CornersAreVertices
<1>3. IsPoint(First(i, e)) /\ IsPoint(Second(i, e)) /\ IsPoint(Neutral(i, e))
  BY <1>2 DEF Points
<1>4. e = 1 \/ e = 2 \/ e = 3
  BY DEF Sides
<1>5. Corners(i) = {i[1], i[2], i[3]}
  BY DEF Corners, Sides
<1>6. Corners(i) = {First(i, e), Second(i, e), Neutral(i, e)}
  BY <1>4, <1>5, CornersOf
<1>7. IsPoint(i[1]) /\ IsPoint(i[2]) /\ IsPoint(i[3])
  BY <1>1 DEF Points
<1>8. Turn(First(i, e), Second(i, e), Neutral(i, e)) # 0
  BY <1>4, <1>7, CornersOf, Turns DEF Proper
<1>9. ASSUME SamePlace(First(i, e), Second(i, e)) PROVE FALSE
  <2>1. PICK a1 \in Int, a2 \in Int : /\ First(i, e)[1] = a1 /\ First(i, e)[2] = a2
                                      /\ Second(i, e)[1] = a1 /\ Second(i, e)[2] = a2
    BY <1>3, <1>9 DEF IsPoint, SamePlace
  <2>2. PICK c1 \in Int, c2 \in Int : Neutral(i, e)[1] = c1 /\ Neutral(i, e)[2] = c2
    BY <1>3 DEF IsPoint
  <2> QED BY <1>8, <2>1, <2>2 DEF Turn
<1> QED BY <1>2, <1>3, <1>6, <1>8, <1>9

\* A point of a triangle: a corner, or the middle of a side.
On(x, i) == x \in Corners(i) \/ \E a, b \in Corners(i) : HalfWay(x, a, b)

\* Triangles with two points in common are on different sides of them.
LEMMA NotOneSide ==
  ASSUME Plane, NEW i \in interiors, NEW j \in interiors, i # j,
         NEW u, NEW v, IsPoint(u), IsPoint(v), ~SamePlace(u, v),
         On(u, i), On(v, i), On(u, j), On(v, j),
         NEW x \in Corners(i), NEW y \in Corners(j)
  PROVE  /\ ~(Turn(u, v, x) > 0 /\ Turn(u, v, y) > 0)
         /\ ~(Turn(u, v, x) < 0 /\ Turn(u, v, y) < 0)
<1>1. PICK p \in vertices, q \in vertices : Separates(p, q, i, j)
  BY DEF Plane, Disjoint
<1>2. ASSUME NEW k \in interiors, NEW c \in Corners(k) PROVE IsPoint(c)
  BY <1>2, SidesAre DEF Sides
<1>3. IsPoint(p) /\ IsPoint(q) /\ IsPoint(x) /\ IsPoint(y)
  BY <1>2 DEF Plane, Points
<1>4. ASSUME NEW z, IsPoint(z), On(z, i) PROVE Turn(p, q, z) >= 0
  <2>1. CASE z \in Corners(i)
    BY <1>1, <2>1 DEF Separates
  <2>2. ASSUME NEW a \in Corners(i), NEW b \in Corners(i), HalfWay(z, a, b)
        PROVE  Turn(p, q, z) >= 0
    <3>1. 2 * Turn(p, q, z) = Turn(p, q, a) + Turn(p, q, b)
      BY <1>2, <1>3, <1>4, <2>2, TurnHalfWay
    <3>2. Turn(p, q, a) >= 0 /\ Turn(p, q, b) >= 0
      BY <1>1 DEF Separates
    <3>3. Turn(p, q, a) \in Int /\ Turn(p, q, b) \in Int /\ Turn(p, q, z) \in Int
      BY <1>2, <1>3, <1>4, Turns
    <3> QED BY <3>1, <3>2, <3>3
  <2> QED BY <1>4, <2>1, <2>2 DEF On
<1>5. ASSUME NEW z, IsPoint(z), On(z, j) PROVE Turn(p, q, z) <= 0
  <2>1. CASE z \in Corners(j)
    BY <1>1, <2>1 DEF Separates
  <2>2. ASSUME NEW a \in Corners(j), NEW b \in Corners(j), HalfWay(z, a, b)
        PROVE  Turn(p, q, z) <= 0
    <3>1. 2 * Turn(p, q, z) = Turn(p, q, a) + Turn(p, q, b)
      BY <1>2, <1>3, <1>5, <2>2, TurnHalfWay
    <3>2. Turn(p, q, a) <= 0 /\ Turn(p, q, b) <= 0
      BY <1>1 DEF Separates
    <3>3. Turn(p, q, a) \in Int /\ Turn(p, q, b) \in Int /\ Turn(p, q, z) \in Int
      BY <1>2, <1>3, <1>5, Turns
    <3> QED BY <3>1, <3>2, <3>3
  <2> QED BY <1>5, <2>1, <2>2 DEF On
<1>6. Turn(p, q, u) = 0 /\ Turn(p, q, v) = 0
  <2>1. Turn(p, q, u) \in Int /\ Turn(p, q, v) \in Int
    BY <1>3, Turns
  <2> QED BY <1>4, <1>5, <2>1
<1>7. Turn(p, q, x) >= 0 /\ Turn(p, q, y) <= 0 /\ ~SamePlace(p, q)
  BY <1>1 DEF Separates
<1> QED BY <1>3, <1>6, <1>7, LineParts

\* A triangle with a corner in the middle of another's side is on the far side
\* of it.
LEMMA FarSide ==
  ASSUME Plane, NEW i \in interiors, NEW e \in Sides, NEW j \in interiors,
         NEW x \in Corners(j), HalfWay(x, First(i, e), Second(i, e))
  PROVE  \A y \in Corners(j) :
           LET t == Turn(First(i, e), Second(i, e), Neutral(i, e))
               s == Turn(First(i, e), Second(i, e), y)
           IN  (t > 0 => s <= 0) /\ (t < 0 => s >= 0)
<1>1. PICK u, v, w : u = First(i, e) /\ v = Second(i, e) /\ w = Neutral(i, e)
  OBVIOUS
<1>2. /\ IsPoint(u) /\ IsPoint(v) /\ IsPoint(w) /\ ~SamePlace(u, v)
      /\ Corners(i) = {u, v, w} /\ Turn(u, v, w) # 0
  BY <1>1, SidesAre
<1>3. \A c \in Corners(j) : IsPoint(c)
  BY SidesAre DEF Sides
<1>4. HalfWay(x, u, v) /\ IsPoint(x)
  BY <1>1, <1>3
<1>5. x \notin Corners(i)
  <2>1. x # u /\ x # v
    BY <1>2, <1>4 DEF HalfWay, IsPoint, SamePlace
  <2>2. 2 * Turn(u, v, x) = Turn(u, v, u) + Turn(u, v, v)
    BY <1>2, <1>4, TurnHalfWay
  <2>3. Turn(u, v, x) = 0
    <3>1. Turn(u, v, u) = 0 /\ Turn(u, v, v) = 0 /\ Turn(u, v, x) \in Int
      BY <1>2, <1>4, Turns
    <3> QED BY <2>2, <3>1
  <2> QED BY <1>2, <2>1, <2>3
<1>6. PICK p \in vertices, q \in vertices : Separates(p, q, i, j)
  BY <1>5 DEF Plane, Disjoint
<1>7. IsPoint(p) /\ IsPoint(q)
  BY DEF Plane, Points
<1>8. /\ Turn(p, q, u) \in Int /\ Turn(p, q, v) \in Int /\ Turn(p, q, x) \in Int
      /\ Turn(p, q, u) >= 0 /\ Turn(p, q, v) >= 0 /\ Turn(p, q, w) >= 0 /\ Turn(p, q, x) <= 0
      /\ ~SamePlace(p, q)
  BY <1>2, <1>4, <1>6, <1>7, Turns DEF Separates
<1>9. 2 * Turn(p, q, x) = Turn(p, q, u) + Turn(p, q, v)
  BY <1>2, <1>4, <1>7, TurnHalfWay
<1>10. Turn(p, q, u) = 0 /\ Turn(p, q, v) = 0
  BY <1>8, <1>9
<1>11. ASSUME NEW y \in Corners(j)
       PROVE  /\ Turn(u, v, w) > 0 => Turn(u, v, y) <= 0
              /\ Turn(u, v, w) < 0 => Turn(u, v, y) >= 0
  <2>1. IsPoint(y) /\ Turn(p, q, y) <= 0
    BY <1>3, <1>6 DEF Separates
  <2>2. /\ ~(Turn(u, v, w) > 0 /\ Turn(u, v, y) > 0)
        /\ ~(Turn(u, v, w) < 0 /\ Turn(u, v, y) < 0)
    BY <1>2, <1>7, <1>8, <1>10, <2>1, LineParts
  <2>3. Turn(u, v, y) \in Int
    BY <1>2, <2>1, Turns
  <2> QED BY <2>2, <2>3
<1> QED BY <1>1, <1>11

\* All vertices are on one side of a border edge.
Outer ==
  \A u, v \in vertices : {u, v} \in DOMAIN edges /\ edges[{u, v}] =>
    \A x, y \in vertices : ~(Turn(u, v, x) > 0 /\ Turn(u, v, y) < 0)

\* Nothing is in the middle of a side that is on the border or that is the side
\* of a second triangle.
LEMMA NothingHalfWay ==
  ASSUME Plane, Outer, NEW i \in interiors, NEW e \in Sides, Side(i, e) \in DOMAIN edges,
         \/ edges[Side(i, e)]
         \/ \E j \in interiors \ {i} : \E f \in Sides : Side(j, f) = Side(i, e),
         NEW x \in vertices
  PROVE  ~HalfWay(x, First(i, e), Second(i, e))
<1> SUFFICES ASSUME HalfWay(x, First(i, e), Second(i, e)) PROVE FALSE
  OBVIOUS
<1>1. PICK u, v, w : u = First(i, e) /\ v = Second(i, e) /\ w = Neutral(i, e)
  OBVIOUS
<1>2. /\ u \in vertices /\ v \in vertices /\ w \in vertices
      /\ IsPoint(u) /\ IsPoint(v) /\ IsPoint(w) /\ ~SamePlace(u, v)
      /\ Corners(i) = {u, v, w} /\ Turn(u, v, w) # 0 /\ Turn(u, v, w) \in Int
  BY <1>1, SidesAre, Turns
<1>3. PICK j \in interiors : x \in Corners(j)
  BY DEF Plane, AllUsed
<1>4. \A c \in Corners(j) : c \in vertices /\ IsPoint(c) /\ Turn(u, v, c) \in Int
  BY <1>2, SidesAre, Turns DEF Sides
<1>5. \A y \in Corners(j) : /\ Turn(u, v, w) > 0 => Turn(u, v, y) <= 0
                            /\ Turn(u, v, w) < 0 => Turn(u, v, y) >= 0
  BY <1>1, <1>3, FarSide
<1>6. \A y \in Corners(j) : /\ Turn(u, v, w) > 0 => Turn(u, v, y) >= 0
                            /\ Turn(u, v, w) < 0 => Turn(u, v, y) <= 0
  <2>1. CASE edges[Side(i, e)]
    <3>1. \A y \in vertices : /\ ~(Turn(u, v, w) > 0 /\ Turn(u, v, y) < 0)
                              /\ ~(Turn(u, v, y) > 0 /\ Turn(u, v, w) < 0)
      BY <1>1, <1>2, <2>1 DEF Outer, Side
    <3> QED BY <1>4, <3>1
  <2>2. ASSUME NEW k \in interiors \ {i}, NEW f \in Sides, Side(k, f) = Side(i, e)
        PROVE  \A y \in Corners(j) : /\ Turn(u, v, w) > 0 => Turn(u, v, y) >= 0
                                     /\ Turn(u, v, w) < 0 => Turn(u, v, y) <= 0
    <3>1. PICK a, b, z : a = First(k, f) /\ b = Second(k, f) /\ z = Neutral(k, f)
      OBVIOUS
    <3>2. /\ IsPoint(a) /\ IsPoint(b) /\ IsPoint(z) /\ Corners(k) = {a, b, z}
          /\ Turn(a, b, z) # 0 /\ Turn(a, b, z) \in Int
      BY <3>1, SidesAre, Turns
    <3>3. (a = u /\ b = v) \/ (a = v /\ b = u)
      BY <1>1, <2>2, <3>1 DEF Side
    <3>4. /\ ~(Turn(u, v, w) > 0 /\ Turn(u, v, z) > 0)
          /\ ~(Turn(u, v, w) < 0 /\ Turn(u, v, z) < 0)
      <4>1. On(u, i) /\ On(v, i) /\ On(u, k) /\ On(v, k) /\ w \in Corners(i) /\ z \in Corners(k)
        BY <1>2, <3>2, <3>3 DEF On
      <4> QED BY <1>2, <4>1, NotOneSide
    <3>5. HalfWay(x, a, b)
      BY <1>1, <1>2, <3>3 DEF HalfWay, IsPoint
    <3>6. \A y \in Corners(j) : /\ Turn(a, b, z) > 0 => Turn(a, b, y) <= 0
                                /\ Turn(a, b, z) < 0 => Turn(a, b, y) >= 0
      BY <1>3, <3>1, <3>5, FarSide
    <3>7. CASE a = u /\ b = v
      BY <1>2, <1>4, <3>2, <3>4, <3>6, <3>7
    <3>8. CASE a = v /\ b = u
      <4>1. Turn(a, b, z) = -Turn(u, v, z) /\ Turn(u, v, z) \in Int
        BY <1>2, <3>2, <3>8, Turns
      <4>2. \A y \in Corners(j) : Turn(a, b, y) = -Turn(u, v, y)
        BY <1>2, <1>4, <3>8, Turns
      <4>3. ASSUME NEW y \in Corners(j)
            PROVE  /\ Turn(u, v, w) > 0 => Turn(u, v, y) >= 0
                   /\ Turn(u, v, w) < 0 => Turn(u, v, y) <= 0
        BY <1>2, <1>4, <3>2, <3>4, <3>6, <4>1, <4>2
      <4> QED BY <4>3
    <3> QED BY <3>3, <3>7, <3>8
  <2> QED BY <2>1, <2>2
<1>7. \A y \in Corners(j) : Turn(u, v, y) = 0
  BY <1>2, <1>4, <1>5, <1>6
<1>8. j[1] \in Corners(j) /\ j[2] \in Corners(j) /\ j[3] \in Corners(j)
  BY DEF Corners, Sides
<1>9. Turn(j[1], j[2], j[3]) = 0
  BY <1>2, <1>4, <1>7, <1>8, Flat
<1> QED BY <1>9 DEF Plane, Proper

\* The line from the middle of a side to the opposite corner is in no other
\* triangle.
LEMMA SpokeIsInside ==
  ASSUME Plane, NEW k \in interiors, NEW e \in Sides, NEW i \in interiors \ {k},
         NEW h, IsPoint(h), HalfWay(h, First(k, e), Second(k, e))
  PROVE  ~(On(h, i) /\ On(Neutral(k, e), i))
<1> SUFFICES ASSUME On(h, i), On(Neutral(k, e), i) PROVE FALSE
  OBVIOUS
<1>1. PICK u, v, w : u = First(k, e) /\ v = Second(k, e) /\ w = Neutral(k, e)
  OBVIOUS
<1>2. /\ IsPoint(u) /\ IsPoint(v) /\ IsPoint(w) /\ ~SamePlace(u, v)
      /\ Corners(k) = {u, v, w} /\ Turn(u, v, w) # 0 /\ Turn(u, v, w) \in Int
      /\ HalfWay(h, u, v)
  BY <1>1, SidesAre, Turns
<1>3. 2 * Turn(h, w, u) = Turn(u, v, w) /\ 2 * Turn(h, w, v) = -Turn(u, v, w)
  BY <1>2, TurnOfHalves
<1>4. Turn(h, w, u) \in Int /\ Turn(h, w, v) \in Int
  BY <1>2, Turns
<1>5. ~SamePlace(h, w)
  <2> SUFFICES ASSUME SamePlace(h, w) PROVE FALSE
    OBVIOUS
  <2>1. PICK a1 \in Int, a2 \in Int : h[1] = a1 /\ h[2] = a2 /\ w[1] = a1 /\ w[2] = a2
    BY <1>2 DEF SamePlace, IsPoint
  <2>2. PICK c1 \in Int, c2 \in Int : u[1] = c1 /\ u[2] = c2
    BY <1>2 DEF IsPoint
  <2>3. Turn(h, w, u) = 0
    BY <2>1, <2>2 DEF Turn
  <2> QED BY <1>2, <1>3, <2>3
<1>6. On(h, k) /\ On(w, k)
  BY <1>2 DEF On
<1>7. \A y \in Corners(i) : IsPoint(y) /\ Turn(h, w, y) \in Int
  BY <1>2, SidesAre, Turns DEF Sides
<1>8. ASSUME NEW y \in Corners(i) PROVE Turn(h, w, y) = 0
  <2>1. /\ ~(Turn(h, w, u) > 0 /\ Turn(h, w, y) > 0) /\ ~(Turn(h, w, u) < 0 /\ Turn(h, w, y) < 0)
        /\ ~(Turn(h, w, v) > 0 /\ Turn(h, w, y) > 0) /\ ~(Turn(h, w, v) < 0 /\ Turn(h, w, y) < 0)
    <3>1. u \in Corners(k) /\ v \in Corners(k)
      BY <1>2
    <3> QED BY <1>1, <1>2, <1>5, <1>6, <3>1, NotOneSide
  <2> QED BY <1>2, <1>3, <1>4, <1>7, <2>1
<1>9. i[1] \in Corners(i) /\ i[2] \in Corners(i) /\ i[3] \in Corners(i)
  BY SMTT(30) DEF Corners, Sides
<1>10. Turn(i[1], i[2], i[3]) = 0
  BY <1>2, <1>5, <1>7, <1>8, <1>9, Flat
<1> QED BY <1>10 DEF Plane, Proper

-----------------------------------------------------------------------------
\* The triangle k is cut from h, half way along its side e.
Cut(k, e, h) ==
  /\ vertices' = vertices \cup {h}
  /\ interiors' = (interiors \ {k}) \cup Halves(k, e, h)

\* The corners of a half.
LEMMA CornersOfTriple ==
  ASSUME NEW h, NEW w, NEW u PROVE Corners(<<h, w, u>>) = {h, w, u}
  BY DEF Corners, Sides

\* Cutting a triangle from a point with a place of its own keeps triangles apart:
\* what separated the triangle from the others separates its halves from them.
LEMMA CutKeepsPlane ==
  ASSUME Plane, MeshTypeOK', NEW k \in interiors, NEW e \in Sides, NEW h, Cut(k, e, h),
         IsPoint(h), h[4] = 0, HalfWay(h, First(k, e), Second(k, e)),
         \A x \in vertices : SamePlace(x, h) => x = h
  PROVE  Plane'
<1>1. PICK u, v, w : u = First(k, e) /\ v = Second(k, e) /\ w = Neutral(k, e)
  OBVIOUS
<1>2. /\ u \in vertices /\ v \in vertices /\ w \in vertices
      /\ IsPoint(u) /\ IsPoint(v) /\ IsPoint(w) /\ HalfWay(h, u, v)
      /\ Corners(k) = {u, v, w} /\ Turn(u, v, w) # 0 /\ Turn(u, v, w) \in Int
  BY <1>1, SidesAre, Turns
<1>3. PICK l, m : /\ l = <<h, w, u>> /\ m = <<h, w, v>>
                  /\ Corners(l) = {h, w, u} /\ Corners(m) = {h, w, v}
                  /\ interiors' = (interiors \ {k}) \cup {l, m}
  <2>1. /\ Halves(k, e, h) = {<<h, w, u>>, <<h, w, v>>}
        /\ Corners(<<h, w, u>>) = {h, w, u} /\ Corners(<<h, w, v>>) = {h, w, v}
    BY <1>1, CornersOfTriple DEF Halves
  <2> QED BY <2>1 DEF Cut
<1>4. Points' /\ Placed'
  BY DEF Cut, Plane, Points, Placed, SamePlace, IsPoint
<1>5. /\ 2 * Turn(h, w, u) = Turn(u, v, w) /\ 2 * Turn(h, w, v) = -Turn(u, v, w)
      /\ Turn(h, w, u) \in Int /\ Turn(h, w, v) \in Int
  BY <1>2, TurnOfHalves, Turns
<1>6. Proper'
  <2>1. Turn(l[1], l[2], l[3]) # 0 /\ Turn(m[1], m[2], m[3]) # 0
    BY <1>2, <1>3, <1>5
  <2> QED BY <1>3, <2>1 DEF Plane, Proper, Turn
<1>7. AllUsed'
  BY <1>2, <1>3 DEF Plane, AllUsed, Cut, Corners
<1>8. ASSUME NEW p, NEW q, IsPoint(p), IsPoint(q), NEW i \in {l, m}
      PROVE  /\ (\A c \in Corners(k) : Turn(p, q, c) >= 0) => \A c \in Corners(i) : Turn(p, q, c) >= 0
             /\ (\A c \in Corners(k) : Turn(p, q, c) <= 0) => \A c \in Corners(i) : Turn(p, q, c) <= 0
  <2>1. /\ 2 * Turn(p, q, h) = Turn(p, q, u) + Turn(p, q, v)
        /\ Turn(p, q, h) \in Int /\ Turn(p, q, u) \in Int /\ Turn(p, q, v) \in Int
    BY <1>2, <1>8, TurnHalfWay, Turns
  <2>2. Turn(p, q, u) >= 0 /\ Turn(p, q, v) >= 0 => Turn(p, q, h) >= 0
    BY <2>1
  <2>3. Turn(p, q, u) <= 0 /\ Turn(p, q, v) <= 0 => Turn(p, q, h) <= 0
    BY <2>1
  <2> QED BY <1>2, <1>3, <2>2, <2>3
<1>9. ASSUME NEW i \in interiors', NEW j \in interiors', i # j
      PROVE  \E p, q \in vertices' : Separates(p, q, i, j)
  <2>1. CASE i \in {l, m} /\ j \in {l, m}
    <3>1. ~SamePlace(h, w) /\ ~SamePlace(w, h)
      <4> SUFFICES ASSUME SamePlace(h, w) PROVE FALSE
        BY DEF SamePlace
      <4>1. PICK a1 \in Int, a2 \in Int : h[1] = a1 /\ h[2] = a2 /\ w[1] = a1 /\ w[2] = a2
        BY <1>2 DEF SamePlace, IsPoint
      <4>2. PICK c1 \in Int, c2 \in Int : u[1] = c1 /\ u[2] = c2
        BY <1>2 DEF IsPoint
      <4>3. Turn(h, w, u) = 0
        BY <4>1, <4>2 DEF Turn
      <4> QED BY <1>2, <1>5, <4>3
    <3>2. /\ Turn(w, h, u) = -Turn(h, w, u) /\ Turn(w, h, v) = -Turn(h, w, v)
          /\ Turn(h, w, h) = 0 /\ Turn(h, w, w) = 0 /\ Turn(w, h, h) = 0 /\ Turn(w, h, w) = 0
      BY <1>2, Turns
    <3>3. (Turn(h, w, u) > 0 /\ Turn(h, w, v) < 0) \/ (Turn(h, w, u) < 0 /\ Turn(h, w, v) > 0)
      BY <1>2, <1>5
    <3>4. \/ Separates(h, w, l, m) /\ Separates(w, h, m, l)
          \/ Separates(w, h, l, m) /\ Separates(h, w, m, l)
      BY <1>3, <1>5, <3>1, <3>2, <3>3 DEF Separates
    <3>5. h \in vertices' /\ w \in vertices'
      BY <1>2 DEF Cut
    <3> QED BY <1>9, <2>1, <3>4, <3>5
  <2>2. CASE i \in {l, m} /\ j \in interiors \ {k}
    <3>1. PICK p \in vertices, q \in vertices : Separates(p, q, k, j)
      BY <2>2 DEF Plane, Disjoint
    <3>2. IsPoint(p) /\ IsPoint(q)
      BY DEF Plane, Points
    <3>3. Separates(p, q, i, j)
      BY <1>8, <2>2, <3>1, <3>2 DEF Separates
    <3> QED BY <3>3 DEF Cut
  <2>3. CASE i \in interiors \ {k} /\ j \in {l, m}
    <3>1. PICK p \in vertices, q \in vertices : Separates(p, q, i, k)
      BY <2>3 DEF Plane, Disjoint
    <3>2. IsPoint(p) /\ IsPoint(q)
      BY DEF Plane, Points
    <3>3. Separates(p, q, i, j)
      BY <1>8, <2>3, <3>1, <3>2 DEF Separates
    <3> QED BY <3>3 DEF Cut
  <2>4. CASE i \in interiors \ {k} /\ j \in interiors \ {k}
    BY <1>9, <2>4 DEF Plane, Disjoint, Cut
  <2> QED BY <1>3, <2>1, <2>2, <2>3, <2>4
<1>10. Disjoint'
  BY <1>9 DEF Disjoint, Separates, Corners, Turn, SamePlace
<1> QED BY <1>4, <1>6, <1>7, <1>10 DEF Plane

-----------------------------------------------------------------------------
\* The sides of a triangle as pairs of vertices, and the node in the middle of a
\* pair, joined to both of its ends.
Pairs(i) == {Side(i, e) : e \in Sides}
InMiddle(h, p) == \E a, b : p = {a, b} /\ HalfWay(h, a, b)
Mid(h, p) == h \in vertices /\ InMiddle(h, p) /\ \A a \in p : {a, h} \in DOMAIN edges

\* p runs along triangle i: it is a side, or half of a broken side.
Along(i, p) ==
  \/ p \in Pairs(i)
  \/ \E q \in Pairs(i) \ DOMAIN edges : \E h, a : Mid(h, q) /\ a \in q /\ p = {a, h}

\* An edge has triangles on both sides unless it is on the border.
Beside ==
  \A p \in DOMAIN edges :
    \E i, j \in interiors : Along(i, p) /\ Along(j, p) /\ (i # j \/ edges[p])

\* The hanging nodes are the middles of the broken sides, one for each.
NodesHang == \A i \in interiors : \A p \in Pairs(i) \ DOMAIN edges : \E h \in hanging : Mid(h, p)
HangingAreNodes ==
  \A h \in hanging : \E i \in interiors : \E p \in Pairs(i) \ DOMAIN edges : Mid(h, p)
HangOnce ==
  \A i, j \in interiors : \A p \in Pairs(i) \ DOMAIN edges, q \in Pairs(j) \ DOMAIN edges :
    \A h : Mid(h, p) /\ Mid(h, q) => i = j /\ p = q

\* The inductive invariant.
TilingInv ==
  /\ FirmInv /\ Plane /\ Outer /\ Beside
  /\ NodesHang /\ HangingAreNodes /\ HangOnce

\* The sides, starting from side e.
LEMMA PairsOf ==
  ASSUME NEW i, NEW e \in Sides
  PROVE  Pairs(i) = {{First(i, e), Second(i, e)}, {Second(i, e), Neutral(i, e)},
                     {Neutral(i, e), First(i, e)}}
<1>1. e = 1 \/ e = 2 \/ e = 3
  BY DEF Sides
<1>2. Pairs(i) = {{i[1], i[2]}, {i[2], i[3]}, {i[3], i[1]}}
  BY CornersOf DEF Pairs, Side, Sides
<1> QED BY <1>1, <1>2, CornersOf

\* The sides of a half.
LEMMA PairsOfTriple ==
  ASSUME NEW h, NEW w, NEW u PROVE Pairs(<<h, w, u>>) = {{h, w}, {w, u}, {u, h}}
<1>1. \A i : Pairs(i) = {{i[1], i[2]}, {i[2], i[3]}, {i[3], i[1]}}
  BY CornersOf DEF Pairs, Side, Sides
<1> QED BY <1>1

\* A pair has one middle, whichever end comes first.
LEMMA MidOf ==
  ASSUME Plane, NEW a \in vertices, NEW b \in vertices, NEW h
  PROVE  Mid(h, {a, b}) <=> h \in NodesBetween(a, b)
<1>1. IsPoint(a) /\ IsPoint(b)
  BY DEF Plane, Points
<1>2. HalfWay(h, a, b) <=> HalfWay(h, b, a)
  BY <1>1 DEF HalfWay, IsPoint
<1>3. ASSUME NEW c, NEW d, {a, b} = {c, d}
      PROVE  (a = c /\ b = d) \/ (a = d /\ b = c)
  BY <1>3
<1>4. InMiddle(h, {a, b}) <=> HalfWay(h, a, b)
  BY <1>2, <1>3 DEF InMiddle
<1> QED BY <1>4 DEF Mid, NodesBetween

\* Two vertices in the middle of a pair are one.
LEMMA OneMid ==
  ASSUME Plane, NEW a \in vertices, NEW b \in vertices,
         NEW h, NEW x, Mid(h, {a, b}), Mid(x, {a, b})
  PROVE  h = x
<1>1. h \in NodesBetween(a, b) /\ x \in NodesBetween(a, b)
  BY MidOf
<1>2. h \in vertices /\ x \in vertices /\ HalfWay(h, a, b) /\ HalfWay(x, a, b)
  BY <1>1 DEF NodesBetween
<1>3. IsPoint(a) /\ IsPoint(b) /\ IsPoint(h) /\ IsPoint(x)
  BY <1>2 DEF Plane, Points
<1>4. h[1] \in Int /\ h[2] \in Int /\ x[1] \in Int /\ x[2] \in Int
  BY <1>3 DEF IsPoint
<1>5. 2 * h[1] = 2 * x[1] /\ 2 * h[2] = 2 * x[2]
  BY <1>2 DEF HalfWay
<1>6. \A m, n \in Int : 2 * m = 2 * n => m = n
  OBVIOUS
<1>7. h[1] = x[1] /\ h[2] = x[2]
  BY <1>4, <1>5, <1>6
<1> QED BY <1>2, <1>7 DEF Plane, Placed, SamePlace

\* A triangle has a corner off every line.
LEMMA OffTheLine ==
  ASSUME Plane, NEW i \in interiors, NEW u, NEW v, IsPoint(u), IsPoint(v), ~SamePlace(u, v)
  PROVE  \E x \in Corners(i) : Turn(u, v, x) \in Int /\ Turn(u, v, x) # 0
<1> SUFFICES ASSUME \A x \in Corners(i) : Turn(u, v, x) \in Int => Turn(u, v, x) = 0
             PROVE  FALSE
  OBVIOUS
<1>1. \A c \in Corners(i) : IsPoint(c) /\ Turn(u, v, c) \in Int
  BY SidesAre, Turns DEF Sides
<1>2. i[1] \in Corners(i) /\ i[2] \in Corners(i) /\ i[3] \in Corners(i)
  BY DEF Corners, Sides
<1>3. Turn(i[1], i[2], i[3]) = 0
  BY <1>1, <1>2, Flat
<1> QED BY <1>3 DEF Plane, Proper

\* No three triangles have two points in common, and no two have those of a
\* border edge.
LEMMA TwoPerLine ==
  ASSUME Plane, NEW i \in interiors, NEW j \in interiors, NEW k \in interiors,
         NEW u, NEW v, IsPoint(u), IsPoint(v), ~SamePlace(u, v),
         On(u, i), On(v, i), On(u, j), On(v, j), On(u, k), On(v, k)
  PROVE  i = j \/ j = k \/ i = k
<1> SUFFICES ASSUME i # j, j # k, i # k PROVE FALSE
  OBVIOUS
<1>1. PICK x \in Corners(i) : Turn(u, v, x) \in Int /\ Turn(u, v, x) # 0
  BY OffTheLine
<1>2. PICK y \in Corners(j) : Turn(u, v, y) \in Int /\ Turn(u, v, y) # 0
  BY OffTheLine
<1>3. PICK z \in Corners(k) : Turn(u, v, z) \in Int /\ Turn(u, v, z) # 0
  BY OffTheLine
<1>4. ~(Turn(u, v, x) > 0 /\ Turn(u, v, y) > 0) /\ ~(Turn(u, v, x) < 0 /\ Turn(u, v, y) < 0)
  BY NotOneSide
<1>5. ~(Turn(u, v, x) > 0 /\ Turn(u, v, z) > 0) /\ ~(Turn(u, v, x) < 0 /\ Turn(u, v, z) < 0)
  BY NotOneSide
<1>6. ~(Turn(u, v, y) > 0 /\ Turn(u, v, z) > 0) /\ ~(Turn(u, v, y) < 0 /\ Turn(u, v, z) < 0)
  BY NotOneSide
<1> QED BY <1>1, <1>2, <1>3, <1>4, <1>5, <1>6

\* Only one triangle has two points of a border edge: on its other side there is
\* no vertex.
LEMMA OnePerBorder ==
  ASSUME Plane, Outer, NEW i \in interiors, NEW j \in interiors,
         NEW u \in vertices, NEW v \in vertices, {u, v} \in DOMAIN edges, edges[{u, v}],
         ~SamePlace(u, v), On(u, i), On(v, i), On(u, j), On(v, j)
  PROVE  i = j
<1> SUFFICES ASSUME i # j PROVE FALSE
  OBVIOUS
<1>1. IsPoint(u) /\ IsPoint(v)
  BY DEF Plane, Points
<1>2. PICK x \in Corners(i) : Turn(u, v, x) \in Int /\ Turn(u, v, x) # 0
  BY <1>1, OffTheLine
<1>3. PICK y \in Corners(j) : Turn(u, v, y) \in Int /\ Turn(u, v, y) # 0
  BY <1>1, OffTheLine
<1>4. ~(Turn(u, v, x) > 0 /\ Turn(u, v, y) > 0) /\ ~(Turn(u, v, x) < 0 /\ Turn(u, v, y) < 0)
  BY <1>1, NotOneSide
<1>5. x \in vertices /\ y \in vertices
  BY SidesAre DEF Sides
<1>6. ~(Turn(u, v, x) > 0 /\ Turn(u, v, y) < 0) /\ ~(Turn(u, v, y) > 0 /\ Turn(u, v, x) < 0)
  BY <1>5 DEF Outer
<1> QED BY <1>2, <1>3, <1>4, <1>6, SMTT(30)

-----------------------------------------------------------------------------
\* The corners of a triangle differ, and the middle of a side is neither a
\* corner nor in the middle of another side.
LEMMA CornersDiffer ==
  ASSUME Plane, NEW k \in interiors, NEW e \in Sides, NEW u, NEW v, NEW w,
         u = First(k, e), v = Second(k, e), w = Neutral(k, e)
  PROVE  /\ u # v /\ v # w /\ w # u
         /\ ~SamePlace(u, v) /\ ~SamePlace(v, w) /\ ~SamePlace(u, w)
         /\ u \in vertices /\ v \in vertices /\ w \in vertices
         /\ IsPoint(u) /\ IsPoint(v) /\ IsPoint(w)
         /\ Corners(k) = {u, v, w} /\ Pairs(k) = {{u, v}, {v, w}, {w, u}}
         /\ Turn(u, v, w) # 0 /\ Turn(u, v, w) \in Int
<1>1. /\ u \in vertices /\ v \in vertices /\ w \in vertices
      /\ IsPoint(u) /\ IsPoint(v) /\ IsPoint(w) /\ ~SamePlace(u, v)
      /\ Corners(k) = {u, v, w} /\ Turn(u, v, w) # 0 /\ Turn(u, v, w) \in Int
  BY SidesAre, Turns
<1>2. Turn(u, v, u) = 0 /\ Turn(u, v, v) = 0
  BY <1>1, Turns
<1>3. u # v
  BY <1>1 DEF SamePlace
<1>4. v # w /\ w # u
  BY <1>1, <1>2
<1>5. ~SamePlace(v, w) /\ ~SamePlace(u, w)
  BY <1>1, <1>4 DEF Plane, Placed
<1>6. Pairs(k) = {{u, v}, {v, w}, {w, u}}
  BY PairsOf
<1> QED BY <1>1, <1>3, <1>4, <1>5, <1>6

\* The middle h of u and v is none of the corners and of no other side.
LEMMA MiddleDiffers ==
  ASSUME NEW h, NEW u, NEW v, NEW w, IsPoint(h), IsPoint(u), IsPoint(v), IsPoint(w),
         ~SamePlace(u, v), ~SamePlace(v, w), ~SamePlace(u, w), Turn(u, v, w) # 0,
         HalfWay(h, u, v)
  PROVE  /\ h # u /\ h # v /\ h # w
         /\ ~HalfWay(h, v, w) /\ ~HalfWay(h, w, v) /\ ~HalfWay(h, w, u) /\ ~HalfWay(h, u, w)
<1>1. /\ h[1] \in Int /\ h[2] \in Int /\ u[1] \in Int /\ u[2] \in Int
      /\ v[1] \in Int /\ v[2] \in Int /\ w[1] \in Int /\ w[2] \in Int
  BY DEF IsPoint
<1>2. 2 * h[1] = u[1] + v[1] /\ 2 * h[2] = u[2] + v[2]
  BY DEF HalfWay
<1>3. h # u
  BY <1>1, <1>2 DEF SamePlace
<1>4. h # v
  BY <1>1, <1>2 DEF SamePlace
<1>5. h # w
  <2>1. 2 * Turn(u, v, h) = Turn(u, v, u) + Turn(u, v, v)
    BY TurnHalfWay
  <2>2. Turn(u, v, u) = 0 /\ Turn(u, v, v) = 0 /\ Turn(u, v, h) \in Int
    BY Turns
  <2>3. Turn(u, v, h) = 0
    BY <2>1, <2>2
  <2> QED BY <2>3
<1>6. ~HalfWay(h, v, w) /\ ~HalfWay(h, w, v)
  BY <1>1, <1>2 DEF SamePlace, HalfWay
<1>7. ~HalfWay(h, w, u) /\ ~HalfWay(h, u, w)
  BY <1>1, <1>2 DEF SamePlace, HalfWay
<1> QED BY <1>3, <1>4, <1>5, <1>6, <1>7

\* The middle of a side is on the triangle.
LEMMA MiddleIsOn ==
  ASSUME NEW i, NEW p \in Pairs(i)
  PROVE  /\ \A a \in p : a \in Corners(i) /\ On(a, i)
         /\ \A x : InMiddle(x, p) => On(x, i)
<1>1. PICK e \in Sides : p = {First(i, e), Second(i, e)}
  BY DEF Pairs, Side
<1>2. First(i, e) \in Corners(i) /\ Second(i, e) \in Corners(i)
  <2>1. e = 1 \/ e = 2 \/ e = 3
    BY DEF Sides
  <2>2. i[1] \in Corners(i) /\ i[2] \in Corners(i) /\ i[3] \in Corners(i)
    BY DEF Corners, Sides
  <2> QED BY <2>1, <2>2, CornersOf
<1>3. \A a \in p : a \in Corners(i)
  BY <1>1, <1>2
<1>4. ASSUME NEW x, InMiddle(x, p) PROVE On(x, i)
  <2>1. PICK a, b : p = {a, b} /\ HalfWay(x, a, b)
    BY <1>4 DEF InMiddle
  <2>2. a \in Corners(i) /\ b \in Corners(i)
    BY <1>3, <2>1
  <2> QED BY <2>1, <2>2 DEF On
<1> QED BY <1>3, <1>4 DEF On

\* Where the sides of the triangles go when k is cut into l and m, and where
\* they come from.
CutSides(k, h, u, v, w, l, m) ==
  /\ \A j \in interiors : \A p \in Pairs(j) :
       \/ j = k /\ p = {u, v}
       \/ \E i \in interiors' : p \in Pairs(i) /\ ((i = j /\ j # k) \/ (j = k /\ i \in {l, m}))
  /\ \A i \in interiors' : \A p \in Pairs(i) :
       \/ p = {h, w} \/ p = {u, h} \/ p = {v, h}
       \/ \E j \in interiors : /\ p \in Pairs(j)
                               /\ \/ i = j /\ j # k
                                  \/ j = k /\ p # {u, v} /\ i \in {l, m}
  /\ \A p : p \in Pairs(l) /\ p \in Pairs(m) => p = {h, w}

LEMMA CutPairs ==
  ASSUME NEW k \in interiors, NEW h, NEW u, NEW v, NEW w, NEW l, NEW m,
         u # v, v # w, w # u, h # u, h # v, h # w, Pairs(k) = {{u, v}, {v, w}, {w, u}},
         Pairs(l) = {{h, w}, {w, u}, {u, h}}, Pairs(m) = {{h, w}, {w, v}, {v, h}},
         interiors' = (interiors \ {k}) \cup {l, m}
  PROVE  CutSides(k, h, u, v, w, l, m)
<1>1. ASSUME NEW j \in interiors, NEW p \in Pairs(j), ~(j = k /\ p = {u, v})
      PROVE  \E i \in interiors' : p \in Pairs(i) /\ ((i = j /\ j # k) \/ (j = k /\ i \in {l, m}))
  <2>1. CASE j # k
    BY <2>1
  <2>2. CASE j = k
    <3>1. p = {v, w} \/ p = {w, u}
      BY <1>1, <2>2
    <3>2. {v, w} \in Pairs(m) /\ {w, u} \in Pairs(l)
      OBVIOUS
    <3> QED BY <2>2, <3>1, <3>2
  <2> QED BY <2>1, <2>2
<1>2. ASSUME NEW i \in interiors', NEW p \in Pairs(i), p # {h, w}, p # {u, h}, p # {v, h}
      PROVE  \E j \in interiors : /\ p \in Pairs(j)
                                  /\ \/ i = j /\ j # k
                                     \/ j = k /\ p # {u, v} /\ i \in {l, m}
  <2>1. CASE i \in interiors \ {k}
    BY <2>1
  <2>2. CASE i \in {l, m}
    <3>1. p = {w, u} \/ p = {w, v}
      BY <1>2, <2>2
    <3>2. p \in Pairs(k) /\ p # {u, v}
      BY <3>1
    <3> QED BY <2>2, <3>2
  <2> QED BY <2>1, <2>2
<1>3. ASSUME NEW p, p \in Pairs(l), p \in Pairs(m) PROVE p = {h, w}
  BY <1>3
<1> QED BY <1>1, <1>2, <1>3 DEF CutSides

-----------------------------------------------------------------------------
\* What happens to the sides when the triangle k, with corners u, v and w, is cut
\* from the middle h of u and v into l and m.
SidesPassOn(k, l, m, u, v) ==
  \A j \in interiors : \A p \in Pairs(j) :
    ~(j = k /\ p = {u, v}) =>
      /\ p \notin DOMAIN edges => p \notin DOMAIN edges'
      /\ p \notin DOMAIN edges => \A x : Mid(x, p)' <=> Mid(x, p)
      /\ \E i \in interiors' : p \in Pairs(i) /\ ((i = j /\ j # k) \/ (j = k /\ i \in {l, m}))

\* A production that uses the node h of the broken side u, v of k.
SpokeAdded(k, u, v, w, h, l, m) ==
  /\ h \in NodesBetween(u, v)
  /\ edges' = [p \in DOMAIN edges \cup {{h, w}} |-> p # {h, w} /\ edges[p]]
  /\ DOMAIN edges' = DOMAIN edges \cup {{h, w}}
  /\ l = <<h, w, u>> /\ m = <<h, w, v>>
  /\ interiors' = (interiors \ {k}) \cup {l, m}
  /\ hanging' = hanging \ {h}
  /\ vertices' = vertices
  /\ {u, v} \notin DOMAIN edges

\* breakElementWithHangingNode does that.
LEMMA SpokeIsAdded ==
  ASSUME NEW k \in interiors, NEW e \in BrokenEdges(k), BreakElementWithHangingNode(k, e)
  PROVE  \E h, l, m : SpokeAdded(k, First(k, e), Second(k, e), Neutral(k, e), h, l, m)
<1>1. PICK u, v, w : u = First(k, e) /\ v = Second(k, e) /\ w = Neutral(k, e)
  OBVIOUS
<1>2. PICK h \in NodesBetween(u, v) :
        /\ edges' = [p \in DOMAIN edges \cup {{h, w}} |-> p # {h, w} /\ edges[p]]
        /\ interiors' = (interiors \ {k}) \cup Halves(k, e, h)
        /\ hanging' = hanging \ {h}
        /\ vertices' = vertices
  BY <1>1, ZenonT(30) DEF BreakElementWithHangingNode, ReplaceInterior
<1>3. Halves(k, e, h) = {<<h, w, u>>, <<h, w, v>>}
  BY <1>1 DEF Halves
<1>4. {u, v} \notin DOMAIN edges
  BY <1>1 DEF BrokenEdges, Side
<1>5. DOMAIN edges' = DOMAIN edges \cup {{h, w}}
  BY <1>2
<1>6. SpokeAdded(k, u, v, w, h, <<h, w, u>>, <<h, w, v>>)
  BY <1>2, <1>3, <1>4, <1>5 DEF SpokeAdded
<1> QED BY <1>1, <1>6

\* The facts the following lemmas start from.
AroundSpoke(k, u, v, w, h, l, m) ==
  /\ h \in vertices /\ IsPoint(h) /\ HalfWay(h, u, v) /\ Mid(h, {u, v})
  /\ {u, h} \in DOMAIN edges /\ {v, h} \in DOMAIN edges
  /\ h # u /\ h # v /\ h # w
  /\ Pairs(l) = {{h, w}, {w, u}, {u, h}} /\ Pairs(m) = {{h, w}, {w, v}, {v, h}}
  /\ l # m /\ l \notin interiors \ {k} /\ m \notin interiors \ {k}
  /\ SidesPassOn(k, l, m, u, v) /\ CutSides(k, h, u, v, w, l, m)
  /\ Plane'

LEMMA SpokeFacts ==
  ASSUME Plane, MeshTypeOK', NEW k \in interiors, NEW e \in Sides, NEW u, NEW v, NEW w,
         u = First(k, e), v = Second(k, e), w = Neutral(k, e),
         NEW h, NEW l, NEW m, SpokeAdded(k, u, v, w, h, l, m)
  PROVE  AroundSpoke(k, u, v, w, h, l, m)
<1>1. /\ u # v /\ v # w /\ w # u
      /\ ~SamePlace(u, v) /\ ~SamePlace(v, w) /\ ~SamePlace(u, w)
      /\ u \in vertices /\ v \in vertices /\ w \in vertices
      /\ IsPoint(u) /\ IsPoint(v) /\ IsPoint(w)
      /\ Corners(k) = {u, v, w} /\ Pairs(k) = {{u, v}, {v, w}, {w, u}}
      /\ Turn(u, v, w) # 0 /\ Turn(u, v, w) \in Int
  BY CornersDiffer
<1>2. /\ h \in vertices /\ HalfWay(h, u, v) /\ {u, h} \in DOMAIN edges /\ {v, h} \in DOMAIN edges
  BY DEF SpokeAdded, NodesBetween
<1>3. IsPoint(h) /\ h[4] = 0
  BY <1>2 DEF Plane, Points
<1>4. Mid(h, {u, v})
  BY <1>1, MidOf DEF SpokeAdded
<1>5. /\ h # u /\ h # v /\ h # w
      /\ ~HalfWay(h, v, w) /\ ~HalfWay(h, w, v) /\ ~HalfWay(h, w, u) /\ ~HalfWay(h, u, w)
  BY <1>1, <1>2, <1>3, MiddleDiffers
<1>6. Pairs(l) = {{h, w}, {w, u}, {u, h}} /\ Pairs(m) = {{h, w}, {w, v}, {v, h}}
  BY PairsOfTriple, SMTT(30) DEF SpokeAdded
<1>7. ASSUME NEW i \in interiors \ {k} PROVE ~(On(h, i) /\ On(w, i))
  BY <1>2, <1>3, SpokeIsInside
<1>8. /\ l # m /\ l \notin interiors \ {k} /\ m \notin interiors \ {k}
  <2>1. l # m
    BY <1>1 DEF SpokeAdded
  <2>2. Corners(l) = {h, w, u} /\ Corners(m) = {h, w, v}
    BY CornersOfTriple DEF SpokeAdded
  <2>3. On(h, l) /\ On(w, l) /\ On(h, m) /\ On(w, m)
    BY <2>2 DEF On
  <2> QED BY <1>7, <2>1, <2>3
<1>9. Plane'
  <2>1. Cut(k, e, h)
    BY <1>2 DEF SpokeAdded, Cut, Halves
  <2>2. \A x \in vertices : SamePlace(x, h) => x = h
    BY <1>2 DEF Plane, Placed
  <2> QED BY <1>2, <1>3, <2>1, <2>2, CutKeepsPlane
<1>10. ASSUME NEW j \in interiors, NEW p \in Pairs(j), ~(j = k /\ p = {u, v})
       PROVE  /\ p # {h, w}
              /\ \A x : Mid(x, p)' <=> Mid(x, p)
  <2>1. \A a \in p : a \in Corners(j) /\ On(a, j)
    BY <1>10, MiddleIsOn
  <2>2. p # {h, w}
    <3>1. CASE j # k
      BY <1>7, <2>1, <3>1
    <3>2. CASE j = k
      BY <1>1, <1>5, <2>1, <3>2
    <3> QED BY <3>1, <3>2
  <2>3. ASSUME NEW x, InMiddle(x, p), NEW a \in p PROVE {a, x} # {h, w}
    <3>1. CASE j # k
      <4>1. On(a, j) /\ On(x, j)
        BY <1>10, <2>1, <2>3, MiddleIsOn
      <4> QED BY <1>7, <3>1, <4>1
    <3>2. CASE j = k
      <4> SUFFICES ASSUME {a, x} = {h, w} PROVE FALSE
        OBVIOUS
      <4>1. a \in {u, v, w}
        BY <1>1, <2>1, <3>2
      <4>2. a = w /\ x = h
        BY <1>5, <4>1
      <4>3. p = {v, w} \/ p = {w, u}
        BY <1>1, <1>10, <3>2
      <4>4. PICK b, c : p = {b, c} /\ HalfWay(h, b, c)
        BY <2>3, <4>2 DEF InMiddle
      <4> QED BY <1>1, <1>5, <4>3, <4>4
    <3> QED BY <3>1, <3>2
  <2>4. DOMAIN edges' = DOMAIN edges \cup {{h, w}} /\ vertices' = vertices
    BY DEF SpokeAdded
  <2>5. ASSUME NEW x PROVE Mid(x, p)' <=> Mid(x, p)
    BY <2>3, <2>4 DEF Mid, InMiddle, HalfWay
  <2> QED BY <2>2, <2>5
<1>11. CutSides(k, h, u, v, w, l, m)
  <2>1. interiors' = (interiors \ {k}) \cup {l, m}
    BY DEF SpokeAdded
  <2> QED BY <1>1, <1>5, <1>6, <2>1, CutPairs, ZenonT(30)
<1>12. SidesPassOn(k, l, m, u, v)
  <2>1. interiors' = (interiors \ {k}) \cup {l, m} /\ DOMAIN edges' = DOMAIN edges \cup {{h, w}}
    BY DEF SpokeAdded
  <2> QED BY <1>10, <1>11, <2>1 DEF SidesPassOn, CutSides
<1> QED BY <1>2, <1>3, <1>4, <1>5, <1>6, <1>8, <1>9, <1>11, <1>12 DEF AroundSpoke

\* Rewriting a triangle with the node on its broken side keeps the tiling.
LEMMA SpokeKeepsNodes ==
  ASSUME TilingInv, MeshTypeOK', NEW k \in interiors, NEW e \in Sides, NEW u, NEW v, NEW w,
         u = First(k, e), v = Second(k, e), w = Neutral(k, e),
         NEW h, NEW l, NEW m, SpokeAdded(k, u, v, w, h, l, m)
  PROVE  NodesHang' /\ HangingAreNodes' /\ HangOnce'
<1> USE DEF TilingInv
<1>0. Plane
  OBVIOUS
<1>1. /\ h \in vertices /\ Mid(h, {u, v}) /\ {u, h} \in DOMAIN edges /\ {v, h} \in DOMAIN edges
      /\ h # u /\ h # v /\ h # w
      /\ Pairs(l) = {{h, w}, {w, u}, {u, h}} /\ Pairs(m) = {{h, w}, {w, v}, {v, h}}
      /\ SidesPassOn(k, l, m, u, v) /\ CutSides(k, h, u, v, w, l, m) /\ l # m
  <2>1. AroundSpoke(k, u, v, w, h, l, m)
    BY <1>0, SpokeFacts, ZenonT(30)
  <2> QED BY <2>1 DEF AroundSpoke
<1>2. /\ u # v /\ v # w /\ w # u /\ u \in vertices /\ v \in vertices
      /\ Pairs(k) = {{u, v}, {v, w}, {w, u}}
  BY CornersDiffer
<1>3. /\ interiors' = (interiors \ {k}) \cup {l, m} /\ hanging' = hanging \ {h}
      /\ DOMAIN edges' = DOMAIN edges \cup {{h, w}} /\ {u, v} \notin DOMAIN edges
  BY DEF SpokeAdded
<1>4. ASSUME NEW i \in interiors', NEW p \in Pairs(i) \ DOMAIN edges'
      PROVE  \E j \in interiors :
               /\ p \in Pairs(j) \ DOMAIN edges
               /\ ~(j = k /\ p = {u, v})
               /\ (i = j /\ j # k) \/ (j = k /\ i \in {l, m})
               /\ \A x : Mid(x, p)' <=> Mid(x, p)
  <2>1. p # {h, w} /\ p # {u, h} /\ p # {v, h} /\ p \notin DOMAIN edges
    BY <1>1, <1>3, ZenonT(30)
  <2>2. PICK j \in interiors : /\ p \in Pairs(j)
                               /\ \/ i = j /\ j # k
                                  \/ j = k /\ p # {u, v} /\ i \in {l, m}
    BY <1>1, <1>4, <2>1 DEF CutSides
  <2>3. \A x : Mid(x, p)' <=> Mid(x, p)
    BY <1>1, <2>1, <2>2 DEF SidesPassOn
  <2> QED BY <2>1, <2>2, <2>3
<1>5. NodesHang'
  <2> SUFFICES ASSUME NEW i \in interiors', NEW p \in Pairs(i) \ DOMAIN edges'
               PROVE  \E x \in hanging' : Mid(x, p)'
    BY DEF NodesHang
  <2>1. PICK j \in interiors : /\ p \in Pairs(j) \ DOMAIN edges /\ ~(j = k /\ p = {u, v})
                               /\ \A x : Mid(x, p)' <=> Mid(x, p)
    BY <1>4
  <2>2. PICK x \in hanging : Mid(x, p)
    BY <2>1 DEF NodesHang
  <2>3. x # h
    <3>1. {u, v} \in Pairs(k) \ DOMAIN edges /\ Mid(h, {u, v})
      BY <1>1, <1>2, <1>3
    <3>2. HangOnce
      OBVIOUS
    <3> HIDE DEF TilingInv
    <3> QED BY <2>1, <2>2, <3>1, <3>2, ZenonT(30) DEF HangOnce
  <2> QED BY <1>3, <2>1, <2>2, <2>3
<1>6. HangingAreNodes'
  <2> SUFFICES ASSUME NEW x \in hanging, x # h
               PROVE  \E i \in interiors' : \E p \in Pairs(i) \ DOMAIN edges' : Mid(x, p)'
    BY <1>3 DEF HangingAreNodes
  <2>1. PICK j \in interiors : \E p \in Pairs(j) \ DOMAIN edges : Mid(x, p)
    BY DEF HangingAreNodes
  <2>2. PICK p \in Pairs(j) \ DOMAIN edges : Mid(x, p)
    BY <2>1
  <2>3. p # {u, v}
    <3> SUFFICES ASSUME p = {u, v} PROVE FALSE
      OBVIOUS
    <3>1. Mid(x, {u, v})
      BY <2>2
    <3> QED BY <1>0, <1>1, <1>2, <3>1, OneMid
  <2> QED BY <1>1, <2>2, <2>3 DEF SidesPassOn
<1>7. HangOnce'
  <2> SUFFICES ASSUME NEW i \in interiors', NEW j \in interiors',
                      NEW p \in Pairs(i) \ DOMAIN edges', NEW q \in Pairs(j) \ DOMAIN edges',
                      NEW x, Mid(x, p)', Mid(x, q)'
               PROVE  i = j /\ p = q
    BY DEF HangOnce
  <2>1. PICK i0 \in interiors :
               /\ p \in Pairs(i0) \ DOMAIN edges
               /\ (i = i0 /\ i0 # k) \/ (i0 = k /\ i \in {l, m})
               /\ \A y : Mid(y, p)' <=> Mid(y, p)
    BY <1>4
  <2>2. PICK j0 \in interiors :
               /\ q \in Pairs(j0) \ DOMAIN edges
               /\ (j = j0 /\ j0 # k) \/ (j0 = k /\ j \in {l, m})
               /\ \A y : Mid(y, q)' <=> Mid(y, q)
    BY <1>4
  <2>3. i0 = j0 /\ p = q
    <3>1. Mid(x, p) /\ Mid(x, q)
      BY <2>1, <2>2
    <3>2. HangOnce
      OBVIOUS
    <3>3. p \in Pairs(i0) \ DOMAIN edges /\ q \in Pairs(j0) \ DOMAIN edges
      BY <2>1, <2>2
    <3> HIDE DEF TilingInv
    <3> QED BY <3>1, <3>2, <3>3, ZenonT(30) DEF HangOnce
  <2>4. CASE i0 = k
    <3>1. i \in {l, m} /\ j \in {l, m} /\ p # {h, w}
      BY <1>3, <2>1, <2>2, <2>3, <2>4
    <3>2. ~(p \in Pairs(l) /\ p \in Pairs(m))
      BY <1>1, <3>1 DEF CutSides
    <3> QED BY <2>3, <3>1, <3>2
  <2> QED BY <2>1, <2>2, <2>3, <2>4
<1> QED BY <1>5, <1>6, <1>7

\* The new edge is between the two halves; the other edges stay between the
\* triangles they were between, or the halves of them.
LEMMA SpokeKeepsSides ==
  ASSUME TilingInv, MeshTypeOK', NEW k \in interiors, NEW e \in Sides, NEW u, NEW v, NEW w,
         u = First(k, e), v = Second(k, e), w = Neutral(k, e),
         NEW h, NEW l, NEW m, SpokeAdded(k, u, v, w, h, l, m)
  PROVE  Outer' /\ Beside'
<1> USE DEF TilingInv
<1>0. Plane
  OBVIOUS
<1>1. /\ Mid(h, {u, v})
      /\ Pairs(l) = {{h, w}, {w, u}, {u, h}} /\ Pairs(m) = {{h, w}, {w, v}, {v, h}}
      /\ SidesPassOn(k, l, m, u, v)
      /\ l # m /\ l \notin interiors \ {k} /\ m \notin interiors \ {k}
  <2>1. AroundSpoke(k, u, v, w, h, l, m)
    BY <1>0, SpokeFacts, ZenonT(30)
  <2> QED BY <2>1 DEF AroundSpoke
<1>2. u \in vertices /\ v \in vertices
  BY CornersDiffer
<1>3. /\ interiors' = (interiors \ {k}) \cup {l, m} /\ vertices' = vertices
      /\ DOMAIN edges' = DOMAIN edges \cup {{h, w}} /\ {u, v} \notin DOMAIN edges
      /\ edges' = [p \in DOMAIN edges \cup {{h, w}} |-> p # {h, w} /\ edges[p]]
  BY DEF SpokeAdded
<1>4. \A p \in DOMAIN edges' : edges'[p] => p \in DOMAIN edges /\ edges[p]
  BY <1>3, ZenonT(30)
<1>5. Outer'
  BY <1>3, <1>4, ZenonT(30) DEF Outer, Turn
<1>6. ASSUME NEW p \in DOMAIN edges, NEW i \in interiors, Along(i, p)
      PROVE  \E j \in interiors' : Along(j, p)' /\ ((j = i /\ i # k) \/ (i = k /\ j \in {l, m}))
  <2>1. CASE p \in Pairs(i)
    <3>1. PICK j \in interiors' : p \in Pairs(j) /\ ((j = i /\ i # k) \/ (i = k /\ j \in {l, m}))
      BY <1>1, <1>3, <2>1, ZenonT(30) DEF SidesPassOn
    <3> QED BY <3>1 DEF Along, Pairs, Side, First, Second
  <2>2. ASSUME NEW q \in Pairs(i) \ DOMAIN edges, NEW x, NEW a \in q, Mid(x, q), p = {a, x}
        PROVE  \E j \in interiors' : Along(j, p)' /\ ((j = i /\ i # k) \/ (i = k /\ j \in {l, m}))
    <3>1. CASE i = k /\ q = {u, v}
      <4>1. x = h
        BY <1>1, <1>2, <2>2, <3>1, OneMid
      <4>2. p \in Pairs(l) \/ p \in Pairs(m)
        BY <1>1, <2>2, <3>1, <4>1
      <4> QED BY <1>3, <3>1, <4>2 DEF Along, Pairs, Side, First, Second
    <3>2. CASE ~(i = k /\ q = {u, v})
      <4>1. q \notin DOMAIN edges' /\ Mid(x, q)'
        BY <1>1, <2>2, <3>2 DEF SidesPassOn
      <4>2. PICK j \in interiors' : q \in Pairs(j) /\ ((j = i /\ i # k) \/ (i = k /\ j \in {l, m}))
        BY <1>1, <2>2, <3>2 DEF SidesPassOn
      <4> QED BY <2>2, <4>1, <4>2 DEF Along, Pairs, Side, First, Second
    <3> QED BY <3>1, <3>2
  <2> QED BY <1>6, <2>1, <2>2 DEF Along
<1>7. Beside'
  <2> SUFFICES ASSUME NEW p \in DOMAIN edges'
               PROVE  \E i, j \in interiors' : Along(i, p)' /\ Along(j, p)' /\ (i # j \/ edges'[p])
    BY DEF Beside
  <2>1. CASE p = {h, w}
    <3>1. Along(l, p)' /\ Along(m, p)'
      BY <1>1, <2>1, ZenonT(30) DEF Along, Pairs, Side, First, Second
    <3> QED BY <1>1, <1>3, <3>1
  <2>2. CASE p # {h, w}
    <3>1. p \in DOMAIN edges /\ (edges'[p] <=> edges[p])
      BY <1>3, <2>2, ZenonT(30)
    <3>2. PICK i \in interiors, j \in interiors : Along(i, p) /\ Along(j, p) /\ (i # j \/ edges[p])
      BY <3>1 DEF Beside
    <3>3. PICK i1 \in interiors' : Along(i1, p)' /\ ((i1 = i /\ i # k) \/ (i = k /\ i1 \in {l, m}))
      BY <1>6, <3>1, <3>2
    <3>4. PICK j1 \in interiors' : Along(j1, p)' /\ ((j1 = j /\ j # k) \/ (j = k /\ j1 \in {l, m}))
      BY <1>6, <3>1, <3>2
    <3>5. i # j => i1 # j1
      BY <1>1, <3>3, <3>4
    <3> QED BY <3>1, <3>2, <3>3, <3>4, <3>5
  <2> QED BY <2>1, <2>2
<1> QED BY <1>5, <1>7
=============================================================================
