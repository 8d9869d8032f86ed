--------------------------- MODULE ParallelProofs ---------------------------
(***************************************************************************)
(* The second loop with any number of threads, on any mesh: the nodes that *)
(* an iteration locks are enough.  What it has read is still so when it    *)
(* writes, no two iterations rewrite one triangle, and the productions     *)
(* keep the shared graph as they keep the one of a single thread.          *)
(***************************************************************************)
EXTENDS ParallelMesh, TilingProofs

Locations == {"idle", "start", "vertices", "search", "write", "afterStep", "return"}

\* Vertices are told from interiors by what identifies them.
IsVertex(x) == DOMAIN x = 1 .. 4
IsInterior(x) == DOMAIN x = 1 .. 3

ParTypes ==
  /\ pc \in [Threads -> Locations]
  /\ DOMAIN item = Threads /\ DOMAIN locks = Threads
  /\ DOMAIN seen = Threads /\ DOMAIN written = Threads
  /\ \A v \in vertices : IsVertex(v)
  /\ \A i \in wl : IsInterior(i)
  /\ \A t \in Threads :
       /\ pc[t] # "idle" => IsInterior(item[t])
       /\ pc[t] # "afterStep" => written[t] = Nothing
       /\ \A x \in locks[t] : x \in vertices \/ IsInterior(x)

\* The first loop sees interiors that are in the graph.
FreshAreThere ==
  /\ phase # "produce" => \A t \in Threads : pc[t] = "idle"
  /\ \A i \in fresh : i \in interiors \/ \E t \in Threads : i \in written[t].iOld
  /\ \A t \in Threads : written[t].iNew \subseteq interiors \cap locks[t]

\* The triangle of an iteration that has not written is its own.
Inside(t) == pc[t] \in {"vertices", "search", "write"}
OwnTriangle ==
  \A t \in Threads : Inside(t) =>
    /\ item[t] \in interiors \cap locks[t]
    /\ \A u \in Threads \ {t} : /\ Inside(u) => item[u] # item[t]
                                /\ item[t] \notin written[u].iNew

VerticesApart ==
  \A t, u \in Threads : t # u => locks[t] \cap locks[u] \cap vertices = {}

\* What an iteration holds when it decides, and when it writes.
HoldsCorners(t) == pc[t] \in {"search", "write"} => Corners(item[t]) \subseteq locks[t]
Covers(i, L) ==
  \A e \in Searched(i) : \A v \in Side(i, e) : \A w \in vertices :
    {v, w} \in DOMAIN edges => w \in L
HoldsNeighbours(t) == pc[t] = "write" => Covers(item[t], locks[t])
Holds == \A t \in Threads : HoldsCorners(t) /\ HoldsNeighbours(t)

ParInv ==
  /\ FirmInv /\ ParTypes /\ FreshAreThere /\ OwnTriangle
  /\ VerticesApart /\ Holds /\ SnapshotIsCurrent

-----------------------------------------------------------------------------
\* What a production changes lies among the nodes that its iteration has locked
\* or is new.
Touches(k, L) ==
  /\ vertices \subseteq vertices' /\ \A v \in vertices' \ vertices : IsVertex(v)
  /\ \A p \in SUBSET vertices : ~(p \subseteq L) =>
       /\ p \in DOMAIN edges' <=> p \in DOMAIN edges
       /\ p \in DOMAIN edges => (edges'[p] <=> edges[p])
  /\ \A p \in DOMAIN edges' \ DOMAIN edges : p \subseteq L \cup (vertices' \ vertices)
  /\ \A v \in vertices \ L : v \in hanging' <=> v \in hanging
  /\ toRefine' = toRefine \ {k}
  /\ interiors \ {k} \subseteq interiors'

LEMMA CornersAre ==
  ASSUME NEW i, NEW e \in Sides
  PROVE  /\ First(i, e) \in Corners(i) /\ Second(i, e) \in Corners(i)
         /\ Neutral(i, e) \in Corners(i)
<1>1. e = 1 \/ e = 2 \/ e = 3
  BY DEF Sides
<1>2. i[1] \in Corners(i) /\ i[2] \in Corners(i) /\ i[3] \in Corners(i)
  BY DEF Corners, Sides
<1> QED BY <1>1, <1>2, CornersOf

LEMMA NewNodeTouches ==
  ASSUME FirmInv, NEW k \in interiors, NEW L, Corners(k) \subseteq L,
         NEW e \in Sides, BreakElementWithoutHangingNode(k, e)
  PROVE  Touches(k, L)
<1> DEFINE u == First(k, e)
           v == Second(k, e)
           w == Neutral(k, e)
<1>1. PICK n \in NewNodes(k, e) :
        /\ n \notin vertices
        /\ vertices' = vertices \cup {n}
        /\ edges' = [p \in (DOMAIN edges \ {{u, v}}) \cup {{n, u}, {n, v}} \cup {{n, w}} |->
                       IF n \in p THEN p \in {{n, u}, {n, v}} /\ edges[{u, v}]
                                  ELSE edges[p]]
        /\ interiors' = (interiors \ {k}) \cup Halves(k, e, n)
        /\ toRefine' = toRefine \ {k}
        /\ hanging' = hanging \cup (IF ~edges[{u, v}] THEN {n} ELSE {})
  BY ZenonT(30) DEF BreakElementWithoutHangingNode, ReplaceInterior, IsBorder, RemoveEdge, Hangs, Parts,
         Side
<1>2. u \in L /\ v \in L /\ w \in L
  BY CornersAre
<1>3. IsVertex(n)
  <2>1. PICK a, b, z, c : n = <<a, b, z, c>>
    BY ZenonT(30) DEF NewNodes
  <2> QED BY <2>1 DEF IsVertex
<1> HIDE DEF u, v, w
<1>4. DOMAIN edges' = (DOMAIN edges \ {{u, v}}) \cup {{n, u}, {n, v}, {n, w}}
  BY <1>1
<1>5. ASSUME NEW p \in SUBSET vertices, ~(p \subseteq L)
      PROVE  /\ p \in DOMAIN edges' <=> p \in DOMAIN edges
             /\ p \in DOMAIN edges => (edges'[p] <=> edges[p])
  <2>1. n \notin p /\ p # {u, v}
    BY <1>1, <1>2, <1>5
  <2>2. p \in DOMAIN edges' <=> p \in DOMAIN edges
    BY <1>4, <2>1
  <2> QED BY <1>1, <1>4, <2>1, <2>2
<1>6. \A p \in DOMAIN edges' \ DOMAIN edges : p \subseteq L \cup (vertices' \ vertices)
  BY <1>1, <1>2, <1>4
<1> QED BY <1>1, <1>3, <1>5, <1>6, ZenonT(30) DEF Touches

LEMMA OldNodeTouches ==
  ASSUME FirmInv, NEW k \in interiors, NEW L, Corners(k) \subseteq L, Covers(k, L),
         NEW e \in Searched(k), e \in Sides, BreakElementWithHangingNode(k, e)
  PROVE  Touches(k, L)
<1> DEFINE u == First(k, e)
           v == Second(k, e)
           w == Neutral(k, e)
<1>1. PICK h \in NodesBetween(u, v) :
        /\ edges' = [p \in DOMAIN edges \cup {{h, w}} |-> p # {h, w} /\ edges[p]]
        /\ interiors' = (interiors \ {k}) \cup Halves(k, e, h)
        /\ toRefine' = toRefine \ {k}
        /\ hanging' = hanging \ {h}
        /\ vertices' = vertices
  BY ZenonT(30) DEF BreakElementWithHangingNode, ReplaceInterior
<1>2. u \in Side(k, e) /\ w \in L
  <2>1. w \in Corners(k)
    BY CornersAre
  <2> QED BY <2>1 DEF Side
<1>3. h \in L
  <2>1. h \in vertices /\ {u, h} \in DOMAIN edges
    BY DEF NodesBetween
  <2> QED BY <1>2, <2>1 DEF Covers
<1>4. edges \in [DOMAIN edges -> BOOLEAN]
  BY DEF FirmInv, MeshTypeOK
<1> HIDE DEF u, v, w
<1>5. ASSUME NEW p \in SUBSET vertices, ~(p \subseteq L)
      PROVE  /\ p \in DOMAIN edges' <=> p \in DOMAIN edges
             /\ p \in DOMAIN edges => (edges'[p] <=> edges[p])
  <2>1. p # {h, w}
    BY <1>2, <1>3, <1>5
  <2> QED BY <1>1, <1>4, <2>1
<1>6. \A p \in DOMAIN edges' \ DOMAIN edges : p \subseteq L \cup (vertices' \ vertices)
  BY <1>1, <1>2, <1>3
<1> QED BY <1>1, <1>3, <1>5, <1>6, ZenonT(30) DEF Touches

LEMMA ProductionsTouch ==
  ASSUME FirmInv, NEW k \in interiors, NEW L, Corners(k) \subseteq L, Covers(k, L),
         Productions(k)
  PROVE  Touches(k, L)
<1>1. CASE Production1(k) \/ Production3(k) \/ Production5(k)
  <2>1. PICK e \in Sides : BreakElementWithoutHangingNode(k, e)
    BY <1>1, ZenonT(30) DEF Production1, Production3, Production5, FirstOf, P1Edges, P3Edges, P5Edges,
                LongestEdges, LongestEdgesIncludingBrokenOnes
  <2> QED BY <2>1, NewNodeTouches
<1>2. CASE Production2(k) \/ Production4(k) \/ Production6(k)
  <2>1. PICK e \in Searched(k) : e \in Sides /\ BreakElementWithHangingNode(k, e)
    <3>1. CASE Production2(k)
      <4>1. PICK e \in P2Edges(k) : BreakElementWithHangingNode(k, e)
        BY <3>1 DEF Production2, FirstOf
      <4>2. OneBroken(k) /\ e \in BrokenEdges(k)
        BY <4>1 DEF P2Edges
      <4> QED BY <4>1, <4>2 DEF Searched, BrokenEdges
    <3>2. CASE Production4(k) \/ Production6(k)
      <4>1. PICK e \in FirstOf(P4Edges(k)) \cup FirstOf(P6Edges(k)) :
              BreakElementWithHangingNode(k, e)
        BY <3>2 DEF Production4, Production6
      <4>2. e \in Sides
        BY <4>1 DEF FirstOf, P4Edges, P6Edges, LongestEdgesIncludingBrokenOnes
      <4> QED BY <4>1, <4>2 DEF Searched
    <3> QED BY <1>2, <3>1, <3>2
  <2> QED BY <2>1, OldNodeTouches
<1> QED BY <1>1, <1>2 DEF Productions

-----------------------------------------------------------------------------
LEMMA ParInitially == ParInit => ParInv
<1> SUFFICES ASSUME ParInit PROVE ParInv
  OBVIOUS
<1>1. FirmInv
  BY InitFirm DEF ParInit
<1>2. \A v \in vertices : IsVertex(v)
  <2> SUFFICES ASSUME NEW v \in vertices PROVE IsVertex(v)
    OBVIOUS
  <2>1. MeshInit
    BY DEF ParInit
  <2>2. PICK z \in [0..3 -> UNION {Heights(Corner[n]) : n \in 0..3}] :
          LET c(n) == <<Corner[n][1], Corner[n][2], z[n], 0>> IN
          /\ \A n \in 0..3 : z[n] \in Heights(Corner[n])
          /\ vertices = {c(n) : n \in 0..3}
          /\ edges = [e \in {{c(0), c(1)}, {c(1), c(3)}, {c(2), c(3)}, {c(0), c(2)},
                             {c(3), c(0)}} |-> e # {c(3), c(0)}]
          /\ interiors = {<<c(0), c(1), c(3)>>, <<c(0), c(3), c(2)>>}
          /\ toRefine = {}
          /\ hanging = {}
    BY <2>1, ZenonT(30) DEF MeshInit
  <2> DEFINE c(n) == <<Corner[n][1], Corner[n][2], z[n], 0>>
  <2>3. vertices = {c(n) : n \in 0..3}
    BY <2>2, Zenon
  <2>4. PICK n \in 0..3 : v = c(n)
    <3> HIDE DEF c
    <3> QED BY <2>3, Zenon
  <2>5. \A d, e, f : DOMAIN <<d, e, f, 0>> = 1 .. 4
    OBVIOUS
  <2>6. DOMAIN v = 1 .. 4
    BY <2>4, <2>5, Zenon
  <2> QED BY <2>6 DEF IsVertex
<1>3. Nothing.iNew = {} /\ Nothing.iOld = {}
  BY DEF Nothing
<1>4. ParTypes
  BY <1>2 DEF ParInit, ParTypes, Locations
<1>5. FreshAreThere /\ OwnTriangle /\ VerticesApart /\ Holds /\ SnapshotIsCurrent
  BY <1>3 DEF ParInit, FreshAreThere, OwnTriangle, Inside, VerticesApart, Holds,
              HoldsCorners, HoldsNeighbours, SnapshotIsCurrent
<1> QED BY <1>1, <1>4, <1>5 DEF ParInv

\* What depends on the mesh only, when it stays.
LEMMA MeshStays ==
  ASSUME FirmInv, UNCHANGED meshVars
  PROVE  /\ FirmInv'
         /\ \A i : Snapshot(i)' = Snapshot(i)
         /\ \A i, L : Covers(i, L)' <=> Covers(i, L)
<1>1. UNCHANGED <<vertices, edges, interiors, toRefine, hanging>>
  BY DEF meshVars
<1>2. FirmInv'
  BY <1>1, FirmFrame DEF FirmInv, MeshTypeOK
<1>3. ASSUME NEW i PROVE Snapshot(i)' = Snapshot(i)
  BY <1>1 DEF Snapshot, BrokenEdges, IsBorder, Side, First, Second
<1>4. ASSUME NEW i PROVE Searched(i)' = Searched(i)
  BY <1>1 DEF Searched, OneBroken, BrokenEdges, FirstOf, P4Edges, P6Edges, TwoBroken,
              LongestEdgesIncludingBrokenOnes, Length, Side, First, Second
<1>5. ASSUME NEW i, NEW L PROVE Covers(i, L)' <=> Covers(i, L)
  BY <1>1, <1>4 DEF Covers, Side, First, Second
<1> QED BY <1>2, <1>3, <1>5

\* The interiors of the graph are interiors.
LEMMA InteriorsAre ==
  ASSUME FirmInv
  PROVE  \A i \in interiors : IsInterior(i) /\ Corners(i) \subseteq vertices
<1> SUFFICES ASSUME NEW i \in interiors PROVE IsInterior(i) /\ Corners(i) \subseteq vertices
  OBVIOUS
<1>1. PICK a \in vertices, b \in vertices, c \in vertices : i = <<a, b, c>>
  BY DEF FirmInv, MeshTypeOK
<1> QED BY <1>1 DEF IsInterior, Corners, Sides

\* An iteration locks more nodes.
LEMMA LockKeeps ==
  ASSUME ParInv, NEW t \in Threads, NEW place \in Locations \ {"idle", "afterStep"}, Lock(t, place),
         pc[t] \in {"start", "vertices", "search"},
         UNCHANGED <<meshVars, step, phase, fresh, wl, item, written>>, DOMAIN seen' = Threads
  PROVE  /\ FirmInv' /\ ParTypes' /\ FreshAreThere' /\ VerticesApart'
         /\ locks'[t] = locks[t] \cup Wants(t) /\ pc'[t] = place
         /\ \A u \in Threads \ {t} : UNCHANGED <<pc[u], locks[u]>> /\ Wants(t) \cap locks[u] = {}
<1> USE DEF ParInv
<1>0. UNCHANGED <<vertices, edges, interiors, toRefine, hanging>>
  BY DEF meshVars
<1>1. /\ pc' = [pc EXCEPT ![t] = place] /\ locks' = [locks EXCEPT ![t] = @ \cup Wants(t)]
      /\ pc'[t] = place /\ locks'[t] = locks[t] \cup Wants(t)
      /\ \A u \in Threads \ {t} : UNCHANGED <<pc[u], locks[u]>>
  BY DEF Lock, ParTypes
<1>2. \A u \in Threads \ {t} : Wants(t) \cap locks[u] = {}
  BY DEF Lock, Conflicting, Taken
<1>3. FirmInv'
  BY MeshStays
<1>4. \A x \in Wants(t) : x \in vertices \/ IsInterior(x)
  <2>1. CASE pc[t] = "start"
    BY <2>1 DEF Wants, ParTypes
  <2>2. CASE pc[t] = "vertices"
    <3>1. Wants(t) = Corners(item[t]) /\ item[t] \in interiors
      BY <2>2 DEF Wants, OwnTriangle, Inside
    <3> QED BY <3>1, InteriorsAre
  <2>3. CASE pc[t] = "search"
    <3>1. Wants(t) \subseteq vertices \cup interiors
      BY <2>3, ZenonT(30) DEF Wants, Neighbours
    <3> QED BY <3>1, InteriorsAre
  <2> QED BY <2>1, <2>2, <2>3
<1>5. ParTypes'
  <2>1. pc' \in [Threads -> Locations] /\ DOMAIN locks' = Threads
    BY <1>1 DEF ParTypes
  <2>2. \A u \in Threads : \A x \in locks'[u] : x \in vertices \/ IsInterior(x)
    BY <1>1, <1>4 DEF ParTypes
  <2>3. \A u \in Threads : /\ pc'[u] # "idle" => IsInterior(item[u])
                           /\ pc'[u] # "afterStep" => written[u] = Nothing
    BY <1>1 DEF ParTypes
  <2> QED BY <1>0, <2>1, <2>2, <2>3 DEF ParTypes, IsVertex, IsInterior, Nothing
<1>6. FreshAreThere'
  <2>1. phase = "produce"
    BY DEF FreshAreThere
  <2> QED BY <1>0, <1>1, <2>1 DEF FreshAreThere
<1>7. VerticesApart'
  BY <1>0, <1>1, <1>2 DEF VerticesApart
<1> QED BY <1>1, <1>2, <1>3, <1>5, <1>6, <1>7

LEMMA LockItemKeeps ==
  ASSUME ParInv, NEW t \in Threads, LockItem(t)
  PROVE  ParInv'
<1> USE DEF ParInv
<1> DEFINE place == IF item[t] \in interiors THEN "vertices" ELSE "return"
<1>0. /\ pc[t] = "start" /\ Lock(t, place)
      /\ UNCHANGED <<meshVars, step, phase, fresh, wl, item, seen, written, interiors>>
  BY DEF LockItem, meshVars
<1>1. place \in Locations \ {"idle", "afterStep"} /\ place \notin {"search", "write"}
  BY DEF Locations
<1> HIDE DEF place
<1>2. /\ FirmInv' /\ ParTypes' /\ FreshAreThere' /\ VerticesApart'
      /\ locks'[t] = locks[t] \cup Wants(t) /\ pc'[t] = place
      /\ \A u \in Threads \ {t} : UNCHANGED <<pc[u], locks[u]>> /\ Wants(t) \cap locks[u] = {}
  BY <1>0, <1>1, LockKeeps DEF ParTypes
<1>3. Wants(t) = {item[t]}
  BY <1>0 DEF Wants
<1>4. place = "vertices" => item[t] \in interiors
  BY DEF place
<1>5. written[t].iNew = {}
  BY <1>0 DEF ParTypes, Nothing
<1>6. OwnTriangle'
  <2>1. ASSUME NEW u \in Threads, Inside(u)' PROVE item[u] \in interiors \cap locks'[u]
    BY <1>1, <1>2, <1>3, <1>4, <2>1 DEF OwnTriangle, Inside
  <2>2. ASSUME NEW u \in Threads \ {t}, Inside(u)
        PROVE  item[u] # item[t] /\ item[u] \notin written[t].iNew
    BY <1>2, <1>3, <1>5, <2>2 DEF OwnTriangle
  <2>3. ASSUME NEW u \in Threads \ {t} PROVE item[t] \notin written[u].iNew
    BY <1>2, <1>3 DEF FreshAreThere
  <2>4. ASSUME NEW u \in Threads, Inside(u)', NEW w \in Threads \ {u}
        PROVE  (Inside(w)' => item[w] # item[u]) /\ item[u] \notin written[w].iNew
    <3>1. CASE u = t
      BY <1>2, <2>2, <2>3, <2>4, <3>1 DEF Inside
    <3>2. CASE w = t
      BY <1>2, <2>2, <2>4, <3>2 DEF Inside
    <3>3. CASE u # t /\ w # t
      BY <1>2, <2>4, <3>3 DEF Inside, OwnTriangle
    <3> QED BY <3>1, <3>2, <3>3
  <2> QED BY <1>0, <2>1, <2>4 DEF OwnTriangle, Inside
<1>7. Holds' /\ SnapshotIsCurrent'
  <2>1. ASSUME NEW u \in Threads PROVE HoldsCorners(u)' /\ HoldsNeighbours(u)'
    <3>1. CASE u = t
      BY <1>1, <1>2, <3>1 DEF HoldsCorners, HoldsNeighbours
    <3>2. CASE u # t
      BY <1>0, <1>2, <3>2, MeshStays DEF Holds, HoldsCorners, HoldsNeighbours, Corners
    <3> QED BY <3>1, <3>2
  <2>2. SnapshotIsCurrent'
    BY <1>0, <1>1, <1>2, MeshStays DEF SnapshotIsCurrent
  <2> QED BY <2>1, <2>2 DEF Holds
<1> QED BY <1>2, <1>6, <1>7

LEMMA LockMoreKeeps ==
  ASSUME ParInv, NEW t \in Threads, LockVertices(t) \/ LockNeighbours(t)
  PROVE  ParInv'
<1> USE DEF ParInv
<1>0. PICK place \in {"search", "write"} :
        /\ Lock(t, place)
        /\ place = "search" => pc[t] = "vertices" /\ seen' = [seen EXCEPT ![t] = Snapshot(item[t])]
        /\ place = "write" => pc[t] = "search" /\ UNCHANGED seen
        /\ UNCHANGED <<meshVars, step, phase, fresh, wl, item, written, interiors>>
  BY DEF LockVertices, LockNeighbours, meshVars
<1>1. place \in Locations \ {"idle", "afterStep"} /\ DOMAIN seen' = Threads /\ Inside(t)
  BY <1>0 DEF Locations, ParTypes, Inside
<1>2. /\ FirmInv' /\ ParTypes' /\ FreshAreThere' /\ VerticesApart'
      /\ locks'[t] = locks[t] \cup Wants(t) /\ pc'[t] = place
      /\ \A u \in Threads \ {t} : UNCHANGED <<pc[u], locks[u]>> /\ Wants(t) \cap locks[u] = {}
  BY <1>0, <1>1, LockKeeps DEF Inside
<1>3. \A u \in Threads : Inside(u)' <=> Inside(u)
  BY <1>1, <1>2 DEF Inside
<1>4. OwnTriangle'
  <2>1. \A u \in Threads : locks[u] \subseteq locks'[u]
    BY <1>2
  <2> QED BY <1>0, <1>3, <2>1 DEF OwnTriangle
<1>5. ASSUME NEW u \in Threads PROVE HoldsCorners(u)' /\ HoldsNeighbours(u)'
  <2>1. CASE u = t
    <3>1. CASE place = "search"
      <4>1. Wants(t) = Corners(item[t])
        BY <1>0, <3>1 DEF Wants
      <4> QED BY <1>0, <1>2, <2>1, <3>1, <4>1 DEF HoldsCorners, HoldsNeighbours, Corners
    <3>2. CASE place = "write"
      <4>1. Corners(item[t]) \subseteq locks'[t]
        BY <1>0, <1>2, <3>2 DEF Holds, HoldsCorners
      <4>2. Wants(t) = UNION {Neighbours(v) : v \in UNION {Side(item[t], e) : e \in Searched(item[t])}}
        BY <1>0, <3>2 DEF Wants
      <4>3. ASSUME NEW e \in Searched(item[t]), NEW v \in Side(item[t], e), NEW w \in vertices,
                   {v, w} \in DOMAIN edges
            PROVE  w \in Wants(t)
        <5>1. w \in Neighbours(v)
          BY <4>3 DEF Neighbours
        <5> QED BY <4>2, <5>1
      <4>4. Covers(item[t], locks'[t])
        BY <1>2, <4>3 DEF Covers
      <4>5. Covers(item[t], locks[t])' <=> Covers(item[t], locks'[t])
        <5>1. PICK i, L : i = item[t] /\ L = locks'[t]
          OBVIOUS
        <5>2. Covers(i, L)' <=> Covers(i, L)
          BY <1>0, MeshStays
        <5> QED BY <1>0, <5>1, <5>2
      <4> QED BY <1>0, <2>1, <4>1, <4>4, <4>5 DEF HoldsCorners, HoldsNeighbours, Corners
    <3> QED BY <3>1, <3>2
  <2>2. CASE u # t
    BY <1>0, <1>2, <2>2, MeshStays DEF Holds, HoldsCorners, HoldsNeighbours, Corners
  <2> QED BY <2>1, <2>2
<1>6. ASSUME NEW u \in Threads, pc'[u] \in {"search", "write"}
      PROVE  seen'[u] = Snapshot(item[u])'
  <2>1. seen'[u] = Snapshot(item[u])
    <3>1. CASE u = t
      BY <1>0, <3>1 DEF ParTypes, SnapshotIsCurrent
    <3>2. CASE u # t
      <4>1. seen'[u] = seen[u] /\ pc'[u] = pc[u]
        BY <1>0, <1>2, <3>2 DEF ParTypes
      <4> QED BY <1>6, <4>1 DEF SnapshotIsCurrent
    <3> QED BY <3>1, <3>2
  <2>2. PICK i : i = item[u]
    OBVIOUS
  <2>3. Snapshot(i)' = Snapshot(i)
    BY <1>0, MeshStays
  <2> QED BY <1>0, <2>1, <2>2, <2>3
<1> QED BY <1>2, <1>4, <1>5, <1>6 DEF Holds, SnapshotIsCurrent

\* Steps after which a thread holds no triangle, and no more locks than before.
LEMMA LetGoKeeps ==
  ASSUME ParInv, ParTypes', FreshAreThere', NEW t \in Threads,
         pc'[t] \in {"idle", "start", "return"}, locks'[t] \subseteq locks[t],
         written'[t] = Nothing, UNCHANGED meshVars,
         \A u \in Threads \ {t} : UNCHANGED <<pc[u], item[u], locks[u], seen[u], written[u]>>
  PROVE  ParInv'
<1> USE DEF ParInv
<1>0. UNCHANGED <<vertices, edges, interiors, toRefine, hanging>> /\ written'[t].iNew = {}
  BY DEF meshVars, Nothing
<1>1. ~Inside(t)' /\ \A u \in Threads \ {t} : Inside(u)' <=> Inside(u)
  BY DEF Inside
<1>2. OwnTriangle'
  BY <1>0, <1>1, SMTT(30) DEF OwnTriangle
<1>3. VerticesApart'
  BY <1>0 DEF VerticesApart
<1>4. Holds'
  <2>1. ASSUME NEW u \in Threads PROVE HoldsCorners(u)' /\ HoldsNeighbours(u)'
    <3>1. CASE u = t
      BY <3>1 DEF HoldsCorners, HoldsNeighbours
    <3>2. CASE u # t
      BY <3>2, MeshStays, SMTT(30) DEF Holds, HoldsCorners, HoldsNeighbours, Corners
    <3> QED BY <3>1, <3>2
  <2> QED BY <2>1 DEF Holds
<1>5. SnapshotIsCurrent'
  BY MeshStays DEF SnapshotIsCurrent
<1> QED BY <1>2, <1>3, <1>4, <1>5, MeshStays

LEMMA PopKeeps ==
  ASSUME ParInv, NEW t \in Threads, Pop(t)
  PROVE  ParInv'
<1> USE DEF ParInv
<1>0. /\ UNCHANGED <<meshVars, phase, fresh, locks, seen, written>>
      /\ UNCHANGED <<vertices, interiors>>
      /\ phase = "produce" /\ pc[t] = "idle" /\ pc' = [pc EXCEPT ![t] = "start"]
      /\ wl' \subseteq wl
  BY DEF Pop, meshVars
<1>1. PICK i \in wl : item' = [item EXCEPT ![t] = i]
  BY ZenonT(30) DEF Pop
<1>2. ParTypes'
  BY <1>0, <1>1 DEF ParTypes, Locations, IsVertex, IsInterior, Nothing
<1>3. FreshAreThere'
  BY <1>0 DEF FreshAreThere
<1>4. /\ pc'[t] = "start" /\ written[t] = Nothing
      /\ \A u \in Threads \ {t} : UNCHANGED <<pc[u], item[u]>>
  BY <1>0, <1>1 DEF ParTypes
<1> QED BY <1>0, <1>2, <1>3, <1>4, LetGoKeeps

LEMMA NoProductionKeeps ==
  ASSUME ParInv, NEW t \in Threads, NoProduction(t)
  PROVE  ParInv'
<1> USE DEF ParInv
<1>0. /\ UNCHANGED <<meshVars, phase, fresh, wl, item, locks, seen, written>>
      /\ UNCHANGED <<vertices, interiors>>
      /\ pc[t] = "write" /\ pc' = [pc EXCEPT ![t] = "return"]
  BY DEF NoProduction, meshVars
<1>1. ParTypes'
  BY <1>0 DEF ParTypes, Locations, IsVertex, IsInterior, Nothing
<1>2. phase = "produce"
  BY <1>0 DEF FreshAreThere
<1>3. FreshAreThere'
  BY <1>0, <1>2 DEF FreshAreThere
<1>4. /\ pc'[t] = "return" /\ written[t] = Nothing
      /\ \A u \in Threads \ {t} : UNCHANGED pc[u]
  BY <1>0 DEF ParTypes
<1> QED BY <1>0, <1>1, <1>3, <1>4, LetGoKeeps

\* An iteration ends, committed or aborted: both drop what it has removed from
\* the interiors to be seen, and both keep what it has created.
LEMMA ReleaseKeeps ==
  ASSUME ParInv, NEW t \in Threads, Return(t) \/ Abort(t)
  PROVE  ParInv'
<1> USE DEF ParInv
<1>0. /\ UNCHANGED <<meshVars, phase>> /\ UNCHANGED <<vertices, interiors>>
      /\ fresh' = (fresh \ written[t].iOld) \cup written[t].iNew
      /\ Release(t)
  BY DEF Return, Abort, meshVars
<1>1. pc[t] # "idle"
  <2>1. Abort(t) => pc[t] # "idle"
    BY DEF Abort, Conflicting, Wants
  <2> QED BY <2>1 DEF Return
<1>2. /\ phase = "produce"
      /\ \A i \in wl' : IsInterior(i)
  <2>1. wl' \subseteq wl \cup written[t].iNew \cup {item[t]}
    BY DEF Return, Abort
  <2>2. \A i \in written[t].iNew : IsInterior(i)
    BY InteriorsAre DEF FreshAreThere
  <2> QED BY <1>1, <2>1, <2>2 DEF FreshAreThere, ParTypes
<1>3. /\ pc' = [pc EXCEPT ![t] = "idle"] /\ item' = [item EXCEPT ![t] = <<>>]
      /\ locks' = [locks EXCEPT ![t] = {}] /\ seen' = [seen EXCEPT ![t] = <<>>]
      /\ written' = [written EXCEPT ![t] = Nothing]
  BY <1>0 DEF Release
<1>4. /\ pc'[t] = "idle" /\ locks'[t] = {} /\ written'[t] = Nothing
      /\ \A u \in Threads \ {t} : UNCHANGED <<pc[u], item[u], locks[u], seen[u], written[u]>>
      /\ written'[t].iNew = {}
  BY <1>3 DEF ParTypes, Nothing
<1>5. ParTypes'
  <2>1. pc' \in [Threads -> Locations]
    BY <1>3 DEF ParTypes, Locations
  <2>2. /\ DOMAIN item' = Threads /\ DOMAIN locks' = Threads
        /\ DOMAIN seen' = Threads /\ DOMAIN written' = Threads
    BY <1>3 DEF ParTypes
  <2> QED BY <1>0, <1>2, <1>4, <2>1, <2>2, SMTT(30) DEF ParTypes, IsVertex, IsInterior, Nothing
<1>6. FreshAreThere'
  <2>1. ASSUME NEW i \in fresh'
        PROVE  i \in interiors \/ \E u \in Threads : i \in written'[u].iOld
    <3>1. CASE i \in written[t].iNew
      BY <3>1 DEF FreshAreThere
    <3>2. CASE i \in fresh \ written[t].iOld
      <4>1. i \in interiors \/ \E u \in Threads \ {t} : i \in written[u].iOld
        BY <3>2 DEF FreshAreThere
      <4> QED BY <1>4, <4>1
    <3> QED BY <1>0, <2>1, <3>1, <3>2
  <2>2. \A u \in Threads : written'[u].iNew \subseteq interiors \cap locks'[u]
    BY <1>4 DEF FreshAreThere
  <2> QED BY <1>0, <1>2, <2>1, <2>2 DEF FreshAreThere
<1> QED BY <1>0, <1>4, <1>5, <1>6, LetGoKeeps

-----------------------------------------------------------------------------
\* What a production touches is not what an iteration on a triangle with other
\* vertices has read or locked.
LEMMA OthersUntouched ==
  ASSUME FirmInv, FirmInv', NEW i \in interiors, NEW k, NEW L, Touches(k, L),
         Corners(i) \cap L = {}, i # k
  PROVE  /\ Snapshot(i)' = Snapshot(i)
         /\ \A M : Corners(i) \subseteq M /\ Covers(i, M) => Covers(i, M)'
<1> USE DEF Touches
<1>1. ASSUME NEW e \in Sides
      PROVE  /\ Side(i, e) \in SUBSET vertices /\ ~(Side(i, e) \subseteq L)
             /\ i[e] \in vertices \ L
  <2>1. /\ First(i, e) \in Corners(i) /\ Second(i, e) \in Corners(i)
        /\ Corners(i) \subseteq vertices /\ First(i, e) = i[e]
    BY CornersAre, InteriorsAre DEF First
  <2> QED BY <2>1 DEF Side
<1>2. ASSUME NEW e \in Sides
      PROVE  /\ Side(i, e) \in DOMAIN edges' <=> Side(i, e) \in DOMAIN edges
             /\ Side(i, e) \in DOMAIN edges => (edges'[Side(i, e)] <=> edges[Side(i, e)])
             /\ i[e] \in hanging' <=> i[e] \in hanging
  BY <1>1
<1>3. Side(i, 1)' = Side(i, 1)
  BY DEF Side, First, Second
<1>4. BrokenEdges(i)' = BrokenEdges(i)
  BY <1>2 DEF BrokenEdges, Side, First, Second
<1>5. {e \in Sides \ BrokenEdges(i) : IsBorder(i, e)}' = {e \in Sides \ BrokenEdges(i) : IsBorder(i, e)}
  <2>1. ASSUME NEW e \in Sides \ BrokenEdges(i) PROVE IsBorder(i, e)' <=> IsBorder(i, e)
    BY <1>2, <2>1 DEF BrokenEdges, IsBorder, Side, First, Second
  <2> QED BY <1>4, <2>1
<1>6. {e \in Sides : i[e] \in hanging}' = {e \in Sides : i[e] \in hanging}
  BY <1>2
<1>7. (i \in toRefine') = (i \in toRefine)
  OBVIOUS
<1>8. Snapshot(i)' = Snapshot(i)
  BY <1>4, <1>5, <1>6, <1>7 DEF Snapshot
<1>9. Searched(i)' = Searched(i)
  BY <1>4 DEF Searched, OneBroken, FirstOf, P4Edges, P6Edges, TwoBroken,
              LongestEdgesIncludingBrokenOnes, Length, First, Second
<1>10. ASSUME NEW M, Corners(i) \subseteq M, Covers(i, M) PROVE Covers(i, M)'
  <2> SUFFICES ASSUME NEW e \in Searched(i), NEW v \in Side(i, e), NEW w \in vertices',
                      {v, w} \in DOMAIN edges'
               PROVE  w \in M
    BY <1>9 DEF Covers, Side, First, Second
  <2>1. e \in Sides
    BY DEF Searched, FirstOf, BrokenEdges, P4Edges, P6Edges, LongestEdgesIncludingBrokenOnes
  <2>2. v \in vertices \ L
    BY <2>1, CornersAre, InteriorsAre DEF Side
  <2>3. {v, w} \in DOMAIN edges
    BY <2>2, SMTT(30)
  <2>4. w \in vertices
    BY <2>3 DEF FirmInv, MeshTypeOK
  <2> QED BY <1>10, <2>3, <2>4 DEF Covers
<1> QED BY <1>8, <1>10

LEMMA WriteKeeps ==
  ASSUME ParInv, NEW t \in Threads, Write(t)
  PROVE  ParInv'
<1> USE DEF ParInv
<1>0. PICK k, L : /\ k \in interiors /\ k = item[t] /\ L = locks[t]
                  /\ Corners(k) \subseteq L /\ Covers(k, L)
  BY DEF Write, OwnTriangle, Inside, Holds, HoldsCorners, HoldsNeighbours
<1>1. FirmInv' /\ Touches(k, L)
  BY <1>0, ProductionsAreFirm, ProductionsTouch DEF Write
<1>2. /\ pc[t] = "write" /\ pc' = [pc EXCEPT ![t] = "afterStep"]
      /\ UNCHANGED <<phase, fresh, wl, item, seen>>
      /\ locks' = [locks EXCEPT ![t] = @ \cup (vertices' \ vertices) \cup (interiors' \ interiors)]
  BY DEF Write
<1>3. /\ DOMAIN written' = Threads /\ \A u \in Threads \ {t} : UNCHANGED written[u]
      /\ written'[t].iNew = interiors' \ interiors /\ written'[t].iOld = {k}
  BY <1>0 DEF Write, ParTypes
<1>4. /\ pc'[t] = "afterStep" /\ locks'[t] = L \cup (vertices' \ vertices) \cup (interiors' \ interiors)
      /\ \A u \in Threads \ {t} : UNCHANGED <<pc[u], locks[u]>>
  BY <1>0, <1>2 DEF ParTypes
<1>5. /\ vertices \subseteq vertices' /\ \A v \in vertices' : IsVertex(v)
      /\ interiors \ {k} \subseteq interiors' /\ \A i \in interiors' : IsInterior(i)
  <2>1. (FirmInv => \A i \in interiors : IsInterior(i) /\ Corners(i) \subseteq vertices)'
    BY InteriorsAre, PTL
  <2>2. \A i \in interiors' : IsInterior(i)
    BY <1>1, <2>1 DEF IsInterior
  <2> QED BY <1>1, <2>2 DEF Touches, ParTypes
<1>6. \A x : ~(IsVertex(x) /\ IsInterior(x))
  BY DEF IsVertex, IsInterior
<1>7. ParTypes'
  <2>1. \A u \in Threads : \A x \in locks'[u] : x \in vertices' \/ IsInterior(x)
    BY <1>0, <1>4, <1>5 DEF ParTypes
  <2>2. pc' \in [Threads -> Locations] /\ DOMAIN locks' = Threads
    BY <1>2 DEF ParTypes, Locations
  <2>3. \A u \in Threads : /\ pc'[u] # "idle" => IsInterior(item[u])
                           /\ pc'[u] # "afterStep" => written'[u] = Nothing
    BY <1>2, <1>3, <1>4 DEF ParTypes
  <2> QED BY <1>2, <1>3, <1>5, <2>1, <2>2, <2>3 DEF ParTypes, IsVertex, IsInterior, Nothing
<1>8. FreshAreThere'
  <2>1. phase = "produce"
    BY <1>2 DEF FreshAreThere
  <2>2. ASSUME NEW i \in fresh PROVE i \in interiors' \/ \E u \in Threads : i \in written'[u].iOld
    <3>1. CASE i = k
      BY <1>3, <3>1
    <3>2. ASSUME NEW u \in Threads, i \in written[u].iOld PROVE u # t
      <4>1. written[t] = Nothing
        BY <1>2 DEF ParTypes
      <4>2. Nothing.iOld = {}
        BY DEF Nothing
      <4> QED BY <3>2, <4>1, <4>2
    <3> QED BY <1>3, <1>5, <3>1, <3>2 DEF FreshAreThere
  <2>3. ASSUME NEW u \in Threads PROVE written'[u].iNew \subseteq interiors' \cap locks'[u]
    <3>1. CASE u = t
      BY <1>3, <1>4, <3>1
    <3>2. CASE u # t
      <4>1. k \notin written[u].iNew
        BY <1>0, <1>2, <3>2 DEF OwnTriangle, Inside
      <4> QED BY <1>3, <1>4, <1>5, <3>2, <4>1 DEF FreshAreThere
    <3> QED BY <3>1, <3>2
  <2> QED BY <1>2, <2>1, <2>2, <2>3 DEF FreshAreThere
<1>9. ASSUME NEW u \in Threads, Inside(u)'
      PROVE  /\ u # t /\ Inside(u) /\ item[u] # k /\ item[u] \in interiors
             /\ pc'[u] = pc[u] /\ locks'[u] = locks[u]
  <2>1. u # t /\ Inside(u)
    BY <1>4, <1>9 DEF Inside
  <2>2. Inside(t)
    BY <1>2 DEF Inside
  <2> QED BY <1>0, <1>4, <2>1, <2>2 DEF OwnTriangle
<1>10. OwnTriangle'
  <2> SUFFICES ASSUME NEW u \in Threads, Inside(u)'
               PROVE  /\ item[u] \in interiors' \cap locks'[u]
                      /\ \A w \in Threads \ {u} : /\ Inside(w)' => item[w] # item[u]
                                                  /\ item[u] \notin written'[w].iNew
    BY <1>2 DEF OwnTriangle, Inside
  <2>1. item[u] \in interiors' \cap locks'[u]
    BY <1>5, <1>9 DEF OwnTriangle
  <2>2. ASSUME NEW w \in Threads \ {u}
        PROVE  (Inside(w)' => item[w] # item[u]) /\ item[u] \notin written'[w].iNew
    <3>1. CASE w = t
      BY <1>3, <1>4, <1>9, <3>1 DEF Inside
    <3>2. CASE w # t
      BY <1>3, <1>9, <3>2 DEF OwnTriangle
    <3> QED BY <3>1, <3>2
  <2> QED BY <2>1, <2>2
<1>11. VerticesApart'
  <2> SUFFICES ASSUME NEW u \in Threads, NEW w \in Threads \ {u}, w # t,
                      NEW x \in vertices', x \in locks'[u], x \in locks'[w]
               PROVE  FALSE
    BY DEF VerticesApart
  <2>1. IsVertex(x) /\ ~IsInterior(x) /\ x \in locks[w]
    BY <1>4, <1>5, <1>6
  <2>2. x \in vertices
    BY <2>1 DEF ParTypes
  <2>3. x \in locks[u]
    BY <1>0, <1>4, <1>5, <2>1, <2>2
  <2> QED BY <2>1, <2>2, <2>3 DEF VerticesApart
<1>12. ASSUME NEW u \in Threads, pc'[u] \in {"search", "write"}
       PROVE  /\ HoldsCorners(u)' /\ HoldsNeighbours(u)' /\ seen'[u] = Snapshot(item[u])'
  <2>1. /\ u # t /\ Inside(u) /\ item[u] # k /\ item[u] \in interiors
        /\ pc'[u] = pc[u] /\ locks'[u] = locks[u]
    BY <1>9, <1>12 DEF Inside
  <2>2. PICK i, M : i \in interiors /\ i = item[u] /\ M = locks[u]
    BY <2>1
  <2>3. Corners(i) \subseteq M /\ (pc[u] = "write" => Covers(i, M)) /\ seen[u] = Snapshot(i)
    BY <1>12, <2>1, <2>2 DEF Holds, HoldsCorners, HoldsNeighbours, SnapshotIsCurrent
  <2>4. Corners(i) \cap L = {}
    <3>1. M \cap L \cap vertices = {}
      BY <1>0, <2>1, <2>2 DEF VerticesApart
    <3> QED BY <2>2, <2>3, <3>1, InteriorsAre
  <2>5. Snapshot(i)' = Snapshot(i) /\ (Covers(i, M) => Covers(i, M)')
    BY <1>1, <2>1, <2>2, <2>3, <2>4, OthersUntouched
  <2> QED BY <1>2, <2>1, <2>2, <2>3, <2>5 DEF HoldsCorners, HoldsNeighbours, Corners
<1>13. Holds'
  BY <1>12 DEF Holds, HoldsCorners, HoldsNeighbours
<1>14. SnapshotIsCurrent'
  BY <1>12 DEF SnapshotIsCurrent
<1> QED BY <1>1, <1>7, <1>8, <1>10, <1>11, <1>13, <1>14

-----------------------------------------------------------------------------
\* The steps between the loops, where every thread is idle.
LEMMA BetweenLoopsKeeps ==
  ASSUME ParInv, ParCheckConditions \/ ParEndStep
  PROVE  ParInv'
<1> USE DEF ParInv
<1>1. /\ UNCHANGED <<vertices, edges, interiors, hanging, pc, item, locks, seen, written>>
      /\ \A t \in Threads : pc[t] = "idle"
  BY DEF ParCheckConditions, ParEndStep, meshVars, threadVars, FreshAreThere
<1>2. \A t \in Threads : written[t] = Nothing
  BY <1>1 DEF ParTypes
<1>3. fresh \subseteq interiors
  BY <1>2, SMTT(30) DEF FreshAreThere, Nothing
<1>4. /\ toRefine' \subseteq interiors' /\ fresh' \subseteq interiors'
      /\ wl' = interiors \/ wl' = wl
  BY <1>1, <1>3 DEF ParCheckConditions, ParEndStep, meshVars, FirmInv, MeshTypeOK
<1>5. FirmInv'
  BY <1>1, <1>4, FirmFrame
<1>6. ParTypes'
  <2>1. \A i \in wl' : IsInterior(i)
    BY <1>4, InteriorsAre DEF ParTypes
  <2> QED BY <1>1, <2>1 DEF ParTypes, IsVertex, IsInterior, Nothing
<1>7. FreshAreThere'
  BY <1>1, <1>4 DEF FreshAreThere
<1>8. OwnTriangle' /\ VerticesApart' /\ Holds' /\ SnapshotIsCurrent'
  BY <1>1 DEF OwnTriangle, Inside, VerticesApart, Holds, HoldsCorners, HoldsNeighbours,
              SnapshotIsCurrent
<1> QED BY <1>5, <1>6, <1>7, <1>8

LEMMA NothingHappens ==
  ASSUME ParInv, UNCHANGED parVars
  PROVE  ParInv'
<1> USE DEF ParInv
<1>1. UNCHANGED <<vertices, edges, interiors, hanging, toRefine, meshVars, phase, fresh, wl,
                  pc, item, locks, seen, written>>
  BY DEF parVars, meshVars, threadVars
<1>2. /\ FirmInv' /\ \A i : Snapshot(i)' = Snapshot(i)
      /\ \A i, L : Covers(i, L)' <=> Covers(i, L)
  BY <1>1, MeshStays
<1>3. ParTypes' /\ FreshAreThere' /\ OwnTriangle' /\ VerticesApart'
  BY <1>1 DEF ParTypes, FreshAreThere, OwnTriangle, Inside, VerticesApart, IsVertex,
              IsInterior, Nothing
<1>4. Holds'
  BY <1>1, <1>2 DEF Holds, HoldsCorners, HoldsNeighbours, Corners
<1>5. SnapshotIsCurrent'
  BY <1>1, <1>2 DEF SnapshotIsCurrent
<1> QED BY <1>2, <1>3, <1>4, <1>5

LEMMA ParAlways == ParSpec => []ParInv
<1>1. ParInv /\ [ParNext]_parVars => ParInv'
  <2> SUFFICES ASSUME ParInv, [ParNext]_parVars PROVE ParInv'
    OBVIOUS
  <2>1. CASE ParCheckConditions \/ ParEndStep
    BY <2>1, BetweenLoopsKeeps
  <2>2. CASE ParDone \/ UNCHANGED parVars
    BY <2>2, NothingHappens DEF ParDone
  <2>3. ASSUME NEW t \in Threads, Iteration(t) PROVE ParInv'
    BY <2>3, PopKeeps, LockItemKeeps, LockMoreKeeps, WriteKeeps, NoProductionKeeps,
       ReleaseKeeps DEF Iteration
  <2> QED BY <2>1, <2>2, <2>3 DEF ParNext
<1> QED BY <1>1, ParInitially, PTL DEF ParSpec

-----------------------------------------------------------------------------
\* The copy of a triangle and of its edges that ProductionState makes is still
\* what the graph holds when a production decides on it and when it writes: the
\* locks on the three vertices are enough, with any number of threads.
THEOREM SnapshotsStayCurrent == ParSpec => []SnapshotIsCurrent
<1>1. ParInv => SnapshotIsCurrent
  BY DEF ParInv
<1> QED BY <1>1, ParAlways, PTL

\* No two iterations rewrite one triangle, and none rewrites a triangle that
\* another has made and not yet committed: once basicCondition has locked the
\* interior and found it in the graph, it stays there until this iteration
\* removes it.
THEOREM OneIterationPerTriangle == ParSpec => []OwnTriangle
<1>1. ParInv => OwnTriangle
  BY DEF ParInv
<1> QED BY <1>1, ParAlways, PTL

\* A production changes no edge, hanging flag or interior outside the
\* neighbourhood its iteration has locked before the first write.
WritesAreLocked ==
  [][\A t \in Threads : Write(t) => Touches(item[t], locks[t])]_parVars

\* Every write of a production to the shared graph is to a node that the
\* iteration has locked, to an edge between such nodes, or to a node it has just
\* created.
THEOREM WritesStayLocked == ParSpec => WritesAreLocked
<1>1. ParInv => \A t \in Threads : Write(t) => Touches(item[t], locks[t])
  <2> SUFFICES ASSUME ParInv, NEW t \in Threads, Write(t) PROVE Touches(item[t], locks[t])
    OBVIOUS
  <2>1. /\ item[t] \in interiors /\ Corners(item[t]) \subseteq locks[t]
        /\ Covers(item[t], locks[t]) /\ Productions(item[t])
    BY DEF ParInv, Write, OwnTriangle, Inside, Holds, HoldsCorners, HoldsNeighbours
  <2> QED BY <2>1, ProductionsTouch DEF ParInv
<1> QED BY <1>1, ParAlways, PTL DEF WritesAreLocked, ParSpec

\* On the graph the threads share, too, no production breaks an edge one of
\* whose ends hangs: conflicts and aborts after the first write change nothing
\* about it.
THEOREM ThreadsBreakOnlyFirmEdges == ParSpec => OnlyFirmEdgesBreak
<1>1. ParInv /\ [ParNext]_parVars =>
        [\A p \in DOMAIN edges \ DOMAIN edges' : p \cap hanging = {}]_meshVars
  <2> SUFFICES ASSUME ParInv, [ParNext]_parVars
               PROVE  \A p \in DOMAIN edges \ DOMAIN edges' : p \cap hanging = {}
    OBVIOUS
  <2>1. ASSUME NEW t \in Threads, Write(t)
        PROVE  \A p \in DOMAIN edges \ DOMAIN edges' : p \cap hanging = {}
    <3>1. item[t] \in interiors /\ Productions(item[t])
      BY <2>1 DEF ParInv, Write, OwnTriangle, Inside
    <3> QED BY <3>1, ProductionsAreFirm DEF ParInv
  <2>2. (\A t \in Threads : ~Write(t)) => edges' = edges
    BY DEF ParNext, parVars, Iteration, Pop, LockItem, LockVertices, LockNeighbours,
           NoProduction, Return, Abort, ParCheckConditions, ParEndStep, ParDone, meshVars
  <2> QED BY <2>1, <2>2
<1> QED BY <1>1, ParAlways, PTL DEF ParSpec, OnlyFirmEdgesBreak

-----------------------------------------------------------------------------
\* The graph the threads share is a tiling between any two steps of theirs.
LEMMA ParTiles == ParSpec => []TilingInv
<1>1. ParInit => TilingInv
  BY InitTiles DEF ParInit
<1>2. ParInv /\ ParInv' /\ TilingInv /\ [ParNext]_parVars => TilingInv'
  <2> SUFFICES ASSUME ParInv, ParInv', TilingInv, [ParNext]_parVars PROVE TilingInv'
    OBVIOUS
  <2>1. toRefine' \subseteq interiors'
    BY DEF ParInv, FirmInv, MeshTypeOK
  <2>2. ASSUME NEW t \in Threads, Write(t) PROVE TilingInv'
    <3>1. item[t] \in interiors /\ Productions(item[t])
      BY <2>2, ZenonT(30) DEF ParInv, Write, OwnTriangle, Inside
    <3> QED BY <3>1, ProductionsTile
  <2>3. CASE UNCHANGED <<vertices, edges, interiors, hanging>>
    BY <2>1, <2>3, TilingFrame
  <2>4. (\A t \in Threads : ~Write(t)) => UNCHANGED <<vertices, edges, interiors, hanging>>
    BY DEF ParNext, parVars, Iteration, Pop, LockItem, LockVertices, LockNeighbours,
           NoProduction, Return, Abort, ParCheckConditions, ParEndStep, ParDone, meshVars
  <2> QED BY <2>2, <2>3, <2>4
<1> QED BY <1>1, <1>2, ParAlways, PTL DEF ParSpec

\* With any number of threads, every broken side has its one node, no two
\* vertices are in one place, the hanging flags are exact and the triangles tile
\* the terrain, also between the write of an iteration and its commit or abort.
THEOREM ThreadsKeepTheTiling ==
  ParSpec => [](/\ BrokenSidesHaveTheirNode /\ OneVertexPerLocation
                /\ HangingFlagsAreExact /\ TrianglesTile)
<1>1. TilingInv => /\ BrokenSidesHaveTheirNode /\ OneVertexPerLocation
                   /\ HangingFlagsAreExact /\ TrianglesTile
  BY SidesHaveTheirNode, OneVertexPerPlace, FlagsAreExact, EdgesHaveTheirTriangles
<1> QED BY <1>1, ParTiles, PTL
=============================================================================
