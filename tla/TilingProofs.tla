---------------------------- MODULE TilingProofs ----------------------------
(***************************************************************************)
(* The triangles keep tiling the terrain, whichever production rewrites    *)
(* which of them: every broken side has one node, which hangs, no place    *)
(* has two vertices, and every edge has its triangles.  MeshProofs and     *)
(* ParallelProofs use this.                                                *)
(***************************************************************************)
EXTENDS GrammarProofs

\* A production that breaks the edge u, v of k with a new node n.
EdgeBroken(k, u, v, w, n, l, m) ==
  /\ n \notin vertices
  /\ vertices' = vertices \cup {n}
  /\ \E a, b : n[1] = a /\ n[2] = b /\ <<a, b>> = MiddleXY(u, v)
  /\ n[4] = Cardinality({x \in vertices : XY(x) = MiddleXY(u, v)})
  /\ HalfWay(n, u, v)
  /\ DOMAIN edges' = (DOMAIN edges \ {{u, v}}) \cup {{n, u}, {n, v}, {n, w}}
  /\ \A p \in DOMAIN edges' :
       edges'[p] = IF n \in p THEN p \in {{n, u}, {n, v}} /\ edges[{u, v}] ELSE edges[p]
  /\ l = <<n, w, u>> /\ m = <<n, w, v>>
  /\ interiors' = (interiors \ {k}) \cup {l, m}
  /\ hanging' = hanging \cup (IF ~edges[{u, v}] THEN {n} ELSE {})
  /\ {u, v} \in DOMAIN edges
  /\ {u, v} \cap hanging = {}

\* breakElementWithoutHangingNode does that.
LEMMA EdgeIsBroken ==
  ASSUME NEW k \in interiors, NEW e \in Sides \ BrokenEdges(k), NoHangingEnd(k, e),
         BreakElementWithoutHangingNode(k, e)
  PROVE  \E n, l, m : EdgeBroken(k, First(k, e), Second(k, e), Neutral(k, e), n, l, m)
<1>1. PICK u, v, w : u = First(k, e) /\ v = Second(k, e) /\ w = Neutral(k, e)
  OBVIOUS
<1>2. PICK n \in NewNodes(k, e) :
        /\ n \notin vertices
        /\ vertices' = vertices \cup {n}
        /\ edges' = [p \in (DOMAIN edges \ {{u, v}}) \cup {{n, u}, {n, v}} \cup {{n, w}} |->
                       IF n \in p THEN p \in {{n, u}, {n, v}} /\ edges[{u, v}]
                                  ELSE edges[p]]
        /\ interiors' = (interiors \ {k}) \cup Halves(k, e, n)
        /\ hanging' = hanging \cup (IF ~edges[{u, v}] THEN {n} ELSE {})
  BY <1>1, ZenonT(30) DEF BreakElementWithoutHangingNode, ReplaceInterior, IsBorder, RemoveEdge, Hangs,
              Parts, Side
<1>3. Halves(k, e, n) = {<<n, w, u>>, <<n, w, v>>}
  BY <1>1 DEF Halves
<1>4. {u, v} \in DOMAIN edges /\ {u, v} \cap hanging = {}
  BY <1>1 DEF BrokenEdges, Side, NoHangingEnd
<1>5. /\ DOMAIN edges' = (DOMAIN edges \ {{u, v}}) \cup {{n, u}, {n, v}, {n, w}}
      /\ \A p \in DOMAIN edges' :
           edges'[p] = IF n \in p THEN p \in {{n, u}, {n, v}} /\ edges[{u, v}] ELSE edges[p]
  BY <1>2
<1>6. /\ HalfWay(n, u, v)
      /\ n[1] = MiddleXY(u, v)[1] /\ n[2] = MiddleXY(u, v)[2]
      /\ n[4] = Cardinality({x \in vertices : XY(x) = MiddleXY(u, v)})
  BY <1>1, SMTT(30) DEF NewNodes
<1>7. \E a, b : n[1] = a /\ n[2] = b /\ <<a, b>> = MiddleXY(u, v)
  BY <1>6 DEF MiddleXY
<1>8. EdgeBroken(k, u, v, w, n, <<n, w, u>>, <<n, w, v>>)
  BY <1>2, <1>3, <1>4, <1>5, <1>6, <1>7 DEF EdgeBroken
<1> QED BY <1>1, <1>8

\* An edge that is not on the border and has no hanging end is the side of a
\* second triangle; an edge of the border is not.
LEMMA SecondBeside ==
  ASSUME TilingInv, NEW k \in interiors, NEW p \in Pairs(k), p \in DOMAIN edges,
         p \cap hanging = {}, ~edges[p]
  PROVE  \E j \in interiors \ {k} : p \in Pairs(j)
<1>1. PICK j \in interiors \ {k} : Along(j, p)
  BY DEF TilingInv, Beside
<1>2. ASSUME NEW q \in Pairs(j) \ DOMAIN edges, NEW h, NEW a \in q, Mid(h, q), p = {a, h}
      PROVE  FALSE
  <2>1. PICK x \in hanging : Mid(x, q)
    BY DEF TilingInv, NodesHang
  <2>2. PICK f \in Sides : q = {First(j, f), Second(j, f)}
    BY DEF Pairs, Side
  <2>3. PICK b, c : b = First(j, f) /\ c = Second(j, f) /\ b \in vertices /\ c \in vertices
    BY SidesAre DEF TilingInv
  <2>4. x = h
    BY <1>2, <2>1, <2>2, <2>3, OneMid DEF TilingInv
  <2> QED BY <1>2, <2>1, <2>4
<1> QED BY <1>1, <1>2 DEF Along

LEMMA BorderAlone ==
  ASSUME Plane, Outer, NEW k \in interiors, NEW j \in interiors, NEW p, p \in Pairs(k), p \in Pairs(j),
         p \in DOMAIN edges, edges[p]
  PROVE  j = k
<1>1. PICK e \in Sides : p = {First(k, e), Second(k, e)}
  BY DEF Pairs, Side
<1>2. PICK u, v : u = First(k, e) /\ v = Second(k, e)
  OBVIOUS
<1>3. u \in vertices /\ v \in vertices /\ ~SamePlace(u, v) /\ p = {u, v}
  BY <1>1, <1>2, SidesAre
<1>4. On(u, k) /\ On(v, k) /\ On(u, j) /\ On(v, j)
  BY <1>3, MiddleIsOn
<1> QED BY <1>3, <1>4, OnePerBorder

\* The new node is in a place of its own.
LEMMA NewPlace ==
  ASSUME TilingInv, NEW k \in interiors, NEW e \in Sides, NEW u, NEW v, NEW w,
         u = First(k, e), v = Second(k, e), w = Neutral(k, e),
         NEW n, NEW l, NEW m, EdgeBroken(k, u, v, w, n, l, m)
  PROVE  IsPoint(n) /\ n[4] = 0 /\ \A x \in vertices : ~HalfWay(x, u, v) /\ ~SamePlace(x, n)
<1>1. /\ u \in vertices /\ v \in vertices /\ IsPoint(u) /\ IsPoint(v)
      /\ Pairs(k) = {{u, v}, {v, w}, {w, u}}
  BY CornersDiffer DEF TilingInv
<1>2. PICK a, b : n[1] = a /\ n[2] = b /\ <<a, b>> = MiddleXY(u, v)
  BY DEF EdgeBroken
<1>3. a \in Int /\ b \in Int
  <2>1. a = (u[1] + v[1]) \div 2 /\ b = (u[2] + v[2]) \div 2
    BY <1>2 DEF MiddleXY
  <2>2. u[1] + v[1] \in Int /\ u[2] + v[2] \in Int
    BY <1>1 DEF IsPoint
  <2> QED BY <2>1, <2>2
<1>4. IsPoint(n)
  BY <1>2, <1>3 DEF IsPoint
<1>5. \A x \in vertices : ~HalfWay(x, u, v)
  <2>1. Side(k, e) = {u, v} /\ {u, v} \in Pairs(k)
    BY <1>1 DEF Side
  <2>2. \/ edges[Side(k, e)]
        \/ \E j \in interiors \ {k} : \E f \in Sides : Side(j, f) = Side(k, e)
    <3>1. edges[{u, v}] \/ \E j \in interiors \ {k} : {u, v} \in Pairs(j)
      BY <2>1, SecondBeside, ZenonT(30) DEF EdgeBroken
    <3> QED BY <2>1, <3>1 DEF Pairs
  <2>3. Side(k, e) \in DOMAIN edges
    BY <2>1 DEF EdgeBroken
  <2>4. Plane /\ Outer
    BY DEF TilingInv
  <2> QED BY <2>2, <2>3, <2>4, NothingHalfWay
<1>6. \A x \in vertices : ~SamePlace(x, n)
  BY <1>5 DEF EdgeBroken, SamePlace, HalfWay
<1>7. {x \in vertices : XY(x) = MiddleXY(u, v)} = {}
  BY <1>2, <1>6 DEF XY, SamePlace
<1>8. n[4] = 0
  BY <1>7, FS_EmptySet, ZenonT(30) DEF EdgeBroken
<1> QED BY <1>4, <1>5, <1>6, <1>8

\* The facts the following lemmas start from.
AroundBreak(k, u, v, w, n, l, m) ==
  /\ IsPoint(n) /\ n # u /\ n # v /\ n # w
  /\ \A x \in vertices : ~HalfWay(x, u, v)
  /\ Mid(n, {u, v})'
  /\ Pairs(l) = {{n, w}, {w, u}, {u, n}} /\ Pairs(m) = {{n, w}, {w, v}, {v, n}}
  /\ l # m /\ l \notin interiors /\ m \notin interiors
  /\ SidesPassOn(k, l, m, u, v) /\ CutSides(k, n, u, v, w, l, m)
  /\ Plane'

LEMMA BreakFacts ==
  ASSUME TilingInv, MeshTypeOK', NEW k \in interiors, NEW e \in Sides, NEW u, NEW v, NEW w,
         u = First(k, e), v = Second(k, e), w = Neutral(k, e),
         NEW n, NEW l, NEW m, EdgeBroken(k, u, v, w, n, l, m)
  PROVE  AroundBreak(k, u, v, w, n, l, m)
<1>0. Plane /\ MeshTypeOK
  BY DEF TilingInv, Plane
<1>1. /\ u # v /\ v # w /\ w # u
      /\ ~SamePlace(u, v) /\ ~SamePlace(v, w) /\ ~SamePlace(u, w)
      /\ u \in vertices /\ v \in vertices /\ w \in vertices
      /\ IsPoint(u) /\ IsPoint(v) /\ IsPoint(w)
      /\ Corners(k) = {u, v, w} /\ Pairs(k) = {{u, v}, {v, w}, {w, u}}
      /\ Turn(u, v, w) # 0 /\ Turn(u, v, w) \in Int
  BY <1>0, CornersDiffer
<1>2. IsPoint(n) /\ n[4] = 0 /\ \A x \in vertices : ~HalfWay(x, u, v) /\ ~SamePlace(x, n)
  BY NewPlace
<1>3. /\ HalfWay(n, u, v) /\ n \notin vertices /\ vertices' = vertices \cup {n}
      /\ DOMAIN edges' = (DOMAIN edges \ {{u, v}}) \cup {{n, u}, {n, v}, {n, w}}
      /\ interiors' = (interiors \ {k}) \cup {l, m} /\ {u, v} \in DOMAIN edges
      /\ {u, v} \cap hanging = {}
  BY DEF EdgeBroken
<1>4. /\ n # u /\ n # v /\ n # w
      /\ ~HalfWay(n, v, w) /\ ~HalfWay(n, w, v) /\ ~HalfWay(n, w, u) /\ ~HalfWay(n, u, w)
  BY <1>1, <1>2, <1>3, MiddleDiffers
<1>5. Pairs(l) = {{n, w}, {w, u}, {u, n}} /\ Pairs(m) = {{n, w}, {w, v}, {v, n}}
  BY PairsOfTriple DEF EdgeBroken
<1>6. l # m /\ l \notin interiors /\ m \notin interiors
  <2>1. l # m /\ l[1] = n /\ m[1] = n
    BY <1>1 DEF EdgeBroken
  <2>2. \A i \in interiors : i[1] \in vertices
    BY <1>0 DEF MeshTypeOK
  <2> QED BY <1>3, <2>1, <2>2
<1>7. Plane'
  <2>1. Cut(k, e, n)
    BY <1>3 DEF EdgeBroken, Cut, Halves
  <2> QED BY <1>0, <1>2, <1>3, <2>1, CutKeepsPlane
<1>8. Mid(n, {u, v})'
  <2>1. {u, n} = {n, u} /\ {v, n} = {n, v}
    OBVIOUS
  <2>2. {u, n} \in DOMAIN edges' /\ {v, n} \in DOMAIN edges' /\ n \in vertices'
    BY <1>3, <2>1
  <2>3. InMiddle(n, {u, v})
    BY <1>3 DEF InMiddle
  <2> QED BY <2>2, <2>3 DEF Mid, InMiddle, HalfWay
<1>9. ASSUME NEW j \in interiors, NEW p \in Pairs(j)
      PROVE  \E b, c : p = {b, c} /\ b # c /\ b \in vertices /\ c \in vertices
  <2>1. PICK f \in Sides : p = {First(j, f), Second(j, f)}
    BY <1>9 DEF Pairs, Side
  <2> QED BY <1>0, <2>1, SidesAre DEF SamePlace
<1>10. ASSUME NEW j \in interiors, NEW p \in Pairs(j), p \notin DOMAIN edges
       PROVE  /\ p \notin DOMAIN edges'
              /\ \A x : Mid(x, p)' <=> Mid(x, p)
  <2>1. PICK b, c : p = {b, c} /\ b # c /\ b \in vertices /\ c \in vertices
    BY <1>9, <1>10
  <2>2. p \notin DOMAIN edges'
    BY <1>3, <1>10, <2>1
  <2>3. ASSUME Mid(n, p)' PROVE FALSE
    <3>1. {b, n} \in DOMAIN edges' /\ {c, n} \in DOMAIN edges' /\ InMiddle(n, p)
      BY <2>1, <2>3 DEF Mid, InMiddle, HalfWay
    <3>2. ASSUME NEW a \in vertices, {a, n} \in DOMAIN edges' PROVE a = u \/ a = v \/ a = w
      <4>1. {a, n} \notin DOMAIN edges
        BY <1>0, <1>3 DEF MeshTypeOK
      <4>2. {a, n} = {n, u} \/ {a, n} = {n, v} \/ {a, n} = {n, w}
        BY <1>3, <3>2, <4>1
      <4> QED BY <1>3, <3>2, <4>2
    <3>3. b \in {u, v, w} /\ c \in {u, v, w}
      BY <2>1, <3>1, <3>2
    <3>4. p = {v, w} \/ p = {w, u}
      <4>1. p # {u, v}
        BY <1>3, <1>10, ZenonT(30)
      <4>2. p = {u, v} \/ p = {v, w} \/ p = {w, u}
        BY <2>1, <3>3
      <4> QED BY <4>1, <4>2
    <3>5. PICK y, z : p = {y, z} /\ HalfWay(n, y, z)
      BY <3>1 DEF InMiddle
    <3> QED BY <1>1, <1>4, <3>4, <3>5
  <2>4. ASSUME NEW x \in vertices PROVE Mid(x, p)' => Mid(x, p)
    <3>1. ASSUME NEW a \in p, {a, x} \in DOMAIN edges' PROVE {a, x} \in DOMAIN edges
      BY <1>3, <2>1, <3>1
    <3> QED BY <3>1 DEF Mid, InMiddle, HalfWay
  <2>5. ASSUME NEW x, Mid(x, p) PROVE Mid(x, p)'
    <3>1. PICK y \in hanging : Mid(y, p)
      BY <1>10 DEF TilingInv, NodesHang
    <3>2. x = y
      BY <1>0, <2>1, <2>5, <3>1, OneMid
    <3>3. x \notin {u, v}
      BY <1>3, <3>2
    <3>4. \A a \in p : {a, x} # {u, v}
      BY <3>3
    <3> QED BY <1>3, <2>5, <3>4 DEF Mid, InMiddle, HalfWay
  <2>6. ASSUME NEW x PROVE Mid(x, p)' <=> Mid(x, p)
    <3>1. Mid(x, p)' => x \in vertices'
      BY DEF Mid
    <3>2. Mid(x, p)' => Mid(x, p)
      BY <1>3, <2>3, <2>4, <3>1
    <3> QED BY <2>5, <3>2
  <2> QED BY <2>2, <2>6
<1>11. CutSides(k, n, u, v, w, l, m)
  BY <1>1, <1>3, <1>4, <1>5, CutPairs, ZenonT(30)
<1>12. SidesPassOn(k, l, m, u, v)
  BY <1>10, <1>11 DEF SidesPassOn, CutSides
<1> QED BY <1>2, <1>4, <1>5, <1>6, <1>7, <1>8, <1>11, <1>12 DEF AroundBreak

\* Breaking an edge keeps the tiling.
LEMMA BreakKeepsNodes ==
  ASSUME TilingInv, MeshTypeOK', NEW k \in interiors, NEW e \in Sides, NEW u, NEW v, NEW w,
         u = First(k, e), v = Second(k, e), w = Neutral(k, e),
         NEW n, NEW l, NEW m, EdgeBroken(k, u, v, w, n, l, m)
  PROVE  NodesHang' /\ HangingAreNodes' /\ HangOnce'
<1>0. Plane /\ Outer /\ MeshTypeOK /\ NodesHang /\ HangingAreNodes /\ HangOnce
  BY DEF TilingInv, Plane
<1>1. /\ IsPoint(n) /\ n # u /\ n # v /\ n # w
      /\ \A x \in vertices : ~HalfWay(x, u, v)
      /\ Mid(n, {u, v})'
      /\ Pairs(l) = {{n, w}, {w, u}, {u, n}} /\ Pairs(m) = {{n, w}, {w, v}, {v, n}}
      /\ l # m /\ l \notin interiors /\ m \notin interiors
      /\ SidesPassOn(k, l, m, u, v) /\ CutSides(k, n, u, v, w, l, m)
  <2>1. AroundBreak(k, u, v, w, n, l, m)
    BY BreakFacts, ZenonT(30)
  <2> QED BY <2>1 DEF AroundBreak
<1>2. /\ u # v /\ v # w /\ w # u /\ u \in vertices /\ v \in vertices
      /\ IsPoint(u) /\ IsPoint(v) /\ ~SamePlace(u, v)
      /\ Pairs(k) = {{u, v}, {v, w}, {w, u}}
  BY <1>0, CornersDiffer
<1>3. /\ interiors' = (interiors \ {k}) \cup {l, m}
      /\ hanging' = hanging \cup (IF ~edges[{u, v}] THEN {n} ELSE {})
      /\ DOMAIN edges' = (DOMAIN edges \ {{u, v}}) \cup {{n, u}, {n, v}, {n, w}}
      /\ n \notin vertices /\ vertices' = vertices \cup {n}
      /\ {u, v} \in DOMAIN edges /\ {u, v} \cap hanging = {}
  BY DEF EdgeBroken
<1>4. {u, v} \notin DOMAIN edges'
  BY <1>2, <1>3
<1>5. ASSUME NEW i \in interiors', NEW p \in Pairs(i) \ DOMAIN edges'
      PROVE  \/ p = {u, v} /\ i \in interiors \ {k}
             \/ \E j \in interiors :
                  /\ p \in Pairs(j) \ DOMAIN edges
                  /\ (i = j /\ j # k) \/ (j = k /\ i \in {l, m})
                  /\ \A x : Mid(x, p)' <=> Mid(x, p)
  <2>1. p # {n, w} /\ p # {u, n} /\ p # {v, n}
    <3>1. {u, n} = {n, u} /\ {v, n} = {n, v}
      OBVIOUS
    <3> QED BY <1>3, <1>5, <3>1
  <2>2. PICK j \in interiors : /\ p \in Pairs(j)
                               /\ \/ i = j /\ j # k
                                  \/ j = k /\ p # {u, v} /\ i \in {l, m}
    BY <1>1, <1>5, <2>1 DEF CutSides
  <2>3. CASE p = {u, v}
    BY <2>2, <2>3
  <2>4. CASE p # {u, v}
    <3>1. p \notin DOMAIN edges
      BY <1>3, <1>5, <2>4
    <3>2. \A x : Mid(x, p)' <=> Mid(x, p)
      BY <1>1, <2>2, <2>4, <3>1 DEF SidesPassOn
    <3> QED BY <2>2, <3>1, <3>2
  <2> QED BY <2>3, <2>4
<1>6. ASSUME NEW x, Mid(x, {u, v})' PROVE x = n
  <2>1. x \in vertices' /\ InMiddle(x, {u, v})
    BY <1>6 DEF Mid, InMiddle, HalfWay
  <2>2. PICK a, b : {u, v} = {a, b} /\ HalfWay(x, a, b)
    BY <2>1 DEF InMiddle
  <2>3. (a = u /\ b = v) \/ (a = v /\ b = u)
    BY <1>2, <2>2
  <2>4. HalfWay(x, u, v)
    BY <1>2, <2>2, <2>3 DEF HalfWay, IsPoint
  <2> QED BY <1>1, <1>3, <2>1, <2>4
<1>7. ASSUME NEW i \in interiors \ {k}, {u, v} \in Pairs(i)
      PROVE  n \in hanging'
  BY <1>0, <1>2, <1>3, <1>7, BorderAlone, ZenonT(30)
<1>8. NodesHang'
  <2> SUFFICES ASSUME NEW i \in interiors', NEW p \in Pairs(i) \ DOMAIN edges'
               PROVE  \E x \in hanging' : Mid(x, p)'
    BY DEF NodesHang
  <2>1. CASE p = {u, v} /\ i \in interiors \ {k}
    BY <1>1, <1>7, <2>1, ZenonT(30)
  <2>2. ASSUME NEW j \in interiors, p \in Pairs(j) \ DOMAIN edges,
               \A x : Mid(x, p)' <=> Mid(x, p)
        PROVE  \E x \in hanging' : Mid(x, p)'
    <3>1. PICK x \in hanging : Mid(x, p)
      BY <1>0, <2>2 DEF NodesHang
    <3> QED BY <1>3, <2>2, <3>1
  <2> QED BY <1>5, <2>1, <2>2
<1>9. HangingAreNodes'
  <2> SUFFICES ASSUME NEW x \in hanging'
               PROVE  \E i \in interiors' : \E p \in Pairs(i) \ DOMAIN edges' : Mid(x, p)'
    BY DEF HangingAreNodes
  <2>1. CASE x \in hanging
    <3>1. PICK j \in interiors : \E p \in Pairs(j) \ DOMAIN edges : Mid(x, p)
      BY <1>0, <2>1 DEF HangingAreNodes
    <3>2. PICK p \in Pairs(j) \ DOMAIN edges : Mid(x, p)
      BY <3>1
    <3>3. p # {u, v}
      BY <1>3, ZenonT(30)
    <3> QED BY <1>1, <3>2, <3>3 DEF SidesPassOn
  <2>2. CASE x \notin hanging
    <3>1. x = n /\ ~edges[{u, v}]
      BY <1>3, <2>2
    <3>2. {u, v} \in Pairs(k)
      BY <1>2
    <3>3. PICK j \in interiors \ {k} : {u, v} \in Pairs(j)
      BY <1>3, <3>1, <3>2, SecondBeside
    <3> QED BY <1>1, <1>3, <1>4, <3>1, <3>3
  <2> QED BY <2>1, <2>2
<1>10. HangOnce'
  <2> SUFFICES ASSUME NEW i \in interiors', NEW j \in interiors',
                      NEW p \in Pairs(i) \ DOMAIN edges', NEW q \in Pairs(j) \ DOMAIN edges',
                      NEW x, Mid(x, p)', Mid(x, q)'
               PROVE  i = j /\ p = q
    BY DEF HangOnce
  <2>1. CASE p = {u, v} /\ i \in interiors \ {k}
    <3>1. x = n
      BY <1>6, <2>1
    <3>2. ~Mid(x, q)
      BY <1>3, <3>1 DEF Mid
    <3>3. q = {u, v} /\ j \in interiors \ {k}
      BY <1>5, <3>2
    <3>4. On(u, i) /\ On(v, i) /\ On(u, j) /\ On(v, j) /\ On(u, k) /\ On(v, k)
      <4>1. ASSUME NEW t, {u, v} \in Pairs(t) PROVE On(u, t) /\ On(v, t)
        BY <4>1, MiddleIsOn
      <4>2. {u, v} \in Pairs(i) /\ {u, v} \in Pairs(j) /\ {u, v} \in Pairs(k)
        BY <1>2, <2>1, <3>3
      <4> QED BY <4>1, <4>2
    <3> QED BY <1>0, <1>2, <2>1, <3>3, <3>4, TwoPerLine
  <2>2. ASSUME NEW i0 \in interiors,
               p \in Pairs(i0) \ DOMAIN edges,
               (i = i0 /\ i0 # k) \/ (i0 = k /\ i \in {l, m}),
               \A y : Mid(y, p)' <=> Mid(y, p)
        PROVE  i = j /\ p = q
    <3>1. Mid(x, p) /\ x # n
      <4>1. Mid(x, p)
        BY <2>2
      <4>2. x \in vertices
        BY <4>1 DEF Mid
      <4> QED BY <1>3, <4>1, <4>2
    <3>2. q # {u, v}
      BY <1>6, <3>1
    <3>3. PICK j0 \in interiors :
               /\ q \in Pairs(j0) \ DOMAIN edges
               /\ (j = j0 /\ j0 # k) \/ (j0 = k /\ j \in {l, m})
               /\ \A y : Mid(y, q)' <=> Mid(y, q)
      BY <1>5, <3>2
    <3>4. i0 = j0 /\ p = q
      <4>1. Mid(x, p) /\ Mid(x, q)
        BY <3>1, <3>3
      <4>2. p \in Pairs(i0) \ DOMAIN edges /\ q \in Pairs(j0) \ DOMAIN edges
        BY <2>2, <3>3
      <4> QED BY <1>0, <4>1, <4>2, ZenonT(30) DEF HangOnce
    <3>5. CASE i0 = k
      <4>1. i \in {l, m} /\ j \in {l, m} /\ p # {n, w}
        BY <1>3, <2>2, <3>3, <3>4, <3>5
      <4>2. ~(p \in Pairs(l) /\ p \in Pairs(m))
        BY <1>1, <4>1 DEF CutSides
      <4> QED BY <3>4, <4>1, <4>2
    <3> QED BY <2>2, <3>3, <3>4, <3>5
  <2> QED BY <1>5, <2>1, <2>2
<1> QED BY <1>8, <1>9, <1>10

\* The halves of a border edge have the vertices on one side, and so has every
\* border edge with the new node, as it is between two others.
LEMMA BreakKeepsOuter ==
  ASSUME TilingInv, NEW k \in interiors, NEW e \in Sides, NEW u, NEW v, NEW w,
         u = First(k, e), v = Second(k, e), w = Neutral(k, e),
         NEW n, NEW l, NEW m, EdgeBroken(k, u, v, w, n, l, m)
  PROVE  Outer'
<1>0. Plane /\ Outer /\ MeshTypeOK
  BY DEF TilingInv, Plane
<1>1. u \in vertices /\ v \in vertices /\ IsPoint(u) /\ IsPoint(v)
  BY <1>0, CornersDiffer
<1>2. IsPoint(n)
  BY NewPlace
<1>3. /\ HalfWay(n, u, v) /\ n \notin vertices /\ vertices' = vertices \cup {n}
      /\ DOMAIN edges' = (DOMAIN edges \ {{u, v}}) \cup {{n, u}, {n, v}, {n, w}}
      /\ \A p \in DOMAIN edges' :
           edges'[p] = IF n \in p THEN p \in {{n, u}, {n, v}} /\ edges[{u, v}] ELSE edges[p]
      /\ {u, v} \in DOMAIN edges
  BY ZenonT(30) DEF EdgeBroken
<1>4. \A x \in vertices' : IsPoint(x)
  BY <1>0, <1>2, <1>3 DEF Plane, Points
<1>5. ASSUME NEW a \in vertices, NEW b \in vertices, {a, b} \in DOMAIN edges, edges[{a, b}],
             NEW x \in vertices', NEW y \in vertices'
      PROVE  ~(Turn(a, b, x) > 0 /\ Turn(a, b, y) < 0)
  <2>1. IsPoint(a) /\ IsPoint(b)
    BY <1>0 DEF Plane, Points
  <2>2. /\ 2 * Turn(a, b, n) = Turn(a, b, u) + Turn(a, b, v)
        /\ Turn(a, b, n) \in Int /\ Turn(a, b, u) \in Int /\ Turn(a, b, v) \in Int
    BY <1>1, <1>2, <1>3, <2>1, TurnHalfWay, Turns, SMTT(30)
  <2>3. Turn(a, b, n) > 0 => Turn(a, b, u) > 0 \/ Turn(a, b, v) > 0
    BY <2>2
  <2>4. Turn(a, b, n) < 0 => Turn(a, b, u) < 0 \/ Turn(a, b, v) < 0
    BY <2>2
  <2>5. Turn(a, b, x) > 0 => \E z \in vertices : Turn(a, b, z) > 0
    BY <1>1, <1>3, <2>3
  <2>6. Turn(a, b, y) < 0 => \E z \in vertices : Turn(a, b, z) < 0
    BY <1>1, <1>3, <2>4
  <2> QED BY <1>0, <1>5, <2>5, <2>6 DEF Outer
<1>6. ASSUME NEW a \in vertices', NEW b \in vertices', {a, b} \in DOMAIN edges', edges'[{a, b}],
             NEW x \in vertices', NEW y \in vertices'
      PROVE  ~(Turn(a, b, x) > 0 /\ Turn(a, b, y) < 0)
  <2>1. CASE n \notin {a, b}
    <3>1. a \in vertices /\ b \in vertices /\ {a, b} \in DOMAIN edges /\ edges[{a, b}]
      BY <1>3, <1>6, <2>1, ZenonT(30)
    <3> QED BY <1>5, <3>1
  <2>2. CASE n \in {a, b}
    <3>1. edges[{u, v}] /\ ({a, b} = {n, u} \/ {a, b} = {n, v})
      BY <1>3, <1>6, <2>2, ZenonT(30)
    <3>2. ~(Turn(u, v, x) > 0 /\ Turn(u, v, y) < 0) /\ ~(Turn(u, v, y) > 0 /\ Turn(u, v, x) < 0)
      BY <1>1, <1>3, <1>5, <3>1
    <3>3. ASSUME NEW z \in vertices'
          PROVE  /\ Turn(u, v, z) \in Int /\ Turn(u, n, z) \in Int /\ Turn(n, v, z) \in Int
                 /\ 2 * Turn(u, n, z) = Turn(u, v, z) /\ 2 * Turn(n, v, z) = Turn(u, v, z)
                 /\ Turn(n, u, z) = -Turn(u, n, z) /\ Turn(v, n, z) = -Turn(n, v, z)
      <4>1. IsPoint(z)
        BY <1>4
      <4>2. 2 * Turn(u, n, z) = Turn(u, v, z) /\ 2 * Turn(n, v, z) = Turn(u, v, z)
        BY <1>1, <1>2, <1>3, <4>1, TurnOfHalves, SMTT(30)
      <4>3. Turn(u, v, z) \in Int
        BY <1>1, <4>1, Turns
      <4>4. Turn(u, n, z) \in Int /\ Turn(n, u, z) = -Turn(u, n, z)
        BY <1>1, <1>2, <4>1, Turns
      <4>5. Turn(n, v, z) \in Int /\ Turn(v, n, z) = -Turn(n, v, z)
        BY <1>1, <1>2, <4>1, Turns
      <4> QED BY <4>2, <4>3, <4>4, <4>5
    <3>4. (a = n /\ b = u) \/ (a = u /\ b = n) \/ (a = n /\ b = v) \/ (a = v /\ b = n)
      BY <3>1
    <3>5. CASE a = u /\ b = n
      BY <3>2, <3>3, <3>5
    <3>6. CASE a = n /\ b = u
      BY <3>2, <3>3, <3>6
    <3>7. CASE a = n /\ b = v
      BY <3>2, <3>3, <3>7
    <3>8. CASE a = v /\ b = n
      BY <3>2, <3>3, <3>8
    <3> QED BY <3>4, <3>5, <3>6, <3>7, <3>8
  <2> QED BY <2>1, <2>2
<1> QED BY <1>6 DEF Outer, Turn

\* The halves of the broken edge are along the second triangle, which has the new
\* node on a broken side now, and along a half of k.
LEMMA BreakKeepsSides ==
  ASSUME TilingInv, MeshTypeOK', NEW k \in interiors, NEW e \in Sides, NEW u, NEW v, NEW w,
         u = First(k, e), v = Second(k, e), w = Neutral(k, e),
         NEW n, NEW l, NEW m, EdgeBroken(k, u, v, w, n, l, m)
  PROVE  Beside'
<1>0. Plane /\ MeshTypeOK /\ Beside
  BY DEF TilingInv, Plane
<1>1. /\ Mid(n, {u, v})'
      /\ Pairs(l) = {{n, w}, {w, u}, {u, n}} /\ Pairs(m) = {{n, w}, {w, v}, {v, n}}
      /\ l # m /\ l \notin interiors /\ m \notin interiors
      /\ SidesPassOn(k, l, m, u, v)
  <2>1. AroundBreak(k, u, v, w, n, l, m)
    BY BreakFacts, ZenonT(30)
  <2> QED BY <2>1 DEF AroundBreak
<1>2. u \in vertices /\ v \in vertices /\ {u, v} \in Pairs(k)
  BY <1>0, CornersDiffer
<1>3. /\ interiors' = (interiors \ {k}) \cup {l, m} /\ n \notin vertices
      /\ DOMAIN edges' = (DOMAIN edges \ {{u, v}}) \cup {{n, u}, {n, v}, {n, w}}
      /\ \A p \in DOMAIN edges' :
           edges'[p] = IF n \in p THEN p \in {{n, u}, {n, v}} /\ edges[{u, v}] ELSE edges[p]
      /\ {u, v} \in DOMAIN edges /\ {u, v} \cap hanging = {}
  BY ZenonT(30) DEF EdgeBroken
<1>4. {u, v} \notin DOMAIN edges'
  BY <1>2, <1>3
<1>5. ASSUME NEW p \in DOMAIN edges \ {{u, v}}, NEW i \in interiors, Along(i, p)
      PROVE  \E j \in interiors' : Along(j, p)' /\ ((j = i /\ i # k) \/ (i = k /\ j \in {l, m}))
  <2>1. CASE p \in Pairs(i)
    <3>1. PICK j \in interiors' : p \in Pairs(j) /\ ((j = i /\ i # k) \/ (i = k /\ j \in {l, m}))
      BY <1>1, <1>5, <2>1 DEF SidesPassOn
    <3> QED BY <3>1 DEF Along, Pairs, Side, First, Second
  <2>2. ASSUME NEW q \in Pairs(i) \ DOMAIN edges, NEW x, NEW a \in q, Mid(x, q), p = {a, x}
        PROVE  \E j \in interiors' : Along(j, p)' /\ ((j = i /\ i # k) \/ (i = k /\ j \in {l, m}))
    <3>1. q # {u, v}
      BY <1>3, ZenonT(30)
    <3>2. q \notin DOMAIN edges' /\ Mid(x, q)'
      BY <1>1, <2>2, <3>1 DEF SidesPassOn
    <3>3. PICK j \in interiors' : q \in Pairs(j) /\ ((j = i /\ i # k) \/ (i = k /\ j \in {l, m}))
      BY <1>1, <2>2, <3>1 DEF SidesPassOn
    <3> QED BY <2>2, <3>2, <3>3 DEF Along, Pairs, Side, First, Second
  <2> QED BY <1>5, <2>1, <2>2 DEF Along
<1>6. ASSUME NEW p, p = {n, u} \/ p = {n, v}
      PROVE  \E i, j \in interiors' : Along(i, p)' /\ Along(j, p)' /\ (i # j \/ edges'[p])
  <2>1. {u, n} = {n, u} /\ {v, n} = {n, v}
    OBVIOUS
  <2>2. p \in Pairs(l) \/ p \in Pairs(m)
    BY <1>1, <1>6, <2>1
  <2>3. PICK i \in {l, m} : Along(i, p)'
    BY <2>2 DEF Along, Pairs, Side, First, Second
  <2>4. CASE edges[{u, v}]
    <3>1. edges'[p]
      BY <1>3, <1>6, <2>4, ZenonT(30)
    <3> QED BY <1>3, <2>3, <3>1
  <2>5. CASE ~edges[{u, v}]
    <3>1. PICK j \in interiors \ {k} : {u, v} \in Pairs(j)
      BY <1>2, <1>3, <2>5, SecondBeside
    <3>2. Along(j, p)'
      <4>1. PICK a \in {u, v} : p = {a, n}
        BY <1>6, <2>1
      <4> QED BY <1>1, <1>4, <3>1, <4>1, ZenonT(30) DEF Along, Pairs, Side, First, Second
    <3>3. i \in interiors' /\ j \in interiors' /\ i # j
      BY <1>1, <1>3, <3>1, SMTT(30)
    <3> QED BY <2>3, <3>2, <3>3, ZenonT(30)
  <2> QED BY <2>4, <2>5
<1>7. Beside'
  <2> SUFFICES ASSUME NEW p \in DOMAIN edges'
               PROVE  \E i, j \in interiors' : Along(i, p)' /\ Along(j, p)' /\ (i # j \/ edges'[p])
    BY DEF Beside
  <2>1. CASE p = {n, w}
    <3>1. Along(l, p)' /\ Along(m, p)'
      BY <1>1, <2>1, ZenonT(30) DEF Along, Pairs, Side, First, Second
    <3> QED BY <1>1, <1>3, <3>1
  <2>2. CASE p = {n, u} \/ p = {n, v}
    BY <1>6, <2>2, ZenonT(30) DEF Along
  <2>3. CASE p \in DOMAIN edges \ {{u, v}}
    <3>1. edges'[p] = edges[p]
      <4>1. n \notin p
        BY <1>0, <1>3, <2>3 DEF MeshTypeOK
      <4> QED BY <1>3, <4>1
    <3>2. PICK i \in interiors, j \in interiors : Along(i, p) /\ Along(j, p) /\ (i # j \/ edges[p])
      BY <1>0, <2>3 DEF Beside
    <3>3. PICK i1 \in interiors' : Along(i1, p)' /\ ((i1 = i /\ i # k) \/ (i = k /\ i1 \in {l, m}))
      BY <1>5, <2>3, <3>2
    <3>4. PICK j1 \in interiors' : Along(j1, p)' /\ ((j1 = j /\ j # k) \/ (j = k /\ j1 \in {l, m}))
      BY <1>5, <2>3, <3>2
    <3>5. i # j => i1 # j1
      BY <1>1, <3>3, <3>4
    <3> QED BY <3>1, <3>2, <3>3, <3>4, <3>5
  <2> QED BY <1>3, <2>1, <2>2, <2>3
<1> QED BY <1>7

-----------------------------------------------------------------------------
\* The invariant depends on nothing but the mesh, and not on the toRefine flags
\* as long as they are on interiors.
LEMMA TilingFrame ==
  ASSUME TilingInv,
         vertices' = vertices, edges' = edges, interiors' = interiors,
         hanging' = hanging, toRefine' \subseteq interiors'
  PROVE  TilingInv'
<1>1. FirmInv'
  BY FirmFrame DEF TilingInv
<1>2. Plane'
  BY <1>1, SMTT(30) DEF TilingInv, FirmInv, Plane, Points, Placed, Proper, Disjoint, AllUsed, IsPoint,
              SamePlace, Separates, Turn, Corners
<1>3. Outer'
  BY DEF TilingInv, Outer, Turn
<1>4. ASSUME NEW x, NEW p PROVE Mid(x, p)' <=> Mid(x, p)
  BY DEF Mid, InMiddle, HalfWay
<1>5. ASSUME NEW i, NEW p PROVE Along(i, p)' <=> Along(i, p)
  BY <1>4 DEF Along, Pairs, Side, First, Second
<1>6. Beside'
  BY <1>5 DEF TilingInv, Beside
<1>7. NodesHang' /\ HangingAreNodes' /\ HangOnce'
  BY <1>4 DEF TilingInv, NodesHang, HangingAreNodes, HangOnce, Pairs, Side, First, Second
<1> QED BY <1>1, <1>2, <1>3, <1>6, <1>7 DEF TilingInv

\* Whichever production rewrites whichever triangle, the tiling is kept.
LEMMA ProductionsTile ==
  ASSUME TilingInv, NEW k \in interiors, Productions(k)
  PROVE  TilingInv'
<1>0. FirmInv /\ Plane
  BY DEF TilingInv
<1>1. FirmInv'
  BY <1>0, ProductionsAreFirm
<1>2. MeshTypeOK'
  BY <1>1 DEF FirmInv
<1>3. ASSUME NEW e \in BrokenEdges(k), BreakElementWithHangingNode(k, e) PROVE TilingInv'
  <2>1. PICK u, v, w : u = First(k, e) /\ v = Second(k, e) /\ w = Neutral(k, e)
    OBVIOUS
  <2>2. PICK h, l, m : SpokeAdded(k, u, v, w, h, l, m)
    BY <1>3, <2>1, SpokeIsAdded
  <2>3. e \in Sides
    BY DEF BrokenEdges
  <2>4. AroundSpoke(k, u, v, w, h, l, m)
    BY <1>0, <1>2, <2>1, <2>2, <2>3, SpokeFacts, ZenonT(30)
  <2>5. NodesHang' /\ HangingAreNodes' /\ HangOnce'
    BY <1>2, <2>1, <2>2, <2>3, SpokeKeepsNodes, ZenonT(30)
  <2>6. Outer' /\ Beside'
    BY <1>2, <2>1, <2>2, <2>3, SpokeKeepsSides, ZenonT(30)
  <2> QED BY <1>1, <2>4, <2>5, <2>6 DEF TilingInv, AroundSpoke
<1>4. ASSUME NEW e \in Sides \ BrokenEdges(k), NoHangingEnd(k, e),
             BreakElementWithoutHangingNode(k, e)
      PROVE  TilingInv'
  <2>1. PICK u, v, w : u = First(k, e) /\ v = Second(k, e) /\ w = Neutral(k, e)
    OBVIOUS
  <2>2. PICK n, l, m : EdgeBroken(k, u, v, w, n, l, m)
    BY <1>4, <2>1, EdgeIsBroken
  <2>3. e \in Sides
    OBVIOUS
  <2>4. AroundBreak(k, u, v, w, n, l, m)
    BY <1>2, <2>1, <2>2, <2>3, BreakFacts, ZenonT(30)
  <2>5. NodesHang' /\ HangingAreNodes' /\ HangOnce'
    BY <1>2, <2>1, <2>2, <2>3, BreakKeepsNodes, ZenonT(30)
  <2>6. Outer'
    BY <2>1, <2>2, <2>3, BreakKeepsOuter, ZenonT(30)
  <2>7. Beside'
    BY <1>2, <2>1, <2>2, <2>3, BreakKeepsSides, ZenonT(30)
  <2> QED BY <1>1, <2>4, <2>5, <2>6, <2>7 DEF TilingInv, AroundBreak
<1> QED BY <1>0, <1>3, <1>4, ProductionsBreak

-----------------------------------------------------------------------------
\* The terrain's rectangle, cut by its diagonal.
LEMMA TurnOfCorners ==
  ASSUME NEW a, NEW b, NEW c, IsPoint(a), IsPoint(b), IsPoint(c), Turn(a, b, c) # 0
  PROVE  ~SamePlace(a, b) /\ ~SamePlace(b, c) /\ ~SamePlace(a, c)
<1>1. PICK a1 \in Int, a2 \in Int : a[1] = a1 /\ a[2] = a2
  BY DEF IsPoint
<1>2. PICK b1 \in Int, b2 \in Int : b[1] = b1 /\ b[2] = b2
  BY DEF IsPoint
<1>3. PICK c1 \in Int, c2 \in Int : c[1] = c1 /\ c[2] = c2
  BY DEF IsPoint
<1> QED BY <1>1, <1>2, <1>3 DEF Turn, SamePlace

\* The two triangles the program starts with.
LEMMA InitTiles == MeshInit => TilingInv
<1> SUFFICES ASSUME MeshInit PROVE TilingInv
  BY Zenon
<1>1. FirmInv
  BY InitFirm
<1>2. PICK a, b, c, d :
        /\ vertices = {a, b, c, d}
        /\ edges = [e \in {{a, b}, {b, c}, {d, c}, {a, d}, {c, a}} |-> e # {c, a}]
        /\ interiors = {<<a, b, c>>, <<a, c, d>>}
        /\ hanging = {}
        /\ IsPoint(a) /\ IsPoint(b) /\ IsPoint(c) /\ IsPoint(d)
        /\ a[4] = 0 /\ b[4] = 0 /\ c[4] = 0 /\ d[4] = 0
        /\ Turn(a, b, c) < 0 /\ Turn(b, c, d) < 0 /\ Turn(c, d, a) < 0 /\ Turn(d, a, b) < 0
  <2>1. PICK z \in [0..3 -> UNION {Heights(Corner[n]) : n \in 0..3}] :
          LET c(n) == <<Corner[n][1], Corner[n][2], z[n], 0>> IN
          /\ vertices = {c(n) : n \in 0..3}
          /\ edges = [e \in {{c(0), c(1)}, {c(1), c(3)}, {c(2), c(3)}, {c(0), c(2)},
                             {c(3), c(0)}} |-> e # {c(3), c(0)}]
          /\ interiors = {<<c(0), c(1), c(3)>>, <<c(0), c(3), c(2)>>}
          /\ toRefine = {}
          /\ hanging = {}
    BY ZenonT(30) DEF MeshInit
  <2> DEFINE p(n) == <<Corner[n][1], Corner[n][2], z[n], 0>>
  <2>2. vertices = {p(0), p(1), p(3), p(2)}
    <3>1. vertices = {p(n) : n \in 0..3}
      BY <2>1, Zenon
    <3>2. 0..3 = {0, 1, 2, 3}
      OBVIOUS
    <3> HIDE DEF p
    <3> QED BY <3>1, <3>2
  <2>3. /\ edges = [e \in {{p(0), p(1)}, {p(1), p(3)}, {p(2), p(3)}, {p(0), p(2)},
                             {p(3), p(0)}} |-> e # {p(3), p(0)}]
        /\ interiors = {<<p(0), p(1), p(3)>>, <<p(0), p(3), p(2)>>}
        /\ hanging = {}
    BY <2>1, ZenonT(30)
  <2>4. ASSUME NEW n \in 0..3
        PROVE  IsPoint(p(n)) /\ p(n)[4] = 0 /\ p(n)[1] = Corner[n][1] /\ p(n)[2] = Corner[n][2]
    BY CornerAssumption DEF IsPoint
  <2>5. \A i, j, k \in 0..3 : Turn(p(i), p(j), p(k)) = Turn(Corner[i], Corner[j], Corner[k])
    BY DEF Turn
  <2>6. 0 \in 0..3 /\ 1 \in 0..3 /\ 2 \in 0..3 /\ 3 \in 0..3
    OBVIOUS
  <2> HIDE DEF p
  <2>7. /\ Turn(p(0), p(1), p(3)) < 0 /\ Turn(p(1), p(3), p(2)) < 0
        /\ Turn(p(3), p(2), p(0)) < 0 /\ Turn(p(2), p(0), p(1)) < 0
    BY <2>5, <2>6, CornerAssumption
  <2>8. \A n \in 0..3 : IsPoint(p(n)) /\ p(n)[4] = 0
    BY <2>4
  <2> QED BY <2>2, <2>3, <2>6, <2>7, <2>8, ZenonT(30)
<1>3. /\ Turn(a, b, c) \in Int /\ Turn(b, c, d) \in Int /\ Turn(c, d, a) \in Int
      /\ Turn(d, a, b) \in Int /\ Turn(a, c, b) \in Int /\ Turn(c, a, b) \in Int
      /\ Turn(a, c, d) \in Int /\ Turn(c, a, d) \in Int
  BY <1>2, Turns
<1>4. /\ ~SamePlace(a, b) /\ ~SamePlace(b, c) /\ ~SamePlace(a, c)
      /\ ~SamePlace(b, d) /\ ~SamePlace(c, d) /\ ~SamePlace(d, a)
  BY <1>2, <1>3, TurnOfCorners
<1>5. a # b /\ b # c /\ a # c /\ b # d /\ c # d /\ d # a
  BY <1>4 DEF SamePlace
<1>6. PICK l, m : /\ l = <<a, b, c>> /\ m = <<a, c, d>> /\ l # m /\ interiors = {l, m}
                  /\ Corners(l) = {a, b, c} /\ Corners(m) = {a, c, d}
                  /\ Pairs(l) = {{a, b}, {b, c}, {c, a}} /\ Pairs(m) = {{a, c}, {c, d}, {d, a}}
  <2>1. /\ Corners(<<a, b, c>>) = {a, b, c} /\ Corners(<<a, c, d>>) = {a, c, d}
        /\ Pairs(<<a, b, c>>) = {{a, b}, {b, c}, {c, a}}
        /\ Pairs(<<a, c, d>>) = {{a, c}, {c, d}, {d, a}}
    BY CornersOfTriple, PairsOfTriple
  <2>2. <<a, b, c>> # <<a, c, d>>
    BY <1>5
  <2> QED BY <1>2, <2>1, <2>2, ZenonT(30)
<1>7. Plane
  <2>1. MeshTypeOK
    BY <1>1 DEF FirmInv
  <2>2. Points
    BY <1>2 DEF Points
  <2>3. Placed
    <3>1. ~SamePlace(b, a) /\ ~SamePlace(c, b) /\ ~SamePlace(c, a)
      BY <1>4 DEF SamePlace
    <3>2. ~SamePlace(d, b) /\ ~SamePlace(d, c) /\ ~SamePlace(a, d)
      BY <1>4 DEF SamePlace
    <3> QED BY <1>2, <1>4, <3>1, <3>2 DEF Placed
  <2>4. /\ Turn(a, c, b) > 0 /\ Turn(a, c, d) < 0 /\ Turn(c, a, b) < 0 /\ Turn(c, a, d) > 0
        /\ Turn(a, c, a) = 0 /\ Turn(a, c, c) = 0 /\ Turn(c, a, a) = 0 /\ Turn(c, a, c) = 0
    <3>1. /\ Turn(c, a, b) = Turn(a, b, c) /\ Turn(a, c, b) = -Turn(c, a, b)
          /\ Turn(a, c, d) = Turn(c, d, a) /\ Turn(c, a, d) = -Turn(a, c, d)
          /\ Turn(a, c, a) = 0 /\ Turn(a, c, c) = 0 /\ Turn(c, a, a) = 0 /\ Turn(c, a, c) = 0
      BY <1>2, Turns, SMTT(30)
    <3> QED BY <1>2, <1>3, <3>1, SMTT(30)
  <2>5. Proper
    <3>1. Turn(l[1], l[2], l[3]) # 0 /\ Turn(m[1], m[2], m[3]) # 0
      BY <1>2, <1>3, <1>6, <2>4, SMTT(30)
    <3> QED BY <1>6, <3>1 DEF Proper
  <2>6. Disjoint
    <3>1. ~SamePlace(a, c) /\ ~SamePlace(c, a)
      BY <1>4 DEF SamePlace
    <3>2. Separates(a, c, l, m) /\ Separates(c, a, m, l)
      BY <1>3, <1>6, <2>4, <3>1, SMTT(30) DEF Separates
    <3> QED BY <1>2, <1>6, <3>2 DEF Disjoint
  <2>7. AllUsed
    BY <1>2, <1>6 DEF AllUsed
  <2> QED BY <2>1, <2>2, <2>3, <2>5, <2>6, <2>7 DEF Plane
<1>8. DOMAIN edges = {{a, b}, {b, c}, {d, c}, {a, d}, {c, a}}
  BY <1>2
<1>9. Pairs(l) \subseteq DOMAIN edges /\ Pairs(m) \subseteq DOMAIN edges
  BY <1>6, <1>8
<1>10. NodesHang /\ HangingAreNodes /\ HangOnce
  BY <1>2, <1>6, <1>9 DEF NodesHang, HangingAreNodes, HangOnce
<1>11. Outer
  <2>1. ASSUME NEW u \in vertices, NEW v \in vertices,
               \A x \in vertices : Turn(u, v, x) <= 0,
               NEW p \in vertices, NEW q \in vertices, {p, q} = {u, v},
               NEW x \in vertices, NEW y \in vertices
        PROVE  ~(Turn(p, q, x) > 0 /\ Turn(p, q, y) < 0)
    <3>1. \A s \in vertices : IsPoint(s)
      BY <1>2
    <3>2. (p = u /\ q = v) \/ (p = v /\ q = u)
      BY <2>1
    <3>3. \A s \in vertices : Turn(u, v, s) \in Int /\ Turn(v, u, s) = -Turn(u, v, s)
      BY <3>1, Turns
    <3> QED BY <2>1, <3>2, <3>3
  <2>2. \A x \in vertices : Turn(a, b, x) <= 0
    <3>1. Turn(a, b, a) = 0 /\ Turn(a, b, b) = 0 /\ Turn(a, b, d) = Turn(d, a, b)
      BY <1>2, Turns
    <3> QED BY <1>2, <1>3, <3>1
  <2>3. \A x \in vertices : Turn(b, c, x) <= 0
    <3>1. Turn(b, c, b) = 0 /\ Turn(b, c, c) = 0 /\ Turn(b, c, a) = Turn(a, b, c)
      BY <1>2, Turns
    <3> QED BY <1>2, <1>3, <3>1
  <2>4. \A x \in vertices : Turn(c, d, x) <= 0
    <3>1. Turn(c, d, c) = 0 /\ Turn(c, d, d) = 0 /\ Turn(c, d, b) = Turn(b, c, d)
      BY <1>2, Turns
    <3> QED BY <1>2, <1>3, <3>1
  <2>5. \A x \in vertices : Turn(d, a, x) <= 0
    <3>1. Turn(d, a, d) = 0 /\ Turn(d, a, a) = 0 /\ Turn(d, a, c) = Turn(c, d, a)
      BY <1>2, Turns
    <3> QED BY <1>2, <1>3, <3>1
  <2>6. {d, c} = {c, d} /\ {a, d} = {d, a}
    OBVIOUS
  <2>7. ASSUME NEW p \in vertices, NEW q \in vertices, {p, q} \in DOMAIN edges, edges[{p, q}]
        PROVE  {p, q} = {a, b} \/ {p, q} = {b, c} \/ {p, q} = {c, d} \/ {p, q} = {d, a}
    BY <1>2, <1>8, <2>6, <2>7, ZenonT(30)
  <2>8. ASSUME NEW p \in vertices, NEW q \in vertices, {p, q} \in DOMAIN edges, edges[{p, q}],
               NEW x \in vertices, NEW y \in vertices
        PROVE  ~(Turn(p, q, x) > 0 /\ Turn(p, q, y) < 0)
    <3>1. a \in vertices /\ b \in vertices /\ c \in vertices /\ d \in vertices
      BY <1>2
    <3>2. CASE {p, q} = {a, b}
      BY <2>1, <2>2, <3>1, <3>2, ZenonT(30)
    <3>3. CASE {p, q} = {b, c}
      BY <2>1, <2>3, <3>1, <3>3, ZenonT(30)
    <3>4. CASE {p, q} = {c, d}
      BY <2>1, <2>4, <3>1, <3>4, ZenonT(30)
    <3>5. CASE {p, q} = {d, a}
      BY <2>1, <2>5, <3>1, <3>5, ZenonT(30)
    <3> QED BY <2>7, <2>8, <3>2, <3>3, <3>4, <3>5
  <2> QED BY <2>8 DEF Outer
<1>12. Beside
  <2> SUFFICES ASSUME NEW p \in DOMAIN edges
               PROVE  \E i, j \in interiors : Along(i, p) /\ Along(j, p) /\ (i # j \/ edges[p])
    BY DEF Beside
  <2>1. CASE p = {c, a}
    <3>1. {a, c} = {c, a}
      OBVIOUS
    <3>2. Along(l, p) /\ Along(m, p)
      BY <1>6, <2>1, <3>1 DEF Along
    <3> QED BY <1>6, <3>2
  <2>2. CASE p # {c, a}
    <3>1. edges[p]
      BY <1>2, <1>8, <2>2, ZenonT(30)
    <3>2. {d, c} = {c, d} /\ {a, d} = {d, a}
      OBVIOUS
    <3>3. p \in Pairs(l) \/ p \in Pairs(m)
      BY <1>6, <1>8, <2>2, <3>2
    <3> QED BY <1>6, <3>1, <3>3 DEF Along
  <2> QED BY <2>1, <2>2
<1> QED BY <1>1, <1>7, <1>10, <1>11, <1>12 DEF TilingInv

-----------------------------------------------------------------------------
\* What the invariant says of the mesh, in the words of MeshProperties.
LEMMA NodesOfSides ==
  ASSUME TilingInv, NEW i \in interiors, NEW e \in BrokenEdges(i)
  PROVE  \E h \in hanging : NodesBetween(First(i, e), Second(i, e)) = {h}
<1>1. Plane /\ e \in Sides
  BY DEF TilingInv, BrokenEdges
<1>2. PICK u, v : u = First(i, e) /\ v = Second(i, e) /\ u \in vertices /\ v \in vertices
  BY <1>1, SidesAre
<1>3. {u, v} \in Pairs(i) \ DOMAIN edges
  BY <1>1, <1>2 DEF Pairs, Side, BrokenEdges
<1>4. PICK h \in hanging : Mid(h, {u, v})
  BY <1>3 DEF TilingInv, NodesHang
<1>5. \A x : x \in NodesBetween(u, v) <=> Mid(x, {u, v})
  BY <1>1, <1>2, MidOf
<1>6. \A x : Mid(x, {u, v}) => x = h
  BY <1>1, <1>2, <1>4, OneMid
<1> QED BY <1>2, <1>4, <1>5, <1>6

\* A broken side has exactly one node.
LEMMA SidesHaveTheirNode == TilingInv => BrokenSidesHaveTheirNode
<1> SUFFICES ASSUME TilingInv, NEW i \in interiors, NEW e \in BrokenEdges(i)
             PROVE  Cardinality(NodesBetween(First(i, e), Second(i, e))) = 1
  BY DEF BrokenSidesHaveTheirNode
<1>1. PICK h : NodesBetween(First(i, e), Second(i, e)) = {h}
  BY NodesOfSides, ZenonT(30)
<1> QED BY <1>1, FS_Singleton

\* No two vertices have one place.
LEMMA OneVertexPerPlace == TilingInv => OneVertexPerLocation
  BY DEF TilingInv, Plane, Points, OneVertexPerLocation

\* The hanging flags are on the nodes of broken sides.
LEMMA FlagsAreExact == TilingInv => HangingFlagsAreExact
<1> SUFFICES ASSUME TilingInv PROVE HangingFlagsAreExact
  OBVIOUS
<1>1. ASSUME NEW h \in hanging PROVE \E i \in interiors : h \in NodesOnSides(i)
  <2>1. PICK i \in interiors : \E p \in Pairs(i) \ DOMAIN edges : Mid(h, p)
    BY DEF TilingInv, HangingAreNodes
  <2>2. PICK e \in Sides : Side(i, e) \notin DOMAIN edges /\ Mid(h, Side(i, e))
    BY <2>1 DEF Pairs
  <2>3. First(i, e) \in vertices /\ Second(i, e) \in vertices
    BY SidesAre DEF TilingInv
  <2>4. h \in NodesBetween(First(i, e), Second(i, e))
    BY <2>2, <2>3, MidOf DEF TilingInv, Side
  <2>5. e \in BrokenEdges(i)
    BY <2>2 DEF BrokenEdges
  <2> QED BY <2>4, <2>5 DEF NodesOnSides
<1>2. ASSUME NEW i \in interiors, NEW h \in NodesOnSides(i) PROVE h \in hanging
  <2>1. PICK e \in BrokenEdges(i) : h \in NodesBetween(First(i, e), Second(i, e))
    BY <1>2 DEF NodesOnSides
  <2> QED BY <2>1, NodesOfSides
<1> QED BY <1>1, <1>2 DEF HangingFlagsAreExact

\* Along is membership of EdgesAlong.
LEMMA AlongIs ==
  ASSUME TilingInv, NEW i \in interiors, NEW p \in DOMAIN edges
  PROVE  p \in EdgesAlong(i) <=> Along(i, p)
<1>0. Plane
  BY DEF TilingInv
<1>1. ASSUME p \in EdgesAlong(i) PROVE Along(i, p)
  <2>1. CASE p \in {Side(i, e) : e \in Sides \ BrokenEdges(i)}
    BY <2>1 DEF Along, Pairs
  <2>2. ASSUME NEW e \in BrokenEdges(i), NEW u \in Side(i, e),
               NEW h \in NodesBetween(First(i, e), Second(i, e)), p = {u, h}
        PROVE  Along(i, p)
    <3>1. e \in Sides /\ Side(i, e) \in Pairs(i) \ DOMAIN edges
      BY DEF BrokenEdges, Pairs
    <3>2. First(i, e) \in vertices /\ Second(i, e) \in vertices
      BY <1>0, <3>1, SidesAre
    <3>3. Mid(h, Side(i, e))
      BY <1>0, <3>2, MidOf DEF Side
    <3> QED BY <2>2, <3>1, <3>3 DEF Along
  <2> QED BY <1>1, <2>1, <2>2, SMTT(30) DEF EdgesAlong
<1>2. ASSUME Along(i, p) PROVE p \in EdgesAlong(i)
  <2>1. CASE p \in Pairs(i)
    BY <2>1 DEF Pairs, EdgesAlong, BrokenEdges
  <2>2. ASSUME NEW q \in Pairs(i) \ DOMAIN edges, NEW h, NEW a \in q, Mid(h, q), p = {a, h}
        PROVE  p \in EdgesAlong(i)
    <3>1. PICK e \in Sides : q = Side(i, e)
      BY DEF Pairs
    <3>2. e \in BrokenEdges(i)
      BY <3>1 DEF BrokenEdges
    <3>3. First(i, e) \in vertices /\ Second(i, e) \in vertices
      BY <1>0, SidesAre
    <3>4. h \in NodesBetween(First(i, e), Second(i, e))
      BY <1>0, <2>2, <3>1, <3>3, MidOf DEF Side
    <3> QED BY <2>2, <3>1, <3>2, <3>4 DEF EdgesAlong
  <2> QED BY <1>2, <2>1, <2>2 DEF Along
<1> QED BY <1>1, <1>2

\* The ends of an edge along a triangle are on it and apart.
LEMMA AlongIsOn ==
  ASSUME Plane, NEW i \in interiors, NEW p, Along(i, p)
  PROVE  /\ \A x \in p : On(x, i)
         /\ \E u, v \in vertices : p = {u, v} /\ ~SamePlace(u, v)
<1>1. CASE p \in Pairs(i)
  <2>1. PICK e \in Sides : p = {First(i, e), Second(i, e)}
    BY <1>1 DEF Pairs, Side
  <2>2. \A x \in p : On(x, i)
    BY <1>1, MiddleIsOn
  <2> QED BY <2>1, <2>2, SidesAre
<1>2. ASSUME NEW q \in Pairs(i) \ DOMAIN edges, NEW h, NEW a \in q, Mid(h, q), p = {a, h}
      PROVE  /\ \A x \in p : On(x, i)
             /\ \E u, v \in vertices : p = {u, v} /\ ~SamePlace(u, v)
  <2>1. PICK e \in Sides : q = {First(i, e), Second(i, e)}
    BY DEF Pairs, Side
  <2>2. PICK u, v, w : u = First(i, e) /\ v = Second(i, e) /\ w = Neutral(i, e)
    OBVIOUS
  <2>3. /\ u \in vertices /\ v \in vertices /\ ~SamePlace(u, v) /\ ~SamePlace(v, w)
        /\ ~SamePlace(u, w) /\ IsPoint(u) /\ IsPoint(v) /\ IsPoint(w) /\ Turn(u, v, w) # 0
    BY <2>2, CornersDiffer, SMTT(30)
  <2>4. h \in vertices /\ HalfWay(h, u, v)
    BY <1>2, <2>1, <2>2, <2>3, MidOf, ZenonT(30) DEF NodesBetween
  <2>5. IsPoint(h)
    BY <2>4 DEF Plane, Points
  <2>6. h # u /\ h # v
    BY <2>3, <2>4, <2>5, MiddleDiffers
  <2>7. a = u \/ a = v
    BY <2>1, <2>2
  <2>8. a \in vertices /\ ~SamePlace(a, h)
    BY <2>3, <2>4, <2>6, <2>7 DEF Plane, Placed
  <2>9. On(a, i) /\ On(h, i)
    BY <1>2, MiddleIsOn DEF Mid
  <2> QED BY <1>2, <2>4, <2>8, <2>9
<1> QED BY <1>1, <1>2 DEF Along

\* One triangle is along a border edge and two are along any other: Beside finds
\* them, and there is no room for more.
LEMMA EdgesHaveTheirTriangles == TilingInv => TrianglesTile
<1> SUFFICES ASSUME TilingInv, NEW p \in DOMAIN edges
             PROVE  Cardinality({i \in interiors : p \in EdgesAlong(i)}) =
                      IF edges[p] THEN 1 ELSE 2
  BY ZenonT(30) DEF TrianglesTile
<1>1. Plane /\ Outer
  BY DEF TilingInv
<1>2. PICK i \in interiors, j \in interiors : Along(i, p) /\ Along(j, p) /\ (i # j \/ edges[p])
  BY DEF TilingInv, Beside
<1>3. PICK u \in vertices, v \in vertices : p = {u, v} /\ ~SamePlace(u, v)
  BY <1>1, <1>2, AlongIsOn
<1>4. IsPoint(u) /\ IsPoint(v)
  BY <1>1 DEF Plane, Points
<1>5. ASSUME NEW k \in interiors, Along(k, p) PROVE On(u, k) /\ On(v, k)
  BY <1>1, <1>3, <1>5, AlongIsOn
<1>6. CASE edges[p]
  <2>1. \A k \in interiors : Along(k, p) => k = i
    BY <1>1, <1>2, <1>3, <1>5, <1>6, OnePerBorder, ZenonT(30)
  <2>2. {k \in interiors : p \in EdgesAlong(k)} = {i}
    BY <1>2, <2>1, AlongIs
  <2> QED BY <1>6, <2>2, FS_Singleton
<1>7. CASE ~edges[p]
  <2>1. \A k \in interiors : Along(k, p) => k = i \/ k = j
    BY <1>1, <1>2, <1>3, <1>4, <1>5, <1>7, TwoPerLine
  <2>2. {k \in interiors : p \in EdgesAlong(k)} = {i} \cup {j} /\ j \notin {i}
    BY <1>2, <1>7, <2>1, AlongIs
  <2>3. IsFiniteSet({i}) /\ Cardinality({i}) = 1
    BY FS_Singleton
  <2>4. Cardinality({i} \cup {j}) = 2
    BY <2>2, <2>3, FS_AddElement
  <2> QED BY <1>7, <2>2, <2>4
<1> QED BY <1>6, <1>7
=============================================================================
