----------------------------- MODULE MeshProofs -----------------------------
(***************************************************************************)
(* The productions break only edges whose ends do not hang, and the        *)
(* triangles tile the terrain, for every terrain, every size of mesh,      *)
(* every order of the iterations and every pattern of conflicts.           *)
(***************************************************************************)
EXTENDS MeshRefinement, TilingProofs

\* TypeOK is inductive with the mesh's invariant.
Inv == TypeOK /\ FirmInv

LEMMA StepFirm ==
  ASSUME Inv, [Next]_vars
  PROVE  /\ Inv'
         /\ \A p \in DOMAIN edges \ DOMAIN edges' : p \cap hanging = {}
<1> USE DEF Inv
<1>0. Steps \in Nat /\ step \in 0..Steps /\ fresh \subseteq interiors
  BY StepsAssumption DEF TypeOK
<1>1. CASE CheckConditions
  <2>1. /\ vertices' = vertices /\ edges' = edges /\ interiors' = interiors
        /\ hanging' = hanging /\ toRefine' \subseteq interiors'
    BY <1>0, <1>1 DEF CheckConditions, FirmInv, MeshTypeOK
  <2>2. FirmInv'
    BY <2>1, FirmFrame
  <2> QED
    BY <1>0, <1>1, <2>1, <2>2 DEF CheckConditions, TypeOK, FirmInv
<1>2. CASE Iterate
  <2>1. PICK i \in worklist : Commit(i) \/ AbortAfterWrite(i) \/ Pass(i)
    BY <1>2 DEF Iterate
  <2>2. CASE Commit(i) \/ AbortAfterWrite(i)
    <3>1. i \in interiors /\ Productions(i)
      BY <2>2 DEF Commit, AbortAfterWrite
    <3>2. /\ FirmInv'
          /\ \A p \in DOMAIN edges \ DOMAIN edges' : p \cap hanging = {}
      BY <3>1, ProductionsAreFirm, SMTT(30)
    <3>3. interiors \ {i} \subseteq interiors'
      BY <3>1 DEF Productions, Production1, Production2, Production3, Production4,
                  Production5, Production6, BreakElementWithHangingNode,
                  BreakElementWithoutHangingNode, ReplaceInterior
    <3>4. /\ fresh' = (fresh \ {i}) \cup Created
          /\ UNCHANGED <<step, phase>>
      BY <2>2 DEF Commit, AbortAfterWrite
    <3>5. TypeOK'
      BY <1>0, <3>2, <3>3, <3>4 DEF TypeOK, FirmInv, Created
    <3> QED
      BY <3>2, <3>5
  <2>3. CASE Pass(i)
    <3>1. UNCHANGED <<vertices, edges, interiors, toRefine, hanging, step, phase, fresh>>
      BY <2>3 DEF Pass, meshVars
    <3>2. FirmInv'
      BY <3>1, FirmFrame DEF FirmInv, MeshTypeOK
    <3> QED
      BY <3>1, <3>2 DEF TypeOK, FirmInv
  <2> QED
    BY <2>1, <2>2, <2>3
<1>3. CASE EndStep
  <2>1. UNCHANGED <<vertices, edges, interiors, toRefine, hanging, fresh>>
    BY <1>3 DEF EndStep, meshVars
  <2>2. FirmInv'
    BY <2>1, FirmFrame DEF FirmInv, MeshTypeOK
  <2>3. TypeOK'
    <3>1. step' = step + 1 /\ phase' = IF step' < Steps THEN "check" ELSE "done"
      BY <1>3 DEF EndStep
    <3>2. step \in 0..Steps /\ step # Steps
      BY <1>0, <1>3 DEF EndStep, TypeOK
    <3> QED
      BY <1>0, <2>1, <2>2, <3>1, <3>2 DEF TypeOK, FirmInv
  <2> QED
    BY <2>1, <2>2, <2>3 DEF FirmInv
<1>4. CASE Done \/ UNCHANGED vars
  <2>1. UNCHANGED <<vertices, edges, interiors, toRefine, hanging, step, phase, fresh>>
    BY <1>4 DEF Done, vars, meshVars
  <2>2. FirmInv'
    BY <2>1, FirmFrame DEF FirmInv, MeshTypeOK
  <2> QED
    BY <2>1, <2>2 DEF TypeOK, FirmInv
<1> QED
  BY <1>1, <1>2, <1>3, <1>4 DEF Next

\* The invariant holds in every state of every behaviour.
LEMMA Invariance == Spec => []Inv
<1>1. Init => Inv
  <2> SUFFICES ASSUME Init PROVE TypeOK
    BY InitFirm DEF Init, Inv
  <2>1. FirmInv
    BY InitFirm DEF Init
  <2> QED
    BY <2>1, StepsAssumption DEF Init, TypeOK, FirmInv
<1>2. Inv /\ [Next]_vars => Inv'
  BY StepFirm
<1> QED
  BY <1>1, <1>2, PTL DEF Spec

-----------------------------------------------------------------------------
\* Flags, worklist and edges refer to nodes that exist, for every terrain.
THEOREM TypeCorrect == Spec => []TypeOK
<1>1. Inv => TypeOK
  BY DEF Inv
<1> QED
  BY <1>1, Invariance, PTL

\* Border edges never end in a hanging node.
THEOREM BordersStayFirm == Spec => []BorderIsFirm
<1>1. Inv => BorderIsFirm
  BY DEF Inv, FirmInv
<1> QED
  BY <1>1, Invariance, PTL

\* The ends of a broken side never hang, so production 5 needs no test.
THEOREM BrokenSidesStayFirm == Spec => []BrokenSidesAreFirm
<1>1. Inv => BrokenSidesAreFirm
  BY DEF Inv, FirmInv
<1> QED
  BY <1>1, Invariance, PTL

\* No production ever breaks an edge one of whose ends hangs.
THEOREM OnlyFirmEdgesAreBroken == Spec => OnlyFirmEdgesBreak
<1>1. Inv /\ [Next]_vars =>
        [\A p \in DOMAIN edges \ DOMAIN edges' : p \cap hanging = {}]_meshVars
  BY StepFirm
<1> QED
  BY <1>1, Invariance, PTL DEF Spec, OnlyFirmEdgesBreak

-----------------------------------------------------------------------------
\* The triangles tile the terrain in every state of every behaviour: a step is a
\* production or leaves the mesh alone but for the toRefine flags.
LEMMA AlwaysTiling == Spec => []TilingInv
<1>1. Init => TilingInv
  BY InitTiles DEF Init
<1>2. Inv /\ TilingInv /\ [Next]_vars => TilingInv'
  <2> SUFFICES ASSUME Inv, TilingInv, [Next]_vars PROVE TilingInv'
    OBVIOUS
  <2>1. toRefine' \subseteq interiors'
    BY StepFirm DEF Inv, FirmInv, MeshTypeOK
  <2>2. ASSUME NEW i \in interiors, Productions(i) PROVE TilingInv'
    BY <2>2, ProductionsTile
  <2>3. CASE UNCHANGED <<vertices, edges, interiors, hanging>>
    BY <2>1, <2>3, TilingFrame
  <2>4. \/ \E i \in interiors : Productions(i)
        \/ UNCHANGED <<vertices, edges, interiors, hanging>>
    BY DEF Next, CheckConditions, Iterate, Commit, AbortAfterWrite, Pass, EndStep, Done,
           vars, meshVars
  <2> QED BY <2>2, <2>3, <2>4
<1> QED
  BY <1>1, <1>2, Invariance, PTL DEF Spec

\* Every broken side has exactly one node half way that is joined to both its
\* ends, so findNodeBetween never fails and never finds another, however long
\* triangles on the far side wait for their turn.
THEOREM BrokenSidesKeepTheirNode == Spec => []BrokenSidesHaveTheirNode
BY AlwaysTiling, SidesHaveTheirNode, PTL

\* createNodeOnEdge never creates a node where there is one: no edge is broken a
\* second time.
THEOREM OneVertexForEver == Spec => []OneVertexPerLocation
BY AlwaysTiling, OneVertexPerPlace, PTL

\* The hanging flag is set on the nodes that lie on a broken side and on no
\* others, whichever iterations set and clear it.
THEOREM HangingFlagsStayExact == Spec => []HangingFlagsAreExact
BY AlwaysTiling, FlagsAreExact, PTL

\* Every border edge has one triangle beside it and every other edge two: the
\* mesh has no hole and no overlap.
THEOREM TrianglesAlwaysTile == Spec => []TrianglesTile
BY AlwaysTiling, EdgesHaveTheirTriangles, PTL
=============================================================================
