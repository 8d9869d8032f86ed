---------------------------- MODULE UtilityProofs ----------------------------
(***************************************************************************)
(* The parts the mesh is built on.  Conversions succeed for every number   *)
(* of threads and of heights, and for all lengths that ConvAssumption      *)
(* allows; what indexesOfMaxElems returns, for every list of lengths and   *)
(* every tolerance; the counting barrier is a barrier for any number of    *)
(* threads and waits; and the refinement criterion marks the right         *)
(* triangles, for every terrain, tolerance and distance of the grid.       *)
(***************************************************************************)
EXTENDS Conversion, LongestEdges, TerrainCondition, CountingBarrier, FiniteSets, FiniteSetTheorems, TLAPS

Places ==
  {"idle", "poleNorthing", "poleEasting", "equatorEasting", "readNorthing",
   "incNorthing", "readEasting", "incEasting", "checkEasting", "checkNorthing"}

ConvTypes ==
  /\ hemisphere \in {"N", "S"}
  /\ deltaE \in Int
  /\ deltaN \in Int
  /\ old \in [Threads -> Int]
  /\ at \in [Threads -> Places]
  /\ point \in [Threads -> Int \X Int]

\* The points that are being converted.
PointsValid == \A t \in Threads : at[t] # "idle" => point[t] \in Points

ConvInv == ConvTypes /\ PointsValid /\ RangeIsWide /\ ConversionsSucceed

LEMMA Numbers ==
  ASSUME ConvAssumption, hemisphere \in {"N", "S"}
  PROVE  /\ FalseNorthing \in Nat
         /\ PoleEasting \in Nat
         /\ EquatorEasting \in Nat
         /\ PoleNorthing \in Nat
         /\ PoleEasting <= EquatorEasting
         /\ Points \subseteq Int \X Int
BY DEF ConvAssumption, FalseNorthing, PoleEasting, EquatorEasting, PoleNorthing, Points

\* The range test accepts the points of the map's frame while the range is at
\* least that of the pole.
LEMMA WideIsEnough ==
  ASSUME ConvAssumption, hemisphere \in {"N", "S"}, RangeIsWide, deltaE \in Int, deltaN \in Int,
         NEW p \in Points
  PROVE  InRange(p[1], FalseEasting, deltaE) /\ InRange(p[2], FalseNorthing, deltaN)
<1>1. deltaE >= FalseEasting + PoleX /\ deltaN >= FalseNorthing + PoleY
  BY DEF RangeIsWide, PoleEasting, PoleNorthing
<1>2. p[1] \in {MinEasting, MaxEasting}
  BY DEF Points
<1>3. InRange(p[1], FalseEasting, deltaE)
  BY <1>1, <1>2 DEF ConvAssumption, InRange
<1>4. CASE hemisphere = "S"
  <2>1. p[2] \in {SouthEnd, SouthNorthing} /\ FalseNorthing = SouthNorthing
    BY <1>4 DEF Points, FalseNorthing
  <2> QED
    BY <1>1, <1>3, <2>1 DEF ConvAssumption, InRange
<1>5. CASE hemisphere = "N"
  <2>1. p[2] \in {0, NorthEnd} /\ FalseNorthing = 0
    BY <1>5 DEF Points, FalseNorthing
  <2> QED
    BY <1>1, <1>3, <2>1 DEF ConvAssumption, InRange
<1> QED
  BY <1>4, <1>5

LEMMA ConvInitially ==
  ASSUME ConvAssumption
  PROVE  ConvInit => ConvInv
<1> SUFFICES ASSUME ConvInit PROVE ConvInv
  OBVIOUS
<1>1. hemisphere \in {"N", "S"}
  BY DEF ConvInit
<1>2. RangeIsWide
  BY <1>1, Numbers DEF ConvInit, RangeIsWide
<1>3. ConvTypes
  <2>1. <<0, 0>> \in Int \X Int
    OBVIOUS
  <2>2. deltaE \in Int /\ deltaN \in Int
    BY <1>1, Numbers DEF ConvInit
  <2> QED
    BY <1>1, <2>1, <2>2 DEF ConvInit, ConvTypes, Places
<1>4. PointsValid /\ ConversionsSucceed
  BY DEF ConvInit, PointsValid, ConversionsSucceed
<1> QED
  BY <1>2, <1>3, <1>4 DEF ConvInv

LEMMA ConvStep ==
  ASSUME ConvAssumption
  PROVE  ConvInv /\ [ConvNext]_convVars => ConvInv'
<1> SUFFICES ASSUME ConvInv, [ConvNext]_convVars PROVE ConvInv'
  OBVIOUS
<1>0. ConvTypes /\ hemisphere \in {"N", "S"}
  BY DEF ConvInv, ConvTypes
<1>1. CASE UNCHANGED convVars
  BY <1>1 DEF ConvInv, ConvTypes, PointsValid, convVars, RangeIsWide, ConversionsSucceed,
              Points, PoleEasting, PoleNorthing, FalseNorthing
<1>2. ASSUME NEW t \in Threads,
             \/ GetHeight(t) \/ SetDelta(t) \/ ReadDelta(t) \/ IncDelta(t)
             \/ CheckEasting(t) \/ CheckNorthing(t)
      PROVE  ConvInv'
  <2>0. /\ hemisphere' = hemisphere
        /\ Points' = Points
        /\ PoleEasting' = PoleEasting
        /\ PoleNorthing' = PoleNorthing
    BY <1>2 DEF GetHeight, SetDelta, ReadDelta, IncDelta, CheckEasting, CheckNorthing,
                Points, PoleEasting, PoleNorthing, FalseNorthing
  <2>1. CASE GetHeight(t)
    <3>1. PICK p \in Points : point' = [point EXCEPT ![t] = p]
      BY <2>1 DEF GetHeight
    <3>2. ConvTypes'
      BY <1>0, <2>0, <2>1, <3>1, Numbers DEF GetHeight, Go, ConvTypes, Places
    <3>3. PointsValid'
      BY <1>0, <2>0, <2>1, <3>1 DEF GetHeight, Go, ConvTypes, ConvInv, PointsValid
    <3>4. RangeIsWide'
      BY <1>0, <2>0, <2>1 DEF GetHeight, Go, ConvTypes, ConvInv, RangeIsWide
    <3> QED
      BY <2>1, <3>2, <3>3, <3>4 DEF GetHeight, ConvInv, ConversionsSucceed
  <2>2. CASE SetDelta(t)
    <3>1. ConvTypes'
      BY <1>0, <2>0, <2>2, Numbers DEF SetDelta, Go, ConvTypes, Places
    <3>2. PointsValid'
      BY <1>0, <2>0, <2>2 DEF SetDelta, Go, ConvTypes, ConvInv, PointsValid
    <3>3. deltaE' >= PoleEasting /\ deltaN' >= PoleNorthing
      BY <1>0, <2>2, Numbers DEF SetDelta, ConvTypes, ConvInv, RangeIsWide
    <3>4. RangeIsWide'
      BY <1>0, <2>0, <2>2, <3>3 DEF SetDelta, Go, ConvTypes, ConvInv, RangeIsWide
    <3> QED
      BY <2>2, <3>1, <3>2, <3>4 DEF SetDelta, ConvInv, ConversionsSucceed
  <2>3. CASE ReadDelta(t)
    <3>1. ConvTypes'
      BY <1>0, <2>0, <2>3 DEF ReadDelta, Go, ConvTypes, Places
    <3>2. PointsValid'
      BY <1>0, <2>0, <2>3 DEF ReadDelta, Go, ConvTypes, ConvInv, PointsValid
    <3>3. RangeIsWide'
      BY <1>0, <2>0, <2>3 DEF ReadDelta, Go, ConvTypes, ConvInv, RangeIsWide
    <3> QED
      BY <2>3, <3>1, <3>2, <3>3 DEF ReadDelta, ConvInv, ConversionsSucceed
  <2>4. CASE IncDelta(t)
    <3>0. old[t] \in Int
      BY <1>0 DEF ConvTypes
    <3>1. ConvTypes'
      BY <1>0, <2>0, <2>4, <3>0 DEF IncDelta, Go, ConvTypes, Places
    <3>2. PointsValid'
      BY <1>0, <2>0, <2>4 DEF IncDelta, Go, ConvTypes, ConvInv, PointsValid
    <3>3. deltaE' >= PoleEasting /\ deltaN' >= PoleNorthing
      BY <1>0, <2>4, <3>0, Numbers DEF IncDelta, Go, ConvTypes, ConvInv, RangeIsWide
    <3>4. RangeIsWide'
      BY <1>0, <2>0, <2>4, <3>3 DEF IncDelta, Go, ConvTypes, ConvInv, RangeIsWide
    <3> QED
      BY <2>4, <3>1, <3>2, <3>4 DEF IncDelta, ConvInv, ConversionsSucceed
  <2>5. CASE CheckEasting(t)
    <3>1. point[t] \in Points
      BY <2>5 DEF CheckEasting, Go, ConvInv, PointsValid
    <3>2. ~exited'
      BY <1>0, <2>5, <3>1, WideIsEnough DEF CheckEasting, ConvInv, ConvTypes
    <3>3. ConvTypes'
      BY <1>0, <2>0, <2>5 DEF CheckEasting, Go, ConvTypes, Places
    <3>4. PointsValid'
      BY <1>0, <2>0, <2>5, <3>1 DEF CheckEasting, Go, ConvTypes, ConvInv, PointsValid
    <3>5. RangeIsWide'
      BY <1>0, <2>0, <2>5 DEF CheckEasting, Go, ConvTypes, ConvInv, RangeIsWide
    <3> QED
      BY <3>2, <3>3, <3>4, <3>5 DEF ConvInv, ConversionsSucceed
  <2>6. CASE CheckNorthing(t)
    <3>1. point[t] \in Points
      BY <2>6 DEF CheckNorthing, Go, ConvInv, PointsValid
    <3>2. ~exited'
      BY <1>0, <2>6, <3>1, WideIsEnough DEF CheckNorthing, ConvInv, ConvTypes
    <3>3. ConvTypes'
      BY <1>0, <2>0, <2>6 DEF CheckNorthing, Go, ConvTypes, Places
    <3>4. PointsValid'
      BY <1>0, <2>0, <2>6 DEF CheckNorthing, Go, ConvTypes, ConvInv, PointsValid
    <3>5. RangeIsWide'
      BY <1>0, <2>0, <2>6 DEF CheckNorthing, Go, ConvTypes, ConvInv, RangeIsWide
    <3> QED
      BY <3>2, <3>3, <3>4, <3>5 DEF ConvInv, ConversionsSucceed
  <2> QED
    BY <1>2, <2>1, <2>2, <2>3, <2>4, <2>5, <2>6
<1>3. CASE ConvDone
  BY <1>1, <1>3 DEF ConvDone
<1> QED
  BY <1>1, <1>2, <1>3 DEF ConvNext

\* No conversion of a point that UTM covers fails because of what other threads
\* do to the library's static variables meanwhile.
THEOREM ConversionsAlwaysSucceed ==
  ASSUME ConvAssumption
  PROVE  ConvSpec => [](ConversionsSucceed /\ RangeIsWide)
<1>1. ConvInv => ConversionsSucceed /\ RangeIsWide
  BY DEF ConvInv
<1> QED
  BY <1>1, ConvInitially, ConvStep, PTL DEF ConvSpec

-----------------------------------------------------------------------------
\* The running maximum is a length seen and returned; a length seen but not
\* returned is less; none is greater by the tolerance, and no returned one
\* less by it.
MaxInv ==
  /\ elems \in [Indexes -> Lengths]
  /\ index \in 1 .. Size
  /\ result \subseteq 0 .. index - 1
  /\ \E m \in result : currentMax = elems[m]
  /\ \A k \in 0 .. index - 1 : k \notin result => elems[k] < currentMax
  /\ \A k \in 0 .. index - 1 : elems[k] < currentMax + EPS
  /\ \A k \in result : currentMax < elems[k] + EPS

\* The inductive invariant holds before the loop of indexesOfMaxElems.
LEMMA MaxInitially ==
  ASSUME LengthsAssumption
  PROVE  MaxInit => MaxInv
  BY DEF LengthsAssumption, MaxInit, MaxInv, Indexes

\* Every iteration of the loop of indexesOfMaxElems preserves it.
LEMMA MaxIterate ==
  ASSUME LengthsAssumption
  PROVE  MaxInv /\ [Iterate]_maxVars => MaxInv'
<1> SUFFICES ASSUME MaxInv, [Iterate]_maxVars PROVE MaxInv'
    OBVIOUS
<1> USE DEF LengthsAssumption
<1>1. CASE UNCHANGED maxVars
    BY <1>1 DEF MaxInv, maxVars
<1>2. CASE Iterate
  <2>1. index \in Indexes /\ index' = index + 1 /\ index' \in 1 .. Size /\ elems' = elems
        BY <1>2 DEF Iterate, MaxInv, Indexes
  <2>2. elems \in [Indexes -> Int]
        BY DEF MaxInv
  <2>3. \A k \in 0 .. index - 1 : elems[k] \in Int
        BY <2>1, <2>2 DEF Indexes
  <2>4. currentMax \in Int
        BY <2>3 DEF MaxInv
  <2>5. elems[index] \in Int
        BY <2>1, <2>2
  <2>6. 0 .. index' - 1 = (0 .. index - 1) \cup {index}
        BY <2>1 DEF Indexes
  <2>7. CASE greater(elems[index], currentMax) /\ NewMax /\ currentMax' = elems[index]
        BY <2>1, <2>3, <2>4, <2>5, <2>6, <2>7 DEF MaxInv, greater, NewMax
  <2>8. CASE equals(elems[index], currentMax) /\ result' = result \cup {index} /\ UNCHANGED currentMax
        BY <2>1, <2>3, <2>4, <2>5, <2>6, <2>8 DEF MaxInv, equals
  <2>9. CASE less(elems[index], currentMax) /\ UNCHANGED <<result, currentMax>>
        BY <2>1, <2>3, <2>4, <2>5, <2>6, <2>9 DEF MaxInv, less
  <2> QED BY <1>2, <2>7, <2>8, <2>9 DEF Iterate
<1> QED BY <1>1, <1>2

\* Once the loop has ended the invariant is what LongestFound says.
LEMMA MaxEnough ==
  ASSUME LengthsAssumption
  PROVE  MaxInv => LongestFound
<1> SUFFICES ASSUME MaxInv, Returned PROVE LongestFound
    BY DEF LongestFound
<1> USE DEF LengthsAssumption
<1>1. elems \in [Indexes -> Int]
    BY DEF MaxInv
<1>2. 0 .. index - 1 = Indexes /\ result \subseteq Indexes
    BY DEF MaxInv, Returned, Indexes
<1>3. PICK m \in result : currentMax = elems[m]
    BY DEF MaxInv
<1>4. ASSUME NEW e \in Indexes, \A f \in Indexes : elems[f] <= elems[e]
      PROVE  e \in result
    BY <1>1, <1>2, <1>3, <1>4 DEF MaxInv
<1>5. ASSUME NEW e \in result, NEW f \in Indexes
      PROVE  elems[f] - elems[e] < 2 * EPS
    BY <1>1, <1>2, <1>3, SMTT(30) DEF MaxInv
<1> QED BY <1>4, <1>5 DEF LongestFound

\* The running maximum is among what both ways of choosing return.
LEMMA MaxAgrees ==
  ASSUME LengthsAssumption
  PROVE  MaxInv => LongestAgree
<1> SUFFICES ASSUME MaxInv, Returned PROVE result \cap getLongestEdges # {}
    BY DEF LongestAgree
<1> USE DEF LengthsAssumption
<1>1. elems \in [Indexes -> Int] /\ 0 .. index - 1 = Indexes /\ result \subseteq Indexes
    BY DEF MaxInv, Returned, Indexes
<1>2. PICK m \in result : currentMax = elems[m]
    BY DEF MaxInv
<1>3. m \in getLongestEdges
    BY <1>1, <1>2 DEF MaxInv, getLongestEdges, less
<1> QED BY <1>2, <1>3

\* For every list of lengths and every tolerance, indexesOfMaxElems returns all
\* the longest edges and none shorter by twice the tolerance, and shares an edge
\* with getLongestEdges.
THEOREM LongestAreFound ==
  ASSUME LengthsAssumption
  PROVE  MaxSpec => [](LongestFound /\ LongestAgree)
<1>1. MaxInit => MaxInv
    BY MaxInitially
<1>2. MaxInv /\ [Iterate]_maxVars => MaxInv'
    BY MaxIterate
<1>3. MaxInv => LongestFound /\ LongestAgree
    BY MaxEnough, MaxAgrees
<1> QED BY <1>1, <1>2, <1>3, PTL DEF MaxSpec

-----------------------------------------------------------------------------
\* The threads that have not come to the current wait.
Missing == {t \in 0 .. num - 1 : local_sense[t] = sense}

CountingTypes ==
  /\ num \in 1 .. MaxThreads
  /\ round \in [Pool -> Nat]
  /\ pc \in [Pool -> {"out", "last", "flip", "spin"}]
  /\ count \in Int
  /\ sense \in BOOLEAN
  /\ local_sense \in [Pool -> BOOLEAN]

\* A thread outside has the shared sense, and one beyond num is outside.
OutsideAgrees ==
  \A t \in Pool : IF t < num THEN pc[t] = "out" => local_sense[t] = sense ELSE pc[t] = "out"

\* The thread that found the counter at 0 is alone, and all have come.
LastIsAlone ==
  \A t \in Pool : pc[t] \in {"last", "flip"} =>
    /\ \A u \in Pool : u # t => pc[u] \in {"out", "spin"}
    /\ \A u \in 0 .. num - 1 : local_sense[u] # sense

\* The counter is what it counts, but between its reset and the flip.
CountIsExact ==
  IF \E t \in Pool : pc[t] = "flip" THEN count = num
  ELSE count = Cardinality(Missing)

\* Without a last thread somebody is still to come.
SomeoneIsMissing ==
  (\A t \in Pool : pc[t] \in {"out", "spin"}) => Missing # {}

\* Those that have come to the current wait are one ahead of the others.
RoundsAgree ==
  \A t, u \in 0 .. num - 1 :
    round[t] - round[u] = (IF local_sense[t] # sense THEN 1 ELSE 0)
                            - (IF local_sense[u] # sense THEN 1 ELSE 0)

CountingInv ==
  CountingTypes /\ OutsideAgrees /\ LastIsAlone /\ CountIsExact /\ SomeoneIsMissing /\ RoundsAgree

-----------------------------------------------------------------------------
\* Two senses that differ from a third are the same.
LEMMA TwoSenses ==
  ASSUME NEW a \in BOOLEAN, NEW b \in BOOLEAN, NEW c \in BOOLEAN
  PROVE  /\ a # c /\ b # c => a = b
         /\ (~a) # a
         /\ a = c => (~a) # c
  OBVIOUS

\* Some of the threads of a barrier, and how many they are.
LEMMA SomeThreads ==
  ASSUME NEW P \in Nat, NEW S \in SUBSET (0 .. P - 1)
  PROVE  /\ IsFiniteSet(S)
         /\ Cardinality(S) \in Nat
         /\ Cardinality(S) = 0 <=> S = {}
         /\ S = 0 .. P - 1 => Cardinality(S) = P
         /\ \A t \in S : Cardinality(S \ {t}) = Cardinality(S) - 1
<1>1. IsFiniteSet(0 .. P - 1) /\ Cardinality(0 .. P - 1) = P
    BY FS_Interval
<1>2. IsFiniteSet(S)
    BY <1>1, FS_Subset
<1>3. Cardinality(S) \in Nat
    BY <1>2, FS_CardinalityType
<1>4. Cardinality(S) = 0 <=> S = {}
    BY <1>2, FS_EmptySet
<1>5. \A t \in S : Cardinality(S \ {t}) = Cardinality(S) - 1
    BY <1>2, FS_RemoveElement
<1> QED BY <1>1, <1>2, <1>3, <1>4, <1>5

\* What _reinit leaves.
Fresh ==
  /\ num \in 1 .. MaxThreads
  /\ round = [t \in Pool |-> 0]
  /\ pc = [t \in Pool |-> "out"]
  /\ count = num
  /\ sense = FALSE
  /\ local_sense = [t \in Pool |-> FALSE]

\* A barrier that _reinit has just set up is consistent.
LEMMA FreshIsConsistent ==
  ASSUME CountingAssumption
  PROVE  Fresh => CountingInv
<1> SUFFICES ASSUME Fresh PROVE CountingInv
    OBVIOUS
<1> USE DEF CountingAssumption
<1>1. 0 .. num - 1 \subseteq Pool /\ 0 \in 0 .. num - 1 /\ num \in Nat
    BY DEF Pool, Fresh
<1>2. CountingTypes
  <2>1. sense \in BOOLEAN /\ local_sense \in [Pool -> BOOLEAN]
        BY Zenon DEF Fresh
  <2>2. num \in 1 .. MaxThreads /\ round \in [Pool -> Nat] /\ count \in Int
        BY DEF Fresh
  <2>3. pc \in [Pool -> {"out", "last", "flip", "spin"}]
        BY DEF Fresh
  <2> QED BY <2>1, <2>2, <2>3 DEF CountingTypes
<1>3. \A t \in 0 .. num - 1 : local_sense[t] = sense
    BY <1>1 DEF Fresh
<1>4. OutsideAgrees /\ LastIsAlone
    BY <1>1 DEF OutsideAgrees, LastIsAlone, Fresh
<1>5. Missing = 0 .. num - 1
    BY <1>3 DEF Missing
<1>6. Cardinality(Missing) = num
    BY <1>1, <1>5, SomeThreads
<1>7. CountIsExact
    BY <1>6 DEF CountIsExact, Fresh
<1>8. SomeoneIsMissing
    BY <1>1, <1>5 DEF SomeoneIsMissing
<1>9. RoundsAgree
    BY <1>1, <1>3 DEF RoundsAgree, Fresh
<1> QED BY <1>2, <1>4, <1>7, <1>8, <1>9 DEF CountingInv

\* The constructor of CountingBarrier establishes the invariant.
LEMMA CountingInitially ==
  ASSUME CountingAssumption
  PROVE  CountingInit => CountingInv
<1>1. CountingInit => Fresh
    BY DEF CountingAssumption, CountingInit, Fresh
<1> QED BY <1>1, FreshIsConsistent

\* reinit does so too.
LEMMA ReinitKeeps ==
  ASSUME CountingAssumption
  PROVE  CountingInv /\ Reinit => CountingInv'
<1>1. CountingInv /\ Reinit => Fresh'
    BY DEF Reinit, CountingInv, CountingTypes, Fresh
<1> QED BY <1>1, FreshIsConsistent, PTL

\* A thread that comes to wait is counted.
LEMMA WaitKeeps ==
  ASSUME CountingAssumption, NEW t \in Pool
  PROVE  CountingInv /\ Wait(t) => CountingInv'
<1> SUFFICES ASSUME CountingInv, Wait(t) PROVE CountingInv'
    OBVIOUS
<1> USE DEF CountingAssumption
<1>1. /\ num \in Nat /\ t \in 0 .. num - 1 /\ 0 .. num - 1 \subseteq Pool
      /\ num' = num /\ sense' = sense
    BY DEF Wait, CountingInv, CountingTypes, Pool
<1>2. local_sense[t] = sense /\ pc[t] = "out"
    BY <1>1 DEF Wait, CountingInv, OutsideAgrees
<1>3. local_sense' = [local_sense EXCEPT ![t] = ~local_sense[t]] /\ local_sense'[t] # sense
  <2>1. local_sense \in [Pool -> BOOLEAN]
        BY DEF CountingInv, CountingTypes
  <2>2. local_sense' = [local_sense EXCEPT ![t] = ~local_sense[t]]
        BY DEF Wait
  <2>3. local_sense'[t] = ~local_sense[t]
        BY <2>1, <2>2, Zenon
  <2>4. local_sense[t] \in BOOLEAN
        BY <2>1
  <2> QED BY <2>2, <2>3, <2>4, <1>2, Zenon
<1>4. \A u \in Pool : u # t => local_sense'[u] = local_sense[u] /\ pc'[u] = pc[u]
    BY <1>3 DEF Wait, Place, CountingInv, CountingTypes
<1>5. \A u \in Pool : pc[u] \in {"out", "spin"}
    BY <1>1, <1>2 DEF CountingInv, CountingTypes, LastIsAlone
<1>6. count = Cardinality(Missing)
    BY <1>5 DEF CountingInv, CountIsExact
<1>7. Missing' = Missing \ {t} /\ t \in Missing
    BY <1>1, <1>2, <1>3, <1>4 DEF Missing
<1>8. count' = Cardinality(Missing') /\ (count' = 0 <=> Missing' = {})
  <2>1. Missing \in SUBSET (0 .. num - 1) /\ Missing' \in SUBSET (0 .. num - 1)
        BY <1>7 DEF Missing
  <2>2. Cardinality(Missing') = Cardinality(Missing) - 1
        BY <1>1, <1>7, <2>1, SomeThreads
  <2>3. Cardinality(Missing') = 0 <=> Missing' = {}
        BY <1>1, <2>1, SomeThreads
  <2>4. count' = count - 1
        BY DEF Wait
  <2> QED BY <1>6, <2>2, <2>3, <2>4
<1>9. pc'[t] = IF count' = 0 THEN "last" ELSE "spin"
    BY DEF Wait, Place, CountingInv, CountingTypes
<1>10. CountingTypes'
  <2>1. local_sense' \in [Pool -> BOOLEAN] /\ sense' \in BOOLEAN
        BY <1>1, <1>3, Zenon DEF CountingInv, CountingTypes
  <2>2. num' \in 1 .. MaxThreads /\ round' \in [Pool -> Nat] /\ count' \in Int
        BY DEF Wait, CountingInv, CountingTypes
  <2>3. pc' \in [Pool -> {"out", "last", "flip", "spin"}]
        BY DEF Wait, Place, CountingInv, CountingTypes
  <2> QED BY <2>1, <2>2, <2>3 DEF CountingTypes
<1>11. OutsideAgrees'
    BY <1>1, <1>4, <1>9 DEF OutsideAgrees, CountingInv, Pool
<1>12. LastIsAlone'
  <2>1. \A u \in Pool : u # t => pc'[u] \in {"out", "spin"}
        BY <1>4, <1>5
  <2>2. pc'[t] = "last" => Missing' = {}
        BY <1>8, <1>9
  <2>3. Missing' = {} => \A u \in 0 .. num' - 1 : local_sense'[u] # sense'
        BY DEF Missing
  <2> QED BY <1>9, <2>1, <2>2, <2>3 DEF LastIsAlone
<1>13. CountIsExact'
    BY <1>4, <1>5, <1>8, <1>9 DEF CountIsExact
<1>14. SomeoneIsMissing'
    BY <1>8, <1>9 DEF SomeoneIsMissing
<1>15. RoundsAgree'
  <2>1. round' = [round EXCEPT ![t] = @ + 1] /\ round \in [Pool -> Nat]
        BY DEF Wait, CountingInv, CountingTypes
  <2> QED BY <1>1, <1>2, <1>3, <1>4, <2>1 DEF RoundsAgree, CountingInv
<1> QED BY <1>10, <1>11, <1>12, <1>13, <1>14, <1>15 DEF CountingInv

\* The last thread sets the counter for the next wait.
LEMMA ResetKeeps ==
  ASSUME CountingAssumption, NEW t \in Pool
  PROVE  CountingInv /\ ResetCount(t) => CountingInv'
<1> SUFFICES ASSUME CountingInv, ResetCount(t) PROVE CountingInv'
    OBVIOUS
<1> USE DEF CountingAssumption
<1>1. UNCHANGED <<num, round, sense, local_sense>> /\ pc[t] = "last" /\ count' = num
    BY DEF ResetCount
<1>2. pc' = [pc EXCEPT ![t] = "flip"]
    BY DEF ResetCount, Place
<1>3. CountingTypes'
    BY <1>1, <1>2 DEF CountingInv, CountingTypes
<1>4. pc'[t] = "flip" /\ \A u \in Pool : u # t => pc'[u] = pc[u]
    BY <1>2 DEF CountingInv, CountingTypes
<1>5. OutsideAgrees'
    BY <1>1, <1>4 DEF OutsideAgrees, CountingInv
<1>6. LastIsAlone'
    BY <1>1, <1>4 DEF LastIsAlone, CountingInv
<1>7. CountIsExact'
    BY <1>1, <1>4 DEF CountIsExact
<1>8. SomeoneIsMissing'
    BY <1>4 DEF SomeoneIsMissing
<1>9. RoundsAgree'
    BY <1>1 DEF RoundsAgree, CountingInv
<1> QED BY <1>3, <1>5, <1>6, <1>7, <1>8, <1>9 DEF CountingInv

\* With the flip of the sense all threads are missing at the next wait.
LEMMA FlipKeeps ==
  ASSUME CountingAssumption, NEW t \in Pool
  PROVE  CountingInv /\ FlipSense(t) => CountingInv'
<1> SUFFICES ASSUME CountingInv, FlipSense(t) PROVE CountingInv'
    OBVIOUS
<1> USE DEF CountingAssumption
<1>1. /\ UNCHANGED <<num, round, count, local_sense>> /\ pc[t] = "flip"
      /\ sense' = local_sense[t] /\ pc' = [pc EXCEPT ![t] = "out"]
    BY DEF FlipSense, Place
<1>2. /\ num \in 1 .. MaxThreads /\ 0 .. num - 1 \subseteq Pool
      /\ t \in 0 .. num - 1 /\ 0 \in 0 .. num - 1
    BY <1>1 DEF CountingInv, CountingTypes, OutsideAgrees, Pool
<1>3. \A u \in 0 .. num - 1 : local_sense[u] # sense
    BY <1>1 DEF CountingInv, LastIsAlone
<1>4. \A u \in 0 .. num - 1 : local_sense'[u] = sense'
  <2> SUFFICES ASSUME NEW u \in 0 .. num - 1 PROVE local_sense[u] = local_sense[t]
      BY <1>1
  <2>1. local_sense[u] \in BOOLEAN /\ local_sense[t] \in BOOLEAN /\ sense \in BOOLEAN
      BY <1>2 DEF CountingInv, CountingTypes
  <2>2. local_sense[u] # sense /\ local_sense[t] # sense
      BY <1>2, <1>3
  <2> QED BY <2>1, <2>2, TwoSenses
<1>5. pc'[t] = "out" /\ \A u \in Pool : u # t => pc'[u] = pc[u] /\ pc[u] \in {"out", "spin"}
    BY <1>1 DEF CountingInv, CountingTypes, LastIsAlone
<1>6. CountingTypes'
  <2>1. sense' \in BOOLEAN /\ local_sense' \in [Pool -> BOOLEAN]
        BY <1>1, Zenon DEF CountingInv, CountingTypes
  <2>2. pc' \in [Pool -> {"out", "last", "flip", "spin"}]
        BY <1>1 DEF CountingInv, CountingTypes
  <2>3. num' \in 1 .. MaxThreads /\ round' \in [Pool -> Nat] /\ count' \in Int
        BY <1>1 DEF CountingInv, CountingTypes
  <2> QED BY <2>1, <2>2, <2>3 DEF CountingTypes
<1>7. OutsideAgrees'
    BY <1>1, <1>2, <1>4, <1>5 DEF OutsideAgrees, CountingInv, Pool
<1>8. LastIsAlone'
    BY <1>5 DEF LastIsAlone
<1>9. Missing' = 0 .. num' - 1
    BY <1>4, <1>1 DEF Missing
<1>10. CountIsExact'
  <2>1. Cardinality(Missing') = num'
        BY <1>1, <1>2, <1>9, SomeThreads
  <2>2. count' = num'
        BY <1>1 DEF CountingInv, CountIsExact
  <2> QED BY <2>1, <2>2 DEF CountIsExact
<1>11. SomeoneIsMissing'
    BY <1>1, <1>2, <1>9 DEF SomeoneIsMissing
<1>12. RoundsAgree'
    BY <1>1, <1>3, <1>4 DEF RoundsAgree, CountingInv
<1> QED BY <1>6, <1>7, <1>8, <1>10, <1>11, <1>12 DEF CountingInv

\* A thread that sees the sense flipped leaves.
LEMMA SpinKeeps ==
  ASSUME CountingAssumption, NEW t \in Pool
  PROVE  CountingInv /\ Spin(t) => CountingInv'
<1> SUFFICES ASSUME CountingInv, Spin(t) PROVE CountingInv'
    OBVIOUS
<1> USE DEF CountingAssumption
<1>1. /\ UNCHANGED <<num, round, count, sense, local_sense>> /\ pc[t] = "spin"
      /\ local_sense[t] = sense /\ pc' = [pc EXCEPT ![t] = "out"]
    BY DEF Spin, Place
<1>2. pc'[t] = "out" /\ \A u \in Pool : u # t => pc'[u] = pc[u]
    BY <1>1 DEF CountingInv, CountingTypes
<1>3. CountingTypes'
    BY <1>1 DEF CountingInv, CountingTypes
<1>4. OutsideAgrees'
    BY <1>1, <1>2 DEF OutsideAgrees, CountingInv
<1>5. LastIsAlone'
    BY <1>1, <1>2 DEF LastIsAlone, CountingInv
<1>6. Missing' = Missing
    BY <1>1 DEF Missing
<1>7. CountIsExact'
    BY <1>1, <1>2, <1>6 DEF CountIsExact, CountingInv
<1>8. SomeoneIsMissing'
    BY <1>1, <1>2, <1>6 DEF SomeoneIsMissing, CountingInv
<1>9. RoundsAgree'
    BY <1>1 DEF RoundsAgree, CountingInv
<1> QED BY <1>3, <1>4, <1>5, <1>7, <1>8, <1>9 DEF CountingInv

\* Every step of CountingBarrier preserves the invariant.
LEMMA CountingStep ==
  ASSUME CountingAssumption
  PROVE  CountingInv /\ [CountingNext]_countingVars => CountingInv'
<1> SUFFICES ASSUME CountingInv, [CountingNext]_countingVars PROVE CountingInv'
    OBVIOUS
<1>1. CASE UNCHANGED countingVars
    BY <1>1 DEF countingVars, CountingInv, CountingTypes, OutsideAgrees, LastIsAlone,
                CountIsExact, SomeoneIsMissing, RoundsAgree, Missing
<1>2. CASE Reinit
    BY <1>2, ReinitKeeps
<1>3. ASSUME NEW t \in Pool, Step(t) PROVE CountingInv'
    BY <1>3, WaitKeeps, ResetKeeps, FlipKeeps, SpinKeeps DEF Step
<1> QED BY <1>1, <1>2, <1>3 DEF CountingNext

-----------------------------------------------------------------------------
\* A step of CountingBarrier is a step of Barrier, or nothing happens there: the
\* thread that flips the sense, and one that sees it flipped, leave a wait that
\* all have come to.
LEMMA CountingSimulates ==
  ASSUME CountingAssumption
  PROVE  CountingInv /\ [CountingNext]_countingVars => [Abstract!BarrierNext]_(Abstract!barrierVars)
<1> SUFFICES ASSUME CountingInv, [CountingNext]_countingVars
             PROVE  Abstract!BarrierNext \/ UNCHANGED Abstract!barrierVars
    OBVIOUS
<1> DEFINE In == {u \in Pool : pc[u] # "out"}
<1> USE DEF CountingAssumption
<1>1. Abstract!Pool = Pool
    BY DEF Abstract!Pool, Pool
<1>2. 0 .. num - 1 \subseteq Pool /\ num \in Nat
    BY DEF CountingInv, CountingTypes, Pool
<1>3. CASE UNCHANGED countingVars
    BY <1>3 DEF countingVars, Abstract!barrierVars
<1>4. CASE Reinit
  <2>1. In = {} /\ In' = {}
        BY <1>4 DEF Reinit
  <2> QED BY <1>1, <1>4, <2>1 DEF Reinit, Abstract!BarrierNext, Abstract!Resize
<1>5. ASSUME NEW t \in Pool, Step(t)
      PROVE  Abstract!BarrierNext \/ UNCHANGED Abstract!barrierVars
  <2>1. CASE Wait(t)
    <3>1. t \notin In /\ In' = In \cup {t}
          BY <2>1 DEF Wait, Place, CountingInv, CountingTypes
    <3>2. Abstract!Arrive(t)
          BY <2>1, <3>1 DEF Wait, Abstract!Arrive
    <3> QED BY <1>1, <3>2 DEF Abstract!BarrierNext
  <2>2. CASE ResetCount(t)
    <3>1. In' = In
          BY <2>2 DEF ResetCount, Place, CountingInv, CountingTypes
    <3> QED BY <2>2, <3>1 DEF ResetCount, Abstract!barrierVars
  <2>3. ASSUME FlipSense(t) \/ Spin(t) PROVE Abstract!Depart(t)
    <3>1. t \in In /\ In' = In \ {t} /\ UNCHANGED <<num, round>>
          BY <2>3 DEF FlipSense, Spin, Place, CountingInv, CountingTypes
    <3>2. t \in 0 .. num - 1
          BY <3>1 DEF CountingInv, CountingTypes, OutsideAgrees, Pool
    <3>3. \A u \in 0 .. num - 1 : round[u] \in Nat
          BY <1>2 DEF CountingInv, CountingTypes
    <3>4. CASE FlipSense(t)
      <4>1. \A u \in 0 .. num - 1 : local_sense[u] # sense
            BY <3>4 DEF FlipSense, CountingInv, LastIsAlone
      <4>2. \A u \in 0 .. num - 1 : round[u] >= round[t]
            BY <3>2, <3>3, <4>1 DEF CountingInv, RoundsAgree
      <4> QED BY <3>1, <4>2 DEF Abstract!Depart
    <3>5. CASE Spin(t)
      <4>1. local_sense[t] = sense
            BY <3>5 DEF Spin
      <4>2. \A u \in 0 .. num - 1 : round[u] >= round[t]
            BY <3>2, <3>3, <4>1 DEF CountingInv, RoundsAgree
      <4> QED BY <3>1, <4>2 DEF Abstract!Depart
    <3> QED BY <2>3, <3>4, <3>5
  <2> QED BY <1>1, <1>5, <2>1, <2>2, <2>3 DEF Step, Abstract!BarrierNext
<1> QED BY <1>3, <1>4, <1>5 DEF CountingNext

\* For any number of threads and of waits, wait of CountingBarrier lets nobody
\* leave before all have come to the same wait: it implements the steps of
\* Barrier.
THEOREM CountingIsBarrier ==
  ASSUME CountingAssumption
  PROVE  CountingSpec => Abstract!BarrierInit /\ [][Abstract!BarrierNext]_(Abstract!barrierVars)
<1>1. CountingInit => Abstract!BarrierInit
    BY DEF CountingAssumption, CountingInit, Abstract!BarrierInit, Abstract!Pool, Pool
<1>2. CountingInit => CountingInv
    BY CountingInitially
<1>3. CountingInv /\ [CountingNext]_countingVars => CountingInv'
    BY CountingStep
<1>4. CountingInv /\ [CountingNext]_countingVars => [Abstract!BarrierNext]_(Abstract!barrierVars)
    BY CountingSimulates
<1> QED BY <1>1, <1>2, <1>3, <1>4, PTL DEF CountingSpec
-----------------------------------------------------------------------------
\* The signed areas that a point forms with the edges add up to the triangle's,
\* and weigh the heights of the vertices to that of the plane.
LEMMA SignedAreas ==
  ASSUME ConditionAssumption, NEW x \in Int, NEW y \in Int
  PROVE  LET a == Opposite(x, y, 1, 2)  b == Opposite(x, y, 2, 0)  c == Opposite(x, y, 0, 1)
         IN  /\ a \in Int /\ b \in Int /\ c \in Int /\ Whole \in Int
             /\ a + b + c = Whole
             /\ a * vz[0] + b * vz[1] + c * vz[2] = Plane(x, y)
<1>1. PICK ax \in Int, ay \in Int, az \in Int : ax = vx[0] /\ ay = vy[0] /\ az = vz[0]
    BY DEF ConditionAssumption
<1>2. PICK bx \in Int, by \in Int, bz \in Int : bx = vx[1] /\ by = vy[1] /\ bz = vz[1]
    BY DEF ConditionAssumption
<1>3. PICK cx \in Int, cy \in Int, cz \in Int : cx = vx[2] /\ cy = vy[2] /\ cz = vz[2]
    BY DEF ConditionAssumption
<1> DEFINE a == Cross(x, y, bx, by, cx, cy)
           b == Cross(x, y, cx, cy, ax, ay)
           c == Cross(x, y, ax, ay, bx, by)
           w == Cross(ax, ay, bx, by, cx, cy)
<1>4. a \in Int /\ b \in Int /\ c \in Int /\ w \in Int
    BY DEF Cross
<1>5. a + b + c = w
    BY DEF Cross
<1>6. a * az + b * bz + c * cz
        = w * az - ((by - ay) * (cz - az) - (bz - az) * (cy - ay)) * (x - ax)
                 - ((bz - az) * (cx - ax) - (bx - ax) * (cz - az)) * (y - ay)
    BY DEF Cross
<1>7. /\ Opposite(x, y, 1, 2) = a
      /\ Opposite(x, y, 2, 0) = b
      /\ Opposite(x, y, 0, 1) = c
      /\ Whole = w
    BY <1>1, <1>2, <1>3 DEF Opposite, Whole
<1> HIDE DEF a, b, c, w
<1>8. a * vz[0] + b * vz[1] + c * vz[2] = Plane(x, y)
    BY <1>1, <1>2, <1>3, <1>6, <1>7 DEF Plane
<1> QED BY <1>4, <1>5, <1>7, <1>8

\* An area without its sign is the area, or twice what is on the wrong side more.
LEMMA UnsignedArea ==
  ASSUME Whole \in Int, Whole # 0, NEW a \in Int
  PROVE  /\ Beyond(a) \in Nat
         /\ Whole > 0 => Abs(a) = a + 2 * Beyond(a)
         /\ Whole < 0 => Abs(a) = -a + 2 * Beyond(a)
BY DEF Beyond, Abs

\* A weighted height is within the weighted bounds of the height.
LEMMA WeighedBounds ==
  ASSUME NEW n \in Nat, NEW z \in Int, NEW m \in Int, -m <= z, z <= m
  PROVE  n * z \in Int /\ n * m \in Int /\ -(n * m) <= n * z /\ n * z <= n * m
<1>1. PICK d \in Nat, e \in Nat : d = m - z /\ e = z + m
    OBVIOUS
<1>2. n * d \in Nat /\ n * e \in Nat
    OBVIOUS
<1>3. n * d = n * m - n * z /\ n * e = n * z + n * m
    BY <1>1
<1> QED BY <1>2, <1>3

\* The greatest height without sign bounds the heights of all vertices.
LEMMA HeightsBounded ==
  ASSUME vz[0] \in Int, vz[1] \in Int, vz[2] \in Int
  PROVE  LET most == highest([k \in 0 .. 2 |-> Abs(vz[k])])
         IN  /\ most \in Nat
             /\ -most <= vz[0] /\ vz[0] <= most
             /\ -most <= vz[1] /\ vz[1] <= most
             /\ -most <= vz[2] /\ vz[2] <= most
<1> DEFINE u == [k \in 0 .. 2 |-> Abs(vz[k])]
<1>1. u[0] = Abs(vz[0]) /\ u[1] = Abs(vz[1]) /\ u[2] = Abs(vz[2])
    OBVIOUS
<1>2. /\ Abs(vz[0]) \in Nat /\ -Abs(vz[0]) <= vz[0] /\ vz[0] <= Abs(vz[0])
      /\ Abs(vz[1]) \in Nat /\ -Abs(vz[1]) <= vz[1] /\ vz[1] <= Abs(vz[1])
      /\ Abs(vz[2]) \in Nat /\ -Abs(vz[2]) <= vz[2] /\ vz[2] <= Abs(vz[2])
    BY DEF Abs
<1> HIDE DEF u
<1>3. highest(u) \in Nat /\ u[0] <= highest(u) /\ u[1] <= highest(u) /\ u[2] <= highest(u)
    BY <1>1, <1>2 DEF highest
<1>4. /\ -highest(u) <= vz[0] /\ vz[0] <= highest(u)
      /\ -highest(u) <= vz[1] /\ vz[1] <= highest(u)
      /\ -highest(u) <= vz[2] /\ vz[2] <= highest(u)
    BY <1>1, <1>2, <1>3
<1> QED BY <1>3, <1>4 DEF u

\* A distance d of the plane and a height that is off by 2 * e, where the weights
\* on wrong sides are s of the whole w.
LEMMA OffByLittle ==
  ASSUME NEW d \in Int, NEW e \in Int, NEW s \in Nat, NEW w \in Nat, NEW m \in Nat,
         NEW t \in Int, 2 * Parts * s < w, -(s * m) <= e, e <= s * m, Abs(d + 2 * e) > t
  PROVE  Parts * Abs(d) + w * m > Parts * t
<1>1. PICK r \in Nat : w = 2 * Parts * s + r
  <2>1. w - 2 * Parts * s \in Nat /\ w = 2 * Parts * s + (w - 2 * Parts * s)
      BY DEF Parts
  <2> QED BY <2>1
<1>2. s * m \in Nat /\ r * m \in Nat
    OBVIOUS
<1>3. w * m = 2 * Parts * (s * m) + r * m
    BY <1>1 DEF Parts
<1> QED BY <1>2, <1>3 DEF Parts, Abs

\* The same for the height p that an area weighs.
LEMMA UnsignedWeight ==
  ASSUME Whole \in Int, Whole # 0, NEW a \in Int, NEW p \in Int
  PROVE  /\ Abs(a) * p \in Int /\ a * p \in Int /\ Beyond(a) * p \in Int
         /\ Whole > 0 => Abs(a) * p = a * p + 2 * (Beyond(a) * p)
         /\ Whole < 0 => Abs(a) * p = -(a * p) + 2 * (Beyond(a) * p)
<1>1. Beyond(a) \in Int /\ Abs(a) \in Int
    BY UnsignedArea DEF Abs
<1>2. /\ Whole > 0 => Abs(a) = a + 2 * Beyond(a)
      /\ Whole < 0 => Abs(a) = -a + 2 * Beyond(a)
    BY UnsignedArea
<1>3. PICK k \in Int, u \in Int : k = Beyond(a) /\ u = Abs(a)
    BY <1>1
<1>4. /\ u * p \in Int /\ a * p \in Int /\ k * p \in Int
      /\ u = a + 2 * k => u * p = a * p + 2 * (k * p)
      /\ u = -a + 2 * k => u * p = -(a * p) + 2 * (k * p)
    OBVIOUS
<1>5. (Whole > 0 => u = a + 2 * k) /\ (Whole < 0 => u = -a + 2 * k)
    BY <1>2, <1>3
<1>6. /\ u * p \in Int /\ a * p \in Int /\ k * p \in Int
      /\ Whole > 0 => u * p = a * p + 2 * (k * p)
      /\ Whole < 0 => u * p = -(a * p) + 2 * (k * p)
    BY <1>4, <1>5, Zenon
<1> QED BY <1>3, <1>6

\* The height of a point, weighed by three areas.
Weighed(u, v, n, p, q, r) == u * p + v * q + n * r

\* The areas and the height that the code computes, from the signed ones.
FromSigned(a, b, c, p, q, r) ==
  LET height == Weighed(Abs(a), Abs(b), Abs(c), p, q, r)
      signed == Weighed(a, b, c, p, q, r)
      beyond == Weighed(Beyond(a), Beyond(b), Beyond(c), p, q, r)
  IN  /\ Abs(a) + Abs(b) + Abs(c) = Abs(Whole) + 2 * (Beyond(a) + Beyond(b) + Beyond(c))
      /\ height \in Int /\ signed \in Int /\ beyond \in Int
      /\ Whole > 0 => height = signed + 2 * beyond
      /\ Whole < 0 => height = -signed + 2 * beyond

\* The same for the three areas of a point and the heights of the vertices.
LEMMA UnsignedAreas ==
  ASSUME Whole \in Int, Whole # 0,
         NEW a \in Int, NEW b \in Int, NEW c \in Int, a + b + c = Whole,
         NEW p \in Int, NEW q \in Int, NEW r \in Int
  PROVE  FromSigned(a, b, c, p, q, r)
<1> DEFINE hp == Abs(a) * p  ap == a * p  kp == Beyond(a) * p
           hq == Abs(b) * q  bq == b * q  kq == Beyond(b) * q
           hr == Abs(c) * r  cr == c * r  kr == Beyond(c) * r
<1>1. /\ hp \in Int /\ ap \in Int /\ kp \in Int
      /\ (Whole > 0 => hp = ap + 2 * kp) /\ (Whole < 0 => hp = -ap + 2 * kp)
    BY UnsignedWeight, Zenon
<1>2. /\ hq \in Int /\ bq \in Int /\ kq \in Int
      /\ (Whole > 0 => hq = bq + 2 * kq) /\ (Whole < 0 => hq = -bq + 2 * kq)
    BY UnsignedWeight, Zenon
<1>3. /\ hr \in Int /\ cr \in Int /\ kr \in Int
      /\ (Whole > 0 => hr = cr + 2 * kr) /\ (Whole < 0 => hr = -cr + 2 * kr)
    BY UnsignedWeight, Zenon
<1>4. /\ Weighed(Abs(a), Abs(b), Abs(c), p, q, r) = hp + hq + hr
      /\ Weighed(a, b, c, p, q, r) = ap + bq + cr
      /\ Weighed(Beyond(a), Beyond(b), Beyond(c), p, q, r) = kp + kq + kr
    BY DEF Weighed
<1> HIDE DEF hp, ap, kp, hq, bq, kq, hr, cr, kr
<1>5. /\ Whole > 0 => hp + hq + hr = (ap + bq + cr) + 2 * (kp + kq + kr)
      /\ Whole < 0 => hp + hq + hr = -(ap + bq + cr) + 2 * (kp + kq + kr)
      /\ hp + hq + hr \in Int /\ ap + bq + cr \in Int /\ kp + kq + kr \in Int
    BY <1>1, <1>2, <1>3
<1>6. Abs(a) + Abs(b) + Abs(c) = Abs(Whole) + 2 * (Beyond(a) + Beyond(b) + Beyond(c))
  <2>1. /\ Beyond(a) \in Nat /\ Beyond(b) \in Nat /\ Beyond(c) \in Nat
        /\ Whole > 0 => /\ Abs(a) = a + 2 * Beyond(a)
                        /\ Abs(b) = b + 2 * Beyond(b)
                        /\ Abs(c) = c + 2 * Beyond(c)
        /\ Whole < 0 => /\ Abs(a) = -a + 2 * Beyond(a)
                        /\ Abs(b) = -b + 2 * Beyond(b)
                        /\ Abs(c) = -c + 2 * Beyond(c)
      BY UnsignedArea
  <2>2. (Whole > 0 => Abs(Whole) = Whole) /\ (Whole < 0 => Abs(Whole) = -Whole)
      BY DEF Abs
  <2> QED BY <2>1, <2>2
<1> QED BY <1>4, <1>5, <1>6 DEF FromSigned

\* What a sample decides: areas that have lost their signs tell whether the
\* point is in the triangle or almost, and weigh almost as the signed ones do.
LEMMA SampleIsRight ==
  ASSUME ConditionAssumption, NEW x \in Int, NEW y \in Int
  PROVE  /\ Inside(x, y) /\ FarFromPlane(x, y) => Deviates(x, y)
         /\ Deviates(x, y) => AlmostInside(x, y) /\ AlmostFar(x, y)
<1> DEFINE a == Opposite(x, y, 1, 2)
           b == Opposite(x, y, 2, 0)
           c == Opposite(x, y, 0, 1)
           most == highest([k \in 0 .. 2 |-> Abs(vz[k])])
<1>1. a \in Int /\ b \in Int /\ c \in Int /\ Whole \in Int /\ a + b + c = Whole
    BY SignedAreas
<1>2. vz[0] \in Int /\ vz[1] \in Int /\ vz[2] \in Int
    BY DEF ConditionAssumption
<1>3. PICK p \in Int, q \in Int, r \in Int, g \in Int :
        p = vz[0] /\ q = vz[1] /\ r = vz[2] /\ g = get_height(x, y)
  <2>1. get_height(x, y) \in Int
      BY DEF ConditionAssumption
  <2> QED BY <1>2, <2>1
<1>4. Whole # 0 /\ tolerance \in Nat
    BY DEF ConditionAssumption
<1>5. /\ most \in Nat
      /\ -most <= p /\ p <= most /\ -most <= q /\ q <= most /\ -most <= r /\ r <= most
    BY <1>2, <1>3, HeightsBounded
<1>6. Weighed(a, b, c, p, q, r) = Plane(x, y)
    BY <1>3, SignedAreas DEF Weighed
<1> DEFINE height == Weighed(Abs(a), Abs(b), Abs(c), p, q, r)
           s == Beyond(a) + Beyond(b) + Beyond(c)
           e == Weighed(Beyond(a), Beyond(b), Beyond(c), p, q, r)
           w == Abs(Whole)
           signed == Weighed(a, b, c, p, q, r)
           d == IF Whole > 0 THEN signed - Whole * g ELSE -(signed - Whole * g)
<1>7. Deviates(x, y) <=>
        /\ Parts * (Abs(a) + Abs(b) + Abs(c) - w) < w
        /\ Abs(height - w * g) > tolerance * w
    BY <1>3 DEF Deviates, barycentric, is_inside_triangle, triangle_area, Weighed
<1>8. Inside(x, y) <=> (a >= 0 /\ b >= 0 /\ c >= 0) \/ (a <= 0 /\ b <= 0 /\ c <= 0)
    BY DEF Inside
<1>9. Distance(x, y) = Abs(signed - Whole * g)
    BY <1>3, <1>6 DEF Distance
<1>10. AlmostInside(x, y) <=> 2 * Parts * s < w
    BY DEF AlmostInside
<1>11. AlmostFar(x, y) <=> Parts * Distance(x, y) + w * most > Parts * tolerance * w
    BY DEF AlmostFar
<1> HIDE DEF a, b, c, most
<1>12. /\ Beyond(a) \in Nat /\ Beyond(b) \in Nat /\ Beyond(c) \in Nat
       /\ Whole > 0 => /\ Abs(a) = a + 2 * Beyond(a)
                       /\ Abs(b) = b + 2 * Beyond(b)
                       /\ Abs(c) = c + 2 * Beyond(c)
       /\ Whole < 0 => /\ Abs(a) = -a + 2 * Beyond(a)
                       /\ Abs(b) = -b + 2 * Beyond(b)
                       /\ Abs(c) = -c + 2 * Beyond(c)
    BY <1>1, <1>4, UnsignedArea
<1>13. Abs(a) \in Int /\ Abs(b) \in Int /\ Abs(c) \in Int /\ w \in Nat /\ w > 0
    BY <1>1, <1>4 DEF Abs
<1>14. /\ Abs(a) + Abs(b) + Abs(c) = w + 2 * s
       /\ height \in Int /\ signed \in Int /\ e \in Int /\ s \in Nat
       /\ Whole > 0 => height = signed + 2 * e
       /\ Whole < 0 => height = -signed + 2 * e
  <2>1. s \in Nat
      BY <1>12
  <2>2. FromSigned(a, b, c, p, q, r)
      BY <1>1, <1>4, UnsignedAreas, Zenon
  <2> QED BY <2>1, <2>2 DEF FromSigned
<1> HIDE DEF height, signed, e
<1>15. PICK h \in Int : h = Whole * g
    BY <1>1
<1>16. d \in Int /\ height - w * g = d + 2 * e
  <2>1. CASE Whole > 0
    <3>1. w * g = h
        BY <1>1, <1>15, <2>1 DEF Abs
    <3> QED BY <1>14, <1>15, <2>1, <3>1
  <2>2. CASE Whole < 0
    <3>1. w * g = -h
        BY <1>1, <1>15, <2>2 DEF Abs
    <3>2. ~(Whole > 0)
        BY <1>1, <2>2
    <3> QED BY <1>14, <1>15, <2>2, <3>1, <3>2
  <2> QED BY <1>1, <1>4, <2>1, <2>2
<1>17. Distance(x, y) = Abs(d)
    BY <1>9, <1>14, <1>15 DEF Abs
<1>18. -(s * most) <= e /\ e <= s * most
  <2>1. /\ -(Beyond(a) * most) <= Beyond(a) * p /\ Beyond(a) * p <= Beyond(a) * most
        /\ Beyond(a) * p \in Int /\ Beyond(a) * most \in Int
      BY <1>5, <1>12, WeighedBounds
  <2>2. /\ -(Beyond(b) * most) <= Beyond(b) * q /\ Beyond(b) * q <= Beyond(b) * most
        /\ Beyond(b) * q \in Int /\ Beyond(b) * most \in Int
      BY <1>5, <1>12, WeighedBounds
  <2>3. /\ -(Beyond(c) * most) <= Beyond(c) * r /\ Beyond(c) * r <= Beyond(c) * most
        /\ Beyond(c) * r \in Int /\ Beyond(c) * most \in Int
      BY <1>5, <1>12, WeighedBounds
  <2>4. s * most = Beyond(a) * most + Beyond(b) * most + Beyond(c) * most
      BY <1>5, <1>12
  <2> QED BY <2>1, <2>2, <2>3, <2>4 DEF e, Weighed
<1> HIDE DEF s, w, d
<1>19. PICK t \in Int : t = tolerance * w
    BY <1>4, <1>13
<1>20. Parts * tolerance * w = Parts * t
    BY <1>4, <1>13, <1>19 DEF Parts
<1>21. ASSUME Inside(x, y), FarFromPlane(x, y) PROVE Deviates(x, y)
  <2>1. Beyond(a) = 0 /\ Beyond(b) = 0 /\ Beyond(c) = 0
      BY <1>1, <1>4, <1>8, <1>21 DEF Beyond, Abs
  <2>2. s = 0 /\ e = 0
      BY <1>3, <2>1 DEF s, e, Weighed
  <2>3. Abs(d) > tolerance * w
      BY <1>17, <1>21 DEF FarFromPlane, w
  <2>4. height - w * g = d
      BY <1>16, <2>2
  <2>5. Abs(a) + Abs(b) + Abs(c) - w = 0
    <3>1. Abs(a) + Abs(b) + Abs(c) = w
        BY <1>13, <1>14, <2>2
    <3> QED BY <1>13, <3>1
  <2>6. Parts * 0 < w
      BY <1>13 DEF Parts
  <2> QED BY <1>7, <2>3, <2>4, <2>5, <2>6
<1>22. ASSUME Deviates(x, y) PROVE AlmostInside(x, y) /\ AlmostFar(x, y)
  <2>1. 2 * Parts * s < w
    <3>1. Parts * (Abs(a) + Abs(b) + Abs(c) - w) < w
        BY <1>7, <1>22
    <3>2. Abs(a) + Abs(b) + Abs(c) - w = 2 * s
        BY <1>13, <1>14
    <3>3. Parts * (2 * s) = 2 * Parts * s
        BY <1>14 DEF Parts
    <3> QED BY <3>1, <3>2, <3>3
  <2>2. Abs(d + 2 * e) > t
      BY <1>7, <1>16, <1>19, <1>22
  <2>3. Parts * Abs(d) + w * most > Parts * t
      BY <1>5, <1>13, <1>14, <1>16, <1>18, <2>1, <2>2, OffByLittle
  <2> QED BY <1>10, <1>11, <1>17, <1>20, <2>1, <2>3
<1> QED BY <1>21, <1>22

Grid(x, v) == \E k \in Nat : x = lowest(v) + k * step

\* Every point of the grid before the loops' position is known not to deviate.
ConditionInv ==
  /\ i \in Int /\ j \in Int
  /\ control \in {"loop", "done"}
  /\ Grid(i, vx) /\ Grid(j, vy)
  /\ \A x, y \in Int : /\ Along(x, vx) /\ Along(y, vy)
                       /\ x < i \/ (x = i /\ y < j)
                       => ~Deviates(x, y)
  /\ control = "loop" => toRefine = FALSE
  /\ control = "done" => \/ toRefine = TRUE /\ Along(i, vx) /\ Along(j, vy) /\ Deviates(i, j)
                         \/ toRefine = FALSE /\ i > highest(vx)

\* The bounds of the loops.
LEMMA Bounds ==
  ASSUME ConditionAssumption
  PROVE  /\ lowest(vx) \in Int /\ highest(vx) \in Int
         /\ lowest(vy) \in Int /\ highest(vy) \in Int
         /\ step \in Nat /\ step > 0
<1>1. /\ vx[0] \in Int /\ vx[1] \in Int /\ vx[2] \in Int
      /\ vy[0] \in Int /\ vy[1] \in Int /\ vy[2] \in Int
    BY DEF ConditionAssumption
<1> QED BY <1>1 DEF ConditionAssumption, lowest, highest

\* A grid that starts at l has its first point at l, and none between two
\* neighbouring ones.
LEMMA GridSteps ==
  ASSUME NEW l \in Int, NEW d \in Nat, d > 0, NEW k \in Nat
  PROVE  /\ l <= l + k * d
         /\ l + (k + 1) * d = (l + k * d) + d
         /\ \A m \in Nat : l + m * d < (l + k * d) + d => l + m * d <= l + k * d
<1>1. k * d \in Nat
    OBVIOUS
<1>2. ASSUME NEW m \in Nat, m > k
      PROVE  m * d >= k * d + d
  <2>1. PICK n \in Nat : m = k + 1 + n
      <3>1. m - k - 1 \in Nat /\ m = k + 1 + (m - k - 1)
          BY <1>2
      <3> QED BY <3>1
  <2>2. m * d = k * d + d + n * d /\ n * d \in Nat
      BY <2>1
  <2> QED BY <1>1, <2>2
<1>3. ASSUME NEW m \in Nat, m <= k
      PROVE  m * d <= k * d
  <2>1. PICK n \in Nat : k = m + n
      <3>1. k - m \in Nat /\ k = m + (k - m)
          BY <1>3
      <3> QED BY <3>1
  <2>2. k * d = m * d + n * d /\ n * d \in Nat /\ m * d \in Nat
      BY <2>1
  <2> QED BY <2>2
<1>4. \A m \in Nat : m * d \in Nat
    OBVIOUS
<1>5. (k + 1) * d = k * d + d
    OBVIOUS
<1> QED BY <1>1, <1>2, <1>3, <1>4, <1>5

\* The grid by its points, for a direction of the plane.
LEMMA GridPoints ==
  ASSUME NEW v, lowest(v) \in Int, step \in Nat, step > 0, NEW x \in Int, Grid(x, v)
  PROVE  /\ lowest(v) <= x
         /\ Grid(x + step, v)
         /\ \A z \in Int : Grid(z, v) /\ z < x + step => z <= x
<1>1. PICK k \in Nat : x = lowest(v) + k * step
    BY DEF Grid
<1>2. /\ lowest(v) <= x
      /\ lowest(v) + (k + 1) * step = x + step
      /\ \A m \in Nat : lowest(v) + m * step < x + step => lowest(v) + m * step <= x
    BY <1>1, GridSteps
<1>3. Grid(x + step, v)
    BY <1>2, k + 1 \in Nat DEF Grid
<1>4. ASSUME NEW z \in Int, Grid(z, v), z < x + step
      PROVE  z <= x
  <2>1. PICK m \in Nat : z = lowest(v) + m * step
      BY <1>4 DEF Grid
  <2> QED BY <1>2, <1>4, <2>1
<1> QED BY <1>2, <1>3, <1>4

\* The refinement criterion marks every triangle that a point of the grid asks
\* to refine, and no other but for the tolerance of is_inside_triangle
\* (inside_condition).
THEOREM CriterionIsRight ==
  ASSUME ConditionAssumption
  PROVE  ConditionSpec => []MarksWhatDeviates
<1>1. ConditionInit => ConditionInv
  <2> SUFFICES ASSUME ConditionInit PROVE ConditionInv
      OBVIOUS
  <2>1. Grid(i, vx) /\ Grid(j, vy)
      BY Bounds, 0 \in Nat DEF ConditionInit, Grid
  <2>2. ASSUME NEW x \in Int, NEW y \in Int, Along(x, vx), Along(y, vy)
        PROVE  x >= i /\ y >= j
      BY <2>2, Bounds, GridPoints DEF ConditionInit, Along, Grid
  <2> QED BY <2>1, <2>2, Bounds DEF ConditionInit, ConditionInv
<1>2. ConditionInv /\ [ConditionNext]_conditionVars => ConditionInv'
  <2> SUFFICES ASSUME ConditionInv, [ConditionNext]_conditionVars
               PROVE  ConditionInv'
      OBVIOUS
  <2> USE DEF ConditionInv
  <2>1. CASE Sample
    <3>1. Along(i, vx) /\ Along(j, vy)
        BY <2>1 DEF Sample, Along, Grid
    <3>2. CASE Deviates(i, j)
        BY <2>1, <3>1, <3>2 DEF Sample, Grid
    <3>3. CASE ~Deviates(i, j)
      <4>1. i' = i /\ j' = j + step /\ toRefine' = toRefine /\ control' = control /\ control = "loop"
          BY <2>1, <3>3 DEF Sample
      <4>2. j' \in Int /\ Grid(j', vy)
          BY <4>1, Bounds, GridPoints
      <4>3. ASSUME NEW x \in Int, NEW y \in Int, Along(x, vx), Along(y, vy),
                   x < i' \/ (x = i' /\ y < j')
            PROVE  ~Deviates(x, y)
        <5>1. CASE x < i \/ (x = i /\ y < j)
            BY <4>3, <5>1
        <5>2. CASE x = i /\ y >= j
          <6>1. y <= j
              BY <4>1, <4>3, <5>2, Bounds, GridPoints DEF Along, Grid
          <6> QED BY <3>3, <5>2, <6>1
        <5> QED BY <4>1, <4>3, <5>1, <5>2
      <4> QED BY <4>1, <4>2, <4>3 DEF Grid
    <3> QED BY <3>2, <3>3
  <2>2. CASE NextColumn
    <3>1. /\ i' = i + step /\ j' = lowest(vy) /\ toRefine' = toRefine
          /\ control' = control /\ control = "loop" /\ j > highest(vy)
        BY <2>2 DEF NextColumn
    <3>2. i' \in Int /\ Grid(i', vx)
        BY <3>1, Bounds, GridPoints
    <3>3. j' \in Int /\ Grid(j', vy)
        BY <3>1, Bounds, 0 \in Nat DEF Grid
    <3>4. ASSUME NEW x \in Int, NEW y \in Int, Along(x, vx), Along(y, vy),
                 x < i' \/ (x = i' /\ y < j')
          PROVE  ~Deviates(x, y)
      <4>1. y >= j'
          BY <3>1, <3>4, Bounds, GridPoints DEF Along, Grid
      <4>2. x <= i
          BY <3>1, <3>4, <4>1, <3>3, Bounds, GridPoints DEF Along, Grid
      <4>3. y < j
          BY <3>1, <3>4, Bounds DEF Along
      <4> QED BY <3>4, <4>2, <4>3
    <3> QED BY <3>1, <3>2, <3>3, <3>4 DEF Grid
  <2>3. CASE NothingDeviates
      BY <2>3 DEF NothingDeviates, Grid
  <2>4. CASE UNCHANGED conditionVars
      BY <2>4 DEF conditionVars, Grid
  <2> QED BY <2>1, <2>2, <2>3, <2>4 DEF ConditionNext
<1>3. ConditionInv => MarksWhatDeviates
  <2> SUFFICES ASSUME ConditionInv, control = "done"
               PROVE  toRefine <=> \E x, y \in Int :
                        Along(x, vx) /\ Along(y, vy) /\ Deviates(x, y)
      BY SampleIsRight DEF MarksWhatDeviates
  <2>1. CASE toRefine = TRUE /\ Along(i, vx) /\ Along(j, vy) /\ Deviates(i, j)
      BY <2>1 DEF ConditionInv
  <2>2. CASE toRefine = FALSE /\ i > highest(vx)
    <3>1. ASSUME NEW x \in Int, NEW y \in Int, Along(x, vx), Along(y, vy)
          PROVE  ~Deviates(x, y)
      <4>1. x < i
          BY <2>2, <3>1, Bounds DEF Along, ConditionInv
      <4> QED BY <3>1, <4>1 DEF ConditionInv
    <3> QED BY <2>2, <3>1
  <2> QED BY <2>1, <2>2 DEF ConditionInv
<1> QED BY <1>1, <1>2, <1>3, PTL DEF ConditionSpec
=============================================================================
