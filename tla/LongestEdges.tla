---------------------------- MODULE LongestEdges ----------------------------
(***************************************************************************)
(* utils.h: lengths that differ by less than EPS are equal.  That equality *)
(* is not transitive, and indexesOfMaxElems compares with a running        *)
(* maximum only, so what it returns depends on the order of the lengths.   *)
(* A length is a multiple of some small unit.                              *)
(***************************************************************************)
EXTENDS Integers

CONSTANTS
  Size,      \* elems.size()
  Lengths,
  EPS

\* What the theorems take the constants to be.
LengthsAssumption ==
  Size \in Nat \ {0} /\ EPS \in Nat \ {0} /\ Lengths \subseteq Int

Indexes == 0 .. Size - 1

VARIABLES
  elems, currentMax,
  index,     \* i
  result     \* in increasing order: the loop appends the index

maxVars == <<elems, index, currentMax, result>>

equals(a, b) == a - b < EPS /\ b - a < EPS
greater(a, b) == a - b >= EPS
less(a, b) == a - b <= -EPS

MaxInit ==
  /\ elems \in [Indexes -> Lengths]
  /\ index = 1
  /\ currentMax = elems[0]
  /\ result = {0}

NewMax == result' = {index}

\* An iteration of the loop.
Iterate ==
  /\ index < Size
  /\ \/ /\ greater(elems[index], currentMax)
        /\ NewMax
        /\ currentMax' = elems[index]
     \/ /\ equals(elems[index], currentMax)
        /\ result' = result \cup {index}
        /\ UNCHANGED currentMax
     \/ /\ less(elems[index], currentMax)
        /\ UNCHANGED <<result, currentMax>>
  /\ index' = index + 1
  /\ UNCHANGED elems

MaxSpec == MaxInit /\ [][Iterate]_maxVars

\* getLongestEdges of ProductionState, which compares each with the others.
getLongestEdges == {e \in Indexes : \A f \in Indexes \ {e} : ~less(elems[e], elems[f])}

-----------------------------------------------------------------------------
Returned == index = Size

\* The edges that Productions 4 to 6 choose from (indexesOfMaxElems of the sides)
\* include each longest one, in whatever order near ties come, and none that is
\* shorter than the longest by twice the tolerance.
LongestFound ==
  Returned =>
    /\ \A e \in Indexes : (\A f \in Indexes : elems[f] <= elems[e]) => e \in result
    /\ \A e \in result : \A f \in Indexes : elems[f] - elems[e] < 2 * EPS

\* Productions 1 and 3 choose from the edges that are shorter than no other by
\* the tolerance (getLongestEdges).  What indexesOfMaxElems returns for the same
\* lengths always shares an edge with these, though neither need be a part of
\* the other.
LongestAgree == Returned => result \cap getLongestEdges # {}
=============================================================================
