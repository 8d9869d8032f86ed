-------------------------- MODULE TerrainCondition --------------------------
(***************************************************************************)
(* TerrainConditionChecker: a triangle is to be refined if the terrain is  *)
(* further from it than the tolerance at one of the points of a grid that  *)
(* starts at the corner of its bounding box.  Lengths are multiples of     *)
(* some small unit.  Areas are twice the areas of the code and heights are *)
(* multiplied by the triangle's, so that all is whole and exact; doubles   *)
(* are not rounded.                                                        *)
(***************************************************************************)
EXTENDS Integers

CONSTANTS
  vx, vy, vz,       \* verticesCoords
  step,             \* 90 m or the width of a cell
  tolerance,
  get_height(_, _)  \* of the map

VARIABLES
  i, j,      \* the loops' variables
  toRefine,
  control    \* in the loops or past them

conditionVars == <<i, j, toRefine, control>>

lowest(v) ==
  LET least(a, b) == IF a < b THEN a ELSE b IN least(v[2], least(v[0], v[1]))
highest(v) ==
  LET most(a, b) == IF a > b THEN a ELSE b IN most(v[2], most(v[0], v[1]))

Abs(a) == IF a >= 0 THEN a ELSE -a

\* Twice the area of the triangle abc, positive if it turns left.
Cross(ax, ay, bx, by, cx, cy) == (bx - ax) * (cy - ay) - (by - ay) * (cx - ax)

\* The triangle's, and that of a point and the vertices a and b.
Whole == Cross(vx[0], vy[0], vx[1], vy[1], vx[2], vy[2])
Opposite(x, y, a, b) == Cross(x, y, vx[a], vy[a], vx[b], vy[b])

triangle_area == Abs(Whole)

\* compute_barycentric_coords, for the vertices 0, 1 and 2.
barycentric(x, y) ==
  <<Abs(Opposite(x, y, 1, 2)), Abs(Opposite(x, y, 2, 0)), Abs(Opposite(x, y, 0, 1))>>

Parts == 10000      \* 1 / EPS of utils.h

\* The weights are not greater than 1 by EPS.
is_inside_triangle(b) == Parts * (b[1] + b[2] + b[3] - triangle_area) < triangle_area

Deviates(x, y) ==
  LET b == barycentric(x, y)
      height == b[1] * vz[0] + b[2] * vz[1] + b[3] * vz[2]
  IN  /\ is_inside_triangle(b)
      /\ Abs(height - triangle_area * get_height(x, y)) > tolerance * triangle_area

ConditionInit ==
  /\ i = lowest(vx)
  /\ j = lowest(vy)
  /\ toRefine = FALSE
  /\ control = "loop"

\* An iteration of the inner loop.
Sample ==
  /\ control = "loop"
  /\ i <= highest(vx)
  /\ j <= highest(vy)
  /\ \/ /\ Deviates(i, j)
        /\ toRefine' = TRUE
        /\ control' = "done"
        /\ UNCHANGED <<i, j>>
     \/ /\ ~Deviates(i, j)
        /\ j' = j + step
        /\ UNCHANGED <<i, toRefine, control>>

NextColumn ==
  /\ control = "loop"
  /\ i <= highest(vx)
  /\ j > highest(vy)
  /\ i' = i + step
  /\ j' = lowest(vy)
  /\ UNCHANGED <<toRefine, control>>

NothingDeviates ==
  /\ control = "loop"
  /\ i > highest(vx)
  /\ control' = "done"
  /\ UNCHANGED <<i, j, toRefine>>

ConditionNext == Sample \/ NextColumn \/ NothingDeviates

ConditionSpec == ConditionInit /\ [][ConditionNext]_conditionVars

-----------------------------------------------------------------------------
\* The points of the grid.
Along(x, v) == x <= highest(v) /\ \E k \in Nat : x = lowest(v) + k * step

\* A point is in the triangle if it lies on no wrong side of an edge.
Inside(x, y) ==
  LET a == Opposite(x, y, 1, 2)  b == Opposite(x, y, 2, 0)  c == Opposite(x, y, 0, 1)
  IN  (a >= 0 /\ b >= 0 /\ c >= 0) \/ (a <= 0 /\ b <= 0 /\ c <= 0)

\* The area between an edge and a point on its wrong side.
Beyond(area) == IF (area < 0) = (Whole < 0) THEN 0 ELSE Abs(area)

\* A point is at most a little outside: the areas that are on wrong sides are
\* less than half of EPS of the triangle.
AlmostInside(x, y) ==
  2 * Parts * (Beyond(Opposite(x, y, 1, 2)) + Beyond(Opposite(x, y, 2, 0))
                 + Beyond(Opposite(x, y, 0, 1)))
    < Abs(Whole)

\* The plane through the vertices, by the normal vector, times its third part.
Plane(x, y) ==
  LET nx == (vy[1] - vy[0]) * (vz[2] - vz[0]) - (vz[1] - vz[0]) * (vy[2] - vy[0])
      ny == (vz[1] - vz[0]) * (vx[2] - vx[0]) - (vx[1] - vx[0]) * (vz[2] - vz[0])
  IN  Whole * vz[0] - nx * (x - vx[0]) - ny * (y - vy[0])

Distance(x, y) == Abs(Plane(x, y) - Whole * get_height(x, y))

FarFromPlane(x, y) == Distance(x, y) > tolerance * Abs(Whole)

\* Further than the tolerance less EPS of the height of the vertices, which the
\* weights of a point outside can add.
AlmostFar(x, y) ==
  Parts * Distance(x, y) + Abs(Whole) * highest([k \in 0 .. 2 |-> Abs(vz[k])])
    > Parts * tolerance * Abs(Whole)

\* inside_condition marks a triangle if at some point of the grid that the
\* triangle covers, its edges included, its plane is further from the terrain
\* than the tolerance; and it marks no triangle without such a point, up to
\* what the comparison of the weights with a tolerance lets through: a point
\* may be a little outside, and its height off by EPS of that of the vertices.
MarksWhatDeviates ==
  control = "done" =>
    /\ (\E x, y \in Int : /\ Along(x, vx) /\ Along(y, vy)
                          /\ Inside(x, y) /\ FarFromPlane(x, y)) => toRefine
    /\ toRefine => \E x, y \in Int : /\ Along(x, vx) /\ Along(y, vy)
                                     /\ AlmostInside(x, y) /\ AlmostFar(x, y)

\* What the theorem takes the constants to be: a triangle with an area.
ConditionAssumption ==
  /\ {vx, vy, vz} \subseteq [0 .. 2 -> Int]
  /\ Whole # 0
  /\ step \in Nat \ {0}
  /\ tolerance \in Nat
  /\ \A x, y \in Int : get_height(x, y) \in Int
=============================================================================
