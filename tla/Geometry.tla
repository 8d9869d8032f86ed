------------------------------ MODULE Geometry ------------------------------
(***************************************************************************)
(* Points of the terrain and the comparisons of lengths the productions    *)
(* make (model/Coordinates.h, utils/utils.h).                              *)
(*                                                                         *)
(* A vertex of the mesh is the tuple <<x, y, z, k>>: its position on an    *)
(* integer grid, its height, and the number of vertices that were already  *)
(* at that position when it was created (k = 0 unless vertices coincide).  *)
(* Vertices never move.  Lengths are kept as exact squares: on a grid of   *)
(* metres two different lengths below 1000 differ by more than EPS, so     *)
(* less, greater and equals with the tolerance EPS = 1e-4 are the exact    *)
(* comparisons here.                                                       *)
(***************************************************************************)
EXTENDS Integers

CONSTANT Version2D     \* config.version2D: lengths ignore the heights

XY(v) == <<v[1], v[2]>>

\* The position half way between two vertices.
MiddleXY(u, v) == <<(u[1] + v[1]) \div 2, (u[2] + v[2]) \div 2>>

\* A vertex or position is half way: not so if the grid is too coarse for it.
HalfWay(h, u, v) == 2 * h[1] = u[1] + v[1] /\ 2 * h[2] = u[2] + v[2]

\* Twice the area of the triangle a, b, c, negative if they are clockwise.
Turn(a, b, c) == (b[1] - a[1]) * (c[2] - a[2]) - (b[2] - a[2]) * (c[1] - a[1])

Sqr(n) == n * n

\* The square of dist: dist2D or dist3D by version2D.
SqDist(u, v) ==
  Sqr(u[1] - v[1]) + Sqr(u[2] - v[2])
    + IF Version2D THEN 0 ELSE Sqr(u[3] - v[3])

\* less(sqrt(a) + sqrt(b), sqrt(c)) for squared lengths a, b and c.
SumLess(a, b, c) ==
  /\ c > a + b
  /\ 4 * a * b < Sqr(c - a - b)
=============================================================================
