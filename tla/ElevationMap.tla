---------------------------- MODULE ElevationMap ----------------------------
(***************************************************************************)
(* Map::get_height on the map that SrtmReader has read: the height at a    *)
(* position from the four cells around it.  The cells lie on rounded       *)
(* borders and positions are taken from the borders as they were given.    *)
(* Heights are linear in the cells: a height is the weights of the cells.  *)
(***************************************************************************)
EXTENDS SrtmReader

VARIABLE height   \* the position asked for, and the cells' weights times Part^2

terrainVars == <<readerVars, height>>

Cells == (0 .. Rows - 1) \X (0 .. Cols - 1)

\* An index that a rounding gives, brought back into the map.
ClampEarly(k, n) ==                      \* mutant: the last index is never used
  IF n > 1 /\ k > n - 2 THEN n - 2 ELSE IF k < 0 THEN 0 ELSE k
Clamp(k, n) == IF k > n - 1 THEN n - 1 ELSE IF k < 0 THEN 0 ELSE k

get_height_wo_interpol(row, col) == <<Clamp(row, Rows), Clamp(col, Cols)>>

get_height(lat, lon) ==
  LET y == north_border - lat   x == lon - west_border
      top == Floor2(y, Part)    bottom == Ceil2(y, Part)
      left == Floor2(x, Part)   right == Ceil2(x, Part)
      fx == x - Part * left
      fy == Abs(y) - Part * Floor2(Abs(y), Part)
      weight(c, corner, w) == IF c = corner THEN w ELSE 0
  IN  [c \in Cells |->
           weight(c, get_height_wo_interpol(top, left), (Part - fx) * (Part - fy))
         + weight(c, get_height_wo_interpol(top, right), fx * (Part - fy))
         + weight(c, get_height_wo_interpol(bottom, right), fx * fy)
         + weight(c, get_height_wo_interpol(bottom, left), (Part - fx) * fy)]

TerrainInit == ReaderInit /\ height = <<>>

ReadTerrain == ReaderNext /\ UNCHANGED height

\* A bound: one height, of a map in which no value was replaced; the weights do
\* not depend on the values.
HeightIsAsked == height = <<>> /\ bad = {}

\* The mesh's edges are straight in UTM and bend away from the parallels and
\* meridians of the borders, so that heights are asked for in the rectangle and
\* beyond it; a bound: by one cell.  A map without cells has no heights.
GetHeight(lat, lon) ==
  /\ HeightIsAsked
  /\ pc = "done"
  /\ Cells # {}
  /\ height' = <<lat, lon, get_height(lat, lon)>>
  /\ UNCHANGED readerVars

TerrainNext ==
  \/ ReadTerrain
  \/ \E lat \in south_border - Part .. north_border + Part,
        lon \in west_border - Part .. east_border + Part : GetHeight(lat, lon)

TerrainSpec == TerrainInit /\ [][TerrainNext]_terrainVars

-----------------------------------------------------------------------------
\* Bilinear interpolation, cell by cell: a cell weighs Part minus the distance,
\* in both directions, at the nearest position inside the grid of cells.
Tent(p, k, n) ==
  Max({0, Part - Abs(Min({p, (n - 1) * Part}) - k * Part)})

\* Not beyond the north and west borders, where rounding does not go down.
NotBefore == height[1] <= north_border /\ height[2] >= west_border

\* "using bilinear interpolation" (Map.cpp): on cells, between them and south and
\* east of the last ones, beyond the borders too, the height is the interpolation
\* of the cells; the indices that are brought back into the map never pair a cell
\* with the weight of another.
InterpolatesInside ==
  height # <<>> /\ NotBefore =>
    \A c \in Cells : height[3][c] = Tent(north_border - height[1], c[1], Rows)
                                      * Tent(height[2] - west_border, c[2], Cols)

\* The mean of the places in the terrain that the cells' values are of.
Mean(k) == MapThenSumSet(LAMBDA c : height[3][c] * Part * map_data[c][k], Cells)

\* The mean differs from a position by at most some halves of a cell.
Within(mean, position, halves) ==
  2 * Abs(mean - Part * Part * position) <= halves * Part * Part * Part

\* From the files to the heights: a height is interpolated from values of the
\* terrain around the place it is asked for.  It is off by up to half a cell,
\* the rounding of the borders, and by one cell more in the margin south and
\* east of the last cells, wherever the rectangle lies on the tiles.
HeightsAreOfTheirPlace ==
  height # <<>> /\ NotBefore =>
    /\ height[1] >= south_border => Within(Mean(1), height[1], 3)
    /\ height[2] <= east_border => Within(Mean(2), height[2], 3)
    /\ north_border - height[1] <= (Rows - 1) * Part => Within(Mean(1), height[1], 1)
    /\ height[2] - west_border <= (Cols - 1) * Part => Within(Mean(2), height[2], 1)
=============================================================================
