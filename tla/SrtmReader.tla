----------------------------- MODULE SrtmReader -----------------------------
(***************************************************************************)
(* SrtmReader: a rectangle of the terrain is put together from tiles of    *)
(* one degree, each in a file of its own whose first and last rows and     *)
(* columns are those of its neighbours; then values that cannot be heights *)
(* are replaced.  Borders are in parts of a degree, Part to a cell.        *)
(***************************************************************************)
EXTENDS Rounding, FiniteSetsExt

CONSTANTS
  V,          \* VALUES_IN_DEGREE
  Part,       \* borders are multiples of 1/Part of a cell
  Degrees     \* bound on the borders: 0 .. Degrees

ASSUME ReaderAssumption == {V, Part, Degrees} \subseteq Nat \ {0}

Degree == V * Part
Borders == {b \in (0 .. Degrees * Degree) \X (0 .. Degrees * Degree) : b[1] < b[2]}

VARIABLES
  pc,
  ns, we,                   \* the borders: south and north, west and east
  north_ptr, south_ptr, west_ptr, east_ptr,
  first_free_row, first_free_col,
  map_data,                 \* for each cell, the position its value is of
  bad                       \* rows with values that cannot be heights

ptrVars == <<north_ptr, south_ptr, west_ptr, east_ptr, first_free_row, first_free_col>>
readerVars == <<pc, ns, we, ptrVars, map_data, bad>>

south_border == ns[1]
north_border == ns[2]
west_border == we[1]
east_border == we[2]

\* Whole degrees, in parts.
FloorDegree(a) == Degree * Floor2(a, Degree)
CeilDegree(a) == Degree * Ceil2(a, Degree)
border_to_int(b) == Round(b, Part)

Rows == border_to_int(north_border) - border_to_int(south_border)
Cols == border_to_int(east_border) - border_to_int(west_border)

\* The south end of the first tiles.
FirstSouth ==
  LET s == Max({FloorDegree(north_border), south_border})
  IN  IF s = north_border THEN Max({north_border - Degree, south_border}) ELSE s

ReaderInit ==
  /\ pc = "rows"
  /\ ns \in Borders
  /\ we \in Borders
  /\ north_ptr = north_border
  /\ south_ptr = FirstSouth
  /\ west_ptr = 0
  /\ east_ptr = 0
  /\ first_free_row = 0
  /\ first_free_col = 0
  /\ map_data = [c \in {} |-> <<>>]
  /\ bad = {}

-----------------------------------------------------------------------------
\* get_filename: the latitude of a tile's south end, the longitude of its west.
Tile(north, west) ==
  <<IF Rem(north, V) = 0 /\ north >= 0 THEN Trunc(north, V) - 1
    ELSE Trunc(north, V) + (IF north < 0 /\ Rem(north, V) # 0 THEN 1 ELSE 0),
    Trunc(west, V) + (IF west < 0 /\ Rem(west, V) # 0 THEN 1 ELSE 0)>>

\* The place in the file where reading starts; a row has V + 1 values.
Seek(north, west) == Rem(V - Rem(north, V), V) * (V + 1) + Rem(west, V)

NoPlace == <<>>

\* The position, in cells north and east of zero, of a value of a tile: the first
\* row is the north end of the tile.  There is no value after the last.
Position(tile, k) ==
  IF k < (V + 1) * (V + 1)
    THEN <<(tile[1] + 1) * V - k \div (V + 1), tile[2] * V + (k % (V + 1))>>
    ELSE NoPlace

\* read_from_file: rows of cols values each; the file pointer then moves on by
\* V + 1 - cols.
SkipShortRow(cols) == V - cols             \* mutant: rows are taken to have V values
SkipToNextRow(cols) == V + 1 - cols

Read(north, west, rows, cols) ==
  [c \in (first_free_row .. first_free_row + rows - 1)
           \X (first_free_col .. first_free_col + cols - 1) |->
     Position(Tile(north, west),
              Seek(north, west) + (c[1] - first_free_row) * (cols + SkipToNextRow(cols))
                + (c[2] - first_free_col))]

RowsHere == Abs(border_to_int(north_ptr) - border_to_int(south_ptr))
ColsHere == Abs(border_to_int(east_ptr) - border_to_int(west_ptr))

StartRow ==
  /\ pc = "rows"
  /\ north_ptr > south_border
  /\ west_ptr' = west_border
  /\ east_ptr' = Min({CeilDegree(west_border), east_border})
  /\ first_free_col' = 0
  /\ pc' = "cols"
  /\ UNCHANGED <<ns, we, north_ptr, south_ptr, first_free_row, map_data, bad>>

ReadTile ==
  /\ pc = "cols"
  /\ west_ptr < east_border
  /\ LET new == Read(border_to_int(north_ptr), border_to_int(west_ptr), RowsHere, ColsHere)
     IN  map_data' = [c \in DOMAIN map_data \cup DOMAIN new |->
                        IF c \in DOMAIN new THEN new[c] ELSE map_data[c]]
  /\ first_free_col' = first_free_col + ColsHere
  /\ west_ptr' = FloorDegree(west_ptr + Degree)
  /\ east_ptr' = Min({east_ptr + Degree, east_border})
  /\ UNCHANGED <<pc, ns, we, north_ptr, south_ptr, first_free_row, bad>>

\* The next row of tiles starts at the next whole degree.
NextNorthFloor(n) == FloorDegree(n)        \* mutant: no case for whole degrees
NextNorth(n) == IF FloorDegree(n) = n THEN n - Degree ELSE FloorDegree(n)

EndRow ==
  /\ pc = "cols"
  /\ west_ptr >= east_border
  /\ first_free_row' = first_free_row + RowsHere
  /\ north_ptr' = NextNorth(north_ptr)
  /\ south_ptr' = Max({south_ptr - Degree, south_border})
  /\ pc' = "rows"
  /\ UNCHANGED <<ns, we, west_ptr, east_ptr, first_free_col, map_data, bad>>

\* What the tiles hold: rows with values that cannot be heights.  skip_outliers
\* treats the columns one by one and alike.
EndTiles ==
  /\ pc = "rows"
  /\ north_ptr <= south_border
  /\ bad' \in SUBSET (0 .. Rows - 1)
  /\ pc' = "outliers"
  /\ UNCHANGED <<ns, we, ptrVars, map_data>>

\* The row whose value row i has after skip_outliers.
SourceAbove(i) ==                          \* mutant: the value above may be bad as well
  IF i \notin bad THEN i ELSE Abs(i - 1)
Source(i) ==
  LET source[k \in Nat] ==
        IF k \notin bad THEN k
        ELSE IF k = 0 THEN 1
        ELSE source[k - 1]
  IN  source[i]

\* In a map of one row there is nothing to read below the first.
SkipOutliers ==
  /\ pc = "outliers"
  /\ map_data' = [c \in DOMAIN map_data |->
                   IF Source(c[1]) < Rows THEN map_data[<<Source(c[1]), c[2]>>] ELSE NoPlace]
  /\ pc' = "done"
  /\ UNCHANGED <<ns, we, ptrVars, bad>>

ReaderNext == StartRow \/ ReadTile \/ EndRow \/ EndTiles \/ SkipOutliers

ReaderSpec == ReaderInit /\ [][ReaderNext]_readerVars

-----------------------------------------------------------------------------
\* read_from_multiple_files fills the map: every cell once the tiles are read, and
\* each with the value of its own position, wherever the rectangle lies on the
\* tiles and however its borders are rounded; nothing is written outside.
CellsAreTheirPositions ==
  /\ \A c \in DOMAIN map_data :
       /\ c \in (0 .. Rows - 1) \X (0 .. Cols - 1)
       /\ pc # "done" => map_data[c] = <<border_to_int(north_border) - c[1],
                                         border_to_int(west_border) + c[2]>>
  /\ pc \in {"outliers", "done"} =>
       DOMAIN map_data = (0 .. Rows - 1) \X (0 .. Cols - 1)

\* skip_outliers leaves no value that cannot be a height, unless the two first
\* rows have none that can; and it replaces a value by the nearest good one
\* above it.
OutliersAreReplaced ==
  pc = "done" /\ Rows > 1 /\ ~({0, 1} \subseteq bad) =>
    \A c \in DOMAIN map_data :
      LET row == border_to_int(north_border) - map_data[c][1]
          above == {i \in 0 .. c[1] : i \notin bad}
      IN  row = IF above = {} THEN 1 ELSE Max(above)

\* Reading ends: with every tile west_ptr moves east, and with every row of
\* tiles north_ptr moves south, by no more than a degree; floor2 and ceil2 would
\* stand still on whole degrees but for their special cases.
ReadingAdvances ==
  [][/\ pc = "cols" /\ pc' = "cols" => west_ptr' \in west_ptr + 1 .. west_ptr + Degree
     /\ pc = "cols" /\ pc' = "rows" => north_ptr' \in north_ptr - Degree .. north_ptr - 1
    ]_readerVars
=============================================================================
