---------------------------- MODULE MCSequential ----------------------------
(* Terrains for model checking SequentialMesh. *)
EXTENDS SequentialMesh

Square == [n \in 0..3 |-> <<64 * (n \div 2), 64 * (n % 2)>>]

\* Level corners; elsewhere any terrain with two heights.
Rolling(p) == IF \E n \in 0..3 : p = Square[n] THEN {0} ELSE {0, 90}

\* The terrain deviates from the triangles at its north-east corner, and may
\* deviate from those at its south-west corner.
NearCorners(i) ==
  LET at == {XY(i[e]) : e \in Sides} IN
  IF Square[3] \in at THEN {TRUE} ELSE IF Square[0] \in at THEN BOOLEAN ELSE {FALSE}
=============================================================================
