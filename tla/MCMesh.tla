------------------------------- MODULE MCMesh -------------------------------
(* Terrains for model checking MeshRefinement. *)
EXTENDS MeshRefinement

Strip == [n \in 0..3 |-> <<32 * (n \div 2), 8 * (n % 2)>>]

\* A steep strip: three peaks of 60 on an otherwise level terrain.
Peaks == {<<0, 8>>, <<8, 4>>, <<16, 8>>}
Steep(p) == IF p \in Peaks THEN {60} ELSE {0}

\* The lower of the two first triangles deviates, and two of those that come
\* of it: enough for every production to be needed in the second step.
Deviating == {{<<0, 0>>, <<32, 8>>, <<32, 0>>},
              {<<8, 4>>, <<32, 8>>, <<16, 8>>},
              {<<8, 4>>, <<0, 8>>, <<0, 0>>}}
Deviates(i) == {{XY(i[e]) : e \in Sides} \in Deviating}
=============================================================================
