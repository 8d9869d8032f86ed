----------------------------- MODULE MCParallel -----------------------------
(* A terrain for model checking ParallelMesh. *)
EXTENDS ParallelMesh, TLC

\* A steep strip with two peaks, from whose lower half the terrain deviates.
Strip == [n \in 0..3 |-> <<32 * (n \div 2), 8 * (n % 2)>>]
Steep(p) == IF p \in {<<0, 8>>, <<16, 8>>} THEN {60} ELSE {0}
Deviates(i) == {{XY(i[e]) : e \in Sides} = {<<0, 0>>, <<32, 8>>, <<32, 0>>}}

Symmetry == Permutations(Threads)
=============================================================================
