---------------------------- MODULE MCMeshWriter ----------------------------
(***************************************************************************)
(* The writer on the initial mesh: a square cut by its diagonal.           *)
(***************************************************************************)
EXTENDS MeshWriter

CONSTANTS v0, v1, v2, v3, t0, t1

Square == {{v0, v1}, {v1, v3}, {v2, v3}, {v0, v2}}

InitialLinks ==
  Square \cup {{v0, v3}}
    \cup {{t0, v} : v \in {v0, v1, v3}} \cup {{t1, v} : v \in {v0, v3, v2}}
=============================================================================
