--------------------------- MODULE MCK8SClientManager ---------------------------
(* Small instances of K8SClientManager for TLC. No symmetry: the safety run    *)
(* also checks a temporal property, the refinement.                            *)
EXTENDS K8SClientManager, TLC
=============================================================================
