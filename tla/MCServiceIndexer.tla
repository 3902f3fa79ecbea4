---------------------------- MODULE MCServiceIndexer ----------------------------
(* Small instances of ServiceIndexer for TLC. *)
EXTENDS ServiceIndexer, TLC

CONSTANTS p1, p2

\* No NodePort, one, the same one for TCP and UDP, another one, and two.
ManySpecs ==
  {[p \in NodePorts |-> 0],
   [p \in NodePorts |-> IF p = p1 THEN 1 ELSE 0],
   [p \in NodePorts |-> IF p = p1 THEN 2 ELSE 0],
   [p \in NodePorts |-> IF p = p2 THEN 1 ELSE 0],
   [p \in NodePorts |-> 1]}

\* Two Services that differ, for the run that ends at a missed deletion.
FewSpecs ==
  {[p \in NodePorts |-> IF p = p1 THEN 1 ELSE 0],
   [p \in NodePorts |-> IF p = p2 THEN 1 ELSE 0]}
=============================================================================
