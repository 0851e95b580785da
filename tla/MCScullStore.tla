---------------------------- MODULE MCScullStore ----------------------------
(* Instances of ScullStore for TLC.  Tasks and nodes are interchangeable.   *)
EXTENDS ScullStore, TLC

Symmetric == Permutations(Task) \cup Permutations(Node)
=============================================================================
