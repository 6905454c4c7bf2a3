------------------------------ MODULE MCEpochGC ------------------------------
(* Instances of EpochGC for TLC: Owner and its readers, interchangeable    *)
(* readers and interchangeable nodes.                                      *)
EXTENDS EpochGC, TLC

Symmetry == Permutations(Threads \ {Owner}) \cup Permutations(Nodes)
=============================================================================
