----------------------------- MODULE MCSafepoint -----------------------------
(* Instances of Safepoint for TLC: interchangeable requesters.             *)
EXTENDS Safepoint, TLC

Symmetry == Permutations(Requesters)
=============================================================================
