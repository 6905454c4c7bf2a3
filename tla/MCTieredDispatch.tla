-------------------------- MODULE MCTieredDispatch --------------------------
(* Instances of TieredDispatch for TLC: thresholds as small as those of    *)
(* test_tier_manager.cpp.                                                  *)
EXTENDS TieredDispatch, TLC

(* The thresholds of CorrectResultsAcrossTiers, and lower ones.            *)
Policies == {<<2, 4, 6>>, <<1, 3, 4>>}
=============================================================================
