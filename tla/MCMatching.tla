----------------------------- MODULE MCMatching -----------------------------
(* Small instances of Matching for TLC.                                    *)
EXTENDS MatchingRefinement, TLC

(* Ids and traders are only compared, never ordered or computed with.      *)
IdAndTraderSymmetry == Permutations(Ids) \cup Permutations(Traders)
=============================================================================
