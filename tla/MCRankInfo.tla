----------------------------- MODULE MCRankInfo -----------------------------
(* Instances of RankInfo for TLC. *)
EXTENDS RankInfo, TLC

\* Nothing compares ranks.
Permuted == Permutations(Ranks)
=============================================================================
