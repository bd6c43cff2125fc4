---------------------------- MODULE MCRankSpace ----------------------------
(* Instances of RankSpace for TLC. *)
EXTENDS RankSpace

\* Of the windows of two pages, [2, 4) on, two are used.  The pages 8 and 11
\* are free when nothing is booked, the lower half has 1, 12 and 13.
TwoRanks == {0, 2}
=============================================================================
