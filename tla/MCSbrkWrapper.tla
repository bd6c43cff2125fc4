--------------------------- MODULE MCSbrkWrapper ---------------------------
(* Instances of SbrkWrapper for TLC. *)
EXTENDS SbrkWrapper

\* Part of a page, a page, more than a page, in both directions.
MCIncrements == {-7, -4, -1, 1, 4, 7}
\* The page right above the reservation belongs to somebody else.
Adjacent == {Base + HEAP_PAGES}
=============================================================================
