---------------------------- MODULE MCImageFile ----------------------------
(* Instances of ImageFile for TLC. *)
EXTENDS ImageFile

\* Where the data of the first region is lost, the header and the data of the
\* second fit in its place.
ThreeRegions == <<3, 1, 2>>
=============================================================================
