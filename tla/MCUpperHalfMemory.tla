------------------------- MODULE MCUpperHalfMemory -------------------------
(* Instances of UpperHalfMemory for TLC. *)
EXTENDS UpperHalfMemory

\* A lower half at the bottom, the heap reservation and the stack, with a
\* free page below the one and three between them.
Heap == [lo |-> 3, hi |-> 5]
Stack == [lo |-> 8, hi |-> 9]
OneBuild == {{1}}
\* The second build also occupies a page where the first one left room.
TwoBuilds == {{1}, {1, 7}}

AnonymousAndFiles == {"rw"} \cup Files
Anonymous == {"rw"}
=============================================================================
