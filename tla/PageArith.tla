----------------------------- MODULE PageArith -----------------------------
(***************************************************************************)
(* Page arithmetic and the two predicates on address ranges that the       *)
(* checkpoint and the restart share (common.h, ckpt-restart.h).  Addresses *)
(* are natural numbers: a user address is below 2^47, so no sum of an      *)
(* address and a size wraps.                                               *)
(***************************************************************************)
EXTENDS Integers

CONSTANT PAGE_SIZE

ASSUME PageSizeAssumption == PAGE_SIZE \in Nat \ {0}

ROUND_DOWN(x) == (x \div PAGE_SIZE) * PAGE_SIZE
ROUND_UP(x) == ROUND_DOWN(x + PAGE_SIZE - 1)

\* Is the needle inside the haystack?
regionContains(haystackStart, haystackEnd, needleStart, needleEnd) ==
  needleStart >= haystackStart /\ needleEnd <= haystackEnd

doAreasOverlap(addr1, size1, addr2, size2) ==
  \/ addr1 >= addr2 /\ addr1 < addr2 + size2
  \/ addr2 >= addr1 /\ addr2 < addr1 + size1
=============================================================================
