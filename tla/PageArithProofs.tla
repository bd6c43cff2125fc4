-------------------------- MODULE PageArithProofs --------------------------
(***************************************************************************)
(* Facts about page arithmetic and address ranges, for every page size.    *)
(***************************************************************************)
EXTENDS PageArith, TLAPS

\* Between two multiples of the page size lies a whole page.
LEMMA Multiples ==
  ASSUME NEW j \in Nat, NEW k \in Nat, j * PAGE_SIZE < k * PAGE_SIZE
  PROVE  j * PAGE_SIZE + PAGE_SIZE <= k * PAGE_SIZE
BY PageSizeAssumption

LEMMA RoundDown ==
  ASSUME NEW x \in Nat
  PROVE  /\ ROUND_DOWN(x) \in Nat
         /\ ROUND_DOWN(x) <= x
         /\ x < ROUND_DOWN(x) + PAGE_SIZE
         /\ \E k \in Nat : ROUND_DOWN(x) = k * PAGE_SIZE
BY PageSizeAssumption DEF ROUND_DOWN

LEMMA RoundUp ==
  ASSUME NEW x \in Nat
  PROVE  /\ ROUND_UP(x) \in Nat
         /\ x <= ROUND_UP(x)
         /\ ROUND_UP(x) < x + PAGE_SIZE
         /\ \E k \in Nat : ROUND_UP(x) = k * PAGE_SIZE
<1> DEFINE y == x + PAGE_SIZE - 1
<1>1. y \in Nat
  BY PageSizeAssumption
<1>2. /\ ROUND_DOWN(y) \in Nat
      /\ ROUND_DOWN(y) <= y
      /\ y < ROUND_DOWN(y) + PAGE_SIZE
      /\ \E k \in Nat : ROUND_DOWN(y) = k * PAGE_SIZE
  BY <1>1, RoundDown
<1>3. ROUND_UP(x) = ROUND_DOWN(y)
  BY DEF ROUND_UP
<1> QED
  BY <1>1, <1>2, <1>3, PageSizeAssumption

\* Nothing that starts at a page fits between x and x rounded up.
LEMMA NoPageAbove ==
  ASSUME NEW x \in Nat, NEW p \in Nat, p * PAGE_SIZE < ROUND_UP(x)
  PROVE  p * PAGE_SIZE < x
<1>1. PICK k \in Nat : ROUND_UP(x) = k * PAGE_SIZE
  BY RoundUp
<1>2. p * PAGE_SIZE + PAGE_SIZE <= ROUND_UP(x)
  BY <1>1, Multiples
<1> QED
  BY <1>2, RoundUp, PageSizeAssumption

\* Rounding up does not leave a range that ends at a page.
LEMMA RoundUpBelow ==
  ASSUME NEW x \in Nat, NEW t \in Nat, x <= t * PAGE_SIZE
  PROVE  ROUND_UP(x) <= t * PAGE_SIZE
<1>1. PICK k \in Nat : ROUND_UP(x) = k * PAGE_SIZE
  BY RoundUp
<1>2. CASE t * PAGE_SIZE < ROUND_UP(x)
  <2>1. t * PAGE_SIZE + PAGE_SIZE <= ROUND_UP(x)
    BY <1>1, <1>2, Multiples
  <2> QED
    BY <2>1, RoundUp, PageSizeAssumption
<1> QED
  BY <1>2, RoundUp, PageSizeAssumption

\* A page number is determined by the page's start.
LEMMA PageOrder ==
  ASSUME NEW p \in Nat, NEW q \in Nat
  PROVE  p * PAGE_SIZE < q * PAGE_SIZE <=> p < q
BY PageSizeAssumption

\* doAreasOverlap of two nonempty areas: they have an address in common.
THEOREM OverlapMeaning ==
  ASSUME NEW addr1 \in Nat, NEW size1 \in Nat \ {0},
         NEW addr2 \in Nat, NEW size2 \in Nat \ {0}
  PROVE  doAreasOverlap(addr1, size1, addr2, size2) <=>
           \E a \in Nat : /\ regionContains(addr1, addr1 + size1, a, a + 1)
                          /\ regionContains(addr2, addr2 + size2, a, a + 1)
<1>1. ASSUME doAreasOverlap(addr1, size1, addr2, size2)
      PROVE  \E a \in Nat : /\ regionContains(addr1, addr1 + size1, a, a + 1)
                            /\ regionContains(addr2, addr2 + size2, a, a + 1)
  <2>1. CASE addr1 >= addr2 /\ addr1 < addr2 + size2
    <3>1. WITNESS addr1 \in Nat
    <3> QED
      BY <2>1 DEF regionContains
  <2>2. CASE addr2 >= addr1 /\ addr2 < addr1 + size1
    <3>1. WITNESS addr2 \in Nat
    <3> QED
      BY <2>2 DEF regionContains
  <2> QED
    BY <1>1, <2>1, <2>2 DEF doAreasOverlap
<1>2. ASSUME NEW a \in Nat,
             regionContains(addr1, addr1 + size1, a, a + 1),
             regionContains(addr2, addr2 + size2, a, a + 1)
      PROVE  doAreasOverlap(addr1, size1, addr2, size2)
  BY <1>2 DEF regionContains, doAreasOverlap
<1> QED
  BY <1>1, <1>2
=============================================================================
