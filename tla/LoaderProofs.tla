---------------------------- MODULE LoaderProofs ----------------------------
(***************************************************************************)
(* The loader maps every ld.so as its file says, whatever the size of the  *)
(* pages, the number of the segments and where in their pages they begin   *)
(* and end; and what ld.so maps after the launch, and the wrapper of mmap  *)
(* writes into it, leaves it so.                                           *)
(***************************************************************************)
EXTENDS LibcLoad, PageArithProofs, WellFoundedInduction

-----------------------------------------------------------------------------
(* Pages.                                                                  *)

LEMMA SameMultiple ==
  ASSUME NEW j \in Nat, NEW k \in Nat, NEW x \in Nat,
         j * PAGE_SIZE <= x, x < j * PAGE_SIZE + PAGE_SIZE,
         k * PAGE_SIZE <= x, x < k * PAGE_SIZE + PAGE_SIZE
  PROVE  j * PAGE_SIZE = k * PAGE_SIZE
<1>1. ~(j * PAGE_SIZE < k * PAGE_SIZE)
  BY Multiples, PageSizeAssumption
<1>2. ~(k * PAGE_SIZE < j * PAGE_SIZE)
  BY Multiples, PageSizeAssumption
<1> QED BY <1>1, <1>2, PageSizeAssumption

\* Rounding moves with what is a multiple of the page size.
LEMMA RoundShift ==
  ASSUME NEW b \in Nat, b = ROUND_DOWN(b), NEW x \in Nat
  PROVE  /\ ROUND_DOWN(b + x) = b + ROUND_DOWN(x)
         /\ ROUND_UP(b + x) = b + ROUND_UP(x)
<1>1. PICK j \in Nat : b = j * PAGE_SIZE
  BY RoundDown
<1>2. ASSUME NEW y \in Nat PROVE ROUND_DOWN(b + y) = b + ROUND_DOWN(y)
  <2>1. PICK k \in Nat : ROUND_DOWN(y) = k * PAGE_SIZE
    BY RoundDown
  <2>2. PICK l \in Nat : ROUND_DOWN(b + y) = l * PAGE_SIZE
    BY RoundDown
  <2>3. /\ ROUND_DOWN(y) \in Nat /\ ROUND_DOWN(y) <= y /\ y < ROUND_DOWN(y) + PAGE_SIZE
        /\ ROUND_DOWN(b + y) <= b + y /\ b + y < ROUND_DOWN(b + y) + PAGE_SIZE
    BY RoundDown, b + y \in Nat
  <2>4. (j + k) * PAGE_SIZE = b + ROUND_DOWN(y)
    BY <1>1, <2>1, PageSizeAssumption
  <2>5. /\ (j + k) * PAGE_SIZE <= b + y
        /\ b + y < (j + k) * PAGE_SIZE + PAGE_SIZE
        /\ l * PAGE_SIZE <= b + y
        /\ b + y < l * PAGE_SIZE + PAGE_SIZE
    BY <2>2, <2>3, <2>4, PageSizeAssumption
  <2>6. j + k \in Nat /\ b + y \in Nat
    OBVIOUS
  <2>7. l * PAGE_SIZE = (j + k) * PAGE_SIZE
    BY <2>5, <2>6, SameMultiple
  <2> QED BY <2>2, <2>4, <2>7
<1>3. ROUND_UP(b + x) = b + ROUND_UP(x)
  <2>1. x + PAGE_SIZE - 1 \in Nat /\ b + x + PAGE_SIZE - 1 = b + (x + PAGE_SIZE - 1)
    BY PageSizeAssumption
  <2> QED BY <2>1, <1>2 DEF ROUND_UP
<1> QED BY <1>2, <1>3

LEMMA RoundOrder ==
  ASSUME NEW x \in Nat, NEW y \in Nat, x <= y
  PROVE  ROUND_DOWN(x) <= ROUND_DOWN(y) /\ ROUND_UP(x) <= ROUND_UP(y)
<1>1. ROUND_DOWN(x) <= ROUND_DOWN(y)
  <2>1. PICK j \in Nat : ROUND_DOWN(x) = j * PAGE_SIZE
    BY RoundDown
  <2>2. PICK k \in Nat : ROUND_DOWN(y) = k * PAGE_SIZE
    BY RoundDown
  <2>3. /\ ROUND_DOWN(x) \in Nat /\ ROUND_DOWN(y) \in Nat
        /\ ROUND_DOWN(x) <= x /\ y < ROUND_DOWN(y) + PAGE_SIZE
    BY RoundDown
  <2>4. SUFFICES ASSUME k * PAGE_SIZE < j * PAGE_SIZE PROVE FALSE
    BY <2>1, <2>2, <2>3
  <2>5. k * PAGE_SIZE + PAGE_SIZE <= j * PAGE_SIZE
    BY <2>4, Multiples
  <2> QED BY <2>1, <2>2, <2>3, <2>5, PageSizeAssumption
<1>2. PICK k \in Nat : ROUND_UP(y) = k * PAGE_SIZE
  BY RoundUp
<1>3. x <= k * PAGE_SIZE
  BY <1>2, RoundUp
<1> QED BY <1>1, <1>2, <1>3, RoundUpBelow

-----------------------------------------------------------------------------
(* Segments.                                                               *)

Seg(elf, i) == elf.segments[i]
Low(s) == LdSoBase + ROUND_DOWN(s.vaddr)
High(s) == LdSoBase + ROUND_UP(s.vaddr + s.memsz)
Cells(s) == LdSoBase + s.vaddr .. EndBss(s, LdSoBase) - 1

LEMMA LdSoFacts ==
  ASSUME NEW elf \in Elfs
  PROVE  /\ elf.segments \in Seq(Segment) /\ Len(elf.segments) \in Nat \ {0}
         /\ DOMAIN elf.segments = 1 .. Len(elf.segments)
         /\ elf.symbols \in [Functions -> Nat \cup {NotFound}]
         /\ LdSoBase \in Nat \ {0} /\ LdSoBase = ROUND_DOWN(LdSoBase) /\ Top \in Nat
BY LoaderAssumption DEF IsLdSo

LEMMA SegmentFacts ==
  ASSUME NEW elf \in Elfs, NEW i \in 1 .. Len(elf.segments)
  PROVE  LET s == Seg(elf, i) IN
         /\ s \in Segment
         /\ s.vaddr \in Nat /\ s.offset \in Nat /\ s.filesz \in Nat /\ s.memsz \in Nat
         /\ s.prot \in SUBSET Permissions
         /\ s.filesz <= s.memsz
         /\ s.filesz < s.memsz => "W" \in s.prot
         /\ LdSoBase + ROUND_UP(s.vaddr + s.memsz) <= Top
         /\ i = 1 => s.vaddr = 0 /\ s.memsz = s.filesz
<1>1. IsLdSo(elf) /\ elf.segments \in Seq(Segment) /\ i \in DOMAIN elf.segments
  BY LoaderAssumption, LdSoFacts
<1>2. Seg(elf, i) \in Segment
  BY <1>1 DEF Seg
<1> QED BY <1>1, <1>2 DEF IsLdSo, Seg, Segment

\* What the code rounds, in numbers.
LEMMA SegmentNumbers ==
  ASSUME NEW elf \in Elfs, NEW i \in 1 .. Len(elf.segments)
  PROVE  LET s == Seg(elf, i)
             U == ROUND_UP(s.vaddr + s.filesz)
         IN
         /\ ROUND_DOWN(LdSoBase + s.vaddr) = Low(s)
         /\ ROUND_DOWN(s.vaddr) \in Nat /\ ROUND_DOWN(s.vaddr) <= s.vaddr
         /\ Low(s) + SegmentSize(s) = LdSoBase + U
         /\ SegmentSize(s) \in Nat
         /\ ROUND_UP(StartBss(s, LdSoBase)) = LdSoBase + U
         /\ ROUND_UP(EndBss(s, LdSoBase)) = High(s)
         /\ U \in Nat /\ s.vaddr + s.filesz <= U /\ LdSoBase + U <= High(s)
         /\ s.vaddr + s.memsz <= ROUND_UP(s.vaddr + s.memsz)
         /\ Low(s) \in Nat /\ High(s) \in Nat /\ LdSoBase <= Low(s) /\ High(s) <= Top
<1> DEFINE s == Seg(elf, i)
           v == s.vaddr
           U == ROUND_UP(v + s.filesz)
           D == ROUND_DOWN(v)
<1>1. /\ v \in Nat /\ s.filesz \in Nat /\ s.memsz \in Nat /\ s.filesz <= s.memsz
      /\ LdSoBase \in Nat /\ LdSoBase = ROUND_DOWN(LdSoBase) /\ Top \in Nat
      /\ LdSoBase + ROUND_UP(v + s.memsz) <= Top
  BY SegmentFacts, LdSoFacts
<1>2. v + s.filesz \in Nat /\ v + s.memsz \in Nat /\ v + s.filesz <= v + s.memsz
  BY <1>1
<1>3. D \in Nat /\ D <= v /\ ROUND_DOWN(LdSoBase + v) = LdSoBase + D
  BY <1>1, RoundDown, RoundShift
<1>4. /\ U \in Nat /\ v + s.filesz <= U
      /\ ROUND_UP(LdSoBase + (v + s.filesz)) = LdSoBase + U
  BY <1>1, <1>2, RoundUp, RoundShift
<1>5. /\ ROUND_UP(v + s.memsz) \in Nat /\ v + s.memsz <= ROUND_UP(v + s.memsz)
      /\ ROUND_UP(LdSoBase + (v + s.memsz)) = LdSoBase + ROUND_UP(v + s.memsz)
  BY <1>1, <1>2, RoundUp, RoundShift
<1>6. U <= ROUND_UP(v + s.memsz)
  BY <1>2, RoundOrder
<1>7. D = ROUND_DOWN(D)
  <2>1. PICK j \in Nat : D = j * PAGE_SIZE
    BY <1>1, RoundDown
  <2>2. PICK k \in Nat : ROUND_DOWN(D) = k * PAGE_SIZE
    BY <1>3, RoundDown
  <2>3. ROUND_DOWN(D) <= D /\ D < ROUND_DOWN(D) + PAGE_SIZE
    BY <1>3, RoundDown
  <2> HIDE DEF D
  <2>4. D <= D /\ D < D + PAGE_SIZE
    BY <1>3, PageSizeAssumption
  <2>5. j * PAGE_SIZE <= D /\ D < j * PAGE_SIZE + PAGE_SIZE
    BY <2>1, <2>4
  <2>6. k * PAGE_SIZE <= D /\ D < k * PAGE_SIZE + PAGE_SIZE
    BY <2>2, <2>3
  <2> QED BY <1>3, <2>1, <2>2, <2>5, <2>6, SameMultiple
<1>8. SegmentSize(s) \in Nat /\ D + SegmentSize(s) = U
  <2>1. s.filesz + (v - D) \in Nat /\ D + (s.filesz + (v - D)) = v + s.filesz
    <3>1. v \in Nat /\ D \in Nat /\ D <= v /\ s.filesz \in Nat
      BY <1>1, <1>3
    <3>2. \A x, y, z \in Nat : y <= x => z + (x - y) \in Nat /\ y + (z + (x - y)) = x + z
      OBVIOUS
    <3> HIDE DEF D, v, s
    <3> QED BY <3>1, <3>2
  <2>2. ROUND_UP(D + (s.filesz + (v - D))) = D + ROUND_UP(s.filesz + (v - D))
    BY <1>3, <1>7, <2>1, RoundShift
  <2>3. ROUND_UP(s.filesz + (v - D)) \in Nat
    BY <2>1, RoundUp
  <2> QED BY <2>1, <2>2, <2>3 DEF SegmentSize, PAGE_OFFSET
<1>9. /\ StartBss(s, LdSoBase) = LdSoBase + (v + s.filesz)
      /\ EndBss(s, LdSoBase) = LdSoBase + (v + s.memsz)
  BY <1>1 DEF StartBss, EndBss
<1>10. Low(s) = LdSoBase + D /\ High(s) = LdSoBase + ROUND_UP(v + s.memsz)
  BY DEF Low, High
<1> HIDE DEF s, v, U, D
<1>11. /\ Low(s) + SegmentSize(s) = LdSoBase + U /\ LdSoBase + U <= High(s)
       /\ Low(s) \in Nat /\ High(s) \in Nat /\ LdSoBase <= Low(s) /\ High(s) <= Top
  <2>1. /\ Low(s) = LdSoBase + D /\ High(s) = LdSoBase + ROUND_UP(v + s.memsz)
        /\ LdSoBase + ROUND_UP(v + s.memsz) <= Top
    BY <1>1, <1>10
  <2>2. LdSoBase \in Nat /\ Top \in Nat /\ D \in Nat /\ U \in Nat /\ ROUND_UP(v + s.memsz) \in Nat
    BY <1>1, <1>3, <1>4, <1>5
  <2> QED BY <2>1, <2>2, <1>6, <1>8
<1>12. /\ ROUND_DOWN(LdSoBase + v) = Low(s) /\ ROUND_UP(StartBss(s, LdSoBase)) = LdSoBase + U
       /\ ROUND_UP(EndBss(s, LdSoBase)) = High(s)
  BY <1>3, <1>4, <1>5, <1>9, <1>10
<1> QED BY <1>3, <1>4, <1>5, <1>8, <1>11, <1>12 DEF s, v, U, D

\* Segments share no page.
LEMMA PagesApart ==
  ASSUME NEW elf \in Elfs, NEW i \in 1 .. Len(elf.segments), NEW j \in 1 .. Len(elf.segments),
         NEW a \in Int, Low(Seg(elf, i)) <= a, a < High(Seg(elf, i)),
         Low(Seg(elf, j)) <= a, a < High(Seg(elf, j))
  PROVE  i = j
<1>1. /\ Low(Seg(elf, i)) \in Nat /\ High(Seg(elf, i)) \in Nat
      /\ Low(Seg(elf, j)) \in Nat /\ High(Seg(elf, j)) \in Nat
  BY SegmentNumbers
<1>2. ASSUME NEW p \in 1 .. Len(elf.segments), NEW q \in 1 .. Len(elf.segments), p < q
      PROVE  High(Seg(elf, p)) <= Low(Seg(elf, q))
  <2>1. ROUND_UP(elf.segments[p].vaddr + elf.segments[p].memsz) <= ROUND_DOWN(elf.segments[q].vaddr)
    BY <1>2, LoaderAssumption, LdSoFacts DEF IsLdSo
  <2>2. /\ High(Seg(elf, p)) \in Nat /\ Low(Seg(elf, q)) \in Nat /\ LdSoBase \in Nat
        /\ ROUND_UP(Seg(elf, p).vaddr + Seg(elf, p).memsz) \in Nat
        /\ ROUND_DOWN(Seg(elf, q).vaddr) \in Nat
    <3>1. Seg(elf, p).vaddr \in Nat /\ Seg(elf, p).memsz \in Nat
      BY SegmentFacts
    <3>2. Seg(elf, p).vaddr + Seg(elf, p).memsz \in Nat
      BY <3>1
    <3> QED BY <3>2, SegmentNumbers, LdSoFacts, RoundUp
  <2> QED BY <2>1, <2>2 DEF High, Low, Seg
<1>3. ~(i < j)
  BY <1>1, <1>2
<1>4. ~(j < i)
  BY <1>1, <1>2
<1>5. i \in Int /\ j \in Int
  OBVIOUS
<1> QED BY <1>3, <1>4, <1>5

LEMMA CellsInPages ==
  ASSUME NEW elf \in Elfs, NEW i \in 1 .. Len(elf.segments), NEW a \in Cells(Seg(elf, i))
  PROVE  a \in Addrs /\ a \in Nat /\ Low(Seg(elf, i)) <= a /\ a < High(Seg(elf, i))
<1> DEFINE s == Seg(elf, i)
<1>1. /\ s.vaddr \in Nat /\ s.memsz \in Nat /\ LdSoBase \in Nat /\ Top \in Nat
  BY SegmentFacts, LdSoFacts
<1>2. /\ ROUND_DOWN(s.vaddr) \in Nat /\ ROUND_DOWN(s.vaddr) <= s.vaddr
      /\ s.vaddr + s.memsz <= ROUND_UP(s.vaddr + s.memsz)
      /\ High(s) \in Nat /\ High(s) <= Top
  BY SegmentNumbers
<1>3. ROUND_UP(s.vaddr + s.memsz) \in Nat
  <2>1. s.vaddr + s.memsz \in Nat
    BY <1>1
  <2> QED BY <2>1, RoundUp
<1>4. a \in LdSoBase + s.vaddr .. LdSoBase + s.vaddr + s.memsz - 1
  <2>1. a \in Cells(s)
    OBVIOUS
  <2> HIDE DEF s
  <2>2. Cells(s) = LdSoBase + s.vaddr .. EndBss(s, LdSoBase) - 1
    BY DEF Cells
  <2>3. EndBss(s, LdSoBase) = LdSoBase + s.vaddr + s.memsz
    BY DEF EndBss
  <2>4. EndBss(s, LdSoBase) - 1 = LdSoBase + s.vaddr + s.memsz - 1
    BY <1>1, <2>3
  <2>5. Cells(s) = LdSoBase + s.vaddr .. LdSoBase + s.vaddr + s.memsz - 1
    BY <2>2, <2>4
  <2> QED BY <2>1, <2>5
<1>5. Low(s) = LdSoBase + ROUND_DOWN(s.vaddr) /\ High(s) = LdSoBase + ROUND_UP(s.vaddr + s.memsz)
  BY DEF Low, High
<1>6. a \in Nat /\ Low(s) <= a /\ a < High(s)
  <2>1. PICK v \in Nat, m \in Nat, d \in Nat, u \in Nat :
          /\ v = s.vaddr /\ m = s.memsz /\ d = ROUND_DOWN(s.vaddr) /\ d <= v
          /\ u = ROUND_UP(s.vaddr + s.memsz) /\ v + m <= u
    BY <1>1, <1>2, <1>3
  <2>2. a \in Nat /\ LdSoBase + d <= a /\ a < LdSoBase + u
    <3>1. a \in LdSoBase + v .. LdSoBase + v + m - 1
      BY <1>4, <2>1
    <3>2. d <= v /\ v + m <= u /\ LdSoBase \in Nat
      BY <1>1, <2>1
    <3> QED BY <3>1, <3>2
  <2> QED BY <1>5, <2>1, <2>2
<1> QED
  <2> HIDE DEF s
  <2>1. a \in Addrs
    BY <1>1, <1>2, <1>6 DEF Addrs
  <2> QED BY <1>6, <2>1 DEF s

-----------------------------------------------------------------------------
(* Memory.                                                                 *)

Memory == [Addrs -> [data : Int, prot : SUBSET Permissions]]

LEMMA MemoryTypes ==
  ASSUME NEW m \in Memory, NEW S, NEW p \in SUBSET Permissions, NEW d \in Int
  PROVE  /\ Mapped(m, S, p) \in Memory
         /\ Protected(m, S, p) \in Memory
         /\ Written(m, S, d) \in Memory
<1>1. \A a \in Addrs : m[a] \in [data : Int, prot : SUBSET Permissions]
  BY DEF Memory
<1>2. Mapped(m, S, p) \in Memory
  BY <1>1 DEF Mapped, Memory, Zero
<1>3. Protected(m, S, p) \in Memory
  BY <1>1 DEF Protected, Memory
<1>4. Written(m, S, d) \in Memory
  BY <1>1 DEF Written, Memory
<1> QED BY <1>2, <1>3, <1>4

LEMMA FileMappedType ==
  ASSUME NEW m \in Memory, NEW elf \in Elfs, NEW i \in 1 .. Len(elf.segments), NEW b \in Nat
  PROVE  FileMapped(m, Seg(elf, i), b) \in Memory
<1> DEFINE s == Seg(elf, i)
           addr == ROUND_DOWN(b + s.vaddr)
           offset == s.offset - PAGE_OFFSET(s.vaddr)
<1>1. s.vaddr \in Nat /\ s.offset \in Nat /\ s.prot \in SUBSET Permissions
  BY SegmentFacts
<1>2. b + s.vaddr \in Nat
  BY <1>1
<1>3. addr \in Int
  <2>1. ROUND_DOWN(b + s.vaddr) \in Nat
    BY <1>2, RoundDown
  <2> QED BY <2>1
<1>4. offset \in Int
  <2>1. ROUND_DOWN(s.vaddr) \in Nat
    BY <1>1, RoundDown
  <2> QED BY <1>1, <2>1 DEF PAGE_OFFSET
<1>5. \A a \in Addrs : a \in Int /\ m[a] \in [data : Int, prot : SUBSET Permissions]
  BY DEF Memory, Addrs
<1>6. FileMapped(m, s, b) =
        [a \in Addrs |-> IF a \in addr .. addr + SegmentSize(s) - 1
                         THEN [data |-> offset + (a - addr), prot |-> s.prot] ELSE m[a]]
  BY DEF FileMapped
<1> HIDE DEF s, addr, offset
<1>7. FileMapped(m, s, b) \in Memory
  BY <1>1, <1>3, <1>4, <1>5, <1>6 DEF Memory
<1> QED BY <1>7 DEF s

\* A segment mapped where it belongs: its pages alone change, and its bytes
\* are what the file promises.
LEMMA SegmentLoads ==
  ASSUME NEW m \in Memory, NEW elf \in Elfs, NEW i \in 1 .. Len(elf.segments)
  PROVE  LET s == Seg(elf, i)
             file == Written(FileMapped(m, s, LdSoBase), ClearedPart(s, LdSoBase), Zero)
             all == Mapped(file, BssPages(s, LdSoBase), s.prot)
         IN
         /\ \A a \in Addrs : ~(Low(s) <= a /\ a < High(s)) => file[a] = m[a] /\ all[a] = m[a]
         /\ \A a \in Cells(s) :
              all[a] = [data |-> IF a < StartBss(s, LdSoBase)
                                 THEN s.offset + (a - (LdSoBase + s.vaddr)) ELSE Zero,
                        prot |-> s.prot]
<1> DEFINE s == Seg(elf, i)
           withFile == FileMapped(m, s, LdSoBase)
           file == Written(withFile, ClearedPart(s, LdSoBase), Zero)
           all == Mapped(file, BssPages(s, LdSoBase), s.prot)
           start == LdSoBase + s.vaddr
           U == LdSoBase + ROUND_UP(s.vaddr + s.filesz)
           low == Low(s)
           high == High(s)
<1>1. /\ s.vaddr \in Nat /\ s.offset \in Nat /\ s.filesz \in Nat /\ s.memsz \in Nat
      /\ s.filesz <= s.memsz
      /\ s.filesz < s.memsz => "W" \in s.prot
      /\ LdSoBase \in Nat
  BY SegmentFacts, LdSoFacts
<1>2. /\ ROUND_DOWN(LdSoBase + s.vaddr) = low /\ low + SegmentSize(s) = U
      /\ ROUND_DOWN(s.vaddr) \in Nat /\ ROUND_DOWN(s.vaddr) <= s.vaddr
      /\ SegmentSize(s) \in Nat
      /\ ROUND_UP(StartBss(s, LdSoBase)) = U /\ ROUND_UP(EndBss(s, LdSoBase)) = high
      /\ s.vaddr + s.filesz <= ROUND_UP(s.vaddr + s.filesz)
      /\ ROUND_UP(s.vaddr + s.filesz) \in Nat
      /\ U <= high /\ low \in Nat /\ high \in Nat
      /\ s.vaddr + s.memsz <= ROUND_UP(s.vaddr + s.memsz)
  BY SegmentNumbers
<1>3. /\ StartBss(s, LdSoBase) = start + s.filesz
      /\ EndBss(s, LdSoBase) = start + s.memsz
  BY DEF StartBss, EndBss
<1>4. low = LdSoBase + ROUND_DOWN(s.vaddr)
  BY DEF Low
<1>5. start \in Nat /\ U \in Nat /\ low <= start /\ start + s.filesz <= U
  <2>1. start = LdSoBase + s.vaddr /\ U = LdSoBase + ROUND_UP(s.vaddr + s.filesz)
    OBVIOUS
  <2> HIDE DEF start, U, low, s
  <2>2. /\ LdSoBase \in Nat /\ s.vaddr \in Nat /\ s.filesz \in Nat
        /\ ROUND_UP(s.vaddr + s.filesz) \in Nat /\ ROUND_DOWN(s.vaddr) \in Nat
    BY <1>1, <1>2
  <2>3. /\ ROUND_DOWN(s.vaddr) <= s.vaddr
        /\ s.vaddr + s.filesz <= ROUND_UP(s.vaddr + s.filesz)
    BY <1>2
  <2>4. PICK v \in Nat, n \in Nat, d \in Nat, u \in Nat :
          /\ v = s.vaddr /\ n = s.filesz /\ d = ROUND_DOWN(s.vaddr) /\ d <= v
          /\ u = ROUND_UP(s.vaddr + s.filesz) /\ v + n <= u
    BY <2>2, <2>3
  <2>5. LdSoBase \in Nat /\ d <= v /\ v + n <= u
    BY <2>2, <2>4
  <2>6. /\ LdSoBase + v \in Nat /\ LdSoBase + u \in Nat /\ LdSoBase + d <= LdSoBase + v
        /\ LdSoBase + v + n <= LdSoBase + u
    BY <2>5
  <2>7. start = LdSoBase + v /\ U = LdSoBase + u /\ low = LdSoBase + d /\ s.filesz = n
    BY <1>4, <2>1, <2>4
  <2> QED BY <2>6, <2>7
<1>6. s.offset - PAGE_OFFSET(s.vaddr) = s.offset - (start - low)
  BY <1>1, <1>2, <1>4 DEF PAGE_OFFSET
<1>7. \A a \in Addrs :
        withFile[a] = IF a \in low .. low + SegmentSize(s) - 1
                    THEN [data |-> s.offset - (start - low) + (a - low), prot |-> s.prot]
                    ELSE m[a]
  BY <1>2, <1>6 DEF FileMapped
<1>8. ClearedPart(s, LdSoBase) = IF s.memsz > s.filesz THEN start + s.filesz .. U - 1 ELSE {}
  BY <1>2, <1>3 DEF ClearedPart
<1>9. BssPages(s, LdSoBase) = U .. high - 1
  BY <1>2 DEF BssPages
<1>10. \A a \in Addrs :
        file[a] = IF a \in ClearedPart(s, LdSoBase) /\ "W" \in withFile[a].prot
                  THEN [withFile[a] EXCEPT !.data = Zero] ELSE withFile[a]
  BY DEF Written
<1>11. \A a \in Addrs :
        all[a] = IF a \in BssPages(s, LdSoBase) THEN [data |-> Zero, prot |-> s.prot] ELSE file[a]
  BY DEF Mapped
<1>12. \A a \in Addrs : a \in Nat
  BY LdSoFacts DEF Addrs
<1>13. \A a \in Cells(s) : a \in Addrs /\ a \in start .. start + s.memsz - 1 /\ a < high
  <2>1. \A a \in Cells(s) : a \in Addrs /\ a < high
    BY CellsInPages
  <2>2. Cells(s) = start .. start + s.memsz - 1
    <3>1. Cells(s) = start .. EndBss(s, LdSoBase) - 1
      BY DEF Cells
    <3>2. /\ LdSoBase \in Nat /\ s.vaddr \in Nat /\ s.memsz \in Nat
          /\ start = LdSoBase + s.vaddr
      BY <1>1
    <3> HIDE DEF s, start
    <3> QED BY <1>3, <3>1, <3>2
  <2> QED BY <2>1, <2>2
<1> HIDE DEF withFile, file, all, start, U, low, high, s
<1>14. ASSUME NEW a \in Addrs, ~(low <= a /\ a < high) PROVE file[a] = m[a] /\ all[a] = m[a]
  <2>1. a \in Nat
    BY <1>12
  <2>2. a \notin low .. low + SegmentSize(s) - 1 /\ a \notin start + s.filesz .. U - 1
        /\ a \notin U .. high - 1
    BY <1>1, <1>2, <1>5, <1>14, <2>1
  <2>3. a \notin ClearedPart(s, LdSoBase) /\ a \notin BssPages(s, LdSoBase)
    BY <2>2, <1>8, <1>9
  <2> QED BY <2>2, <2>3, <1>7, <1>10, <1>11
<1>15. ASSUME NEW a \in Cells(s)
       PROVE  all[a] = [data |-> IF a < start + s.filesz THEN s.offset + (a - start) ELSE Zero,
                        prot |-> s.prot]
  <2>1. a \in Addrs /\ a \in Nat /\ start <= a /\ a < start + s.memsz /\ a < high
    BY <1>1, <1>5, <1>12, <1>13
  <2>2. CASE a < start + s.filesz
    <3>1. a \in low .. low + SegmentSize(s) - 1 /\ a \notin start + s.filesz .. U - 1
          /\ a \notin U .. high - 1
      <4>1. low <= a /\ a < U /\ low \in Nat /\ U \in Nat /\ s.filesz \in Nat
        <5>1. PICK n \in Nat : n = s.filesz
          BY <1>1
        <5>2. low \in Nat /\ low <= start /\ start + n <= U /\ a < start + n
          BY <1>2, <1>5, <2>2, <5>1
        <5>3. low <= a /\ a < U
          BY <1>5, <2>1, <5>2
        <5> QED BY <5>1, <5>2, <5>3, <1>5
      <4> QED BY <4>1, <1>2, <1>5, <2>1, <2>2
    <3>2. s.offset - (start - low) + (a - low) = s.offset + (a - start)
      <4>1. s.offset \in Nat /\ start \in Nat /\ low \in Nat /\ a \in Nat
        BY <1>1, <1>2, <1>5, <2>1
      <4> QED BY <4>1
    <3>3. withFile[a] = [data |-> s.offset + (a - start), prot |-> s.prot]
      BY <3>1, <3>2, <2>1, <1>7
    <3>4. all[a] = withFile[a]
      BY <3>1, <2>1, <1>8, <1>9, <1>10, <1>11
    <3> QED BY <3>3, <3>4, <2>2
  <2>3. CASE start + s.filesz <= a /\ a < U
    <3>1. /\ a \in low .. low + SegmentSize(s) - 1 /\ a \in start + s.filesz .. U - 1
          /\ a \notin U .. high - 1 /\ s.memsz > s.filesz
      <4>1. /\ low <= a /\ a < U /\ low \in Nat /\ U \in Nat
            /\ s.filesz \in Nat /\ s.memsz \in Nat /\ start \in Nat
        BY <1>1, <1>2, <1>5, <2>1, <2>3
      <4>2. a \in low .. low + SegmentSize(s) - 1
        <5>1. low + SegmentSize(s) - 1 = U - 1
          BY <1>2
        <5>2. a \in low .. U - 1
          BY <4>1, <2>1
        <5> QED BY <5>1, <5>2
      <4>3. a \in start + s.filesz .. U - 1 /\ a \notin U .. high - 1
        BY <4>1, <1>2, <2>1, <2>3
      <4>4. PICK n \in Nat, k \in Nat : n = s.filesz /\ k = s.memsz
        BY <4>1
      <4>5. k > n
        <5>1. a < start + k /\ start + n <= a
          BY <4>4, <2>1, <2>3
        <5> QED BY <5>1, <4>1, <2>1
      <4> QED BY <4>2, <4>3, <4>4, <4>5
    <3>2. withFile[a] = [data |-> s.offset - (start - low) + (a - low), prot |-> s.prot]
      BY <3>1, <2>1, <1>7
    <3>3. a \in ClearedPart(s, LdSoBase) /\ "W" \in withFile[a].prot
      BY <3>1, <3>2, <1>1, <1>8
    <3>4. file[a] = [data |-> Zero, prot |-> s.prot]
      BY <3>2, <3>3, <2>1, <1>10
    <3>5. all[a] = file[a]
      BY <3>1, <2>1, <1>9, <1>11
    <3>6. ~(a < start + s.filesz)
      BY <1>1, <1>5, <2>1, <2>3
    <3> QED BY <3>4, <3>5, <3>6
  <2>4. CASE U <= a
    <3>1. a \in U .. high - 1 /\ ~(a < start + s.filesz)
      BY <1>1, <1>2, <1>5, <2>1, <2>4
    <3> QED BY <3>1, <2>1, <1>9, <1>11
  <2>5. a < start + s.filesz \/ (start + s.filesz <= a /\ a < U) \/ U <= a
    BY <1>1, <1>5, <2>1
  <2> QED BY <2>2, <2>3, <2>4, <2>5
<1> QED BY <1>3, <1>14, <1>15 DEF withFile, file, all, start, low, high, s

-----------------------------------------------------------------------------
(* Symbols and trampolines.                                                *)

LEMMA LookUpFinds ==
  ASSUME NEW lib \in Elfs, NEW dbg \in Elfs \cup {NoFile}, NEW f \in Functions,
         dbg # NoFile => dbg.symbols = lib.symbols
  PROVE  get_symbol_offset(lib, dbg, f) \subseteq {Crash, NotFound, lib.symbols[f]}
<1>1. \/ getSymbolTable(lib, dbg) \in {Dies, Failed, Unset, lib}
      \/ dbg # NoFile /\ getSymbolTable(lib, dbg) = dbg
  BY DEF getSymbolTable, Table
<1> DEFINE table == getSymbolTable(lib, dbg)
<1>2. get_symbol_offset(lib, dbg, f) =
        CASE table = Dies -> {Crash}
          [] table = Failed -> {NotFound}
          [] table = Unset -> {NotFound, Crash}
          [] OTHER -> {table.symbols[f]}
  BY DEF get_symbol_offset
<1>3. table.symbols[f] = lib.symbols[f] \/ table \in {Dies, Failed, Unset}
  BY <1>1
<1> HIDE DEF table
<1> QED BY <1>2, <1>3

\* The pages that are opened have all of the jump.
LEMMA JumpPatched ==
  ASSUME NEW addr \in Nat
  PROVE  addr .. addr + JUMP_SIZE - 1 \subseteq Patched(addr)
<1>1. PICK page : page = ROUND_DOWN(addr)
  OBVIOUS
<1>2. page \in Nat /\ page <= addr /\ addr < page + PAGE_SIZE
  BY <1>1, RoundDown
<1>3. PAGE_SIZE \in Nat /\ JUMP_SIZE \in Nat /\ JUMP_SIZE <= PAGE_SIZE
  BY PageSizeAssumption, LoaderAssumption
<1>4. PICK n : n = IF addr + JUMP_SIZE - page > PAGE_SIZE THEN 2 * PAGE_SIZE ELSE PAGE_SIZE
  OBVIOUS
<1>5. Patched(addr) = page .. page + n - 1
  BY <1>1, <1>4 DEF Patched
<1>6. n \in Nat /\ addr + JUMP_SIZE <= page + n
  BY <1>2, <1>3, <1>4
<1> QED BY <1>2, <1>3, <1>5, <1>6

\* A trampoline fits into the pages whose protection is changed, and these are
\* pages of no segment but one that is read and executed.
LEMMA TrampolineLands ==
  ASSUME NEW elf \in Elfs, NEW f \in Functions, elf.symbols[f] # NotFound
  PROVE  LET addr == LdSoBase + elf.symbols[f] IN
         /\ addr \in Nat /\ addr <= Top
         /\ addr .. addr + JUMP_SIZE - 1 \subseteq Patched(addr)
         /\ \A i \in 1 .. Len(elf.segments) : \A a \in Cells(Seg(elf, i)) :
              a \in Patched(addr) => Seg(elf, i).prot = {"R", "X"}
<1> DEFINE addr == LdSoBase + elf.symbols[f]
           page == ROUND_DOWN(addr)
           length == IF addr + JUMP_SIZE - page > PAGE_SIZE THEN 2 * PAGE_SIZE ELSE PAGE_SIZE
<1>1. PICK k \in 1 .. Len(elf.segments) :
        /\ Seg(elf, k).prot = {"R", "X"} /\ Seg(elf, k).vaddr <= elf.symbols[f]
        /\ elf.symbols[f] + JUMP_SIZE <= Seg(elf, k).vaddr + Seg(elf, k).filesz
  BY LoaderAssumption, LdSoFacts DEF IsLdSo, Seg
<1> DEFINE s == Seg(elf, k)
<1>2. /\ elf.symbols[f] \in Nat /\ LdSoBase \in Nat /\ JUMP_SIZE \in Nat /\ Top \in Nat
      /\ JUMP_SIZE <= PAGE_SIZE /\ 0 < JUMP_SIZE /\ PAGE_SIZE \in Nat
  BY LdSoFacts, LoaderAssumption, PageSizeAssumption
<1>3. /\ s.vaddr \in Nat /\ s.filesz \in Nat /\ s.memsz \in Nat /\ s.filesz <= s.memsz
  BY SegmentFacts
<1>4. /\ s.vaddr + s.memsz <= ROUND_UP(s.vaddr + s.memsz)
      /\ Low(s) \in Nat /\ High(s) \in Nat /\ High(s) <= Top
      /\ ROUND_DOWN(LdSoBase + s.vaddr) = Low(s) /\ ROUND_UP(EndBss(s, LdSoBase)) = High(s)
  BY SegmentNumbers
<1>5. addr \in Nat /\ LdSoBase + s.vaddr \in Nat /\ LdSoBase + s.vaddr <= addr
  <2>1. s.vaddr <= elf.symbols[f]
    BY <1>1
  <2> HIDE DEF s
  <2> QED BY <2>1, <1>2, <1>3
<1>6. /\ page \in Nat /\ page <= addr /\ addr < page + PAGE_SIZE
      /\ \E j \in Nat : page = j * PAGE_SIZE
  BY <1>5, RoundDown
<1>7. Low(s) <= page
  <2>1. ROUND_DOWN(LdSoBase + s.vaddr) <= ROUND_DOWN(addr)
    BY <1>5, RoundOrder
  <2> QED BY <2>1, <1>4
<1>8. EndBss(s, LdSoBase) = LdSoBase + s.vaddr + s.memsz /\ EndBss(s, LdSoBase) \in Nat
  BY <1>2, <1>3 DEF EndBss
<1>9. addr + JUMP_SIZE <= High(s)
  <2>1. EndBss(s, LdSoBase) <= High(s)
    BY <1>4, <1>8, RoundUp
  <2>2. /\ addr = LdSoBase + elf.symbols[f]
        /\ elf.symbols[f] + JUMP_SIZE <= s.vaddr + s.filesz
    BY <1>1
  <2>3. /\ elf.symbols[f] \in Nat /\ JUMP_SIZE \in Nat /\ LdSoBase \in Nat
        /\ s.vaddr \in Nat /\ s.filesz \in Nat /\ s.memsz \in Nat /\ s.filesz <= s.memsz
        /\ High(s) \in Nat
    BY <1>2, <1>3, <1>4
  <2>4. LdSoBase + s.vaddr + s.memsz <= High(s)
    BY <2>1, <1>8
  <2>5. \A x, j, l, v, n, m, h \in Nat :
          x + j <= v + n /\ n <= m /\ l + v + m <= h => l + x + j <= h
    OBVIOUS
  <2>6. LdSoBase + elf.symbols[f] + JUMP_SIZE <= High(s)
    <3> HIDE DEF s
    <3> QED BY <2>2, <2>3, <2>4, <2>5
  <2> QED BY <2>6
<1>10. \E q \in Nat : High(s) = q * PAGE_SIZE
  BY <1>4, <1>8, RoundUp
<1>11. Patched(addr) = page .. page + length - 1
  BY DEF Patched
<1>12. length = IF addr + JUMP_SIZE - page > PAGE_SIZE THEN 2 * PAGE_SIZE ELSE PAGE_SIZE
  OBVIOUS
<1> HIDE DEF addr, page, length, s
<1>13. page + length <= High(s)
  <2>1. PICK j \in Nat, q \in Nat : page = j * PAGE_SIZE /\ High(s) = q * PAGE_SIZE
    BY <1>6, <1>10
  <2>2. j * PAGE_SIZE < q * PAGE_SIZE
    <3>1. /\ page \in Nat /\ addr \in Nat /\ High(s) \in Nat /\ JUMP_SIZE \in Nat
          /\ page <= addr /\ 0 < JUMP_SIZE /\ addr + JUMP_SIZE <= High(s)
      BY <1>2, <1>4, <1>5, <1>6, <1>9
    <3>2. page < High(s)
      BY <3>1
    <3> QED BY <2>1, <3>2
  <2>3. page + PAGE_SIZE <= High(s)
    BY <2>1, <2>2, Multiples
  <2>4. CASE addr + JUMP_SIZE - page > PAGE_SIZE
    <3>1. (j + 1) * PAGE_SIZE = page + PAGE_SIZE
      BY <2>1, <1>2
    <3>2. (j + 1) * PAGE_SIZE < q * PAGE_SIZE
      <4>1. /\ page \in Nat /\ addr \in Nat /\ High(s) \in Nat /\ JUMP_SIZE \in Nat
            /\ addr + JUMP_SIZE <= High(s) /\ PAGE_SIZE \in Nat
        BY <1>2, <1>4, <1>5, <1>6, <1>9
      <4>2. page + PAGE_SIZE < High(s)
        BY <2>4, <4>1
      <4> QED BY <2>1, <3>1, <4>2
    <3>3. (j + 1) * PAGE_SIZE + PAGE_SIZE <= q * PAGE_SIZE
      BY <3>2, Multiples, j + 1 \in Nat
    <3> QED BY <3>1, <3>3, <2>1, <2>4, <1>2, <1>6, <1>12
  <2> QED BY <2>3, <2>4, <1>12
<1>14. addr .. addr + JUMP_SIZE - 1 \subseteq Patched(addr)
  BY <1>5, JumpPatched
<1>15. ASSUME NEW i \in 1 .. Len(elf.segments), NEW a \in Cells(Seg(elf, i)), a \in Patched(addr)
       PROVE  Seg(elf, i).prot = {"R", "X"}
  <2>1. a \in Nat /\ Low(Seg(elf, i)) <= a /\ a < High(Seg(elf, i))
    BY CellsInPages
  <2>2. length \in Nat
    BY <1>2, <1>12
  <2>3. page <= a /\ a < page + length
    BY <1>6, <1>11, <1>15, <2>1, <2>2
  <2>4. Low(s) <= a /\ a < High(s)
    BY <2>1, <2>2, <2>3, <1>4, <1>6, <1>7, <1>13
  <2>5. i = k
    BY <2>1, <2>4, PagesApart DEF s
  <2> QED BY <2>5, <1>1
<1>16. addr <= Top
  BY <1>2, <1>4, <1>5, <1>9
<1> QED BY <1>5, <1>14, <1>15, <1>16 DEF addr

-----------------------------------------------------------------------------
(* The invariant.                                                          *)

\* How far the loading is.
Progress ==
  /\ ldso # NoFile /\ debug # NoFile => debug.symbols = ldso.symbols
  /\ at = "start" => next = 1
  /\ Runs /\ at # "start" => ldso \in Elfs /\ ldso # NoFile /\ next <= Len(ldso.segments) + 1
  /\ Runs /\ next = 1 => firstTime
  /\ Runs /\ 1 \notin lost /\ next > 1 => ~firstTime /\ base = LdSoBase

\* What is known of the functions.
Found ==
  /\ info["baseAddr"] \in {NULL, LdSoBase}
  /\ Runs => \A f \in Functions : info[f] # NULL =>
       ldso.symbols[f] # NotFound /\ info[f] = LdSoBase + ldso.symbols[f]

IInv == TypeOK /\ Progress /\ Found /\ SegmentsRight

LEMMA InitInv == Init => IInv
<1> SUFFICES ASSUME Init PROVE IInv
  OBVIOUS
<1>1. next \in Nat \ {0} /\ lost \subseteq 1 .. next - 1 /\ next = 1
  BY DEF Init
<1>2. mem \in Memory
  BY DEF Init, Memory, Unmapped, Nothing
<1>3. base \in Nat /\ heap \in [lo : Nat, uhBrk : Nat, endOfHeap : Nat, guarded : BOOLEAN]
  BY DEF Init, NULL, NoHeap
<1>4. info \in [{"baseAddr", "mmap", "sbrk"} -> {NULL} \cup LdSoBase .. Top]
  BY DEF Init
<1>5. TypeOK
  BY <1>1, <1>2, <1>3, <1>4 DEF Init, TypeOK, Memory
<1>6. Progress /\ Found
  BY <1>1 DEF Init, Progress, Found, Runs, Functions
<1>7. SegmentsRight
  BY <1>1 DEF SegmentsRight
<1> QED BY <1>5, <1>6, <1>7 DEF IInv

\* Reading the types.
LEMMA Typed ==
  ASSUME TypeOK
  PROVE  /\ mem \in Memory /\ next \in Nat \ {0} /\ base \in Nat
         /\ lost \subseteq 1 .. next - 1
         /\ info \in [{"baseAddr", "mmap", "sbrk"} -> {NULL} \cup LdSoBase .. Top]
BY DEF TypeOK, Memory

LEMMA EndsInv ==
  ASSUME IInv, NEW how \in {"exited", "died", "unbooked"}, Ends(how)
  PROVE  IInv'
<1>1. TypeOK'
  BY DEF IInv, TypeOK, Ends, chosen, loading
<1>2. Progress' /\ Found' /\ SegmentsRight'
  BY DEF IInv, Progress, Found, SegmentsRight, Runs, Ends, chosen, loading
<1> QED BY <1>1, <1>2 DEF IInv

LEMMA StartInv ==
  ASSUME IInv, Start
  PROVE  IInv'
<1>1. CASE \E how \in {"exited", "died", "unbooked"} : Ends(how)
  BY <1>1, EndsInv
<1>2. CASE /\ ldso # NoFile /\ at = "start" /\ at' = "segments"
           /\ UNCHANGED <<chosen, loading, info, mem, newStack, heap>>
  <2>1. TypeOK'
    BY <1>2 DEF IInv, TypeOK, chosen, loading
  <2>2. ldso \in Elfs /\ Len(ldso.segments) \in Nat /\ next = 1
    BY <1>2, LdSoFacts DEF IInv, TypeOK, Progress
  <2>3. Progress' /\ Found'
    BY <1>2, <2>2 DEF IInv, Progress, Found, Runs, chosen, loading
  <2>4. SegmentsRight'
    BY <1>2, <2>2 DEF SegmentsRight, chosen, loading
  <2> QED BY <2>1, <2>3, <2>4 DEF IInv
<1> QED BY <1>1, <1>2 DEF Start

\* A step that maps nothing and patches nothing.
LEMMA LookUpRest ==
  ASSUME IInv, at = "segments", at' = "stack", TypeOK', Found',
         UNCHANGED <<chosen, loading, mem>>
  PROVE  IInv'
<1>1. Jumps = {} /\ Jumps' = {} /\ Runs /\ Runs'
  BY DEF Jumps, Runs
<1>2. Progress'
  BY <1>1 DEF IInv, Progress, chosen, loading
<1>3. SegmentsRight'
  <2>1. SegmentsRight
    BY DEF IInv
  <2>2. \A s, a : Promised(s, a)' = Promised(s, a)
    BY <1>1 DEF Promised, chosen
  <2> QED BY <1>1, <2>1, <2>2 DEF SegmentsRight, chosen, loading
<1> QED BY <1>2, <1>3 DEF IInv

LEMMA LookUpInv ==
  ASSUME IInv, LookUp
  PROVE  IInv'
<1>1. PICK m \in get_symbol_offset(ldso, debug, "mmap"), b \in get_symbol_offset(ldso, debug, "sbrk") :
        IF Crash \in {m, b} THEN Ends("died")
        ELSE IF info.baseAddr = NULL THEN Ends("exited")
        ELSE /\ at' = "stack"
             /\ info' = IF Missing(m, b) THEN info
                        ELSE [info EXCEPT !.mmap = info.baseAddr + m, !.sbrk = info.baseAddr + b]
             /\ UNCHANGED <<chosen, loading, mem, newStack, heap>>
  BY DEF LookUp
<1>2. CASE Ends("died") \/ Ends("exited")
  BY <1>2, EndsInv
<1>3. CASE /\ Crash \notin {m, b} /\ info.baseAddr # NULL /\ at' = "stack"
           /\ info' = IF Missing(m, b) THEN info
                      ELSE [info EXCEPT !.mmap = info.baseAddr + m, !.sbrk = info.baseAddr + b]
           /\ UNCHANGED <<chosen, loading, mem, newStack, heap>>
  <2>1. /\ at = "segments" /\ Runs /\ Runs' /\ ldso \in Elfs /\ ldso # NoFile
        /\ debug \in Elfs \cup {NoFile} /\ (debug # NoFile => debug.symbols = ldso.symbols)
        /\ ldso' = ldso
    BY <1>3 DEF LookUp, IInv, TypeOK, Progress, Runs, chosen
  <2>2. /\ m \in {NotFound, ldso.symbols["mmap"]} /\ b \in {NotFound, ldso.symbols["sbrk"]}
    BY <1>3, <2>1, LookUpFinds DEF Functions
  <2>3. info \in [{"baseAddr", "mmap", "sbrk"} -> {NULL} \cup LdSoBase .. Top]
    BY Typed DEF IInv
  <2>4. CASE Missing(m, b)
    <3>1. info' = info
      BY <1>3, <2>4
    <3>2. TypeOK'
      BY <1>3, <3>1 DEF IInv, TypeOK, chosen, loading
    <3>3. Found'
      BY <2>1, <3>1 DEF IInv, Found
    <3> QED BY <3>2, <3>3, <1>3, <2>1, LookUpRest
  <2>5. CASE ~Missing(m, b)
    <3> DEFINE addr(f) == LdSoBase + ldso.symbols[f]
    <3>1. info["baseAddr"] = LdSoBase
      BY <1>3 DEF IInv, Found
    <3>2. /\ ldso.symbols["mmap"] # NotFound /\ m = ldso.symbols["mmap"]
          /\ ldso.symbols["sbrk"] # NotFound /\ b = ldso.symbols["sbrk"]
      BY <2>2, <2>5 DEF Missing
    <3>3. info' = [info EXCEPT !.mmap = addr("mmap"), !.sbrk = addr("sbrk")]
      BY <1>3, <2>5, <3>1, <3>2
    <3>4. \A f \in Functions : addr(f) \in LdSoBase .. Top
      <4> SUFFICES ASSUME NEW f \in Functions PROVE addr(f) \in LdSoBase .. Top
        OBVIOUS
      <4>1. addr(f) <= Top /\ addr(f) \in Nat
        BY <2>1, <3>2, TrampolineLands DEF Functions
      <4>2. ldso.symbols[f] \in Nat /\ LdSoBase \in Nat /\ Top \in Nat
        BY <2>1, <3>2, LdSoFacts DEF Functions
      <4> QED BY <4>1, <4>2
    <3> HIDE DEF addr
    <3>5. /\ info' \in [{"baseAddr", "mmap", "sbrk"} -> {NULL} \cup LdSoBase .. Top]
          /\ info'["baseAddr"] = info["baseAddr"]
          /\ info'["mmap"] = addr("mmap") /\ info'["sbrk"] = addr("sbrk")
      BY <2>3, <3>3, <3>4 DEF Functions
    <3>6. TypeOK'
      BY <1>3, <3>5 DEF IInv, TypeOK, chosen, loading
    <3>7. Found'
      BY <2>1, <3>1, <3>2, <3>5 DEF Found, Functions, addr
    <3> QED BY <3>6, <3>7, <1>3, <2>1, LookUpRest
  <2> QED BY <2>4, <2>5
<1> QED BY <1>1, <1>2, <1>3

Right(i) ==
  \A a \in Cells(Seg(ldso, i)) :
    mem[a] = [data |-> Promised(Seg(ldso, i), a), prot |-> Seg(ldso, i).prot]
AllRight == Runs /\ 1 \notin lost => \A i \in 1 .. next - 1 : i \notin lost => Right(i)

LEMMA RightMeans == (SegmentsRight <=> AllRight) /\ (SegmentsRight' <=> AllRight')
BY DEF SegmentsRight, AllRight, Right, Cells, Seg

\* What a segment holds is never what is not mapped.
LEMMA PromisedIsMapped ==
  ASSUME IInv, ldso \in Elfs, NEW i \in 1 .. Len(ldso.segments), NEW a \in Cells(Seg(ldso, i)), Right(i)
  PROVE  mem[a] # Unmapped /\ a \in Addrs
<1> DEFINE s == Seg(ldso, i)
<1>1. s.offset \in Nat /\ s.vaddr \in Nat /\ s.memsz \in Nat /\ LdSoBase \in Nat
  BY SegmentFacts, LdSoFacts
<1>2. a \in Nat /\ LdSoBase + s.vaddr <= a
  <2>1. a \in Nat
    BY CellsInPages
  <2>2. a \in LdSoBase + s.vaddr .. LdSoBase + s.vaddr + s.memsz - 1
    BY <1>1 DEF Cells, EndBss
  <2> HIDE DEF s
  <2> QED BY <1>1, <2>1, <2>2
<1>3. mem[a].data = Promised(s, a)
  <2>1. mem[a] = [data |-> Promised(s, a), prot |-> s.prot]
    BY DEF Right
  <2> QED BY <2>1
<1> HIDE DEF s
<1>4. s.offset + (a - (LdSoBase + s.vaddr)) # Nothing
  BY <1>1, <1>2 DEF Nothing
<1>5. \A f \in Functions : Jump(f) # Nothing
  BY DEF Jump, Nothing
<1>6. Zero # Nothing
  BY DEF Zero, Nothing
<1>7. (\E f \in Jumps : a \in Patch(ldso, f)) =>
         (CHOOSE f \in Jumps : a \in Patch(ldso, f)) \in Functions
  BY DEF Jumps
<1>8. Promised(s, a) # Nothing
  BY <1>4, <1>5, <1>6, <1>7 DEF Promised
<1>9. mem[a] # Unmapped
  BY <1>3, <1>8 DEF Unmapped
<1> QED BY <1>9, CellsInPages

\* The kernel maps where nothing is.
LEMMA MapInv ==
  ASSUME IInv, NEW low \in Addrs, NEW n, NEW m, Room(low, n),
         at \in {"stack", "heap"}, at' \in {"heap", "mmap"},
         \A a \in Addrs : a \notin low .. low + n - 1 => m[a] = mem[a],
         mem' = m, m \in Memory,
         heap' \in [lo : Nat, uhBrk : Nat, endOfHeap : Nat, guarded : BOOLEAN],
         UNCHANGED <<chosen, loading, info>>
  PROVE  IInv'
<1>1. TypeOK'
  BY DEF IInv, TypeOK, chosen, loading, Memory
<1>2. Jumps = {} /\ Jumps' = {} /\ Runs /\ Runs' /\ at # "start" /\ at' # "start"
  BY DEF Jumps, Runs
<1>3. Progress' /\ Found'
  BY <1>2 DEF IInv, Progress, Found, chosen, loading
<1>4. AllRight'
  <2>1. \A s, a : Promised(s, a)' = Promised(s, a)
    BY <1>2 DEF Promised, chosen
  <2> SUFFICES ASSUME 1 \notin lost, NEW i \in 1 .. next - 1, i \notin lost PROVE Right(i)'
    BY DEF AllRight, loading
  <2>2. Right(i) /\ ldso \in Elfs /\ i \in 1 .. Len(ldso.segments)
    <3>1. next \in Nat /\ ldso \in Elfs /\ next <= Len(ldso.segments) + 1
      BY <1>2 DEF IInv, TypeOK, Progress
    <3>2. Len(ldso.segments) \in Nat
      BY <3>1, LdSoFacts
    <3>3. Right(i)
      BY <1>2, RightMeans DEF IInv, AllRight
    <3> QED BY <3>1, <3>2, <3>3
  <2>3. ASSUME NEW a \in Cells(Seg(ldso, i)) PROVE mem'[a] = mem[a]
    <3>1. mem[a] # Unmapped /\ a \in Addrs
      BY <2>2, PromisedIsMapped
    <3>2. a \notin low .. low + n - 1
      BY <3>1 DEF Room
    <3> QED BY <3>1, <3>2
  <2> QED BY <2>1, <2>2, <2>3 DEF Right, chosen
<1> QED BY <1>1, <1>3, <1>4, RightMeans DEF IInv

LEMMA StackInv ==
  ASSUME IInv, createNewStackForRtld
  PROVE  IInv'
<1>1. CASE Ends("exited") \/ Ends("died")
  BY <1>1, EndsInv
<1>2. ASSUME NEW low \in Addrs, Room(low, STACK_SIZE), at' = "heap",
             mem' = Mapped(mem, low .. low + STACK_SIZE - 1, {"R", "W"}),
             UNCHANGED <<chosen, loading, info, heap>>
      PROVE  IInv'
  <2> DEFINE m == Mapped(mem, low .. low + STACK_SIZE - 1, {"R", "W"})
  <2>1. m \in Memory
    BY Typed, MemoryTypes DEF IInv, Permissions, Zero
  <2>2. \A a \in Addrs : a \notin low .. low + STACK_SIZE - 1 => m[a] = mem[a]
    BY DEF Mapped
  <2>3. heap' \in [lo : Nat, uhBrk : Nat, endOfHeap : Nat, guarded : BOOLEAN]
    BY <1>2 DEF IInv, TypeOK
  <2>4. at = "stack"
    BY DEF createNewStackForRtld
  <2> HIDE DEF m
  <2>5. mem' = m
    BY <1>2 DEF m
  <2> QED BY <1>2, <2>1, <2>2, <2>3, <2>4, <2>5, MapInv
<1> QED BY <1>1, <1>2 DEF createNewStackForRtld

\* Memory with the heap in it.
HeapMapped(low, guarded) ==
  LET area == Mapped(mem, low .. low + HEAP_SIZE - 1, {"R", "W"})
  IN  IF guarded THEN Protected(area, low .. low + PAGE_SIZE - 1, {}) ELSE area

LEMMA HeapInv ==
  ASSUME IInv, createNewHeapForRtld
  PROVE  IInv'
<1>1. CASE Ends("exited")
  BY <1>1, EndsInv
<1>2. ASSUME NEW low \in Addrs, NEW guarded \in BOOLEAN, Room(low, HEAP_SIZE),
             at' = "mmap", heap' = HeapAt(low, guarded),
             mem' = HeapMapped(low, guarded),
             UNCHANGED <<chosen, loading, info, newStack>>
      PROVE  IInv'
  <2> DEFINE m1 == Mapped(mem, low .. low + HEAP_SIZE - 1, {"R", "W"})
             m2 == Protected(m1, low .. low + PAGE_SIZE - 1, {})
             m == HeapMapped(low, guarded)
  <2>0. m = IF guarded THEN m2 ELSE m1
    BY DEF HeapMapped
  <2>1. m1 \in Memory
    BY Typed, MemoryTypes DEF IInv, Permissions, Zero
  <2>2. m \in Memory
    <3> HIDE DEF m1
    <3>1. m2 \in Memory
      BY <2>1, MemoryTypes DEF Zero
    <3> QED BY <2>0, <2>1, <3>1
  <2>3. low \in Nat /\ HEAP_SIZE \in Nat /\ PAGE_SIZE \in Nat /\ PAGE_SIZE <= HEAP_SIZE
    BY LoaderAssumption, PageSizeAssumption DEF Addrs
  <2>4. \A a \in Addrs : a \notin low .. low + HEAP_SIZE - 1 => m[a] = mem[a]
    <3>1. \A a \in Addrs : a \in Int
      BY LoaderAssumption DEF Addrs
    <3>2. \A a \in Addrs : a \notin low .. low + HEAP_SIZE - 1 => a \notin low .. low + PAGE_SIZE - 1
      BY <2>3, <3>1
    <3> HIDE DEF m
    <3> QED BY <2>0, <3>2 DEF Mapped, Protected
  <2>5. heap' \in [lo : Nat, uhBrk : Nat, endOfHeap : Nat, guarded : BOOLEAN]
    BY <1>2, <2>3 DEF HeapAt
  <2>6. at = "heap"
    BY DEF createNewHeapForRtld
  <2>7. mem' = m
    BY <1>2
  <2> HIDE DEF m
  <2> QED BY <1>2, <2>2, <2>4, <2>5, <2>6, <2>7, MapInv
<1> QED BY <1>1, <1>2 DEF createNewHeapForRtld, HeapMapped

-----------------------------------------------------------------------------
(* Promised, of the functions J that are patched in elf.                   *)

Bytes(J, elf, s, a) ==
  IF \E f \in J : a \in Patch(elf, f) THEN Jump(CHOOSE f \in J : a \in Patch(elf, f))
  ELSE IF a < StartBss(s, LdSoBase) THEN s.offset + (a - (LdSoBase + s.vaddr))
  ELSE Zero

LEMMA PromisedBytes ==
  /\ \A s, a : Promised(s, a) = Bytes(Jumps, ldso, s, a)
  /\ \A s, a : Promised(s, a)' = Bytes(Jumps', ldso', s, a)
BY DEF Promised, Bytes

LEMMA BytesPatched ==
  ASSUME NEW elf \in Elfs, NEW J \in SUBSET Functions, NEW f \in J, NEW s,
         NEW a \in Patch(elf, f)
  PROVE  Bytes(J, elf, s, a) = Jump(f)
<1>1. Patch(elf, "mmap") \cap Patch(elf, "sbrk") = {}
  BY LoaderAssumption DEF IsLdSo
<1>2. \A g \in J : a \in Patch(elf, g) => g = f
  BY <1>1 DEF Functions
<1> QED BY <1>2 DEF Bytes

LEMMA BytesOther ==
  ASSUME NEW elf \in Elfs, NEW J \in SUBSET Functions, NEW s, NEW a,
         \A f \in J : a \notin Patch(elf, f)
  PROVE  Bytes(J, elf, s, a) = IF a < StartBss(s, LdSoBase)
                               THEN s.offset + (a - (LdSoBase + s.vaddr)) ELSE Zero
BY DEF Bytes

LEMMA TrampolineInv ==
  ASSUME IInv, NEW f \in Functions, NEW then, insertTrampoline(f, then),
         <<f, then>> \in {<<"mmap", "sbrk">>, <<"sbrk", "info">>}
  PROVE  IInv'
<1> DEFINE addr == info[f]
           P == Patched(addr)
           S == addr .. addr + JUMP_SIZE - 1
           m1 == Protected(mem, P, Permissions)
           m2 == Written(m1, S, Jump(f))
           m3 == Protected(m2, P, {"R", "X"})
<1>1. CASE Ends("exited")
  BY <1>1, EndsInv
<1>2. CASE /\ addr # NULL /\ mem' = m3 /\ at = f /\ at' = then
           /\ UNCHANGED <<chosen, loading, info, newStack, heap>>
  <2>1. /\ Runs /\ Runs' /\ at # "start" /\ at' # "start"
        /\ Jumps \subseteq Functions /\ Jumps' = Jumps \cup {f}
    BY <1>2 DEF Jumps, Runs, Functions
  <2>2. /\ ldso \in Elfs /\ next \in Nat /\ next <= Len(ldso.segments) + 1
        /\ Len(ldso.segments) \in Nat /\ ldso' = ldso
    <3>1. ldso \in Elfs /\ next \in Nat /\ next <= Len(ldso.segments) + 1
      BY <2>1 DEF IInv, TypeOK, Progress
    <3> QED BY <1>2, <3>1, LdSoFacts DEF chosen
  <2>3. ldso.symbols[f] # NotFound /\ addr = LdSoBase + ldso.symbols[f]
    BY <1>2, <2>1 DEF IInv, Found
  <2>4. /\ S \subseteq P /\ S = Patch(ldso, f)
        /\ \A i \in 1 .. Len(ldso.segments) : \A a \in Cells(Seg(ldso, i)) :
             a \in P => Seg(ldso, i).prot = {"R", "X"}
    BY <2>2, <2>3, TrampolineLands DEF Patch
  <2>5. Jump(f) \in Int /\ Permissions \in SUBSET Permissions /\ {"R", "X"} \in SUBSET Permissions
    BY DEF Jump, Permissions
  <2>6. mem \in Memory
    BY Typed DEF IInv
  <2> HIDE DEF addr, P, S
  <2>7. m1 \in Memory
    BY <2>5, <2>6, MemoryTypes
  <2>8. m2 \in Memory
    <3> HIDE DEF m1
    <3> QED BY <2>5, <2>7, MemoryTypes
  <2>9. m3 \in Memory
    <3> HIDE DEF m2
    <3> QED BY <2>5, <2>8, MemoryTypes
  <2>10. TypeOK'
    <3>1. mem' \in Memory
      BY <1>2, <2>9
    <3>2. at' \in {"sbrk", "info"}
      BY <1>2
    <3> HIDE DEF m3
    <3> QED BY <1>2, <3>1, <3>2 DEF IInv, TypeOK, chosen, loading, Memory
  <2>11. Progress' /\ Found'
    BY <1>2, <2>1 DEF IInv, Progress, Found, chosen, loading
  <2>12. \A a \in Addrs :
           /\ a \in P => m1[a].data = mem[a].data /\ m1[a].prot = Permissions
           /\ a \notin P => m1[a] = mem[a]
    BY <2>6 DEF Protected, Memory
  <2>13. \A a \in Addrs :
           /\ a \in S /\ a \in P => m2[a].data = Jump(f)
           /\ a \notin S => m2[a] = m1[a]
    <3> HIDE DEF m1
    <3> QED BY <2>7, <2>12 DEF Written, Memory, Permissions
  <2>14. \A a \in Addrs :
           /\ a \in P => m3[a] = [data |-> m2[a].data, prot |-> {"R", "X"}]
           /\ a \notin P => m3[a] = m2[a]
    <3> HIDE DEF m2
    <3> QED BY <2>8 DEF Protected, Memory
  <2> HIDE DEF m1, m2, m3
  <2>15. AllRight'
    <3> SUFFICES ASSUME 1 \notin lost, NEW i \in 1 .. next - 1, i \notin lost PROVE Right(i)'
      BY <1>2 DEF AllRight, loading
    <3>1. Right(i) /\ i \in 1 .. Len(ldso.segments)
      BY <2>1, <2>2, RightMeans DEF IInv, AllRight
    <3> DEFINE s == Seg(ldso, i)
    <3>9. PICK J : J = Jumps'
      OBVIOUS
    <3>2. SUFFICES ASSUME NEW a \in Cells(s)
                   PROVE  mem'[a] = [data |-> Bytes(J, ldso, s, a), prot |-> s.prot]
      BY <2>2, <3>9, PromisedBytes DEF Right
    <3>3. a \in Addrs
      BY <2>2, <3>1, CellsInPages
    <3>4. mem[a] = [data |-> Bytes(Jumps, ldso, s, a), prot |-> s.prot]
      BY PromisedBytes, <3>1 DEF Right
    <3>5. a \in P => s.prot = {"R", "X"}
      BY <2>4, <3>1
    <3>0. J = Jumps \cup {f} /\ f \in J /\ J \in SUBSET Functions /\ Jumps \in SUBSET Functions
      BY <2>1, <3>9
    <3> HIDE DEF s
    <3>6. CASE a \in S
      <4>1. mem'[a] = [data |-> Jump(f), prot |-> s.prot]
        BY <1>2, <2>4, <2>13, <2>14, <3>3, <3>5, <3>6
      <4>2. Bytes(J, ldso, s, a) = Jump(f)
        <5>1. a \in Patch(ldso, f)
          BY <2>4, <3>6
        <5>2. J \in SUBSET Functions /\ f \in J /\ ldso \in Elfs
          BY <3>0, <2>2
        <5> QED
          BY ONLY <5>1, <5>2, BytesPatched
      <4> QED BY <4>1, <4>2
    <3>7. CASE a \notin S
      <4>1. mem'[a] = [data |-> mem[a].data, prot |-> s.prot]
        <5>1. mem' = m3 /\ m2[a] = m1[a] /\ mem[a] = [data |-> mem[a].data, prot |-> s.prot]
          BY <1>2, <2>13, <3>3, <3>4, <3>7
        <5>2. CASE a \in P
          <6>1. m1[a].data = mem[a].data
            BY <2>12, <3>3, <5>2
          <6>2. m3[a] = [data |-> m2[a].data, prot |-> {"R", "X"}]
            BY <2>14, <3>3, <5>2
          <6> QED BY <6>1, <6>2, <5>1, <5>2, <3>5
        <5>3. CASE a \notin P
          <6>1. m1[a] = mem[a] /\ m3[a] = m2[a]
            BY <2>12, <2>14, <3>3, <5>3
          <6> QED BY <6>1, <5>1
        <5> QED BY <5>2, <5>3
      <4>2. Bytes(J, ldso, s, a) = Bytes(Jumps, ldso, s, a)
        <5>1. CASE \E g \in Jumps : a \in Patch(ldso, g)
          <6>1. PICK g \in Jumps : a \in Patch(ldso, g)
            BY <5>1
          <6>2. Bytes(Jumps, ldso, s, a) = Jump(g)
            BY <3>0, <2>2, <6>1, BytesPatched
          <6>3. J \in SUBSET Functions /\ g \in J /\ ldso \in Elfs
            BY <3>0, <2>2
          <6>4. Bytes(J, ldso, s, a) = Jump(g)
            BY ONLY <6>1, <6>3, BytesPatched
          <6> QED BY <6>2, <6>4
        <5>2. CASE \A g \in Jumps : a \notin Patch(ldso, g)
          <6>1. \A g \in J : a \notin Patch(ldso, g)
            BY <3>0, <2>4, <3>7, <5>2
          <6> QED BY <3>0, <2>2, <5>2, <6>1, BytesOther
        <5> QED BY <5>1, <5>2
      <4>3. mem[a].data = Bytes(Jumps, ldso, s, a)
        BY <3>4
      <4> QED BY <4>1, <4>2, <4>3
    <3> QED BY <3>6, <3>7
  <2> QED BY <2>10, <2>11, <2>15, RightMeans DEF IInv
<1> QED BY <1>1, <1>2 DEF insertTrampoline

LEMMA SegmentInv ==
  ASSUME IInv, LoadSegment
  PROVE  IInv'
<1> DEFINE s == Seg(ldso, next)
           b == IF firstTime THEN LdSoBase ELSE base
           file == Written(FileMapped(mem, s, b), ClearedPart(s, b), Zero)
           all == Mapped(file, BssPages(s, b), s.prot)
           lastBase == IF ~firstTime THEN b
                       ELSE IF BssPages(s, b) = {} THEN ROUND_DOWN(b + s.vaddr)
                       ELSE ROUND_UP(StartBss(s, b))
<1>1. \/ Continues(b, TRUE) /\ (mem' = mem \/ mem' = file)
      \/ Continues(lastBase, FALSE) /\ mem' = all
  BY DEF LoadSegment, Seg
<1>2. PICK lastb \in {b, lastBase}, isLost \in BOOLEAN :
        /\ Continues(lastb, isLost)
        /\ isLost => lastb = b /\ mem' \in {mem, file}
        /\ ~isLost => lastb = lastBase /\ mem' = all
  BY <1>1
<1>3. /\ at = "segments" /\ at' = "segments" /\ Runs /\ Runs' /\ Jumps = {} /\ Jumps' = {}
      /\ ldso \in Elfs /\ ldso' = ldso /\ debug' = debug /\ stack' = stack
      /\ procfs' = procfs /\ next' = next + 1 /\ next \in 1 .. Len(ldso.segments)
      /\ Len(ldso.segments) \in Nat /\ base' = lastb
      /\ heap' = heap
      /\ lost' = IF isLost THEN lost \cup {next} ELSE lost
      /\ firstTime' = (firstTime /\ isLost)
      /\ info' = IF next = 1 /\ ~isLost THEN [info EXCEPT !.baseAddr = lastb] ELSE info
  <2>1. at = "segments" /\ next <= Len(ldso.segments) /\ at' = at
    BY <1>2 DEF LoadSegment, Continues
  <2>2. ldso \in Elfs /\ Runs /\ next \in Nat \ {0}
    BY <2>1 DEF IInv, TypeOK, Progress, Runs
  <2>3. Len(ldso.segments) \in Nat
    BY <2>2, LdSoFacts
  <2> QED BY <1>2, <2>1, <2>2, <2>3 DEF Continues, chosen, Runs, Jumps
<1>4. /\ s.vaddr \in Nat /\ s.filesz \in Nat /\ s.memsz \in Nat
      /\ s.prot \in SUBSET Permissions
      /\ next = 1 => s.vaddr = 0 /\ s.memsz = s.filesz
  BY <1>3, SegmentFacts
<1>5. mem \in Memory /\ base \in Nat /\ b \in Nat /\ LdSoBase \in Nat \ {0}
      /\ LdSoBase = ROUND_DOWN(LdSoBase) /\ Top \in Nat
      /\ info \in [{"baseAddr", "mmap", "sbrk"} -> {NULL} \cup LdSoBase .. Top]
      /\ firstTime \in BOOLEAN /\ lost \subseteq 1 .. next - 1
  BY Typed, <1>3, LdSoFacts DEF IInv, TypeOK
<1>6. next = 1 => firstTime /\ b = LdSoBase
  BY <1>3 DEF IInv, Progress
<1>7. file \in Memory /\ all \in Memory
  <2>1. FileMapped(mem, s, b) \in Memory
    BY <1>3, <1>5, FileMappedType
  <2> HIDE DEF s, b
  <2>2. file \in Memory
    <3> DEFINE m == FileMapped(mem, s, b)
    <3>1. Zero \in Int /\ {} \in SUBSET Permissions /\ m \in Memory
      BY <2>1 DEF Zero
    <3> HIDE DEF m
    <3>2. Written(m, ClearedPart(s, b), Zero) \in Memory
      BY <3>1, MemoryTypes
    <3> QED BY <3>2 DEF m
  <2> HIDE DEF file
  <2> QED BY <1>4, <2>2, MemoryTypes DEF Zero
<1>8. lastBase \in Nat
  <2>1. b + s.vaddr \in Nat /\ StartBss(s, b) \in Nat
    BY <1>4, <1>5 DEF StartBss
  <2>2. ROUND_DOWN(b + s.vaddr) \in Nat /\ ROUND_UP(StartBss(s, b)) \in Nat
    BY <2>1, RoundDown, RoundUp
  <2> QED BY <1>5, <2>2
\* The first segment has no bss: the base is where it was to be.
<1>9. next = 1 => lastBase = LdSoBase
  <2> SUFFICES ASSUME next = 1 PROVE lastBase = LdSoBase
    OBVIOUS
  <2>1. b + s.vaddr = LdSoBase /\ StartBss(s, b) = EndBss(s, b) /\ firstTime
    BY <1>4, <1>5, <1>6 DEF StartBss, EndBss
  <2>2. ROUND_UP(StartBss(s, b)) \in Nat
    <3>1. StartBss(s, b) \in Nat
      BY <1>4, <1>5 DEF StartBss
    <3> QED BY <3>1, RoundUp
  <2>3. BssPages(s, b) = {}
    BY <2>1, <2>2 DEF BssPages
  <2> QED BY <1>5, <2>1, <2>3
<1>10. LdSoBase \in LdSoBase .. Top
  <2>1. LdSoBase <= Low(s) /\ LdSoBase + ROUND_UP(s.vaddr + s.filesz) <= High(s) /\ High(s) <= Top
        /\ High(s) \in Nat /\ ROUND_UP(s.vaddr + s.filesz) \in Nat
    BY <1>3, SegmentNumbers
  <2> QED BY <1>5, <2>1
<1>11. /\ lastb \in Nat /\ mem' \in Memory /\ (~isLost /\ next = 1 => lastb = LdSoBase)
  BY <1>2, <1>5, <1>7, <1>8, <1>9
<1>12. isLost => lastb = b
  BY <1>2
<1>13. ~isLost => lastb = lastBase
  BY <1>2
<1>14. ~firstTime => b = base /\ lastBase = base
  OBVIOUS
<1> HIDE DEF lastBase
<1>15. info' \in [{"baseAddr", "mmap", "sbrk"} -> {NULL} \cup LdSoBase .. Top]
  BY <1>3, <1>5, <1>10, <1>11
<1>16. TypeOK'
  <2>1. next' \in Nat \ {0} /\ lost' \subseteq 1 .. next' - 1
    BY <1>3, <1>5
  <2>2. firstTime' \in BOOLEAN /\ base' \in Nat
    BY <1>3, <1>11
  <2>3. mem' \in [Addrs -> [data : Int, prot : SUBSET Permissions]]
    BY <1>11 DEF Memory
  <2>4. stack' \in Stacks /\ procfs' \in BOOLEAN
    BY <1>3 DEF IInv, TypeOK, chosen
  <2> QED BY <1>3, <1>15, <2>1, <2>2, <2>3, <2>4 DEF IInv, TypeOK
<1>17. Progress'
  <2>1. next' # 1 /\ next' <= Len(ldso.segments) + 1
    BY <1>3
  <2>2. 1 \notin lost' => ~firstTime' /\ base' = LdSoBase
    <3> SUFFICES ASSUME 1 \notin lost' PROVE ~firstTime' /\ base' = LdSoBase
      OBVIOUS
    <3>1. CASE next = 1
      BY <3>1, <1>3, <1>11
    <3>2. CASE next # 1
      <4>1. 1 \notin lost /\ next > 1
        BY <3>2, <1>3
      <4>2. ~firstTime /\ base = LdSoBase
        BY <4>1, <1>3 DEF IInv, Progress
      <4> QED BY <4>2, <1>3, <1>12, <1>13, <1>14
    <3> QED BY <3>1, <3>2
  <2>3. ldso' # NoFile /\ (debug' # NoFile => debug'.symbols = ldso'.symbols)
    BY <1>3 DEF IInv, Progress
  <2> QED BY <1>3, <2>1, <2>2, <2>3 DEF Progress
<1>18. Found'
  <2>1. info'["mmap"] = info["mmap"] /\ info'["sbrk"] = info["sbrk"]
        /\ info'["baseAddr"] \in {NULL, LdSoBase}
    BY <1>3, <1>5, <1>11 DEF IInv, Found
  <2> QED BY <1>3, <2>1 DEF IInv, Found, Functions
<1>19. AllRight'
  <2> SUFFICES ASSUME 1 \notin lost', NEW i \in 1 .. next, i \notin lost' PROVE Right(i)'
    BY <1>3 DEF AllRight
  <2>1. i \in 1 .. Len(ldso.segments) /\ i \in Nat
    BY <1>3
  <2>2. b = LdSoBase
    <3>1. CASE next = 1
      BY <3>1, <1>6
    <3>2. CASE next # 1
      <4>1. 1 \notin lost /\ next > 1
        BY <3>2, <1>3
      <4> QED BY <4>1, <1>3, <1>14 DEF IInv, Progress
    <3> QED BY <3>1, <3>2
  <2>3. /\ \A a \in Addrs : ~(Low(s) <= a /\ a < High(s)) => file[a] = mem[a] /\ all[a] = mem[a]
        /\ \A a \in Cells(s) :
              all[a] = [data |-> IF a < StartBss(s, LdSoBase)
                                 THEN s.offset + (a - (LdSoBase + s.vaddr)) ELSE Zero,
                        prot |-> s.prot]
    BY <1>3, <1>5, <2>2, SegmentLoads
  <2> DEFINE t == Seg(ldso, i)
             J == Jumps'
  <2>4. J = {} /\ Jumps = {}
    BY <1>3
  <2>5. SUFFICES ASSUME NEW a \in Cells(t)
                 PROVE  mem'[a] = [data |-> Bytes(J, ldso, t, a), prot |-> t.prot]
    BY <1>3, PromisedBytes DEF Right
  <2>6. a \in Addrs /\ a \in Nat /\ Low(t) <= a /\ a < High(t)
    BY <1>3, <2>1, CellsInPages
  <2>7. Bytes({}, ldso, t, a) = IF a < StartBss(t, LdSoBase)
                               THEN t.offset + (a - (LdSoBase + t.vaddr)) ELSE Zero
    BY DEF Bytes
  <2>8. CASE i = next
    <3>1. ~isLost /\ mem' = all
      BY <1>2, <1>3, <2>8
    <3>2. t = s
      BY <2>8
    <3> HIDE DEF all, s, t
    <3> QED BY <2>3, <2>4, <2>7, <3>1, <3>2
  <2>9. CASE i # next
    <3>1. i \in 1 .. next - 1 /\ i \notin lost /\ 1 \notin lost
      BY <1>3, <2>1, <2>9
    <3>2. Right(i)
      BY <1>3, <3>1, RightMeans DEF IInv, AllRight
    <3>3. mem[a] = [data |-> Bytes({}, ldso, t, a), prot |-> t.prot]
      BY <2>4, <3>2, PromisedBytes DEF Right
    <3>4. ~(Low(s) <= a /\ a < High(s))
      BY <1>3, <2>1, <2>6, <2>9, PagesApart
    <3>5. mem'[a] = mem[a]
      BY <1>2, <2>3, <2>6, <3>4
    <3> QED BY <2>4, <3>3, <3>5
  <2> QED BY <2>8, <2>9
<1> QED BY <1>16, <1>17, <1>18, <1>19, RightMeans DEF IInv

LEMMA JumpInv ==
  ASSUME IInv, EnterLdSo
  PROVE  IInv'
<1>1. CASE Ends("exited")
  BY <1>1, EndsInv
<1>2. CASE at = "info" /\ Ends("jumped")
  <2>1. Runs /\ Runs' /\ Jumps' = Jumps /\ ldso' = ldso /\ at # "start" /\ at' # "start"
    BY <1>2 DEF Ends, Runs, Jumps, chosen
  <2>2. TypeOK'
    BY <1>2 DEF Ends, IInv, TypeOK, chosen, loading
  <2>3. Progress' /\ Found'
    BY <1>2, <2>1 DEF Ends, IInv, Progress, Found, chosen, loading
  <2>4. \A s, a : Promised(s, a)' = Promised(s, a)
    BY <2>1 DEF Promised
  <2>5. SegmentsRight'
    BY <1>2, <2>1, <2>4 DEF Ends, IInv, SegmentsRight, chosen, loading
  <2> QED BY <2>2, <2>3, <2>5 DEF IInv
<1> QED BY <1>1, <1>2 DEF EnterLdSo

LEMMA NextInv == IInv /\ [Next]_vars => IInv'
<1> SUFFICES ASSUME IInv, [Next]_vars PROVE IInv'
  OBVIOUS
<1>1. CASE Start
  BY <1>1, StartInv
<1>2. CASE LoadSegment
  BY <1>2, SegmentInv
<1>3. CASE LookUp
  BY <1>3, LookUpInv
<1>4. CASE createNewStackForRtld
  BY <1>4, StackInv
<1>5. CASE createNewHeapForRtld
  BY <1>5, HeapInv
<1>6. CASE insertTrampoline("mmap", "sbrk")
  BY <1>6, TrampolineInv DEF Functions
<1>7. CASE insertTrampoline("sbrk", "info")
  BY <1>7, TrampolineInv DEF Functions
<1>8. CASE EnterLdSo
  BY <1>8, JumpInv
<1>9. CASE UNCHANGED vars
  <2>1. /\ UNCHANGED <<at, ldso, debug, stack, procfs, next, firstTime, base, lost, info, mem, newStack, heap>>
    BY <1>9 DEF vars, chosen, loading
  <2>2. TypeOK' /\ Progress' /\ Found'
    BY <2>1 DEF IInv, TypeOK, Progress, Found, Runs
  <2>3. \A s, a : Promised(s, a)' = Promised(s, a)
    BY <2>1 DEF Promised, Jumps
  <2>4. SegmentsRight'
    BY <2>1, <2>3 DEF IInv, SegmentsRight, Runs
  <2> QED BY <2>2, <2>4 DEF IInv
<1> QED BY <1>1, <1>2, <1>3, <1>4, <1>5, <1>6, <1>7, <1>8, <1>9 DEF Next

LEMMA Invariant == Spec => []IInv
BY InitInv, NextInv, PTL DEF Spec

\* The type invariant of the launch (kernel-loader.c, custom-loader.c).
THEOREM TypeCorrect == Spec => []TypeOK
<1>1. IInv => TypeOK
  BY DEF IInv
<1> QED BY <1>1, Invariant, PTL

\* However the segments of an ld.so lie in their pages and in the file, each
\* that could be mapped is in memory as ELF promises, with its permissions, and
\* when ld.so starts its mmap and sbrk are jumps into the loader.
THEOREM LoadsRight == Spec => []SegmentsRight
<1>1. IInv => SegmentsRight
  BY DEF IInv
<1> QED BY <1>1, Invariant, PTL
-----------------------------------------------------------------------------
(* The heap.                                                               *)

HeapCells == heap.lo .. heap.endOfHeap - 1
Launched == {"mmap", "sbrk", "info", "jumped"}

\* All segments are looked at before the heap is made.
AllMapped ==
  at \in {"stack", "heap"} \cup Launched => next = Len(ldso.segments) + 1

\* The heap is in order, and no page of it is patched.
Guarded ==
  at \in Launched /\ lost = {} =>
    /\ HeapCells \subseteq Addrs
    /\ \A a \in HeapCells :
         mem[a] = [data |-> Zero, prot |-> IF a < heap.uhBrk /\ heap.guarded THEN {} ELSE {"R", "W"}]
    /\ \A f \in Functions : info[f] # NULL => HeapCells \cap Patched(info[f]) = {}

HInv == IInv /\ AllMapped /\ Guarded

\* A page whose protection is changed holds a byte of the jump, and that is a
\* byte of a segment.
LEMMA JumpInPage ==
  ASSUME NEW elf \in Elfs, NEW f \in Functions, elf.symbols[f] # NotFound,
         NEW a \in Patched(LdSoBase + elf.symbols[f])
  PROVE  \E k \in 1 .. Len(elf.segments), p \in Nat :
           p \in Cells(Seg(elf, k)) /\ a \in Nat /\ ROUND_DOWN(p) = ROUND_DOWN(a)
<1> DEFINE addr == LdSoBase + elf.symbols[f]
           page == ROUND_DOWN(addr)
<1>1. PICK k \in 1 .. Len(elf.segments) :
        /\ Seg(elf, k).vaddr <= elf.symbols[f]
        /\ elf.symbols[f] + JUMP_SIZE <= Seg(elf, k).vaddr + Seg(elf, k).filesz
  BY LoaderAssumption, LdSoFacts DEF IsLdSo, Seg
<1> DEFINE s == Seg(elf, k)
<1>2. /\ elf.symbols[f] \in Nat /\ LdSoBase \in Nat /\ JUMP_SIZE \in Nat
      /\ JUMP_SIZE <= PAGE_SIZE /\ 0 < JUMP_SIZE /\ PAGE_SIZE \in Nat
      /\ s.vaddr \in Nat /\ s.filesz \in Nat /\ s.memsz \in Nat /\ s.filesz <= s.memsz
  BY LdSoFacts, LoaderAssumption, PageSizeAssumption, SegmentFacts
<1>3. ASSUME NEW p \in Nat, addr <= p, p < addr + JUMP_SIZE
      PROVE  p \in Cells(s)
  <2>1. LdSoBase + s.vaddr <= p /\ p < LdSoBase + s.vaddr + s.memsz
    <3>1. PICK x \in Nat, v \in Nat, n \in Nat, m \in Nat :
            x = elf.symbols[f] /\ v = s.vaddr /\ n = s.filesz /\ m = s.memsz
      BY <1>2
    <3>2. /\ v <= x /\ x + JUMP_SIZE <= v + n /\ n <= m
          /\ LdSoBase + x <= p /\ p < LdSoBase + x + JUMP_SIZE
      BY <1>1, <1>2, <1>3, <3>1
    <3>3. LdSoBase + v <= p /\ p < LdSoBase + v + m
      <4>1. LdSoBase \in Nat /\ JUMP_SIZE \in Nat
        BY <1>2
      <4> QED BY <3>2, <4>1
    <3> QED BY <3>1, <3>3
  <2> HIDE DEF s
  <2> QED BY <1>2, <2>1 DEF Cells, EndBss
<1>4. /\ addr \in Nat /\ page \in Nat /\ page <= addr /\ addr < page + PAGE_SIZE
      /\ \E j \in Nat : page = j * PAGE_SIZE
  <2>1. addr \in Nat
    BY <1>2
  <2> HIDE DEF addr
  <2> QED BY <2>1, RoundDown
<1>5. PICK j \in Nat : page = j * PAGE_SIZE
  BY <1>4
<1>6. Patched(addr) = page .. page + (IF addr + JUMP_SIZE - page > PAGE_SIZE
                                      THEN 2 * PAGE_SIZE ELSE PAGE_SIZE) - 1
  BY DEF Patched
<1> HIDE DEF addr, page, s
<1>7. a \in Nat /\ page <= a
  <2>1. a \in Patched(addr)
    BY DEF addr
  <2>2. PICK n \in Int : Patched(addr) = page .. n
    BY <1>2, <1>4, <1>6
  <2>3. a \in page .. n
    BY <2>1, <2>2
  <2> QED BY <1>4, <2>3
<1>8. \E i \in Nat : ROUND_DOWN(a) = i * PAGE_SIZE
  BY <1>7, RoundDown
<1>9. PICK i \in Nat : ROUND_DOWN(a) = i * PAGE_SIZE
  BY <1>8
<1>10. ROUND_DOWN(a) \in Nat /\ ROUND_DOWN(a) <= a /\ a < ROUND_DOWN(a) + PAGE_SIZE
  BY <1>7, RoundDown
<1>11. CASE a < page + PAGE_SIZE
  <2>1. i * PAGE_SIZE = j * PAGE_SIZE
    BY <1>5, <1>7, <1>9, <1>10, <1>11, SameMultiple
  <2>2. ROUND_DOWN(a) = ROUND_DOWN(addr)
    BY <1>5, <1>9, <2>1 DEF page
  <2> QED BY <1>2, <1>3, <1>4, <1>7, <2>2 DEF s
<1>12. CASE page + PAGE_SIZE <= a
  <2>1. addr + JUMP_SIZE - page > PAGE_SIZE /\ a < page + 2 * PAGE_SIZE
    BY <1>2, <1>4, <1>6, <1>7, <1>12 DEF addr
  <2> DEFINE p == page + PAGE_SIZE
  <2>2. p = (j + 1) * PAGE_SIZE /\ j + 1 \in Nat /\ p \in Nat /\ p <= a /\ a < p + PAGE_SIZE
    BY <1>2, <1>4, <1>5, <1>12, <2>1
  <2>3. addr <= p /\ p < addr + JUMP_SIZE
    BY <1>2, <1>4, <2>1
  <2>4. i * PAGE_SIZE = p
    BY <1>7, <1>9, <1>10, <2>2, SameMultiple
  <2>5. ROUND_DOWN(p) = p
    <3>1. PICK q \in Nat : ROUND_DOWN(p) = q * PAGE_SIZE
      BY <2>2, RoundDown
    <3>2. q * PAGE_SIZE <= p /\ p < q * PAGE_SIZE + PAGE_SIZE
      BY <2>2, <3>1, RoundDown
    <3> HIDE DEF p
    <3>3. p <= p /\ p < p + PAGE_SIZE
      BY <2>2, PageSizeAssumption
    <3> QED BY <2>2, <3>1, <3>2, <3>3, SameMultiple
  <2> HIDE DEF p
  <2> QED BY <1>3, <1>7, <1>9, <2>2, <2>3, <2>4, <2>5 DEF s
<1> QED BY <1>2, <1>4, <1>7, <1>11, <1>12

\* A range of whole pages has all of a page or nothing.
LEMMA WholePages ==
  ASSUME NEW low \in Nat, low = ROUND_DOWN(low), NEW size \in Nat, size = ROUND_DOWN(size),
         NEW a \in Nat, NEW p \in Nat, ROUND_DOWN(p) = ROUND_DOWN(a),
         low <= a, a < low + size
  PROVE  low <= p /\ p < low + size
<1>1. PICK i \in Nat, k \in Nat, j \in Nat :
        low = i * PAGE_SIZE /\ size = k * PAGE_SIZE /\ ROUND_DOWN(a) = j * PAGE_SIZE
  BY RoundDown
<1>2. /\ ROUND_DOWN(a) \in Nat /\ ROUND_DOWN(a) <= a
      /\ ROUND_DOWN(p) <= p /\ p < ROUND_DOWN(p) + PAGE_SIZE /\ PAGE_SIZE \in Nat
  BY RoundDown, PageSizeAssumption
<1>3. low <= ROUND_DOWN(a)
  BY RoundOrder
<1>4. (i + k) * PAGE_SIZE = low + size /\ i + k \in Nat
  BY <1>1, <1>2
<1>5. j * PAGE_SIZE < (i + k) * PAGE_SIZE
  BY <1>1, <1>2, <1>4
<1>6. j * PAGE_SIZE + PAGE_SIZE <= (i + k) * PAGE_SIZE
  BY <1>4, <1>5, Multiples
<1> QED BY <1>1, <1>2, <1>3, <1>4, <1>6

LEMMA HeapGuarded ==
  ASSUME HInv, createNewHeapForRtld, at' = "mmap"
  PROVE  Guarded'
<1> SUFFICES ASSUME lost = {} PROVE Guarded'
  BY DEF createNewHeapForRtld, Ends, loading, Guarded
<1>1. PICK low \in Addrs, guarded \in BOOLEAN :
        /\ at = "heap" /\ Room(low, HEAP_SIZE)
        /\ mem' = HeapMapped(low, guarded)
        /\ heap' = HeapAt(low, guarded) /\ UNCHANGED <<chosen, loading, info, newStack>>
  BY DEF createNewHeapForRtld, Ends, HeapMapped
<1>2. /\ low \in Nat /\ low = ROUND_DOWN(low) /\ HEAP_SIZE \in Nat /\ PAGE_SIZE \in Nat
      /\ PAGE_SIZE <= HEAP_SIZE /\ HEAP_SIZE = ROUND_DOWN(HEAP_SIZE) /\ Addrs \subseteq Nat
  BY <1>1, LoaderAssumption, HeapAssumption, PageSizeAssumption DEF Room, Addrs
<1>3. /\ HeapCells' = low .. low + HEAP_SIZE - 1 /\ heap'.uhBrk = low + PAGE_SIZE
      /\ heap'.guarded = guarded
      /\ HeapCells' \subseteq Addrs /\ \A a \in HeapCells' : mem[a] = Unmapped
  <2>1. heap' = [lo |-> low, uhBrk |-> low + PAGE_SIZE, endOfHeap |-> low + HEAP_SIZE,
                 guarded |-> guarded]
    BY <1>1 DEF HeapAt
  <2>2. /\ HeapCells' = low .. low + HEAP_SIZE - 1 /\ heap'.uhBrk = low + PAGE_SIZE
        /\ heap'.guarded = guarded
    <3>1. /\ heap'.lo = low /\ heap'.endOfHeap = low + HEAP_SIZE
          /\ heap'.uhBrk = low + PAGE_SIZE /\ heap'.guarded = guarded
      BY <2>1
    <3>2. HeapCells' = heap'.lo .. heap'.endOfHeap - 1
      BY DEF HeapCells
    <3> QED BY <3>1, <3>2, <1>2
  <2>3. \A a \in low .. low + HEAP_SIZE - 1 : a \in Addrs /\ mem[a] = Unmapped
    BY <1>1 DEF Room
  <2> QED BY <2>2, <2>3
<1>4. ASSUME NEW a \in HeapCells'
      PROVE  mem'[a] = [data |-> Zero, prot |-> IF a < heap'.uhBrk /\ heap'.guarded THEN {} ELSE {"R", "W"}]
  <2>1. a \in Addrs /\ a \in Nat /\ low <= a /\ a \in low .. low + HEAP_SIZE - 1
    BY <1>2, <1>3, <1>4
  <2>2. a \in low .. low + PAGE_SIZE - 1 <=> a < heap'.uhBrk
    BY <1>2, <1>3, <2>1
  <2>3. mem'[a] = IF guarded /\ a \in low .. low + PAGE_SIZE - 1
                  THEN [data |-> Zero, prot |-> {}] ELSE [data |-> Zero, prot |-> {"R", "W"}]
    <3>1. PICK area : area = Mapped(mem, low .. low + HEAP_SIZE - 1, {"R", "W"})
      OBVIOUS
    <3>2. area[a] = [data |-> Zero, prot |-> {"R", "W"}]
      BY <2>1, <3>1 DEF Mapped
    <3>3. mem' = IF guarded THEN Protected(area, low .. low + PAGE_SIZE - 1, {}) ELSE area
      BY <1>1, <3>1 DEF HeapMapped
    <3>4. Protected(area, low .. low + PAGE_SIZE - 1, {})[a] =
            IF a \in low .. low + PAGE_SIZE - 1
            THEN [data |-> Zero, prot |-> {}] ELSE [data |-> Zero, prot |-> {"R", "W"}]
      <4>1. \A T : Protected(area, T, {})[a] = IF a \in T THEN [area[a] EXCEPT !.prot = {}] ELSE area[a]
        BY <2>1 DEF Protected
      <4>2. [area[a] EXCEPT !.prot = {}] = [data |-> Zero, prot |-> {}]
        BY <3>2
      <4> QED BY <3>2, <4>1, <4>2
    <3> QED BY <3>2, <3>3, <3>4
  <2> QED BY <1>3, <2>2, <2>3
<1>5. ASSUME NEW f \in Functions, info[f] # NULL, NEW a \in HeapCells' \cap Patched(info[f])
      PROVE  FALSE
  <2>1. /\ Runs /\ ldso \in Elfs /\ ldso.symbols[f] # NotFound
        /\ info[f] = LdSoBase + ldso.symbols[f] /\ next = Len(ldso.segments) + 1
    BY <1>1, <1>5 DEF HInv, IInv, TypeOK, Progress, Found, AllMapped, Runs
  <2>2. PICK k \in 1 .. Len(ldso.segments), p \in Nat :
          p \in Cells(Seg(ldso, k)) /\ a \in Nat /\ ROUND_DOWN(p) = ROUND_DOWN(a)
    BY <1>5, <2>1, JumpInPage
  <2>3. Right(k)
    <3>1. k \in 1 .. next - 1
      BY <2>1, LdSoFacts
    <3> QED BY <2>1, <3>1, RightMeans DEF HInv, IInv, AllRight
  <2>4. mem[p] # Unmapped
    BY <2>1, <2>2, <2>3, PromisedIsMapped DEF HInv
  <2>5. low <= p /\ p < low + HEAP_SIZE
    <3>1. low <= a /\ a < low + HEAP_SIZE
      BY <1>2, <1>3, <1>5, <2>2
    <3> QED BY <1>2, <2>2, <3>1, WholePages
  <2>6. p \in HeapCells'
    BY <1>2, <1>3, <2>2, <2>5
  <2> QED BY <1>3, <2>4, <2>6
<1>6. info' = info
  BY <1>1
<1> QED BY <1>3, <1>4, <1>5, <1>6 DEF Guarded

LEMMA TrampolineGuarded ==
  ASSUME HInv, NEW f \in Functions, NEW then \in {"sbrk", "info"}, insertTrampoline(f, then)
  PROVE  Guarded'
<1> SUFFICES ASSUME at' # "exited", lost' = {} PROVE Guarded'
  BY DEF Guarded, Launched
<1>1. /\ at = f /\ info[f] # NULL /\ UNCHANGED <<chosen, loading, info, newStack, heap>>
      /\ mem' = Protected(
           Written(Protected(mem, Patched(info[f]), Permissions),
                   info[f] .. info[f] + JUMP_SIZE - 1, Jump(f)),
           Patched(info[f]), {"R", "X"})
  BY DEF insertTrampoline, Ends
<1>2. Runs /\ at \in Launched /\ lost = {} /\ mem \in Memory
  BY <1>1, Typed DEF Runs, Launched, Functions, loading, HInv, IInv
<1>3. /\ HeapCells \subseteq Addrs
      /\ \A a \in HeapCells :
           mem[a] = [data |-> Zero, prot |-> IF a < heap.uhBrk /\ heap.guarded THEN {} ELSE {"R", "W"}]
      /\ \A g \in Functions : info[g] # NULL => HeapCells \cap Patched(info[g]) = {}
  BY <1>2 DEF HInv, Guarded
<1>4. info[f] .. info[f] + JUMP_SIZE - 1 \subseteq Patched(info[f])
  <2>1. ldso \in Elfs /\ ldso.symbols[f] # NotFound /\ info[f] = LdSoBase + ldso.symbols[f]
    BY <1>1, <1>2 DEF HInv, IInv, TypeOK, Progress, Found, Functions
  <2> QED BY <2>1, TrampolineLands
<1>5. PICK P : P = Patched(info[f])
  OBVIOUS
<1>6. PICK S : S = info[f] .. info[f] + JUMP_SIZE - 1
  OBVIOUS
<1>7. ASSUME NEW a \in HeapCells
      PROVE  mem'[a] = mem[a]
  <2>1. a \notin P /\ a \notin S /\ a \in Addrs
    BY <1>1, <1>3, <1>4, <1>5, <1>6, <1>7
  <2>2. mem' = Protected(Written(Protected(mem, P, Permissions), S, Jump(f)), P, {"R", "X"})
    BY <1>1, <1>5, <1>6
  <2> QED BY <2>1, <2>2 DEF Protected, Written
<1>8. HeapCells' = HeapCells /\ heap' = heap /\ info' = info
  BY <1>1 DEF HeapCells
<1> QED BY <1>3, <1>7, <1>8 DEF Guarded

LEMMA AllMappedStep == HInv /\ [Next]_vars => AllMapped'
<1> SUFFICES ASSUME HInv, [Next]_vars PROVE AllMapped'
  OBVIOUS
<1>1. CASE LookUp
  <2>1. CASE at' = "stack"
    <3>1. next > Len(ldso.segments) /\ next' = next /\ ldso' = ldso /\ at = "segments"
      BY <1>1, <2>1 DEF LookUp, Ends, chosen, loading
    <3>2. next <= Len(ldso.segments) + 1 /\ ldso \in Elfs /\ next \in Nat
      BY <3>1 DEF HInv, IInv, TypeOK, Progress, Runs
    <3> QED BY <3>1, <3>2, LdSoFacts DEF AllMapped
  <2>2. CASE at' # "stack"
    BY <1>1, <2>2 DEF LookUp, Ends, AllMapped, Launched
  <2> QED BY <2>1, <2>2
<1>2. CASE Start
  BY <1>2 DEF Start, Ends, AllMapped, Launched
<1>3. CASE LoadSegment
  BY <1>3 DEF LoadSegment, Continues, AllMapped, Launched
<1>4. CASE \/ createNewStackForRtld \/ createNewHeapForRtld \/ EnterLdSo
           \/ insertTrampoline("mmap", "sbrk") \/ insertTrampoline("sbrk", "info")
  <2>1. at' = "exited" \/ at \in {"stack", "heap"} \cup Launched
    BY <1>4 DEF createNewStackForRtld, createNewHeapForRtld, EnterLdSo, insertTrampoline, Launched
  <2>2. UNCHANGED <<chosen, loading>>
    BY <1>4 DEF createNewStackForRtld, createNewHeapForRtld, EnterLdSo, insertTrampoline, Ends
  <2> QED BY <2>1, <2>2 DEF HInv, AllMapped, Launched, chosen, loading
<1>5. CASE UNCHANGED vars
  BY <1>5 DEF HInv, AllMapped, vars, chosen, loading
<1> QED BY <1>1, <1>2, <1>3, <1>4, <1>5 DEF Next

LEMMA GuardedStep == HInv /\ [Next]_vars => Guarded'
<1> SUFFICES ASSUME HInv, [Next]_vars PROVE Guarded'
  OBVIOUS
<1>1. CASE Start \/ LoadSegment \/ LookUp \/ createNewStackForRtld
  BY <1>1 DEF Start, LoadSegment, Continues, LookUp, createNewStackForRtld, Ends, Guarded, Launched
<1>2. CASE createNewHeapForRtld
  <2>1. CASE at' = "mmap"
    BY <1>2, <2>1, HeapGuarded
  <2>2. CASE at' # "mmap"
    BY <1>2, <2>2 DEF createNewHeapForRtld, Ends, Guarded, Launched
  <2> QED BY <2>1, <2>2
<1>3. CASE insertTrampoline("mmap", "sbrk") \/ insertTrampoline("sbrk", "info")
  BY <1>3, TrampolineGuarded DEF Functions
<1>4. CASE EnterLdSo \/ UNCHANGED vars
  <2>1. at' = "exited" \/ at \in Launched \/ at' = at
    BY <1>4 DEF EnterLdSo, Launched, vars
  <2>2. UNCHANGED <<loading, info, mem, heap>>
    BY <1>4 DEF EnterLdSo, Ends, vars
  <2> QED BY <2>1, <2>2 DEF HInv, Guarded, HeapCells, loading, Launched
<1> QED BY <1>1, <1>2, <1>3, <1>4 DEF Next

LEMMA HInitInv == Init => HInv
BY InitInv DEF Init, HInv, AllMapped, Guarded, Launched

LEMMA HNextInv == HInv /\ [Next]_vars => HInv'
BY NextInv, AllMappedStep, GuardedStep DEF HInv

LEMMA GuardedIsReady == HInv => HeapReady
<1> SUFFICES ASSUME HInv, at = "jumped", lost = {}, NEW a \in HeapCells
             PROVE  mem[a].prot = IF a < heap.uhBrk /\ heap.guarded THEN {} ELSE {"R", "W"}
  BY DEF HeapReady, HeapCells
<1>1. mem[a] = [data |-> Zero, prot |-> IF a < heap.uhBrk /\ heap.guarded THEN {} ELSE {"R", "W"}]
  BY DEF HInv, Guarded, Launched
<1> QED BY <1>1

\* The heap that createNewHeapForRtld makes is writable from the break on, and
\* below it guarded if the mprotect whose result it ignores has done that, wherever
\* the kernel puts it: the pages that the trampolines are written into belong to
\* ld.so, also when a jump crosses a page.
THEOREM HeapStaysReady == Spec => []HeapReady
BY HInitInv, HNextInv, GuardedIsReady, PTL DEF Spec
-----------------------------------------------------------------------------
(* The pages of a library.                                                 *)

LSeg(l, i) == l.segments[i]

\* A file that is there can be told from one that is not, and from a failure.
LEMMA ElfIsFile ==
  ASSUME NEW elf, elf \in Elfs \/ elf \in Libraries
  PROVE  /\ IsLdSo(elf) /\ elf \notin {Dies, Failed, Unset} /\ elf # NoFile
         /\ elf.symtab \in BOOLEAN /\ elf.debuglink \in BOOLEAN
<1>0. IsLdSo(elf)
  BY LoaderAssumption, LibrariesAssumption
<1>1. /\ "segments" \in DOMAIN elf
      /\ elf.symtab \in BOOLEAN /\ elf.debuglink \in BOOLEAN
  BY <1>0 DEF IsLdSo
<1>2. DOMAIN Dies = {"result"} /\ DOMAIN Failed = {"result"} /\ DOMAIN Unset = {"result"}
  BY DEF Dies, Failed, Unset
<1>3. DOMAIN NoFile = {"symtab", "debuglink", "symbols"}
  BY DEF NoFile
<1> QED BY <1>0, <1>1, <1>2, <1>3


LEMMA LibraryFacts ==
  ASSUME NEW l \in Libraries
  PROVE  /\ Len(l.segments) \in Nat \ {0}
         /\ Span(l) \in Nat /\ \E k \in Nat : Span(l) = k * PAGE_SIZE
         /\ l.symbols \in [Functions -> Nat \cup {NotFound}]
         /\ \A i \in 1 .. Len(l.segments) :
              LET s == LSeg(l, i) IN
              /\ s.vaddr \in Nat /\ s.offset \in Nat /\ s.filesz \in Nat
              /\ s.prot \in SUBSET Permissions
              /\ ROUND_DOWN(s.vaddr) \in Nat /\ ROUND_DOWN(s.vaddr) <= s.vaddr
              /\ ROUND_UP(s.vaddr + s.filesz) <= Span(l)
<1> DEFINE n == Len(l.segments)
<1>1. /\ IsLdSo(l) /\ l.segments \in Seq(Segment) /\ n \in Nat \ {0}
      /\ DOMAIN l.segments = 1 .. n
  <2>1. IsLdSo(l)
    BY LibrariesAssumption
  <2>2. l.segments \in Seq(Segment) /\ l.segments # <<>>
    BY <2>1 DEF IsLdSo
  <2> QED BY <2>1, <2>2
<1>2. \A i \in 1 .. n : l.segments[i] \in Segment /\ l.segments[i].memsz = l.segments[i].filesz
  BY <1>1, LibrariesAssumption
<1>3. \A i \in 1 .. n :
        /\ l.segments[i].vaddr \in Nat /\ l.segments[i].offset \in Nat
        /\ l.segments[i].filesz \in Nat /\ l.segments[i].memsz \in Nat
        /\ l.segments[i].prot \in SUBSET Permissions
  BY <1>2 DEF Segment
<1>4. \A i \in 1 .. n :
        LET x == l.segments[i].vaddr + l.segments[i].memsz IN
        x \in Nat /\ ROUND_UP(x) \in Nat /\ x <= ROUND_UP(x) /\ \E k \in Nat : ROUND_UP(x) = k * PAGE_SIZE
  <2>1. \A i \in 1 .. n : l.segments[i].vaddr + l.segments[i].memsz \in Nat
    BY <1>3
  <2> QED BY <2>1, RoundUp
<1>5. \A i \in 1 .. n :
        ROUND_DOWN(l.segments[i].vaddr) \in Nat /\ ROUND_DOWN(l.segments[i].vaddr) <= l.segments[i].vaddr
  BY <1>3, RoundDown
<1>6. Span(l) \in Nat /\ \E k \in Nat : Span(l) = k * PAGE_SIZE
  BY <1>1, <1>4 DEF Span
<1>7. ASSUME NEW i \in 1 .. n PROVE ROUND_UP(l.segments[i].vaddr + l.segments[i].filesz) <= Span(l)
  <2>0. l.segments[i].memsz = l.segments[i].filesz
    BY <1>2
  <2>1. CASE i = n
    BY <2>0, <2>1, <1>4, <1>6 DEF Span
  <2>2. CASE i # n
    <3>1. i < n /\ n \in DOMAIN l.segments /\ i \in DOMAIN l.segments
      BY <2>2, <1>1
    <3>2. ROUND_UP(l.segments[i].vaddr + l.segments[i].memsz) <= ROUND_DOWN(l.segments[n].vaddr)
      BY <3>1, <1>1 DEF IsLdSo
    <3>3. /\ ROUND_UP(l.segments[i].vaddr + l.segments[i].memsz) \in Nat
          /\ ROUND_DOWN(l.segments[n].vaddr) \in Nat
          /\ ROUND_DOWN(l.segments[n].vaddr) <= l.segments[n].vaddr
          /\ l.segments[n].vaddr \in Nat /\ l.segments[n].memsz \in Nat
          /\ l.segments[n].vaddr + l.segments[n].memsz <= Span(l)
      BY <1>1, <1>3, <1>4, <1>5 DEF Span
    <3>4. \A a, b, v, m, sp \in Nat : a <= b /\ b <= v /\ v + m <= sp => a <= sp
      OBVIOUS
    <3>5. ROUND_UP(l.segments[i].vaddr + l.segments[i].memsz) <= Span(l)
      BY <3>2, <3>3, <3>4, <1>6
    <3> QED BY <3>5, <2>0
  <2> QED BY <2>1, <2>2
<1>8. l.symbols \in [Functions -> Nat \cup {NotFound}]
  BY <1>1 DEF IsLdSo
<1> QED BY <1>1, <1>3, <1>5, <1>6, <1>7, <1>8 DEF LSeg

\* The pages of a jump that ends before the end of a page range are in it.
LEMMA PatchedWithin ==
  ASSUME NEW low \in Nat, low = ROUND_DOWN(low), NEW size \in Nat,
         \E k \in Nat : size = k * PAGE_SIZE,
         NEW addr \in Nat, low <= addr, addr + JUMP_SIZE <= low + size
  PROVE  Patched(addr) \subseteq low .. low + size - 1
<1> DEFINE page == ROUND_DOWN(addr)
           length == IF addr + JUMP_SIZE - page > PAGE_SIZE THEN 2 * PAGE_SIZE ELSE PAGE_SIZE
<1>1. PICK i \in Nat, k \in Nat : low = i * PAGE_SIZE /\ size = k * PAGE_SIZE
  BY RoundDown
<1>2. JUMP_SIZE \in Nat /\ 0 < JUMP_SIZE /\ PAGE_SIZE \in Nat /\ 0 < PAGE_SIZE
  BY LoaderAssumption, PageSizeAssumption
<1>3. /\ page \in Nat /\ page <= addr /\ addr < page + PAGE_SIZE
      /\ \E j \in Nat : page = j * PAGE_SIZE
  BY RoundDown
<1>4. PICK j \in Nat : page = j * PAGE_SIZE
  BY <1>3
<1>5. low <= page
  <2>1. ROUND_DOWN(low) <= ROUND_DOWN(addr)
    BY RoundOrder
  <2> QED BY <2>1
<1>6. (i + k) * PAGE_SIZE = low + size /\ i + k \in Nat
  BY <1>1, <1>2
<1>7. Patched(addr) = page .. page + length - 1
  BY DEF Patched
<1>8. length = IF addr + JUMP_SIZE - page > PAGE_SIZE THEN 2 * PAGE_SIZE ELSE PAGE_SIZE
  OBVIOUS
<1> HIDE DEF page, length
<1>9. page + length <= low + size
  <2>1. j * PAGE_SIZE < (i + k) * PAGE_SIZE
    BY <1>2, <1>3, <1>4, <1>6
  <2>2. page + PAGE_SIZE <= low + size
    BY <2>1, <1>4, <1>6, Multiples
  <2>3. CASE addr + JUMP_SIZE - page > PAGE_SIZE
    <3>1. (j + 1) * PAGE_SIZE = page + PAGE_SIZE /\ j + 1 \in Nat
      BY <1>2, <1>4
    <3>2. (j + 1) * PAGE_SIZE < (i + k) * PAGE_SIZE
      BY <3>1, <1>2, <1>3, <1>6, <2>3
    <3>3. (j + 1) * PAGE_SIZE + PAGE_SIZE <= (i + k) * PAGE_SIZE
      BY <3>1, <3>2, <1>6, Multiples
    <3> QED BY <3>1, <3>3, <2>3, <1>2, <1>3, <1>6, <1>8
  <2> QED BY <2>2, <2>3, <1>8
<1> QED
  <2>1. length \in Nat
    BY <1>2, <1>8
  <2> QED BY <2>1, <1>3, <1>5, <1>7, <1>9
-----------------------------------------------------------------------------
(* The invariant.                                                          *)

\* The pages of the library are not those of a segment of ld.so, nor the heap's.
Beside(l, low) ==
  /\ \A i \in 1 .. next - 1 : i \notin lost =>
       \A a \in Cells(Seg(ldso, i)) : a \notin low .. low + Span(l) - 1
  /\ \A a \in HeapCells : a \notin low .. low + Span(l) - 1

Placed ==
  /\ at = "jumped" /\ lost = {} /\ libc \in Libraries
  /\ mapped \in 1 .. Len(libc.segments)
  /\ lo \in Nat /\ lo = ROUND_DOWN(lo)
  /\ libcDebug # NoFile => libcDebug.symbols = libc.symbols
  /\ libcDebug \in Libraries \cup {NoFile}
  /\ step \in {"look", "mmap", "sbrk"} => IsCode(libc.segments[mapped].prot)
  /\ step \in {"mmap", "sbrk"} => \A f \in Functions : libc.symbols[f] # NotFound
  /\ step = "look" => libc.name = "libc-"
  /\ Beside(libc, lo)

Where == (mapped = 0 /\ step = "map" /\ libc = NoFile) \/ Placed

\* No trampoline of the library is written elsewhere.
Kept == libc = NoFile \/ Confined(libc)

LInv == TypeOK /\ Where /\ (Kept => HInv)

\* A step that writes only where the library is.
LEMMA Untouched ==
  ASSUME HInv, at = "jumped", lost = {}, NEW l, NEW low, Beside(l, low), mem' \in Memory,
         \A a \in Addrs : a \notin low .. low + Span(l) - 1 => mem'[a] = mem[a],
         UNCHANGED <<at, chosen, loading, info, newStack, heap>>
  PROVE  HInv' /\ Beside(l, low)'
<1>1. TypeOK'
  BY DEF HInv, IInv, TypeOK, chosen, loading, Memory
<1>2. Runs /\ Runs' /\ Jumps' = Jumps
  BY DEF Jumps, Runs
<1>3. Progress' /\ Found'
  BY <1>2 DEF HInv, IInv, Progress, Found, chosen, loading
<1>4. AllRight'
  <2>1. \A s, a : Promised(s, a)' = Promised(s, a)
    BY <1>2 DEF Promised, chosen
  <2> SUFFICES ASSUME 1 \notin lost, NEW i \in 1 .. next - 1, i \notin lost PROVE Right(i)'
    BY DEF AllRight, loading
  <2>2. Right(i) /\ ldso \in Elfs /\ i \in 1 .. Len(ldso.segments)
    <3>1. next \in Nat /\ ldso \in Elfs /\ next <= Len(ldso.segments) + 1
      BY <1>2 DEF HInv, IInv, TypeOK, Progress
    <3>2. Len(ldso.segments) \in Nat
      BY <3>1, LdSoFacts
    <3>3. Right(i)
      BY <1>2, RightMeans DEF HInv, IInv, AllRight
    <3> QED BY <3>1, <3>2, <3>3
  <2>3. ASSUME NEW a \in Cells(Seg(ldso, i)) PROVE mem'[a] = mem[a]
    <3>1. a \in Addrs
      BY <2>2, CellsInPages
    <3>2. a \notin low .. low + Span(l) - 1
      BY DEF Beside
    <3> QED BY <3>1, <3>2
  <2> QED BY <2>1, <2>2, <2>3 DEF Right, chosen
<1>5. Beside(l, low)'
  BY DEF Beside, HeapCells, chosen, loading
<1>6. AllMapped' /\ Guarded'
  <2>1. AllMapped'
    BY DEF HInv, AllMapped, Launched, chosen, loading
  <2>2. ASSUME NEW a \in HeapCells PROVE mem'[a] = mem[a]
    BY DEF HInv, Guarded, Launched, Beside
  <2> QED BY <2>1, <2>2 DEF HInv, Guarded, HeapCells, Launched, loading
<1>7. IInv'
  BY <1>1, <1>3, <1>4, RightMeans DEF IInv
<1> QED BY <1>5, <1>6, <1>7 DEF HInv

LEMMA FileAtType ==
  ASSUME NEW m \in Memory, NEW addr \in Nat, NEW n, NEW offset \in Nat,
         NEW prot \in SUBSET Permissions
  PROVE  FileAt(m, addr, n, offset, prot) \in Memory
<1>1. \A a \in Addrs : m[a] \in [data : Int, prot : SUBSET Permissions]
  BY DEF Memory
<1>2. \A a \in Addrs : Byte(offset + (a - addr)) \in Int
  BY LoaderAssumption DEF Byte, Addrs
<1> QED BY <1>1, <1>2 DEF FileAt, Memory

LEMMA LInitInv == LibcInit => LInv
BY HInitInv DEF LibcInit, LInv, Where, HInv, IInv

\* A step of the library alone keeps the types.
LEMMA UpperTypes ==
  ASSUME TypeOK, mem' \in Memory, UNCHANGED <<at, chosen, loading, info, newStack, heap>>
  PROVE  TypeOK'
BY DEF TypeOK, chosen, loading, Memory

\* Once ld.so runs, no step of the launch is left.
LEMMA LaunchOver == at = "jumped" => ~Next
BY DEF Next, Start, LoadSegment, LookUp, createNewStackForRtld, createNewHeapForRtld,
       insertTrampoline, EnterLdSo, Ends

LEMMA LaunchInv ==
  ASSUME LInv, Next, UNCHANGED upper
  PROVE  LInv'
<1>1. mapped = 0 /\ step = "map" /\ libc = NoFile
  BY LaunchOver DEF LInv, Where, Placed
<1>2. HInv'
  BY <1>1, HNextInv DEF LInv, Kept
<1> QED BY <1>1, <1>2 DEF LInv, Where, Kept, upper, HInv, IInv

LEMMA MapLibraryInv ==
  ASSUME LInv, MapLibrary
  PROVE  LInv'
<1>1. PICK l \in Libraries, d \in Libraries \cup {NoFile}, low \in Addrs :
        /\ d # NoFile => d.symbols = l.symbols
        /\ Room(low, Span(l))
        /\ mem' = FileAt(mem, low, Span(l), ROUND_DOWN(l.segments[1].offset), l.segments[1].prot)
        /\ libc' = l /\ libcDebug' = d /\ lo' = low
        /\ Seen(l, l.segments[1].prot)
  BY DEF MapLibrary
<1>2. /\ at = "jumped" /\ lost = {} /\ mapped' = 1
      /\ UNCHANGED <<at, chosen, loading, info, newStack, heap, outcome>>
  BY DEF MapLibrary, Running
<1>0. HInv
  BY DEF MapLibrary, LInv, Where, Placed, Kept
<1>3. /\ Len(l.segments) \in Nat \ {0} /\ Span(l) \in Nat
      /\ \E k \in Nat : Span(l) = k * PAGE_SIZE
      /\ l.segments[1].prot \in SUBSET Permissions
      /\ ROUND_DOWN(l.segments[1].offset) \in Nat
  <2>1. 1 \in 1 .. Len(l.segments)
    BY LibraryFacts
  <2>2. l.segments[1].offset \in Nat /\ l.segments[1].prot \in SUBSET Permissions
    BY <2>1, LibraryFacts DEF LSeg
  <2> QED BY <2>2, LibraryFacts, RoundDown
<1>4. low \in Nat /\ low = ROUND_DOWN(low) /\ \A a \in low .. low + Span(l) - 1 : mem[a] = Unmapped
  BY <1>1, LoaderAssumption DEF Room, Addrs
<1>5. Beside(l, low)
  <2>0. ASSUME NEW a \in HeapCells PROVE a \notin low .. low + Span(l) - 1
    <3>0. mem[a] = [data |-> Zero, prot |-> IF a < heap.uhBrk /\ heap.guarded THEN {} ELSE {"R", "W"}]
      BY <1>0, <1>2 DEF HInv, Guarded, Launched
    <3>1. mem[a].data = Zero
      BY <3>0
    <3>2. mem[a] # Unmapped
      BY <3>1 DEF Unmapped, Zero, Nothing
    <3> QED BY <1>4, <3>2
  <2> SUFFICES ASSUME NEW i \in 1 .. next - 1, i \notin lost, NEW a \in Cells(Seg(ldso, i))
               PROVE  a \notin low .. low + Span(l) - 1
    BY <2>0 DEF Beside
  <2>1. next \in Nat /\ ldso \in Elfs /\ next <= Len(ldso.segments) + 1 /\ Runs
    BY <1>0, <1>2 DEF HInv, IInv, TypeOK, Progress, Runs
  <2>2. Len(ldso.segments) \in Nat
    BY <2>1, LdSoFacts
  <2>3. HInv /\ IInv /\ Right(i) /\ i \in 1 .. Len(ldso.segments)
    BY <1>0, <1>2, <2>1, <2>2, RightMeans DEF HInv, IInv, AllRight
  <2>4. mem[a] # Unmapped
    BY <2>1, <2>3, PromisedIsMapped
  <2> QED BY <1>4, <2>4
<1>6. mem' \in Memory
  <2>1. mem \in Memory
    BY Typed DEF LInv
  <2> QED BY <1>1, <1>3, <1>4, <2>1, FileAtType
\* The space is a whole number of pages.
<1>7. \A a \in Addrs : a \notin low .. low + Span(l) - 1 => mem'[a] = mem[a]
  <2>1. ROUND_UP(low + Span(l)) <= low + Span(l)
    <3>1. PICK j \in Nat, k \in Nat : low = j * PAGE_SIZE /\ Span(l) = k * PAGE_SIZE
      BY <1>3, <1>4, RoundDown
    <3>2. low + Span(l) = (j + k) * PAGE_SIZE /\ j + k \in Nat
      BY <3>1, PageSizeAssumption
    <3>3. low + Span(l) \in Nat
      BY <1>3, <1>4
    <3> QED BY <3>2, <3>3, RoundUpBelow
  <2>2. ROUND_UP(low + Span(l)) \in Nat
    <3>1. low + Span(l) \in Nat
      BY <1>3, <1>4
    <3> QED BY <3>1, RoundUp
  <2>3. PagesFrom(low, Span(l)) \subseteq low .. low + Span(l) - 1
    BY <2>1, <2>2, <1>3, <1>4 DEF PagesFrom
  <2> QED BY <1>1, <2>3 DEF FileAt
<1>8. HInv' /\ Beside(l, low)'
  BY <1>0, <1>2, <1>5, <1>6, <1>7, Untouched
<1>9. Placed'
  <2>1. /\ step' \in {"map", "look"}
        /\ step' = "look" => IsCode(l.segments[1].prot) /\ libc'.name = "libc-"
    BY <1>1 DEF Seen
  <2>2. at' = "jumped" /\ lost' = {}
    BY <1>2 DEF loading
  <2>3. Beside(libc, lo)'
    BY <1>1, <1>8 DEF Beside
  <2> QED BY <1>1, <1>2, <1>3, <1>4, <2>1, <2>2, <2>3 DEF Placed
<1>10. TypeOK'
  BY <1>8 DEF HInv, IInv
<1> QED BY <1>8, <1>9, <1>10 DEF LInv, Where

LEMMA MapSegmentInv ==
  ASSUME LInv, MapSegment
  PROVE  LInv'
<1> DEFINE s == LSeg(libc, mapped + 1)
           n == PAGE_OFFSET(s.vaddr) + s.filesz
           addr == lo + ROUND_DOWN(s.vaddr)
<1>1. /\ mem' = FileAt(mem, addr, n, ROUND_DOWN(s.offset), s.prot)
      /\ Seen(libc, s.prot) /\ mapped' = mapped + 1 /\ mapped > 0 /\ mapped < Len(libc.segments)
      /\ at = "jumped" /\ lost = {} /\ step = "map"
      /\ UNCHANGED <<at, chosen, loading, info, newStack, heap, libc, libcDebug, lo, outcome>>
  BY DEF MapSegment, Running, LSeg
<1>2. Placed /\ TypeOK
  BY <1>1 DEF LInv, Where
<1>3. /\ libc \in Libraries /\ Len(libc.segments) \in Nat /\ mapped + 1 \in 1 .. Len(libc.segments)
      /\ lo \in Nat /\ lo = ROUND_DOWN(lo) /\ Beside(libc, lo)
  BY <1>1, <1>2, LibraryFacts DEF Placed
<1>4. /\ s.vaddr \in Nat /\ s.offset \in Nat /\ s.filesz \in Nat /\ s.prot \in SUBSET Permissions
      /\ ROUND_DOWN(s.vaddr) \in Nat /\ ROUND_DOWN(s.vaddr) <= s.vaddr
      /\ ROUND_UP(s.vaddr + s.filesz) <= Span(libc) /\ Span(libc) \in Nat
  BY <1>3, LibraryFacts
<1>5. ROUND_DOWN(s.offset) \in Nat
  BY <1>4, RoundDown
<1>6. PagesFrom(addr, n) \subseteq lo .. lo + Span(libc) - 1
  <2>1. addr + n = lo + (s.vaddr + s.filesz)
    <3> HIDE DEF s
    <3> QED BY <1>3, <1>4 DEF PAGE_OFFSET
  <2>2. s.vaddr + s.filesz \in Nat
    BY <1>4
  <2>3. ROUND_UP(addr + n) = lo + ROUND_UP(s.vaddr + s.filesz)
    BY <1>3, <2>1, <2>2, RoundShift
  <2>4. ROUND_UP(s.vaddr + s.filesz) \in Nat
    BY <2>2, RoundUp
  <2> HIDE DEF s, n
  <2> QED BY <1>3, <1>4, <2>3, <2>4 DEF PagesFrom
<1>7. mem' \in Memory
  <2>1. mem \in Memory /\ addr \in Nat
    BY <1>2, <1>3, <1>4, Typed
  <2> QED BY <1>1, <1>4, <1>5, <2>1, FileAtType
<1>8. \A a \in Addrs : a \notin lo .. lo + Span(libc) - 1 => mem'[a] = mem[a]
  BY <1>1, <1>6 DEF FileAt
<1>9. TypeOK' /\ Beside(libc, lo)' /\ (Kept' => HInv')
  <2>1. TypeOK'
    BY <1>1, <1>2, <1>7, UpperTypes
  <2>2. Beside(libc, lo)'
    BY <1>1, <1>3 DEF Beside, HeapCells, chosen, loading
  <2>3. ASSUME Kept' PROVE HInv'
    <3>1. HInv
      BY <1>1, <2>3 DEF LInv, Kept, Confined
    <3>2. PICK l, low : l = libc /\ low = lo
      OBVIOUS
    <3> QED BY <1>1, <1>3, <1>7, <1>8, <3>1, <3>2, Untouched
  <2> QED BY <2>1, <2>2, <2>3
<1>10. Placed'
  <2>1. /\ step' \in {"map", "look"}
        /\ step' = "look" => IsCode(s.prot) /\ libc'.name = "libc-"
    BY <1>1 DEF Seen
  <2>2. lost' = {}
    BY <1>1 DEF loading
  <2>3. libc'.segments[mapped'] = s
    BY <1>1 DEF LSeg
  <2> HIDE DEF s
  <2> QED BY <1>1, <1>2, <1>3, <1>9, <2>1, <2>2, <2>3 DEF Placed
<1> QED BY <1>9, <1>10 DEF LInv, Where

LEMMA LookUpLibcInv ==
  ASSUME LInv, LookUpLibc
  PROVE  LInv'
<1>1. /\ step = "look" /\ step' \in {"died", "map", "mmap"}
      /\ UNCHANGED <<vars, libc, libcDebug, lo, mapped, outcome>>
  BY DEF LookUpLibc
<1>2. Placed
  BY <1>1 DEF LInv, Where
<1>3. step' = "mmap" => \A f \in Functions : libc.symbols[f] # NotFound
  <2> SUFFICES ASSUME step' = "mmap" PROVE \A f \in Functions : libc.symbols[f] # NotFound
    OBVIOUS
  <2>1. PICK m \in get_symbol_offset(libc, libcDebug, "mmap"),
             b \in get_symbol_offset(libc, libcDebug, "sbrk") :
          Crash \notin {m, b} /\ ~Missing(m, b)
    BY DEF LookUpLibc
  <2>2. \A f \in Functions :
          get_symbol_offset(libc, libcDebug, f) \subseteq {Crash, NotFound, libc.symbols[f]}
    <3>1. \/ getSymbolTable(libc, libcDebug) \in {Dies, Failed, Unset, libc}
          \/ libcDebug # NoFile /\ getSymbolTable(libc, libcDebug) = libcDebug
      BY DEF getSymbolTable, Table
    <3>2. libcDebug # NoFile => libcDebug.symbols = libc.symbols
      BY <1>2 DEF Placed
    <3> QED BY <3>1, <3>2 DEF get_symbol_offset
  <2> QED BY <2>1, <2>2 DEF Missing, Functions
<1>4. UNCHANGED vars
  BY <1>1
<1>5. TypeOK' /\ (Kept' => HInv')
  <2>1. TypeOK'
    BY <1>4, UpperTypes, Typed DEF LInv, vars
  <2>2. Kept' => Kept
    BY <1>1 DEF Kept, Confined
  <2> QED BY <1>4, <2>1, <2>2, HNextInv DEF LInv
<1>6. Placed'
  BY <1>1, <1>2, <1>3 DEF Placed, Beside, HeapCells, vars, chosen, loading
<1> QED BY <1>5, <1>6 DEF LInv, Where

\* What a failing mprotect has changed is among the pages of the jump.
LEMMA BegunWithin ==
  ASSUME NEW addr \in Nat
  PROVE  \A T \in Begun(addr) : T \subseteq Patched(addr)
<1>1. /\ PAGE_SIZE \in Nat /\ ROUND_DOWN(addr) \in Nat
  BY PageSizeAssumption, RoundDown
<1>2. PICK page \in Nat : page = ROUND_DOWN(addr)
  BY <1>1
<1>3. Patched(addr) \in {page .. page + PAGE_SIZE - 1, page .. page + 2 * PAGE_SIZE - 1}
  BY <1>2 DEF Patched
<1>4. page .. page + PAGE_SIZE - 1 \subseteq page .. page + 2 * PAGE_SIZE - 1
  BY <1>1
<1>5. \A T \in Begun(addr) : T \in {{}, page .. page + PAGE_SIZE - 1}
  BY <1>2 DEF Begun
<1> QED BY <1>3, <1>4, <1>5

LEMMA PatchLibcInv ==
  ASSUME LInv, NEW f \in Functions, NEW then \in {"sbrk", "map"}, PatchLibc(f, then)
  PROVE  LInv'
<1> DEFINE addr == Target(f)
           P == Patched(addr)
           S == addr .. addr + JUMP_SIZE - 1
           open == Written(Protected(mem, P, Permissions), S, Jump(f))
<1>1. /\ step = f /\ step' = then
      /\ \/ mem' = mem
         \/ \E T \in Begun(addr) : mem' = Protected(mem, T, Permissions)
         \/ \E T \in Begun(addr) \cup {P} : mem' = Protected(open, T, {"R", "X"})
      /\ UNCHANGED <<at, chosen, loading, info, newStack, heap, libc, libcDebug, lo, mapped>>
  BY DEF PatchLibc
<1>2. Placed /\ TypeOK
  BY <1>1 DEF LInv, Where, Functions
<1>3. /\ libc \in Libraries /\ mapped \in 1 .. Len(libc.segments)
      /\ lo \in Nat /\ lo = ROUND_DOWN(lo) /\ Beside(libc, lo)
      /\ IsCode(libc.segments[mapped].prot) /\ libc.symbols[f] # NotFound
      /\ at = "jumped" /\ lost = {}
  BY <1>1, <1>2 DEF Placed, Functions
<1>4. /\ ROUND_DOWN(libc.segments[mapped].vaddr) \in Nat
      /\ Span(libc) \in Nat /\ \E k \in Nat : Span(libc) = k * PAGE_SIZE
      /\ libc.symbols[f] \in Nat
  BY <1>3, LibraryFacts DEF LSeg
<1>5. mem \in Memory
  BY <1>2, Typed
<1>6. addr \in Nat /\ addr = lo + ROUND_DOWN(libc.segments[mapped].vaddr) + libc.symbols[f]
  BY <1>3, <1>4 DEF Target
<1> HIDE DEF addr
<1>7. mem' \in Memory
  <2>1. \A T : Protected(mem, T, Permissions) \in Memory
    BY <1>5, MemoryTypes DEF Zero
  <2>2. open \in Memory
    <3>1. Jump(f) \in Int /\ {} \in SUBSET Permissions
      BY DEF Jump
    <3> HIDE DEF P, S
    <3> QED BY <2>1, <3>1, MemoryTypes
  <2>3. \A T : Protected(open, T, {"R", "X"}) \in Memory
    <3>1. {"R", "X"} \in SUBSET Permissions /\ Zero \in Int
      BY DEF Permissions, Zero
    <3> HIDE DEF open, P
    <3> QED BY <2>2, <3>1, MemoryTypes
  <2> HIDE DEF open, P
  <2> QED BY <1>1, <1>5, <2>1, <2>3
<1>8. ASSUME Confined(libc), NEW a \in Addrs, a \notin lo .. lo + Span(libc) - 1
      PROVE  mem'[a] = mem[a]
  <2>1. JUMP_SIZE \in Nat /\ 0 < JUMP_SIZE
    BY LoaderAssumption, PageSizeAssumption
  <2>2. lo <= addr /\ addr + JUMP_SIZE <= lo + Span(libc)
    <3>1. ROUND_DOWN(libc.segments[mapped].vaddr) + libc.symbols[f] + JUMP_SIZE <= Span(libc)
      <4>1. mapped \in DOMAIN libc.segments
        <5>1. libc.segments \in Seq(Segment)
          BY <1>3, LibrariesAssumption DEF IsLdSo
        <5> QED BY <1>3, <5>1
      <4> QED BY <1>3, <1>8, <4>1 DEF Confined
    <3>2. PICK v \in Nat, y \in Nat : v = ROUND_DOWN(libc.segments[mapped].vaddr) /\ y = libc.symbols[f]
      BY <1>4
    <3>3. addr = lo + v + y /\ v + y + JUMP_SIZE <= Span(libc)
      BY <1>6, <3>1, <3>2
    <3> QED BY <1>3, <1>4, <2>1, <3>3
  <2>3. P \subseteq lo .. lo + Span(libc) - 1
    BY <1>3, <1>4, <1>6, <2>2, PatchedWithin
  <2>4. S \subseteq lo .. lo + Span(libc) - 1
    <3>1. \A x, y, j, sp \in Nat : x <= y /\ y + j <= x + sp => y .. y + j - 1 \subseteq x .. x + sp - 1
      OBVIOUS
    <3>2. lo \in Nat /\ addr \in Nat /\ Span(libc) \in Nat /\ JUMP_SIZE \in Nat
      BY <1>3, <1>4, <1>6, <2>1
    <3> QED BY <2>2, <3>1, <3>2
  <2>5. a \notin P /\ a \notin S /\ \A T \in Begun(addr) : a \notin T
    BY <1>6, <1>8, <2>3, <2>4, BegunWithin
  <2> HIDE DEF P, S
  <2>6. open[a] = mem[a]
    BY <1>5, <2>5 DEF Written, Protected, Memory
  <2>7. \A T, m : a \notin T => Protected(m, T, Permissions)[a] = m[a]
    BY DEF Protected
  <2>8. \A T, m : a \notin T => Protected(m, T, {"R", "X"})[a] = m[a]
    BY DEF Protected
  <2> HIDE DEF open
  <2> QED BY <1>1, <2>5, <2>6, <2>7, <2>8
<1>9. TypeOK' /\ Beside(libc, lo)' /\ (Kept' => HInv')
  <2>1. TypeOK'
    BY <1>1, <1>2, <1>7, UpperTypes
  <2>2. Beside(libc, lo)'
    BY <1>1, <1>3 DEF Beside, HeapCells, chosen, loading
  <2>3. ASSUME Kept' PROVE HInv'
    <3>1. Confined(libc) /\ HInv
      <4>1. Kept
        BY <1>1, <2>3 DEF Kept, Confined
      <4>2. libc # NoFile
        BY <1>3, ElfIsFile
      <4> QED BY <4>1, <4>2 DEF LInv, Kept
    <3>2. PICK l, low : l = libc /\ low = lo
      OBVIOUS
    <3> QED BY <1>1, <1>3, <1>7, <1>8, <3>1, <3>2, Untouched
  <2> QED BY <2>1, <2>2, <2>3
<1>10. Placed'
  <2>1. lost' = {}
    BY <1>1, <1>3 DEF loading
  <2>2. \A g \in Functions : libc.symbols[g] # NotFound
    BY <1>1, <1>2 DEF Placed, Functions
  <2> QED BY <1>1, <1>2, <1>3, <1>9, <2>1, <2>2 DEF Placed
<1> QED BY <1>9, <1>10 DEF LInv, Where

LEMMA LNextInv == LInv /\ [LibcNext]_<<vars, upper>> => LInv'
<1> SUFFICES ASSUME LInv, [LibcNext]_<<vars, upper>> PROVE LInv'
  OBVIOUS
<1>1. CASE Next /\ UNCHANGED upper
  BY <1>1, LaunchInv
<1>2. CASE MapLibrary
  BY <1>2, MapLibraryInv
<1>3. CASE MapSegment
  BY <1>3, MapSegmentInv
<1>4. CASE LookUpLibc
  BY <1>4, LookUpLibcInv
<1>5. CASE PatchLibc("mmap", "sbrk") \/ PatchLibc("sbrk", "map")
  BY <1>5, PatchLibcInv DEF Functions
<1>6. CASE UNCHANGED <<vars, upper>>
  <2>1. TypeOK' /\ (Kept' => HInv')
    <3>1. TypeOK'
      BY <1>6, UpperTypes, Typed DEF LInv, vars
    <3>2. Kept' => Kept
      BY <1>6 DEF Kept, Confined, upper
    <3> QED BY <1>6, <3>1, <3>2, HNextInv DEF LInv
  <2>2. Where'
    BY <1>6 DEF LInv, Where, Placed, Beside, HeapCells, vars, upper, chosen, loading
  <2> QED BY <2>1, <2>2 DEF LInv
<1> QED BY <1>1, <1>2, <1>3, <1>4, <1>5, <1>6 DEF LibcNext

\* The type invariant of the launch and of what ld.so maps after it
\* (kernel-loader.c, mmap-wrapper.c).
THEOREM LibcTypeCorrect == LibcSpec => []TypeOK
<1>1. LInv => TypeOK
  BY DEF LInv
<1> QED BY <1>1, LInitInv, LNextInv, PTL DEF LibcSpec

\* Wherever ld.so puts a library of the upper half, its mappings and the
\* trampolines that patchLibc (mmap-wrapper.c) writes for it leave ld.so as its
\* file says, with its two jumps, as long as the distance of mmap and sbrk from
\* each segment to execute ends within the library.  The code does not look
\* whether it does.
THEOREM LdSoIsKept == LibcSpec => []LdSoKept
<1>1. LInv => LdSoKept
  BY DEF LInv, Kept, LdSoKept, HInv, IInv
<1> QED BY <1>1, LInitInv, LNextInv, PTL DEF LibcSpec

\* Under the same condition the heap of the upper half stays writable from the
\* break on, and guarded below as the launch made it (kernel-loader.c:432-453).
THEOREM HeapIsKept == LibcSpec => []HeapKept
<1>1. LInv => HeapKept
  BY GuardedIsReady DEF LInv, Kept, HeapKept
<1> QED BY <1>1, LInitInv, LNextInv, PTL DEF LibcSpec
-----------------------------------------------------------------------------
(* The bytes of a library.                                                 *)

LEMMA PageOffset ==
  ASSUME NEW x \in Nat, NEW y \in Nat, x % PAGE_SIZE = y % PAGE_SIZE
  PROVE  x - ROUND_DOWN(x) = y - ROUND_DOWN(y)
<1>1. ASSUME NEW z \in Nat PROVE z - ROUND_DOWN(z) = z % PAGE_SIZE
  BY PageSizeAssumption DEF ROUND_DOWN
<1>2. ROUND_DOWN(x) \in Nat /\ ROUND_DOWN(y) \in Nat
  BY RoundDown
<1> QED BY <1>1, <1>2

\* A library whose first segment alone is to execute has its functions in it.
LEMMA CodeFacts ==
  ASSUME NEW l \in Libraries, CodeFirst(l)
  PROVE  /\ 1 \in 1 .. Len(l.segments)
         /\ l.segments[1].vaddr = 0 /\ IsCode(l.segments[1].prot)
         /\ ROUND_DOWN(l.segments[1].vaddr) = 0
         /\ \A f \in Functions : l.symbols[f] # NotFound =>
              /\ l.symbols[f] \in Nat /\ l.segments[1].prot = {"R", "X"}
              /\ l.symbols[f] + JUMP_SIZE <= l.segments[1].filesz
<1>1. IsLdSo(l) /\ Len(l.segments) \in Nat \ {0} /\ DOMAIN l.segments = 1 .. Len(l.segments)
  <2>1. IsLdSo(l)
    BY LibrariesAssumption
  <2>2. l.segments \in Seq(Segment) /\ l.segments # <<>>
    BY <2>1 DEF IsLdSo
  <2> QED BY <2>1, <2>2
<1>2. 1 \in DOMAIN l.segments /\ l.segments[1].vaddr = 0
  BY <1>1 DEF IsLdSo
<1>3. IsCode(l.segments[1].prot)
  BY <1>2 DEF CodeFirst
<1>4. ROUND_DOWN(0) = 0
  <2>1. ROUND_DOWN(0) \in Nat /\ ROUND_DOWN(0) <= 0
    BY RoundDown
  <2> QED BY <2>1
<1>5. ASSUME NEW f \in Functions, l.symbols[f] # NotFound
      PROVE  /\ l.symbols[f] \in Nat /\ l.segments[1].prot = {"R", "X"}
             /\ l.symbols[f] + JUMP_SIZE <= l.segments[1].filesz
  <2>1. PICK i \in DOMAIN l.segments :
          /\ l.segments[i].prot = {"R", "X"}
          /\ l.symbols[f] + JUMP_SIZE <= l.segments[i].vaddr + l.segments[i].filesz
    BY <1>1, <1>5 DEF IsLdSo
  <2>2. i = 1
    BY <2>1 DEF CodeFirst, IsCode
  <2>3. l.symbols[f] \in Nat
    BY <1>1, <1>5 DEF IsLdSo
  <2>4. l.segments[1].filesz \in Nat
    BY <1>1, <1>2, LibraryFacts DEF LSeg
  <2>5. l.symbols[f] + JUMP_SIZE <= 0 + l.segments[1].filesz
    BY <1>2, <2>1, <2>2
  <2> QED BY <2>1, <2>2, <2>3, <2>4, <2>5
<1> QED BY <1>1, <1>2, <1>3, <1>4, <1>5

\* The bytes of a function, from the start of the library.
Of(l, f) == l.symbols[f] .. l.symbols[f] + JUMP_SIZE - 1

LEMMA OfApart ==
  ASSUME NEW l \in Libraries, \A f \in Functions : l.symbols[f] # NotFound,
         NEW f \in Functions, NEW g \in Functions, NEW a \in Of(l, f), a \in Of(l, g)
  PROVE  f = g
<1>1. /\ LdSoBase \in Nat /\ JUMP_SIZE \in Nat
      /\ \A h \in Functions : l.symbols[h] \in Nat
  BY LoaderAssumption, PageSizeAssumption, LibraryFacts
<1>2. ASSUME NEW h \in Functions, a \in Of(l, h) PROVE LdSoBase + a \in Patch(l, h)
  <2>1. PICK x \in Nat : x = l.symbols[h]
    BY <1>1
  <2>2. a \in x .. x + JUMP_SIZE - 1
    BY <1>2, <2>1 DEF Of
  <2>3. LdSoBase + a \in LdSoBase + x .. LdSoBase + x + JUMP_SIZE - 1
    BY <1>1, <2>2
  <2> QED BY <2>1, <2>3 DEF Patch
<1>3. Patch(l, "mmap") \cap Patch(l, "sbrk") = {}
  BY LibrariesAssumption DEF IsLdSo
<1> QED BY <1>2, <1>3 DEF Functions

\* What is known of segment i of the library.
Touched(f) == outcome[f] # "untouched"
Jumped(f) == outcome[f] \in {"open", "patched"}
Loose == \E f \in Functions : outcome[f] \in {"loosened", "open"}
Clean(i) ==
  LET s == LSeg(libc, i) IN
  \A a \in s.vaddr .. s.vaddr + s.filesz - 1 :
    /\ \A f \in Functions : a \in Of(libc, f) /\ Jumped(f) => mem[lo + a].data = Jump(f)
    /\ (\A f \in Functions : a \in Of(libc, f) => ~Jumped(f)) =>
         mem[lo + a].data = Byte(s.offset + (a - s.vaddr))
    /\ \/ mem[lo + a].prot = s.prot
       \/ IsCode(s.prot) /\ Loose

\* No function is written to twice, nor before all are found.
Once ==
  /\ (\E f \in Functions : Touched(f)) => \A f \in Functions : libc.symbols[f] # NotFound
  /\ step \in {"look", "mmap"} => \A f \in Functions : ~Touched(f)
  /\ step = "sbrk" => ~Touched("sbrk")

CodeInv ==
  /\ outcome \in [Functions -> {"untouched", "loosened", "open", "patched"}]
  /\ mapped = 0 => \A f \in Functions : ~Touched(f)
  /\ mapped > 0 => lo + Span(libc) <= Top
  /\ mapped > 0 /\ CodeFirst(libc) => Once /\ \A i \in 1 .. mapped : Clean(i)

LEMMA CleanIsRight ==
  ASSUME LInv, CodeInv
  PROVE  LibraryRight
<1> SUFFICES ASSUME mapped > 0, CodeFirst(libc), NEW i \in 1 .. mapped,
                    NEW a \in LSeg(libc, i).vaddr .. LSeg(libc, i).vaddr + LSeg(libc, i).filesz - 1
             PROVE  LET s == LSeg(libc, i)
                        now == mem[lo + a]
                        of(f) == a \in libc.symbols[f] .. libc.symbols[f] + JUMP_SIZE - 1
                    IN  /\ now.data = IF \E f \in Functions : of(f) /\ outcome[f] \in {"open", "patched"}
                                      THEN Jump(CHOOSE f \in Functions : of(f))
                                      ELSE Byte(s.offset + (a - s.vaddr))
                        /\ \/ now.prot = s.prot
                           \/ IsCode(s.prot) /\ \E f \in Functions : outcome[f] \in {"loosened", "open"}
  BY DEF LibraryRight, LSeg
<1> DEFINE s == LSeg(libc, i)
           of(f) == a \in libc.symbols[f] .. libc.symbols[f] + JUMP_SIZE - 1
<1>1. Once /\ Clean(i)
  BY DEF CodeInv
<1>2. /\ \A f \in Functions : of(f) /\ Jumped(f) => mem[lo + a].data = Jump(f)
      /\ (\A f \in Functions : of(f) => ~Jumped(f)) =>
           mem[lo + a].data = Byte(s.offset + (a - s.vaddr))
      /\ \/ mem[lo + a].prot = s.prot
         \/ IsCode(s.prot) /\ Loose
  BY <1>1 DEF Clean, Of
<1>3. libc \in Libraries
  BY DEF LInv, Where, Placed
<1>4. ASSUME NEW f \in Functions, of(f), Jumped(f)
      PROVE  (CHOOSE g \in Functions : of(g)) = f
  <2>1. \A g \in Functions : libc.symbols[g] # NotFound
    BY <1>1, <1>4 DEF Once, Jumped, Touched
  <2>2. \A g \in Functions : of(g) => g = f
    BY <1>3, <1>4, <2>1, OfApart DEF Of
  <2> HIDE DEF of
  <2>3. of(CHOOSE g \in Functions : of(g)) /\ (CHOOSE g \in Functions : of(g)) \in Functions
    BY <1>4, Zenon
  <2> QED BY <2>2, <2>3
<1> HIDE DEF of, s
<1>5. mem[lo + a].data = IF \E f \in Functions : of(f) /\ outcome[f] \in {"open", "patched"}
                         THEN Jump(CHOOSE f \in Functions : of(f))
                         ELSE Byte(s.offset + (a - s.vaddr))
  <2>1. CASE \E f \in Functions : of(f) /\ Jumped(f)
    <3>1. PICK f \in Functions : of(f) /\ Jumped(f)
      BY <2>1
    <3>2. (CHOOSE g \in Functions : of(g)) = f
      BY <1>4, <3>1
    <3> QED BY <1>2, <3>1, <3>2, Zenon DEF Jumped
  <2>2. CASE ~\E f \in Functions : of(f) /\ Jumped(f)
    BY <1>2, <2>2, Zenon DEF Jumped
  <2> QED BY <2>1, <2>2
<1> QED BY <1>2, <1>5, Zenon DEF of, s, Loose

LEMMA MapLibraryCode ==
  ASSUME LInv, CodeInv, MapLibrary
  PROVE  CodeInv'
<1>1. PICK l \in Libraries, low \in Addrs :
        /\ Room(low, Span(l))
        /\ mem' = FileAt(mem, low, Span(l), ROUND_DOWN(l.segments[1].offset), l.segments[1].prot)
        /\ libc' = l /\ lo' = low
        /\ mapped = 0 /\ mapped' = 1 /\ outcome' = outcome
  BY DEF MapLibrary
<1>2. Span(l) \in Nat /\ low \in Nat /\ Top \in Nat /\ low < Top
  BY <1>1, LibraryFacts, LoaderAssumption DEF Addrs
<1>3. \A f \in Functions : ~Touched(f)
  BY <1>1 DEF CodeInv
<1>4. low + Span(l) <= Top
  <2>1. CASE Span(l) = 0
    BY <1>2, <2>1
  <2>2. CASE Span(l) # 0
    <3>1. low + Span(l) - 1 \in low .. low + Span(l) - 1
      BY <1>2, <2>2
    <3>2. low + Span(l) - 1 \in Addrs
      BY <1>1, <3>1 DEF Room
    <3> QED BY <1>2, <3>2 DEF Addrs
  <2> QED BY <2>1, <2>2
<1>5. ASSUME CodeFirst(l) PROVE Clean(1)'
  <2> DEFINE s == l.segments[1]
  <2>1. /\ 1 \in 1 .. Len(l.segments) /\ s.vaddr = 0 /\ ROUND_DOWN(s.vaddr) = 0
    BY <1>5, CodeFacts
  <2>2. /\ s.offset \in Nat /\ s.filesz \in Nat
        /\ ROUND_UP(s.vaddr + s.filesz) <= Span(l)
    BY <2>1, LibraryFacts DEF LSeg
  <2>3. s.vaddr % PAGE_SIZE = s.offset % PAGE_SIZE
    <3>1. IsLdSo(l)
      BY LibrariesAssumption
    <3>2. l.segments \in Seq(Segment) /\ 1 \in DOMAIN l.segments
      BY <2>1, <3>1 DEF IsLdSo
    <3> QED BY <3>1, <3>2 DEF IsLdSo
  <2>4. ROUND_DOWN(s.offset) = s.offset
    <3>1. s.vaddr \in Nat
      BY <2>1
    <3>2. s.vaddr - ROUND_DOWN(s.vaddr) = s.offset - ROUND_DOWN(s.offset)
      BY <2>2, <2>3, <3>1, PageOffset
    <3>3. ROUND_DOWN(s.offset) \in Nat
      BY <2>2, RoundDown
    <3> HIDE DEF s
    <3> QED BY <2>1, <2>2, <3>2, <3>3
  <2>5. s.filesz <= Span(l)
    <3>1. s.vaddr + s.filesz = s.filesz
      BY <2>1, <2>2
    <3>2. ROUND_UP(s.filesz) \in Nat /\ s.filesz <= ROUND_UP(s.filesz)
      BY <2>2, RoundUp
    <3> HIDE DEF s
    <3> QED BY <1>2, <2>2, <3>1, <3>2
  <2> HIDE DEF s
  <2>6. ASSUME NEW a \in s.vaddr .. s.vaddr + s.filesz - 1
        PROVE  /\ mem'[low + a].data = Byte(s.offset + (a - s.vaddr))
               /\ mem'[low + a].prot = s.prot
    <3>1. a \in Nat /\ a < Span(l)
      BY <1>2, <2>1, <2>2, <2>5
    <3>2. low + a \in Addrs /\ low + a \in Nat
      BY <1>2, <1>4, <3>1 DEF Addrs
    <3>3. low + Span(l) <= ROUND_UP(low + Span(l)) /\ ROUND_UP(low + Span(l)) \in Nat
      <4>1. low + Span(l) \in Nat
        BY <1>2
      <4> QED BY <4>1, RoundUp
    <3>4. low + a \in PagesFrom(low, Span(l))
      BY <1>2, <3>1, <3>2, <3>3 DEF PagesFrom
    <3>5. PICK p : p = low + a
      OBVIOUS
    <3>6. mem' = FileAt(mem, low, Span(l), s.offset, s.prot)
      BY <1>1, <2>4 DEF s
    <3>7. mem'[p] = [data |-> Byte(s.offset + (p - low)), prot |-> s.prot]
      BY <3>2, <3>4, <3>5, <3>6 DEF FileAt
    <3>8. p - low = a - s.vaddr
      BY <1>2, <2>1, <3>1, <3>5
    <3> QED BY <3>5, <3>7, <3>8
  <2>7. LSeg(libc, 1)' = s /\ lo' = low
    BY <1>1 DEF LSeg, s
  <2>8. \A f \in Functions : ~Jumped(f)'
    BY <1>1, <1>3 DEF Touched, Jumped
  <2> QED BY <2>6, <2>7, <2>8 DEF Clean
<1>6. Once'
  BY <1>1, <1>3 DEF Once, Touched, Functions
<1> QED BY <1>1, <1>2, <1>3, <1>4, <1>5, <1>6 DEF CodeInv, Touched

\* A segment is as it was when no cell of it is written to.
LEMMA CleanStays ==
  ASSUME NEW i, Clean(i), UNCHANGED <<libc, lo, outcome>>,
         \A a \in LSeg(libc, i).vaddr .. LSeg(libc, i).vaddr + LSeg(libc, i).filesz - 1 :
           mem'[lo + a] = mem[lo + a]
  PROVE  Clean(i)'
BY DEF Clean, Jumped, Loose

LEMMA MapSegmentCode ==
  ASSUME LInv, CodeInv, MapSegment
  PROVE  CodeInv'
<1> DEFINE s == LSeg(libc, mapped + 1)
           n == PAGE_OFFSET(s.vaddr) + s.filesz
           addr == lo + ROUND_DOWN(s.vaddr)
<1>1. /\ mem' = FileAt(mem, addr, n, ROUND_DOWN(s.offset), s.prot)
      /\ Seen(libc, s.prot) /\ mapped' = mapped + 1 /\ mapped > 0 /\ mapped < Len(libc.segments)
      /\ step = "map" /\ UNCHANGED <<libc, lo, outcome>>
  BY DEF MapSegment, LSeg
<1>2. Placed
  BY <1>1 DEF LInv, Where
<1>3. /\ libc \in Libraries /\ Len(libc.segments) \in Nat /\ mapped + 1 \in 1 .. Len(libc.segments)
      /\ mapped \in Nat \ {0} /\ lo \in Nat /\ lo = ROUND_DOWN(lo)
  BY <1>1, <1>2, LibraryFacts DEF Placed
<1>4. /\ s.vaddr \in Nat /\ s.offset \in Nat /\ s.filesz \in Nat
      /\ ROUND_DOWN(s.vaddr) \in Nat /\ ROUND_DOWN(s.vaddr) <= s.vaddr
      /\ ROUND_UP(s.vaddr + s.filesz) <= Span(libc) /\ Span(libc) \in Nat
  BY <1>3, LibraryFacts
<1>5. lo + Span(libc) <= Top /\ Top \in Nat
  BY <1>1, LoaderAssumption DEF CodeInv
<1>6. IsLdSo(libc) /\ DOMAIN libc.segments = 1 .. Len(libc.segments)
  <2>1. IsLdSo(libc)
    BY <1>3, LibrariesAssumption
  <2>2. libc.segments \in Seq(Segment)
    BY <2>1 DEF IsLdSo
  <2> QED BY <2>1, <2>2
\* The segments before end below the page where this one begins.
<1>7. ASSUME NEW i \in 1 .. mapped, NEW a \in LSeg(libc, i).vaddr .. LSeg(libc, i).vaddr + LSeg(libc, i).filesz - 1
      PROVE  a \in Nat /\ a < ROUND_DOWN(s.vaddr)
  <2>1. i \in DOMAIN libc.segments /\ mapped + 1 \in DOMAIN libc.segments /\ i < mapped + 1
        /\ i \in 1 .. Len(libc.segments)
    BY <1>3, <1>6
  <2>2. ROUND_UP(LSeg(libc, i).vaddr + LSeg(libc, i).memsz) <= ROUND_DOWN(s.vaddr)
    BY <1>6, <2>1 DEF IsLdSo, LSeg
  <2>3. /\ LSeg(libc, i).memsz = LSeg(libc, i).filesz
        /\ LSeg(libc, i).vaddr \in Nat /\ LSeg(libc, i).filesz \in Nat
    BY <1>3, <2>1, LibrariesAssumption, LibraryFacts DEF LSeg
  <2>4. PICK v \in Nat, z \in Nat : v = LSeg(libc, i).vaddr /\ z = LSeg(libc, i).filesz
    BY <2>3
  <2>5. v + z \in Nat /\ v + z <= ROUND_UP(v + z) /\ ROUND_UP(v + z) \in Nat
    <3>1. v + z \in Nat
      OBVIOUS
    <3> QED BY <3>1, RoundUp
  <2>6. ROUND_UP(v + z) <= ROUND_DOWN(s.vaddr) /\ a \in v .. v + z - 1
    BY <2>2, <2>3, <2>4
  <2> HIDE DEF s
  <2> QED BY <1>4, <2>5, <2>6
<1>8. ASSUME CodeFirst(libc), NEW i \in 1 .. mapped
      PROVE  Clean(i)'
  <2>1. Clean(i)
    BY <1>1, <1>8 DEF CodeInv
  <2>2. ASSUME NEW a \in LSeg(libc, i).vaddr .. LSeg(libc, i).vaddr + LSeg(libc, i).filesz - 1
        PROVE  mem'[lo + a] = mem[lo + a]
    <3>1. a \in Nat /\ a < ROUND_DOWN(s.vaddr)
      BY <1>7
    <3>2. i \in 1 .. Len(libc.segments)
      BY <1>3
    <3>3. lo + a \in Addrs
      <4>1. a < Span(libc)
        <5>1. s.vaddr + s.filesz \in Nat
          BY <1>4
        <5>2. s.vaddr + s.filesz <= ROUND_UP(s.vaddr + s.filesz) /\ ROUND_UP(s.vaddr + s.filesz) \in Nat
          BY <5>1, RoundUp
        <5> HIDE DEF s
        <5> QED BY <1>4, <3>1, <5>2
      <4> QED BY <1>3, <1>4, <1>5, <3>1, <4>1 DEF Addrs
    <3>4. lo + a < addr
      <4> HIDE DEF s
      <4> QED BY <1>3, <1>4, <3>1
    <3>5. lo + a \notin PagesFrom(addr, n)
      <4>1. addr \in Nat /\ lo + a \in Nat
        <5> HIDE DEF s
        <5> QED BY <1>3, <1>4, <3>1
      <4> HIDE DEF addr, n
      <4> QED BY <3>4, <4>1 DEF PagesFrom
    <3> HIDE DEF addr, n, s
    <3> QED BY <1>1, <3>3, <3>5 DEF FileAt
  <2> QED BY <1>1, <2>1, <2>2, CleanStays
<1>9. ASSUME CodeFirst(libc), NEW k, k = mapped + 1
      PROVE  Clean(k)'
  <2>1. ASSUME NEW a \in s.vaddr .. s.vaddr + s.filesz - 1
        PROVE  /\ mem'[lo + a].data = Byte(s.offset + (a - s.vaddr))
               /\ mem'[lo + a].prot = s.prot
    <3>1. PICK p : p = lo + a
      OBVIOUS
    <3>2. PICK v \in Nat, z \in Nat, o \in Nat : v = s.vaddr /\ z = s.filesz /\ o = s.offset
      BY <1>4
    <3>3. v % PAGE_SIZE = o % PAGE_SIZE
      <4>1. mapped + 1 \in DOMAIN libc.segments
        BY <1>3, <1>6
      <4> QED BY <1>6, <3>2, <4>1 DEF IsLdSo, LSeg
    <3>4. /\ v - ROUND_DOWN(v) = o - ROUND_DOWN(o)
          /\ ROUND_DOWN(v) \in Nat /\ ROUND_DOWN(o) \in Nat /\ ROUND_DOWN(v) <= v
      BY <3>3, PageOffset, RoundDown
    <3>5. a \in Nat /\ v <= a /\ a < v + z
      BY <3>2
    <3>6. PICK r \in Nat, q \in Nat : r = ROUND_DOWN(v) /\ q = ROUND_DOWN(o)
      BY <3>4
    <3>7. v - r = o - q /\ r <= v
      BY <3>4, <3>6
    <3>8. addr = lo + r /\ addr \in Nat /\ n = (v - r) + z
      BY <1>3, <3>2, <3>6 DEF PAGE_OFFSET
    <3>9. PICK x : x = addr + n
      OBVIOUS
    <3> HIDE DEF addr, n
    <3>10. x = lo + (v + z) /\ x \in Nat
      BY <1>3, <3>8, <3>9, <3>7
    <3>11. x <= ROUND_UP(x) /\ ROUND_UP(x) \in Nat
      BY <3>10, RoundUp
    <3>12. p \in PagesFrom(addr, n)
      <4>1. addr <= p /\ p < x /\ p \in Nat
        BY <1>3, <3>1, <3>5, <3>8, <3>10, <3>7
      <4>2. p \in addr .. ROUND_UP(x) - 1
        BY <3>8, <3>10, <3>11, <4>1
      <4> QED BY <3>9, <4>2 DEF PagesFrom
    <3>13. p \in Addrs
      <4>1. ROUND_UP(v + z) <= Span(libc) /\ v + z <= ROUND_UP(v + z) /\ ROUND_UP(v + z) \in Nat
        <5>1. v + z \in Nat
          OBVIOUS
        <5> QED BY <1>4, <3>2, <5>1, RoundUp
      <4>2. a < Span(libc)
        BY <1>4, <3>5, <4>1
      <4> QED BY <1>3, <1>4, <1>5, <3>1, <3>5, <4>2 DEF Addrs
    <3>14. mem'[p] = [data |-> Byte(ROUND_DOWN(o) + (p - addr)), prot |-> s.prot]
      <4> HIDE DEF s
      <4> QED BY <1>1, <3>2, <3>12, <3>13 DEF FileAt
    <3>15. q + (p - addr) = o + (a - v)
      BY <1>3, <3>1, <3>5, <3>8, <3>7
    <3>16. mem'[p] = [data |-> Byte(o + (a - v)), prot |-> s.prot]
      BY <3>14, <3>15, <3>6
    <3> HIDE DEF s
    <3> QED BY <3>1, <3>2, <3>16
  <2>2. ASSUME NEW a \in s.vaddr .. s.vaddr + s.filesz - 1, NEW f \in Functions, Jumped(f)
        PROVE  a \notin Of(libc, f)
    <3>1. Once
      BY <1>1, <1>9 DEF CodeInv
    <3>2. libc.symbols[f] # NotFound
      BY <2>2, <3>1 DEF Once, Jumped, Touched
    <3>3. /\ libc.segments[1].vaddr = 0 /\ libc.symbols[f] \in Nat
          /\ libc.symbols[f] + JUMP_SIZE <= libc.segments[1].filesz
      BY <1>3, <1>9, <3>2, CodeFacts
    <3>4. JUMP_SIZE \in Nat /\ libc.segments[1].filesz \in Nat
      <4>1. 1 \in 1 .. Len(libc.segments)
        BY <1>3
      <4>2. libc.segments[1].filesz \in Nat
        BY <1>3, <4>1, LibraryFacts DEF LSeg
      <4>3. JUMP_SIZE \in Nat
        BY LoaderAssumption, PageSizeAssumption
      <4> QED BY <4>2, <4>3
    <3>5. SUFFICES ASSUME a \in Of(libc, f) PROVE FALSE
      OBVIOUS
    <3>6. a \in LSeg(libc, 1).vaddr .. LSeg(libc, 1).vaddr + LSeg(libc, 1).filesz - 1
      <4>1. PICK y \in Nat, z \in Nat : y = libc.symbols[f] /\ z = libc.segments[1].filesz
        BY <3>3, <3>4
      <4>2. a \in y .. y + JUMP_SIZE - 1 /\ y + JUMP_SIZE <= z
        BY <3>3, <3>5, <4>1 DEF Of
      <4>3. a \in 0 .. 0 + z - 1
        BY <3>4, <4>2
      <4> QED BY <3>3, <4>1, <4>3 DEF LSeg
    <3>7. a < ROUND_DOWN(s.vaddr)
      <4>1. 1 \in 1 .. mapped
        BY <1>3
      <4> HIDE DEF s
      <4> QED BY <1>7, <3>6, <4>1
    <3>8. s.vaddr <= a
      BY <1>4
    <3> HIDE DEF s
    <3> QED BY <1>4, <3>7, <3>8
  <2>3. LSeg(libc', k) = s /\ lo' = lo
    BY <1>1, <1>9
  <2>4. \A f \in Functions : (Jumped(f)' <=> Jumped(f)) /\ Of(libc', f) = Of(libc, f)
    BY <1>1 DEF Jumped
  <2> HIDE DEF s
  <2> QED BY <2>1, <2>2, <2>3, <2>4 DEF Clean
<1>10. CodeFirst(libc) => \A i \in 1 .. mapped' : Clean(i)'
  <2> SUFFICES ASSUME CodeFirst(libc), NEW i \in 1 .. mapped' PROVE Clean(i)'
    OBVIOUS
  <2>1. i \in 1 .. mapped \/ i = mapped + 1
    BY <1>1, <1>3
  <2> QED BY <1>8, <1>9, <2>1
<1>11. CodeFirst(libc) => Once'
  <2> SUFFICES ASSUME CodeFirst(libc) PROVE Once'
    OBVIOUS
  <2>1. ~IsCode(s.prot)
    <3>1. mapped + 1 \in DOMAIN libc.segments /\ mapped + 1 # 1
      BY <1>3, <1>6
    <3> QED BY <3>1 DEF CodeFirst, LSeg
  <2>2. step' = "map"
    BY <1>1, <2>1 DEF Seen
  <2> QED BY <1>1, <2>2 DEF CodeInv, Once, Touched
<1> QED BY <1>1, <1>3, <1>10, <1>11 DEF CodeInv, Touched

LEMMA PatchLibcCode ==
  ASSUME LInv, CodeInv, NEW f \in Functions, NEW then \in {"sbrk", "map"}, PatchLibc(f, then),
         <<f, then>> \in {<<"mmap", "sbrk">>, <<"sbrk", "map">>}
  PROVE  CodeInv'
<1> DEFINE addr == Target(f)
           P == Patched(addr)
           S == addr .. addr + JUMP_SIZE - 1
           open == Written(Protected(mem, P, Permissions), S, Jump(f))
           began(T) == Protected(mem, T, Permissions)
           closed(T) == Protected(open, T, {"R", "X"})
<1>1. /\ step = f /\ step' = then
      /\ \/ mem' = mem /\ outcome' = outcome
         \/ /\ \E T \in Begun(addr) : mem' = began(T)
            /\ outcome' = [outcome EXCEPT ![f] = "loosened"]
         \/ /\ \E T \in Begun(addr) : mem' = closed(T)
            /\ outcome' = [outcome EXCEPT ![f] = "open"]
         \/ mem' = closed(P) /\ outcome' = [outcome EXCEPT ![f] = "patched"]
      /\ UNCHANGED <<libc, lo, mapped>>
  BY DEF PatchLibc
<1>2. Placed /\ TypeOK
  BY <1>1 DEF LInv, Where, Functions
<1>3. /\ libc \in Libraries /\ mapped \in 1 .. Len(libc.segments) /\ lo \in Nat
      /\ IsCode(libc.segments[mapped].prot) /\ \A g \in Functions : libc.symbols[g] # NotFound
      /\ mem \in Memory /\ Len(libc.segments) \in Nat /\ mapped \in Nat \ {0}
  BY <1>1, <1>2, Typed, LibraryFacts DEF Placed, Functions
<1>4. /\ outcome' \in [Functions -> {"untouched", "loosened", "open", "patched"}]
      /\ \A g \in Functions \ {f} : outcome'[g] = outcome[g]
  BY <1>1 DEF CodeInv
<1>5. ASSUME CodeFirst(libc) PROVE Once' /\ Clean(1)' /\ mapped = 1
  <2>1. mapped = 1 /\ Once /\ Clean(1)
    <3>1. mapped \in DOMAIN libc.segments
      <4>1. IsLdSo(libc)
        BY <1>3, LibrariesAssumption
      <4>2. libc.segments \in Seq(Segment)
        BY <4>1 DEF IsLdSo
      <4> QED BY <1>3, <4>2
    <3>2. mapped = 1
      BY <1>3, <1>5, <3>1 DEF CodeFirst
    <3> QED BY <1>5, <3>2 DEF CodeInv
  <2>2. Once'
    <3>1. /\ ((f = "mmap" /\ then = "sbrk") \/ (f # "mmap" /\ then = "map"))
          /\ step' = then /\ step = f
      BY <1>1
    <3>2. f = "mmap" => outcome'["sbrk"] = outcome["sbrk"] /\ ~Touched("sbrk")
      BY <1>1, <1>4, <2>1 DEF Once, Functions
    <3>3. \A g \in Functions : libc'.symbols[g] # NotFound
      BY <1>1, <1>3
    <3> QED BY <3>1, <3>2, <3>3 DEF Once, Touched
  <2>3. ~Touched(f)
    BY <1>1, <2>1 DEF Once, Functions
  <2> DEFINE s == libc.segments[1]
  <2>4. /\ s.vaddr = 0 /\ IsCode(s.prot) /\ s.prot = {"R", "X"} /\ ROUND_DOWN(s.vaddr) = 0
        /\ libc.symbols[f] \in Nat /\ libc.symbols[f] + JUMP_SIZE <= s.filesz
    BY <1>3, <1>5, CodeFacts
  <2>5. /\ s.filesz \in Nat /\ Span(libc) \in Nat /\ lo + Span(libc) <= Top /\ Top \in Nat
        /\ ROUND_UP(s.vaddr + s.filesz) <= Span(libc)
    <3>1. 1 \in 1 .. Len(libc.segments)
      BY <1>3
    <3> QED BY <1>3, <3>1, LibraryFacts, LoaderAssumption DEF LSeg, CodeInv
  <2>6. s.filesz <= Span(libc)
    <3>1. s.vaddr + s.filesz = s.filesz
      BY <2>4, <2>5
    <3>2. s.filesz <= ROUND_UP(s.filesz) /\ ROUND_UP(s.filesz) \in Nat
      BY <2>5, RoundUp
    <3> HIDE DEF s
    <3> QED BY <2>5, <3>1, <3>2
  <2>7. addr = lo + libc.symbols[f] /\ addr \in Nat
    <3> HIDE DEF s
    <3>1. addr = lo + ROUND_DOWN(s.vaddr) + libc.symbols[f]
      BY <2>1 DEF s, Target
    <3> HIDE DEF addr
    <3> QED BY <1>3, <2>4, <3>1
  <2>8. S \subseteq P
    BY <2>7, JumpPatched
  <2> HIDE DEF s, addr, P
  <2>9. ASSUME NEW a \in s.vaddr .. s.vaddr + s.filesz - 1
        PROVE  /\ lo + a \in Addrs
               /\ lo + a \in S <=> a \in Of(libc, f)
    <3>1. a \in Nat /\ a < Span(libc)
      BY <2>4, <2>5, <2>6
    <3>2. lo + a \in Addrs
      BY <1>3, <2>5, <3>1 DEF Addrs
    <3>3. PICK y \in Nat : y = libc.symbols[f]
      BY <2>4
    <3>4. JUMP_SIZE \in Nat
      BY LoaderAssumption, PageSizeAssumption
    <3>5. lo + a \in lo + y .. lo + y + JUMP_SIZE - 1 <=> a \in y .. y + JUMP_SIZE - 1
      BY <1>3, <3>1, <3>4
    <3> QED BY <2>7, <3>2, <3>3, <3>5 DEF Of
  <2>10. ASSUME NEW a \in s.vaddr .. s.vaddr + s.filesz - 1, NEW T
         PROVE  /\ began(T)[lo + a].data = mem[lo + a].data
                /\ closed(T)[lo + a].data = IF a \in Of(libc, f) THEN Jump(f) ELSE mem[lo + a].data
                /\ closed(P)[lo + a].prot = IF lo + a \in P THEN {"R", "X"} ELSE mem[lo + a].prot
    <3>1. PICK p : p = lo + a
      OBVIOUS
    <3>2. p \in Addrs /\ (p \in S <=> a \in Of(libc, f)) /\ (p \in S => p \in P)
      BY <2>8, <2>9, <3>1
    <3>3. mem[p] \in [data : Int, prot : SUBSET Permissions]
      BY <1>3, <3>2 DEF Memory
    <3> DEFINE m == Protected(mem, P, Permissions)
    <3> HIDE DEF S
    <3>4. \A Q : Protected(mem, Q, Permissions)[p] =
                   IF p \in Q THEN [data |-> mem[p].data, prot |-> Permissions] ELSE mem[p]
      BY <3>2, <3>3 DEF Protected
    <3>5. /\ m[p] \in [data : Int, prot : SUBSET Permissions]
          /\ m[p].data = mem[p].data
          /\ m[p].prot = IF p \in P THEN Permissions ELSE mem[p].prot
          /\ began(T)[p].data = mem[p].data
      BY <3>3, <3>4
    <3> HIDE DEF m
    <3>6. open[p] = IF p \in S THEN [m[p] EXCEPT !.data = Jump(f)] ELSE m[p]
      BY <3>2, <3>5 DEF Written, Permissions, m
    <3> HIDE DEF open
    <3>7. /\ open[p] \in [data : {Jump(f)} \cup Int, prot : SUBSET Permissions]
          /\ open[p].data = IF p \in S THEN Jump(f) ELSE mem[p].data
          /\ open[p].prot = m[p].prot
      BY <3>5, <3>6
    <3>8. \A Q : closed(Q)[p] = IF p \in Q THEN [open[p] EXCEPT !.prot = {"R", "X"}] ELSE open[p]
      BY <3>2 DEF Protected
    <3> HIDE DEF closed
    <3>9. /\ closed(T)[p].data = open[p].data
          /\ closed(P)[p].prot = IF p \in P THEN {"R", "X"} ELSE open[p].prot
      BY <3>7, <3>8
    <3> QED BY <3>1, <3>2, <3>5, <3>7, <3>9
  <2> HIDE DEF S, open, began, closed
  <2>11. LSeg(libc, 1) = s /\ LSeg(libc', 1) = s
    BY <1>1 DEF LSeg, s
  <2>12. \A a \in s.vaddr .. s.vaddr + s.filesz - 1 :
           /\ \A g \in Functions : a \in Of(libc, g) /\ Jumped(g) => mem[lo + a].data = Jump(g)
           /\ (\A g \in Functions : a \in Of(libc, g) => ~Jumped(g)) =>
                mem[lo + a].data = Byte(s.offset + (a - s.vaddr))
           /\ mem[lo + a].prot = s.prot \/ Loose
    BY <2>1, <2>11 DEF Clean
  <2>13. ASSUME mem' = mem, outcome' = outcome PROVE Clean(1)'
    <3>1. Clean(1) /\ UNCHANGED <<libc, lo, outcome>> /\ mem' = mem
      BY <1>1, <2>1, <2>13
    <3> QED BY <3>1, CleanStays
  <2>14. /\ \A g \in Functions : g # f => (Jumped(g)' <=> Jumped(g))
         /\ \A g \in Functions : Of(libc', g) = Of(libc, g)
         /\ lo' = lo /\ IsCode(s.prot)
    BY <1>1, <1>4, <2>4 DEF Jumped
  <2>15. ASSUME \E T \in Begun(addr) : mem' = began(T),
                outcome' = [outcome EXCEPT ![f] = "loosened"]
         PROVE  Clean(1)'
    <3>1. outcome'[f] = "loosened" /\ outcome[f] = "untouched"
      BY <2>3, <2>15 DEF CodeInv, Touched
    <3>2. (\A g \in Functions : Jumped(g)' <=> Jumped(g)) /\ Loose'
      BY <2>14, <3>1 DEF Jumped, Loose
    <3>3. \A a \in s.vaddr .. s.vaddr + s.filesz - 1 : mem'[lo + a].data = mem[lo + a].data
      BY <2>10, <2>15
    <3> QED BY <2>11, <2>12, <2>14, <3>2, <3>3 DEF Clean
  <2>16. ASSUME NEW T, mem' = closed(T), Jumped(f)',
                \A a \in s.vaddr .. s.vaddr + s.filesz - 1 :
                  mem'[lo + a].prot = s.prot \/ Loose'
         PROVE  Clean(1)'
    <3>3. ASSUME NEW a \in s.vaddr .. s.vaddr + s.filesz - 1
          PROVE  /\ \A g \in Functions : a \in Of(libc, g) /\ Jumped(g)' => mem'[lo + a].data = Jump(g)
                 /\ (\A g \in Functions : a \in Of(libc, g) => ~Jumped(g)') =>
                      mem'[lo + a].data = Byte(s.offset + (a - s.vaddr))
      <4>1. mem'[lo + a].data = IF a \in Of(libc, f) THEN Jump(f) ELSE mem[lo + a].data
        BY <2>10, <2>16
      <4>2. CASE a \in Of(libc, f)
        <5>1. \A g \in Functions : a \in Of(libc, g) => g = f
          BY <1>3, <4>2, OfApart
        <5> QED BY <2>16, <4>1, <4>2, <5>1
      <4>3. CASE a \notin Of(libc, f)
        BY <2>12, <2>14, <4>1, <4>3
      <4> QED BY <4>2, <4>3
    <3> QED BY <2>11, <2>14, <2>16, <3>3 DEF Clean
  <2>17. ASSUME \E T \in Begun(addr) : mem' = closed(T),
                outcome' = [outcome EXCEPT ![f] = "open"]
         PROVE  Clean(1)'
    <3>1. PICK T : mem' = closed(T)
      BY <2>17
    <3>2. outcome'[f] = "open"
      BY <2>17 DEF CodeInv
    <3>3. Jumped(f)' /\ Loose'
      BY <3>2 DEF Jumped, Loose
    <3> QED BY <2>16, <3>1, <3>3
  <2>18. ASSUME mem' = closed(P), outcome' = [outcome EXCEPT ![f] = "patched"] PROVE Clean(1)'
    <3>1. outcome'[f] = "patched" /\ outcome[f] = "untouched"
      BY <2>3, <2>18 DEF CodeInv, Touched
    <3>2. Jumped(f)' /\ (Loose => Loose')
      BY <1>4, <3>1 DEF Jumped, Loose
    <3>3. \A a \in s.vaddr .. s.vaddr + s.filesz - 1 :
            mem'[lo + a].prot = s.prot \/ Loose'
      BY <2>4, <2>10, <2>12, <2>18, <3>2
    <3> QED BY <2>16, <2>18, <3>2, <3>3
  <2> QED BY <1>1, <2>1, <2>2, <2>13, <2>15, <2>17, <2>18
<1>6. mapped' = mapped /\ libc' = libc /\ lo' = lo
  BY <1>1
<1>7. CodeFirst(libc) => Once' /\ \A i \in 1 .. mapped : Clean(i)'
  <2>1. SUFFICES ASSUME CodeFirst(libc), NEW i \in 1 .. mapped PROVE Once' /\ Clean(i)'
    BY <1>3
  <2>2. i = 1
    BY <1>5, <2>1
  <2> QED BY <1>5, <2>1, <2>2
<1> QED BY <1>3, <1>4, <1>6, <1>7 DEF CodeInv

\* Nothing of a library changes where neither it nor the memory does.
LEMMA CodeStays ==
  ASSUME CodeInv, UNCHANGED <<mem, libc, lo, mapped, outcome>>,
         step' = step \/ (step = "look" /\ step' \in {"died", "map", "mmap"})
  PROVE  CodeInv'
<1>1. ASSUME NEW i, Clean(i) PROVE Clean(i)'
  BY <1>1, CleanStays
<1>2. Once => Once'
  BY DEF Once, Touched
<1> QED BY <1>1, <1>2 DEF CodeInv, Touched

LEMMA CodeStep == LInv /\ CodeInv /\ [LibcNext]_<<vars, upper>> => CodeInv'
<1> SUFFICES ASSUME LInv, CodeInv, [LibcNext]_<<vars, upper>> PROVE CodeInv'
  OBVIOUS
<1>1. CASE Next /\ UNCHANGED upper
  <2>1. mapped = 0
    BY <1>1, LaunchOver DEF LInv, Where, Placed
  <2>2. mapped' = 0 /\ outcome' = outcome
    BY <1>1, <2>1 DEF upper
  <2> QED BY <2>1, <2>2 DEF CodeInv, Touched
<1>2. CASE MapLibrary
  BY <1>2, MapLibraryCode
<1>3. CASE MapSegment
  BY <1>3, MapSegmentCode
<1>4. CASE LookUpLibc
  <2>1. /\ step = "look" /\ step' \in {"died", "map", "mmap"}
        /\ UNCHANGED <<mem, libc, lo, mapped, outcome>>
    BY <1>4 DEF LookUpLibc, vars
  <2> QED BY <2>1, CodeStays
<1>5. CASE PatchLibc("mmap", "sbrk")
  BY <1>5, PatchLibcCode DEF Functions
<1>6. CASE PatchLibc("sbrk", "map")
  BY <1>6, PatchLibcCode DEF Functions
<1>7. CASE UNCHANGED <<vars, upper>>
  BY <1>7, CodeStays DEF vars, upper
<1> QED BY <1>1, <1>2, <1>3, <1>4, <1>5, <1>6, <1>7 DEF LibcNext

\* A library whose first segment is the only one to execute is in memory as its
\* file says, except that mmap and sbrk of a libc are jumps once all of patchLibc
\* has been done (mmap-wrapper.c), for any sizes of its segments and wherever
\* its functions are: the jumps are where the functions are, no later segment is
\* mapped over them, and no page is left writable that the kernel agreed to
\* protect again.
THEOREM LibraryStaysRight == LibcSpec => []LibraryRight
<1>1. LibcInit => CodeInv
  BY DEF LibcInit, CodeInv, Touched
<1>2. LInv /\ CodeInv => LibraryRight
  BY CleanIsRight
<1> QED BY <1>1, <1>2, LInitInv, LNextInv, CodeStep, PTL DEF LibcSpec
-----------------------------------------------------------------------------
(* Why the loader dies.                                                    *)

\* What cannot be told from a file is so only when there is no table in it, and
\* none to be found beside it.
LEMMA CrashMeans ==
  ASSUME NEW Files \in {Elfs, Libraries}, NEW lib \in Files, NEW dbg \in Files \cup {NoFile},
         NEW f \in Functions,
         dbg # NoFile => dbg.symbols = lib.symbols,
         Crash \in get_symbol_offset(lib, dbg, f)
  PROVE  ~lib.symtab /\ (lib.debuglink => dbg = NoFile)
<1> DEFINE table == getSymbolTable(lib, dbg)
<1>1. table = Dies \/ table = Unset \/ (table # Failed /\ table.symbols[f] = Crash)
  <2>1. Crash \in CASE table = Dies -> {Crash}
                  [] table = Failed -> {NotFound}
                  [] table = Unset -> {NotFound, Crash}
                  [] OTHER -> {table.symbols[f]}
    BY DEF get_symbol_offset
  <2>2. Crash # NotFound
    BY DEF Crash, NotFound
  <2> HIDE DEF table
  <2> QED BY <2>1, <2>2
<1>2. lib.symbols[f] # Crash
  <2>1. lib.symbols[f] \in Nat \cup {NotFound}
    BY ElfIsFile DEF IsLdSo
  <2> QED BY <2>1 DEF Crash, NotFound
<1>3. lib \notin {Dies, Failed, Unset} /\ lib # NoFile /\ lib.symtab \in BOOLEAN /\ lib.debuglink \in BOOLEAN
  BY ElfIsFile
<1>4. ~lib.symtab
  <2>1. SUFFICES ASSUME lib.symtab PROVE FALSE
    OBVIOUS
  <2>2. table = lib
    BY <1>3, <2>1 DEF getSymbolTable, GivesUp, Table
  <2> HIDE DEF table
  <2> QED BY <1>1, <1>2, <1>3, <2>2
<1>5. lib.debuglink => dbg = NoFile
  <2>1. SUFFICES ASSUME lib.debuglink, dbg # NoFile PROVE FALSE
    OBVIOUS
  <2>2. table = IF dbg.symtab THEN dbg ELSE Failed
    BY <1>3, <1>4, <2>1 DEF getSymbolTable, GivesUp, Table
  <2>3. dbg \notin {Dies, Failed, Unset} /\ dbg.symbols[f] = lib.symbols[f]
    BY <2>1, ElfIsFile
  <2>4. Failed # Dies /\ Failed # Unset
    BY DEF Failed, Dies, Unset
  <2> HIDE DEF table
  <2> QED BY <1>1, <1>2, <2>2, <2>3, <2>4
<1> QED BY <1>4, <1>5

LEMMA DiesStep == HInv /\ DiesOnlyUnprepared /\ [Next]_vars => DiesOnlyUnprepared'
<1> SUFFICES ASSUME HInv, DiesOnlyUnprepared, [Next]_vars, at' = "died"
             PROVE  DiesOnlyUnprepared'
  BY DEF DiesOnlyUnprepared
<1>1. UNCHANGED <<ldso, debug, stack, procfs>>
  BY DEF Next, vars, chosen, Start, LoadSegment, Continues, LookUp, Ends,
     createNewStackForRtld, createNewHeapForRtld, insertTrampoline, EnterLdSo
<1>2. CASE Start
  <2>1. ~HasEnv(stack, "RANK_ID") \/ ldso = NoFile
    BY <1>2 DEF Start, Ends
  <2> QED BY <1>1, <2>1 DEF DiesOnlyUnprepared
<1>3. CASE LookUp
  <2>1. PICK m \in get_symbol_offset(ldso, debug, "mmap"),
             b \in get_symbol_offset(ldso, debug, "sbrk") : Crash \in {m, b}
    BY <1>3 DEF LookUp, Ends
  <2>2. /\ ldso \in Elfs /\ debug \in Elfs \cup {NoFile}
        /\ debug # NoFile => debug.symbols = ldso.symbols
    BY <1>3 DEF LookUp, HInv, IInv, TypeOK, Progress, Runs
  <2>3. ~ldso.symtab /\ (ldso.debuglink => debug = NoFile)
    BY <2>1, <2>2, CrashMeans DEF Functions
  <2> QED BY <1>1, <2>3 DEF DiesOnlyUnprepared
<1>4. CASE createNewStackForRtld
  <2>1. ~procfs
    BY <1>4 DEF createNewStackForRtld, Ends
  <2> QED BY <1>1, <2>1 DEF DiesOnlyUnprepared
<1>5. CASE \/ LoadSegment \/ createNewHeapForRtld
           \/ insertTrampoline("mmap", "sbrk") \/ insertTrampoline("sbrk", "info")
           \/ EnterLdSo
  BY <1>5 DEF LoadSegment, Continues, createNewHeapForRtld, insertTrampoline, EnterLdSo, Ends
<1>6. CASE UNCHANGED vars
  BY <1>1, <1>6 DEF vars, DiesOnlyUnprepared
<1> QED BY <1>2, <1>3, <1>4, <1>5, <1>6 DEF Next

\* Booking the address space apart, the loader dies in place of returning an error
\* only for want of RANK_ID, of ld.so, of a symbol table both in ld.so and beside
\* it, or of a /proc that can be read (runRtld, getProcStatField, kernel-loader.c;
\* getSymbolTable, trampoline_setup.c).
THEOREM DiesForAReason == Spec => []DiesOnlyUnprepared
<1>1. Init => DiesOnlyUnprepared
  BY DEF Init, DiesOnlyUnprepared
<1> QED BY <1>1, HInitInv, HNextInv, DiesStep, PTL DEF Spec

\* A libc that the wrapper of mmap looks into ends the process only when it has
\* no symbol table, nor a debug file that is there (patchLibc, mmap-wrapper.c;
\* getSymbolTable, trampoline_setup.c), whatever its functions are and whatever
\* has been written astray.
THEOREM DiesForStripped == LibcSpec => []LibcDiesOnlyStripped
<1>1. LibcInit => LibcDiesOnlyStripped
  BY DEF LibcInit, LibcDiesOnlyStripped
<1>2. LInv /\ LibcDiesOnlyStripped /\ [LibcNext]_<<vars, upper>> => LibcDiesOnlyStripped'
  <2> SUFFICES ASSUME LInv, LibcDiesOnlyStripped, [LibcNext]_<<vars, upper>>, step' = "died"
               PROVE  LibcDiesOnlyStripped'
    BY DEF LibcDiesOnlyStripped
  <2>1. CASE UNCHANGED <<step, libc, libcDebug>>
    BY <2>1 DEF LibcDiesOnlyStripped
  <2>2. CASE MapLibrary \/ MapSegment \/ PatchLibc("mmap", "sbrk") \/ PatchLibc("sbrk", "map")
    BY <2>2 DEF MapLibrary, MapSegment, Seen, PatchLibc
  <2>3. CASE LookUpLibc
    <3>1. PICK m \in get_symbol_offset(libc, libcDebug, "mmap"),
               b \in get_symbol_offset(libc, libcDebug, "sbrk") : Crash \in {m, b}
      BY <2>3 DEF LookUpLibc
    <3>2. /\ libc \in Libraries /\ libcDebug \in Libraries \cup {NoFile}
          /\ libcDebug # NoFile => libcDebug.symbols = libc.symbols
          /\ libc.name = "libc-" /\ UNCHANGED <<libc, libcDebug>>
      BY <2>3 DEF LookUpLibc, LInv, Where, Placed
    <3>3. ~libc.symtab /\ (libc.debuglink => libcDebug = NoFile)
      BY <3>1, <3>2, CrashMeans DEF Functions
    <3> QED BY <3>2, <3>3 DEF LibcDiesOnlyStripped
  <2> QED BY <2>1, <2>2, <2>3 DEF LibcNext, upper
<1> QED BY <1>1, <1>2, LInitInv, LNextInv, PTL DEF LibcSpec

-----------------------------------------------------------------------------
(* The stack of ld.so.                                                     *)

LEMMA Least ==
  ASSUME NEW M \in SUBSET Nat, M # {}
  PROVE  \E k \in M : \A j \in M : k <= j
<1> DEFINE R == OpToRel(<, Nat)
<1>1. IsWellFoundedOn(R, Nat)
  BY NatLessThanWellFounded, Zenon
<1> HIDE DEF R
<1>2. PICK k \in M : \A j \in M : ~(<<j, k>> \in R)
  BY <1>1, WFMin
<1>3. \A j \in Nat : j < k => <<j, k>> \in R
  BY DEF R, OpToRel
<1>4. \A j \in M : ~(j < k)
  BY <1>2, <1>3, Zenon
<1> QED
  BY <1>4

\* What a stack is, by its parts.
LEMMA StackFacts ==
  ASSUME NEW s, IsStack(s)
  PROVE  /\ s.lo \in Nat /\ s.start \in Nat /\ DOMAIN s.text \subseteq Nat
         /\ Len(s.argv) \in Nat /\ DOMAIN s.argv = 1 .. Len(s.argv)
         /\ Len(s.env) \in Nat /\ DOMAIN s.env = 1 .. Len(s.env)
         /\ \A i \in DOMAIN s.argv : s.argv[i] \in DOMAIN s.text /\ s.argv[i] \in Nat
         /\ \A i \in DOMAIN s.env : s.env[i] \in DOMAIN s.text /\ s.env[i] \in Nat
         /\ \A i \in DOMAIN s.env : s.env[i] + 1 \in DOMAIN s.text
<1> DEFINE T == DOMAIN s.text
<1>1. /\ s.lo \in Nat /\ s.start \in Nat /\ T \subseteq Nat
      /\ s.argv \in Seq(T) /\ s.env \in Seq(T)
      /\ \A i \in DOMAIN s.env : s.env[i] + 1 \in T
  BY DEF IsStack
<1> HIDE DEF T
<1>2. /\ Len(s.argv) \in Nat /\ DOMAIN s.argv = 1 .. Len(s.argv)
      /\ \A i \in DOMAIN s.argv : s.argv[i] \in T
  BY <1>1
<1>3. /\ Len(s.env) \in Nat /\ DOMAIN s.env = 1 .. Len(s.env)
      /\ \A i \in DOMAIN s.env : s.env[i] \in T
  BY <1>1
<1> QED BY <1>1, <1>2, <1>3 DEF T

\* All pointers move as far as the area does.
LEMMA AllMoved ==
  ASSUME NEW s, IsStack(s), NEW low \in Nat, NEW what
  PROVE  LET d == low - s.lo
             t == deepCopyStack(s, low, what)
             u == [s EXCEPT !.lo = low, !.start = s.start + d,
                     !.text = [a \in {b + d : b \in DOMAIN s.text} |-> s.text[a - d]],
                     !.argv = [[i \in DOMAIN s.argv |-> s.argv[i] + d]
                                 EXCEPT ![1] = getenv(s, "TARGET_LD") + d],
                     !.env = [i \in DOMAIN s.env |-> s.env[i] + d],
                     !.auxv = patchAuxv(s.auxv, what)]
         IN  getenv(s, "TARGET_LD") \in Int => t = Preload(u)
<1> DEFINE d == low - s.lo
           v == ShallowCopy(s, low)
           g == getenv(s, "TARGET_LD")
           Arg(p) == Moved(p, ArgvAddr(s), ArgvAddr(v))
           Env(p) == Moved(p, EnvAddr(s), EnvAddr(v))
           argv == [i \in DOMAIN s.argv |-> Arg(s.argv[i])]
<1> SUFFICES ASSUME g \in Int
             PROVE  deepCopyStack(s, low, what) =
                      Preload([s EXCEPT !.lo = low, !.start = s.start + d,
                     !.text = [a \in {b + d : b \in DOMAIN s.text} |-> s.text[a - d]],
                     !.argv = [[i \in DOMAIN s.argv |-> s.argv[i] + d]
                                 EXCEPT ![1] = g + d],
                     !.env = [i \in DOMAIN s.env |-> s.env[i] + d],
                     !.auxv = patchAuxv(s.auxv, what)])
  BY Zenon
<1>1. deepCopyStack(s, low, what) =
        Preload([v EXCEPT
          !.argv = [argv EXCEPT ![1] = Arg(g)],
          !.env = [i \in DOMAIN s.env |-> Env(s.env[i])],
          !.auxv = patchAuxv(s.auxv, what)])
  BY Zenon DEF deepCopyStack
<1>2. v = [s EXCEPT !.lo = low, !.start = s.start + d,
             !.text = [a \in {b + d : b \in DOMAIN s.text} |-> s.text[a - d]]]
  BY Zenon DEF ShallowCopy
<1>3. {"lo", "start", "argv", "env", "auxv", "text"} \subseteq DOMAIN s
  BY DEF IsStack
<1>4. v.start = s.start + d /\ v.argv = s.argv
  BY <1>2, <1>3, Zenon
<1>5. s.start \in Nat /\ s.lo \in Nat /\ Len(s.argv) \in Nat /\ d \in Int
  BY StackFacts
<1> HIDE DEF v, g, d
<1>6. \A p \in Int : Arg(p) = p + d
  BY <1>4, <1>5 DEF Moved, ArgvAddr
<1>7. \A p \in Int : Env(p) = p + d
  BY <1>4, <1>5 DEF Moved, ArgvAddr, EnvAddr
<1> HIDE DEF Arg, Env
<1>8. /\ argv = [i \in DOMAIN s.argv |-> s.argv[i] + d]
      /\ Arg(g) = g + d
      /\ [i \in DOMAIN s.env |-> Env(s.env[i])] = [i \in DOMAIN s.env |-> s.env[i] + d]
  BY <1>6, <1>7, StackFacts DEF argv
<1> HIDE DEF argv
<1> QED BY <1>1, <1>2, <1>8, Zenon

\* What is copied, before the first variable is renamed.
CopyOf(u, s, d) ==
  /\ {"argv", "env", "text"} \subseteq DOMAIN u
  /\ u.text = [a \in {b + d : b \in DOMAIN s.text} |-> s.text[a - d]]
  /\ u.env = [i \in DOMAIN s.env |-> s.env[i] + d]
  /\ u.argv = [[i \in DOMAIN s.argv |-> s.argv[i] + d]
                 EXCEPT ![1] = getenv(s, "TARGET_LD") + d]

LEMMA Copied ==
  ASSUME NEW s, IsStack(s), NEW low \in Nat, NEW what, getenv(s, "TARGET_LD") \in Int
  PROVE  \E u : deepCopyStack(s, low, what) = Preload(u) /\ CopyOf(u, s, low - s.lo)
<1> DEFINE d == low - s.lo
           text == [a \in {b + d : b \in DOMAIN s.text} |-> s.text[a - d]]
           argv == [[i \in DOMAIN s.argv |-> s.argv[i] + d]
                      EXCEPT ![1] = getenv(s, "TARGET_LD") + d]
           env == [i \in DOMAIN s.env |-> s.env[i] + d]
           auxv == patchAuxv(s.auxv, what)
           u == [s EXCEPT !.lo = low, !.start = s.start + d, !.text = text,
                          !.argv = argv, !.env = env, !.auxv = auxv]
<1>1. deepCopyStack(s, low, what) = Preload(u)
  BY AllMoved, ZenonT(30)
<1>2. {"lo", "start", "argv", "env", "auxv", "text"} \subseteq DOMAIN s
  BY DEF IsStack
<1> HIDE DEF text, argv, env, auxv, d
<1>3. {"argv", "env", "text"} \subseteq DOMAIN u /\ u.text = text /\ u.argv = argv /\ u.env = env
  BY <1>2, Zenon
<1> HIDE DEF u
<1>4. CopyOf(u, s, d)
  BY <1>3 DEF CopyOf, text, argv, env
<1> QED BY <1>1, <1>4 DEF d

\* What Preload renames: the string of the first variable that mentions it.
First(s, m) ==
  /\ m \in DOMAIN s.env /\ EnvNames(s)[m] \in Mentioning
  /\ \A j \in DOMAIN s.env : EnvNames(s)[j] \in Mentioning => m <= j

LEMMA Preloaded ==
  ASSUME NEW u, {"argv", "env", "text"} \subseteq DOMAIN u, DOMAIN u.env \subseteq Nat
  PROVE  /\ Preload(u).argv = u.argv /\ Preload(u).env = u.env
         /\ \/ /\ \A i \in DOMAIN u.env : EnvNames(u)[i] \notin Mentioning
               /\ Preload(u).text = u.text
            \/ \E m : /\ First(u, m)
                      /\ Preload(u).text =
                           [u.text EXCEPT ![u.env[m]] = Renamed(EnvNames(u)[m])]
<1> DEFINE found == {i \in DOMAIN u.env : EnvNames(u)[i] \in Mentioning}
           m == CHOOSE i \in found : \A j \in found : i <= j
<1>1. CASE found = {}
  <2>1. Preload(u) = u
    BY <1>1 DEF Preload
  <2> QED BY <1>1, <2>1
<1>2. CASE found # {}
  <2>1. \E i \in found : \A j \in found : i <= j
    <3>1. found \subseteq Nat
      OBVIOUS
    <3> HIDE DEF found
    <3> QED BY <1>2, <3>1, Least
  <2>2. m \in found /\ \A j \in found : m <= j
    BY <2>1, Zenon
  <2>3. Preload(u) = [u EXCEPT !.text[u.env[m]] = Renamed(@)]
    BY <1>2, Zenon DEF Preload
  <2> HIDE DEF m
  <2>4. First(u, m)
    BY <2>2 DEF First
  <2>5. u.text[u.env[m]] = EnvNames(u)[m]
    BY <2>2 DEF EnvNames
  <2> HIDE DEF found
  <2>6. /\ Preload(u).argv = u.argv /\ Preload(u).env = u.env
        /\ Preload(u).text = [u.text EXCEPT ![u.env[m]] = Renamed(u.text[u.env[m]])]
    BY <2>3, Zenon
  <2> QED BY <2>4, <2>5, <2>6, Zenon
<1> QED BY <1>1, <1>2

LEMMA GetenvFinds ==
  ASSUME NEW s, IsStack(s), NEW name, HasEnv(s, name)
  PROVE  \E k \in DOMAIN s.env : getenv(s, name) = s.env[k] + 1
<1> DEFINE M == {i \in DOMAIN s.env : EnvNames(s)[i] = name}
           P(i) == /\ EnvNames(s)[i] = name
                   /\ \A j \in 1 .. i - 1 : EnvNames(s)[j] # name
<1>1. Len(s.env) \in Nat /\ DOMAIN s.env = 1 .. Len(s.env)
  BY StackFacts
<1>2. M \subseteq Nat /\ M # {}
  BY <1>1 DEF HasEnv
<1> HIDE DEF M
<1>3. PICK i \in M : \A j \in M : i <= j
  BY <1>2, Least
<1>4. i \in DOMAIN s.env /\ P(i)
  BY <1>1, <1>3 DEF M
<1> HIDE DEF P
<1>5. (CHOOSE k \in DOMAIN s.env : P(k)) \in DOMAIN s.env
  BY <1>4, Zenon
<1>6. getenv(s, name) = s.env[CHOOSE k \in DOMAIN s.env : P(k)] + 1
  BY DEF getenv, P
<1> HIDE DEF P
<1> QED BY <1>5, <1>6, Zenon

\* The text of the copy, by the addresses of the old one.
LEMMA TextCopied ==
  ASSUME NEW s, IsStack(s), NEW low \in Nat, NEW what, getenv(s, "TARGET_LD") \in Int
  PROVE  LET d == low - s.lo
             t == deepCopyStack(s, low, what)
         IN  /\ \A i \in DOMAIN s.env : t.env[i] = s.env[i] + d
             /\ \A i \in DOMAIN s.argv :
                  t.argv[i] = (IF i = 1 THEN getenv(s, "TARGET_LD") ELSE s.argv[i]) + d
             /\ \A a \in DOMAIN s.text :
                  /\ a + d \in DOMAIN t.text
                  /\ (\A m : First(s, m) => s.env[m] # a) => t.text[a + d] = s.text[a]
             /\ \A m : First(s, m) => t.text[s.env[m] + d] = Renamed(EnvNames(s)[m])
<1> DEFINE d == low - s.lo
           t == deepCopyStack(s, low, what)
           g == getenv(s, "TARGET_LD")
<1>1. PICK u : t = Preload(u) /\ CopyOf(u, s, d)
  BY Copied
<1>2. /\ d \in Int /\ DOMAIN s.text \subseteq Nat
      /\ DOMAIN s.env \subseteq Nat
      /\ \A i \in DOMAIN s.env : s.env[i] \in DOMAIN s.text
  BY StackFacts
<1> HIDE DEF t, d
<1>3. /\ {"argv", "env", "text"} \subseteq DOMAIN u
      /\ u.text = [a \in {b + d : b \in DOMAIN s.text} |-> s.text[a - d]]
      /\ u.env = [i \in DOMAIN s.env |-> s.env[i] + d]
      /\ u.argv = [[i \in DOMAIN s.argv |-> s.argv[i] + d] EXCEPT ![1] = g + d]
  BY <1>1 DEF CopyOf
<1> HIDE DEF g
<1>4. /\ \A i \in DOMAIN s.env : u.env[i] = s.env[i] + d
      /\ \A i \in DOMAIN s.argv : u.argv[i] = (IF i = 1 THEN g ELSE s.argv[i]) + d
      /\ DOMAIN u.env = DOMAIN s.env
  BY <1>3
<1>5. DOMAIN u.text = {b + d : b \in DOMAIN s.text}
  BY <1>3
<1>6. ASSUME NEW a \in DOMAIN s.text
      PROVE  a + d \in DOMAIN u.text /\ u.text[a + d] = s.text[a]
  <2>1. a + d \in DOMAIN u.text
    BY <1>5
  <2>2. (a + d) - d = a
    BY <1>2
  <2>3. u.text[a + d] = s.text[(a + d) - d]
    BY <1>3, <1>5, <2>1
  <2> QED BY <2>1, <2>2, <2>3
<1>7. ASSUME NEW i \in DOMAIN s.env
      PROVE  EnvNames(u)[i] = EnvNames(s)[i]
  <2>1. EnvNames(u)[i] = u.text[s.env[i] + d] /\ EnvNames(s)[i] = s.text[s.env[i]]
    BY <1>4 DEF EnvNames
  <2> QED BY <1>2, <1>6, <2>1
<1>8. \A m : First(u, m) <=> First(s, m)
  BY <1>4, <1>7 DEF First
<1>9. /\ t.argv = u.argv /\ t.env = u.env
      /\ \/ /\ \A i \in DOMAIN u.env : EnvNames(u)[i] \notin Mentioning
            /\ t.text = u.text
         \/ \E m : /\ First(u, m)
                   /\ t.text = [u.text EXCEPT ![u.env[m]] = Renamed(EnvNames(u)[m])]
  <2>1. DOMAIN u.env \subseteq Nat
    BY <1>2, <1>4
  <2> QED BY <1>1, <1>3, <2>1, Preloaded, Zenon
<1>10. /\ \A a \in DOMAIN s.text :
           /\ a + d \in DOMAIN t.text
           /\ (\A m : First(s, m) => s.env[m] # a) => t.text[a + d] = s.text[a]
      /\ \A m : First(s, m) => t.text[s.env[m] + d] = Renamed(EnvNames(s)[m])
  <2>1. CASE /\ \A i \in DOMAIN u.env : EnvNames(u)[i] \notin Mentioning
             /\ t.text = u.text
    <3>1. \A m : ~First(u, m)
      BY <2>1 DEF First
    <3> QED BY <2>1, <3>1, <1>6, <1>8
  <2>2. CASE \E m : /\ First(u, m)
                    /\ t.text = [u.text EXCEPT ![u.env[m]] = Renamed(EnvNames(u)[m])]
    <3>1. PICK m : /\ First(u, m)
                   /\ t.text = [u.text EXCEPT ![u.env[m]] = Renamed(EnvNames(u)[m])]
      BY <2>2
    <3>2. m \in DOMAIN s.env /\ First(s, m) /\ u.env[m] = s.env[m] + d
      BY <3>1, <1>4, <1>8 DEF First
    <3>3. \A n : First(s, n) => n = m
      <4>1. SUFFICES ASSUME NEW n, First(s, n) PROVE n = m
        OBVIOUS
      <4>2. m \in Nat /\ n \in Nat /\ m <= n /\ n <= m
        BY <1>2, <3>2, <4>1 DEF First
      <4> QED BY <4>2
    <3>4. DOMAIN t.text = DOMAIN u.text
      BY <3>1
    <3>5. s.env[m] \in DOMAIN s.text /\ EnvNames(u)[m] = EnvNames(s)[m]
      BY <3>2, <1>2, <1>7
    <3>6. t.text[s.env[m] + d] = Renamed(EnvNames(s)[m])
      BY <3>1, <3>2, <3>5, <1>6
    <3>7. ASSUME NEW a \in DOMAIN s.text, s.env[m] # a
          PROVE  t.text[a + d] = s.text[a]
      <4>1. a + d # u.env[m]
        BY <1>2, <3>2, <3>5, <3>7
      <4>2. a + d \in DOMAIN u.text /\ u.text[a + d] = s.text[a]
        BY <1>6
      <4> QED BY <3>1, <4>1, <4>2
    <3> QED BY <3>2, <3>3, <3>4, <3>6, <3>7, <1>6
  <2> QED BY <1>9, <2>1, <2>2
<1> QED BY <1>4, <1>9, <1>10 DEF t, d, g

\* The stack that ld.so gets, once it is made.
StackMade ==
  /\ Runs /\ at # "start" => HasEnv(stack, "TARGET_LD")
  /\ at \in {"heap"} \cup Launched =>
       \E low \in Addrs : newStack = deepCopyStack(stack, low, Auxv)

LEMMA CopySees ==
  ASSUME TypeOK, StackMade
  PROVE  SeesTheProgram
<1> SUFFICES ASSUME at = "jumped" PROVE SeesTheProgram
  BY DEF SeesTheProgram
<1> DEFINE points(p, string) == p \in DOMAIN newStack.text /\ newStack.text[p] = string
           first(i) == /\ EnvNames(stack)[i] \in Mentioning
                       /\ \A j \in 1 .. i - 1 : EnvNames(stack)[j] \notin Mentioning
           g == getenv(stack, "TARGET_LD")
<1>1. HasEnv(stack, "TARGET_LD")
  BY DEF StackMade, Runs
<1>2. PICK low \in Addrs : newStack = deepCopyStack(stack, low, Auxv)
  BY DEF StackMade, Launched
<1>3. IsStack(stack)
  BY StacksAssumption DEF TypeOK
<1>4. /\ DOMAIN stack.text \subseteq Nat
      /\ Len(stack.env) \in Nat /\ DOMAIN stack.env = 1 .. Len(stack.env)
      /\ \A i \in DOMAIN stack.argv : stack.argv[i] \in DOMAIN stack.text
      /\ \A i \in DOMAIN stack.env : stack.env[i] \in DOMAIN stack.text
      /\ \A i \in DOMAIN stack.env : stack.env[i] + 1 \in DOMAIN stack.text
  BY <1>3, StackFacts
<1>5. PICK k \in DOMAIN stack.env : g = stack.env[k] + 1
  BY <1>1, <1>3, GetenvFinds
<1>6. low \in Nat /\ g \in Int
  BY <1>4, <1>5, LoaderAssumption DEF Addrs
<1> DEFINE d == low - stack.lo
<1>7. /\ \A i \in DOMAIN stack.env : newStack.env[i] = stack.env[i] + d
      /\ \A i \in DOMAIN stack.argv : newStack.argv[i] = (IF i = 1 THEN g ELSE stack.argv[i]) + d
  BY <1>2, <1>3, <1>6, TextCopied
<1>8. /\ \A a \in DOMAIN stack.text :
           /\ a + d \in DOMAIN newStack.text
           /\ (\A m : First(stack, m) => stack.env[m] # a) => newStack.text[a + d] = stack.text[a]
      /\ \A m : First(stack, m) => newStack.text[stack.env[m] + d] = Renamed(EnvNames(stack)[m])
  BY <1>2, <1>3, <1>6, TextCopied
<1>9. \A i \in DOMAIN stack.env : first(i) <=> First(stack, i)
  <2>1. SUFFICES ASSUME NEW i \in DOMAIN stack.env, EnvNames(stack)[i] \in Mentioning
                 PROVE  (\A j \in 1 .. i - 1 : EnvNames(stack)[j] \notin Mentioning)
                          <=> \A j \in DOMAIN stack.env : EnvNames(stack)[j] \in Mentioning => i <= j
    BY DEF First
  <2>2. \A j \in DOMAIN stack.env : j \in Nat /\ i \in Nat /\ (j \in 1 .. i - 1 <=> j < i)
    BY <1>4
  <2>3. 1 .. i - 1 \subseteq DOMAIN stack.env
    BY <1>4
  <2>4. \A j \in DOMAIN stack.env : i <= j <=> j \notin 1 .. i - 1
    BY <2>2
  <2> QED BY <2>3, <2>4, Zenon
<1> HIDE DEF d, g, first
<1>10. ASSUME NEW i \in DOMAIN stack.argv
       PROVE  points(newStack.argv[i], stack.text[IF i = 1 THEN g ELSE stack.argv[i]])
  <2> DEFINE a == IF i = 1 THEN g ELSE stack.argv[i]
  <2>1. a \in DOMAIN stack.text
    BY <1>4, <1>5
  <2>2. \A m : First(stack, m) => stack.env[m] # a
    BY <1>3, <1>5 DEF First, IsStack
  <2>3. newStack.argv[i] = a + d
    BY <1>7
  <2> HIDE DEF a
  <2>4. points(newStack.argv[i], stack.text[a])
    BY <1>8, <2>1, <2>2, <2>3
  <2> QED BY <2>4 DEF a
<1>11. ASSUME NEW i \in DOMAIN stack.env
       PROVE  points(newStack.env[i],
                IF first(i) THEN Renamed(EnvNames(stack)[i]) ELSE EnvNames(stack)[i])
  <2>1. /\ newStack.env[i] = stack.env[i] + d /\ stack.env[i] \in DOMAIN stack.text
        /\ EnvNames(stack)[i] = stack.text[stack.env[i]]
    BY <1>4, <1>7 DEF EnvNames
  <2>2. CASE first(i)
    BY <1>8, <1>9, <2>1, <2>2
  <2>3. CASE ~first(i)
    <3>1. \A m : First(stack, m) => stack.env[m] # stack.env[i]
      <4>1. SUFFICES ASSUME NEW m, First(stack, m), stack.env[m] = stack.env[i] PROVE FALSE
        OBVIOUS
      <4>2. m \in DOMAIN stack.env
        BY <4>1 DEF First
      <4>3. m = i
        BY <1>3, <4>1, <4>2 DEF IsStack
      <4> QED BY <1>9, <2>3, <4>1, <4>3
    <3> QED BY <1>8, <2>1, <2>3, <3>1
  <2> QED BY <2>2, <2>3
<1> QED BY <1>10, <1>11 DEF SeesTheProgram, first, g

LEMMA StackMadeStep == StackMade /\ [Next]_vars => StackMade'
<1> SUFFICES ASSUME StackMade, [Next]_vars PROVE StackMade'
  OBVIOUS
<1> USE DEF StackMade, Runs, Launched
<1>1. CASE \E how \in {"exited", "died", "unbooked"} : Ends(how)
  BY <1>1 DEF Ends
<1>2. CASE Start
  BY <1>1, <1>2 DEF Start, chosen
<1>3. CASE LoadSegment
  BY <1>3 DEF LoadSegment, Continues, chosen
<1>4. CASE LookUp
  BY <1>1, <1>4 DEF LookUp, chosen
<1>5. CASE createNewStackForRtld
  BY <1>1, <1>5 DEF createNewStackForRtld, chosen
<1>6. CASE createNewHeapForRtld
  BY <1>1, <1>6 DEF createNewHeapForRtld, chosen
<1>7. CASE insertTrampoline("mmap", "sbrk") \/ insertTrampoline("sbrk", "info")
  BY <1>1, <1>7 DEF insertTrampoline, chosen
<1>8. CASE EnterLdSo
  BY <1>1, <1>8 DEF EnterLdSo, Ends, chosen
<1>9. CASE UNCHANGED vars
  BY <1>9 DEF vars, chosen
<1> QED BY <1>2, <1>3, <1>4, <1>5, <1>6, <1>7, <1>8, <1>9 DEF Next

\* ld.so gets the arguments and the environment of the loader on its own stack,
\* every pointer of argv and env moved into it, with the one argument and the one
\* variable that deepCopyStack (kernel-loader.c:246-372) changes, wherever the
\* area is and however many arguments and variables there are.  The pointers of
\* the auxiliary vector are not moved, and nothing is claimed of them.
THEOREM ProgramIsSeen == Spec => []SeesTheProgram
<1>1. Init => StackMade
  BY DEF Init, StackMade, Launched
<1>2. TypeOK /\ StackMade => SeesTheProgram
  BY CopySees
<1> QED BY <1>1, <1>2, TypeCorrect, StackMadeStep, PTL DEF Spec
=============================================================================
