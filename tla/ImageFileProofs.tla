--------------------------- MODULE ImageFileProofs ---------------------------
(***************************************************************************)
(* An image comes back as it was written, whatever the sizes and numbers   *)
(* of its blocks, and however the system calls split, stop and fail.       *)
(*                                                                         *)
(* Where a block begins is a sum over the blocks before it.  The proofs do *)
(* without it: a cell of the file says which cell comes next, and the      *)
(* reader knows its block by the next cell.                                *)
(***************************************************************************)
EXTENDS ImageFile, SequenceTheorems, TLAPS

\* The cells of block b stand after position s of f, as far as f goes.
Holds(f, s, b) == \A i \in 1 .. Size(b) : s + i <= Len(f) => f[s + i] = <<b, i>>

\* Blocks follow one another, each in the order of its cells.
InOrder(f) ==
  /\ f # <<>> => f[1] = <<1, 1>>
  /\ \A p \in 1 .. Len(f) : \E b \in 1 .. LastBlock : \E i \in 1 .. Size(b) :
       i <= p /\ f[p] = <<b, i>>
  /\ \A p \in 1 .. Len(f), b \in 1 .. LastBlock : \A i \in 1 .. Size(b) :
       f[p] = <<b, i>> =>
         /\ Holds(f, p - i, b)
         /\ p - i + Size(b) < Len(f) =>
              b < LastBlock /\ f[p - i + Size(b) + 1] = <<b + 1, 1>>

\* The writer is right behind the end of the file, unless it was cut.
AtWriter ==
  /\ block <= LastBlock => done < Size(block)
  /\ block > LastBlock => done = 0
  /\ phase # "writing" /\ ~cut => block > LastBlock
  /\ ~cut =>
       IF block = 1 /\ done = 0 THEN file = <<>>
       ELSE /\ file # <<>>
            /\ file[Len(file)] = IF done > 0 THEN <<block, done>>
                                 ELSE <<block - 1, Size(block - 1)>>

\* The item that is read begins after this position.
ItemStart == pos - Len(buf)
NextIs(b, i) == ItemStart < Len(file) /\ file[ItemStart + 1] = <<b, i>>
NothingLeft == ItemStart = Len(file)

Buffered ==
  /\ Len(buf) <= pos /\ pos <= Len(file)
  /\ \A i \in 1 .. Len(buf) : buf[i] = file[ItemStart + i]
  /\ want = "data" => region \in Regions
  /\ Len(buf) <= Wanted

\* The first k regions are as they were saved.
FirstRegions(k) ==
  \A r \in Regions : memory[r] = IF r <= k THEN Whole(DataOf(r)) ELSE Unmapped

NotStarted ==
  /\ want = "ctx" /\ ItemStart = 0 /\ FirstRegions(0)

AtHeader ==
  /\ want = "header"
  /\ \E k \in 0 .. Len(Sizes) :
       /\ FirstRegions(k)
       /\ NothingLeft \/ (k < Len(Sizes) /\ NextIs(HeaderOf(k + 1), 1))
       /\ NothingLeft /\ ~cut => k = Len(Sizes)

AtData ==
  /\ want = "data" /\ FirstRegions(region - 1)
  /\ NothingLeft \/ NextIs(DataOf(region), 1)
  /\ NothingLeft => cut

\* After a failing read the reader takes what is no header for one ...
LostAtHeader ==
  /\ want = "header" /\ ~NothingLeft
  /\ \A r \in Regions : ~NextIs(HeaderOf(r), 1)

\* ... or the end of a header for data.
LostAtData ==
  /\ want = "data"
  /\ \E j \in 2 .. HeaderSize : NextIs(HeaderOf(region), j)

Lost == readErrors > 0 /\ (cut \/ LostAtHeader \/ LostAtData)

AtReader ==
  /\ phase \in {"writing", "written"} =>
       pos = 0 /\ buf = <<>> /\ NotStarted /\ readErrors = 0
  /\ phase \in {"reading", "restored"} => NotStarted \/ AtHeader \/ AtData \/ Lost
  /\ phase = "restored" => want = "header" /\ NothingLeft
  /\ phase = "refused" => cut \/ readErrors > 0

IInv == TypeOK /\ InOrder(file) /\ AtWriter /\ Buffered /\ AtReader

\* What holds also of a file with a hole, of which the rest says nothing.
InBlock == block <= LastBlock => done < Size(block)
Waits == phase \in {"writing", "written"} => pos = 0 /\ buf = <<>> /\ want = "ctx"
AnyFile == TypeOK /\ InBlock /\ Buffered /\ Waits /\ (holed => cut)

Inv == AnyFile /\ (~holed => IInv)
-----------------------------------------------------------------------------
(* The layout.                                                             *)

LEMMA BlockSizes ==
  /\ \A b \in 1 .. LastBlock : Size(b) \in Nat \ {0}
  /\ Size(1) = CtxSize
  /\ \A r \in Regions :
       /\ HeaderOf(r) \in 1 .. LastBlock /\ Size(HeaderOf(r)) = HeaderSize
       /\ DataOf(r) \in 1 .. LastBlock /\ Size(DataOf(r)) = Sizes[r]
       /\ Sizes[r] \in Nat \ {0}
  /\ LastBlock \in Nat \ {0} /\ Len(Sizes) \in Nat
<1>1. Len(Sizes) \in Nat /\ \A r \in Regions : Sizes[r] \in Nat \ {0}
  BY ImageAssumption DEF Regions
<1>2. \A b \in 1 .. LastBlock : b # 1 /\ b % 2 # 0 => b \div 2 \in Regions
  BY <1>1 DEF LastBlock, Regions
<1>3. \A b \in 1 .. LastBlock : Size(b) \in Nat \ {0}
  BY <1>1, <1>2, ImageAssumption DEF Size
<1>4. ASSUME NEW r \in Regions
      PROVE  /\ HeaderOf(r) \in 1 .. LastBlock /\ Size(HeaderOf(r)) = HeaderSize
             /\ DataOf(r) \in 1 .. LastBlock /\ Size(DataOf(r)) = Sizes[r]
  <2>1. /\ HeaderOf(r) \in 1 .. LastBlock /\ HeaderOf(r) # 1 /\ HeaderOf(r) % 2 = 0
        /\ DataOf(r) \in 1 .. LastBlock /\ DataOf(r) # 1 /\ DataOf(r) % 2 # 0
        /\ DataOf(r) \div 2 = r
    BY <1>1 DEF HeaderOf, DataOf, Regions, LastBlock
  <2> QED BY <2>1 DEF Size
<1> QED BY <1>1, <1>3, <1>4 DEF Size, LastBlock

LEMMA CellsType ==
  ASSUME NEW b \in 1 .. LastBlock, NEW from \in Nat \ {0}, NEW to \in Nat,
         from <= to + 1, to <= Size(b)
  PROVE  /\ Cells(b, from, to) \in Seq(Cell)
         /\ Len(Cells(b, from, to)) = to - from + 1
         /\ \A i \in 1 .. to - from + 1 : Cells(b, from, to)[i] = <<b, from + i - 1>>
<1>1. Size(b) \in Nat \ {0}
  BY BlockSizes
<1>2. \A i \in 1 .. Size(b) : <<b, i>> \in Cell
  BY <1>1 DEF Cell
<1>3. \A i \in 1 .. to - from + 1 : from + i - 1 \in 1 .. Size(b)
  BY <1>1
<1> QED BY <1>2, <1>3 DEF Cells

LEMMA WholeType ==
  ASSUME NEW b \in 1 .. LastBlock
  PROVE  /\ Whole(b) \in Seq(Cell) /\ Len(Whole(b)) = Size(b)
         /\ \A i \in 1 .. Size(b) : Whole(b)[i] = <<b, i>>
<1>1. Size(b) \in Nat \ {0}
  BY BlockSizes
<1>2. PICK from \in Nat \ {0}, to \in Nat :
        from = 1 /\ to = Size(b) /\ from <= to + 1 /\ to <= Size(b)
  BY <1>1
<1>3. /\ Cells(b, from, to) \in Seq(Cell)
      /\ Len(Cells(b, from, to)) = to - from + 1
      /\ \A i \in 1 .. to - from + 1 : Cells(b, from, to)[i] = <<b, from + i - 1>>
  BY <1>1, <1>2, CellsType
<1>4. to - from + 1 = Size(b) /\ \A i \in 1 .. Size(b) : from + i - 1 = i
  BY <1>1, <1>2
<1>5. Whole(b) = Cells(b, from, to)
  BY <1>2 DEF Whole
<1> QED BY <1>3, <1>4, <1>5
-----------------------------------------------------------------------------
(* The writer.                                                             *)

\* The cells of the block that is being written are the last of the file.
LEMMA LastCells ==
  ASSUME TypeOK, InOrder(file), AtWriter, ~cut, done > 0
  PROVE  /\ block <= LastBlock /\ done \in 1 .. Size(block) /\ done <= Len(file)
         /\ \A i \in 1 .. done : file[Len(file) - done + i] = <<block, i>>
<1>1. /\ block \in 1 .. LastBlock /\ block <= LastBlock
      /\ done \in 1 .. Size(block) /\ Size(block) \in Nat
  <2>1. block \in 1 .. LastBlock /\ block <= LastBlock /\ done \in Nat /\ done < Size(block)
    BY BlockSizes DEF TypeOK, AtWriter
  <2>2. Size(block) \in Nat \ {0}
    BY <2>1, BlockSizes
  <2> QED BY <2>1, <2>2
<1>2. file # <<>> /\ Len(file) \in Nat \ {0} /\ file[Len(file)] = <<block, done>>
  BY EmptySeq DEF TypeOK, AtWriter
<1>3. done <= Len(file)
  <2>1. PICK b \in 1 .. LastBlock : \E i \in 1 .. Size(b) :
          i <= Len(file) /\ file[Len(file)] = <<b, i>>
    BY <1>2 DEF InOrder
  <2> QED BY <1>2, <2>1
<1>4. Holds(file, Len(file) - done, block)
  <2>1. Len(file) \in 1 .. Len(file)
    BY <1>2
  <2>2. \A i \in 1 .. Size(block) :
          file[Len(file)] = <<block, i>> => Holds(file, Len(file) - i, block)
    BY <1>1, <2>1 DEF InOrder
  <2> QED BY <1>1, <1>2, <2>2
<1>5. ASSUME NEW i \in 1 .. done
      PROVE  file[Len(file) - done + i] = <<block, i>>
  <2>1. i \in 1 .. Size(block) /\ Len(file) - done + i <= Len(file)
    BY <1>1, <1>2
  <2> QED BY <1>4, <2>1 DEF Holds
<1> QED BY <1>1, <1>3, <1>5

LEMMA WriteInOrder ==
  ASSUME TypeOK, InOrder(file), AtWriter, ~cut, block <= LastBlock,
         NEW n \in 1 .. Size(block) - done
  PROVE  InOrder(file \o Cells(block, done + 1, done + n))
<1> DEFINE L == Len(file)
           new == Cells(block, done + 1, done + n)
           g == file \o new
<1>1. /\ block \in 1 .. LastBlock /\ Size(block) \in Nat \ {0}
      /\ done \in 0 .. Size(block) - 1 /\ done + n \in 1 .. Size(block)
      /\ n \in Nat /\ L \in Nat /\ \A b \in 1 .. LastBlock : Size(b) \in Nat \ {0}
  <2>1. block \in 1 .. LastBlock /\ done \in Nat /\ done < Size(block) /\ L \in Nat
    BY BlockSizes DEF TypeOK, AtWriter
  <2>2. Size(block) \in Nat \ {0}
    BY <2>1, BlockSizes
  <2> QED BY <2>1, <2>2, BlockSizes
<1>2. /\ new \in Seq(Cell) /\ Len(new) = n
      /\ \A i \in 1 .. n : new[i] = <<block, done + i>>
  <2>1. PICK from \in Nat \ {0}, to \in Nat : from = done + 1 /\ to = done + n
    BY <1>1
  <2>2. from <= to + 1 /\ to <= Size(block)
    BY <1>1, <2>1
  <2>3. /\ Cells(block, from, to) \in Seq(Cell)
        /\ Len(Cells(block, from, to)) = to - from + 1
        /\ \A i \in 1 .. to - from + 1 : Cells(block, from, to)[i] = <<block, from + i - 1>>
    BY <1>1, <2>2, CellsType
  <2>4. to - from + 1 = n /\ \A i \in 1 .. n : from + i - 1 = done + i
    BY <1>1, <2>1
  <2>5. new = Cells(block, from, to)
    BY <2>1
  <2> QED BY <2>3, <2>4, <2>5
<1>3. /\ g \in Seq(Cell) /\ Len(g) = L + n
      /\ \A p \in 1 .. L : g[p] = file[p]
      /\ \A q \in 1 .. n : g[L + q] = <<block, done + q>>
  <2>1. file \in Seq(Cell)
    BY DEF TypeOK
  <2> HIDE DEF new
  <2>2. file \o new \in Seq(Cell) /\ Len(file \o new) = L + n
    <3>1. file \o new \in Seq(Cell) /\ Len(file \o new) = L + Len(new)
      BY <1>2, <2>1, ConcatProperties
    <3> QED BY <1>2, <3>1
  <2>4. ASSUME NEW p \in 1 .. L
        PROVE  (file \o new)[p] = file[p]
    BY <1>1, <1>2, <2>1
  <2>3. ASSUME NEW q \in 1 .. n
        PROVE  (file \o new)[L + q] = <<block, done + q>>
    <3>1. (file \o new)[L + q] = new[q]
      BY <1>1, <1>2, <2>1
    <3> QED BY <1>2, <3>1
  <2> QED BY <2>2, <2>3, <2>4
<1>4. /\ done <= L
      /\ \A i \in 1 .. done : file[L - done + i] = <<block, i>>
  <2>1. done \in Nat /\ L \in Nat
    BY <1>1
  <2>2. CASE done > 0
    BY <2>2, LastCells
  <2>3. CASE done = 0
    BY <2>1, <2>3
  <2>4. done > 0 \/ done = 0
    BY <2>1
  <2> QED BY <2>2, <2>3, <2>4
<1> HIDE DEF g, L, new
<1>5. Holds(g, L - done, block)
  <2> SUFFICES ASSUME NEW j \in 1 .. Size(block), L - done + j <= Len(g)
               PROVE  g[L - done + j] = <<block, j>>
    BY DEF Holds
  <2>1. CASE j <= done
    <3>1. L - done + j \in 1 .. L /\ j \in 1 .. done
      BY <1>1, <1>4, <2>1
    <3> QED BY <1>3, <1>4, <3>1
  <2>2. CASE j > done
    <3>1. j - done \in 1 .. n /\ L + (j - done) = L - done + j /\ done + (j - done) = j
      BY <1>1, <1>3, <2>2
    <3> QED BY <1>3, <3>1
  <2> QED BY <1>1, <2>1, <2>2
<1>6. g # <<>> => g[1] = <<1, 1>>
  <2>1. CASE L = 0
    <3>1. block = 1 /\ done = 0
      BY <1>1, <2>1, EmptySeq DEF TypeOK, AtWriter, L
    <3> QED BY <1>1, <1>3, <2>1, <3>1
  <2>2. CASE L # 0
    <3>1. file # <<>> /\ 1 \in 1 .. L
      BY <1>1, <2>2, EmptySeq DEF L
    <3> QED BY <1>3, <3>1 DEF InOrder
  <2> QED BY <2>1, <2>2
<1>7. ASSUME NEW p \in 1 .. Len(g)
      PROVE  \E b \in 1 .. LastBlock : \E i \in 1 .. Size(b) : i <= p /\ g[p] = <<b, i>>
  <2>1. CASE p <= L
    <3>1. p \in 1 .. L
      BY <1>1, <2>1
    <3> QED BY <1>3, <3>1 DEF InOrder, L
  <2>2. CASE p > L
    <3>0. L \in Nat /\ n \in Nat /\ p \in Nat /\ p <= L + n
      BY <1>1, <1>3
    <3>1. p - L \in 1 .. n /\ L + (p - L) = p
      BY <2>2, <3>0
    <3>2. g[p] = <<block, done + (p - L)>>
      BY <1>3, <3>1
    <3>3. done + (p - L) \in 1 .. Size(block) /\ done + (p - L) <= p
      BY <1>1, <1>4, <3>1
    <3> QED BY <1>1, <3>2, <3>3
  <2> QED BY <1>1, <1>3, <2>1, <2>2
<1> DEFINE Follows(p, b, i) ==
      /\ Holds(g, p - i, b)
      /\ p - i + Size(b) < Len(g) =>
           b < LastBlock /\ g[p - i + Size(b) + 1] = <<b + 1, 1>>
<1>8. ASSUME NEW p \in 1 .. Len(g), NEW b \in 1 .. LastBlock, NEW i \in 1 .. Size(b),
             g[p] = <<b, i>>
      PROVE  Follows(p, b, i)
  <2>0. Size(b) \in Nat \ {0}
    BY <1>1
  <2>1. ASSUME b = block, p - i = L - done
        PROVE  Follows(p, b, i)
    <3>1. ~(p - i + Size(b) < Len(g))
      BY <1>1, <1>3, <2>1
    <3> QED BY <1>5, <2>1, <3>1
  <2>2. CASE p > L
    <3>0. L \in Nat /\ n \in Nat /\ p \in Nat /\ p <= L + n
      BY <1>1, <1>3
    <3>1. p - L \in 1 .. n /\ L + (p - L) = p
      BY <2>2, <3>0
    <3>2. <<b, i>> = <<block, done + (p - L)>>
      BY <1>3, <1>8, <3>1
    <3>3. b = block /\ i = done + (p - L)
      BY <3>2
    <3>4. p - i = L - done
      BY <1>1, <3>1, <3>3
    <3> QED BY <2>1, <3>3, <3>4
  <2>3. CASE p <= L
    <3> DEFINE s == p - i
    <3>1. p \in 1 .. L /\ file[p] = <<b, i>>
      BY <1>1, <1>3, <1>8, <2>3
    <3>2. /\ Holds(file, s, b)
          /\ s + Size(b) < L => b < LastBlock /\ file[s + Size(b) + 1] = <<b + 1, 1>>
      BY <3>1 DEF InOrder, L
    <3>3. s >= 0 /\ s \in Int
      <4>1. PICK c \in 1 .. LastBlock : \E j \in 1 .. Size(c) : j <= p /\ file[p] = <<c, j>>
        BY <3>1 DEF InOrder, L
      <4>2. i <= p
        BY <3>1, <4>1
      <4> QED BY <1>1, <2>0, <4>2, <3>1
    <3>11. p - i = s
      OBVIOUS
    <3> HIDE DEF s
    <3>4. \A j \in 1 .. Size(b) : s + j <= L => g[s + j] = <<b, j>>
      <4> SUFFICES ASSUME NEW j \in 1 .. Size(b), s + j <= L
                   PROVE  g[s + j] = <<b, j>>
        OBVIOUS
      <4>1. s + j \in 1 .. L
        BY <3>3, <1>1, <2>0
      <4> QED BY <1>3, <3>2, <4>1 DEF Holds, L
    <3>5. file # <<>> /\ (L = s + Size(b) \/ s + Size(b) > L => file[L] = <<b, L - s>>)
      <4>1. file # <<>>
        BY <3>1, <1>1 DEF L
      <4>2. ASSUME L = s + Size(b) \/ s + Size(b) > L
            PROVE  file[L] = <<b, L - s>>
        <5>1. L - s \in 1 .. Size(b) /\ s + (L - s) = L /\ L <= L
          BY <4>2, <1>1, <2>0, <3>1, <3>3, <3>11
        <5> QED BY <3>2, <5>1 DEF Holds, L
      <4> QED BY <4>1, <4>2
    <3>6. file[L] = IF done > 0 THEN <<block, done>>
                    ELSE <<block - 1, Size(block - 1)>>
      <4>1. ~(block = 1 /\ done = 0)
        BY <3>5 DEF AtWriter
      <4> QED BY <4>1 DEF AtWriter, L
    <3>7. CASE s + Size(b) < L
      <4>1. s + Size(b) + 1 \in 1 .. L
        BY <1>1, <2>0, <3>3, <3>7
      <4>2. \A j \in 1 .. Size(b) : s + j <= L
        BY <1>1, <2>0, <3>3, <3>7
      <4> QED BY <1>3, <3>11, <3>2, <3>4, <3>7, <4>1, <4>2 DEF Holds
    <3>8. CASE s + Size(b) = L
      <4>1. file[L] = <<b, Size(b)>>
        <5>1. L - s = Size(b)
          BY <1>1, <2>0, <3>3, <3>8
        <5> QED BY <3>5, <3>8, <5>1
      <4>2. done = 0 /\ b = block - 1
        <5>1. CASE done > 0
          BY <1>1, <3>6, <4>1, <5>1
        <5>2. CASE done = 0
          BY <1>1, <3>6, <4>1, <5>2
        <5> QED BY <1>1, <5>1, <5>2
      <4>3. b < LastBlock /\ g[L + 1] = <<b + 1, 1>>
        <5>1. 1 \in 1 .. n /\ done + 1 = 1 /\ b + 1 = block /\ b < LastBlock
          BY <1>1, <4>2, BlockSizes
        <5>2. g[L + 1] = <<block, done + 1>>
          BY <1>3, <5>1
        <5> QED BY <5>1, <5>2
      <4>4. \A j \in 1 .. Size(b) : s + j <= L
        BY <2>0, <3>3, <3>8, <1>1
      <4> QED BY <3>11, <3>4, <3>8, <4>3, <4>4 DEF Holds
    <3>9. CASE s + Size(b) > L
      <4>1. file[L] = <<b, L - s>> /\ L - s < Size(b)
        BY <1>1, <2>0, <3>3, <3>5, <3>9
      <4>2. b = block /\ L - s = done
        <5>1. CASE done > 0
          BY <3>6, <4>1, <5>1
        <5>2. CASE done = 0
          BY <1>1, <3>6, <4>1, <5>2
        <5> QED BY <1>1, <5>1, <5>2
      <4>3. p - i = L - done
        BY <1>1, <3>11, <3>3, <4>2
      <4> QED BY <2>1, <4>2, <4>3
    <3>10. s + Size(b) < L \/ s + Size(b) = L \/ s + Size(b) > L
      <4>1. PICK z \in Nat : z = Size(b)
        BY <2>0
      <4>2. s \in Int /\ L \in Int
        BY <1>1, <3>3
      <4>3. s + z < L \/ s + z = L \/ s + z > L
        BY <4>2
      <4> QED BY <4>1, <4>3
    <3> QED BY <3>7, <3>8, <3>9, <3>10
  <2> QED BY <1>1, <1>3, <2>2, <2>3
<1>9. InOrder(g)
  BY <1>6, <1>7, <1>8 DEF InOrder
<1> QED BY <1>9 DEF g, new
-----------------------------------------------------------------------------
(* Types.                                                                  *)

LEMMA InitTypeOK == Init => TypeOK
<1> SUFFICES ASSUME Init PROVE TypeOK
  OBVIOUS
<1>1. block \in 1 .. LastBlock + 1 /\ Len(Sizes) \in Nat
  BY BlockSizes DEF Init
<1>2. file \in Seq(Cell) /\ buf \in Seq(Cell) /\ pos \in 0 .. Len(file)
  BY DEF Init
<1>3. memory \in [Regions -> Seq(Cell \cup {Zero})]
  <2>1. Unmapped \in Seq(Cell \cup {Zero})
    BY DEF Unmapped
  <2> QED BY <2>1 DEF Init
<1>4. interrupts \in 0 .. MaxInterrupts /\ readErrors \in 0 .. MaxReadErrors
  BY ImageAssumption DEF Init
<1>5. cut = FALSE /\ holed = FALSE /\ intact \in 0 .. LastBlock
  BY BlockSizes DEF Init
<1> QED BY <1>1, <1>2, <1>3, <1>4, <1>5 DEF Init, TypeOK

\* What the reader wants has a size.
LEMMA WantedType ==
  ASSUME TypeOK, Buffered
  PROVE  Wanted \in Nat \ {0}
<1>1. want \in {"ctx", "header", "data"} /\ (want = "data" => Sizes[region] \in Nat \ {0})
  BY BlockSizes DEF TypeOK, Buffered
<1> QED BY <1>1, ImageAssumption DEF Wanted

LEMMA PaddedType ==
  ASSUME TypeOK, Buffered, want = "data"
  PROVE  Padded \in Seq(Cell \cup {Zero})
<1>1. Sizes[region] \in Nat /\ buf \in Seq(Cell)
  BY BlockSizes DEF TypeOK, Buffered
<1>2. ASSUME NEW i \in 1 .. Sizes[region]
      PROVE  (IF i <= Len(buf) THEN buf[i] ELSE Zero) \in Cell \cup {Zero}
  BY <1>1
<1> QED BY <1>1, <1>2 DEF Padded

LEMMA WriterType ==
  ASSUME TypeOK, InBlock, WriterStep \/ Crash
  PROVE  TypeOK'
<1>1. CASE \E n \in 1 .. Size(block) - done : Write(n)
  <2>1. PICK n \in 1 .. Size(block) - done : Write(n)
    BY <1>1
  <2>2. block \in 1 .. LastBlock /\ done \in Nat /\ done < Size(block)
    BY <2>1, BlockSizes DEF TypeOK, InBlock, Write, Writing, losses
  <2>3. Size(block) \in Nat \ {0}
    BY <2>2, BlockSizes
  <2>4. n \in Nat \ {0} /\ done + n \in Nat /\ done + n <= Size(block)
    BY <2>2, <2>3
  <2>5. PICK from \in Nat \ {0}, to \in Nat :
          from = done + 1 /\ to = done + n /\ from <= to + 1 /\ to <= Size(block)
    BY <2>2, <2>4
  <2>6. Cells(block, from, to) \in Seq(Cell)
    BY <2>2, <2>5, CellsType
  <2>7. file' \in Seq(Cell) /\ pos' \in 0 .. Len(file')
    <3>1. file' = file \o Cells(block, from, to) /\ pos' = pos
      BY <2>1, <2>5 DEF Write, reader, losses
    <3>2. file \in Seq(Cell) /\ pos \in 0 .. Len(file)
      BY DEF TypeOK
    <3>3. file' \in Seq(Cell) /\ Len(file') = Len(file) + Len(Cells(block, from, to))
      BY <2>6, <3>1, <3>2, ConcatProperties
    <3> QED BY <2>6, <3>1, <3>2, <3>3
  <2>8. block' \in 1 .. LastBlock + 1 /\ done' \in Nat
    BY <2>1, <2>2, <2>4, BlockSizes DEF Write, Progress, NextBlock, losses
  <2>9. cut' = cut /\ holed' = cut /\ intact' \in {intact, block}
    BY <2>1 DEF Write
  <2>10. intact' \in 0 .. LastBlock
    BY <2>2, <2>9 DEF TypeOK
  <2> QED BY <2>1, <2>7, <2>8, <2>9, <2>10 DEF Write, TypeOK, reader, bounds, losses
<1>2. CASE WriteInterrupted
  <2>1. interrupts' \in 0 .. MaxInterrupts
    BY <1>2, ImageAssumption DEF WriteInterrupted, TypeOK, losses
  <2> QED BY <1>2, <2>1 DEF WriteInterrupted, TypeOK, reader, writer, losses
<1>3. CASE WriteFails
  <2>1. block' \in 1 .. LastBlock + 1 /\ done' = 0 /\ cut' = TRUE
    BY <1>3, BlockSizes DEF WriteFails, Writing, NextBlock, TypeOK, losses
  <2> QED BY <1>3, <2>1 DEF WriteFails, TypeOK, reader, bounds, losses
<1>4. CASE Close
  BY <1>4 DEF Close, TypeOK, writer, reader, bounds, losses
<1>5. CASE Crash
  BY <1>5 DEF Crash, TypeOK, writer, reader, bounds, losses
<1> QED BY <1>1, <1>2, <1>3, <1>4, <1>5 DEF WriterStep

LEMMA FillType ==
  ASSUME TypeOK, NEW c \in Seq(Cell \cup {Zero}), Fill(c)
  PROVE  /\ memory' \in [Regions -> Seq(Cell \cup {Zero})]
         /\ want' = "header" /\ buf' = <<>>
BY DEF TypeOK, Fill, Expect, losses

LEMMA ReaderType ==
  ASSUME TypeOK, Buffered, ReaderStep
  PROVE  TypeOK'
<1>0. <<>> \in Seq(Cell)
  OBVIOUS
<1>1. CASE Open
  BY <1>1 DEF Open, TypeOK, writer, reader, bounds, losses
<1>2. CASE \E n \in 1 .. Wanted - Len(buf) : Read(n)
  <2>1. PICK n \in 1 .. Wanted - Len(buf) : Read(n)
    BY <1>2
  <2>2. /\ n \in Nat \ {0} /\ file \in Seq(Cell) /\ pos \in 0 .. Len(file)
        /\ n <= Len(file) - pos /\ buf \in Seq(Cell)
    BY <2>1, WantedType DEF TypeOK, Read, losses
  <2>3. PICK from \in 1 .. Len(file), to \in 1 .. Len(file) :
          from = pos + 1 /\ to = pos + n /\ from <= to + 1
    BY <2>2
  <2>4. SubSeq(file, from, to) \in Seq(Cell)
    BY <2>2, <2>3, SubSeqProperties
  <2>5. buf' \in Seq(Cell)
    <3>1. buf' = buf \o SubSeq(file, from, to)
      BY <2>1, <2>3 DEF Read, losses
    <3> QED BY <2>2, <2>4, <3>1
  <2>6. pos' \in 0 .. Len(file)
    BY <2>1, <2>2 DEF Read, Offset, losses
  <2> QED BY <2>1, <2>5, <2>6 DEF Read, TypeOK, writer, bounds, losses
<1>3. CASE ReadInterrupted
  <2>1. interrupts' \in 0 .. MaxInterrupts
    BY <1>3, ImageAssumption DEF ReadInterrupted, TypeOK, losses
  <2> QED BY <1>3, <2>1 DEF ReadInterrupted, TypeOK, reader, writer, losses
<1>4. CASE CtxRead
  BY <1>0, <1>4 DEF CtxRead, Expect, TypeOK, writer, bounds, losses
<1>5. CASE HeaderRead
  BY <1>0, <1>5 DEF HeaderRead, Expect, TypeOK, writer, bounds, losses
<1>6. CASE HeaderRefused
  BY <1>6 DEF HeaderRefused, Refuse, TypeOK, writer, reader, bounds, losses
<1>7. CASE DataRead
  <2>1. buf \in Seq(Cell \cup {Zero}) /\ Fill(buf)
    BY <1>7 DEF DataRead, TypeOK, losses
  <2>2. /\ memory' \in [Regions -> Seq(Cell \cup {Zero})]
        /\ want' = "header" /\ buf' = <<>>
    BY <2>1, FillType
  <2> QED BY <1>0, <1>7, <2>2 DEF DataRead, Fill, TypeOK, writer, bounds, losses
<1>8. CASE EndsEarly
  BY <1>8 DEF EndsEarly, Refuse, TypeOK, writer, reader, bounds, losses
<1>9. CASE EndsWell
  BY <1>9 DEF EndsWell, TypeOK, writer, reader, bounds, losses
<1>10. ASSUME FailingRead
       PROVE  readErrors' \in 0 .. MaxReadErrors
  BY <1>10, ImageAssumption DEF FailingRead, TypeOK
<1>11. CASE ReadFails
  BY <1>10, <1>11 DEF ReadFails, TypeOK, writer, reader, losses
<1>12. CASE HeaderHalfRead
  BY <1>0, <1>10, <1>12 DEF HeaderHalfRead, Expect, TypeOK, writer, losses
<1>13. CASE DataReadFails
  <2>1. Padded \in Seq(Cell \cup {Zero}) /\ Fill(Padded) /\ readErrors' \in 0 .. MaxReadErrors
    BY <1>10, <1>13, PaddedType DEF DataReadFails, Reading, losses
  <2>2. /\ memory' \in [Regions -> Seq(Cell \cup {Zero})]
        /\ want' = "header" /\ buf' = <<>>
    BY <2>1, FillType
  <2> QED BY <1>0, <1>13, <2>1, <2>2 DEF DataReadFails, Fill, TypeOK, writer, losses
<1> QED BY <1>1, <1>2, <1>3, <1>4, <1>5, <1>6, <1>7, <1>8, <1>9, <1>11, <1>12, <1>13
        DEF ReaderStep
-----------------------------------------------------------------------------
(* The start, and the steps of the writer.                                 *)

LEMMA InitIInv == Init => IInv
<1> SUFFICES ASSUME Init PROVE IInv
  OBVIOUS
<1>1. TypeOK
  BY InitTypeOK
<1>2. InOrder(file)
  BY DEF Init, InOrder
<1>3. AtWriter
  <2>1. 1 <= LastBlock /\ 0 < Size(1) /\ LastBlock \in Nat
    BY BlockSizes, ImageAssumption
  <2> QED BY <2>1 DEF Init, AtWriter
<1>4. pos = 0 /\ buf = <<>> /\ Len(buf) = 0 /\ ItemStart = 0 /\ Len(file) = 0
  <2>1. pos = 0 /\ buf = <<>> /\ file = <<>>
    BY DEF Init
  <2>2. Len(buf) = 0 /\ Len(file) = 0
    BY <2>1
  <2>3. pos - Len(buf) = 0
    <3>1. pos = 0
      BY <2>1
    <3> QED BY <2>2, <3>1
  <2>4. ItemStart = 0
    BY <2>3 DEF ItemStart
  <2> QED BY <2>1, <2>2, <2>4
<1>5. Buffered
  BY <1>4, ImageAssumption DEF Buffered, Init, Wanted
<1>6. NotStarted
  <2>1. \A r \in Regions : memory[r] = Unmapped /\ ~(r <= 0)
    BY DEF Init, Regions
  <2> QED BY <1>4, <2>1 DEF NotStarted, FirstRegions, Init
<1>7. AtReader
  BY <1>4, <1>6 DEF AtReader, Init
<1> QED BY <1>1, <1>2, <1>3, <1>5, <1>7 DEF IInv

\* While there is no reader, nothing happens to what it has.
LEMMA ReaderWaits ==
  ASSUME TypeOK, TypeOK', Buffered, AtReader, phase \in {"writing", "written"},
         phase' \in {"writing", "written"}, UNCHANGED <<reader, readErrors>>
  PROVE  Buffered' /\ AtReader'
<1>1. /\ pos = 0 /\ buf = <<>> /\ Len(buf) = 0 /\ NotStarted /\ readErrors = 0
      /\ pos' = 0 /\ buf' = <<>> /\ readErrors' = 0
  BY DEF AtReader, reader
<1>2. Len(file') \in Nat
  BY DEF TypeOK
<1>3. Buffered'
  BY <1>1, <1>2, ImageAssumption DEF Buffered, NotStarted, Wanted, reader
<1>4. NotStarted'
  BY <1>1 DEF NotStarted, FirstRegions, ItemStart, reader
<1> QED BY <1>1, <1>3, <1>4 DEF AtReader

LEMMA WriteAtWriter ==
  ASSUME TypeOK, InOrder(file), AtWriter, ~cut,
         NEW n \in 1 .. Size(block) - done, Write(n)
  PROVE  AtWriter' /\ InOrder(file')
<1>1. block \in 1 .. LastBlock /\ done \in Nat /\ done < Size(block) /\ file \in Seq(Cell)
  BY BlockSizes DEF TypeOK, AtWriter, Write, Writing, losses
<1>2. Size(block) \in Nat \ {0} /\ LastBlock \in Nat
  BY <1>1, BlockSizes
<1>3. n \in Nat \ {0} /\ done + n \in Nat \ {0} /\ done + n <= Size(block)
  BY <1>1, <1>2
<1>4. InOrder(file')
  <2>1. file' = file \o Cells(block, done + 1, done + n) /\ ~cut /\ block <= LastBlock
    BY DEF Write, Writing, losses
  <2> QED BY <2>1, WriteInOrder
<1>5. file' # <<>> /\ file'[Len(file')] = <<block, done + n>>
  <2>1. PICK from \in Nat \ {0}, to \in Nat :
          from = done + 1 /\ to = done + n /\ from <= to + 1 /\ to <= Size(block)
    BY <1>1, <1>3
  <2> DEFINE new == Cells(block, from, to)
  <2>2. /\ new \in Seq(Cell) /\ Len(new) = to - from + 1
        /\ \A i \in 1 .. to - from + 1 : new[i] = <<block, from + i - 1>>
    BY <1>1, <2>1, CellsType
  <2>3. to - from + 1 = n /\ from + n - 1 = done + n
    BY <1>1, <1>3, <2>1
  <2>4. Len(new) = n /\ new[n] = <<block, done + n>>
    BY <1>3, <2>2, <2>3
  <2>5. file' = file \o new
    BY <2>1 DEF Write, losses
  <2> HIDE DEF new
  <2>6. /\ file' \in Seq(Cell) /\ Len(file') = Len(file) + Len(new)
        /\ \A i \in 1 .. Len(file) + Len(new) :
             (file \o new)[i] = IF i <= Len(file) THEN file[i] ELSE new[i - Len(file)]
    BY <1>1, <2>2, <2>5, ConcatProperties
  <2>7. Len(file) \in Nat /\ Len(file') = Len(file) + n
    BY <1>1, <2>4, <2>6
  <2>8. file'[Len(file) + n] = new[n]
    <3>1. Len(file) + n \in 1 .. Len(file) + Len(new)
      BY <1>3, <2>4, <2>7
    <3>2. ~(Len(file) + n <= Len(file)) /\ Len(file) + n - Len(file) = n
      BY <1>3, <2>7
    <3> QED BY <2>5, <2>6, <3>1, <3>2
  <2>9. Len(file') # 0
    BY <1>3, <2>7
  <2> QED BY <2>4, <2>6, <2>7, <2>8, <2>9, EmptySeq
<1>6. CASE done + n < Size(block)
  <2>1. block' = block /\ done' = done + n /\ cut' = cut /\ phase' = "writing"
    BY <1>6 DEF Write, Progress, Writing, losses
  <2>2. block <= LastBlock /\ ~(block > LastBlock) /\ done' > 0 /\ done' # 0
    BY <1>1, <1>2, <1>3, <2>1
  <2> QED BY <1>4, <1>5, <1>6, <2>1, <2>2 DEF AtWriter
<1>7. CASE ~(done + n < Size(block))
  <2>1. block' = block + 1 /\ done' = 0 /\ cut' = cut /\ phase' = "writing"
    BY <1>7 DEF Write, Progress, Writing, NextBlock, losses
  <2>2. done + n = Size(block) /\ block' # 1 /\ block' - 1 = block /\ ~(done' > 0)
    BY <1>1, <1>2, <1>3, <1>7, <2>1
  <2>3. block' <= LastBlock => 0 < Size(block')
    <3>1. block' \in Nat \ {0}
      BY <1>1, <2>1
    <3>2. block' <= LastBlock => Size(block') \in Nat \ {0}
      BY <1>2, <3>1, BlockSizes
    <3> QED BY <3>2
  <2>4. file'[Len(file')] = <<block' - 1, Size(block' - 1)>>
    BY <1>5, <2>2
  <2> QED BY <1>4, <1>5, <2>1, <2>2, <2>3, <2>4 DEF AtWriter
<1> QED BY <1>6, <1>7

LEMMA WriterIInv ==
  ASSUME IInv, WriterStep \/ Crash, ~holed'
  PROVE  IInv'
<1>1. TypeOK /\ InOrder(file) /\ AtWriter /\ Buffered /\ AtReader
  BY DEF IInv
<1>2. TypeOK'
  BY <1>1, WriterType DEF AtWriter, InBlock
<1>3. /\ phase \in {"writing", "written"} /\ phase' \in {"writing", "written"}
      /\ UNCHANGED <<reader, readErrors>>
  BY DEF WriterStep, Write, WriteInterrupted, WriteFails, Close, Crash, Writing, bounds, losses
<1>4. Buffered' /\ AtReader'
  BY <1>1, <1>2, <1>3, ReaderWaits
<1>5. AtWriter' /\ InOrder(file')
  <2>1. CASE \E n \in 1 .. Size(block) - done : Write(n)
    BY <1>1, <2>1, WriteAtWriter DEF Write
  <2>2. CASE WriteInterrupted
    BY <1>1, <2>2 DEF WriteInterrupted, AtWriter, writer, losses
  <2>3. CASE WriteFails
    <3>1. block' \in 1 .. LastBlock + 1 /\ done' = 0 /\ cut' /\ file' = file
      BY <1>2, <2>3 DEF WriteFails, NextBlock, TypeOK, losses
    <3>2. block' <= LastBlock => 0 < Size(block')
      <4>1. block' <= LastBlock => block' \in 1 .. LastBlock
        BY <3>1, BlockSizes
      <4>2. block' <= LastBlock => Size(block') \in Nat \ {0}
        BY <4>1, BlockSizes
      <4> QED BY <4>2
    <3> QED BY <1>1, <3>1, <3>2 DEF AtWriter
  <2>4. CASE Close
    BY <1>1, <2>4 DEF Close, AtWriter, writer, losses
  <2>5. CASE Crash
    BY <1>1, <2>5 DEF Crash, AtWriter, writer, losses
  <2> QED BY <2>1, <2>2, <2>3, <2>4, <2>5 DEF WriterStep
<1> QED BY <1>2, <1>4, <1>5 DEF IInv
-----------------------------------------------------------------------------
(* What the reader finds in the file.                                      *)

LEMMA CellBlock ==
  ASSUME TypeOK, InOrder(file), NEW b \in 1 .. LastBlock, NEW i \in 1 .. Size(b),
         NEW s \in Int, s + i \in 1 .. Len(file), file[s + i] = <<b, i>>
  PROVE  /\ s \in Nat /\ Holds(file, s, b)
         /\ s + Size(b) < Len(file) =>
              b < LastBlock /\ file[s + Size(b) + 1] = <<b + 1, 1>>
<1>1. Size(b) \in Nat \ {0} /\ i \in Nat
  BY BlockSizes
<1>2. PICK p \in 1 .. Len(file) : p = s + i
  OBVIOUS
<1>3. /\ Holds(file, p - i, b)
      /\ p - i + Size(b) < Len(file) =>
           b < LastBlock /\ file[p - i + Size(b) + 1] = <<b + 1, 1>>
  BY <1>2 DEF InOrder
<1>4. PICK c \in 1 .. LastBlock : \E j \in 1 .. Size(c) : j <= p /\ file[p] = <<c, j>>
  BY DEF InOrder
<1>5. i <= p
  BY <1>2, <1>4
<1>6. p - i = s /\ s \in Nat
  BY <1>1, <1>2, <1>5
<1> QED BY <1>3, <1>6

\* In a file that was not cut every block is whole, up to the last one.
Complete == InOrder(file) /\ AtWriter /\ ~cut /\ phase # "writing"

LEMMA CompleteBlock ==
  ASSUME TypeOK, Complete, NEW b \in 1 .. LastBlock, NEW i \in 1 .. Size(b),
         NEW s \in Int, s + i \in 1 .. Len(file), file[s + i] = <<b, i>>
  PROVE  /\ s + Size(b) <= Len(file)
         /\ b < LastBlock => s + Size(b) < Len(file)
<1>1. Size(b) \in Nat \ {0} /\ Len(file) \in Nat /\ s \in Nat /\ Holds(file, s, b)
  <2>1. InOrder(file)
    BY DEF Complete
  <2>2. s \in Nat /\ Holds(file, s, b)
    BY <2>1, CellBlock
  <2>3. Size(b) \in Nat \ {0}
    BY BlockSizes
  <2> QED BY <2>2, <2>3 DEF TypeOK
<1>2. file[Len(file)] = <<LastBlock, Size(LastBlock)>>
  <2>1. block = LastBlock + 1 /\ done = 0 /\ block # 1 /\ block - 1 = LastBlock
    BY BlockSizes DEF Complete, AtWriter, TypeOK
  <2> QED BY <2>1 DEF Complete, AtWriter
<1>3. ASSUME s + Size(b) >= Len(file)
      PROVE  b = LastBlock /\ Len(file) - s = Size(b)
  <2>0. Len(file) - s >= i /\ i \in Nat \ {0}
    BY <1>1
  <2>5. PICK z \in Nat : z = Size(b)
    BY <1>1
  <2>6. s + z >= Len(file) /\ s \in Nat /\ Len(file) \in Nat
    BY <1>1, <1>3, <2>5
  <2>7. PICK l \in Nat : l = Len(file) /\ l - s >= 1 /\ l - s <= z
    BY <2>6, <2>5, <2>0
  <2>1. PICK k \in 1 .. z : k = Len(file) - s
    <3>1. l - s \in 1 .. z
      BY <2>6, <2>7
    <3> QED BY <2>7, <3>1
  <2>2. s + k <= Len(file) /\ s + k = Len(file)
    BY <1>1, <2>1
  <2>3. file[s + k] = <<b, k>>
    BY <1>1, <2>5, <2>2 DEF Holds
  <2>4. b = LastBlock /\ k = Size(LastBlock)
    BY <1>2, <2>2, <2>3
  <2> QED BY <2>1, <2>4
<1>4. PICK z \in Nat \ {0} : z = Size(b)
  BY <1>1
<1>5. s + z >= Len(file) => b = LastBlock /\ Len(file) - s = z
  BY <1>3, <1>4
<1>6. s + z <= Len(file) /\ (b < LastBlock => s + z < Len(file))
  BY <1>1, <1>5, BlockSizes
<1> QED BY <1>4, <1>6

\* The block that was to be read, once it is there, and what follows it.
LEMMA WholeRead ==
  ASSUME TypeOK, InOrder(file), Buffered, NEW b \in 1 .. LastBlock, NextIs(b, 1),
         Wanted = Size(b), ~(Len(buf) < Wanted)
  PROVE  /\ buf = Whole(b)
         /\ pos = Len(file) \/
              (pos < Len(file) /\ b < LastBlock /\ file[pos + 1] = <<b + 1, 1>>)
         /\ Complete /\ b < LastBlock => pos < Len(file)
<1>1. /\ buf \in Seq(Cell) /\ Len(buf) \in Nat /\ pos \in Nat /\ Len(file) \in Nat
      /\ Size(b) \in Nat \ {0} /\ Len(buf) <= pos /\ pos <= Len(file)
      /\ Len(buf) <= Wanted
  BY BlockSizes DEF TypeOK, Buffered
<1>2. Len(buf) = Size(b)
  BY <1>1
<1>3. PICK s \in Nat : s = ItemStart
  BY <1>1 DEF ItemStart
<1>4. s + 1 \in 1 .. Len(file) /\ file[s + 1] = <<b, 1>> /\ pos = s + Size(b) /\ 1 \in 1 .. Size(b)
  <2>1. pos = s + Size(b)
    BY <1>1, <1>2, <1>3 DEF ItemStart
  <2> QED BY <1>1, <1>3, <2>1 DEF NextIs
<1>5. /\ Holds(file, s, b)
      /\ s + Size(b) < Len(file) =>
           b < LastBlock /\ file[s + Size(b) + 1] = <<b + 1, 1>>
  BY <1>4, CellBlock
<1>6. buf = Whole(b)
  <2>1. Whole(b) \in Seq(Cell) /\ Len(Whole(b)) = Size(b)
        /\ \A i \in 1 .. Size(b) : Whole(b)[i] = <<b, i>>
    BY WholeType
  <2>2. ASSUME NEW i \in 1 .. Len(buf)
        PROVE  buf[i] = Whole(b)[i]
    <3>1. buf[i] = file[s + i]
      BY <1>3 DEF Buffered
    <3>2. i \in 1 .. Size(b) /\ s + i <= Len(file)
      BY <1>1, <1>2, <1>4
    <3> QED BY <1>5, <2>1, <3>1, <3>2 DEF Holds
  <2> QED BY <1>1, <1>2, <2>1, <2>2, SeqEqual
<1>7. Complete /\ b < LastBlock => s + Size(b) < Len(file)
  BY <1>4, CompleteBlock
<1> QED BY <1>1, <1>4, <1>5, <1>6, <1>7

\* A whole file does not end before the item, when the item is a block.
LEMMA ItemIsThere ==
  ASSUME TypeOK, Buffered, Complete, NEW b \in 1 .. LastBlock, NextIs(b, 1),
         Wanted = Size(b), Len(buf) < Wanted
  PROVE  /\ pos < Len(file) /\ file[pos + 1] = <<b, Len(buf) + 1>>
         /\ Len(buf) + 1 \in 1 .. Size(b)
<1>1. /\ Len(buf) \in Nat /\ pos \in Nat /\ Len(file) \in Nat
      /\ Size(b) \in Nat \ {0} /\ Len(buf) <= pos /\ pos <= Len(file)
  BY BlockSizes DEF TypeOK, Buffered
<1>2. PICK s \in Nat : s = ItemStart /\ pos = s + Len(buf)
  BY <1>1 DEF ItemStart
<1>3. s + 1 \in 1 .. Len(file) /\ file[s + 1] = <<b, 1>> /\ 1 \in 1 .. Size(b)
  BY <1>1, <1>2 DEF NextIs
<1>4. Holds(file, s, b) /\ s + Size(b) <= Len(file)
  BY <1>3, CellBlock, CompleteBlock DEF Complete
<1>5. PICK k \in 1 .. Size(b) : k = Len(buf) + 1
  BY <1>1
<1>6. s + k = pos + 1 /\ s + k <= Len(file)
  BY <1>1, <1>2, <1>4, <1>5
<1>7. file[s + k] = <<b, k>>
  BY <1>4, <1>6 DEF Holds
<1> QED BY <1>1, <1>5, <1>6, <1>7

\* Who reads data from inside a header does not arrive at a header.
LEMMA LostStaysLost ==
  ASSUME TypeOK, Complete, NEW r \in Regions, NEW j \in 2 .. HeaderSize,
         NEW p \in 1 .. Len(file), file[p] = <<HeaderOf(r), j>>, NEW m \in 0 .. Sizes[r]
  PROVE  p + m <= Len(file) /\ \A q \in Regions : file[p + m] # <<HeaderOf(q), 1>>
<1> DEFINE h == HeaderOf(r)
           d == DataOf(r)
<1>1. /\ h \in 1 .. LastBlock /\ d \in 1 .. LastBlock /\ Size(h) = HeaderSize
      /\ Size(d) = Sizes[r] /\ Sizes[r] \in Nat \ {0} /\ HeaderSize \in Nat
      /\ LastBlock \in Nat
  BY BlockSizes, ImageAssumption
<1>2. h + 1 = d /\ h < LastBlock
  BY <1>1, BlockSizes DEF HeaderOf, DataOf, Regions, LastBlock
<1>3. \A q \in Regions : HeaderOf(q) # d
  BY DEF HeaderOf, DataOf, Regions
<1> HIDE DEF h, d
<1>4. PICK s \in Int : s = p - j
  OBVIOUS
<1>5. s + j = p /\ s + j \in 1 .. Len(file) /\ j \in 1 .. Size(h) /\ file[s + j] = <<h, j>>
  BY <1>1, <1>4 DEF h
<1>6. s \in Nat /\ Holds(file, s, h) /\ s + Size(h) < Len(file)
      /\ file[s + Size(h) + 1] = <<d, 1>>
  BY <1>1, <1>2, <1>5, CellBlock, CompleteBlock DEF Complete
<1>7. PICK t \in Nat : t = s + HeaderSize
  BY <1>1, <1>6
<1>8. Len(file) \in Nat /\ t < Len(file) /\ file[t + 1] = <<d, 1>>
  <2>1. s + HeaderSize < Len(file) /\ file[s + HeaderSize + 1] = <<d, 1>>
    BY <1>1, <1>6
  <2> QED BY <1>7, <2>1 DEF TypeOK
<1>9. Holds(file, t, d) /\ t + Sizes[r] <= Len(file)
  <2>1. t \in Int /\ t + 1 \in 1 .. Len(file)
    BY <1>8
  <2>2. 1 \in 1 .. Size(d)
    BY <1>1
  <2>3. InOrder(file)
    BY DEF Complete
  <2>4. Holds(file, t, d)
    BY <1>1, <1>8, <2>1, <2>2, <2>3, CellBlock
  <2>5. t + Size(d) <= Len(file)
    BY <1>1, <1>8, <2>1, <2>2, CompleteBlock
  <2> QED BY <1>1, <2>4, <2>5
<1>10. PICK z \in Nat : z = Sizes[r]
  BY <1>1
<1>11. CASE j + m <= HeaderSize
  <2>1. PICK k \in 1 .. HeaderSize : k = j + m /\ k # 1
    BY <1>1, <1>10, <1>11
  <2>2. s + HeaderSize <= Len(file)
    BY <1>7, <1>8
  <2>3. s + k = p + m
    BY <1>4, <1>10, <2>1
  <2>4. s + k <= Len(file)
    BY <1>1, <1>6, <1>8, <2>1, <2>2
  <2>5. file[s + k] = <<h, k>>
    BY <1>1, <1>6, <2>4 DEF Holds
  <2> QED BY <2>1, <2>3, <2>4, <2>5
<1>12. CASE j + m > HeaderSize
  <2>1. PICK k \in 1 .. z : k = j + m - HeaderSize
    BY <1>1, <1>10, <1>12
  <2>2. t + k = p + m
    BY <1>1, <1>4, <1>7, <1>10, <2>1
  <2>3. t + k <= Len(file)
    BY <1>8, <1>9, <1>10, <2>1
  <2>4. file[t + k] = <<d, k>>
    BY <1>1, <1>9, <1>10, <2>1, <2>3 DEF Holds
  <2> QED BY <1>3, <2>2, <2>3, <2>4
<1> QED BY <1>1, <1>11, <1>12
-----------------------------------------------------------------------------
(* The steps of the reader.                                                *)

AtItem == NotStarted \/ AtHeader \/ AtData \/ Lost

\* Reading on, or not reading, leaves the reader at its item.
LEMMA SameItem ==
  ASSUME UNCHANGED <<file, cut, want, region, memory, readErrors>>, ItemStart' = ItemStart
  PROVE  /\ AtItem => AtItem'
         /\ NothingLeft => NothingLeft'
<1>1. NothingLeft' = NothingLeft
  BY DEF NothingLeft
<1>2. ASSUME NEW b, NEW i PROVE NextIs(b, i)' = NextIs(b, i)
  BY DEF NextIs
<1>3. ASSUME NEW k PROVE FirstRegions(k)' = FirstRegions(k)
  BY DEF FirstRegions
<1>4. NotStarted => NotStarted'
  BY <1>3 DEF NotStarted
<1>5. AtHeader => AtHeader'
  BY <1>1, <1>2, <1>3 DEF AtHeader
<1>6. AtData => AtData'
  BY <1>1, <1>2, <1>3 DEF AtData
<1>7. LostAtHeader => LostAtHeader'
  BY <1>1, <1>2 DEF LostAtHeader
<1>8. LostAtData => LostAtData'
  BY <1>2 DEF LostAtData
<1> QED BY <1>1, <1>4, <1>5, <1>6, <1>7, <1>8 DEF AtItem, Lost

\* The next item begins where the last one ended.
LEMMA NextItem ==
  ASSUME TypeOK, TypeOK', Buffered, UNCHANGED <<file, pos>>, buf' = <<>>,
         want' = "data" => region' \in Regions
  PROVE  /\ Buffered' /\ (NothingLeft' <=> pos = Len(file))
         /\ \A b, i : NextIs(b, i)' <=> pos < Len(file) /\ file[pos + 1] = <<b, i>>
<1>1. pos \in Nat /\ Len(file) \in Nat /\ pos <= Len(file) /\ Len(buf') = 0
  BY DEF TypeOK
<1>2. ItemStart' = pos
  BY <1>1 DEF ItemStart
<1>3. Wanted' \in Nat
  BY BlockSizes, ImageAssumption DEF Wanted, TypeOK
<1>4. Buffered'
  BY <1>1, <1>2, <1>3 DEF Buffered
<1> QED BY <1>2, <1>4 DEF NothingLeft, NextIs

LEMMA ReadBuffers ==
  ASSUME TypeOK, TypeOK', Buffered, NEW n \in 1 .. Wanted - Len(buf), Read(n)
  PROVE  Buffered' /\ ItemStart' = ItemStart
<1>1. /\ n \in Nat \ {0} /\ file \in Seq(Cell) /\ pos \in Nat /\ Len(file) \in Nat
      /\ pos + n <= Len(file) /\ buf \in Seq(Cell) /\ Len(buf) \in Nat
      /\ Wanted \in Nat /\ Len(buf) + n <= Wanted /\ Len(buf) <= pos
  <2>1. PICK w \in Nat : w = Wanted
    BY WantedType
  <2>2. /\ file \in Seq(Cell) /\ pos \in Nat /\ Len(file) \in Nat /\ n <= Len(file) - pos
        /\ buf \in Seq(Cell) /\ Len(buf) \in Nat /\ Len(buf) <= pos
    <3>1. file \in Seq(Cell) /\ pos \in Nat /\ buf \in Seq(Cell)
      BY DEF TypeOK
    <3> QED BY <3>1 DEF Read, Buffered, losses
  <2>3. n \in 1 .. w - Len(buf)
    BY <2>1
  <2>4. n \in Nat \ {0} /\ pos + n <= Len(file) /\ Len(buf) + n <= w
    BY <2>2, <2>3
  <2> QED BY <2>1, <2>2, <2>4
<1>2. PICK from \in 1 .. Len(file), to \in 1 .. Len(file) :
        from = pos + 1 /\ to = pos + n /\ from <= to
  BY <1>1
<1> DEFINE part == SubSeq(file, from, to)
<1>3. /\ part \in Seq(Cell) /\ Len(part) = to - from + 1
      /\ \A i \in 1 .. to - from + 1 : part[i] = file[from + i - 1]
  BY <1>1, <1>2, SubSeqProperties
<1>4. to - from + 1 = n /\ \A i \in 1 .. n : from + i - 1 = pos + i
  BY <1>1, <1>2
<1>5. Len(part) = n /\ \A i \in 1 .. n : part[i] = file[pos + i]
  BY <1>3, <1>4
<1>6. buf' = buf \o part /\ pos' = pos + n /\ UNCHANGED <<file, want, region>>
  BY <1>2 DEF Read, Offset, losses
<1> HIDE DEF part
<1>7. /\ Len(buf') = Len(buf) + Len(part)
      /\ \A i \in 1 .. Len(buf) + Len(part) :
           buf'[i] = IF i <= Len(buf) THEN buf[i] ELSE part[i - Len(buf)]
  BY <1>1, <1>3, <1>6, ConcatProperties
<1>8. PICK s \in Nat : s = ItemStart /\ pos = s + Len(buf)
  <2>1. PICK s \in Nat : s = pos - Len(buf) /\ pos = s + Len(buf)
    <3>1. pos \in Nat /\ Len(buf) \in Nat /\ Len(buf) <= pos
      BY <1>1
    <3> QED BY <3>1
  <2> QED BY <2>1 DEF ItemStart
<1>9. ItemStart' = s
  BY <1>1, <1>5, <1>6, <1>7, <1>8 DEF ItemStart
<1>10. ASSUME NEW i \in 1 .. Len(buf')
       PROVE  buf'[i] = file[s + i]
  <2>1. CASE i <= Len(buf)
    <3>1. i \in 1 .. Len(buf) /\ i \in 1 .. Len(buf) + Len(part)
      BY <1>7, <1>1, <2>1
    <3>2. buf'[i] = buf[i]
      BY <1>7, <2>1, <3>1
    <3> QED BY <1>8, <3>1, <3>2 DEF Buffered
  <2>2. CASE ~(i <= Len(buf))
    <3>0. i <= Len(buf) + n /\ i > Len(buf) /\ i \in Nat
      BY <1>1, <1>5, <1>7, <2>2
    <3>1. PICK k \in 1 .. n : k = i - Len(buf)
      BY <1>1, <3>0
    <3>2. buf'[i] = part[k] /\ pos + k = s + i
      BY <1>1, <1>7, <1>8, <2>2, <3>1
    <3> QED BY <1>5, <3>2
  <2> QED BY <2>1, <2>2
<1>11. Wanted' = Wanted
  BY <1>6 DEF Wanted
<1>12. Len(buf') <= pos' /\ pos' <= Len(file') /\ Len(buf') <= Wanted'
  BY <1>1, <1>5, <1>6, <1>7, <1>11
<1> QED BY <1>6, <1>8, <1>9, <1>10, <1>12 DEF Buffered

\* When something of an item has come, it begins with the cell at its start.
LEMMA FirstCell ==
  ASSUME TypeOK, Buffered, buf # <<>>
  PROVE  /\ ~NothingLeft /\ Len(buf) \in Nat \ {0}
         /\ \A b, i : buf[1] = <<b, i>> <=> NextIs(b, i)
<1>1. Len(buf) \in Nat \ {0} /\ pos \in Nat /\ Len(file) \in Nat /\ pos <= Len(file)
  BY EmptySeq DEF TypeOK
<1>2. PICK s \in Int : s = ItemStart /\ s < Len(file)
  BY <1>1 DEF ItemStart
<1>3. 1 \in 1 .. Len(buf) /\ buf[1] = file[s + 1]
  BY <1>1, <1>2 DEF Buffered
<1> QED BY <1>1, <1>2, <1>3 DEF NextIs, NothingLeft

LEMMA CtxReadIInv ==
  ASSUME IInv, TypeOK', CtxRead
  PROVE  Buffered' /\ AtReader'
<1>1. /\ TypeOK /\ InOrder(file) /\ AtWriter /\ Buffered /\ AtReader
      /\ phase = "reading" /\ want = "ctx" /\ AtItem
  BY DEF IInv, CtxRead, Reading, AtReader, AtItem, losses
<1>2. /\ phase' = "reading" /\ want' = "header" /\ buf' = <<>>
      /\ UNCHANGED <<file, pos, cut, memory, readErrors>>
  BY <1>1 DEF CtxRead, Expect, bounds, losses
<1>3. /\ Buffered' /\ (NothingLeft' <=> pos = Len(file))
      /\ \A b, i : NextIs(b, i)' <=> pos < Len(file) /\ file[pos + 1] = <<b, i>>
  BY <1>1, <1>2, NextItem
<1>4. CASE Lost
  <2>1. Lost'
    BY <1>1, <1>2, <1>4 DEF Lost, LostAtHeader, LostAtData
  <2> QED BY <1>2, <1>3, <2>1 DEF AtReader
<1>5. CASE NotStarted
  <2>1. Wanted = Size(1) /\ ~(Len(buf) < Wanted) /\ Size(1) \in Nat \ {0}
        /\ 1 \in 1 .. LastBlock
    BY <1>1, BlockSizes, ImageAssumption DEF Wanted, CtxRead, Short, losses
  <2>2. NextIs(1, 1)
    <3>1. ItemStart = 0 /\ Len(file) \in Nat /\ Len(buf) \in Nat
      <4>1. file \in Seq(Cell) /\ buf \in Seq(Cell)
        BY <1>1 DEF TypeOK
      <4> QED BY <1>5, <4>1 DEF NotStarted
    <3>2. Len(buf) # 0
      BY <2>1, <3>1
    <3>3. ~NothingLeft
      BY <1>1, <3>1, <3>2, FirstCell, EmptySeq
    <3>4. 0 < Len(file) /\ file # <<>>
      BY <3>1, <3>3 DEF NothingLeft
    <3> QED BY <1>1, <3>1, <3>4 DEF InOrder, NextIs
  <2>3. /\ pos = Len(file) \/
             (pos < Len(file) /\ 1 < LastBlock /\ file[pos + 1] = <<1 + 1, 1>>)
        /\ Complete /\ 1 < LastBlock => pos < Len(file)
    BY <1>1, <2>1, <2>2, WholeRead
  <2>4. 1 < LastBlock <=> 0 < Len(Sizes)
    BY BlockSizes DEF LastBlock
  <2>5. FirstRegions(0)'
    BY <1>2, <1>5 DEF NotStarted, FirstRegions
  <2>6. NothingLeft' \/ (0 < Len(Sizes) /\ NextIs(HeaderOf(0 + 1), 1)')
    <3>1. HeaderOf(0 + 1) = 1 + 1
      BY DEF HeaderOf
    <3> QED BY <1>3, <2>3, <2>4, <3>1
  <2>7. NothingLeft' /\ ~cut' => 0 = Len(Sizes)
    <3>1. ~cut => Complete
      BY <1>1 DEF Complete
    <3>2. NothingLeft' => ~(pos < Len(file))
      BY <1>1, <1>3 DEF TypeOK
    <3> QED BY <1>2, <2>3, <2>4, <3>1, <3>2, BlockSizes
  <2>8. AtHeader'
    <3>1. 0 \in 0 .. Len(Sizes)
      BY BlockSizes
    <3> QED BY <1>2, <2>5, <2>6, <2>7, <3>1 DEF AtHeader
  <2> QED BY <1>2, <1>3, <2>8 DEF AtReader
<1> QED BY <1>1, <1>4, <1>5 DEF AtItem, AtHeader, AtData

LEMMA HeaderAhead ==
  ASSUME IInv, Reading("header"), buf # <<>>, NEW r \in Regions,
         buf[1] = <<HeaderOf(r), 1>>
  PROVE  \/ cut /\ readErrors > 0
         \/ /\ FirstRegions(r - 1) /\ NextIs(HeaderOf(r), 1)
            /\ Len(buf) \in Nat \ {0}
<1>1. TypeOK /\ Buffered /\ want = "header" /\ (NotStarted \/ AtHeader \/ AtData \/ Lost)
  BY DEF IInv, Reading, AtReader
<1>2. ~NothingLeft /\ Len(buf) \in Nat \ {0} /\ NextIs(HeaderOf(r), 1)
  BY <1>1, FirstCell
<1>3. CASE AtHeader
  <2>1. PICK k \in 0 .. Len(Sizes) :
          FirstRegions(k) /\ k < Len(Sizes) /\ NextIs(HeaderOf(k + 1), 1)
    BY <1>2, <1>3 DEF AtHeader
  <2>2. HeaderOf(r) = HeaderOf(k + 1)
    BY <1>2, <2>1 DEF NextIs
  <2>3. k = r - 1
    BY <2>2, BlockSizes DEF HeaderOf, Regions
  <2> QED BY <1>2, <2>1, <2>3
<1>4. CASE Lost
  BY <1>1, <1>2, <1>4 DEF Lost, LostAtHeader, LostAtData
<1> QED BY <1>1, <1>3, <1>4 DEF NotStarted, AtData

LEMMA HeaderReadIInv ==
  ASSUME IInv, TypeOK', HeaderRead
  PROVE  Buffered' /\ AtReader'
<1>1. /\ TypeOK /\ InOrder(file) /\ AtWriter /\ Buffered
      /\ Reading("header") /\ phase = "reading" /\ want = "header"
  BY DEF IInv, HeaderRead, Reading, losses
<1>2. PICK r \in Regions : buf = Whole(HeaderOf(r)) /\ region' = r
  BY DEF HeaderRead, losses
<1>3. /\ phase' = "reading" /\ want' = "data" /\ buf' = <<>>
      /\ UNCHANGED <<file, pos, cut, memory, readErrors>>
  BY <1>1 DEF HeaderRead, Expect, bounds, losses
<1>4. /\ Buffered' /\ (NothingLeft' <=> pos = Len(file))
      /\ \A b, i : NextIs(b, i)' <=> pos < Len(file) /\ file[pos + 1] = <<b, i>>
  BY <1>1, <1>2, <1>3, NextItem
<1>5. /\ HeaderOf(r) \in 1 .. LastBlock /\ Size(HeaderOf(r)) = HeaderSize
      /\ HeaderSize \in Nat \ {0} /\ Wanted = HeaderSize
      /\ HeaderOf(r) + 1 = DataOf(r) /\ HeaderOf(r) < LastBlock
  <2>1. HeaderOf(r) + 1 = DataOf(r) /\ HeaderOf(r) < LastBlock
    BY BlockSizes DEF HeaderOf, DataOf, Regions, LastBlock
  <2> QED BY <1>1, <2>1, BlockSizes, ImageAssumption DEF Wanted
<1>6. Len(buf) = HeaderSize /\ buf # <<>> /\ buf[1] = <<HeaderOf(r), 1>>
  <2>1. Len(Whole(HeaderOf(r))) = HeaderSize /\ Whole(HeaderOf(r))[1] = <<HeaderOf(r), 1>>
    <3>1. 1 \in 1 .. Size(HeaderOf(r))
      BY <1>5
    <3> QED BY <1>5, <3>1, WholeType
  <2>2. Len(buf) # 0
    BY <1>2, <1>5, <2>1
  <2> QED BY <1>2, <2>1, <2>2
<1>7. CASE cut /\ readErrors > 0
  BY <1>3, <1>4, <1>7 DEF AtReader, Lost
<1>8. CASE FirstRegions(r - 1) /\ NextIs(HeaderOf(r), 1)
  <2>1. ~(Len(buf) < Wanted) /\ Wanted = Size(HeaderOf(r))
    BY <1>5, <1>6
  <2>2. /\ pos = Len(file) \/ (pos < Len(file) /\ file[pos + 1] = <<DataOf(r), 1>>)
        /\ Complete => pos < Len(file)
    BY <1>1, <1>5, <1>8, <2>1, WholeRead
  <2>3. NothingLeft' \/ NextIs(DataOf(r), 1)'
    BY <1>4, <2>2
  <2>4. NothingLeft' => cut'
    <3>1. ~cut => Complete
      BY <1>1 DEF Complete
    <3>2. NothingLeft' => ~(pos < Len(file))
      BY <1>1, <1>4 DEF TypeOK
    <3> QED BY <1>3, <2>2, <3>1, <3>2
  <2>5. FirstRegions(r - 1)'
    BY <1>3, <1>8 DEF FirstRegions
  <2>6. AtData'
    BY <1>2, <1>3, <2>3, <2>4, <2>5 DEF AtData, NextIs, FirstRegions
  <2> QED BY <1>3, <1>4, <2>6 DEF AtReader
<1> QED BY <1>1, <1>6, <1>7, <1>8, HeaderAhead

\* After a header that came only in part the reader is inside it.
LEMMA HeaderHalfReadIInv ==
  ASSUME IInv, TypeOK', HeaderHalfRead
  PROVE  Buffered' /\ AtReader'
<1>1. /\ TypeOK /\ InOrder(file) /\ AtWriter /\ Buffered
      /\ Reading("header") /\ phase = "reading" /\ want = "header" /\ buf # <<>>
  BY DEF IInv, HeaderHalfRead, Reading, losses
<1>2. PICK r \in Regions : buf[1] = <<HeaderOf(r), 1>> /\ region' = r
  BY DEF HeaderHalfRead, losses
<1>3. /\ phase' = "reading" /\ want' = "data" /\ buf' = <<>> /\ readErrors' > 0
      /\ UNCHANGED <<file, pos, cut, memory>>
  BY <1>1 DEF HeaderHalfRead, FailingRead, Expect, TypeOK, losses
<1>4. /\ Buffered'
      /\ \A b, i : NextIs(b, i)' <=> pos < Len(file) /\ file[pos + 1] = <<b, i>>
  BY <1>1, <1>2, <1>3, NextItem
<1>5. CASE cut
  BY <1>3, <1>4, <1>5 DEF AtReader, Lost
<1>6. CASE ~cut
  <2>1. NextIs(HeaderOf(r), 1) /\ Len(buf) \in Nat \ {0}
    BY <1>1, <1>2, <1>6, HeaderAhead
  <2>2. /\ HeaderOf(r) \in 1 .. LastBlock /\ Wanted = Size(HeaderOf(r))
        /\ Size(HeaderOf(r)) = HeaderSize /\ Len(buf) < Wanted
    BY <1>1, BlockSizes DEF Wanted, HeaderHalfRead, FailingRead, Short, losses
  <2>3. Complete
    BY <1>1, <1>6 DEF Complete
  <2>4. /\ pos < Len(file) /\ file[pos + 1] = <<HeaderOf(r), Len(buf) + 1>>
        /\ Len(buf) + 1 \in 1 .. HeaderSize
    BY <1>1, <2>1, <2>2, <2>3, ItemIsThere
  <2>5. PICK j \in 2 .. HeaderSize : j = Len(buf) + 1
    BY <2>1, <2>4, ImageAssumption
  <2>6. NextIs(HeaderOf(r), j)'
    BY <1>4, <2>4, <2>5
  <2>7. LostAtData'
    <3>1. \A k : NextIs(HeaderOf(r), k)' = NextIs(HeaderOf(region), k)'
      BY <1>2 DEF NextIs
    <3> QED BY <1>3, <2>6, <3>1 DEF LostAtData
  <2> QED BY <1>3, <1>4, <2>7 DEF AtReader, Lost
<1> QED BY <1>5, <1>6

\* A whole file has a header wherever the reader looks for one.
LEMMA HeaderRefusedCut ==
  ASSUME IInv, HeaderRefused
  PROVE  cut \/ readErrors > 0
<1> SUFFICES ASSUME ~cut, ~(readErrors > 0) PROVE FALSE
  OBVIOUS
<1>1. /\ TypeOK /\ InOrder(file) /\ AtWriter /\ Buffered /\ AtHeader /\ Complete
      /\ phase = "reading" /\ want = "header" /\ buf # <<>>
  BY DEF IInv, HeaderRefused, Reading, AtReader, NotStarted, AtData, Lost, Complete, losses
<1>2. PICK k \in 0 .. Len(Sizes) :
        FirstRegions(k) /\ k < Len(Sizes) /\ NextIs(HeaderOf(k + 1), 1)
  BY <1>1, FirstCell DEF AtHeader
<1>3. k + 1 \in Regions /\ ~(k + 1 <= k)
  BY <1>2, BlockSizes DEF Regions
<1>4. /\ HeaderOf(k + 1) \in 1 .. LastBlock /\ Wanted = Size(HeaderOf(k + 1))
  BY <1>1, <1>3, BlockSizes DEF Wanted
<1>5. CASE Short
  <2>1. pos < Len(file)
    BY <1>1, <1>2, <1>4, <1>5, ItemIsThere DEF Short
  <2> QED BY <1>1, <1>5, <2>1 DEF HeaderRefused, AtEnd, TypeOK, losses
<1>6. CASE ~Short
  <2>1. buf = Whole(HeaderOf(k + 1))
    BY <1>1, <1>2, <1>4, <1>6, WholeRead DEF Short
  <2>2. memory[k + 1] = Unmapped
    BY <1>2, <1>3 DEF FirstRegions
  <2> QED BY <1>3, <1>6, <2>1, <2>2 DEF HeaderRefused, losses
<1> QED BY <1>5, <1>6

LEMMA EndsEarlyCut ==
  ASSUME IInv, EndsEarly
  PROVE  cut \/ readErrors > 0
<1> SUFFICES ASSUME ~cut, ~(readErrors > 0) PROVE FALSE
  OBVIOUS
<1>1. /\ TypeOK /\ InOrder(file) /\ AtWriter /\ Buffered /\ Complete
      /\ NotStarted \/ AtData
      /\ want \in {"ctx", "data"} /\ Len(buf) < Wanted /\ pos = Len(file)
  BY DEF IInv, EndsEarly, Reading, Short, AtEnd, AtReader, AtHeader, Lost, Complete, losses
<1>2. pos \in Nat
  BY <1>1 DEF TypeOK
<1>3. CASE NotStarted
  <2>1. file # <<>> /\ Len(file) \in Nat \ {0}
    <3>1. file # <<>>
      BY <1>1, BlockSizes DEF Complete, AtWriter, TypeOK
    <3> QED BY <1>1, <3>1, EmptySeq DEF TypeOK
  <2>2. NextIs(1, 1)
    BY <1>1, <1>3, <2>1 DEF NotStarted, NextIs, InOrder
  <2>3. 1 \in 1 .. LastBlock /\ Wanted = Size(1)
    BY <1>3, BlockSizes DEF NotStarted, Wanted
  <2> QED BY <1>1, <1>2, <2>2, <2>3, ItemIsThere
<1>4. CASE AtData
  <2>1. NextIs(DataOf(region), 1) /\ want = "data" /\ region \in Regions
    BY <1>1, <1>4 DEF AtData, Buffered
  <2>2. DataOf(region) \in 1 .. LastBlock /\ Wanted = Size(DataOf(region))
    BY <2>1, BlockSizes DEF Wanted
  <2> QED BY <1>1, <1>2, <2>1, <2>2, ItemIsThere
<1> QED BY <1>1, <1>3, <1>4

\* Reading on from inside a header, short or whole.
LEMMA SkippedCells ==
  ASSUME TypeOK, Buffered, Complete, want = "data", LostAtData
  PROVE  pos < Len(file) /\ \A q \in Regions : file[pos + 1] # <<HeaderOf(q), 1>>
<1>1. PICK j \in 2 .. HeaderSize : NextIs(HeaderOf(region), j)
  BY DEF LostAtData
<1>2. region \in Regions /\ Wanted = Sizes[region]
  BY DEF Buffered, Wanted
<1>3. PICK m \in 0 .. Sizes[region] : m = Len(buf)
  <2>1. buf \in Seq(Cell) /\ Len(buf) <= Sizes[region] /\ Sizes[region] \in Nat
    BY <1>2, BlockSizes DEF TypeOK, Buffered
  <2> QED BY <2>1
<1>4. pos \in Nat /\ Len(file) \in Nat /\ Len(buf) <= pos /\ m \in Nat
  BY <1>2, <1>3, BlockSizes DEF TypeOK, Buffered
<1>5. PICK s \in Nat : s = ItemStart /\ pos = s + m
  <2>1. PICK s \in Nat : s = pos - m /\ pos = s + m
    BY <1>3, <1>4
  <2> QED BY <1>3, <2>1 DEF ItemStart
<1>6. PICK p \in 1 .. Len(file) : p = s + 1 /\ file[p] = <<HeaderOf(region), j>>
  BY <1>1, <1>4, <1>5 DEF NextIs
<1>7. p + m <= Len(file) /\ \A q \in Regions : file[p + m] # <<HeaderOf(q), 1>>
  BY <1>2, <1>6, LostStaysLost
<1>8. p + m = pos + 1
  BY <1>4, <1>5, <1>6
<1> QED BY <1>4, <1>7, <1>8

LEMMA DataReadIInv ==
  ASSUME IInv, TypeOK', DataRead
  PROVE  Buffered' /\ AtReader'
<1>1. /\ TypeOK /\ InOrder(file) /\ AtWriter /\ Buffered
      /\ phase = "reading" /\ want = "data" /\ region \in Regions
      /\ ~(Len(buf) < Wanted) /\ (AtData \/ Lost)
  BY DEF IInv, DataRead, Reading, Enough, Short, AtReader, NotStarted, AtHeader, Buffered, losses
<1>2. /\ phase' = "reading" /\ want' = "header" /\ buf' = <<>>
      /\ memory' = [memory EXCEPT ![region] = buf]
      /\ UNCHANGED <<file, pos, cut, readErrors>>
  BY <1>1 DEF DataRead, Fill, Expect, bounds, losses
<1>3. /\ Buffered' /\ (NothingLeft' <=> pos = Len(file))
      /\ \A b, i : NextIs(b, i)' <=> pos < Len(file) /\ file[pos + 1] = <<b, i>>
  BY <1>1, <1>2, NextItem
<1>4. ~cut => Complete
  BY <1>1 DEF Complete
<1>5. pos \in Nat /\ Len(file) \in Nat
  BY <1>1 DEF TypeOK
<1>6. CASE Lost
  <2>1. CASE cut
    BY <1>2, <1>3, <1>6, <2>1 DEF AtReader, Lost
  <2>2. CASE ~cut
    <3>1. pos < Len(file) /\ \A q \in Regions : file[pos + 1] # <<HeaderOf(q), 1>>
      BY <1>1, <1>4, <1>6, <2>2, SkippedCells DEF Lost, LostAtHeader
    <3>2. LostAtHeader'
      BY <1>2, <1>3, <1>5, <3>1 DEF LostAtHeader
    <3> QED BY <1>2, <1>3, <1>6, <3>2 DEF AtReader, Lost
  <2> QED BY <2>1, <2>2
<1>7. CASE AtData
  <2>1. /\ DataOf(region) \in 1 .. LastBlock /\ Wanted = Size(DataOf(region))
        /\ Size(DataOf(region)) \in Nat \ {0} /\ region \in Nat
    BY <1>1, BlockSizes DEF Wanted, Regions
  <2>2. NextIs(DataOf(region), 1)
    <3>1. Len(buf) # 0
      <4>1. PICK w \in Nat \ {0} : w = Wanted
        BY <2>1
      <4>2. ~(Len(buf) < w)
        BY <1>1, <4>1
      <4> QED BY <4>2
    <3>2. ~NothingLeft
      BY <1>1, <3>1, FirstCell, EmptySeq
    <3> QED BY <1>7, <3>2 DEF AtData
  <2>3. /\ buf = Whole(DataOf(region))
        /\ pos = Len(file) \/
             (pos < Len(file) /\ DataOf(region) < LastBlock
                /\ file[pos + 1] = <<DataOf(region) + 1, 1>>)
        /\ Complete /\ DataOf(region) < LastBlock => pos < Len(file)
    BY <1>1, <2>1, <2>2, WholeRead
  <2>4. /\ DataOf(region) < LastBlock <=> region < Len(Sizes)
        /\ DataOf(region) + 1 = HeaderOf(region + 1)
        /\ region \in 0 .. Len(Sizes)
    BY <1>1, BlockSizes DEF DataOf, HeaderOf, LastBlock, Regions
  <2>5. FirstRegions(region)'
    <3>1. ASSUME NEW q \in Regions
          PROVE  memory'[q] = IF q <= region THEN Whole(DataOf(q)) ELSE Unmapped
      <4>1. memory[q] = IF q <= region - 1 THEN Whole(DataOf(q)) ELSE Unmapped
        BY <1>7 DEF AtData, FirstRegions
      <4>2. memory'[q] = IF q = region THEN Whole(DataOf(region)) ELSE memory[q]
        BY <1>1, <1>2, <2>3 DEF TypeOK
      <4>3. q # region => (q <= region - 1 <=> q <= region)
        BY <1>1 DEF Regions
      <4>4. q = region => q <= region
        BY <1>1 DEF Regions
      <4> QED BY <4>1, <4>2, <4>3, <4>4
    <3>2. region' = region
      BY DEF DataRead, Fill, losses
    <3> QED BY <3>1, <3>2 DEF FirstRegions
  <2>6. PICK k \in 0 .. Len(Sizes) : k = region
    BY <2>4
  <2>7. FirstRegions(k)'
    BY <2>5, <2>6 DEF DataRead, Fill, FirstRegions, losses
  <2>8. NothingLeft' \/ (k < Len(Sizes) /\ NextIs(HeaderOf(k + 1), 1)')
    BY <1>3, <2>3, <2>4, <2>6
  <2>9. NothingLeft' /\ ~cut' => k = Len(Sizes)
    <3>1. NothingLeft' => ~(pos < Len(file))
      BY <1>3, <1>5
    <3>2. k < Len(Sizes) \/ k = Len(Sizes)
      BY <2>6, BlockSizes
    <3> QED BY <1>2, <1>4, <2>3, <2>4, <2>6, <3>1, <3>2
  <2>10. AtHeader'
    BY <1>2, <2>7, <2>8, <2>9 DEF AtHeader
  <2> QED BY <1>2, <1>3, <2>10 DEF AtReader
<1> QED BY <1>1, <1>6, <1>7

\* After data that came only in part the reader is inside them.
LEMMA DataReadFailsIInv ==
  ASSUME IInv, TypeOK', DataReadFails
  PROVE  Buffered' /\ AtReader'
<1>1. /\ TypeOK /\ InOrder(file) /\ AtWriter /\ Buffered
      /\ phase = "reading" /\ want = "data" /\ region \in Regions
      /\ Len(buf) < Wanted /\ (AtData \/ Lost)
  BY DEF IInv, DataReadFails, FailingRead, Reading, Short, AtReader, NotStarted, AtHeader,
         Buffered, losses
<1>2. /\ phase' = "reading" /\ want' = "header" /\ buf' = <<>> /\ readErrors' > 0
      /\ UNCHANGED <<file, pos, cut>>
  BY <1>1 DEF DataReadFails, FailingRead, Fill, Expect, TypeOK, losses
<1>3. /\ Buffered' /\ (NothingLeft' <=> pos = Len(file))
      /\ \A b, i : NextIs(b, i)' <=> pos < Len(file) /\ file[pos + 1] = <<b, i>>
  BY <1>1, <1>2, NextItem
<1>4. CASE cut
  BY <1>2, <1>3, <1>4 DEF AtReader, Lost
<1>5. CASE ~cut
  <2>1. Complete
    BY <1>1, <1>5 DEF Complete
  <2>2. pos < Len(file) /\ \A q \in Regions : file[pos + 1] # <<HeaderOf(q), 1>>
    <3>1. CASE Lost
      BY <1>1, <1>5, <2>1, <3>1, SkippedCells DEF Lost, LostAtHeader
    <3>2. CASE AtData
      <4>1. NextIs(DataOf(region), 1)
        BY <1>5, <3>2 DEF AtData
      <4>2. DataOf(region) \in 1 .. LastBlock /\ Wanted = Size(DataOf(region))
        BY <1>1, BlockSizes DEF Wanted
      <4>3. pos < Len(file) /\ file[pos + 1] = <<DataOf(region), Len(buf) + 1>>
        BY <1>1, <2>1, <4>1, <4>2, ItemIsThere
      <4>4. \A q \in Regions : HeaderOf(q) # DataOf(region)
        BY <1>1 DEF HeaderOf, DataOf, Regions
      <4> QED BY <4>3, <4>4
    <3> QED BY <1>1, <3>1, <3>2
  <2>3. pos \in Nat /\ Len(file) \in Nat
    BY <1>1 DEF TypeOK
  <2>4. LostAtHeader'
    BY <1>2, <1>3, <2>2, <2>3 DEF LostAtHeader
  <2> QED BY <1>2, <1>3, <2>4 DEF AtReader, Lost
<1> QED BY <1>4, <1>5

\* A reader that only ends, opens or waits.
LEMMA ReaderRests ==
  ASSUME IInv, TypeOK', UNCHANGED <<file, cut, reader>>, UNCHANGED readErrors,
         phase' \in {"reading", "restored"} => AtItem,
         phase' = "restored" => want = "header" /\ NothingLeft,
         phase' = "refused" => cut \/ readErrors > 0, phase' \notin {"writing", "written"}
  PROVE  Buffered' /\ AtReader'
<1>1. Buffered /\ UNCHANGED <<pos, want, buf, region, memory>>
  BY DEF IInv, reader
<1>2. ItemStart' = ItemStart
  BY <1>1 DEF ItemStart
<1>3. (AtItem => AtItem') /\ (NothingLeft => NothingLeft')
  BY <1>1, <1>2, SameItem
<1>4. Wanted' = Wanted
  BY <1>1 DEF Wanted
<1>5. Buffered'
  BY <1>1, <1>2, <1>4 DEF Buffered
<1> QED BY <1>1, <1>3, <1>5 DEF AtReader, AtItem

LEMMA ReaderIInv ==
  ASSUME IInv, ReaderStep
  PROVE  IInv'
<1>1. TypeOK /\ InOrder(file) /\ AtWriter /\ Buffered /\ AtReader
  BY DEF IInv
<1>2. TypeOK'
  BY <1>1, ReaderType
<1>3. phase # "writing" /\ phase' # "writing" /\ UNCHANGED <<file, cut, writer>>
  <2>1. CASE Open \/ EndsEarly \/ EndsWell \/ HeaderRefused
    BY <2>1 DEF Open, EndsEarly, EndsWell, HeaderRefused, Refuse, Reading, losses
  <2>2. CASE ReadInterrupted \/ \E n \in 1 .. Wanted - Len(buf) : Read(n)
    BY <2>2 DEF ReadInterrupted, Read, Short, losses
  <2>3. CASE CtxRead \/ HeaderRead \/ DataRead
    BY <2>3 DEF CtxRead, HeaderRead, DataRead, Fill, Reading, losses
  <2>4. CASE ReadFails \/ HeaderHalfRead \/ DataReadFails
    BY <2>4 DEF ReadFails, HeaderHalfRead, DataReadFails, Fill, Reading, losses
  <2> QED BY <2>1, <2>2, <2>3, <2>4 DEF ReaderStep
<1>4. InOrder(file)' /\ AtWriter'
  BY <1>1, <1>3 DEF AtWriter, writer, InOrder, Holds
<1>5. Buffered' /\ AtReader'
  <2>1. CASE Open
    <3>1. phase' = "reading" /\ AtItem /\ UNCHANGED <<file, cut, reader, readErrors>>
      BY <1>1, <2>1 DEF Open, AtReader, AtItem, bounds, losses
    <3> QED BY <1>2, <3>1, ReaderRests
  <2>2. CASE \E n \in 1 .. Wanted - Len(buf) : Read(n)
    <3>1. PICK n \in 1 .. Wanted - Len(buf) : Read(n)
      BY <2>2
    <3>2. /\ phase = "reading" /\ phase' = "reading"
          /\ UNCHANGED <<file, cut, want, region, memory, readErrors>>
      BY <3>1 DEF Read, Short, bounds, losses
    <3>3. Buffered' /\ ItemStart' = ItemStart
      BY <1>1, <1>2, <3>1, ReadBuffers
    <3>4. AtItem'
      BY <1>1, <3>2, <3>3, SameItem DEF AtReader, AtItem
    <3> QED BY <3>2, <3>3, <3>4 DEF AtReader, AtItem
  <2>3. CASE ReadInterrupted
    <3>1. phase' = "reading" /\ AtItem /\ UNCHANGED <<file, cut, reader, readErrors>>
      BY <1>1, <2>3 DEF ReadInterrupted, Short, AtReader, AtItem, losses
    <3> QED BY <1>2, <3>1, ReaderRests
  <2>4. CASE HeaderRefused
    <3>1. phase' = "refused" /\ UNCHANGED <<file, cut, reader, readErrors>>
      BY <2>4 DEF HeaderRefused, Refuse, bounds, losses
    <3> QED BY <1>2, <2>4, <3>1, HeaderRefusedCut, ReaderRests
  <2>5. CASE EndsEarly
    <3>1. phase' = "refused" /\ UNCHANGED <<file, cut, reader, readErrors>>
      BY <2>5 DEF EndsEarly, Refuse, bounds, losses
    <3> QED BY <1>2, <2>5, <3>1, EndsEarlyCut, ReaderRests
  <2>6. CASE EndsWell
    <3>1. /\ phase' = "restored" /\ AtItem /\ want = "header"
          /\ UNCHANGED <<file, cut, reader, readErrors>>
      BY <1>1, <2>6 DEF EndsWell, Reading, AtReader, AtItem, bounds, losses
    <3>2. NothingLeft
      <4>1. Len(buf) = 0 /\ pos = Len(file)
        BY <2>6 DEF EndsWell, AtEnd, losses
      <4>2. pos - Len(buf) = pos
        <5>1. pos \in Nat /\ Len(buf) = 0
          BY <1>1, <4>1 DEF TypeOK
        <5> QED BY <5>1
      <4> QED BY <4>1, <4>2 DEF NothingLeft, ItemStart
    <3> QED BY <1>2, <3>1, <3>2, ReaderRests
  <2>7. CASE ReadFails
    <3>1. phase' = "refused" /\ readErrors' > 0 /\ UNCHANGED <<file, reader>>
      BY <1>1, <2>7 DEF ReadFails, FailingRead, TypeOK, losses
    <3>2. UNCHANGED <<pos, want, buf, region>>
      BY <3>1 DEF reader
    <3>3. Buffered'
      BY <1>1, <3>1, <3>2 DEF Buffered, ItemStart, Wanted
    <3> QED BY <3>1, <3>3 DEF AtReader
  <2>8. CASE CtxRead
    BY <1>2, <2>8, CtxReadIInv
  <2>9. CASE HeaderRead
    BY <1>2, <2>9, HeaderReadIInv
  <2>10. CASE DataRead
    BY <1>2, <2>10, DataReadIInv
  <2>11. CASE HeaderHalfRead
    BY <1>2, <2>11, HeaderHalfReadIInv
  <2>12. CASE DataReadFails
    BY <1>2, <2>12, DataReadFailsIInv
  <2> QED BY <2>1, <2>2, <2>3, <2>4, <2>5, <2>6, <2>7, <2>8, <2>9, <2>10, <2>11, <2>12
          DEF ReaderStep
<1> QED BY <1>2, <1>4, <1>5 DEF IInv

\* A step that leaves all as it is.
LEMMA SameIInv ==
  ASSUME IInv, UNCHANGED vars
  PROVE  IInv'
<1>1. /\ UNCHANGED <<phase, file, cut, block, done, holed, intact>>
      /\ UNCHANGED <<pos, want, buf, region, memory, interrupts, readErrors>>
  BY DEF vars, writer, reader, bounds, losses
<1>2. TypeOK'
  BY <1>1 DEF IInv, TypeOK
<1>3. InOrder(file)'
  BY <1>1 DEF IInv, InOrder, Holds
<1>4. AtWriter'
  BY <1>1 DEF IInv, AtWriter
<1>5. ItemStart' = ItemStart /\ Wanted' = Wanted
  BY <1>1 DEF ItemStart, Wanted
<1>6. Buffered'
  BY <1>1, <1>5 DEF IInv, Buffered
<1>7. (AtItem => AtItem') /\ (NothingLeft => NothingLeft')
  BY <1>1, <1>5, SameItem
<1>8. NotStarted => NotStarted'
  BY <1>1, <1>5 DEF NotStarted, FirstRegions
<1>9. AtReader'
  BY <1>1, <1>7, <1>8 DEF IInv, AtReader, AtItem
<1> QED BY <1>2, <1>3, <1>4, <1>6, <1>9 DEF IInv

\* The writer, whatever has been lost.
LEMMA WriterAnyFile ==
  ASSUME AnyFile, WriterStep \/ Crash
  PROVE  AnyFile'
<1>1. TypeOK /\ TypeOK' /\ InBlock /\ Buffered /\ Waits /\ (holed => cut)
  BY WriterType DEF AnyFile
<1>2. /\ phase \in {"writing", "written"} /\ phase' \in {"writing", "written"}
      /\ UNCHANGED reader
  BY DEF WriterStep, Write, WriteInterrupted, WriteFails, Close, Crash, Writing, bounds
<1>3. /\ pos' = 0 /\ buf' = <<>> /\ want' = "ctx" /\ Len(buf') = 0 /\ Len(file') \in Nat
  BY <1>1, <1>2 DEF Waits, reader, TypeOK
<1>4. Buffered' /\ Waits'
  BY <1>3, ImageAssumption DEF Buffered, Waits, Wanted
<1>5. InBlock' /\ (holed' => cut')
  <2>1. CASE \E n \in 1 .. Size(block) - done : Write(n)
    <3>1. PICK n \in 1 .. Size(block) - done : Write(n)
      BY <2>1
    <3>2. (block' = block /\ done' < Size(block)) \/ (block' = block + 1 /\ done' = 0)
      BY <3>1 DEF Write, NextBlock
    <3>3. block + 1 \in 1 .. LastBlock \/ ~(block + 1 <= LastBlock)
      BY <1>1, BlockSizes DEF TypeOK
    <3>4. block + 1 <= LastBlock => Size(block + 1) \in Nat \ {0}
      BY <3>3, BlockSizes
    <3>5. block + 1 <= LastBlock => 0 < Size(block + 1)
      BY <3>4
    <3> QED BY <3>1, <3>2, <3>5 DEF InBlock, Write
  <2>2. CASE WriteFails
    <3>1. block' = block + 1 /\ done' = 0 /\ cut'
      BY <2>2 DEF WriteFails, NextBlock
    <3>2. block' <= LastBlock => 0 < Size(block')
      BY <1>1, <3>1, BlockSizes DEF TypeOK
    <3> QED BY <3>1, <3>2 DEF InBlock
  <2>3. CASE WriteInterrupted \/ Close \/ Crash
    BY <1>1, <2>3 DEF WriteInterrupted, Close, Crash, InBlock, writer, losses
  <2> QED BY <2>1, <2>2, <2>3 DEF WriterStep
<1> QED BY <1>1, <1>4, <1>5 DEF AnyFile

\* The reader, whatever has been lost.
LEMMA ReaderAnyFile ==
  ASSUME AnyFile, ReaderStep
  PROVE  AnyFile'
<1>1. TypeOK /\ TypeOK' /\ InBlock /\ Buffered /\ (holed => cut)
  BY ReaderType DEF AnyFile
<1>2. phase' \notin {"writing", "written"} /\ UNCHANGED <<file, losses, writer>>
  <2>1. CASE Open \/ EndsEarly \/ EndsWell \/ HeaderRefused
    BY <2>1 DEF Open, EndsEarly, EndsWell, HeaderRefused, Refuse, Reading
  <2>2. CASE ReadInterrupted \/ \E n \in 1 .. Wanted - Len(buf) : Read(n)
    BY <2>2 DEF ReadInterrupted, Read, Short
  <2>3. CASE CtxRead \/ HeaderRead \/ DataRead
    BY <2>3 DEF CtxRead, HeaderRead, DataRead, Fill, Reading
  <2>4. CASE ReadFails \/ HeaderHalfRead \/ DataReadFails
    BY <2>4 DEF ReadFails, HeaderHalfRead, DataReadFails, Fill, Reading
  <2> QED BY <2>1, <2>2, <2>3, <2>4 DEF ReaderStep
<1>3. Waits' /\ InBlock' /\ (holed' => cut')
  BY <1>1, <1>2 DEF Waits, InBlock, writer, losses
<1>4. ASSUME UNCHANGED reader PROVE Buffered'
  BY <1>1, <1>2, <1>4 DEF Buffered, ItemStart, Wanted, reader
<1>5. Buffered'
  <2>1. CASE \/ Open \/ ReadInterrupted \/ HeaderRefused
             \/ EndsEarly \/ EndsWell \/ ReadFails
    BY <1>4, <2>1 DEF Open, ReadInterrupted, HeaderRefused, EndsEarly, EndsWell, ReadFails, Refuse
  <2>2. CASE \E n \in 1 .. Wanted - Len(buf) : Read(n)
    BY <1>1, <2>2, ReadBuffers
  <2>3. CASE CtxRead \/ HeaderRead \/ HeaderHalfRead
    <3>1. /\ UNCHANGED <<file, pos>> /\ buf' = <<>>
          /\ want' = "data" => region' \in Regions
      BY <2>3 DEF CtxRead, HeaderRead, HeaderHalfRead, Expect
    <3> QED BY <1>1, <3>1, NextItem
  <2>4. CASE DataRead \/ DataReadFails
    <3>1. UNCHANGED <<file, pos>> /\ buf' = <<>> /\ want' = "header"
      BY <2>4 DEF DataRead, DataReadFails, Fill, Expect
    <3> QED BY <1>1, <3>1, NextItem
  <2> QED BY <2>1, <2>2, <2>3, <2>4 DEF ReaderStep
<1> QED BY <1>1, <1>3, <1>5 DEF AnyFile

LEMMA Invariance == Spec => []Inv
<1>1. Init => Inv
  <2> SUFFICES ASSUME Init PROVE Inv
    OBVIOUS
  <2>1. IInv
    BY InitIInv
  <2>2. InBlock /\ Waits /\ ~holed
    BY <2>1 DEF Init, Waits, InBlock, IInv, AtWriter
  <2> QED BY <2>1, <2>2 DEF Inv, AnyFile, IInv
<1>2. ASSUME Inv, [Next]_vars
      PROVE  Inv'
  <2>1. AnyFile'
    <3>1. CASE UNCHANGED vars
      <4>1. /\ UNCHANGED <<phase, file, cut, block, done, holed, intact>>
            /\ UNCHANGED <<pos, want, buf, region, memory, interrupts, readErrors>>
        BY <3>1 DEF vars, writer, reader, bounds, losses
      <4>2. TypeOK' /\ InBlock' /\ Waits' /\ (holed' => cut')
        BY <1>2, <4>1 DEF Inv, AnyFile, TypeOK, InBlock, Waits
      <4>3. Buffered'
        BY <1>2, <4>1 DEF Inv, AnyFile, Buffered, ItemStart, Wanted
      <4> QED BY <4>2, <4>3 DEF AnyFile
    <3> QED BY <1>2, <3>1, WriterAnyFile, ReaderAnyFile DEF Next, Inv
  <2>2. ASSUME ~holed' PROVE IInv'
    <3>1. ~holed
      <4>1. CASE WriterStep \/ Crash
        <5>1. holed' = cut \/ holed' = holed
          BY <4>1 DEF WriterStep, Write, WriteInterrupted, WriteFails, Close, Crash, losses
        <5> QED BY <1>2, <2>2, <5>1 DEF Inv, AnyFile
      <4>2. CASE ReaderStep \/ UNCHANGED vars
        BY <2>2, <4>2
        DEF ReaderStep, Open, Read, ReadInterrupted, CtxRead, HeaderRead, HeaderRefused,
            Refuse, DataRead, Fill, EndsEarly, EndsWell, ReadFails, HeaderHalfRead,
            DataReadFails, vars, losses
      <4> QED BY <1>2, <4>1, <4>2 DEF Next
    <3>2. IInv
      BY <1>2, <3>1 DEF Inv
    <3> QED BY <1>2, <2>2, <3>2, WriterIInv, ReaderIInv, SameIInv DEF Next
  <2> QED BY <2>1, <2>2 DEF Inv
<1> QED BY <1>1, <1>2, PTL DEF Spec
-----------------------------------------------------------------------------
(* The results.                                                            *)

\* Every variable has its type; the reader's offset never passes the end of the
\* file, and what comes into a region's memory is cells of the file, or the
\* zeroes of fresh pages (writeAll and readAll, utils.c:9-53, and
\* restoreMemoryRegion, mem-restore.c).
THEOREM TypeCorrect == Spec => []TypeOK
<1>1. Inv => TypeOK
  BY DEF Inv, AnyFile
<1> QED BY <1>1, Invariance, PTL

\* An image that nothing cut short comes back whole from a restart without read
\* errors, whatever parts the system calls transfer and however often they are
\* interrupted: no block is taken for another one, no cell is lost or read twice
\* (the loops of writeAll and readAll, utils.c:9-53).
THEOREM ComesBackWhole == Spec => []WholeComesBack
<1>1. ASSUME Inv
      PROVE  WholeComesBack
  <2> SUFFICES ASSUME Ended, ~cut, readErrors = 0
               PROVE  phase = "restored" /\ \A r \in Regions : memory[r] = Whole(DataOf(r))
    BY DEF WholeComesBack
  <2>1. ~(readErrors > 0)
    OBVIOUS
  <2>2. phase = "restored" /\ want = "header" /\ NothingLeft /\ AtHeader
    BY <1>1, <2>1 DEF Inv, AnyFile, IInv, AtReader, Ended, NotStarted, AtData, Lost
  <2>3. FirstRegions(Len(Sizes))
    BY <2>2 DEF AtHeader
  <2> QED BY <2>2, <2>3, BlockSizes DEF FirstRegions, Regions
<1> QED BY <1>1, Invariance, PTL

\* A restart that succeeds from an image that was cut short, or else in spite of
\* failing reads, has the first regions as they were saved and nothing of the
\* others, as long as no write succeeded after one that failed: the unchecked
\* end of the writer and the comparison of -1 with a size_t (mem-restore.c:182)
\* never give a region with a part of its data.
THEOREM RestoresPrefix == Spec => []RestoredIsPrefix
<1>1. ASSUME Inv
      PROVE  RestoredIsPrefix
  <2> SUFFICES ASSUME phase = "restored", ~holed, ~cut \/ readErrors = 0
               PROVE  \E k \in 0 .. Len(Sizes) : FirstRegions(k)
    BY DEF RestoredIsPrefix, FirstRegions
  <2>1. ~cut \/ ~(readErrors > 0)
    OBVIOUS
  <2>2. want = "header" /\ NothingLeft /\ AtHeader
    BY <1>1, <2>1
    DEF Inv, IInv, AtReader, NotStarted, AtData, Lost, LostAtHeader, LostAtData
  <2> QED BY <2>2 DEF AtHeader
<1> QED BY <1>1, Invariance, PTL
=============================================================================
